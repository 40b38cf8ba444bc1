------------------------------- MODULE JobQueue -------------------------------
(***************************************************************************)
(* What the thread pool promises to the code that submits jobs, with no    *)
(* threads, locks or semaphores: jobs wait in one queue, newest first, the *)
(* oldest one is started next, a started job is finished, and a job leaves *)
(* the queue in no other way.                                              *)
(*                                                                         *)
(* A job is submitted once, so a behaviour of this specification starts    *)
(* each job at most once.                                                  *)
(***************************************************************************)
EXTENDS SequencesExt

CONSTANT Jobs       \* the (function, argument) pairs that may be submitted

VARIABLES
  queue,            \* waiting jobs, newest first
  submitted,        \* every job ever accepted
  running,          \* jobs handed to a thread and not yet finished
  finished          \* jobs whose function has returned

vars == <<queue, submitted, running, finished>>

TypeOK ==
  /\ queue \in Seq(Jobs)
  /\ submitted \in SUBSET Jobs
  /\ running \in SUBSET Jobs
  /\ finished \in SUBSET Jobs

Init ==
  /\ queue = <<>>
  /\ submitted = {}
  /\ running = {}
  /\ finished = {}

Submit(j) ==
  /\ j \notin submitted
  /\ submitted' = submitted \cup {j}
  /\ queue' = <<j>> \o queue
  /\ UNCHANGED <<running, finished>>

StartOldest ==
  /\ queue # <<>>
  /\ queue' = Front(queue)
  /\ running' = running \cup {Last(queue)}
  /\ UNCHANGED <<submitted, finished>>

Finish(j) ==
  /\ j \in running
  /\ running' = running \ {j}
  /\ finished' = finished \cup {j}
  /\ UNCHANGED <<queue, submitted>>

Next ==
  \/ \E j \in Jobs : Submit(j) \/ Finish(j)
  \/ StartOldest

Spec == Init /\ [][Next]_vars
===============================================================================
