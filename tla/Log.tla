---------------------------------- MODULE Log ----------------------------------
(***************************************************************************)
(* framework/log/my_log.c: MyPrintLog puts lines into a cache; a cache     *)
(* that is full, or old, is appended to the log file; a file that is full  *)
(* is renamed to .bak and posted to a thread (MyLogCycleThread), which     *)
(* gives it a name with the time, archives it with tar under an index that *)
(* goes round, and removes it.  The same thread ages the cache.            *)
(*                                                                         *)
(* Grain of the steps.  WriteLogToCache holds g_logMutex from its first    *)
(* line to its last and is one step; MyLogDeinit holds it while it sleeps  *)
(* and is two.  MyLogInit holds g_initMutex, which nobody blocks under.    *)
(* The archive thread holds no lock: each of its calls that touches a file *)
(* or a shared variable is a step.                                         *)
(*                                                                         *)
(* A line is its number in the order in which WriteLogToCache took them,   *)
(* and a file is the set of lines in it: text is only ever appended.       *)
(***************************************************************************)
EXTENDS Integers, FiniteSets

CONSTANTS
  Printers,           \* the threads that call the functions of my_log.h
  Cyclers,            \* the archive threads of one process
  MaxLines,           \* bound: lines printed
  LineLen,            \* what vsnprintf says of their lengths
  LineMax,            \* LOG_LINE_MAX
  CacheSize,          \* LOG_CACHE_SIZE
  FileSize,           \* g_logCfg.size
  FileNum,            \* g_logCfg.maxFileNum
  StartLines,         \* lines MyLogInitSuccessLog prints
  DefaultLevel,       \* LOG_DEFAULT_LEVEL
  DebugLevel,         \* DEBUG_LEVEL
  Levels,             \* others: of the file, or given to MyLogSetLevel
  Seconds,            \* the times a time file can have in its name
  MaxFd,              \* bound: descriptors the process can leak
  MaxDeinits,         \* bound: calls of MyLogDeinit
  MaxFaults,          \* bound: crashes, and failures of the file system
  None

ASSUME ConstantsAssumption ==
  /\ MaxLines \in Nat /\ LineMax \in Nat /\ CacheSize \in Nat /\ FileSize \in Nat
  /\ LineLen \in [1 .. MaxLines -> Nat \ {0}]
  /\ LineMax < CacheSize
  /\ FileNum \in Nat \ {0} /\ StartLines \in Nat
  /\ DefaultLevel \in Nat /\ DebugLevel \in Nat /\ Levels \subseteq Nat
  /\ MaxFd \in Nat /\ MaxDeinits \in Nat /\ MaxFaults \in Nat
  /\ None \notin Printers \cup Seconds

VARIABLES
  isInit,             \* g_isInit
  isRunning,          \* g_isRunning
  logMutex,           \* who holds g_logMutex between two steps, or None
  cfg,                \* g_logCfg, see Configurations
  level,              \* g_logCfg.level
  cache,              \* the lines in g_logCache ...
  offset,             \* ... and offset, WriteLogToCache's count of bytes
  overrun,            \* bytes after g_logCache have been written
  late,               \* the last flush is more than LOG_TIME_OUT ago
  logFd,              \* g_logFd is not -1
  sem,                \* g_timedSem
  leaked,             \* descriptors MyLogWriteIdxFile has left open
  callPc,             \* where a printer is
  toPrint,            \* lines of MyLogInitSuccessLog it has still to print
  cycPc,              \* where an archive thread is
  cycIndex,           \* its index
  cycTime,            \* the time in its timeLogFile
  hasFile, file, fileSize,      \* logName: it exists, its lines, st_size
  hasBak, bak,                  \* logBakName
  timeFile,           \* the lines of each timeLogFile
  archive,            \* the lines of each archive, {} if there is none
  printed,            \* history: lines WriteLogToCache has taken
  past,               \* history, see Pasts
  deinits, faults     \* how many there have been

callVars == <<callPc, toPrint>>
cycVars == <<cycPc, cycIndex, cycTime>>
cacheVars == <<cache, offset, late>>
liveFiles == <<hasFile, file, fileSize, hasBak, bak>>
oldFiles == <<timeFile, archive>>
countVars == <<printed, deinits, faults, overrun>>
vars == <<isInit, isRunning, logMutex, cfg, level, cacheVars, logFd, sem, leaked,
          callVars, cycVars, liveFiles, oldFiles, countVars, past>>

Lines == 1 .. MaxLines
Indices == 0 .. FileNum - 1
\* Mutant: a cache is flushed when it is over full.
FlushWhenOver == CacheSize

FlushSize == CacheSize - LineMax            \* LOG_FLUSH_SIZE_MAX

\* g_logCfg is zero, loaded but without its file names, or complete with an
\* output: OUTPUT_FILE_TYPE, OUTPUT_PRINT_TYPE or OUTPUT_MAX_TYPE, which
\* MyLogParseJsonCfg lets through.
Outputs == {"file", "print", "max"}
Configurations == {"zero", "unnamed"} \cup Outputs

\* Nothing can have been lost; something can, in the first run of the log;
\* the process has crashed or called MyLogDeinit.
Pasts == {"calm", "lossy", "restarted"}

Named == cfg \in Outputs
Running == \E c \in Cyclers : cycPc[c] # "none"
Stored == cache \cup file \cup bak \cup (UNION {timeFile[t] : t \in Seconds})
          \cup (UNION {archive[i] : i \in Indices})

FreshProcess ==
  /\ isInit = FALSE /\ isRunning = FALSE /\ logMutex = None
  /\ cfg = "zero" /\ level = 0
  /\ cache = {} /\ offset = 0 /\ late = TRUE
  /\ logFd = FALSE /\ sem = 0 /\ leaked = 0
  /\ callPc = [p \in Printers |-> "idle"]
  /\ toPrint = [p \in Printers |-> 0]
  /\ cycPc = [c \in Cyclers |-> "none"]
  /\ cycIndex = [c \in Cyclers |-> 0]
  /\ cycTime = [c \in Cyclers |-> None]

Init ==
  /\ FreshProcess
  /\ hasFile = FALSE /\ file = {} /\ fileSize = 0
  /\ hasBak = FALSE /\ bak = {}
  /\ timeFile = [t \in Seconds |-> {}]
  /\ archive = [i \in Indices |-> {}]
  /\ printed = 0 /\ past = "calm" /\ deinits = 0 /\ faults = 0 /\ overrun = FALSE

\* A step that can lose lines.
Lossy(lost) == past' = IF lost /\ past = "calm" THEN "lossy" ELSE past

\* A failure of the file system, within the bound.
Fails == faults < MaxFaults /\ faults' = faults + 1
-------------------------------------------------------------------------------
(***************************************************************************)
(* Writing.                                                                *)
(***************************************************************************)
\* WriteLogToFile's open().  Descriptors can run out, see NextIndex.
CanOpen == Named /\ leaked < MaxFd

\* The file is open, if it still has its name, or can be opened.
CanWrite == (logFd => hasFile) /\ (logFd \/ CanOpen)

\* close(), rename() of the file to .bak, in place of one that is there, and
\* sem_post().  If the log file stays, `left' is in it.
RotateTo(text, stays, left, posts) ==
  /\ logFd' = FALSE
  /\ hasFile' = stays /\ file' = left /\ fileSize' = 0
  /\ hasBak' = TRUE /\ bak' = text
  /\ sem' = sem + posts

\* Mutants: the file is copied and not renamed; there is no sem_post().
CopyToBak(text) == RotateTo(text, TRUE, text, 1)
RotateSilently(text) == RotateTo(text, FALSE, {}, 0)

Rotate(text) == RotateTo(text, FALSE, {}, 1)

\* The rest of WriteLogToFile, with `text' of `size' bytes in the open file.
RotateIfFull(text, size, written) ==
  \/ size > FileSize /\ Rotate(text) /\ Lossy(hasBak \/ ~written)
  \/ /\ size <= FileSize
     /\ logFd' = TRUE
     /\ hasFile' = TRUE /\ file' = text /\ fileSize' = size
     /\ Lossy(~written)
     /\ UNCHANGED <<hasBak, bak, sem>>

\* The rename() fails: the file stays, and there is a post without a .bak.
StayFull(text, size) ==
  /\ size > FileSize
  /\ logFd' = FALSE
  /\ hasFile' = TRUE /\ file' = text /\ fileSize' = size
  /\ sem' = sem + 1
  /\ Lossy(TRUE)
  /\ UNCHANGED <<hasBak, bak>>

\* A write() that fails is not noticed, nor is a rename().
WriteLogToFile(text, len) ==
  \/ /\ logFd /\ ~hasFile
     /\ logFd' = FALSE
     /\ UNCHANGED <<liveFiles, sem, past, faults>>
  \/ /\ ~logFd /\ ~CanOpen
     /\ Lossy(text # {})
     /\ UNCHANGED <<logFd, liveFiles, sem, faults>>
  \/ /\ CanWrite
     /\ \/ /\ RotateIfFull(file \cup text, fileSize + len, TRUE)
           /\ UNCHANGED faults
        \/ RotateIfFull(file, fileSize, FALSE) /\ Fails
        \/ StayFull(file \cup text, fileSize + len) /\ Fails
        \/ StayFull(file, fileSize) /\ Fails

Flushes(len) == offset + len > FlushSize \/ late
Fits(len) == offset + len <= CacheSize

\* `lines' is the line of a MyPrintLog, or nothing from the archive thread.
WriteLogToCache(lines, len) ==
  /\ logMutex = None /\ Fits(len)
  /\ IF Flushes(len)
     THEN /\ WriteLogToFile(cache \cup lines, offset + len)
          /\ cache' = {} /\ offset' = 0 /\ late' = FALSE
     ELSE /\ cache' = cache \cup lines /\ offset' = offset + len
          /\ UNCHANGED <<late, logFd, liveFiles, sem, past, faults>>

\* MyPrintLog looks at g_isInit and at g_logCfg.output without a lock.  The
\* level does not stop it, as `level == 0' is evaluated first.
MyPrintLog(p) ==
  /\ callPc[p] = "idle" /\ printed < MaxLines
  /\ toPrint' = [toPrint EXCEPT ![p] = IF @ > 0 THEN @ - 1 ELSE 0]
  /\ callPc' = [callPc EXCEPT ![p] = IF isInit THEN "format" ELSE @]
  /\ UNCHANGED <<isInit, isRunning, logMutex, cfg, level, cacheVars, logFd, sem,
                 leaked, cycVars, liveFiles, oldFiles, countVars, past>>

\* Lines of OUTPUT_PRINT_TYPE go to stdout.
Output(p) ==
  /\ callPc[p] = "format"
  /\ callPc' = [callPc EXCEPT ![p] = IF cfg = "print" THEN "idle" ELSE "write"]
  /\ UNCHANGED <<isInit, isRunning, logMutex, cfg, level, cacheVars, logFd, sem, leaked,
                 toPrint, cycVars, liveFiles, oldFiles, countVars, past>>

WriteLine(p) ==
  /\ callPc[p] = "write"
  /\ printed < MaxLines
  /\ printed' = printed + 1
  /\ WriteLogToCache({printed'}, LineLen[printed'])
  /\ callPc' = [callPc EXCEPT ![p] = "idle"]
  /\ UNCHANGED <<isInit, isRunning, logMutex, cfg, level, leaked, toPrint, cycVars,
                 oldFiles, deinits, overrun>>

\* strncpy writes as many bytes as vsnprintf says, and some are after the
\* cache.  What they are is undefined; the model ends here.
OverrunCache(p) ==
  /\ callPc[p] = "write"
  /\ printed < MaxLines
  /\ logMutex = None /\ ~Fits(LineLen[printed + 1])
  /\ overrun' = TRUE
  /\ UNCHANGED <<isInit, isRunning, logMutex, cfg, level, cacheVars, logFd, sem, leaked,
                 callVars, cycVars, liveFiles, oldFiles, printed, deinits, faults, past>>

\* MyLogSetLevel, which refuses a lower level.  MyLogGetLevel changes nothing.
MyLogSetLevel(p, v) ==
  /\ callPc[p] = "idle" /\ toPrint[p] = 0
  /\ v >= DebugLevel
  /\ logMutex = None
  /\ level' = v
  /\ UNCHANGED <<isInit, isRunning, logMutex, cfg, cacheVars, logFd, sem, leaked,
                 callVars, cycVars, liveFiles, oldFiles, countVars, past>>
-------------------------------------------------------------------------------
(***************************************************************************)
(* MyLogInit and MyLogDeinit.                                              *)
(***************************************************************************)
\* What both ends of MyLogInit have done: the text of the cache is cleared,
\* though not offset, and the semaphore starts again at 0.
MyLogInitStart(p) ==
  /\ callPc[p] = "idle" /\ toPrint[p] = 0
  /\ ~isInit
  /\ cache' = {} /\ sem' = 0
  /\ UNCHANGED <<isRunning, logMutex, offset, late, logFd, leaked, callPc, cycIndex,
                 cycTime, liveFiles, oldFiles, countVars, past>>

\* From the file, with defaults for what is missing in it or out of range, or
\* from MyLogLoadDefaultCfg; then MyLogPathCreate.
MyLogCfgLoad == cfg' \in Outputs /\ level' \in {DefaultLevel} \cup Levels

\* The thread may fail to start, which MyLogInit does not tell.
MyLogInit(p) ==
  /\ MyLogInitStart(p)
  /\ isInit' = TRUE
  /\ toPrint' = [toPrint EXCEPT ![p] = StartLines]
  /\ MyLogCfgLoad
  /\ \/ /\ cfg' = "file"
        /\ \E c \in Cyclers : /\ cycPc[c] = "none"
                              /\ cycPc' = [cycPc EXCEPT ![c] = "start"]
     \/ UNCHANGED cycPc

\* There is no process name, or no directory.
MyLogInitFails(p) ==
  /\ MyLogInitStart(p)
  /\ \/ cfg' = "zero" /\ level' = 0
     \/ cfg' = "unnamed" /\ level' = DefaultLevel
  /\ UNCHANGED <<isInit, toPrint, cycPc>>

DeinitBegin(p) ==
  /\ callPc[p] = "idle" /\ toPrint[p] = 0
  /\ deinits < MaxDeinits
  /\ logMutex = None
  /\ logMutex' = p
  /\ isRunning' = FALSE /\ isInit' = FALSE
  /\ callPc' = [callPc EXCEPT ![p] = "sleep"]
  /\ deinits' = deinits + 1 /\ past' = "restarted"
  /\ UNCHANGED <<cfg, level, cacheVars, logFd, sem, leaked, toPrint, cycVars,
                 liveFiles, oldFiles, printed, faults, overrun>>

\* After sleep(2).  The cache is not written, and offset is kept.
DeinitEnd(p) ==
  /\ callPc[p] = "sleep"
  /\ logFd' = FALSE
  /\ cfg' = "zero" /\ level' = 0 /\ cache' = {}
  /\ logMutex' = None
  /\ callPc' = [callPc EXCEPT ![p] = "idle"]
  /\ UNCHANGED <<isInit, isRunning, offset, late, sem, leaked, toPrint, cycVars,
                 liveFiles, oldFiles, countVars, past>>
-------------------------------------------------------------------------------
(***************************************************************************)
(* MyLogCycleThread.                                                       *)
(***************************************************************************)
At(c, pc) == cycPc[c] = pc

Goto(c, pc) == cycPc' = [cycPc EXCEPT ![c] = pc]

\* MyLogReadIdxFile truncates the file as it opens it, so it always says 0.
CycleStart(c) ==
  /\ At(c, "start") /\ Goto(c, "loop")
  /\ isRunning' = TRUE
  /\ cycIndex' = [cycIndex EXCEPT ![c] = 0]
  /\ UNCHANGED <<isInit, logMutex, cfg, level, cacheVars, logFd, sem, leaked, callVars,
                 cycTime, liveFiles, oldFiles, countVars, past>>

CycleLoop(c) ==
  /\ At(c, "loop")
  /\ Goto(c, IF isRunning THEN "wait" ELSE "none")
  /\ UNCHANGED <<isInit, isRunning, logMutex, cfg, level, cacheVars, logFd, sem, leaked,
                 callVars, cycIndex, cycTime, liveFiles, oldFiles, countVars, past>>

\* sem_timedwait returns, with a post or for LOG_TIME_OUT.
WakeTo(c, posted, timedOut) ==
  /\ At(c, "wait")
  /\ \/ sem > 0 /\ sem' = sem - 1 /\ Goto(c, posted)
     \/ sem = 0 /\ UNCHANGED sem /\ Goto(c, timedOut)
  /\ UNCHANGED <<isInit, isRunning, logMutex, cfg, level, cacheVars, logFd, leaked,
                 callVars, cycIndex, cycTime, liveFiles, oldFiles, countVars, past>>

\* Mutants: a wait that is over does not age the cache; a post is taken for one.
WakeIdle(c) == WakeTo(c, "rename", "loop")
WakeDeaf(c) == WakeTo(c, "flush", "flush")

Wake(c) == WakeTo(c, "rename", "flush")

CycleFlush(c) ==
  /\ At(c, "flush") /\ Goto(c, "loop")
  /\ WriteLogToCache({}, 0)
  /\ UNCHANGED <<isInit, isRunning, logMutex, cfg, level, leaked, callVars, cycIndex,
                 cycTime, oldFiles, printed, deinits, overrun>>

\* rename() of the .bak to its timeLogFile, in place of one with that time.
RenameBak(c) ==
  /\ At(c, "rename")
  /\ \/ /\ Named /\ hasBak
        /\ hasBak' = FALSE /\ bak' = {}
        /\ \E t \in Seconds : /\ timeFile' = [timeFile EXCEPT ![t] = bak]
                              /\ cycTime' = [cycTime EXCEPT ![c] = t]
        /\ Goto(c, "tar")
        /\ UNCHANGED <<faults, past>>
     \/ /\ \/ ~(Named /\ hasBak) /\ UNCHANGED <<faults, past>>
           \/ Fails /\ Lossy(TRUE)
        /\ Goto(c, "remove")
        /\ UNCHANGED <<hasBak, bak, timeFile, cycTime>>
  /\ UNCHANGED <<isInit, isRunning, logMutex, cfg, level, cacheVars, logFd, sem, leaked,
                 callVars, cycIndex, hasFile, file, fileSize, archive, printed, deinits,
                 overrun>>

\* After a rename() that failed: the remove() takes the .bak, or what has come
\* since.
RemoveBak(c) ==
  /\ At(c, "remove") /\ Goto(c, "index")
  /\ hasBak' = (hasBak /\ ~Named)
  /\ bak' = IF Named THEN {} ELSE bak
  /\ UNCHANGED <<isInit, isRunning, logMutex, cfg, level, cacheVars, logFd, sem, leaked,
                 callVars, cycIndex, cycTime, hasFile, file, fileSize, oldFiles,
                 countVars, past>>

\* system("tar ..."), whose result nobody looks at.  Without its name the
\* archive goes to the working directory.
Tar(c) ==
  /\ At(c, "tar") /\ Goto(c, "clean")
  /\ \/ /\ archive' = IF Named
                      THEN [archive EXCEPT ![cycIndex[c]] = timeFile[cycTime[c]]]
                      ELSE archive
        /\ UNCHANGED <<faults, past>>
     \/ Fails /\ Lossy(TRUE) /\ UNCHANGED archive
  /\ UNCHANGED <<isInit, isRunning, logMutex, cfg, level, cacheVars, logFd, sem, leaked,
                 callVars, cycIndex, cycTime, liveFiles, timeFile, printed, deinits,
                 overrun>>

RemoveTimeFile(c) ==
  /\ At(c, "clean") /\ Goto(c, "index")
  /\ timeFile' = [timeFile EXCEPT ![cycTime[c]] = {}]
  /\ cycTime' = [cycTime EXCEPT ![c] = None]
  /\ UNCHANGED <<isInit, isRunning, logMutex, cfg, level, cacheVars, logFd, sem, leaked,
                 callVars, cycIndex, liveFiles, archive, countVars, past>>

\* The next index, and MyLogWriteIdxFile, which never closes its descriptor.
AdvanceTo(c, index) ==
  /\ At(c, "index") /\ Goto(c, "loop")
  /\ cfg # "zero"
  /\ cycIndex' = [cycIndex EXCEPT ![c] = index]
  /\ leaked' = IF CanOpen THEN leaked + 1 ELSE leaked
  /\ UNCHANGED <<isInit, isRunning, logMutex, cfg, level, cacheVars, logFd, sem,
                 callVars, cycTime, liveFiles, oldFiles, countVars, past>>

\* Mutants: one index too many; the index stays.
IndexTooFar(c) == AdvanceTo(c, (cycIndex[c] + 1) % (FileNum + 1))
SameIndex(c) == AdvanceTo(c, cycIndex[c])

NextIndex(c) == AdvanceTo(c, (cycIndex[c] + 1) % FileNum)
-------------------------------------------------------------------------------
(***************************************************************************)
(* What happens around the process, and the specification.                 *)
(***************************************************************************)
\* The process ends, its files stay, and it is started again.
Restart ==
  /\ isInit' = FALSE /\ isRunning' = FALSE /\ logMutex' = None
  /\ cfg' = "zero" /\ level' = 0
  /\ cache' = {} /\ offset' = 0 /\ late' = TRUE
  /\ logFd' = FALSE /\ sem' = 0 /\ leaked' = 0
  /\ callPc' = [p \in Printers |-> "idle"]
  /\ toPrint' = [p \in Printers |-> 0]
  /\ cycPc' = [c \in Cyclers |-> "none"]
  /\ cycIndex' = [c \in Cyclers |-> 0]
  /\ cycTime' = [c \in Cyclers |-> None]
  /\ past' = "restarted"
  /\ UNCHANGED <<hasBak, bak, oldFiles, deinits, overrun>>

Crash == Restart /\ Fails /\ UNCHANGED <<hasFile, file, fileSize, printed>>

\* A crash in WriteLogToFile, after write() and before a rename().
CrashInWrite(lines, len) ==
  /\ Restart /\ Fails
  /\ logMutex = None /\ Fits(len) /\ Flushes(len) /\ CanWrite
  /\ hasFile' = TRUE
  /\ file' = file \cup cache \cup lines /\ fileSize' = fileSize + offset + len

CrashInCycleFlush(c) == At(c, "flush") /\ CrashInWrite({}, 0) /\ UNCHANGED printed

CrashInWriteLine(p) ==
  /\ callPc[p] = "write" /\ printed < MaxLines
  /\ printed' = printed + 1
  /\ CrashInWrite({printed'}, LineLen[printed'])

\* A remainder by the maxFileNum MyLogDeinit has cleared kills the process.
DivideByZero(c) ==
  /\ At(c, "index") /\ cfg = "zero"
  /\ Restart /\ UNCHANGED <<hasFile, file, fileSize, printed, faults>>

\* Somebody removes the log file.
DeleteLog ==
  /\ hasFile /\ Fails /\ Lossy(TRUE)
  /\ hasFile' = FALSE /\ file' = {} /\ fileSize' = 0
  /\ UNCHANGED <<isInit, isRunning, logMutex, cfg, level, cacheVars, logFd, sem, leaked,
                 callVars, cycVars, hasBak, bak, oldFiles, printed, deinits, overrun>>

\* LOG_TIME_OUT goes by after a flush.
TimePasses ==
  /\ ~late /\ late' = TRUE
  /\ UNCHANGED <<isInit, isRunning, logMutex, cfg, level, cache, offset, logFd, sem,
                 leaked, callVars, cycVars, liveFiles, oldFiles, countVars, past>>

PrinterStep(p) ==
  \/ MyPrintLog(p) \/ Output(p) \/ WriteLine(p) \/ OverrunCache(p)
  \/ MyLogInit(p) \/ MyLogInitFails(p)
  \/ DeinitBegin(p) \/ DeinitEnd(p)
  \/ \E v \in Levels : MyLogSetLevel(p, v)

CycleStep(c) ==
  \/ CycleStart(c) \/ CycleLoop(c) \/ Wake(c) \/ CycleFlush(c)
  \/ RenameBak(c) \/ RemoveBak(c) \/ Tar(c) \/ RemoveTimeFile(c)
  \/ NextIndex(c) \/ DivideByZero(c)

Next ==
  /\ ~overrun
  /\ \/ \E p \in Printers : PrinterStep(p)
     \/ \E c \in Cyclers : CycleStep(c)
     \/ \E p \in Printers : CrashInWriteLine(p)
     \/ \E c \in Cyclers : CrashInCycleFlush(c)
     \/ Crash \/ DeleteLog \/ TimePasses

Spec == Init /\ [][Next]_vars

\* The threads are scheduled, waits and sleeps end, and time passes.  Nobody
\* has to print.
FairSpec ==
  /\ Spec
  /\ WF_vars(~overrun /\ TimePasses)
  /\ \A c \in Cyclers : WF_vars(~overrun /\ CycleStep(c))
  /\ \A p \in Printers : WF_vars(~overrun /\ DeinitEnd(p))
-------------------------------------------------------------------------------
(***************************************************************************)
(* Properties.                                                             *)
(***************************************************************************)
FlagTypes ==
  /\ isInit \in BOOLEAN /\ isRunning \in BOOLEAN
  /\ late \in BOOLEAN /\ logFd \in BOOLEAN
  /\ hasFile \in BOOLEAN /\ hasBak \in BOOLEAN /\ overrun \in BOOLEAN

ProcessTypes ==
  /\ logMutex \in Printers \cup {None}
  /\ cfg \in Configurations /\ level \in Nat
  /\ cache \in SUBSET Lines /\ offset \in Nat
  /\ sem \in Nat /\ leaked \in 0 .. MaxFd

ThreadTypes ==
  /\ callPc \in [Printers -> {"idle", "format", "write", "sleep"}]
  /\ toPrint \in [Printers -> 0 .. StartLines]
  /\ cycPc \in [Cyclers -> {"none", "start", "loop", "wait", "flush", "rename",
                           "remove", "tar", "clean", "index"}]
  /\ cycIndex \in [Cyclers -> Indices]
  /\ cycTime \in [Cyclers -> Seconds \cup {None}]

FileTypes ==
  /\ file \in SUBSET Lines /\ fileSize \in Nat
  /\ bak \in SUBSET Lines
  /\ timeFile \in [Seconds -> SUBSET Lines]
  /\ archive \in [Indices -> SUBSET Lines]
  /\ printed \in 0 .. MaxLines /\ past \in Pasts
  /\ deinits \in Nat /\ faults \in Nat

TypeOK == FlagTypes /\ ProcessTypes /\ ThreadTypes /\ FileTypes

Before(s, t) == \A i \in s, j \in t : i < j

LiveInOrder == Before(bak, file) /\ Before(bak \cup file, cache)

ArchivesInOrder ==
  \A i \in Indices :
    /\ Before(archive[i], bak \cup file \cup cache)
    /\ \A j \in Indices \ {i} :
         Before(archive[i], archive[j]) \/ Before(archive[j], archive[i])

\* The .bak, the log file and the cache hold the lines in the order they were
\* printed, none of them twice, whatever crashed, failed or was started again
\* (append, rename and flush in WriteLogToFile).  Until MyLogDeinit is called,
\* which can leave two archive threads, the archives come before them and hold
\* no line twice.
StoredInOrder == LiveInOrder /\ (deinits = 0 => ArchivesInOrder)

\* As long as nothing failed, no file was full before the last one was taken
\* from the .bak, and MyLogDeinit was not called, the log directory and the
\* cache hold the last lines printed without a gap, and all of them until every
\* archive is in use: what is missing was in the oldest archives.
NoGap ==
  past = "calm" =>
    /\ Stored = printed - Cardinality(Stored) + 1 .. printed
    /\ Stored = 1 .. printed \/ \A i \in Indices : archive[i] # {}

\* In the first run of the log a .bak is never forgotten: the archive thread
\* has a post for it, or is about to rename it.
BakHasPost ==
  (hasBak /\ past # "restarted") =>
    sem > 0 \/ \E c \in Cyclers : At(c, "rename") \/ At(c, "remove")

\* Whatever was cached, flushed, dropped or cleared before, also when offset was
\* kept over a MyLogDeinit, WriteLogToCache writes behind g_logCache only for a
\* line longer than LOG_LINE_MAX, whose length MyPrintLog does not limit.
OverrunByLongLine == overrun => printed < MaxLines /\ LineLen[printed + 1] > LineMax

\* A line does not stay in the cache while there is an archive thread, even if
\* nobody prints another one: it is flushed, though a flush that fails loses it.
CachedLineLeaves == \A i \in Lines : (i \in cache /\ Running) ~> (i \notin cache \/ ~Running)

\* A full file is taken from the .bak by the archive thread.
BakTaken ==
  (hasBak /\ isInit /\ Running /\ past # "restarted") ~> (~hasBak \/ ~isInit)
===============================================================================
