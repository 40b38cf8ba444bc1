-------------------------------- MODULE LogProofs ------------------------------
(***************************************************************************)
(* Proofs about Log, for all values of its constants: every variable keeps *)
(* its type, only a line that is too long overruns the cache, lines are    *)
(* stored in order, a .bak of the first run has its post, and a calm log   *)
(* has no gap.                                                             *)
(***************************************************************************)
EXTENDS Log, DataLemmas

\* Every action opened at once, down to the assignments.
LEMMA NextCases ==
  ASSUME Next
  PROVE  \/ \E p \in Printers :
              \/ MyPrintLog(p) \/ Output(p) \/ WriteLine(p) \/ OverrunCache(p) \/ MyLogInit(p) \/ MyLogInitFails(p)
              \/ DeinitBegin(p) \/ DeinitEnd(p) \/ CrashInWriteLine(p)
              \/ \E v \in Levels : MyLogSetLevel(p, v)
         \/ \E c \in Cyclers :
              \/ CycleStart(c) \/ CycleLoop(c) \/ Wake(c) \/ CycleFlush(c)
              \/ RenameBak(c) \/ RemoveBak(c) \/ Tar(c) \/ RemoveTimeFile(c)
              \/ NextIndex(c) \/ DivideByZero(c) \/ CrashInCycleFlush(c)
         \/ Crash \/ DeleteLog \/ TimePasses
BY DEF Next, PrinterStep, CycleStep
-------------------------------------------------------------------------------
(***************************************************************************)
(* Types.  An archive thread that is to run tar knows its time file.       *)
(***************************************************************************)
TarHasTime == \A c \in Cyclers : cycPc[c] \in {"tar", "clean"} => cycTime[c] \in Seconds

DataTypes == ProcessTypes /\ ThreadTypes /\ FileTypes /\ TarHasTime

LEMMA NoLines == {} \in SUBSET Lines
OBVIOUS

\* The two steps of MyPrintLog before WriteLogToCache, and the overrun.
LEMMA PrintKeeps ==
  ASSUME DataTypes, NEW p \in Printers, MyPrintLog(p) \/ Output(p) \/ OverrunCache(p)
  PROVE  /\ UNCHANGED <<isInit, isRunning, logMutex, cfg, level, cacheVars, logFd, sem, leaked,
                        cycVars, liveFiles, oldFiles, printed, deinits, faults, past>>
         /\ \/ callPc' = callPc
            \/ isInit /\ callPc' = [callPc EXCEPT ![p] = "format"]
            \/ callPc[p] = "format" /\ callPc' = [callPc EXCEPT ![p] = "idle"]
            \/ callPc[p] = "format" /\ callPc' = [callPc EXCEPT ![p] = "write"]
<1>1. CASE MyPrintLog(p)
  <2>1. CASE isInit
    BY <1>1, <2>1 DEF MyPrintLog, countVars
  <2>2. CASE ~isInit
    BY <1>1, <2>2 DEF MyPrintLog, countVars, DataTypes, ThreadTypes
  <2>3. QED BY <2>1, <2>2
<1>2. CASE Output(p)
  <2>1. CASE cfg = "print"
    BY <1>2, <2>1 DEF Output, countVars
  <2>2. CASE cfg # "print"
    BY <1>2, <2>2 DEF Output, countVars
  <2>3. QED BY <2>1, <2>2
<1>3. CASE OverrunCache(p)
  BY <1>3 DEF OverrunCache, callVars
<1>4. QED BY <1>1, <1>2, <1>3

LEMMA TypesInit == Init => FlagTypes /\ DataTypes
<1> SUFFICES ASSUME Init PROVE FlagTypes /\ DataTypes
  OBVIOUS
<1>1. FlagTypes
  BY Zenon DEF Init, FreshProcess, FlagTypes
<1>2. ProcessTypes
  BY ConstantsAssumption, NoLines DEF Init, FreshProcess, ProcessTypes, Configurations
<1>3. ThreadTypes /\ TarHasTime
  BY ConstantsAssumption DEF Init, FreshProcess, ThreadTypes, TarHasTime, Indices
<1>4. FileTypes
  BY ConstantsAssumption, NoLines DEF Init, FileTypes, Pasts
<1>5. QED BY <1>1, <1>2, <1>3, <1>4 DEF DataTypes

\* What is left of the file and its .bak.
LEMMA RotateTypes ==
  ASSUME DataTypes, NEW text \in SUBSET Lines, NEW size \in Nat, NEW written,
         RotateIfFull(text, size, written)
  PROVE  /\ sem' \in Nat
         /\ file' \in SUBSET Lines /\ fileSize' \in Nat
         /\ bak' \in SUBSET Lines /\ past' \in Pasts
<1> USE DEF DataTypes, ProcessTypes, FileTypes
<1>1. past' \in Pasts
  BY DEF RotateIfFull, Lossy, Pasts
<1>2. CASE Rotate(text)
  BY <1>1, <1>2, NoLines DEF Rotate, RotateTo
<1>3. CASE file' = text /\ fileSize' = size /\ UNCHANGED <<hasBak, bak, sem>>
  BY <1>1, <1>3
<1>4. QED BY <1>2, <1>3 DEF RotateIfFull

\* What a flush leaves, for a line of `len' bytes or for none.
LEMMA CacheTypes ==
  ASSUME DataTypes, NEW lines \in SUBSET Lines, NEW len \in Nat, WriteLogToCache(lines, len)
  PROVE  /\ cache' \in SUBSET Lines /\ offset' \in Nat /\ sem' \in Nat
         /\ file' \in SUBSET Lines /\ fileSize' \in Nat /\ bak' \in SUBSET Lines
         /\ past' \in Pasts /\ faults' \in Nat
<1> USE DEF DataTypes, ProcessTypes, FileTypes
<1>1. CASE Flushes(len)
  <2> DEFINE text == cache \cup lines
  <2>1. WriteLogToFile(text, offset + len) /\ cache' = {} /\ offset' = 0
    BY <1>1 DEF WriteLogToCache
  <2>2. text \in SUBSET Lines /\ file \cup text \in SUBSET Lines
    OBVIOUS
  <2>3. offset + len \in Nat /\ fileSize + (offset + len) \in Nat
    OBVIOUS
  <2> HIDE DEF text
  <2>4. CASE UNCHANGED <<liveFiles, sem, past, faults>>
    BY <2>1, <2>4, NoLines DEF liveFiles
  <2>5. CASE Lossy(text # {}) /\ UNCHANGED <<logFd, liveFiles, sem, faults>>
    BY <2>1, <2>5, NoLines DEF liveFiles, Lossy, Pasts
  <2>6. CASE RotateIfFull(file \cup text, fileSize + (offset + len), TRUE) /\ UNCHANGED faults
    BY <2>1, <2>2, <2>3, <2>6, RotateTypes, NoLines
  <2>7. CASE RotateIfFull(file, fileSize, FALSE) /\ Fails
    <3>1. faults' \in Nat
      BY <2>7 DEF Fails
    <3>2. QED BY <2>1, <2>7, <3>1, RotateTypes, NoLines
  <2>8. ASSUME NEW left \in SUBSET Lines, NEW size \in Nat, StayFull(left, size), Fails
        PROVE  /\ sem' \in Nat /\ faults' \in Nat
               /\ file' \in SUBSET Lines /\ fileSize' \in Nat
               /\ bak' \in SUBSET Lines /\ past' \in Pasts
    BY <2>8 DEF StayFull, Fails, Lossy, Pasts
  <2>9. CASE /\ Fails
             /\ \/ StayFull(file \cup text, fileSize + (offset + len))
                \/ StayFull(file, fileSize)
    <3>1. file \in SUBSET Lines /\ fileSize \in Nat
      OBVIOUS
    <3>2. QED BY <2>1, <2>2, <2>3, <2>8, <2>9, <3>1, NoLines
  <2>10. QED BY <2>1, <2>4, <2>5, <2>6, <2>7, <2>9 DEF WriteLogToFile
<1>2. CASE ~Flushes(len)
  BY <1>2 DEF WriteLogToCache, liveFiles
<1>3. QED BY <1>1, <1>2

\* The line a WriteLine takes.
LEMMA TakenLine ==
  ASSUME DataTypes, NEW p \in Printers, WriteLine(p)
  PROVE  \E n \in Lines : /\ n = printed + 1 /\ printed' = n
                          /\ LineLen[n] \in Nat \ {0}
                          /\ WriteLogToCache({n}, LineLen[n])
<1>1. printed' = printed + 1 /\ printed' \in Lines
  BY ConstantsAssumption DEF WriteLine, DataTypes, FileTypes, Lines
<1>2. LineLen[printed'] \in Nat \ {0}
  BY <1>1, ConstantsAssumption DEF Lines
<1>3. QED BY <1>1, <1>2 DEF WriteLine

\* What the end of the process resets.
LEMMA RestartTypes ==
  ASSUME DataTypes, Restart, file' \in SUBSET Lines, fileSize' \in Nat,
         printed' \in 0 .. MaxLines, faults' \in Nat
  PROVE  DataTypes'
<1>1. ProcessTypes'
  BY ConstantsAssumption, NoLines DEF Restart, ProcessTypes, Configurations
<1>2. ThreadTypes' /\ TarHasTime'
  BY ConstantsAssumption DEF Restart, ThreadTypes, TarHasTime, Indices
<1>3. FileTypes'
  BY DEF Restart, DataTypes, FileTypes, Pasts, oldFiles
<1>4. QED BY <1>1, <1>2, <1>3 DEF DataTypes

LEMMA DataTypesStep == DataTypes /\ [Next]_vars => DataTypes'
<1> SUFFICES ASSUME DataTypes, [Next]_vars PROVE DataTypes'
  OBVIOUS
<1> USE DEF DataTypes, ProcessTypes, ThreadTypes, FileTypes, TarHasTime
<1>1. ASSUME NEW p \in Printers, MyPrintLog(p) \/ Output(p) \/ OverrunCache(p) PROVE DataTypes'
  <2>1. toPrint' \in [Printers -> 0 .. StartLines]
    BY <1>1, ConstantsAssumption DEF MyPrintLog, Output, OverrunCache, callVars
  <2>2. callPc' \in [Printers -> {"idle", "format", "write", "sleep"}]
    BY <1>1, PrintKeeps
  <2>3. QED BY <1>1, <2>1, <2>2, PrintKeeps DEF cacheVars, cycVars, liveFiles, oldFiles
<1>2. ASSUME NEW p \in Printers, WriteLine(p) PROVE DataTypes'
  <2>1. PICK n \in Lines : /\ n = printed + 1 /\ printed' = n
                           /\ LineLen[n] \in Nat \ {0}
                           /\ WriteLogToCache({n}, LineLen[n])
    BY <1>2, TakenLine
  <2>2. LineLen[n] \in Nat /\ {n} \in SUBSET Lines
    BY <2>1, ConstantsAssumption
  <2>3. ProcessTypes'
    BY <1>2, <2>1, <2>2, CacheTypes DEF WriteLine
  <2>4. ThreadTypes' /\ TarHasTime'
    BY <1>2 DEF WriteLine, cycVars
  <2>5. FileTypes'
    <3>1. UNCHANGED <<timeFile, archive, deinits>>
      BY <1>2 DEF WriteLine, oldFiles
    <3>2. printed' \in 0 .. MaxLines
      BY <2>1, ConstantsAssumption DEF Lines
    <3>3. QED BY <2>1, <2>2, <3>1, <3>2, CacheTypes
  <2>6. QED BY <2>3, <2>4, <2>5
<1>3. ASSUME NEW p \in Printers, MyLogInit(p) PROVE DataTypes'
  <2>0. FileTypes'
    BY <1>3 DEF MyLogInit, MyLogInitStart, MyLogCfgLoad, liveFiles, oldFiles, countVars
  <2>1. ProcessTypes'
    <3>1. cfg' \in Configurations
      BY <1>3 DEF MyLogInit, MyLogCfgLoad, Configurations
    <3>2. /\ level' \in {DefaultLevel} \cup Levels /\ cache' = {} /\ sem' = 0
          /\ UNCHANGED <<logMutex, offset, leaked>>
      BY <1>3 DEF MyLogInit, MyLogInitStart, MyLogCfgLoad
    <3>3. QED BY <3>1, <3>2, ConstantsAssumption, NoLines
  <2>2. /\ UNCHANGED <<callPc, cycIndex, cycTime>>
        /\ toPrint' = [toPrint EXCEPT ![p] = StartLines]
        /\ \/ \E c \in Cyclers : cycPc' = [cycPc EXCEPT ![c] = "start"]
           \/ UNCHANGED cycPc
    BY <1>3 DEF MyLogInit, MyLogInitStart
  <2>3. ThreadTypes' /\ TarHasTime'
    BY <2>2, ConstantsAssumption, SMTT(30)
  <2>4. QED BY <2>0, <2>1, <2>3
<1>4. ASSUME NEW p \in Printers, MyLogInitFails(p) PROVE DataTypes'
  BY <1>4, ConstantsAssumption, NoLines DEF MyLogInitFails, MyLogInitStart, liveFiles, oldFiles,
     countVars, Configurations
<1>5. ASSUME NEW p \in Printers, DeinitBegin(p) PROVE DataTypes'
  BY <1>5 DEF DeinitBegin, cacheVars, cycVars, liveFiles, oldFiles, Pasts
<1>6. ASSUME NEW p \in Printers, DeinitEnd(p) PROVE DataTypes'
  BY <1>6, NoLines DEF DeinitEnd, cycVars, liveFiles, oldFiles, countVars, Configurations
<1>7. ASSUME NEW p \in Printers, CrashInWriteLine(p) PROVE DataTypes'
  <2>1. printed' \in Lines /\ LineLen[printed'] \in Nat
    BY <1>7, ConstantsAssumption DEF CrashInWriteLine, Lines
  <2>2. QED BY <1>7, <2>1, RestartTypes DEF CrashInWriteLine, CrashInWrite, Fails, Lines
<1>8. ASSUME NEW p \in Printers, NEW v \in Levels, MyLogSetLevel(p, v) PROVE DataTypes'
  BY <1>8, ConstantsAssumption DEF MyLogSetLevel, cacheVars, callVars, cycVars, liveFiles,
     oldFiles, countVars
<1>9. ASSUME NEW c \in Cyclers, CycleStart(c) PROVE DataTypes'
  BY <1>9, ConstantsAssumption DEF CycleStart, At, Goto, cacheVars, callVars, liveFiles,
     oldFiles, countVars, Indices
<1>10. ASSUME NEW c \in Cyclers, CycleLoop(c) PROVE DataTypes'
  BY <1>10 DEF CycleLoop, At, Goto, cacheVars, callVars, liveFiles, oldFiles, countVars
<1>11. ASSUME NEW c \in Cyclers, Wake(c) PROVE DataTypes'
  BY <1>11 DEF Wake, WakeTo, At, Goto, cacheVars, callVars, liveFiles, oldFiles, countVars
<1>12. ASSUME NEW c \in Cyclers, CycleFlush(c) PROVE DataTypes'
  BY <1>12, CacheTypes DEF CycleFlush, At, Goto, callVars, oldFiles
<1>13. ASSUME NEW c \in Cyclers, RenameBak(c) PROVE DataTypes'
  BY <1>13, NoLines DEF RenameBak, At, Goto, cacheVars, callVars, Fails, Lossy, Pasts
<1>14. ASSUME NEW c \in Cyclers, RemoveBak(c) PROVE DataTypes'
  BY <1>14, NoLines DEF RemoveBak, At, Goto, cacheVars, callVars, oldFiles, countVars
<1>15. ASSUME NEW c \in Cyclers, Tar(c) PROVE DataTypes'
  BY <1>15 DEF Tar, At, Goto, cacheVars, callVars, liveFiles, Fails, Lossy, Pasts
<1>16. ASSUME NEW c \in Cyclers, RemoveTimeFile(c) PROVE DataTypes'
  BY <1>16, NoLines DEF RemoveTimeFile, At, Goto, cacheVars, callVars, liveFiles, countVars
<1>17. ASSUME NEW c \in Cyclers, NextIndex(c) PROVE DataTypes'
  <2>1. (cycIndex[c] + 1) % FileNum \in Indices
    BY ConstantsAssumption DEF Indices
  <2>2. QED BY <1>17, <2>1, ConstantsAssumption DEF NextIndex, AdvanceTo, CanOpen, At, Goto,
               cacheVars, callVars, liveFiles, oldFiles, countVars
<1>18. ASSUME NEW c \in Cyclers, DivideByZero(c) PROVE DataTypes'
  BY <1>18, RestartTypes DEF DivideByZero
<1>19. ASSUME NEW c \in Cyclers, CrashInCycleFlush(c) PROVE DataTypes'
  BY <1>19, RestartTypes DEF CrashInCycleFlush, CrashInWrite, Fails
<1>20. CASE Crash
  BY <1>20, RestartTypes DEF Crash, Fails
<1>21. CASE DeleteLog
  BY <1>21, NoLines DEF DeleteLog, Fails, Lossy, Pasts, cacheVars, callVars, cycVars, oldFiles
<1>22. CASE TimePasses
  BY <1>22 DEF TimePasses, callVars, cycVars, liveFiles, oldFiles, countVars
<1>23. CASE UNCHANGED vars
  BY <1>23 DEF vars, callVars, cycVars, cacheVars, liveFiles, oldFiles, countVars
<1>24. QED
  BY <1>1, <1>2, <1>3, <1>4, <1>5, <1>6, <1>7, <1>8, <1>9, <1>10, <1>11, <1>12, <1>13,
     <1>14, <1>15, <1>16, <1>17, <1>18, <1>19, <1>20, <1>21, <1>22, <1>23, NextCases


\* The Boolean variables.
LEMMA FlagTypesStep == FlagTypes /\ [Next]_vars => FlagTypes'
<1> SUFFICES ASSUME FlagTypes, [Next]_vars PROVE FlagTypes'
  OBVIOUS
<1> USE DEF FlagTypes
<1>1. ASSUME NEW lines, NEW len, WriteLogToCache(lines, len),
             UNCHANGED <<isInit, isRunning, overrun>>
      PROVE  FlagTypes'
  BY <1>1, Zenon DEF WriteLogToCache, WriteLogToFile, RotateIfFull, Rotate, RotateTo, StayFull,
     liveFiles
<1>2. ASSUME Restart, hasFile' \in BOOLEAN PROVE FlagTypes'
  BY <1>2, Zenon DEF Restart
<1>3. ASSUME NEW p \in Printers, MyPrintLog(p) \/ Output(p) \/ OverrunCache(p) PROVE FlagTypes'
  BY <1>3, Zenon DEF MyPrintLog, Output, OverrunCache, cacheVars, liveFiles, countVars
<1>4. ASSUME NEW p \in Printers, WriteLine(p) PROVE FlagTypes'
  BY <1>1, <1>4 DEF WriteLine
<1>5. ASSUME NEW p \in Printers, MyLogInit(p) PROVE FlagTypes'
  BY <1>5, Zenon DEF MyLogInit, MyLogInitStart, liveFiles, countVars
<1>6. ASSUME NEW p \in Printers, MyLogInitFails(p) PROVE FlagTypes'
  BY <1>6, Zenon DEF MyLogInitFails, MyLogInitStart, liveFiles, countVars
<1>7. ASSUME NEW p \in Printers, DeinitBegin(p) PROVE FlagTypes'
  BY <1>7, Zenon DEF DeinitBegin, cacheVars, liveFiles
<1>8. ASSUME NEW p \in Printers, DeinitEnd(p) PROVE FlagTypes'
  BY <1>8, Zenon DEF DeinitEnd, liveFiles, countVars
<1>9. ASSUME NEW p \in Printers, NEW v \in Levels, MyLogSetLevel(p, v) PROVE FlagTypes'
  BY <1>9, Zenon DEF MyLogSetLevel, cacheVars, liveFiles, countVars
<1>10. ASSUME NEW p \in Printers, CrashInWriteLine(p) PROVE FlagTypes'
  BY <1>2, <1>10 DEF CrashInWriteLine, CrashInWrite
<1>11. ASSUME NEW c \in Cyclers, CycleStart(c) PROVE FlagTypes'
  BY <1>11, Zenon DEF CycleStart, cacheVars, liveFiles, countVars
<1>12. ASSUME NEW c \in Cyclers, CycleFlush(c) PROVE FlagTypes'
  BY <1>1, <1>12 DEF CycleFlush
<1>13. ASSUME NEW c \in Cyclers, RenameBak(c) PROVE FlagTypes'
  BY <1>13, Zenon DEF RenameBak, cacheVars
<1>14. ASSUME NEW c \in Cyclers, RemoveBak(c) PROVE FlagTypes'
  BY <1>14, Zenon DEF RemoveBak, cacheVars, countVars
<1>15. ASSUME NEW c \in Cyclers, CycleLoop(c) \/ Wake(c) \/ Tar(c) \/ RemoveTimeFile(c) \/ NextIndex(c)
       PROVE  FlagTypes'
  BY <1>15, Zenon DEF CycleLoop, Wake, WakeTo, Tar, RemoveTimeFile, NextIndex, AdvanceTo,
     cacheVars, liveFiles, countVars
<1>16. ASSUME NEW c \in Cyclers, DivideByZero(c) \/ CrashInCycleFlush(c) PROVE FlagTypes'
  BY <1>2, <1>16 DEF DivideByZero, CrashInCycleFlush, CrashInWrite
<1>17. CASE Crash
  BY <1>2, <1>17 DEF Crash
<1>18. CASE DeleteLog
  BY <1>18, Zenon DEF DeleteLog, cacheVars
<1>19. CASE TimePasses
  BY <1>19, Zenon DEF TimePasses, liveFiles, countVars
<1>20. CASE UNCHANGED vars
  BY <1>20, Zenon DEF vars, cacheVars, liveFiles, countVars
<1>21. QED
  BY <1>3, <1>4, <1>5, <1>6, <1>7, <1>8, <1>9, <1>10, <1>11, <1>12, <1>13, <1>14, <1>15,
     <1>16, <1>17, <1>18, <1>19, <1>20, NextCases

\* Every variable keeps its type.
THEOREM TypeCorrect == Spec => []TypeOK
<1>1. FlagTypes /\ DataTypes => TypeOK
  BY DEF TypeOK, DataTypes
<1>2. QED BY <1>1, TypesInit, DataTypesStep, FlagTypesStep, PTL DEF Spec
-------------------------------------------------------------------------------
(***************************************************************************)
(* Room in the cache.                                                      *)
(***************************************************************************)
\* After every call of WriteLogToCache there is room for a line of LOG_LINE_MAX.
RoomForLine == offset + LineMax <= CacheSize

LEMMA RoomStep == DataTypes /\ RoomForLine /\ [Next]_vars => RoomForLine'
<1> SUFFICES ASSUME DataTypes, RoomForLine, [Next]_vars PROVE RoomForLine'
  OBVIOUS
<1> USE ConstantsAssumption DEF RoomForLine, DataTypes, ProcessTypes
<1>1. ASSUME NEW lines, NEW len \in Nat, WriteLogToCache(lines, len) PROVE RoomForLine'
  BY <1>1 DEF WriteLogToCache, Flushes, FlushSize
<1>2. ASSUME NEW p \in Printers, WriteLine(p) PROVE RoomForLine'
  <2>1. PICK n \in Lines : LineLen[n] \in Nat \ {0} /\ WriteLogToCache({n}, LineLen[n])
    BY <1>2, TakenLine
  <2>2. QED BY <1>1, <2>1
<1>3. ASSUME NEW c \in Cyclers, CycleFlush(c) PROVE RoomForLine'
  BY <1>1, <1>3 DEF CycleFlush
<1>4. CASE Restart
  BY <1>4 DEF Restart
<1>5. CASE UNCHANGED offset
  BY <1>5
<1>6. QED
  <2>1. \/ \E p \in Printers : WriteLine(p)
        \/ \E c \in Cyclers : CycleFlush(c)
        \/ Restart \/ UNCHANGED offset
    BY NextCases DEF MyPrintLog, Output, OverrunCache, MyLogInit, MyLogInitFails, MyLogInitStart,
       DeinitBegin, DeinitEnd, CrashInWriteLine, CrashInWrite, MyLogSetLevel, CycleStart,
       CycleLoop, Wake, WakeTo, RenameBak, RemoveBak, Tar, RemoveTimeFile, NextIndex, AdvanceTo,
       DivideByZero, CrashInCycleFlush, Crash, DeleteLog, TimePasses, vars, cacheVars
  <2>2. QED BY <1>2, <1>3, <1>4, <1>5, <2>1

\* The line that overruns the cache is the next one, and too long; after it the
\* model stops.
LEMMA OverrunStep == DataTypes /\ RoomForLine /\ OverrunByLongLine /\ [Next]_vars => OverrunByLongLine'
<1> SUFFICES ASSUME DataTypes, RoomForLine, OverrunByLongLine, [Next]_vars, overrun'
             PROVE  printed' < MaxLines /\ LineLen[printed' + 1] > LineMax
  BY DEF OverrunByLongLine
<1>1. CASE UNCHANGED vars
  BY <1>1 DEF vars, countVars, OverrunByLongLine
<1>2. CASE Next
  <2>1. ~overrun
    BY <1>2 DEF Next
  <2>2. \E p \in Printers : OverrunCache(p)
    <3>1. (\E p \in Printers : OverrunCache(p)) \/ UNCHANGED overrun
      BY <1>2, NextCases DEF MyPrintLog, Output, WriteLine, MyLogInit, MyLogInitFails,
         MyLogInitStart, DeinitBegin, DeinitEnd, CrashInWriteLine, CrashInWrite, MyLogSetLevel,
         CycleStart, CycleLoop, Wake, WakeTo, CycleFlush, RenameBak, RemoveBak, Tar,
         RemoveTimeFile, NextIndex, AdvanceTo, DivideByZero, CrashInCycleFlush, Crash, Restart,
         DeleteLog, TimePasses, countVars
    <3>2. QED BY <2>1, <3>1
  <2>3. /\ UNCHANGED printed /\ printed < MaxLines
        /\ ~(offset + LineLen[printed + 1] <= CacheSize)
    BY <2>2 DEF OverrunCache, Fits
  <2>4. /\ printed \in Nat /\ offset \in Nat /\ LineMax \in Nat /\ CacheSize \in Nat
        /\ offset + LineMax <= CacheSize
    BY ConstantsAssumption DEF DataTypes, ProcessTypes, FileTypes, RoomForLine
  <2>5. LineLen[printed + 1] \in Nat
    BY <2>3, <2>4, ConstantsAssumption
  <2>6. LineLen[printed + 1] > LineMax
    BY <2>3, <2>4, <2>5
  <2>7. QED BY <2>3, <2>6
<1>3. QED BY <1>1, <1>2

\* WriteLogToCache writes past the end of the cache only for a line longer than
\* LOG_LINE_MAX, also when offset was kept over a MyLogDeinit.
THEOREM OnlyLongLineOverruns == Spec => []OverrunByLongLine
<1>1. Init => RoomForLine /\ OverrunByLongLine
  BY ConstantsAssumption DEF Init, FreshProcess, RoomForLine, OverrunByLongLine
<1>2. QED BY <1>1, TypesInit, DataTypesStep, RoomStep, OverrunStep, PTL DEF Spec
-------------------------------------------------------------------------------
(***************************************************************************)
(* The order of the lines.                                                 *)
(***************************************************************************)
Live == bak \cup file \cup cache

LiveInv == LiveInOrder /\ \A n \in Live : n <= printed

\* No text is written twice: what a flush leaves was there, or is new.
LEMMA FlushOrder ==
  ASSUME DataTypes, LiveInv, NEW lines \in SUBSET Lines, NEW len,
         \A n \in lines : n > printed, \A m, n \in lines : m = n,
         WriteLogToCache(lines, len)
  PROVE  LiveInOrder' /\ Live' \subseteq Live \cup lines
<1> USE DEF LiveInv, LiveInOrder, Before, Live, DataTypes, ProcessTypes, FileTypes, Lines
<1>1. CASE cache' = cache \cup lines /\ UNCHANGED liveFiles
  BY <1>1 DEF liveFiles
<1>2. CASE WriteLogToFile(cache \cup lines, offset + len) /\ cache' = {}
  <2>1. CASE UNCHANGED liveFiles
    BY <1>2, <2>1 DEF liveFiles
  <2>2. CASE file' = {} /\ (bak' = file \cup (cache \cup lines) \/ bak' = file)
    BY <1>2, <2>2
  <2>3. CASE UNCHANGED bak /\ (file' = file \cup (cache \cup lines) \/ file' = file)
    <3>1. \A m \in bak, n \in lines : m < n
      OBVIOUS
    <3>2. QED BY <1>2, <2>3, <3>1
  <2>4. QED BY <1>2, <2>1, <2>2, <2>3 DEF WriteLogToFile, RotateIfFull, Rotate, RotateTo, StayFull
<1>3. QED BY <1>1, <1>2 DEF WriteLogToCache

\* How one step changes the live files and the cache.
LEMMA LiveChange ==
  ASSUME DataTypes, LiveInv, [Next]_vars
  PROVE  /\ LiveInOrder'
         /\ \A n \in Live' : n \in Live \/ (n > printed /\ n = printed')
         /\ printed' \in Nat /\ printed' >= printed
<1> USE DEF LiveInv
<1>1. ASSUME NEW p \in Printers, WriteLine(p)
      PROVE  LiveInOrder' /\ \A n \in Live' : n \in Live \/ (n > printed /\ n = printed')
  <2>1. PICK n \in Lines : /\ n = printed + 1 /\ printed' = n
                           /\ WriteLogToCache({n}, LineLen[n])
    BY <1>1, TakenLine
  <2>2. n > printed
    BY <2>1 DEF DataTypes, FileTypes
  <2>3. LiveInOrder' /\ Live' \subseteq Live \cup {n}
    BY <2>1, <2>2, FlushOrder
  <2>4. QED BY <2>1, <2>2, <2>3
<1>2. ASSUME NEW c \in Cyclers, CycleFlush(c) PROVE LiveInOrder' /\ Live' \subseteq Live
  BY <1>2, FlushOrder DEF CycleFlush
<1>3. ASSUME NEW p \in Printers, CrashInWriteLine(p)
      PROVE  LiveInOrder' /\ \A n \in Live' : n \in Live \/ (n > printed /\ n = printed')
  BY <1>3 DEF CrashInWriteLine, CrashInWrite, Restart, LiveInOrder, Before, Live,
     DataTypes, ProcessTypes, FileTypes, Lines
<1>4. ASSUME NEW c \in Cyclers, CrashInCycleFlush(c) PROVE LiveInOrder' /\ Live' \subseteq Live
  BY <1>4 DEF CrashInCycleFlush, CrashInWrite, Restart, LiveInOrder, Before, Live
<1>5. ASSUME bak' \subseteq bak, file' \subseteq file, cache' \subseteq cache
      PROVE  LiveInOrder' /\ Live' \subseteq Live
  BY <1>5 DEF LiveInOrder, Before, Live
<1>6. \/ \E p \in Printers : WriteLine(p) \/ CrashInWriteLine(p)
      \/ \E c \in Cyclers : CycleFlush(c) \/ CrashInCycleFlush(c)
      \/ bak' \subseteq bak /\ file' \subseteq file /\ cache' \subseteq cache
  BY NextCases, ZenonT(40) DEF MyPrintLog, Output, OverrunCache, MyLogInit, MyLogInitFails, MyLogInitStart, DeinitBegin,
     DeinitEnd, MyLogSetLevel, CycleStart, CycleLoop, Wake, WakeTo, RenameBak, RemoveBak,
     Tar, RemoveTimeFile, NextIndex, AdvanceTo, DivideByZero, Crash, Restart, DeleteLog,
     TimePasses, vars, cacheVars, liveFiles
<1>7. \/ \E p \in Printers : WriteLine(p) \/ CrashInWriteLine(p)
      \/ UNCHANGED printed
  BY NextCases DEF MyPrintLog, Output, OverrunCache, MyLogInit, MyLogInitFails, MyLogInitStart, DeinitBegin,
     DeinitEnd, MyLogSetLevel, CycleStart, CycleLoop, Wake, WakeTo, CycleFlush, RenameBak,
     RemoveBak, Tar, RemoveTimeFile, NextIndex, AdvanceTo, DivideByZero, CrashInCycleFlush,
     Crash, Restart, DeleteLog, TimePasses, vars, countVars
<1>8. printed' \in Nat /\ printed' >= printed
  BY <1>7 DEF WriteLine, CrashInWriteLine, DataTypes, FileTypes
<1>9. QED BY <1>1, <1>2, <1>3, <1>4, <1>5, <1>6, <1>8

LEMMA LiveInvStep == DataTypes /\ LiveInv /\ [Next]_vars => LiveInv'
<1> SUFFICES ASSUME DataTypes, LiveInv, [Next]_vars PROVE LiveInv'
  OBVIOUS
<1>1. Live \subseteq Nat /\ printed \in Nat
  BY DEF Live, Lines, DataTypes, ProcessTypes, FileTypes
<1>2. ASSUME NEW n \in Live' PROVE n <= printed'
  <2>1. \/ n \in Live /\ n <= printed
        \/ n = printed'
    BY LiveChange DEF LiveInv
  <2>2. printed' \in Nat /\ printed' >= printed
    BY LiveChange
  <2>3. CASE n \in Live /\ n <= printed
    <3>1. n \in Nat
      BY <1>1, <2>3
    <3>2. QED BY <1>1, <2>2, <2>3, <3>1
  <2>4. CASE n = printed'
    BY <2>2, <2>4
  <2>5. QED BY <2>1, <2>3, <2>4
<1>3. QED BY <1>2, LiveChange DEF LiveInv

\* The archives, until MyLogDeinit is called: there is one archive thread, and
\* what it is to archive comes after the archives and before the rest.
OneCycler ==
  /\ \A c, d \in Cyclers : c = d \/ cycPc[c] = "none" \/ cycPc[d] = "none"
  /\ isInit \/ \A c \in Cyclers : cycPc[c] = "none"

Between(text) ==
  /\ \A i \in Indices : Before(archive[i], text)
  /\ Before(text, Live)
  /\ \A n \in text : n <= printed

ArchiveInv ==
  /\ OneCycler
  /\ ArchivesInOrder
  /\ \A i \in Indices : \A n \in archive[i] : n <= printed
  /\ \A c \in Cyclers : cycPc[c] = "tar" => Between(timeFile[cycTime[c]])

FirstRunInv == deinits = 0 => ArchiveInv

\* The steps that start a thread, let it go on, or end it.
LEMMA OneCyclerStep ==
  ASSUME DataTypes, deinits = 0 => OneCycler, [Next]_vars, deinits' = 0
  PROVE  OneCycler' /\ deinits = 0
<1> USE DEF DataTypes, ThreadTypes, FileTypes, OneCycler
<1>1. deinits = 0
  <2>1. (\E p \in Printers : DeinitBegin(p)) \/ UNCHANGED deinits
    BY NextCases DEF MyPrintLog, Output, OverrunCache, WriteLine, MyLogInit, MyLogInitFails, MyLogInitStart,
       DeinitEnd, MyLogSetLevel, CycleStart, CycleLoop, Wake, WakeTo, CycleFlush,
       RenameBak, RemoveBak, Tar, RemoveTimeFile, NextIndex, AdvanceTo, DivideByZero, Crash,
       CrashInWriteLine, CrashInCycleFlush, CrashInWrite, Restart, DeleteLog, TimePasses,
       vars, countVars
  <2>2. ASSUME NEW p \in Printers, DeinitBegin(p) PROVE FALSE
    BY <2>2 DEF DeinitBegin
  <2>3. QED BY <2>1, <2>2
<1>2. ASSUME NEW p \in Printers, MyLogInit(p) PROVE OneCycler'
  BY <1>1, <1>2 DEF MyLogInit, MyLogInitStart
<1>3. ASSUME NEW c \in Cyclers, NEW pc, ~At(c, "none"), Goto(c, pc),
             UNCHANGED isInit
      PROVE  OneCycler'
  BY <1>1, <1>3 DEF At, Goto
<1>4. CASE Restart
  BY <1>4 DEF Restart
<1>5. CASE UNCHANGED <<cycPc, isInit>>
  BY <1>1, <1>5
<1>6. ASSUME NEW p \in Printers, DeinitBegin(p) PROVE FALSE
  BY <1>1, <1>6 DEF DeinitBegin
<1>7. ASSUME NEW c \in Cyclers, CycleStep(c), ~DivideByZero(c)
      PROVE  \E pc : ~At(c, "none") /\ Goto(c, pc) /\ UNCHANGED isInit
  BY <1>7 DEF CycleStep, CycleStart, CycleLoop, Wake, WakeTo, CycleFlush, RenameBak, RemoveBak,
     Tar, RemoveTimeFile, NextIndex, AdvanceTo, At
<1>8. \/ \E p \in Printers : MyLogInit(p) \/ DeinitBegin(p)
      \/ \E c \in Cyclers : CycleStep(c) /\ ~DivideByZero(c)
      \/ Restart \/ UNCHANGED <<cycPc, isInit>>
  BY DEF Next, PrinterStep, MyPrintLog, Output, OverrunCache, WriteLine, MyLogInitFails, MyLogInitStart, DeinitEnd,
     MyLogSetLevel, CrashInWriteLine, CrashInCycleFlush, CrashInWrite, DivideByZero, Crash,
     DeleteLog, TimePasses, vars, cycVars
<1>9. QED BY <1>1, <1>2, <1>3, <1>4, <1>5, <1>6, <1>7, <1>8

\* A step that leaves the archives alone, and the time file of a thread that is
\* to run tar.
LEMMA ArchivesKept ==
  ASSUME DataTypes, LiveInv, ArchiveInv, [Next]_vars, UNCHANGED archive,
         \A c \in Cyclers : cycPc'[c] = "tar" =>
             cycPc[c] = "tar" /\ timeFile'[cycTime'[c]] = timeFile[cycTime[c]]
  PROVE  /\ ArchivesInOrder'
         /\ (\A i \in Indices : \A n \in archive[i] : n <= printed)'
         /\ (\A c \in Cyclers : cycPc[c] = "tar" => Between(timeFile[cycTime[c]]))'
<1> USE DEF ArchiveInv
<1>1. /\ \A n \in Live' : n \in Live \/ (n > printed /\ n = printed')
      /\ printed' \in Nat /\ printed' >= printed /\ printed \in Nat
  BY LiveChange DEF DataTypes, FileTypes
<1>2. /\ \A i \in Indices : archive[i] \subseteq Nat
      /\ \A c \in Cyclers : cycPc[c] = "tar" => timeFile[cycTime[c]] \subseteq Nat
  BY DEF DataTypes, FileTypes, TarHasTime, Lines
<1>3. ASSUME NEW text \in SUBSET Nat, \A n \in text : n <= printed, Before(text, Live)
      PROVE  Before(text, Live)' /\ \A n \in text : n <= printed'
  BY <1>1, <1>3 DEF Before
<1>4. \A i \in Indices : /\ Before(archive[i], Live)'
                         /\ \A n \in archive[i] : n <= printed'
  BY <1>2, <1>3 DEF ArchivesInOrder, Live
<1>5. ArchivesInOrder'
  BY <1>4 DEF ArchivesInOrder, Live, Before
<1>6. ASSUME NEW c \in Cyclers, cycPc'[c] = "tar" PROVE Between(timeFile[cycTime[c]])'
  BY <1>2, <1>3, <1>6 DEF Between, Before
<1>7. QED BY <1>4, <1>5, <1>6

LEMMA FirstRunStep ==
  DataTypes /\ LiveInv /\ FirstRunInv /\ [Next]_vars => FirstRunInv'
<1> SUFFICES ASSUME DataTypes, LiveInv, FirstRunInv, [Next]_vars, deinits' = 0
             PROVE  ArchiveInv'
  BY DEF FirstRunInv
<1>1. OneCycler' /\ deinits = 0 /\ ArchiveInv
  BY OneCyclerStep DEF FirstRunInv, ArchiveInv
<1>2. ASSUME UNCHANGED archive,
             \A c \in Cyclers : cycPc'[c] = "tar" =>
                cycPc[c] = "tar" /\ timeFile'[cycTime'[c]] = timeFile[cycTime[c]]
      PROVE  ArchiveInv'
  BY <1>1, <1>2, ArchivesKept DEF ArchiveInv
<1>3. CASE Restart
  BY <1>2, <1>3 DEF Restart, oldFiles
<1>4. ASSUME NEW c \in Cyclers, RenameBak(c) PROVE ArchiveInv'
  <2>1. CASE Goto(c, "remove") /\ UNCHANGED <<timeFile, cycTime>>
    BY <1>2, <1>4, <2>1 DEF RenameBak, Goto, DataTypes, ThreadTypes
  <2>2. CASE /\ Goto(c, "tar") /\ bak' = {} /\ UNCHANGED <<file, cache>>
             /\ \E t \in Seconds : /\ timeFile' = [timeFile EXCEPT ![t] = bak]
                                   /\ cycTime' = [cycTime EXCEPT ![c] = t]
    <3>1. timeFile'[cycTime'[c]] = bak
      BY <2>2 DEF DataTypes, FileTypes, ThreadTypes
    <3>2. UNCHANGED <<archive, printed>> /\ cycPc[c] = "rename"
      BY <1>4 DEF RenameBak, countVars, At
    <3>3. /\ \A i \in Indices : Before(archive'[i], bak)
          /\ Before(bak, Live') /\ \A n \in bak : n <= printed'
      BY <1>1, <2>2, <3>2 DEF Between, ArchiveInv, ArchivesInOrder, LiveInv, LiveInOrder,
         Before, Live
    <3>4. \A d \in Cyclers : cycPc'[d] = "tar" => d = c
      BY <1>1, <2>2, <3>2 DEF ArchiveInv, OneCycler, Goto, DataTypes, ThreadTypes
    <3>5. ArchivesInOrder' /\ (\A i \in Indices : \A n \in archive[i] : n <= printed)'
      BY <1>1, <2>2, <3>2 DEF ArchiveInv, ArchivesInOrder, Before
    <3>6. Between(timeFile[cycTime[c]])'
      BY <3>1, <3>3 DEF Between
    <3>7. QED BY <1>1, <3>4, <3>5, <3>6 DEF ArchiveInv
  <2>3. QED BY <1>4, <2>1, <2>2 DEF RenameBak, cacheVars
<1>5. ASSUME NEW c \in Cyclers, Tar(c) PROVE ArchiveInv'
  <2>1. /\ UNCHANGED <<bak, file, cache, timeFile, printed>>
        /\ cycPc[c] = "tar" /\ Goto(c, "clean")
    BY <1>5 DEF Tar, At, liveFiles, cacheVars
  <2>2. \A d \in Cyclers : cycPc'[d] # "tar"
    BY <1>1, <2>1 DEF ArchiveInv, OneCycler, Goto, DataTypes, ThreadTypes
  <2>3. CASE UNCHANGED archive
    BY <1>2, <2>2, <2>3
  <2>4. CASE archive' = [archive EXCEPT ![cycIndex[c]] = timeFile[cycTime[c]]]
    <3> DEFINE text == timeFile[cycTime[c]]
    <3>1. Between(text)
      BY <1>1, <2>1 DEF ArchiveInv
    <3>2. \A i \in Indices : archive'[i] = IF i = cycIndex[c] THEN text ELSE archive[i]
      BY <2>4 DEF DataTypes, FileTypes
    <3> HIDE DEF text
    <3>3. ArchivesInOrder'
      BY <1>1, <2>1, <3>1, <3>2 DEF ArchiveInv, ArchivesInOrder, Between, Before, Live
    <3>4. (\A i \in Indices : \A n \in archive[i] : n <= printed)'
      BY <1>1, <2>1, <3>1, <3>2 DEF ArchiveInv, Between
    <3>5. QED BY <1>1, <2>2, <3>3, <3>4 DEF ArchiveInv
  <2>5. QED BY <1>5, <2>3, <2>4 DEF Tar
<1>6. ASSUME NEW c \in Cyclers, RemoveTimeFile(c) PROVE ArchiveInv'
  <2>1. cycPc[c] = "clean" /\ Goto(c, "index") /\ UNCHANGED archive
    BY <1>6 DEF RemoveTimeFile, At
  <2>2. \A d \in Cyclers : cycPc'[d] # "tar"
    BY <1>1, <2>1 DEF ArchiveInv, OneCycler, Goto, DataTypes, ThreadTypes
  <2>3. QED BY <1>2, <2>1, <2>2
<1>7. ASSUME NEW c \in Cyclers, NEW pc, pc # "tar", Goto(c, pc), UNCHANGED <<oldFiles, cycTime>>
      PROVE  ArchiveInv'
  BY <1>2, <1>7 DEF Goto, oldFiles, DataTypes, ThreadTypes
<1>8. CASE UNCHANGED <<oldFiles, cycPc, cycTime>>
  BY <1>2, <1>8 DEF oldFiles
<1>9. ASSUME NEW p \in Printers, MyLogInit(p) PROVE ArchiveInv'
  <2>1. CASE UNCHANGED cycPc
    BY <1>8, <1>9, <2>1 DEF MyLogInit, MyLogInitStart
  <2>2. CASE \E c \in Cyclers : cycPc' = [cycPc EXCEPT ![c] = "start"]
    BY <1>7, <1>9, <2>2 DEF MyLogInit, MyLogInitStart, Goto
  <2>3. QED BY <1>9, <2>1, <2>2 DEF MyLogInit
<1>10. ASSUME NEW c \in Cyclers,
              \/ CycleStart(c) \/ CycleLoop(c) \/ Wake(c) \/ CycleFlush(c)
              \/ RemoveBak(c) \/ NextIndex(c)
       PROVE  \E pc : pc # "tar" /\ Goto(c, pc) /\ UNCHANGED <<oldFiles, cycTime>>
  BY <1>10 DEF CycleStart, CycleLoop, Wake, WakeTo, CycleFlush, RemoveBak, NextIndex, AdvanceTo
<1>11. \/ \E p \in Printers : MyLogInit(p)
       \/ \E c \in Cyclers : RenameBak(c) \/ Tar(c) \/ RemoveTimeFile(c)
       \/ \E c \in Cyclers : \/ CycleStart(c) \/ CycleLoop(c) \/ Wake(c) \/ CycleFlush(c)
                             \/ RemoveBak(c) \/ NextIndex(c)
       \/ Restart \/ UNCHANGED <<oldFiles, cycPc, cycTime>>
  BY NextCases DEF MyPrintLog, Output, OverrunCache, WriteLine, MyLogInitFails, MyLogInitStart, DeinitBegin,
     DeinitEnd, MyLogSetLevel, CrashInWriteLine, CrashInCycleFlush, CrashInWrite,
     DivideByZero, Crash, DeleteLog, TimePasses, vars, cycVars
<1>12. QED BY <1>3, <1>4, <1>5, <1>6, <1>7, <1>8, <1>9, <1>10, <1>11

\* Lines are stored in the order they were printed, and none of them twice.
THEOREM OrderKept == Spec => []StoredInOrder
<1>1. Init => LiveInv /\ FirstRunInv
  BY DEF Init, FreshProcess, LiveInv, LiveInOrder, Live, Before, FirstRunInv, ArchiveInv,
     OneCycler, ArchivesInOrder
<1>2. LiveInv /\ FirstRunInv => StoredInOrder
  BY DEF LiveInv, FirstRunInv, ArchiveInv, StoredInOrder
<1>3. QED
  BY <1>1, <1>2, TypesInit, DataTypesStep, LiveInvStep, FirstRunStep, PTL DEF Spec
-------------------------------------------------------------------------------
(***************************************************************************)
(* The .bak and its post.                                                  *)
(***************************************************************************)
Waiting == sem > 0 \/ \E c \in Cyclers : At(c, "rename") \/ At(c, "remove")

\* Nothing is written before the first MyLogInit, which names the files.
BakInv ==
  /\ \A p \in Printers : callPc[p] = "sleep" => past = "restarted"
  /\ past # "restarted" =>
       /\ hasBak => Waiting
       /\ isInit => Named
       /\ ~isInit => /\ ~hasBak
                     /\ \A p \in Printers : callPc[p] \notin {"format", "write"}
                     /\ \A c \in Cyclers : cycPc[c] = "none"

\* A flush posts a .bak it makes, and starts nothing again.
LEMMA FlushPosts ==
  ASSUME DataTypes, NEW lines, NEW len, WriteLogToCache(lines, len)
  PROVE  /\ sem' > 0 \/ UNCHANGED <<hasBak, sem>>
         /\ past' # "restarted" => past # "restarted"
<1> USE DEF DataTypes, ProcessTypes
<1>1. CASE UNCHANGED <<liveFiles, sem>> /\ (UNCHANGED past \/ Lossy(cache \cup lines # {}))
  BY <1>1 DEF liveFiles, Lossy
<1>2. ASSUME NEW text, NEW size, NEW written, RotateIfFull(text, size, written)
      PROVE  /\ sem' > 0 \/ UNCHANGED <<hasBak, sem>>
             /\ past' # "restarted" => past # "restarted"
  BY <1>2 DEF RotateIfFull, Rotate, RotateTo, Lossy
<1>3. ASSUME NEW text, NEW size, StayFull(text, size)
      PROVE  /\ sem' > 0 \/ UNCHANGED <<hasBak, sem>>
             /\ past' # "restarted" => past # "restarted"
  BY <1>3 DEF StayFull, Lossy
<1>4. QED BY <1>1, <1>2, <1>3 DEF WriteLogToCache, WriteLogToFile

LEMMA BakInvStep == DataTypes /\ BakInv /\ [Next]_vars => BakInv'
<1> SUFFICES ASSUME DataTypes, BakInv, [Next]_vars PROVE BakInv'
  OBVIOUS
<1> USE DEF BakInv
<1>1. ASSUME NEW p \in Printers, MyPrintLog(p) \/ Output(p) \/ OverrunCache(p) PROVE BakInv'
  <2>1. UNCHANGED <<isInit, cfg, sem, cycPc, hasBak, past>>
    BY <1>1, PrintKeeps DEF cycVars, liveFiles
  <2>2. /\ \A q \in Printers : callPc'[q] = "sleep" => callPc[q] = "sleep"
        /\ \A q \in Printers : callPc'[q] \in {"format", "write"} =>
              isInit \/ callPc[q] \in {"format", "write"}
    BY <1>1, PrintKeeps DEF DataTypes, ThreadTypes
  <2>3. QED BY <2>1, <2>2 DEF Waiting, At, Named
<1>2. ASSUME NEW p \in Printers, WriteLine(p) PROVE BakInv'
  <2>1. /\ callPc[p] = "write" /\ callPc' = [callPc EXCEPT ![p] = "idle"]
        /\ UNCHANGED <<isInit, cfg, cycPc>>
        /\ WriteLogToCache({printed'}, LineLen[printed'])
    BY <1>2 DEF WriteLine, cycVars
  <2>2. /\ sem' > 0 \/ UNCHANGED <<hasBak, sem>>
        /\ past' # "restarted" => past # "restarted"
    BY <2>1, FlushPosts
  <2>3. past = "restarted" => past' = "restarted"
    BY <2>1 DEF WriteLogToCache, WriteLogToFile, RotateIfFull, Rotate, RotateTo, StayFull, Lossy
  <2>4. QED BY <2>1, <2>2, <2>3 DEF DataTypes, ThreadTypes, Waiting, At, Named
<1>3. ASSUME NEW c \in Cyclers, CycleFlush(c) PROVE BakInv'
  <2>1. /\ cycPc[c] = "flush" /\ cycPc' = [cycPc EXCEPT ![c] = "loop"]
        /\ UNCHANGED <<isInit, cfg, callPc>>
        /\ WriteLogToCache({}, 0)
    BY <1>3 DEF CycleFlush, callVars, At, Goto
  <2>2. /\ sem' > 0 \/ UNCHANGED <<hasBak, sem>>
        /\ past' # "restarted" => past # "restarted"
    BY <2>1, FlushPosts
  <2>3. past = "restarted" => past' = "restarted"
    BY <2>1 DEF WriteLogToCache, WriteLogToFile, RotateIfFull, Rotate, RotateTo, StayFull, Lossy
  <2>4. QED BY <2>1, <2>2, <2>3 DEF DataTypes, ThreadTypes, Waiting, At, Named
<1>4. ASSUME NEW p \in Printers, MyLogInit(p) PROVE BakInv'
  BY <1>4 DEF MyLogInit, MyLogInitStart, MyLogCfgLoad, liveFiles, Named
<1>5. ASSUME NEW p \in Printers, MyLogInitFails(p) PROVE BakInv'
  BY <1>5 DEF MyLogInitFails, MyLogInitStart, liveFiles
<1>6. ASSUME NEW p \in Printers, DeinitBegin(p) PROVE BakInv'
  BY <1>6 DEF DeinitBegin
<1>7. ASSUME NEW p \in Printers, DeinitEnd(p) PROVE BakInv'
  BY <1>7 DEF DeinitEnd, DataTypes, ThreadTypes
<1>8. CASE Restart
  BY <1>8 DEF Restart
<1>9. CASE UNCHANGED <<isInit, cfg, sem, callPc, cycPc, past>> /\ (hasBak' => hasBak)
  BY <1>9 DEF Waiting, At, Named
<1>10. ASSUME NEW c \in Cyclers, NEW pc, ~At(c, "none"), ~At(c, "rename"), ~At(c, "remove"),
              Goto(c, pc), UNCHANGED <<isInit, cfg, sem, callPc, hasBak>>,
              past' = past \/ Lossy(TRUE)
       PROVE  BakInv'
  BY <1>10 DEF Waiting, At, Goto, Named, Lossy, DataTypes, ThreadTypes
<1>11. ASSUME NEW c \in Cyclers, Wake(c) PROVE BakInv'
  <2>1. /\ ~At(c, "none") /\ ~At(c, "rename") /\ ~At(c, "remove")
        /\ UNCHANGED <<isInit, cfg, callPc, hasBak, past>>
    BY <1>11 DEF Wake, WakeTo, At, callVars, liveFiles
  <2>2. CASE Goto(c, "rename")
    BY <2>1, <2>2 DEF Waiting, At, Goto, Named, DataTypes, ThreadTypes
  <2>3. CASE UNCHANGED sem /\ Goto(c, "flush")
    BY <1>10, <2>1, <2>3
  <2>4. QED BY <1>11, <2>2, <2>3 DEF Wake, WakeTo
<1>12. ASSUME NEW c \in Cyclers, RenameBak(c) PROVE BakInv'
  <2>1. /\ cycPc[c] = "rename" /\ UNCHANGED <<isInit, cfg, callPc>>
        /\ past' = "restarted" <=> past = "restarted"
    BY <1>12 DEF RenameBak, At, callVars, Lossy
  <2>2. CASE hasBak' = FALSE /\ Goto(c, "tar")
    BY <2>1, <2>2 DEF Goto, Named, DataTypes, ThreadTypes
  <2>3. CASE UNCHANGED hasBak /\ Goto(c, "remove")
    BY <2>1, <2>3 DEF Waiting, At, Goto, Named, DataTypes, ThreadTypes
  <2>4. QED BY <1>12, <2>2, <2>3 DEF RenameBak
<1>13. ASSUME NEW c \in Cyclers, RemoveBak(c) PROVE BakInv'
  <2>1. /\ cycPc[c] = "remove" /\ Goto(c, "index")
        /\ UNCHANGED <<isInit, cfg, callPc, past>>
        /\ hasBak' = (hasBak /\ ~Named)
    BY <1>13 DEF RemoveBak, At, callVars, countVars
  <2>2. past # "restarted" => isInit /\ Named
    BY <2>1
  <2>3. QED BY <2>1, <2>2 DEF Goto, Named, DataTypes, ThreadTypes
<1>14. CASE DeleteLog
  BY <1>14 DEF DeleteLog, Lossy, callVars, cycVars, Waiting, At, Named
<1>15. ASSUME NEW c \in Cyclers,
              \/ CycleStart(c) \/ CycleLoop(c) \/ Tar(c) \/ RemoveTimeFile(c) \/ NextIndex(c)
       PROVE  /\ ~At(c, "none") /\ ~At(c, "rename") /\ ~At(c, "remove")
              /\ \E pc : Goto(c, pc)
              /\ UNCHANGED <<isInit, cfg, sem, callPc, hasBak>>
              /\ past' = past \/ Lossy(TRUE)
  BY <1>15 DEF CycleStart, CycleLoop, Tar, RemoveTimeFile, NextIndex, AdvanceTo, At, callVars,
     liveFiles
<1>16. \/ \E p \in Printers : \/ MyPrintLog(p) \/ Output(p) \/ OverrunCache(p)
                            \/ WriteLine(p) \/ MyLogInit(p)
                            \/ MyLogInitFails(p) \/ DeinitBegin(p) \/ DeinitEnd(p)
       \/ \E c \in Cyclers : \/ CycleFlush(c) \/ Wake(c) \/ RenameBak(c) \/ RemoveBak(c)
       \/ \E c \in Cyclers : \/ CycleStart(c) \/ CycleLoop(c) \/ Tar(c)
                             \/ RemoveTimeFile(c) \/ NextIndex(c)
       \/ Restart \/ DeleteLog
       \/ UNCHANGED <<isInit, cfg, sem, callPc, cycPc, past>> /\ (hasBak' => hasBak)
  BY NextCases DEF MyLogSetLevel, CrashInWriteLine, CrashInCycleFlush, CrashInWrite,
     DivideByZero, Crash, TimePasses, vars, callVars, cycVars, liveFiles
<1>17. QED
  BY <1>1, <1>2, <1>3, <1>4, <1>5, <1>6, <1>7, <1>8, <1>9, <1>10, <1>11, <1>12, <1>13,
     <1>14, <1>15, <1>16

\* In the first run of the log every .bak has its post.
THEOREM BakPosted == Spec => []BakHasPost
<1>1. Init => BakInv
  BY DEF Init, FreshProcess, BakInv
<1>2. BakInv => BakHasPost
  BY DEF BakInv, BakHasPost, Waiting
<1>3. QED BY <1>1, <1>2, TypesInit, DataTypesStep, BakInvStep, PTL DEF Spec
-------------------------------------------------------------------------------
(***************************************************************************)
(* No gap.  While the log is calm there is one archive thread, the .bak is *)
(* taken before the next one is made, and only the oldest archive goes.    *)
(***************************************************************************)
Timed == UNION {timeFile[t] : t \in Seconds}
Archived == UNION {archive[i] : i \in Indices}
ArchivesFull == \A i \in Indices : archive[i] # {}

\* A file that is open is there, and what is not empty has lines in it.
FlushFacts ==
  /\ logFd => hasFile
  /\ hasBak <=> bak # {}
  /\ offset > 0 => cache # {}
  /\ fileSize > 0 => file # {}

FilesAgree == deinits = 0 /\ (~isInit => printed = 0) /\ FlushFacts

\* A post is for the .bak that is there.
PostsAgree ==
  /\ sem > 0 => hasBak /\ sem = 1
  /\ \A c \in Cyclers : At(c, "rename") => hasBak /\ sem = 0

\* What the archive thread has done, once it has read its index.
Started(c) == cycPc[c] \notin {"none", "start"}
Archiving(c) == At(c, "tar") \/ At(c, "clean")

ThreadAgrees ==
  /\ \A c \in Cyclers : ~At(c, "remove") /\ (Started(c) => isRunning)
  /\ \A t \in Seconds : timeFile[t] # {} => \E c \in Cyclers : Archiving(c) /\ cycTime[c] = t
  /\ \A c \in Cyclers :
       /\ At(c, "tar") => timeFile[cycTime[c]] # {}
       /\ At(c, "clean") => timeFile[cycTime[c]] \subseteq archive[cycIndex[c]]
  /\ (\A c \in Cyclers : ~Started(c)) => \A i \in Indices : archive[i] = {}

\* The index of the next archive, which replaces the oldest.
NextArchive(c) ==
  IF At(c, "clean") \/ At(c, "index") THEN (cycIndex[c] + 1) % FileNum ELSE cycIndex[c]

\* Archives are written from index 0 on, and round again.
Older(i, j, k) == (i >= k /\ j < k) \/ (i < j /\ (i >= k <=> j >= k))

Cycle(k) ==
  /\ \A i, j \in Indices : Older(i, j, k) => Before(archive[i], archive[j])
  /\ ArchivesFull \/ \A i \in Indices : archive[i] # {} <=> i < k

CycleAgrees == \A c \in Cyclers : Started(c) => Cycle(NextArchive(c))

LastLines(S, full) == \E a \in 1 .. printed + 1 : S = a .. printed /\ (a = 1 \/ full)

Contiguous == LastLines(Live \cup Timed \cup Archived, ArchivesFull)

Calm == past = "calm" /\ FilesAgree /\ PostsAgree /\ ThreadAgrees /\ CycleAgrees /\ Contiguous

CalmInv == past = "calm" => Calm

\* What the steps below rest on.
Base == DataTypes /\ LiveInv /\ ArchiveInv /\ BakInv /\ Calm

\* The steps of a calm log.
LEMMA CalmCases ==
  ASSUME Base, [Next]_vars, past' = "calm"
  PROVE  \/ \E p \in Printers : WriteLine(p) \/ MyLogInit(p) \/ MyLogInitFails(p)
         \/ \E c \in Cyclers :
              \/ CycleStart(c) \/ CycleLoop(c) \/ Wake(c) \/ CycleFlush(c)
              \/ RenameBak(c) \/ Tar(c) \/ RemoveTimeFile(c) \/ NextIndex(c)
         \/ UNCHANGED <<isInit, isRunning, cache, offset, logFd, sem, cycVars, liveFiles,
                        oldFiles, printed, deinits>>
<1>1. ASSUME NEW p \in Printers PROVE ~DeinitBegin(p) /\ ~CrashInWriteLine(p) /\ ~DeinitEnd(p)
  <2>1. callPc[p] # "sleep"
    BY DEF Base, BakInv, Calm
  <2>2. QED BY <2>1 DEF DeinitBegin, DeinitEnd, CrashInWriteLine, CrashInWrite, Restart
<1>2. ASSUME NEW c \in Cyclers
      PROVE  ~RemoveBak(c) /\ ~DivideByZero(c) /\ ~CrashInCycleFlush(c)
  BY DEF RemoveBak, DivideByZero, CrashInCycleFlush, CrashInWrite, Restart, Base, Calm,
         ThreadAgrees
<1>3. ~Crash /\ ~DeleteLog
  BY DEF Crash, Restart, DeleteLog, Lossy, Base, Calm
<1>4. ASSUME NEW p \in Printers, \E v \in Levels : MyLogSetLevel(p, v)
      PROVE  UNCHANGED <<isInit, isRunning, cache, offset, logFd, sem, cycVars, liveFiles,
                         oldFiles, printed, deinits>>
  BY <1>4 DEF MyLogSetLevel, cacheVars, countVars
<1>5. TimePasses \/ UNCHANGED vars =>
        UNCHANGED <<isInit, isRunning, cache, offset, logFd, sem, cycVars, liveFiles,
                    oldFiles, printed, deinits>>
  BY DEF TimePasses, vars, cacheVars, countVars
<1>6. ASSUME NEW p \in Printers, MyPrintLog(p) \/ Output(p) \/ OverrunCache(p)
      PROVE  UNCHANGED <<isInit, isRunning, cache, offset, logFd, sem, cycVars, liveFiles,
                         oldFiles, printed, deinits>>
  BY <1>6, PrintKeeps DEF cacheVars, Base
<1>7. QED BY NextCases, <1>1, <1>2, <1>3, <1>4, <1>5, <1>6

\* A flush moves text and loses none; a .bak it makes is the only one and has a
\* post.
LEMMA FlushCalm ==
  ASSUME Base, NEW lines \in SUBSET Lines, NEW len \in Nat, len > 0 => lines # {},
         WriteLogToCache(lines, len), past' = "calm"
  PROVE  /\ Live' = Live \cup lines
         /\ FlushFacts'
         /\ UNCHANGED <<hasBak, sem>> \/ (~hasBak /\ hasBak' /\ sem' = sem + 1)
<1> DEFINE text == cache \cup lines
<1>1. /\ past = "calm" /\ FlushFacts
      /\ offset \in Nat /\ fileSize \in Nat /\ FileSize \in Nat
  BY ConstantsAssumption DEF Base, Calm, FilesAgree, FlushFacts, DataTypes, ProcessTypes, FileTypes
<1>2. CASE ~Flushes(len)
  <2>1. /\ cache' = text /\ offset' = offset + len
        /\ UNCHANGED <<logFd, liveFiles, sem>>
    BY <1>2 DEF WriteLogToCache
  <2>2. offset' > 0 => cache' # {}
    BY <1>1, <2>1 DEF FlushFacts
  <2>3. FlushFacts'
    BY <1>1, <2>1, <2>2 DEF liveFiles, FlushFacts
  <2>4. QED BY <2>1, <2>3 DEF liveFiles, Live
<1>3. CASE Flushes(len)
  <2>1. cache' = {} /\ offset' = 0 /\ WriteLogToFile(text, offset + len)
    BY <1>3 DEF WriteLogToCache
  <2>2. ~(logFd /\ ~hasFile)
    BY <1>1 DEF FlushFacts
  <2>3. CASE Lossy(text # {}) /\ UNCHANGED <<logFd, liveFiles, sem>>
    <3>1. text = {}
      BY <1>1, <2>3 DEF Lossy
    <3>2. FlushFacts'
      BY <1>1, <2>1, <2>3 DEF liveFiles, FlushFacts
    <3>3. QED BY <2>1, <2>3, <3>1, <3>2 DEF liveFiles, Live
  <2>4. /\ ~RotateIfFull(file, fileSize, FALSE)
        /\ \A left, size : ~StayFull(left, size)
    BY <1>1 DEF RotateIfFull, StayFull, Lossy
  <2>5. CASE RotateIfFull(file \cup text, fileSize + (offset + len), TRUE)
    <3>1. fileSize + (offset + len) > 0 => file \cup text # {}
      BY <1>1 DEF FlushFacts
    <3>2. CASE fileSize + (offset + len) > FileSize /\ Rotate(file \cup text)
               /\ Lossy(hasBak \/ ~TRUE)
      <4>1. ~hasBak /\ bak = {}
        BY <1>1, <3>2 DEF Lossy, FlushFacts
      <4>2. file \cup text # {}
        BY <1>1, <3>1, <3>2
      <4>3. /\ logFd' = FALSE /\ file' = {} /\ fileSize' = 0
            /\ hasBak' = TRUE /\ bak' = file \cup text /\ sem' = sem + 1
        BY <3>2 DEF Rotate, RotateTo
      <4>4. Live' = Live \cup lines
        BY <2>1, <4>1, <4>3 DEF Live
      <4>5. (hasBak' <=> bak' # {}) /\ (logFd' => hasFile')
        BY <4>2, <4>3, Zenon
      <4>6. (offset' > 0 => cache' # {}) /\ (fileSize' > 0 => file' # {})
        BY <2>1, <4>3
      <4>7. FlushFacts'
        BY <4>5, <4>6, Zenon DEF FlushFacts
      <4>8. QED BY <4>1, <4>3, <4>4, <4>7
    <3>3. CASE /\ logFd' = TRUE /\ hasFile' = TRUE /\ file' = file \cup text
               /\ fileSize' = fileSize + (offset + len)
               /\ UNCHANGED <<hasBak, bak, sem>>
      <4>1. Live' = Live \cup lines
        BY <2>1, <3>3 DEF Live
      <4>2. (hasBak' <=> bak' # {}) /\ (logFd' => hasFile')
        BY <1>1, <3>3, Zenon DEF FlushFacts
      <4>3. (offset' > 0 => cache' # {}) /\ (fileSize' > 0 => file' # {})
        BY <2>1, <3>1, <3>3
      <4>4. FlushFacts'
        BY <4>2, <4>3, Zenon DEF FlushFacts
      <4>5. QED BY <3>3, <4>1, <4>4
    <3>4. QED BY <2>5, <3>2, <3>3 DEF RotateIfFull
  <2>6. QED BY <2>1, <2>2, <2>3, <2>4, <2>5 DEF WriteLogToFile
<1>4. QED BY <1>2, <1>3

\* In a calm log the archive thread is the only one, and MyLogInit has been
\* called and has named the files.
LEMMA OneStarted ==
  ASSUME Base, NEW c \in Cyclers, ~At(c, "none")
  PROVE  Named /\ isInit /\ \A d \in Cyclers : d # c => At(d, "none")
BY DEF Base, Calm, ArchiveInv, OneCycler, BakInv, At

\* Before MyLogInit there is no text at all.
LEMMA NothingBefore ==
  ASSUME Base, ~isInit
  PROVE  Live = {} /\ Timed = {} /\ Archived = {} /\ offset = 0 /\ ~hasBak
<1>1. printed = 0 /\ printed + 1 = 1
  BY DEF Base, Calm, FilesAgree
<1>2. Live \cup Timed \cup Archived = {}
  <2>1. PICK a \in 1 .. printed + 1 : Live \cup Timed \cup Archived = a .. printed
    BY DEF Base, Calm, Contiguous, LastLines
  <2>2. a .. printed = {}
    BY <1>1
  <2>3. QED BY <2>1, <2>2
<1>3. cache = {} /\ bak = {}
  BY <1>2 DEF Live
<1>4. offset = 0
  BY <1>3 DEF Base, Calm, FilesAgree, FlushFacts, DataTypes, ProcessTypes
<1>5. ~hasBak
  BY <1>3 DEF Base, Calm, FilesAgree, FlushFacts
<1>6. QED BY <1>2, <1>4, <1>5

LEMMA FilesAgreeStep ==
  ASSUME Base, [Next]_vars, past' = "calm"
  PROVE  FilesAgree'
<1>1. FilesAgree
  BY DEF Base, Calm
<1>2. ASSUME NEW p \in Printers, WriteLine(p) PROVE FilesAgree'
  <2>1. PICK n \in Lines : LineLen[n] \in Nat \ {0} /\ WriteLogToCache({n}, LineLen[n])
    BY <1>2, TakenLine DEF Base
  <2>2. LineLen[n] \in Nat /\ {n} # {}
    BY <2>1, ConstantsAssumption
  <2>3. FlushFacts'
    BY <2>1, <2>2, FlushCalm
  <2>4. isInit' /\ deinits' = deinits
    BY <1>2 DEF WriteLine, Base, Calm, BakInv
  <2>5. QED BY <1>1, <2>3, <2>4 DEF FilesAgree
<1>3. ASSUME NEW c \in Cyclers, CycleFlush(c) PROVE FilesAgree'
  <2>1. WriteLogToCache({}, 0) /\ UNCHANGED <<isInit, printed, deinits>>
    BY <1>3 DEF CycleFlush
  <2>2. FlushFacts'
    BY <2>1, FlushCalm
  <2>3. QED BY <1>1, <2>1, <2>2 DEF FilesAgree
<1>4. ASSUME NEW p \in Printers, MyLogInit(p) \/ MyLogInitFails(p) PROVE FilesAgree'
  <2>1. /\ ~isInit /\ cache' = {}
        /\ UNCHANGED <<offset, logFd, hasFile, file, fileSize, hasBak, bak, printed, deinits>>
    BY <1>4 DEF MyLogInit, MyLogInitFails, MyLogInitStart, liveFiles, countVars
  <2>2. offset = 0 /\ printed = 0
    BY <1>1, <2>1, NothingBefore DEF FilesAgree
  <2>3. QED BY <1>1, <2>1, <2>2 DEF FilesAgree, FlushFacts
<1>5. ASSUME UNCHANGED <<isInit, cache, offset, logFd, hasFile, file, fileSize, printed, deinits>>,
             UNCHANGED <<hasBak, bak>> \/ (hasBak' = FALSE /\ bak' = {})
      PROVE  FilesAgree'
  BY <1>1, <1>5 DEF FilesAgree, FlushFacts
<1>6. ASSUME NEW c \in Cyclers,
             \/ CycleStart(c) \/ CycleLoop(c) \/ Wake(c) \/ RenameBak(c) \/ Tar(c)
             \/ RemoveTimeFile(c) \/ NextIndex(c)
      PROVE  /\ UNCHANGED <<isInit, cache, offset, logFd, hasFile, file, fileSize, printed, deinits>>
             /\ UNCHANGED <<hasBak, bak>> \/ (hasBak' = FALSE /\ bak' = {})
  BY <1>6 DEF CycleStart, CycleLoop, Wake, WakeTo, RenameBak, Tar, RemoveTimeFile, NextIndex,
     AdvanceTo, cacheVars, liveFiles, countVars
<1>7. CASE UNCHANGED <<isInit, isRunning, cache, offset, logFd, sem, cycVars, liveFiles,
                       oldFiles, printed, deinits>>
  BY <1>5, <1>7 DEF liveFiles
<1>8. QED BY CalmCases, <1>2, <1>3, <1>4, <1>5, <1>6, <1>7

LEMMA PostsAgreeStep ==
  ASSUME Base, [Next]_vars, past' = "calm"
  PROVE  PostsAgree'
<1>1. /\ sem > 0 => hasBak /\ sem = 1
      /\ \A c \in Cyclers : At(c, "rename") => hasBak /\ sem = 0
      /\ sem \in Nat
  BY DEF Base, Calm, PostsAgree, DataTypes, ProcessTypes
<1>2. ASSUME UNCHANGED <<hasBak, sem>> \/ (~hasBak /\ hasBak' /\ sem' = sem + 1),
             \A c \in Cyclers : At(c, "rename")' => At(c, "rename")
      PROVE  PostsAgree'
  <2>1. CASE UNCHANGED <<hasBak, sem>>
    BY <1>1, <1>2, <2>1 DEF PostsAgree
  <2>2. CASE ~hasBak /\ hasBak' /\ sem' = sem + 1
    <3>1. sem' = 1 /\ \A c \in Cyclers : ~At(c, "rename")'
      BY <1>1, <1>2, <2>2
    <3>2. QED BY <2>2, <3>1 DEF PostsAgree
  <2>3. QED BY <1>2, <2>1, <2>2
<1>3. ASSUME NEW c \in Cyclers, NEW pc, pc # "rename", Goto(c, pc)
      PROVE  \A d \in Cyclers : At(d, "rename")' => At(d, "rename") /\ d # c
  BY <1>3 DEF Goto, At, Base, DataTypes, ThreadTypes
<1>4. ASSUME NEW p \in Printers, WriteLine(p) PROVE PostsAgree'
  <2>1. PICK n \in Lines : LineLen[n] \in Nat \ {0} /\ WriteLogToCache({n}, LineLen[n])
    BY <1>4, TakenLine DEF Base
  <2>2. LineLen[n] \in Nat /\ {n} # {}
    BY <2>1, ConstantsAssumption
  <2>3. UNCHANGED <<hasBak, sem>> \/ (~hasBak /\ hasBak' /\ sem' = sem + 1)
    BY <2>1, <2>2, FlushCalm
  <2>4. \A c \in Cyclers : At(c, "rename")' => At(c, "rename")
    BY <1>4 DEF WriteLine, cycVars, At
  <2>5. QED BY <1>2, <2>3, <2>4
<1>5. ASSUME NEW c \in Cyclers, CycleFlush(c) PROVE PostsAgree'
  <2>1. UNCHANGED <<hasBak, sem>> \/ (~hasBak /\ hasBak' /\ sem' = sem + 1)
    BY <1>5, FlushCalm DEF CycleFlush
  <2>2. QED BY <1>2, <1>3, <1>5, <2>1 DEF CycleFlush
<1>6. ASSUME NEW p \in Printers, MyLogInit(p) \/ MyLogInitFails(p) PROVE PostsAgree'
  <2>1. ~isInit /\ sem' = 0
    BY <1>6 DEF MyLogInit, MyLogInitFails, MyLogInitStart
  <2>2. \A c \in Cyclers : ~At(c, "rename")
    BY <2>1, OneStarted DEF At
  <2>3. \A c \in Cyclers : ~At(c, "rename")'
    BY <1>6, <2>2 DEF MyLogInit, MyLogInitFails, At, Base, DataTypes, ThreadTypes
  <2>4. QED BY <2>1, <2>3 DEF PostsAgree
<1>7. ASSUME NEW c \in Cyclers, Wake(c) PROVE PostsAgree'
  <2>1. At(c, "wait") /\ UNCHANGED hasBak
    BY <1>7 DEF Wake, WakeTo, liveFiles
  <2>2. CASE sem > 0 /\ sem' = sem - 1 /\ Goto(c, "rename")
    <3>1. hasBak' /\ sem' = 0
      BY <1>1, <2>1, <2>2
    <3>2. QED BY <3>1 DEF PostsAgree
  <2>3. CASE UNCHANGED sem /\ Goto(c, "flush")
    BY <1>2, <1>3, <2>1, <2>3
  <2>4. QED BY <1>7, <2>2, <2>3 DEF Wake, WakeTo
<1>8. ASSUME NEW c \in Cyclers, RenameBak(c) PROVE PostsAgree'
  <2>1. At(c, "rename") /\ hasBak /\ sem = 0 /\ Named
    BY <1>1, <1>8, OneStarted DEF RenameBak, At
  <2>2. sem' = 0 /\ Goto(c, "tar")
    BY <1>8, <2>1 DEF RenameBak, Lossy, Base, Calm
  <2>3. \A d \in Cyclers : ~At(d, "rename")'
    BY <1>3, <2>1, <2>2, OneStarted DEF At
  <2>4. QED BY <2>2, <2>3 DEF PostsAgree
<1>9. ASSUME NEW c \in Cyclers,
             CycleStart(c) \/ CycleLoop(c) \/ Tar(c) \/ RemoveTimeFile(c) \/ NextIndex(c)
      PROVE  /\ UNCHANGED <<hasBak, sem>>
             /\ \E pc : pc # "rename" /\ Goto(c, pc)
  BY <1>9 DEF CycleStart, CycleLoop, Tar, RemoveTimeFile, NextIndex, AdvanceTo, liveFiles
<1>10. CASE UNCHANGED <<isInit, isRunning, cache, offset, logFd, sem, cycVars, liveFiles,
                        oldFiles, printed, deinits>>
  BY <1>2, <1>10 DEF liveFiles, cycVars, At
<1>11. QED BY CalmCases, <1>2, <1>3, <1>4, <1>5, <1>6, <1>7, <1>8, <1>9, <1>10

\* Where the threads are after a step of one.
LEMMA ThreadMoves ==
  ASSUME Base, NEW c \in Cyclers, ~At(c, "none"), NEW pc, Goto(c, pc)
  PROVE  /\ cycPc'[c] = pc
         /\ \A d \in Cyclers : d # c => cycPc[d] = "none" /\ cycPc'[d] = "none"
BY OneStarted DEF Goto, At, Base, DataTypes, ThreadTypes

\* A thread that is not archiving has left no time file.
LEMMA NoTimeFile ==
  ASSUME Base, NEW c \in Cyclers, ~At(c, "none"), ~Archiving(c)
  PROVE  \A t \in Seconds : timeFile[t] = {}
BY OneStarted DEF Base, Calm, ThreadAgrees, Archiving, At

LEMMA OneTimeFile ==
  ASSUME Base, NEW c \in Cyclers, Archiving(c)
  PROVE  \A t \in Seconds : t # cycTime[c] => timeFile[t] = {}
BY OneStarted DEF Base, Calm, ThreadAgrees, Archiving, At

LEMMA ThreadAgreesStep ==
  ASSUME Base, [Next]_vars, past' = "calm"
  PROVE  ThreadAgrees'
<1> USE DEF Archiving, Started, At
<1>1. ThreadAgrees /\ DataTypes
  BY DEF Base, Calm
<1>2. ASSUME UNCHANGED <<isRunning, cycVars, oldFiles>> PROVE ThreadAgrees'
  BY <1>1, <1>2 DEF ThreadAgrees, cycVars, oldFiles
<1>3. ASSUME NEW p \in Printers, MyLogInit(p) \/ MyLogInitFails(p) PROVE ThreadAgrees'
  <2>1. ~isInit /\ UNCHANGED oldFiles
    BY <1>3 DEF MyLogInit, MyLogInitFails, MyLogInitStart
  <2>2. \A c \in Cyclers : cycPc[c] = "none"
    BY <2>1, OneStarted
  <2>3. \A c \in Cyclers : cycPc'[c] \in {"none", "start"}
    BY <1>1, <1>3, <2>2 DEF MyLogInit, MyLogInitFails, DataTypes, ThreadTypes
  <2>4. /\ \A t \in Seconds : timeFile'[t] = {}
        /\ \A i \in Indices : archive'[i] = {}
    BY <2>1, NothingBefore DEF Timed, Archived, oldFiles
  <2>5. QED BY <2>3, <2>4 DEF ThreadAgrees
<1>4. ASSUME NEW c \in Cyclers, NEW pc, ~At(c, "none"), ~Archiving(c), Goto(c, pc),
             pc \in {"loop", "wait", "flush", "rename"}, isRunning', UNCHANGED oldFiles
      PROVE  ThreadAgrees'
  <2>1. cycPc'[c] = pc /\ \A d \in Cyclers : d # c => cycPc'[d] = "none"
    BY <1>4, ThreadMoves
  <2>2. \A t \in Seconds : timeFile'[t] = {}
    BY <1>4, NoTimeFile DEF oldFiles
  <2>3. QED BY <1>4, <2>1, <2>2 DEF ThreadAgrees
<1>5. ASSUME NEW c \in Cyclers,
             CycleStart(c) \/ CycleLoop(c) \/ Wake(c) \/ CycleFlush(c) \/ NextIndex(c)
      PROVE  ThreadAgrees'
  <2>1. Started(c) => isRunning
    BY <1>1 DEF ThreadAgrees
  <2>2. /\ ~At(c, "none") /\ ~Archiving(c) /\ isRunning' /\ UNCHANGED oldFiles
        /\ \/ Goto(c, "loop") \/ Goto(c, "wait") \/ Goto(c, "flush") \/ Goto(c, "rename")
    BY <1>5, <2>1 DEF CycleStart, CycleLoop, Wake, WakeTo, CycleFlush, NextIndex, AdvanceTo
  <2>3. QED BY <1>4, <2>2
<1>6. ASSUME NEW c \in Cyclers, RenameBak(c) PROVE ThreadAgrees'
  <2>1. At(c, "rename") /\ Named /\ hasBak
    BY <1>6, OneStarted DEF RenameBak, Base, Calm, PostsAgree
  <2>2. PICK t \in Seconds : /\ timeFile' = [timeFile EXCEPT ![t] = bak]
                             /\ cycTime' = [cycTime EXCEPT ![c] = t]
                             /\ Goto(c, "tar") /\ UNCHANGED <<archive, isRunning>>
    BY <1>6, <2>1 DEF RenameBak, Lossy, Base, Calm
  <2>3. cycPc'[c] = "tar" /\ \A d \in Cyclers : d # c => cycPc'[d] = "none"
    BY <2>1, <2>2, ThreadMoves
  <2>4. \A u \in Seconds : timeFile'[u] = IF u = t THEN bak ELSE {}
    BY <1>1, <2>1, <2>2, NoTimeFile DEF DataTypes, FileTypes
  <2>5. cycTime'[c] = t /\ bak # {} /\ isRunning'
    BY <1>1, <2>1, <2>2 DEF DataTypes, ThreadTypes, ThreadAgrees, Base, Calm, FilesAgree, FlushFacts
  <2>6. QED BY <2>3, <2>4, <2>5 DEF ThreadAgrees
<1>7. ASSUME NEW c \in Cyclers, Tar(c) PROVE ThreadAgrees'
  <2>1. /\ At(c, "tar") /\ Goto(c, "clean") /\ UNCHANGED <<isRunning, timeFile, cycIndex, cycTime>>
        /\ archive' = [archive EXCEPT ![cycIndex[c]] = timeFile[cycTime[c]]]
    BY <1>7, OneStarted DEF Tar, Lossy, Base, Calm
  <2>2. cycPc'[c] = "clean" /\ \A d \in Cyclers : d # c => cycPc'[d] = "none"
    BY <2>1, ThreadMoves
  <2>3. timeFile'[cycTime'[c]] \subseteq archive'[cycIndex'[c]]
    BY <1>1, <2>1 DEF DataTypes, ThreadTypes, FileTypes
  <2>4. isRunning' /\ \A t \in Seconds : t # cycTime'[c] => timeFile'[t] = {}
    BY <1>1, <2>1, OneTimeFile DEF ThreadAgrees
  <2>5. QED BY <2>2, <2>3, <2>4 DEF ThreadAgrees
<1>8. ASSUME NEW c \in Cyclers, RemoveTimeFile(c) PROVE ThreadAgrees'
  <2>1. /\ At(c, "clean") /\ Goto(c, "index") /\ UNCHANGED <<isRunning, archive>>
        /\ timeFile' = [timeFile EXCEPT ![cycTime[c]] = {}]
    BY <1>8 DEF RemoveTimeFile
  <2>2. cycPc'[c] = "index" /\ \A d \in Cyclers : d # c => cycPc'[d] = "none"
    BY <2>1, ThreadMoves
  <2>3. isRunning' /\ \A t \in Seconds : timeFile'[t] = {}
    BY <1>1, <2>1, OneTimeFile DEF ThreadAgrees, DataTypes, FileTypes
  <2>4. QED BY <2>2, <2>3 DEF ThreadAgrees
<1>9. ASSUME NEW p \in Printers, WriteLine(p) PROVE UNCHANGED <<isRunning, cycVars, oldFiles>>
  BY <1>9 DEF WriteLine
<1>10. QED BY CalmCases, <1>2, <1>3, <1>5, <1>6, <1>7, <1>8, <1>9

\* The archive that is replaced is the oldest, and the new one the youngest.
LEMMA OldestReplaced ==
  ASSUME Base, NEW k \in Indices, Cycle(k), NEW text, text # {},
         \A i \in Indices : Before(archive[i], text),
         archive' = [archive EXCEPT ![k] = text]
  PROVE  Cycle((k + 1) % FileNum)' /\ \A i \in Indices \ {k} : Before(archive[k], archive[i])
<1> DEFINE next == (k + 1) % FileNum
<1>1. /\ k \in Nat /\ k < FileNum /\ FileNum \in Nat \ {0}
      /\ \A i \in Indices : i \in Nat /\ i < FileNum
  BY ConstantsAssumption DEF Indices
<1>2. next = IF k + 1 = FileNum THEN 0 ELSE k + 1
  BY <1>1
<1> HIDE DEF next
<1>3. \A i \in Indices : archive'[i] = IF i = k THEN text ELSE archive[i]
  BY DEF Base, DataTypes, FileTypes
<1>4. \A i, j \in Indices : Older(i, j, next) => i # k /\ (j = k \/ Older(i, j, k))
  BY <1>1, <1>2 DEF Older
<1>5. ASSUME NEW i \in Indices, NEW j \in Indices, Older(i, j, next)
      PROVE  Before(archive'[i], archive'[j])
  BY <1>3, <1>4, <1>5 DEF Cycle
<1>6. (ArchivesFull \/ \A i \in Indices : archive[i] # {} <=> i < next)'
  <2>1. CASE ArchivesFull
    BY <1>3, <2>1 DEF ArchivesFull
  <2>2. CASE \A i \in Indices : archive[i] # {} <=> i < k
    <3>1. CASE k + 1 = FileNum
      BY <1>1, <1>3, <2>2, <3>1 DEF ArchivesFull
    <3>2. CASE k + 1 # FileNum
      BY <1>1, <1>2, <1>3, <2>2, <3>2
    <3>3. QED BY <3>1, <3>2
  <2>3. QED BY <2>1, <2>2 DEF Cycle
<1>7. ASSUME NEW i \in Indices \ {k} PROVE Before(archive[k], archive[i])
  <2>1. Older(k, i, k)
    BY <1>1 DEF Older
  <2>2. QED BY <2>1 DEF Cycle
<1>8. Cycle(next)'
  BY <1>5, <1>6 DEF Cycle
<1>9. QED BY <1>7, <1>8 DEF next

\* What Tar has before it in a calm log.
LEMMA TarFacts ==
  ASSUME Base, NEW c \in Cyclers, Tar(c), past' = "calm"
  PROVE  /\ At(c, "tar") /\ Goto(c, "clean") /\ cycIndex[c] \in Indices /\ Cycle(cycIndex[c])
         /\ timeFile[cycTime[c]] # {} /\ Between(timeFile[cycTime[c]])
         /\ archive' = [archive EXCEPT ![cycIndex[c]] = timeFile[cycTime[c]]]
         /\ UNCHANGED <<cycIndex, cycTime, timeFile, bak, file, cache, printed>>
<1>1. /\ At(c, "tar") /\ Goto(c, "clean") /\ UNCHANGED <<cycIndex, cycTime, timeFile, bak, file, cache, printed>>
      /\ archive' = [archive EXCEPT ![cycIndex[c]] = timeFile[cycTime[c]]]
  BY OneStarted DEF Tar, Lossy, Base, Calm, At, liveFiles, cacheVars
<1>2. Started(c) /\ NextArchive(c) = cycIndex[c]
  BY <1>1 DEF Started, NextArchive, At
<1>3. Cycle(cycIndex[c])
  BY <1>2 DEF Base, Calm, CycleAgrees
<1>4. timeFile[cycTime[c]] # {} /\ Between(timeFile[cycTime[c]])
  BY <1>1 DEF Base, Calm, ThreadAgrees, ArchiveInv, At
<1>5. cycIndex[c] \in Indices
  BY DEF Base, DataTypes, ThreadTypes
<1>6. QED BY <1>1, <1>3, <1>4, <1>5

LEMMA CycleAgreesStep ==
  ASSUME Base, [Next]_vars, past' = "calm"
  PROVE  CycleAgrees'
<1>1. CycleAgrees /\ ThreadTypes
  BY DEF Base, Calm, DataTypes
<1>2. ASSUME UNCHANGED archive,
             \A c \in Cyclers : Started(c)' => Started(c) /\ NextArchive(c)' = NextArchive(c)
      PROVE  CycleAgrees'
  BY <1>1, <1>2 DEF CycleAgrees, Cycle, ArchivesFull
<1>3. ASSUME NEW p \in Printers, MyLogInit(p) \/ MyLogInitFails(p) PROVE CycleAgrees'
  <2>1. \A c \in Cyclers : cycPc[c] = "none"
    BY <1>3, OneStarted DEF MyLogInit, MyLogInitFails, MyLogInitStart, At
  <2>2. \A c \in Cyclers : cycPc'[c] \in {"none", "start"}
    BY <1>1, <1>3, <2>1 DEF MyLogInit, MyLogInitFails, ThreadTypes
  <2>3. QED BY <2>2 DEF CycleAgrees, Started
<1>4. ASSUME NEW c \in Cyclers, CycleStart(c) PROVE CycleAgrees'
  <2>1. /\ At(c, "start") /\ Goto(c, "loop") /\ UNCHANGED archive
        /\ cycIndex' = [cycIndex EXCEPT ![c] = 0]
    BY <1>4 DEF CycleStart, oldFiles
  <2>2. cycPc'[c] = "loop" /\ \A d \in Cyclers : d # c => cycPc[d] = "none" /\ cycPc'[d] = "none"
    BY <2>1, ThreadMoves DEF At
  <2>3. \A i \in Indices : archive'[i] = {}
    BY <2>1, <2>2 DEF Base, Calm, ThreadAgrees, Started, At
  <2>4. NextArchive(c)' = 0
    BY <1>1, <2>1, <2>2 DEF NextArchive, At, ThreadTypes
  <2>5. Cycle(0)'
    BY <2>3 DEF Cycle, Before, Indices
  <2>6. \A d \in Cyclers : Started(d)' => d = c
    BY <2>2 DEF Started
  <2>7. QED BY <2>4, <2>5, <2>6 DEF CycleAgrees
<1>5. ASSUME NEW c \in Cyclers, Tar(c) PROVE CycleAgrees'
  <2>1. PICK k \in Indices : k = cycIndex[c]
    BY <1>5, TarFacts
  <2>2. PICK text : text = timeFile[cycTime[c]]
    OBVIOUS
  <2>3. Cycle((k + 1) % FileNum)'
    BY <1>5, <2>1, <2>2, TarFacts, OldestReplaced DEF Between
  <2>4. cycPc'[c] = "clean" /\ \A d \in Cyclers : d # c => cycPc'[d] = "none"
    BY <1>5, TarFacts, ThreadMoves DEF At
  <2>5. NextArchive(c)' = (k + 1) % FileNum
    BY <1>5, <2>1, <2>4, TarFacts DEF NextArchive, At
  <2>6. \A d \in Cyclers : Started(d)' => d = c
    BY <2>4 DEF Started
  <2>7. QED BY <2>3, <2>5, <2>6 DEF CycleAgrees
<1>6. ASSUME NEW c \in Cyclers, NEW pc, Started(c), Goto(c, pc), UNCHANGED archive,
             NextArchive(c)' = NextArchive(c)
      PROVE  CycleAgrees'
  <2>1. \A d \in Cyclers : d # c => ~Started(d)'
    BY <1>6, ThreadMoves DEF Started, At
  <2>2. QED BY <1>2, <1>6, <2>1
<1>7. ASSUME NEW c \in Cyclers,
             \/ CycleLoop(c) \/ Wake(c) \/ CycleFlush(c) \/ RenameBak(c) \/ RemoveTimeFile(c)
             \/ NextIndex(c)
      PROVE  /\ Started(c) /\ UNCHANGED archive /\ NextArchive(c)' = NextArchive(c)
             /\ \E pc : Goto(c, pc)
  <2>1. CASE CycleLoop(c) \/ Wake(c) \/ CycleFlush(c) \/ RenameBak(c)
    <3>1. /\ cycPc[c] \in {"loop", "wait", "flush", "rename"}
          /\ UNCHANGED <<archive, cycIndex>>
          /\ \E pc \in {"none", "wait", "rename", "flush", "loop", "tar", "remove"} : Goto(c, pc)
      BY <2>1 DEF CycleLoop, Wake, WakeTo, CycleFlush, RenameBak, At, oldFiles
    <3>2. QED BY <1>1, <3>1 DEF Started, NextArchive, At, Goto, ThreadTypes
  <2>2. CASE RemoveTimeFile(c)
    BY <1>1, <2>2 DEF RemoveTimeFile, Started, NextArchive, At, Goto, ThreadTypes
  <2>3. CASE NextIndex(c)
    BY <1>1, <2>3 DEF NextIndex, AdvanceTo, Started, NextArchive, At, Goto, ThreadTypes, oldFiles
  <2>4. QED BY <1>7, <2>1, <2>2, <2>3
<1>8. ASSUME UNCHANGED <<cycVars, oldFiles>> PROVE CycleAgrees'
  BY <1>2, <1>8 DEF cycVars, oldFiles, Started, NextArchive, At
<1>9. ASSUME NEW p \in Printers, WriteLine(p) PROVE UNCHANGED <<cycVars, oldFiles>>
  BY <1>9 DEF WriteLine
<1>10. QED BY CalmCases, <1>3, <1>4, <1>5, <1>6, <1>7, <1>8, <1>9

\* Without its oldest lines an interval still ends where it did.
LEMMA OldestRemoved ==
  ASSUME NEW n \in Nat, NEW a \in 1 .. n + 1, NEW old, NEW rest, rest # {},
         old \cup rest = a .. n, Before(old, rest)
  PROVE  \E b \in 1 .. n + 1 : rest = b .. n
<1>1. rest \in SUBSET Nat
  OBVIOUS
<1>2. PICK b \in rest : \A m \in rest : b <= m
  BY <1>1, LeastNatural
<1>3. b \in 1 .. n + 1
  BY <1>2
<1>4. ASSUME NEW m \in b .. n PROVE m \in rest
  <2>1. m \in a .. n
    BY <1>2, <1>4
  <2>2. m \notin old
    BY <1>2, <1>4 DEF Before
  <2>3. QED BY <2>1, <2>2
<1>5. rest = b .. n
  <2>1. \A m \in rest : m \in a .. n /\ b <= m
    BY <1>2
  <2>2. \A m \in rest : m \in b .. n
    BY <1>3, <2>1
  <2>3. QED BY <1>4, <2>2
<1>6. QED BY <1>3, <1>5

LEMMA ContiguousStep ==
  ASSUME Base, [Next]_vars, past' = "calm"
  PROVE  Contiguous'
<1>1. Contiguous /\ DataTypes /\ printed \in Nat
  BY DEF Base, Calm, DataTypes, FileTypes
<1>2. ASSUME UNCHANGED <<printed, archive>>,
             (Live \cup Timed \cup Archived)' = Live \cup Timed \cup Archived
      PROVE  Contiguous'
  BY <1>1, <1>2 DEF Contiguous, LastLines, ArchivesFull
<1>3. ASSUME NEW p \in Printers, WriteLine(p) PROVE Contiguous'
  <2>1. PICK n \in Lines : /\ n = printed + 1 /\ printed' = n
                           /\ LineLen[n] \in Nat \ {0}
                           /\ WriteLogToCache({n}, LineLen[n])
    BY <1>3, TakenLine DEF Base
  <2>2. LineLen[n] \in Nat /\ {n} # {}
    BY <2>1, ConstantsAssumption
  <2>3. Live' = Live \cup {n}
    BY <2>1, <2>2, FlushCalm
  <2>4. UNCHANGED <<timeFile, archive>>
    BY <1>3 DEF WriteLine, oldFiles
  <2>5. (Live \cup Timed \cup Archived)' = (Live \cup Timed \cup Archived) \cup {n}
    BY <2>3, <2>4 DEF Timed, Archived
  <2>6. PICK a \in 1 .. printed + 1 : /\ Live \cup Timed \cup Archived = a .. printed
                                     /\ (a = 1 \/ ArchivesFull)
    BY <1>1 DEF Contiguous, LastLines
  <2>7. (Live \cup Timed \cup Archived)' = a .. printed' /\ a \in 1 .. printed' + 1
    <3>1. (a .. printed) \cup {printed + 1} = a .. printed + 1
      BY <1>1, <2>6
    <3>2. a \in 1 .. (printed + 1) + 1
      BY <1>1, <2>6
    <3>3. QED BY <2>1, <2>5, <2>6, <3>1, <3>2
  <2>8. a = 1 \/ ArchivesFull'
    BY <2>4, <2>6 DEF ArchivesFull
  <2>9. QED BY <2>7, <2>8 DEF Contiguous, LastLines
<1>4. ASSUME NEW c \in Cyclers, CycleFlush(c) PROVE Contiguous'
  <2>1. WriteLogToCache({}, 0) /\ UNCHANGED <<printed, timeFile, archive>>
    BY <1>4 DEF CycleFlush, oldFiles
  <2>2. Live' = Live
    BY <2>1, FlushCalm
  <2>3. QED BY <1>2, <2>1, <2>2 DEF Timed, Archived
<1>5. ASSUME NEW p \in Printers, MyLogInit(p) \/ MyLogInitFails(p) PROVE Contiguous'
  <2>1. ~isInit /\ cache' = {} /\ UNCHANGED <<bak, file, timeFile, archive, printed>>
    BY <1>5 DEF MyLogInit, MyLogInitFails, MyLogInitStart, liveFiles, oldFiles, countVars
  <2>2. Live' = Live
    BY <2>1, NothingBefore DEF Live
  <2>3. QED BY <1>2, <2>1, <2>2 DEF Timed, Archived
<1>6. ASSUME UNCHANGED <<bak, file, cache, oldFiles, printed>> PROVE Contiguous'
  BY <1>2, <1>6 DEF Live, Timed, Archived, oldFiles
<1>7. ASSUME NEW c \in Cyclers, RenameBak(c) PROVE Contiguous'
  <2>1. At(c, "rename") /\ Named /\ hasBak
    BY <1>7, OneStarted DEF RenameBak, Base, Calm, PostsAgree, At
  <2>2. PICK t \in Seconds : timeFile' = [timeFile EXCEPT ![t] = bak]
    BY <1>7, <2>1 DEF RenameBak, Lossy, Base, Calm
  <2>3. bak' = {} /\ UNCHANGED <<file, cache, archive, printed>>
    BY <1>7, <2>1 DEF RenameBak, Lossy, Base, Calm, cacheVars
  <2>4. \A u \in Seconds : timeFile[u] = {} /\ timeFile'[u] = IF u = t THEN bak ELSE {}
    BY <1>1, <2>1, <2>2, NoTimeFile DEF DataTypes, FileTypes, Archiving, At
  <2>5. Timed = {} /\ Timed' = bak
    BY <2>4 DEF Timed
  <2>6. Archived' = Archived /\ Live = bak \cup Live'
    BY <2>3 DEF Archived, Live
  <2>7. QED BY <1>2, <2>3, <2>5, <2>6
<1>8. ASSUME NEW c \in Cyclers, RemoveTimeFile(c) PROVE Contiguous'
  <2>1. /\ At(c, "clean") /\ timeFile' = [timeFile EXCEPT ![cycTime[c]] = {}]
        /\ UNCHANGED <<bak, file, cache, archive, printed>>
    BY <1>8 DEF RemoveTimeFile, liveFiles, cacheVars, countVars
  <2>2. timeFile[cycTime[c]] \subseteq archive[cycIndex[c]] /\ cycIndex[c] \in Indices
    BY <1>1, <2>1 DEF Base, Calm, ThreadAgrees, DataTypes, ThreadTypes
  <2>3. \A t \in Seconds : /\ t # cycTime[c] => timeFile[t] = {}
                           /\ timeFile'[t] = {}
    BY <1>1, <2>1, OneTimeFile DEF Archiving, DataTypes, FileTypes
  <2>4. Timed \subseteq Archived /\ Timed' = {}
    BY <2>2, <2>3 DEF Timed, Archived
  <2>5. Archived' = Archived /\ Live' = Live
    BY <2>1 DEF Archived, Live
  <2>6. QED BY <1>2, <2>1, <2>4, <2>5
<1>9. ASSUME NEW c \in Cyclers, Tar(c) PROVE Contiguous'
  <2>1. PICK k \in Indices : k = cycIndex[c]
    BY <1>9, TarFacts
  <2>2. PICK text : text = timeFile[cycTime[c]]
    OBVIOUS
  <2>3. /\ text # {} /\ Between(text) /\ Cycle(k)
        /\ archive' = [archive EXCEPT ![k] = text]
        /\ UNCHANGED <<timeFile, bak, file, cache, printed>>
    BY <1>9, <2>1, <2>2, TarFacts
  <2>4. \A i \in Indices \ {k} : Before(archive[k], archive[i])
    BY <2>3, OldestReplaced DEF Between
  <2>5. Timed = text
    <3>1. Archiving(c) /\ cycTime[c] \in Seconds
      BY <1>1, <1>9, TarFacts DEF Archiving, At, DataTypes, TarHasTime
    <3>2. \A t \in Seconds : t # cycTime[c] => timeFile[t] = {}
      BY <3>1, OneTimeFile
    <3>3. QED BY <2>2, <3>1, <3>2 DEF Timed
  <2> DEFINE rest == Live \cup text \cup UNION {archive[i] : i \in Indices \ {k}}
  <2>6. \A i \in Indices : archive'[i] = IF i = k THEN text ELSE archive[i]
    BY <1>1, <2>3 DEF DataTypes, FileTypes
  <2>7. Live' = Live /\ Timed' = text
    BY <2>3, <2>5 DEF Live, Timed
  <2>8. Archived' = text \cup UNION {archive[i] : i \in Indices \ {k}}
    BY <2>6 DEF Archived
  <2>9. (Live \cup Timed \cup Archived)' = rest
    BY <2>7, <2>8
  <2>10. Archived = archive[k] \cup UNION {archive[i] : i \in Indices \ {k}}
    BY DEF Archived
  <2>11. Live \cup Timed \cup Archived = archive[k] \cup rest
    BY <2>5, <2>10
  <2>12. Before(archive[k], rest) /\ rest # {}
    <3>1. Before(archive[k], Live)
      BY DEF Base, ArchiveInv, ArchivesInOrder, Live
    <3>2. Before(archive[k], text)
      BY <2>3 DEF Between
    <3>3. QED BY <2>3, <2>4, <3>1, <3>2 DEF Before
  <2>13. PICK a \in 1 .. printed + 1 : /\ Live \cup Timed \cup Archived = a .. printed
                                      /\ (a = 1 \/ ArchivesFull)
    BY <1>1 DEF Contiguous, LastLines
  <2>14. PICK old : old = archive[k]
    OBVIOUS
  <2>15. PICK new : new = rest
    OBVIOUS
  <2> HIDE DEF rest
  <2>16. PICK n \in Nat : n = printed /\ n = printed'
    BY <1>1, <2>3
  <2>17. CASE ArchivesFull
    <3>1. /\ old \cup new = a .. n /\ Before(old, new) /\ new # {}
          /\ a \in 1 .. n + 1
      BY <2>11, <2>12, <2>13, <2>14, <2>15, <2>16
    <3>4. \E b \in 1 .. n + 1 : new = b .. n
      BY <3>1, OldestRemoved
    <3>2. ArchivesFull'
      BY <2>3, <2>6, <2>17 DEF ArchivesFull
    <3>3. QED BY <2>9, <2>15, <2>16, <3>4, <3>2 DEF Contiguous, LastLines
  <2>18. CASE ~ArchivesFull
    <3>1. archive[k] = {} /\ a = 1
      BY <2>3, <2>13, <2>18 DEF Cycle, Indices
    <3>2. new = a .. n
      BY <2>11, <2>13, <2>15, <2>16, <3>1
    <3>3. QED BY <2>9, <2>13, <2>15, <2>16, <3>1, <3>2 DEF Contiguous, LastLines
  <2>19. QED BY <2>17, <2>18
<1>10. ASSUME NEW c \in Cyclers, CycleStart(c) \/ CycleLoop(c) \/ Wake(c) \/ NextIndex(c)
       PROVE  UNCHANGED <<bak, file, cache, oldFiles, printed>>
  BY <1>10 DEF CycleStart, CycleLoop, Wake, WakeTo, NextIndex, AdvanceTo, cacheVars, liveFiles,
     countVars
<1>11. CASE UNCHANGED <<isInit, isRunning, cache, offset, logFd, sem, cycVars, liveFiles,
                        oldFiles, printed, deinits>>
  BY <1>6, <1>11 DEF liveFiles
<1>12. QED BY CalmCases, <1>3, <1>4, <1>5, <1>6, <1>7, <1>8, <1>9, <1>10, <1>11

\* A calm log was calm all the time.
LEMMA CalmBefore ==
  ASSUME [Next]_vars, past' = "calm"
  PROVE  past = "calm"
<1>1. ASSUME NEW lines, NEW len, WriteLogToCache(lines, len) PROVE past = "calm"
  BY <1>1 DEF WriteLogToCache, WriteLogToFile, RotateIfFull, StayFull, Lossy
<1>2. CASE Restart
  BY <1>2 DEF Restart
<1>3. CASE UNCHANGED past \/ Lossy(TRUE)
  BY <1>3 DEF Lossy
<1>4. \/ \E p \in Printers : WriteLine(p) \/ DeinitBegin(p)
      \/ \E c \in Cyclers : CycleFlush(c)
      \/ Restart \/ UNCHANGED past \/ Lossy(TRUE)
  BY NextCases DEF MyPrintLog, Output, OverrunCache, MyLogInit, MyLogInitFails, MyLogInitStart, DeinitEnd,
     CrashInWriteLine, CrashInWrite, MyLogSetLevel, CycleStart, CycleLoop, Wake, WakeTo,
     RenameBak, RemoveBak, Tar, RemoveTimeFile, NextIndex, AdvanceTo, DivideByZero,
     CrashInCycleFlush, Crash, DeleteLog, TimePasses, vars
<1>5. QED BY <1>1, <1>2, <1>3, <1>4 DEF WriteLine, CycleFlush, DeinitBegin

LEMMA CalmInit == Init => CalmInv
<1> SUFFICES ASSUME Init PROVE Calm
  BY DEF CalmInv
<1>1. past = "calm" /\ FilesAgree
  BY DEF Init, FreshProcess, FilesAgree, FlushFacts
<1>2. PostsAgree /\ ThreadAgrees /\ CycleAgrees
  BY DEF Init, FreshProcess, PostsAgree, ThreadAgrees, CycleAgrees, Started, At
<1>3. Contiguous
  <2>1. Live \cup Timed \cup Archived = {} /\ printed = 0
    BY DEF Init, FreshProcess, Live, Timed, Archived
  <2>2. 1 .. 0 = {} /\ 1 \in 1 .. 0 + 1
    OBVIOUS
  <2>3. QED BY <2>1, <2>2 DEF Contiguous, LastLines
<1>4. QED BY <1>1, <1>2, <1>3 DEF Calm

LEMMA CalmStep ==
  DataTypes /\ LiveInv /\ FirstRunInv /\ BakInv /\ CalmInv /\ [Next]_vars => CalmInv'
<1> SUFFICES ASSUME DataTypes, LiveInv, FirstRunInv, BakInv, CalmInv, [Next]_vars, past' = "calm"
             PROVE  Calm'
  BY DEF CalmInv
<1>1. Calm
  BY CalmBefore DEF CalmInv
<1>2. Base
  BY <1>1 DEF Base, Calm, FilesAgree, FirstRunInv
<1>3. QED
  BY <1>2, FilesAgreeStep, PostsAgreeStep, ThreadAgreesStep, CycleAgreesStep, ContiguousStep
  DEF Calm

\* As long as nothing failed, nothing was overwritten and MyLogDeinit was not
\* called, the log holds the last lines without a gap, and all of them until
\* every archive is in use.
THEOREM NothingMissing == Spec => []NoGap
<1>1. DataTypes /\ CalmInv => NoGap
  <2> SUFFICES ASSUME DataTypes, Calm
               PROVE  /\ Stored = printed - Cardinality(Stored) + 1 .. printed
                      /\ Stored = 1 .. printed \/ \A i \in Indices : archive[i] # {}
    BY DEF CalmInv, NoGap
  <2>1. Stored = Live \cup Timed \cup Archived
    <3>1. Stored = cache \cup file \cup bak \cup Timed \cup Archived
      BY DEF Stored, Timed, Archived
    <3>2. QED BY <3>1 DEF Live
  <2>2. PICK a \in 1 .. printed + 1 : Stored = a .. printed /\ (a = 1 \/ ArchivesFull)
    BY <2>1 DEF Calm, Contiguous, LastLines
  <2>3. printed \in Nat /\ a \in Int /\ printed \in Int
    BY DEF DataTypes, FileTypes
  <2>4. Cardinality(a .. printed) = IF a > printed THEN 0 ELSE printed - a + 1
    BY <2>3, FS_Interval
  <2>5. printed - Cardinality(a .. printed) + 1 = a
    BY <2>2, <2>3, <2>4
  <2>6. QED BY <2>2, <2>5 DEF ArchivesFull
<1>2. Init => LiveInv /\ FirstRunInv /\ BakInv
  BY DEF Init, FreshProcess, LiveInv, LiveInOrder, Live, Before, FirstRunInv, ArchiveInv,
     OneCycler, ArchivesInOrder, BakInv
<1>3. QED
  BY <1>1, <1>2, TypesInit, CalmInit, DataTypesStep, LiveInvStep, FirstRunStep, BakInvStep,
     CalmStep, PTL DEF Spec
===============================================================================
