--------------------------- MODULE EarthwormProofs ---------------------------
(***************************************************************************)
(* Proofs about uEarthwormPacketMetrics.  First the life of its process,   *)
(* for every value of the switches of EarthwormProcess; only ReadsAttached *)
(* needs the reader to be prompt.  Then the program as a whole, for every  *)
(* file it may be started with and every width of a size.                  *)
(***************************************************************************)
EXTENDS EarthwormProgram, TLAPS

\* The steps before the reader is launched, those in which it is watched, and
\* those of main() on its way out of ~Process.
BeforeReader == {"launch", "attach", "configure", "flush", "startReader"}
Watching == {"catchSignals", "watch", "checkAcquisition", "checkMetrics"}
Stopping == {"stop", "stopRing", "sleep", "joinReader", "joinMetrics"} \cup DisconnectSteps
Leaving == {"destroyMembers", "destroyReader", "exited"}

\* The rounds of the acquisition loop.
Reading == {"enter", "loop", "getFlag", "copy", "unpack"}

\* A thread's task is over, or it never had one.
ReaderOver == pc["reader"] \in {"none", "ended", "threw"}
MetricsOver == metrics \in {"none", "ended"}

\* What the futures say of the tasks, and what the main thread's progress says
\* of the futures and flags.
Progress ==
    /\ acquisitionFuture \/ ReaderOver
    /\ metricsFuture \/ MetricsOver
    /\ pc["main"] \in BeforeReader =>
          pc["reader"] = "none" /\ ~acquisitionFuture /\ ~inDestructor
    /\ pc["main"] = "launch" => metrics = "none"
    /\ metrics = "ended" => ~keepRunning
    /\ pc["main"] \in (BeforeReader \ {"launch"}) \cup Watching => keepRunning /\ metricsFuture
    /\ pc["main"] \in Watching => pc["reader"] # "ended"
    /\ pc["main"] \in Watching \cup {"stop", "stopRing"} =>
          /\ pc["reader"] # "leave"
          /\ pc["reader"] \in Reading => mAcquire
    /\ pc["main"] \in {"catchSignals", "watch", "checkAcquisition"} => acquisitionFuture
    /\ pc["main"] = "checkMetrics" => (acquisitionFuture <=> isOkay)
    /\ pc["main"] = "checkMetrics" /\ ~isOkay => pc["reader"] = "threw"
    /\ pc["main"] \in Stopping \ {"stop"} => ~keepRunning
    /\ pc["main"] \in {"joinMetrics", "catch"} => ~acquisitionFuture
    /\ inDestructor => ~acquisitionFuture
    /\ inDestructor => pc["main"] \in Stopping \cup Leaving
    /\ pc["main"] \in Leaving => inDestructor /\ ~metricsFuture
    /\ pc["main"] # "aborted"

\* What the object knows of the region.
Region ==
    /\ attached => mHaveRegion
    /\ \A t \in Thread : pc[t] = "forget" => ~attached
    /\ pc["main"] = "exited" => ~attached

\* While at most one thread disconnects, the object's idea of the region is
\* right but for the instant before it is forgotten.
OneDisconnects ==
    /\ pc["reader"] \in DisconnectSteps => killFlag
    /\ pc["main"] \in Stopping /\ pc["reader"] \in ReaderSteps => interrupted
    /\ ~(interrupted /\ killFlag) =>
          /\ mHaveRegion => attached \/ \E t \in Thread : pc[t] = "forget"
          /\ \A t \in Thread : pc[t] = "detach" => attached

\* Where the main thread is once stop has slept.
AfterSleep == DisconnectSteps \cup {"joinReader", "joinMetrics", "catch"} \cup Leaving

\* A prompt reader has left its loop before the main thread disconnects.
Apart ==
    /\ pc["main"] \in {"configure", "flush", "startReader"} => attached
    /\ pc["main"] \in AfterSleep => pc["reader"] \notin Reading \cup {"leave"}
    /\ pc["reader"] \in Reading => attached

PromptlyApart == ReaderIsPrompt => Apart

\* What every step of the ring leaves alone.
Rest == UNCHANGED <<processVars, futureVars>>

-----------------------------------------------------------------------------
\* The threads of uEarthwormPacketMetrics and its flags keep their types.
THEOREM TypeCorrect == Spec => []TypeOK
<1>1. Init => TypeOK
  BY DEF Init, TypeOK, StepsTyped, FlagsTyped, Thread, MainSteps, ReaderPlaces, Starting
<1>2. StepsTyped /\ [Next]_vars => StepsTyped'
  <2> SUFFICES ASSUME StepsTyped, [Next]_vars PROVE StepsTyped'
    OBVIOUS
  <2> USE DEF StepsTyped, MainSteps, ReaderPlaces, ReaderSteps, Starting, DisconnectSteps, Goto, objectVars, ringVars, processVars, futureVars, Rest, Thread
  <2>1. CASE LaunchMetrics
    BY <2>1 DEF LaunchMetrics
  <2>2. CASE Attach /\ Rest
    BY <2>2 DEF Attach
  <2>3. CASE Configure /\ Rest
    BY <2>3 DEF Configure
  <2>4. CASE flush /\ Rest
    BY <2>4 DEF flush
  <2>5. CASE StartReader
    BY <2>5 DEF StartReader
  <2>6. CASE stdCatchSignals
    BY <2>6 DEF stdCatchSignals
  <2>7. CASE CheckInterrupted
    BY <2>7 DEF CheckInterrupted
  <2>8. CASE CheckAcquisition
    BY <2>8 DEF CheckAcquisition
  <2>9. CASE CheckMetrics
    BY <2>9 DEF CheckMetrics
  <2>10. CASE ClearKeepRunning
    BY <2>10 DEF ClearKeepRunning
  <2>11. CASE StopAcquiring /\ Rest
    BY <2>11 DEF StopAcquiring
  <2>12. CASE SleepOver /\ Rest
    BY <2>12 DEF SleepOver
  <2>13. CASE disconnect("main", "joinReader") /\ Rest
    BY <2>13 DEF disconnect, ClearAcquire, CheckRegion, Detach, Forget
  <2>14. CASE JoinReader
    BY <2>14 DEF JoinReader
  <2>15. CASE JoinMetrics
    BY <2>15 DEF JoinMetrics
  <2>16. CASE CatchInMain
    BY <2>16 DEF CatchInMain
  <2>17. CASE DestroyFutures
    BY <2>17 DEF DestroyFutures
  <2>18. CASE DestroyWaveRing
    BY <2>18 DEF DestroyWaveRing
  <2>19. CASE disconnect("reader", "threw") /\ Rest
    BY <2>19 DEF disconnect, ClearAcquire, CheckRegion, Detach, Forget
  <2>20. CASE (Enter \/ AcquireAgain \/ GetFlag \/ CopyFrom \/ Unpack \/ LeaveAcquisition) /\ Rest
    BY <2>20 DEF Enter, AcquireAgain, GetFlag, CopyFrom, Unpack, LeaveAcquisition
  <2>21. CASE tabulateMetrics
    BY <2>21 DEF tabulateMetrics
  <2>22. CASE stdSignalHandler
    BY <2>22 DEF stdSignalHandler
  <2>23. CASE SetKillFlag
    BY <2>23 DEF SetKillFlag
  <2>24. CASE UNCHANGED vars
    BY <2>24 DEF vars
  <2>25. QED
    BY <2>1, <2>2, <2>3, <2>4, <2>5, <2>6, <2>7, <2>8, <2>9, <2>10, <2>11, <2>12, <2>13, <2>14, <2>15, <2>16, <2>17, <2>18, <2>19, <2>20, <2>21, <2>22, <2>23, <2>24
       DEF Next, MainThread, RingSteps, ReaderThread, acquire, Rest
<1>3. FlagsTyped /\ [Next]_vars => FlagsTyped'
  <2> SUFFICES ASSUME FlagsTyped, [Next]_vars PROVE FlagsTyped'
    OBVIOUS
  <2> USE DEF FlagsTyped, Goto, objectVars, ringVars, processVars, futureVars, Rest, Thread
  <2>1. CASE LaunchMetrics
    BY <2>1 DEF LaunchMetrics
  <2>2. CASE Attach /\ Rest
    BY <2>2 DEF Attach
  <2>3. CASE Configure /\ Rest
    BY <2>3 DEF Configure
  <2>4. CASE flush /\ Rest
    BY <2>4 DEF flush
  <2>5. CASE StartReader
    BY <2>5 DEF StartReader
  <2>6. CASE stdCatchSignals
    BY <2>6 DEF stdCatchSignals
  <2>7. CASE CheckInterrupted
    BY <2>7 DEF CheckInterrupted
  <2>8. CASE CheckAcquisition
    BY <2>8 DEF CheckAcquisition
  <2>9. CASE CheckMetrics
    BY <2>9 DEF CheckMetrics
  <2>10. CASE ClearKeepRunning
    BY <2>10 DEF ClearKeepRunning
  <2>11. CASE StopAcquiring /\ Rest
    BY <2>11 DEF StopAcquiring
  <2>12. CASE SleepOver /\ Rest
    BY <2>12 DEF SleepOver
  <2>13. CASE disconnect("main", "joinReader") /\ Rest
    BY <2>13 DEF disconnect, ClearAcquire, CheckRegion, Detach, Forget
  <2>14. CASE JoinReader
    BY <2>14 DEF JoinReader
  <2>15. CASE JoinMetrics
    BY <2>15 DEF JoinMetrics
  <2>16. CASE CatchInMain
    BY <2>16 DEF CatchInMain
  <2>17. CASE DestroyFutures
    BY <2>17 DEF DestroyFutures
  <2>18. CASE DestroyWaveRing
    BY <2>18 DEF DestroyWaveRing
  <2>19. CASE disconnect("reader", "threw") /\ Rest
    BY <2>19 DEF disconnect, ClearAcquire, CheckRegion, Detach, Forget
  <2>20. CASE (Enter \/ AcquireAgain \/ GetFlag \/ CopyFrom \/ Unpack \/ LeaveAcquisition) /\ Rest
    BY <2>20 DEF Enter, AcquireAgain, GetFlag, CopyFrom, Unpack, LeaveAcquisition
  <2>21. CASE tabulateMetrics
    BY <2>21 DEF tabulateMetrics
  <2>22. CASE stdSignalHandler
    BY <2>22 DEF stdSignalHandler
  <2>23. CASE SetKillFlag
    BY <2>23 DEF SetKillFlag
  <2>24. CASE UNCHANGED vars
    BY <2>24 DEF vars
  <2>25. QED
    BY <2>1, <2>2, <2>3, <2>4, <2>5, <2>6, <2>7, <2>8, <2>9, <2>10, <2>11, <2>12, <2>13, <2>14, <2>15, <2>16, <2>17, <2>18, <2>19, <2>20, <2>21, <2>22, <2>23, <2>24
       DEF Next, MainThread, RingSteps, ReaderThread, acquire, Rest
<1>4. QED
  BY <1>1, <1>2, <1>3, PTL DEF Spec, TypeOK

\* The futures, flags and steps go together.
LEMMA AlwaysProgress == Spec => []Progress
<1>1. Init => Progress
  BY DEF Init, Progress, ReaderOver, MetricsOver, BeforeReader, Watching, Stopping,
         Leaving, Reading, Thread, DisconnectSteps
<1>2. TypeOK /\ Progress /\ [Next]_vars => Progress'
  <2> SUFFICES ASSUME StepsTyped, Progress, [Next]_vars PROVE Progress'
    BY DEF TypeOK
  <2> USE DEF StepsTyped, Progress, ReaderOver, MetricsOver, BeforeReader, Watching, Stopping,
              Leaving, Reading, DisconnectSteps, Goto, objectVars, ringVars, processVars, futureVars, Rest, Thread
  <2>1. CASE LaunchMetrics
    BY <2>1 DEF LaunchMetrics
  <2>2. CASE Attach /\ Rest
    BY <2>2 DEF Attach
  <2>3. CASE Configure /\ Rest
    BY <2>3 DEF Configure
  <2>4. CASE flush /\ Rest
    BY <2>4 DEF flush
  <2>5. CASE StartReader
    BY <2>5 DEF StartReader
  <2>6. CASE stdCatchSignals
    BY <2>6 DEF stdCatchSignals
  <2>7. CASE CheckInterrupted
    BY <2>7 DEF CheckInterrupted
  <2>8. CASE CheckAcquisition
    BY <2>8 DEF CheckAcquisition
  <2>9. CASE CheckMetrics
    BY <2>9 DEF CheckMetrics
  <2>10. CASE ClearKeepRunning
    BY <2>10 DEF ClearKeepRunning
  <2>11. CASE StopAcquiring /\ Rest
    BY <2>11 DEF StopAcquiring
  <2>12. CASE SleepOver /\ Rest
    BY <2>12 DEF SleepOver
  <2>13. CASE disconnect("main", "joinReader") /\ Rest
    BY <2>13 DEF disconnect, ClearAcquire, CheckRegion, Detach, Forget
  <2>14. CASE JoinReader
    BY <2>14 DEF JoinReader
  <2>15. CASE JoinMetrics
    BY <2>15 DEF JoinMetrics
  <2>16. CASE CatchInMain
    BY <2>16 DEF CatchInMain
  <2>17. CASE DestroyFutures
    BY <2>17 DEF DestroyFutures
  <2>18. CASE DestroyWaveRing
    BY <2>18 DEF DestroyWaveRing
  <2>19. CASE disconnect("reader", "threw") /\ Rest
    BY <2>19 DEF disconnect, ClearAcquire, CheckRegion, Detach, Forget
  <2>20. CASE (Enter \/ AcquireAgain \/ GetFlag \/ CopyFrom \/ Unpack \/ LeaveAcquisition) /\ Rest
    BY <2>20 DEF Enter, AcquireAgain, GetFlag, CopyFrom, Unpack, LeaveAcquisition
  <2>21. CASE tabulateMetrics
    BY <2>21 DEF tabulateMetrics
  <2>22. CASE stdSignalHandler
    BY <2>22 DEF stdSignalHandler
  <2>23. CASE SetKillFlag
    BY <2>23 DEF SetKillFlag
  <2>24. CASE UNCHANGED vars
    BY <2>24 DEF vars
  <2>25. QED
    BY <2>1, <2>2, <2>3, <2>4, <2>5, <2>6, <2>7, <2>8, <2>9, <2>10, <2>11, <2>12, <2>13, <2>14, <2>15, <2>16, <2>17, <2>18, <2>19, <2>20, <2>21, <2>22, <2>23, <2>24
       DEF Next, MainThread, RingSteps, ReaderThread, acquire, Rest
<1>3. QED
  BY <1>1, <1>2, TypeCorrect, PTL DEF Spec

\* The object forgets the region only after it was detached.
LEMMA AlwaysRegion == Spec => []Region
<1>1. Init => Region
  BY DEF Init, Region, Thread
<1>2. TypeOK /\ Progress /\ Region /\ [Next]_vars => Region'
  <2> SUFFICES ASSUME StepsTyped, FlagsTyped, Progress, Region, [Next]_vars PROVE Region'
    BY DEF TypeOK
  <2> USE DEF StepsTyped, FlagsTyped, Progress, Region, BeforeReader, Watching, Stopping, Leaving,
              ReaderOver, DisconnectSteps, Goto, objectVars, ringVars, processVars, futureVars, Rest, Thread
  <2>1. CASE LaunchMetrics
    BY <2>1 DEF LaunchMetrics
  <2>2. CASE Attach /\ Rest
    BY <2>2 DEF Attach
  <2>3. CASE Configure /\ Rest
    BY <2>3 DEF Configure
  <2>4. CASE flush /\ Rest
    BY <2>4 DEF flush
  <2>5. CASE StartReader
    BY <2>5 DEF StartReader
  <2>6. CASE stdCatchSignals
    BY <2>6 DEF stdCatchSignals
  <2>7. CASE CheckInterrupted
    BY <2>7 DEF CheckInterrupted
  <2>8. CASE CheckAcquisition
    BY <2>8 DEF CheckAcquisition
  <2>9. CASE CheckMetrics
    BY <2>9 DEF CheckMetrics
  <2>10. CASE ClearKeepRunning
    BY <2>10 DEF ClearKeepRunning
  <2>11. CASE StopAcquiring /\ Rest
    BY <2>11 DEF StopAcquiring
  <2>12. CASE SleepOver /\ Rest
    BY <2>12 DEF SleepOver
  <2>13. CASE disconnect("main", "joinReader") /\ Rest
    BY <2>13 DEF disconnect, ClearAcquire, CheckRegion, Detach, Forget
  <2>14. CASE JoinReader
    BY <2>14 DEF JoinReader
  <2>15. CASE JoinMetrics
    BY <2>15 DEF JoinMetrics
  <2>16. CASE CatchInMain
    BY <2>16 DEF CatchInMain
  <2>17. CASE DestroyFutures
    BY <2>17 DEF DestroyFutures
  <2>18. CASE DestroyWaveRing
    BY <2>18 DEF DestroyWaveRing
  <2>19. CASE disconnect("reader", "threw") /\ Rest
    BY <2>19 DEF disconnect, ClearAcquire, CheckRegion, Detach, Forget
  <2>20. CASE (Enter \/ AcquireAgain \/ GetFlag \/ CopyFrom \/ Unpack \/ LeaveAcquisition) /\ Rest
    BY <2>20 DEF Enter, AcquireAgain, GetFlag, CopyFrom, Unpack, LeaveAcquisition
  <2>21. CASE tabulateMetrics
    BY <2>21 DEF tabulateMetrics
  <2>22. CASE stdSignalHandler
    BY <2>22 DEF stdSignalHandler
  <2>23. CASE SetKillFlag
    BY <2>23 DEF SetKillFlag
  <2>24. CASE UNCHANGED vars
    BY <2>24 DEF vars
  <2>25. QED
    BY <2>1, <2>2, <2>3, <2>4, <2>5, <2>6, <2>7, <2>8, <2>9, <2>10, <2>11, <2>12, <2>13, <2>14, <2>15, <2>16, <2>17, <2>18, <2>19, <2>20, <2>21, <2>22, <2>23, <2>24
       DEF Next, MainThread, RingSteps, ReaderThread, acquire, Rest
<1>3. QED
  BY <1>1, <1>2, TypeCorrect, AlwaysProgress, PTL DEF Spec

\* Without a signal during the kill flag, one thread at a time disconnects.
LEMMA AlwaysOneDisconnects == Spec => []OneDisconnects
<1>1. Init => OneDisconnects
  BY DEF Init, OneDisconnects, Thread, DisconnectSteps, Stopping, ReaderSteps
<1>2. TypeOK /\ Progress /\ OneDisconnects /\ [Next]_vars => OneDisconnects'
  <2> SUFFICES ASSUME StepsTyped, FlagsTyped, Progress, OneDisconnects, [Next]_vars
               PROVE  OneDisconnects'
    BY DEF TypeOK
  <2> USE DEF StepsTyped, FlagsTyped, Progress, OneDisconnects, BeforeReader, Watching, Stopping,
              Leaving, Reading, ReaderOver, ReaderSteps, DisconnectSteps, Goto, objectVars, ringVars, processVars, futureVars, Rest, Thread
  <2>1. CASE LaunchMetrics
    BY <2>1 DEF LaunchMetrics
  <2>2. CASE Attach /\ Rest
    BY <2>2 DEF Attach
  <2>3. CASE Configure /\ Rest
    BY <2>3 DEF Configure
  <2>4. CASE flush /\ Rest
    BY <2>4 DEF flush
  <2>5. CASE StartReader
    BY <2>5 DEF StartReader
  <2>6. CASE stdCatchSignals
    BY <2>6 DEF stdCatchSignals
  <2>7. CASE CheckInterrupted
    BY <2>7 DEF CheckInterrupted
  <2>8. CASE CheckAcquisition
    BY <2>8 DEF CheckAcquisition
  <2>9. CASE CheckMetrics
    BY <2>9 DEF CheckMetrics
  <2>10. CASE ClearKeepRunning
    BY <2>10 DEF ClearKeepRunning
  <2>11. CASE StopAcquiring /\ Rest
    BY <2>11 DEF StopAcquiring
  <2>12. CASE SleepOver /\ Rest
    BY <2>12 DEF SleepOver
  <2>13. CASE disconnect("main", "joinReader") /\ Rest
    BY <2>13 DEF disconnect, ClearAcquire, CheckRegion, Detach, Forget
  <2>14. CASE JoinReader
    BY <2>14 DEF JoinReader
  <2>15. CASE JoinMetrics
    BY <2>15 DEF JoinMetrics
  <2>16. CASE CatchInMain
    BY <2>16 DEF CatchInMain
  <2>17. CASE DestroyFutures
    BY <2>17 DEF DestroyFutures
  <2>18. CASE DestroyWaveRing
    BY <2>18 DEF DestroyWaveRing
  <2>19. CASE disconnect("reader", "threw") /\ Rest
    BY <2>19 DEF disconnect, ClearAcquire, CheckRegion, Detach, Forget
  <2>20. CASE (Enter \/ AcquireAgain \/ GetFlag \/ CopyFrom \/ Unpack \/ LeaveAcquisition) /\ Rest
    BY <2>20 DEF Enter, AcquireAgain, GetFlag, CopyFrom, Unpack, LeaveAcquisition
  <2>21. CASE tabulateMetrics
    BY <2>21 DEF tabulateMetrics
  <2>22. CASE stdSignalHandler
    BY <2>22 DEF stdSignalHandler
  <2>23. CASE SetKillFlag
    BY <2>23 DEF SetKillFlag
  <2>24. CASE UNCHANGED vars
    BY <2>24 DEF vars
  <2>25. QED
    BY <2>1, <2>2, <2>3, <2>4, <2>5, <2>6, <2>7, <2>8, <2>9, <2>10, <2>11, <2>12, <2>13, <2>14, <2>15, <2>16, <2>17, <2>18, <2>19, <2>20, <2>21, <2>22, <2>23, <2>24
       DEF Next, MainThread, RingSteps, ReaderThread, acquire, Rest
<1>3. QED
  BY <1>1, <1>2, TypeCorrect, AlwaysProgress, PTL DEF Spec

\* A prompt reader and the main thread's disconnect do not meet.
LEMMA AlwaysApart == Spec => []PromptlyApart
<1>1. Init => PromptlyApart
  BY DEF Init, PromptlyApart, Apart, Thread, AfterSleep, Leaving, Reading, DisconnectSteps
<1>2. TypeOK /\ Progress /\ PromptlyApart /\ [Next]_vars => PromptlyApart'
  <2> SUFFICES ASSUME ReaderIsPrompt, StepsTyped, Progress, Apart, [Next]_vars PROVE Apart'
    BY DEF TypeOK, PromptlyApart
  <2> USE DEF StepsTyped, Progress, Apart, AfterSleep, BeforeReader, Watching, Stopping,
              Leaving, Reading, ReaderOver, ReaderSteps, DisconnectSteps, Goto, objectVars, ringVars, processVars, futureVars, Rest, Thread
  <2>1. CASE LaunchMetrics
    BY <2>1 DEF LaunchMetrics
  <2>2. CASE Attach /\ Rest
    BY <2>2 DEF Attach
  <2>3. CASE Configure /\ Rest
    BY <2>3 DEF Configure
  <2>4. CASE flush /\ Rest
    BY <2>4 DEF flush
  <2>5. CASE StartReader
    BY <2>5 DEF StartReader
  <2>6. CASE stdCatchSignals
    BY <2>6 DEF stdCatchSignals
  <2>7. CASE CheckInterrupted
    BY <2>7 DEF CheckInterrupted
  <2>8. CASE CheckAcquisition
    BY <2>8 DEF CheckAcquisition
  <2>9. CASE CheckMetrics
    BY <2>9 DEF CheckMetrics
  <2>10. CASE ClearKeepRunning
    BY <2>10 DEF ClearKeepRunning
  <2>11. CASE StopAcquiring /\ Rest
    BY <2>11 DEF StopAcquiring
  <2>12. CASE SleepOver /\ Rest
    BY <2>12 DEF SleepOver
  <2>13. CASE disconnect("main", "joinReader") /\ Rest
    BY <2>13 DEF disconnect, ClearAcquire, CheckRegion, Detach, Forget
  <2>14. CASE JoinReader
    BY <2>14 DEF JoinReader
  <2>15. CASE JoinMetrics
    BY <2>15 DEF JoinMetrics
  <2>16. CASE CatchInMain
    BY <2>16 DEF CatchInMain
  <2>17. CASE DestroyFutures
    BY <2>17 DEF DestroyFutures
  <2>18. CASE DestroyWaveRing
    BY <2>18 DEF DestroyWaveRing
  <2>19. CASE disconnect("reader", "threw") /\ Rest
    BY <2>19 DEF disconnect, ClearAcquire, CheckRegion, Detach, Forget
  <2>20. CASE (Enter \/ AcquireAgain \/ GetFlag \/ CopyFrom \/ Unpack \/ LeaveAcquisition) /\ Rest
    BY <2>20 DEF Enter, AcquireAgain, GetFlag, CopyFrom, Unpack, LeaveAcquisition
  <2>21. CASE tabulateMetrics
    BY <2>21 DEF tabulateMetrics
  <2>22. CASE stdSignalHandler
    BY <2>22 DEF stdSignalHandler
  <2>23. CASE SetKillFlag
    BY <2>23 DEF SetKillFlag
  <2>24. CASE UNCHANGED vars
    BY <2>24 DEF vars
  <2>25. QED
    BY <2>1, <2>2, <2>3, <2>4, <2>5, <2>6, <2>7, <2>8, <2>9, <2>10, <2>11, <2>12, <2>13, <2>14, <2>15, <2>16, <2>17, <2>18, <2>19, <2>20, <2>21, <2>22, <2>23, <2>24
       DEF Next, MainThread, RingSteps, ReaderThread, acquire, Rest
<1>3. QED
  BY <1>1, <1>2, TypeCorrect, AlwaysProgress, PTL DEF Spec

-----------------------------------------------------------------------------
\* With a prompt reader, the flag and the messages are read from an attached
\* region only.
THEOREM ReadsAttached == ASSUME ReaderIsPrompt PROVE Spec => []ReadsAttachedRegion
<1>1. PromptlyApart => ReadsAttachedRegion
  BY DEF PromptlyApart, Apart, Reading, ReadsAttachedRegion
<1>2. QED
  BY <1>1, AlwaysApart, PTL

\* The region is detached once, unless a signal meets the kill flag.
THEOREM DetachedOnce == Spec => []DetachesAttachedRegion
<1>1. OneDisconnects => DetachesAttachedRegion
  BY DEF OneDisconnects, DetachesAttachedRegion
<1>2. QED
  BY <1>1, AlwaysOneDisconnects, PTL

\* No thread outlives the ring and the members it uses, and nothing stays
\* attached.
THEOREM NoThreadOutlivesItsMembers == Spec => []ThreadsEndBeforeTheirMembers
<1>1. Progress /\ Region => ThreadsEndBeforeTheirMembers
  BY DEF Progress, Region, ReaderOver, MetricsOver, Leaving, ReaderSteps,
         ThreadsEndBeforeTheirMembers
<1>2. QED
  BY <1>1, AlwaysProgress, AlwaysRegion, PTL

\* checkFuturesOkay never waits on a future that has no task.
THEOREM NeverWaitsOnNothing == Spec => []WaitsOnValidFutures
<1>1. Progress => WaitsOnValidFutures
  BY DEF Progress, BeforeReader, Watching, WaitsOnValidFutures
<1>2. QED
  BY <1>1, AlwaysProgress, PTL

\* No exception leaves ~Process.
THEOREM DestructorIsQuiet == Spec => []DestructorDoesNotThrow
<1>1. Progress => DestructorDoesNotThrow
  BY DEF Progress, DestructorDoesNotThrow
<1>2. QED
  BY <1>1, AlwaysProgress, PTL

-----------------------------------------------------------------------------
\* The abstract life of a program.

Failed == {t \in {"reader"} : pc["reader"] = "threw"}
LifeVars == <<LifePhase, Working, Failed, interrupted>>

\* uEarthwormPacketMetrics lives the life of ProgramLife, prompt or not: it stops
\* for a reason, its threads work until they fail or it stops, and its members go
\* when no thread is at work.
THEOREM ProcessImplementsLife == Spec => ImplementsLife
<1>1. Init => Life!Init
  BY DEF Init, Life!Init, LifePhase, Working, ReaderSteps, DisconnectSteps, Starting, Thread
<1>2. StepsTyped /\ Progress /\ Progress' /\ [Next]_vars => [Life!Next]_LifeVars
  <2> SUFFICES ASSUME StepsTyped, Progress, Progress', [Next]_vars PROVE [Life!Next]_LifeVars
    OBVIOUS
  <2> USE DEF StepsTyped, Progress, ReaderOver, MetricsOver, BeforeReader, Watching, Stopping,
              Leaving, Reading, ReaderSteps, DisconnectSteps, Starting, Goto, objectVars,
              ringVars, processVars, futureVars, Rest, Thread,
              LifePhase, Working, Failed, LifeVars
  <2>1. CASE LaunchMetrics
    BY <2>1 DEF LaunchMetrics, Life!Next, Life!Launch
  <2>2. CASE Attach /\ Rest
    BY <2>2 DEF Attach
  <2>3. CASE Configure /\ Rest
    BY <2>3 DEF Configure, Life!Next, Life!Abandon
  <2>4. CASE flush /\ Rest
    BY <2>4 DEF flush
  <2>5. CASE StartReader
    BY <2>5 DEF StartReader, Life!Next, Life!Launch
  <2>6. CASE stdCatchSignals
    BY <2>6 DEF stdCatchSignals, Life!Next, Life!Started
  <2>7. CASE CheckInterrupted
    BY <2>7 DEF CheckInterrupted, Life!Next, Life!Stop
  <2>8. CASE CheckAcquisition
    BY <2>8 DEF CheckAcquisition
  <2>9. CASE CheckMetrics
    BY <2>9 DEF CheckMetrics, Life!Next, Life!Stop
  <2>10. CASE ClearKeepRunning
    BY <2>10 DEF ClearKeepRunning
  <2>11. CASE StopAcquiring /\ Rest
    BY <2>11 DEF StopAcquiring
  <2>12. CASE SleepOver /\ Rest
    BY <2>12 DEF SleepOver
  <2>13. CASE disconnect("main", "joinReader") /\ Rest
    BY <2>13 DEF disconnect, ClearAcquire, CheckRegion, Detach, Forget
  <2>14. CASE JoinReader
    BY <2>14 DEF JoinReader, Life!Next, Life!Fail
  <2>15. CASE JoinMetrics
    BY <2>15 DEF JoinMetrics
  <2>16. CASE CatchInMain
    BY <2>16 DEF CatchInMain
  <2>17. CASE DestroyFutures
    BY <2>17 DEF DestroyFutures, Life!Next, Life!End
  <2>18. CASE DestroyWaveRing
    BY <2>18 DEF DestroyWaveRing
  <2>19. CASE disconnect("reader", "threw") /\ Rest
    BY <2>19 DEF disconnect, ClearAcquire, CheckRegion, Detach, Forget, Life!Next, Life!Fail
  <2>20. CASE Enter /\ Rest
    BY <2>20 DEF Enter, Life!Next, Life!Fail
  <2>21. CASE AcquireAgain /\ Rest
    BY <2>21 DEF AcquireAgain
  <2>22. CASE GetFlag /\ Rest
    BY <2>22 DEF GetFlag
  <2>23. CASE CopyFrom /\ Rest
    BY <2>23 DEF CopyFrom
  <2>24. CASE Unpack /\ Rest
    BY <2>24 DEF Unpack
  <2>25. CASE LeaveAcquisition /\ Rest
    BY <2>25 DEF LeaveAcquisition, Life!Next, Life!Fail, Life!Finish
  <2>26. CASE tabulateMetrics
    BY <2>26 DEF tabulateMetrics, Life!Next, Life!Finish
  <2>27. CASE stdSignalHandler
    BY <2>27 DEF stdSignalHandler, Life!Next, Life!Signal
  <2>28. CASE SetKillFlag
    BY <2>28 DEF SetKillFlag
  <2>29. CASE UNCHANGED vars
    BY <2>29 DEF vars
  <2>30. QED
    BY <2>1, <2>2, <2>3, <2>4, <2>5, <2>6, <2>7, <2>8, <2>9, <2>10, <2>11, <2>12,
       <2>13, <2>14, <2>15, <2>16, <2>17, <2>18, <2>19, <2>20, <2>21, <2>22, <2>23, <2>24,
       <2>25, <2>26, <2>27, <2>28, <2>29
       DEF Next, MainThread, RingSteps, ReaderThread, acquire, Rest
<1>3. QED
  BY <1>1, <1>2, TypeCorrect, AlwaysProgress, PTL
     DEF Spec, TypeOK, ImplementsLife, Life!Spec, Life!lifeVars, LifeVars, Failed

-----------------------------------------------------------------------------
\* The program around the process.

\* What main does around the Process leaves the Process alone.
LEMMA ProgramRunsProcess == ProgramSpec => Spec
<1>1. ProgramInit => Init
  BY DEF ProgramInit
<1>2. [ProgramNext]_ProgramVars => [Next]_vars
  BY DEF ProgramNext, ProgramVars, OutsideProcess, Run
<1>3. QED
  BY <1>1, <1>2, PTL DEF ProgramSpec, Spec

\* Whatever the program was started with, its threads end before what they use,
\* nothing stays attached, and it lives the life of ProgramLife.
THEOREM ProgramLives ==
  ProgramSpec => [](ThreadsEndBeforeTheirMembers /\ WaitsOnValidFutures
                      /\ DestructorDoesNotThrow /\ DetachesAttachedRegion)
                 /\ ImplementsLife
BY ProgramRunsProcess, NoThreadOutlivesItsMembers, NeverWaitsOnNothing,
   DestructorIsQuiet, DetachedOnce, ProcessImplementsLife, PTL

\* The options are sound from the beginning, and stay so.
Options ==
    /\ ini \in EarthwormFile
    /\ maximumQueueSize \in Nat \ {0}
    /\ updateInterval \in Int /\ updateInterval >= 1

\* A file without a value gives the default.
LEMMA GetInteger ==
  ASSUME NEW value \in Seq(Int), NEW default \in Int
  PROVE  Get(value, default) \in Int
BY DEF Get

\* Every constant of the pipeline that an option sets is as the pipeline assumes,
\* although a negative size is read as a large one.
THEOREM OptionsAreSound == ProgramSpec => []OptionsMeetAssumptions
<1>1. ProgramInit => Options
  BY EarthwormFilesAssumption
     DEF ProgramInit, StartupInit, Options, DefaultInterval, DefaultQueueSize
<1>2. Options /\ [ProgramNext]_ProgramVars => Options'
  <2> SUFFICES ASSUME Options, [ProgramNext]_ProgramVars PROVE Options'
    OBVIOUS
  <2>1. CASE ReadOptions
    <3>1. /\ Get(ini.interval, DefaultInterval) \in Int
          /\ Get(ini.queueSize, DefaultQueueSize) \in Int
      <4>1. ini.interval \in Seq(Int) /\ ini.queueSize \in Seq(Int)
        BY DEF Options, EarthwormFile
      <4>2. DefaultInterval \in Int /\ DefaultQueueSize \in Int
        BY DEF DefaultInterval, DefaultQueueSize
      <4>3. QED
        BY <4>1, <4>2, GetInteger
    <3>2. QueueSize \in Nat
      BY <3>1, EarthwormFilesAssumption DEF QueueSize
    <3>3. CASE QueueSize = 0 \/ ~ini.names \/ IntervalIsRefused
      BY <2>1, <3>3 DEF ReadOptions, Options
    <3>4. CASE ~(QueueSize = 0 \/ ~ini.names \/ IntervalIsRefused)
      <4>1. maximumQueueSize' \in Nat \ {0} /\ ini' = ini
        BY <2>1, <3>2, <3>4 DEF ReadOptions
      <4>2. updateInterval' \in Int /\ updateInterval' >= 1
        BY <2>1, <3>1, <3>4 DEF ReadOptions, ReadMetricsOptions, IntervalIsRefused, Options
      <4>3. QED
        BY <4>1, <4>2 DEF Options
    <3>5. QED
      BY <3>3, <3>4
  <2>2. CASE ~ReadOptions
    BY <2>2 DEF Options, ProgramNext, ProgramVars, OutsideProcess, Run, Startup,
       startupVars, optionVars, initializeMetricsSingleton, parseCommandLineOptions,
       initializeOTelHTTP, SetUpdateInterval, ExporterThrows, ConstructReader,
       ReturnFromMain, DestroyStatic
  <2>3. QED
    BY <2>1, <2>2
<1>3. Options => OptionsMeetAssumptions
  BY DEF Options, OptionsMeetAssumptions
<1>4. QED
  BY <1>1, <1>2, <1>3, PTL DEF ProgramSpec

=============================================================================
