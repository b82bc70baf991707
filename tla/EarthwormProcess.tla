--------------------------- MODULE EarthwormProcess ---------------------------
(***************************************************************************)
(* The life of uEarthwormPacketMetrics from Process::start to its exit,    *)
(* with the ring reader it drives.  As in SEEDLinkProcess the metrics      *)
(* thread is reduced to its loop condition, and a task given to std::async *)
(* may be deferred to whoever calls get().                                 *)
(***************************************************************************)
EXTENDS WaveRing

CONSTANT ThreadMayBeRefused  \* the system may have no thread to give

ASSUME RefusalAssumption == ThreadMayBeRefused \in BOOLEAN

VARIABLES inDestructor,      \* stop() was called by ~Process
          isOkay,            \* local variable of checkFuturesOkay
          exitStatus,        \* what main() returns
          interrupted,       \* mInterrupted
          keepRunning,       \* Process::mKeepRunning
          metricsFuture,     \* mMetricsFuture.valid()
          acquisitionFuture, \* mAcquisitionFuture.valid()
          metrics            \* the metrics thread's next step

futureVars == <<metricsFuture, acquisitionFuture, metrics>>
processVars == <<inDestructor, isOkay, exitStatus, interrupted, keepRunning>>
vars == <<ringVars, processVars, futureVars>>

Init ==
    /\ pc = [t \in Thread |-> IF t = "main" THEN "launch" ELSE "none"]
    /\ mAcquire = TRUE
    /\ mConnected = FALSE
    /\ mHaveRegion = FALSE
    /\ attached = FALSE
    /\ killFlag = FALSE
    /\ inDestructor = FALSE
    /\ isOkay = TRUE
    /\ exitStatus = "none"
    /\ interrupted = FALSE
    /\ keepRunning = TRUE
    /\ metricsFuture = FALSE
    /\ acquisitionFuture = FALSE
    /\ metrics = "none"

-----------------------------------------------------------------------------
\* The main thread: start, handleMainThread and checkFuturesOkay.

LaunchMetrics ==
    /\ pc["main"] = "launch"
    /\ keepRunning' = TRUE
    /\ metricsFuture' = TRUE
    /\ \/ metrics' = "loop"
       \/ ThreadMayBeRefused /\ metrics' = "deferred"
    /\ Goto("main", "attach")
    /\ UNCHANGED <<objectVars, attached, killFlag, inDestructor, isOkay, exitStatus,
                   interrupted, acquisitionFuture>>

StartReader ==
    /\ pc["main"] = "startReader"
    /\ mAcquire' = TRUE
    /\ acquisitionFuture' = TRUE
    /\ \E step \in {"enter", "deferred"} :
          /\ step = "deferred" => ThreadMayBeRefused
          /\ pc' = [pc EXCEPT !["reader"] = step, !["main"] = "catchSignals"]
    /\ UNCHANGED <<mConnected, mHaveRegion, attached, killFlag, processVars,
                   metricsFuture, metrics>>

stdCatchSignals ==
    /\ pc["main"] = "catchSignals"
    /\ Goto("main", "watch")
    /\ UNCHANGED <<objectVars, attached, killFlag, processVars, futureVars>>

\* One round of the waiting loop starts, or the signal ends it.
CheckInterrupted ==
    /\ pc["main"] = "watch"
    /\ isOkay' = TRUE
    /\ Goto("main", IF interrupted THEN "stop" ELSE "checkAcquisition")
    /\ UNCHANGED <<objectVars, attached, killFlag, inDestructor, exitStatus,
                   interrupted, keepRunning, futureVars>>

\* wait_for, and get if the task is over.  A future without a task throws.
CheckAcquisition ==
    /\ pc["main"] = "checkAcquisition"
    /\ isOkay' = (acquisitionFuture /\ pc["reader"] # "threw")
    /\ acquisitionFuture' = (acquisitionFuture /\ pc["reader"] \notin {"ended", "threw"})
    /\ Goto("main", "checkMetrics")
    /\ UNCHANGED <<objectVars, attached, killFlag, inDestructor, exitStatus,
                   interrupted, keepRunning, metricsFuture, metrics>>

\* Mutant: a task that is deferred is not ready, and is taken for a failed one.
CheckMetricsReady ==
    /\ pc["main"] = "checkMetrics"
    /\ isOkay' = (isOkay /\ metricsFuture /\ metrics # "deferred")
    /\ metricsFuture' = (metricsFuture /\ metrics # "ended")
    /\ Goto("main", IF isOkay' THEN "watch" ELSE "stop")
    /\ UNCHANGED <<objectVars, attached, killFlag, inDestructor, exitStatus,
                   interrupted, keepRunning, acquisitionFuture, metrics>>

CheckMetrics ==
    /\ pc["main"] = "checkMetrics"
    /\ isOkay' = (isOkay /\ metricsFuture)
    /\ metricsFuture' = (metricsFuture /\ metrics # "ended")
    /\ Goto("main", IF isOkay' THEN "watch" ELSE "stop")
    /\ UNCHANGED <<objectVars, attached, killFlag, inDestructor, exitStatus,
                   interrupted, keepRunning, acquisitionFuture, metrics>>

-----------------------------------------------------------------------------
\* The main thread: stop, called by handleMainThread and by ~Process.

\* Mutant: the flag is cleared only when the destructor stops the process.
ClearKeepRunningLate ==
    /\ pc["main"] = "stop"
    /\ keepRunning' = ~inDestructor
    /\ Goto("main", "stopRing")
    /\ UNCHANGED <<objectVars, attached, killFlag, inDestructor, isOkay, exitStatus,
                   interrupted, futureVars>>

ClearKeepRunning ==
    /\ pc["main"] = "stop"
    /\ keepRunning' = FALSE
    /\ Goto("main", "stopRing")
    /\ UNCHANGED <<objectVars, attached, killFlag, inDestructor, isOkay, exitStatus,
                   interrupted, futureVars>>

\* Mutant: stop lets go of the acquisition thread without waiting for it.
DetachReader ==
    /\ pc["main"] = "joinReader"
    /\ acquisitionFuture' = FALSE
    /\ Goto("main", "joinMetrics")
    /\ UNCHANGED <<objectVars, attached, killFlag, processVars, metricsFuture, metrics>>

\* Mutant: the future is shared, so get() throws whenever it is called.
JoinSharedReader ==
    /\ pc["main"] = "joinReader"
    /\ acquisitionFuture => pc["reader"] \in {"ended", "threw", "deferred"}
    /\ LET throws == acquisitionFuture /\ pc["reader"] \in {"threw", "deferred"}
       IN  pc' = [pc EXCEPT !["reader"] = IF throws THEN "threw" ELSE @,
                            !["main"] = IF ~throws THEN "joinMetrics"
                                        ELSE IF inDestructor THEN "aborted" ELSE "catch"]
    /\ UNCHANGED <<objectVars, attached, killFlag, processVars, futureVars>>

\* get() waits for the task and rethrows what it threw: out of stop and start
\* into main's handler, or out of ~Process, which terminates the program.  A
\* deferred task runs now, and throws because the ring is disconnected.
JoinReader ==
    /\ pc["main"] = "joinReader"
    /\ acquisitionFuture => pc["reader"] \in {"ended", "threw", "deferred"}
    /\ LET throws == acquisitionFuture /\ pc["reader"] \in {"threw", "deferred"}
       IN  pc' = [pc EXCEPT !["reader"] = IF throws THEN "threw" ELSE @,
                            !["main"] = IF ~throws THEN "joinMetrics"
                                        ELSE IF inDestructor THEN "aborted" ELSE "catch"]
    /\ acquisitionFuture' = FALSE
    /\ UNCHANGED <<objectVars, attached, killFlag, processVars, metricsFuture, metrics>>

\* The end of stop: after the first one start returns, main returns
\* EXIT_SUCCESS and the Process is destroyed.
JoinMetrics ==
    /\ pc["main"] = "joinMetrics"
    /\ metricsFuture => metrics \in {"ended", "deferred"}
    /\ metrics' = IF metricsFuture /\ metrics = "deferred" THEN "ended" ELSE metrics
    /\ metricsFuture' = FALSE
    /\ exitStatus' = IF inDestructor THEN exitStatus ELSE "success"
    /\ Goto("main", IF inDestructor THEN "destroyMembers" ELSE "stop")
    /\ inDestructor' = TRUE
    /\ UNCHANGED <<objectVars, attached, killFlag, isOkay, interrupted, keepRunning,
                   acquisitionFuture>>

\* An exception leaves start: the Process is destroyed and main's handler
\* returns EXIT_FAILURE.
CatchInMain ==
    /\ pc["main"] = "catch"
    /\ exitStatus' = "failure"
    /\ inDestructor' = TRUE
    /\ Goto("main", "stop")
    /\ UNCHANGED <<objectVars, attached, killFlag, isOkay, interrupted, keepRunning,
                   futureVars>>

\* The members of Process are destroyed: the futures, which wait for their
\* threads, ...
DestroyFutures ==
    /\ pc["main"] = "destroyMembers"
    /\ metricsFuture => metrics \in {"ended", "deferred"}
    /\ acquisitionFuture => pc["reader"] \in {"ended", "threw", "deferred"}
    /\ metricsFuture' = FALSE
    /\ acquisitionFuture' = FALSE
    /\ Goto("main", "destroyReader")
    /\ UNCHANGED <<objectVars, attached, killFlag, processVars, metrics>>

\* ... and the WaveRing, which disconnects.
DestroyWaveRing ==
    /\ pc["main"] = "destroyReader"
    /\ mAcquire' = FALSE
    /\ attached' = (attached /\ ~mHaveRegion)
    /\ mHaveRegion' = FALSE
    /\ mConnected' = FALSE
    /\ Goto("main", "exited")
    /\ UNCHANGED <<killFlag, processVars, futureVars>>

RingSteps ==
    \/ Attach
    \/ Configure
    \/ flush
    \/ StopAcquiring
    \/ SleepOver
    \/ disconnect("main", "joinReader")

MainThread ==
    \/ RingSteps /\ UNCHANGED <<processVars, futureVars>>
    \/ LaunchMetrics
    \/ StartReader
    \/ stdCatchSignals
    \/ CheckInterrupted
    \/ CheckAcquisition
    \/ CheckMetrics
    \/ ClearKeepRunning
    \/ JoinReader
    \/ JoinMetrics
    \/ CatchInMain
    \/ DestroyFutures
    \/ DestroyWaveRing

-----------------------------------------------------------------------------
\* The other threads, the signal and the ring.

ReaderThread == acquire /\ UNCHANGED <<processVars, futureVars>>

tabulateMetrics ==
    /\ metrics = "loop"
    /\ ~keepRunning
    /\ metrics' = "ended"
    /\ UNCHANGED <<ringVars, processVars, metricsFuture, acquisitionFuture>>

Starting == {"launch", "attach", "configure", "flush", "startReader", "catchSignals"}

stdSignalHandler ==
    /\ pc["main"] \notin Starting \cup {"exited", "aborted"}
    /\ interrupted' = TRUE
    /\ UNCHANGED <<ringVars, inDestructor, isOkay, exitStatus, keepRunning, futureVars>>

\* Earthworm tells the modules of the ring to end.
SetKillFlag ==
    /\ killFlag' = TRUE
    /\ UNCHANGED <<pc, objectVars, attached, processVars, futureVars>>

Next == MainThread \/ ReaderThread \/ tabulateMetrics \/ stdSignalHandler \/ SetKillFlag

Spec == Init /\ [][Next]_vars

\* Every thread is scheduled, and the flush finds the ring empty at last.
\* Neither a signal nor the kill flag need ever come.
FairSpec ==
    /\ Spec
    /\ WF_vars(MainThread)
    /\ WF_vars(ReaderThread)
    /\ WF_vars(tabulateMetrics)

-----------------------------------------------------------------------------
\* Properties.

DisconnectSteps == {"disconnect", "checkRegion", "detach", "forget"}

MainSteps ==
    Starting \cup DisconnectSteps \cup
    {"watch", "checkAcquisition", "checkMetrics", "stop", "stopRing", "sleep",
     "joinReader", "joinMetrics", "catch", "destroyMembers", "destroyReader",
     "exited", "aborted"}

ReaderPlaces == ReaderSteps \cup {"none", "deferred", "ended", "threw"}

StepsTyped ==
    /\ pc \in [Thread -> MainSteps \cup ReaderPlaces]
    /\ pc["main"] \in MainSteps
    /\ pc["reader"] \in ReaderPlaces
    /\ metrics \in {"none", "deferred", "loop", "ended"}
    /\ exitStatus \in {"none", "success", "failure"}

FlagsTyped ==
    {mAcquire, mConnected, mHaveRegion, attached, killFlag, inDestructor, isOkay,
     interrupted, keepRunning, metricsFuture, acquisitionFuture} \subseteq BOOLEAN

\* Both threads are at one of their steps and every flag is a flag.
TypeOK == StepsTyped /\ FlagsTyped

\* The acquisition thread reads the ring's flag and messages only while the
\* region is attached.  Stop detaches it before the thread has been joined: the
\* sleep in WaveRing::stop is all that keeps the two apart.
ReadsAttachedRegion == pc["reader"] \in {"getFlag", "copy"} => attached

\* The region is detached once, although both threads may disconnect and the
\* main thread does so three times: only a signal that comes while the kill
\* flag is being answered can make both of them detach it.
DetachesAttachedRegion ==
    (\E t \in Thread : pc[t] = "detach") => attached \/ (interrupted /\ killFlag)

\* When the program has ended nothing is attached and no thread is left that
\* uses the ring or the members of Process, whichever way it was stopped.
ThreadsEndBeforeTheirMembers ==
    /\ pc["main"] \in {"destroyReader", "exited"} =>
          pc["reader"] \notin ReaderSteps /\ metrics # "loop"
    /\ pc["main"] = "exited" => ~attached

\* checkFuturesOkay waits only on futures that have a task.
WaitsOnValidFutures ==
    /\ pc["main"] = "checkAcquisition" => acquisitionFuture
    /\ pc["main"] = "checkMetrics" => metricsFuture

\* No exception of the acquisition thread leaves ~Process.
DestructorDoesNotThrow == pc["main"] # "aborted"

\* The abstract life of a program, in terms of the main thread's step.
LifePhase ==
    CASE pc["main"] \in Starting                                       -> "starting"
      [] pc["main"] \in {"watch", "checkAcquisition", "checkMetrics"}  -> "watching"
      [] pc["main"] \in {"destroyReader", "exited"}                    -> "ended"
      [] pc["main"] = "aborted"                                        -> "aborted"
      [] OTHER                                                         -> "stopping"

Working ==
    {t \in {"metrics", "reader"} :
        IF t = "metrics" THEN metrics = "loop" ELSE pc["reader"] \in ReaderSteps}

Life == INSTANCE ProgramLife
        WITH Threads <- {"metrics", "reader"},
             phase   <- LifePhase,
             working <- Working,
             failed  <- {t \in {"reader"} : pc["reader"] = "threw"}

\* The program does not stop without a reason, none of its threads stops working
\* unless it fails or the program is stopping, and the ring reader and the
\* Process are destroyed after both.
ImplementsLife == Life!Spec

\* A signal that is caught ends the program.
SignalEndsTheProgram == interrupted ~> pc["main"] = "exited"

\* Once the acquisition thread reads the ring, the kill flag ends the program.
KillFlagEndsTheProgram ==
    killFlag /\ pc["reader"] \in ReaderSteps ~> pc["main"] = "exited"

=============================================================================
