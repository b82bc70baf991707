---------------------------- MODULE SEEDLinkProcess ----------------------------
(***************************************************************************)
(* The life of uSEEDLinkPacketMetrics from Process::start to its exit: the *)
(* main thread launches and watches two threads and stops them, once from  *)
(* handleMainThread and once more from ~Process; the acquisition thread    *)
(* (SEEDLinkClientImpl::packetToCallback) polls the server; the metrics    *)
(* thread (Process::tabulateMetrics) is reduced to its loop condition.     *)
(*                                                                         *)
(* std::async is called with its default policy: when no thread can be     *)
(* created the task is deferred, and runs in whoever calls get().          *)
(***************************************************************************)

CONSTANTS ServerMayFail,      \* sl_collect may give up without being told to
          ThreadMayBeRefused  \* the system may have no thread to give

ASSUME SwitchesAssumption == ServerMayFail \in BOOLEAN /\ ThreadMayBeRefused \in BOOLEAN

VARIABLES main,              \* the main thread's next step
          inDestructor,      \* stop() was called by ~Process
          isOkay,            \* local variable of checkFuturesOkay
          exitStatus,        \* what main() returns
          interrupted,       \* mInterrupted
          keepRunning,       \* Process::mKeepRunning
          metricsFuture,     \* mMetricsFuture.valid()
          acquisitionFuture, \* mAcquisitionFuture.valid()
          metrics,           \* the metrics thread's next step
          acquisition,       \* the acquisition thread's next step
          clientRunning,     \* SEEDLinkClientImpl::mKeepRunning
          terminateFlag,     \* mSEEDLinkConnection->terminate
          connection         \* mSEEDLinkConnection is allocated

mainVars == <<main, inDestructor, isOkay, exitStatus>>
clientVars == <<clientRunning, terminateFlag, connection>>
vars == <<mainVars, interrupted, keepRunning, metricsFuture, acquisitionFuture,
          metrics, acquisition, clientVars>>

\* The constructor of Process has initialized the client.
Init ==
    /\ main = "start"
    /\ inDestructor = FALSE
    /\ isOkay = TRUE
    /\ exitStatus = "none"
    /\ interrupted = FALSE
    /\ keepRunning = TRUE
    /\ metricsFuture = FALSE
    /\ acquisitionFuture = FALSE
    /\ metrics = "none"
    /\ acquisition = "none"
    /\ clientRunning = TRUE
    /\ terminateFlag = FALSE
    /\ connection = TRUE

\* A task given to std::async is at its first step, or deferred.
Launched == {"loop"} \cup (IF ThreadMayBeRefused THEN {"deferred"} ELSE {})

-----------------------------------------------------------------------------
\* The main thread: start, handleMainThread and checkFuturesOkay.

LaunchMetrics ==
    /\ main = "start"
    /\ keepRunning' = TRUE
    /\ metrics' \in Launched
    /\ metricsFuture' = TRUE
    /\ main' = "startClient"
    /\ UNCHANGED <<inDestructor, isOkay, exitStatus, interrupted, acquisitionFuture,
                   acquisition, clientVars>>

\* SEEDLinkClientImpl::start stops the client, which has no thread yet, sets
\* it running and clears the terminate command that the stop may have issued.
StartClient ==
    /\ main = "startClient"
    /\ clientRunning' = TRUE
    /\ terminateFlag' = FALSE
    /\ acquisition' \in Launched
    /\ acquisitionFuture' = TRUE
    /\ main' = "catchSignals"
    /\ UNCHANGED <<inDestructor, isOkay, exitStatus, interrupted, keepRunning,
                   metricsFuture, metrics, connection>>

stdCatchSignals ==
    /\ main = "catchSignals"
    /\ main' = "loop"
    /\ UNCHANGED <<inDestructor, isOkay, exitStatus, interrupted, keepRunning,
                   metricsFuture, acquisitionFuture, metrics, acquisition, clientVars>>

\* One round of the waiting loop starts, or the signal ends it.
CheckInterrupted ==
    /\ main = "loop"
    /\ main' = IF interrupted THEN "stop" ELSE "checkAcquisition"
    /\ isOkay' = TRUE
    /\ UNCHANGED <<inDestructor, exitStatus, interrupted, keepRunning, metricsFuture,
                   acquisitionFuture, metrics, acquisition, clientVars>>

\* Mutant: a task that is deferred is not ready, and is taken for a failed one.
CheckAcquisitionReady ==
    /\ main = "checkAcquisition"
    /\ isOkay' = (acquisitionFuture /\ acquisition \notin {"threw", "deferred"})
    /\ acquisitionFuture' = (acquisitionFuture /\ acquisition \notin {"ended", "threw"})
    /\ main' = "checkMetrics"
    /\ UNCHANGED <<inDestructor, exitStatus, interrupted, keepRunning, metricsFuture,
                   metrics, acquisition, clientVars>>

\* wait_for, and get if the task is over.  A future without a task throws.
CheckAcquisition ==
    /\ main = "checkAcquisition"
    /\ isOkay' = (acquisitionFuture /\ acquisition # "threw")
    /\ acquisitionFuture' = (acquisitionFuture /\ acquisition \notin {"ended", "threw"})
    /\ main' = "checkMetrics"
    /\ UNCHANGED <<inDestructor, exitStatus, interrupted, keepRunning, metricsFuture,
                   metrics, acquisition, clientVars>>

\* Mutant: the second check starts from a fresh verdict.
CheckMetricsForgetful ==
    /\ main = "checkMetrics"
    /\ isOkay' = metricsFuture
    /\ metricsFuture' = (metricsFuture /\ metrics # "ended")
    /\ main' = IF isOkay' THEN "loop" ELSE "stop"
    /\ UNCHANGED <<inDestructor, exitStatus, interrupted, keepRunning,
                   acquisitionFuture, metrics, acquisition, clientVars>>

CheckMetrics ==
    /\ main = "checkMetrics"
    /\ isOkay' = (isOkay /\ metricsFuture)
    /\ metricsFuture' = (metricsFuture /\ metrics # "ended")
    /\ main' = IF isOkay' THEN "loop" ELSE "stop"
    /\ UNCHANGED <<inDestructor, exitStatus, interrupted, keepRunning,
                   acquisitionFuture, metrics, acquisition, clientVars>>

-----------------------------------------------------------------------------
\* The main thread: stop, called by handleMainThread and by ~Process.

ClearKeepRunning ==
    /\ main = "stop"
    /\ keepRunning' = FALSE
    /\ main' = "terminate"
    /\ UNCHANGED <<inDestructor, isOkay, exitStatus, interrupted, metricsFuture,
                   acquisitionFuture, metrics, acquisition, clientVars>>

\* setRunning(false) issues the terminate command first ...
terminate ==
    /\ main = "terminate"
    /\ terminateFlag' = (terminateFlag \/ clientRunning)
    /\ main' = "clearClient"
    /\ UNCHANGED <<inDestructor, isOkay, exitStatus, interrupted, keepRunning,
                   metricsFuture, acquisitionFuture, metrics, acquisition,
                   clientRunning, connection>>

\* Mutant: setRunning does not store the flag.
ClearClientNot ==
    /\ main = "clearClient"
    /\ main' = "joinAcquisition"
    /\ UNCHANGED <<inDestructor, isOkay, exitStatus, interrupted, keepRunning,
                   metricsFuture, acquisitionFuture, metrics, acquisition, clientVars>>

\* ... and clears the client's flag afterwards.
ClearClient ==
    /\ main = "clearClient"
    /\ clientRunning' = FALSE
    /\ main' = "joinAcquisition"
    /\ UNCHANGED <<inDestructor, isOkay, exitStatus, interrupted, keepRunning,
                   metricsFuture, acquisitionFuture, metrics, acquisition,
                   terminateFlag, connection>>

\* Mutant: stop lets go of the acquisition thread without waiting for it.
DetachAcquisition ==
    /\ main = "joinAcquisition"
    /\ acquisitionFuture' = FALSE
    /\ main' = "joinMetrics"
    /\ UNCHANGED <<inDestructor, isOkay, exitStatus, interrupted, keepRunning,
                   metricsFuture, metrics, acquisition, clientVars>>

\* Mutant: the future is shared, so get() throws whenever it is called.
JoinSharedAcquisition ==
    /\ main = "joinAcquisition"
    /\ acquisitionFuture => acquisition \in {"ended", "threw", "deferred"}
    /\ acquisition' = IF acquisitionFuture /\ acquisition = "deferred"
                      THEN "ended" ELSE acquisition
    /\ main' = IF acquisitionFuture /\ acquisition = "threw"
               THEN IF inDestructor THEN "aborted" ELSE "catch"
               ELSE "joinMetrics"
    /\ UNCHANGED <<inDestructor, isOkay, exitStatus, interrupted, keepRunning,
                   metricsFuture, acquisitionFuture, metrics, clientVars>>

\* get() waits for the task and rethrows what it threw: out of stop and start
\* into main's handler, or out of ~Process, which terminates the program.  A
\* deferred task runs now and finds its flag cleared.
JoinAcquisition ==
    /\ main = "joinAcquisition"
    /\ acquisitionFuture => acquisition \in {"ended", "threw", "deferred"}
    /\ acquisition' = IF acquisitionFuture /\ acquisition = "deferred"
                      THEN "ended" ELSE acquisition
    /\ main' = IF acquisitionFuture /\ acquisition = "threw"
               THEN IF inDestructor THEN "aborted" ELSE "catch"
               ELSE "joinMetrics"
    /\ acquisitionFuture' = FALSE
    /\ UNCHANGED <<inDestructor, isOkay, exitStatus, interrupted, keepRunning,
                   metricsFuture, metrics, clientVars>>

\* The end of stop: after the first one start returns, main returns
\* EXIT_SUCCESS and the Process is destroyed.
JoinMetrics ==
    /\ main = "joinMetrics"
    /\ metricsFuture => metrics \in {"ended", "deferred"}
    /\ metrics' = IF metricsFuture /\ metrics = "deferred" THEN "ended" ELSE metrics
    /\ metricsFuture' = FALSE
    /\ main' = IF inDestructor THEN "destroyMembers" ELSE "stop"
    /\ exitStatus' = IF inDestructor THEN exitStatus ELSE "success"
    /\ inDestructor' = TRUE
    /\ UNCHANGED <<isOkay, interrupted, keepRunning, acquisitionFuture, acquisition,
                   clientVars>>

\* main's handler returns EXIT_FAILURE and the Process is destroyed.
CatchInMain ==
    /\ main = "catch"
    /\ exitStatus' = "failure"
    /\ inDestructor' = TRUE
    /\ main' = "stop"
    /\ UNCHANGED <<isOkay, interrupted, keepRunning, metricsFuture, acquisitionFuture,
                   metrics, acquisition, clientVars>>

\* The members of Process are destroyed from the last one declared to the
\* first: the destructor of a future waits for its thread, ...
DestroyFutures ==
    /\ main = "destroyMembers"
    /\ metricsFuture => metrics \in {"ended", "deferred"}
    /\ acquisitionFuture => acquisition \in {"ended", "threw", "deferred"}
    /\ metricsFuture' = FALSE
    /\ acquisitionFuture' = FALSE
    /\ main' = "destroyClient"
    /\ UNCHANGED <<inDestructor, isOkay, exitStatus, interrupted, keepRunning,
                   metrics, acquisition, clientVars>>

\* ... and the client is stopped and frees its connection.
disconnect ==
    /\ main = "destroyClient"
    /\ terminateFlag' = (terminateFlag \/ clientRunning)
    /\ clientRunning' = FALSE
    /\ connection' = FALSE
    /\ main' = "exited"
    /\ UNCHANGED <<inDestructor, isOkay, exitStatus, interrupted, keepRunning,
                   metricsFuture, acquisitionFuture, metrics, acquisition>>

MainThread ==
    \/ LaunchMetrics
    \/ StartClient
    \/ stdCatchSignals
    \/ CheckInterrupted
    \/ CheckAcquisition
    \/ CheckMetrics
    \/ ClearKeepRunning
    \/ terminate
    \/ ClearClient
    \/ JoinAcquisition
    \/ JoinMetrics
    \/ CatchInMain
    \/ DestroyFutures
    \/ disconnect

-----------------------------------------------------------------------------
\* The acquisition thread, the metrics thread and the signal.

PollAgain ==
    /\ acquisition = "loop"
    /\ acquisition' = IF clientRunning THEN "collect" ELSE "leave"
    /\ UNCHANGED <<mainVars, interrupted, keepRunning, metricsFuture,
                   acquisitionFuture, metrics, clientVars>>

\* sl_collect does not block.  It returns a packet or nothing, or SLTERMINATE
\* when it was told to terminate or has given up.
Collect ==
    /\ acquisition = "collect"
    /\ \/ acquisition' = "loop"
       \/ (terminateFlag \/ ServerMayFail) /\ acquisition' = "leave"
    /\ UNCHANGED <<mainVars, interrupted, keepRunning, metricsFuture,
                   acquisitionFuture, metrics, clientVars>>

\* Mutant: a premature end is not reported.
LeavePollingQuietly ==
    /\ acquisition = "leave"
    /\ acquisition' = "ended"
    /\ UNCHANGED <<mainVars, interrupted, keepRunning, metricsFuture,
                   acquisitionFuture, metrics, clientVars>>

\* The loop was left.  If the flag is still set, that was premature.
LeavePolling ==
    /\ acquisition = "leave"
    /\ acquisition' = IF clientRunning THEN "threw" ELSE "ended"
    /\ UNCHANGED <<mainVars, interrupted, keepRunning, metricsFuture,
                   acquisitionFuture, metrics, clientVars>>

packetToCallback == PollAgain \/ Collect \/ LeavePolling

tabulateMetrics ==
    /\ metrics = "loop"
    /\ ~keepRunning
    /\ metrics' = "ended"
    /\ UNCHANGED <<mainVars, interrupted, keepRunning, metricsFuture,
                   acquisitionFuture, acquisition, clientVars>>

stdSignalHandler ==
    /\ main \notin {"start", "startClient", "catchSignals", "exited", "aborted"}
    /\ interrupted' = TRUE
    /\ UNCHANGED <<mainVars, keepRunning, metricsFuture, acquisitionFuture, metrics,
                   acquisition, clientVars>>

Next == MainThread \/ packetToCallback \/ tabulateMetrics \/ stdSignalHandler

Spec == Init /\ [][Next]_vars

\* Every thread is scheduled, and sl_collect, which is set not to block,
\* returns.  No signal need ever come.
FairSpec ==
    /\ Spec
    /\ WF_vars(MainThread)
    /\ WF_vars(packetToCallback)
    /\ WF_vars(tabulateMetrics)

-----------------------------------------------------------------------------
\* Properties.

StepsTyped ==
    /\ main \in {"start", "startClient", "catchSignals", "loop", "checkAcquisition",
                 "checkMetrics", "stop", "terminate", "clearClient",
                 "joinAcquisition", "joinMetrics", "catch", "destroyMembers",
                 "destroyClient", "exited", "aborted"}
    /\ metrics \in {"none", "deferred", "loop", "ended"}
    /\ acquisition \in {"none", "deferred", "loop", "collect", "leave", "ended", "threw"}
    /\ exitStatus \in {"none", "success", "failure"}

FlagsTyped ==
    /\ inDestructor \in BOOLEAN
    /\ isOkay \in BOOLEAN
    /\ interrupted \in BOOLEAN
    /\ keepRunning \in BOOLEAN
    /\ metricsFuture \in BOOLEAN
    /\ acquisitionFuture \in BOOLEAN
    /\ clientRunning \in BOOLEAN
    /\ terminateFlag \in BOOLEAN
    /\ connection \in BOOLEAN

\* Every thread is at one of its steps and every flag is a flag.
TypeOK == StepsTyped /\ FlagsTyped

\* When the client's connection and the members of Process go away, no thread
\* is left that uses them, whichever way the program was stopped.
ThreadsEndBeforeTheirMembers ==
    main \in {"destroyClient", "exited"} =>
        /\ acquisition \notin {"loop", "collect", "leave"}
        /\ metrics # "loop"

\* checkFuturesOkay waits only on futures that have a task.  (Waiting on one
\* without a task is undefined.)  It calls get() on the way, and relies on a
\* task ending quietly only after it was told to.
WaitsOnValidFutures ==
    /\ main = "checkAcquisition" => acquisitionFuture
    /\ main = "checkMetrics" => metricsFuture

\* stop() may throw what the acquisition thread threw, but never out of
\* ~Process: by then that exception has been taken.
DestructorDoesNotThrow == main # "aborted"

\* A signal that is caught ends the program.
SignalEndsTheProgram == interrupted ~> main = "exited"

\* A server that gives up ends the program: the other thread is stopped too.
FailureEndsTheProgram == acquisition = "threw" ~> main = "exited"

\* The abstract life of a program, in terms of the main thread's step.
LifePhase ==
    CASE main \in {"start", "startClient", "catchSignals"}        -> "starting"
      [] main \in {"loop", "checkAcquisition", "checkMetrics"}    -> "watching"
      [] main \in {"destroyClient", "exited"}                     -> "ended"
      [] main = "aborted"                                         -> "aborted"
      [] OTHER                                                    -> "stopping"

Working ==
    {t \in {"metrics", "acquisition"} :
        IF t = "metrics" THEN metrics = "loop"
        ELSE acquisition \in {"loop", "collect", "leave"}}

Life == INSTANCE ProgramLife
        WITH Threads <- {"metrics", "acquisition"},
             phase   <- LifePhase,
             working <- Working,
             failed  <- {t \in {"acquisition"} : acquisition = "threw"}

\* The program does not stop without a reason, none of its threads stops working
\* unless it fails or the program is stopping, and the client and the Process
\* are destroyed after both.
ImplementsLife == Life!Spec

\* seedLinkClient.cpp:243-244 expects that a polling thread may have "already
\* given up because it received a terminate request" when the flag is cleared:
\* a stop is no failure, and a program that was only told to stop succeeds.
StopIsNotAFailure == ~ServerMayFail => exitStatus # "failure"

=============================================================================
