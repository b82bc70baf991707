------------------------------ MODULE ProgramLife ------------------------------
(***************************************************************************)
(* What either program promises about its threads, without flags, futures  *)
(* and shared memory: threads are launched while it starts; a thread that  *)
(* works leaves its work by a failure, or because the program is stopping; *)
(* the program stops for a reason; and it ends when nothing works.         *)
(***************************************************************************)
CONSTANT Threads   \* the threads beside the main thread

VARIABLES phase,      \* "starting", "watching", "stopping" or "ended"
          working,    \* the threads that are at work
          failed,     \* the threads whose task has thrown
          interrupted \* a signal was caught

lifeVars == <<phase, working, failed, interrupted>>

Init ==
    /\ phase = "starting"
    /\ working = {}
    /\ failed = {}
    /\ interrupted = FALSE

Launch(t) ==
    /\ phase = "starting" /\ t \notin working
    /\ working' = working \cup {t}
    /\ UNCHANGED <<phase, failed, interrupted>>

Started ==
    /\ phase = "starting"
    /\ phase' = "watching"
    /\ UNCHANGED <<working, failed, interrupted>>

\* Something that the start needs is missing.
Abandon ==
    /\ phase = "starting"
    /\ phase' = "stopping"
    /\ UNCHANGED <<working, failed, interrupted>>

\* A task throws at work; or it could not be launched, and is run too late.
Fail(t) ==
    /\ t \in working \/ phase = "stopping"
    /\ working' = working \ {t}
    /\ failed' = failed \cup {t}
    /\ UNCHANGED <<phase, interrupted>>

Signal ==
    /\ phase # "starting"
    /\ interrupted' = TRUE
    /\ UNCHANGED <<phase, working, failed>>

Stop ==
    /\ phase = "watching"
    /\ interrupted \/ failed # {}
    /\ phase' = "stopping"
    /\ UNCHANGED <<working, failed, interrupted>>

Finish(t) ==
    /\ phase = "stopping" /\ t \in working
    /\ working' = working \ {t}
    /\ UNCHANGED <<phase, failed, interrupted>>

End ==
    /\ phase = "stopping" /\ working = {}
    /\ phase' = "ended"
    /\ UNCHANGED <<working, failed, interrupted>>

Next ==
    \/ \E t \in Threads : Launch(t) \/ Fail(t) \/ Finish(t)
    \/ Started
    \/ Abandon
    \/ Signal
    \/ Stop
    \/ End

Spec == Init /\ [][Next]_lifeVars

=============================================================================
