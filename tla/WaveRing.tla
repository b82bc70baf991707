------------------------------- MODULE WaveRing -------------------------------
(***************************************************************************)
(* The reader of an Earthworm ring (class WaveRing): connecting to the     *)
(* shared memory region, the acquisition loop, and disconnecting, which    *)
(* both the acquisition thread (on the ring's kill flag) and the main      *)
(* thread (in stop) may do, without a lock.  pc[t] is thread t's next      *)
(* step.  The module has no next-state relation: EarthwormProcess puts     *)
(* these steps in the two threads.                                         *)
(*                                                                         *)
(* The message is not modelled: what the callback does with a packet is    *)
(* the subject of PacketPipeline.                                          *)
(***************************************************************************)

CONSTANTS FlushOnStart,   \* mOptions.flushOnStart
          ReaderIsPrompt  \* a round of the acquisition loop fits in stop's 30 ms

ASSUME RingAssumption == FlushOnStart \in BOOLEAN /\ ReaderIsPrompt \in BOOLEAN

VARIABLES pc,          \* the next steps of "main" and "reader"
          mAcquire,    \* read the ring
          mConnected,  \* the object's idea of being connected
          mHaveRegion, \* the object's idea of having a region
          attached,    \* external: the process has the region attached
          killFlag     \* external: the ring's flag is TERMINATE

objectVars == <<mAcquire, mConnected, mHaveRegion>>
ringVars == <<pc, objectVars, attached, killFlag>>

Thread == {"main", "reader"}

Goto(t, step) == pc' = [pc EXCEPT ![t] = step]

-----------------------------------------------------------------------------
\* start, in the main thread.

\* The region is attached before anything is checked.
Attach ==
    /\ pc["main"] = "attach"
    /\ mAcquire' = TRUE
    /\ mHaveRegion' = TRUE
    /\ attached' = TRUE
    /\ Goto("main", "configure")
    /\ UNCHANGED <<mConnected, killFlag>>

\* The ring's key and the identifiers are looked up; any of them may be
\* missing, and connect throws.
Configure ==
    /\ pc["main"] = "configure"
    /\ \/ /\ mConnected' = TRUE
          /\ Goto("main", IF FlushOnStart THEN "flush" ELSE "startReader")
       \/ /\ mConnected' = FALSE
          /\ Goto("main", "catch")
    /\ UNCHANGED <<mAcquire, mHaveRegion, attached, killFlag>>

\* Messages are copied and dropped until the ring is found empty.
flush ==
    /\ pc["main"] = "flush"
    /\ Goto("main", "startReader")
    /\ UNCHANGED <<objectVars, attached, killFlag>>

-----------------------------------------------------------------------------
\* disconnect, step by step, in thread t; next is where t goes afterwards.

ClearAcquire(t) ==
    /\ pc[t] = "disconnect"
    /\ mAcquire' = FALSE
    /\ Goto(t, "checkRegion")
    /\ UNCHANGED <<mConnected, mHaveRegion, attached, killFlag>>

CheckRegion(t) ==
    /\ pc[t] = "checkRegion"
    /\ Goto(t, IF mHaveRegion THEN "detach" ELSE "forget")
    /\ UNCHANGED <<objectVars, attached, killFlag>>

Detach(t) ==
    /\ pc[t] = "detach"
    /\ attached' = FALSE
    /\ Goto(t, "forget")
    /\ UNCHANGED <<objectVars, killFlag>>

\* Mutant: the region is not forgotten.
ForgetConnectionOnly(t, next) ==
    /\ pc[t] = "forget"
    /\ mConnected' = FALSE
    /\ Goto(t, next)
    /\ UNCHANGED <<mAcquire, mHaveRegion, attached, killFlag>>

Forget(t, next) ==
    /\ pc[t] = "forget"
    /\ mHaveRegion' = FALSE
    /\ mConnected' = FALSE
    /\ Goto(t, next)
    /\ UNCHANGED <<mAcquire, attached, killFlag>>

disconnect(t, next) ==
    \/ ClearAcquire(t)
    \/ CheckRegion(t)
    \/ Detach(t)
    \/ Forget(t, next)

-----------------------------------------------------------------------------
\* stop, in the main thread.

\* Mutant: the acquisition thread is given no time to leave its loop.
StopAcquiringAtOnce ==
    /\ pc["main"] = "stopRing"
    /\ mAcquire' = FALSE
    /\ Goto("main", "disconnect")
    /\ UNCHANGED <<mConnected, mHaveRegion, attached, killFlag>>

StopAcquiring ==
    /\ pc["main"] = "stopRing"
    /\ mAcquire' = FALSE
    /\ Goto("main", IF mAcquire THEN "sleep" ELSE "disconnect")
    /\ UNCHANGED <<mConnected, mHaveRegion, attached, killFlag>>

ReaderSteps == {"enter", "loop", "getFlag", "copy", "unpack", "leave",
                "disconnect", "checkRegion", "detach", "forget"}

\* 30 ms later.  A prompt reader has finished the round it was in.
SleepOver ==
    /\ pc["main"] = "sleep"
    /\ ReaderIsPrompt => pc["reader"] \notin ReaderSteps
    /\ Goto("main", "disconnect")
    /\ UNCHANGED <<objectVars, attached, killFlag>>

-----------------------------------------------------------------------------
\* acquire, in the acquisition thread.

\* acquire throws when there is no connection.
Enter ==
    /\ pc["reader"] = "enter"
    /\ Goto("reader", IF mConnected THEN "loop" ELSE "threw")
    /\ UNCHANGED <<objectVars, attached, killFlag>>

AcquireAgain ==
    /\ pc["reader"] = "loop"
    /\ Goto("reader", IF mAcquire THEN "getFlag" ELSE "leave")
    /\ UNCHANGED <<objectVars, attached, killFlag>>

\* Mutant: the kill flag is ignored.
IgnoreKillFlag ==
    /\ pc["reader"] = "getFlag"
    /\ Goto("reader", "copy")
    /\ UNCHANGED <<objectVars, attached, killFlag>>

GetFlag ==
    /\ pc["reader"] = "getFlag"
    /\ Goto("reader", IF killFlag THEN "disconnect" ELSE "copy")
    /\ UNCHANGED <<objectVars, attached, killFlag>>

\* Nothing to read, or an error after which the message is skipped; or a
\* message.
CopyFrom ==
    /\ pc["reader"] = "copy"
    /\ \/ Goto("reader", "loop")
       \/ Goto("reader", "unpack")
    /\ UNCHANGED <<objectVars, attached, killFlag>>

\* The packet goes to the callback, or cannot be unpacked.
Unpack ==
    /\ pc["reader"] = "unpack"
    /\ Goto("reader", "loop")
    /\ UNCHANGED <<objectVars, attached, killFlag>>

LeaveAcquisition ==
    /\ pc["reader"] = "leave"
    /\ Goto("reader", IF mAcquire THEN "threw" ELSE "ended")
    /\ UNCHANGED <<objectVars, attached, killFlag>>

\* Mutant: on the kill flag the thread ends without an exception.
acquireEndsQuietly ==
    \/ Enter
    \/ AcquireAgain
    \/ GetFlag
    \/ CopyFrom
    \/ Unpack
    \/ disconnect("reader", "ended")
    \/ LeaveAcquisition

\* On the kill flag the thread disconnects and throws TerminateException.
acquire ==
    \/ Enter
    \/ AcquireAgain
    \/ GetFlag
    \/ CopyFrom
    \/ Unpack
    \/ disconnect("reader", "threw")
    \/ LeaveAcquisition

=============================================================================
