---------------------------- MODULE PacketPipeline ----------------------------
(***************************************************************************)
(* The path of a packet through class Process, the same in both programs:  *)
(* the acquisition thread's callback puts it in a bounded queue that drops *)
(* its oldest packets, and the metrics thread takes packets out one at a   *)
(* time, tabulates them in the MetricsSingleton, and closes the windows    *)
(* that are due.  The main thread's stop() clears mKeepRunning; the        *)
(* acquisition thread is stopped separately and later, so packets may      *)
(* still arrive afterwards.                                                *)
(***************************************************************************)
EXTENDS MetricsSingleton, Sequences, Functions

CONSTANTS MaximumQueueSize, \* mMaximumQueueSize
          MaxArrivals       \* bound: packets put in the queue

ASSUME QueueSizeAssumption == MaximumQueueSize \in Nat \ {0}
ASSUME MaxArrivalsAssumption == MaxArrivals \in Nat

VARIABLES queue,       \* mPacketQueue, each packet with its arrival number
          keepRunning, \* mKeepRunning
          lastUpdate,  \* the metrics thread's local variable lastUpdate
          arrivals,    \* auxiliary: packets put in the queue
          dropped,     \* auxiliary: packets popped because the queue was full
          taken,       \* auxiliary: packets the metrics thread has taken
          lastTaken    \* auxiliary: arrival number of the last one it took

pipelineVars == <<queue, keepRunning, lastUpdate, arrivals, dropped, taken, lastTaken>>
vars == <<singletonVars, pipelineVars>>

Entry == [number : Nat, packet : Packets]

Init ==
    /\ SingletonInit
    /\ pc = "loop"
    /\ queue = <<>>
    /\ keepRunning = TRUE
    /\ lastUpdate = 0
    /\ arrivals = 0
    /\ dropped = 0
    /\ taken = 0
    /\ lastTaken = 0

-----------------------------------------------------------------------------
\* The acquisition thread.

\* Mutant: room is made only when the queue is over its capacity.
WithRoomLate(q) ==
    IF Len(q) <= MaximumQueueSize THEN q
    ELSE SubSeq(q, Len(q) - MaximumQueueSize + 2, Len(q))

\* What the while loop of addPacketCallback leaves of the queue: at most one
\* packet less than its capacity, the most recent ones.
WithRoom(q) ==
    IF Len(q) < MaximumQueueSize THEN q
    ELSE SubSeq(q, Len(q) - MaximumQueueSize + 2, Len(q))

\* Mutant: a packet that finds the queue full is the one dropped.
addPacketUnlessFull ==
    /\ arrivals < MaxArrivals
    /\ LET full == Len(queue) = MaximumQueueSize
       IN  /\ \E p \in Packets :
                 queue' = IF full THEN queue
                          ELSE Append(queue, [number |-> arrivals + 1, packet |-> p])
           /\ dropped' = IF full THEN dropped + 1 ELSE dropped
    /\ arrivals' = arrivals + 1
    /\ UNCHANGED <<singletonVars, keepRunning, lastUpdate, taken, lastTaken>>

addPacketCallback ==
    /\ arrivals < MaxArrivals
    /\ \E p \in Packets :
          queue' = Append(WithRoom(queue), [number |-> arrivals + 1, packet |-> p])
    /\ arrivals' = arrivals + 1
    /\ dropped' = dropped + Len(queue) - Len(WithRoom(queue))
    /\ UNCHANGED <<singletonVars, keepRunning, lastUpdate, taken, lastTaken>>

\* The push throws for want of memory, after room was made.  The exception is
\* caught, and the packet, which arrivals does not count, is lost.
FailToEnqueue ==
    /\ queue' = WithRoom(queue)
    /\ dropped' = dropped + Len(queue) - Len(WithRoom(queue))
    /\ UNCHANGED <<singletonVars, keepRunning, lastUpdate, arrivals, taken, lastTaken>>

-----------------------------------------------------------------------------
\* The metrics thread: the loop of Process::tabulateMetrics.

\* The loop condition is read and the iteration's locals are constructed.
LoopAgain ==
    /\ pc = "loop"
    /\ keepRunning
    /\ pc' = "take"
    /\ packet' = DefaultPacket
    /\ tabulatedAt' = 0
    /\ UNCHANGED <<clock, counterVars, windowVars, pipelineVars>>

LeaveLoop ==
    /\ pc = "loop"
    /\ ~keepRunning
    /\ pc' = "done"
    /\ UNCHANGED <<clock, counterVars, windowVars, packet, tabulatedAt, pipelineVars>>

\* Mutant: the newest packet is taken.
TakeNewestPacket ==
    /\ pc = "take"
    /\ queue # <<>>
    /\ packet' = queue[Len(queue)].packet
    /\ queue' = SubSeq(queue, 1, Len(queue) - 1)
    /\ taken' = taken + 1
    /\ lastTaken' = queue[Len(queue)].number
    /\ pc' = "cumulativeTotal"
    /\ UNCHANGED <<clock, counterVars, windowVars, tabulatedAt,
                   keepRunning, lastUpdate, arrivals, dropped>>

\* The flag may have been cleared since the loop condition was read.
TakePacket ==
    /\ pc = "take"
    /\ queue # <<>>
    /\ packet' = Head(queue).packet
    /\ queue' = Tail(queue)
    /\ taken' = taken + 1
    /\ lastTaken' = Head(queue).number
    /\ pc' = "cumulativeTotal"
    /\ UNCHANGED <<clock, counterVars, windowVars, tabulatedAt,
                   keepRunning, lastUpdate, arrivals, dropped>>

\* Mutant: an empty queue is waited on, whatever the flag says.
WaitForPacket ==
    /\ pc = "take"
    /\ queue = <<>>
    /\ UNCHANGED vars

FindQueueEmpty ==
    /\ pc = "take"
    /\ queue = <<>>
    /\ pc' = "idle"
    /\ UNCHANGED <<clock, counterVars, windowVars, packet, tabulatedAt, pipelineVars>>

TabulateStep == tabulateMetrics /\ UNCHANGED pipelineVars

FlushAfterPacket ==
    /\ pc = "returned"
    /\ updateAndResetWindowedMetrics
    /\ pc' = "stamp"
    /\ UNCHANGED <<clock, counterVars, packet, tabulatedAt, pipelineVars>>

StampLastUpdate ==
    /\ pc = "stamp"
    /\ lastUpdate' = clock
    /\ pc' = "loop"
    /\ UNCHANGED <<clock, counterVars, windowVars, packet, tabulatedAt,
                   queue, keepRunning, arrivals, dropped, taken, lastTaken>>

\* Mutant: the exception ends the metrics thread.
UncaughtException ==
    /\ pc = "threw"
    /\ pc' = "done"
    /\ UNCHANGED <<clock, counterVars, windowVars, packet, tabulatedAt, pipelineVars>>

\* The exception is caught and logged: neither the flush nor the stamp runs.
CatchException ==
    /\ pc = "threw"
    /\ pc' = "loop"
    /\ UNCHANGED <<clock, counterVars, windowVars, packet, tabulatedAt, pipelineVars>>

\* Mutant: the idle check runs twice as seldom as the update interval.
FlushWhenIdleSeldom ==
    /\ pc = "idle"
    /\ IF clock > lastUpdate + 2 * UpdateInterval
       THEN updateAndResetWindowedMetrics
       ELSE UNCHANGED windowVars
    /\ pc' = "sleep"
    /\ UNCHANGED <<clock, counterVars, packet, tabulatedAt, pipelineVars>>

\* Without a packet, the windows are flushed once the update interval has
\* passed since lastUpdate, which this branch does not change.
FlushWhenIdle ==
    /\ pc = "idle"
    /\ IF clock > lastUpdate + UpdateInterval
       THEN updateAndResetWindowedMetrics
       ELSE UNCHANGED windowVars
    /\ pc' = "sleep"
    /\ UNCHANGED <<clock, counterVars, packet, tabulatedAt, pipelineVars>>

WakeUp ==
    /\ pc = "sleep"
    /\ pc' = "loop"
    /\ UNCHANGED <<clock, counterVars, windowVars, packet, tabulatedAt, pipelineVars>>

MetricsThread ==
    \/ LoopAgain
    \/ LeaveLoop
    \/ TakePacket
    \/ FindQueueEmpty
    \/ TabulateStep
    \/ FlushAfterPacket
    \/ StampLastUpdate
    \/ CatchException
    \/ FlushWhenIdle
    \/ WakeUp

-----------------------------------------------------------------------------
\* The main thread: Process::stop clears the flag.  The rest of stop() only
\* concerns the acquisition thread and the joining of both threads.
ClearKeepRunning ==
    /\ keepRunning
    /\ keepRunning' = FALSE
    /\ UNCHANGED <<singletonVars, queue, lastUpdate, arrivals, dropped, taken, lastTaken>>

PassTime == Tick /\ UNCHANGED pipelineVars

Next ==
    \/ addPacketCallback
    \/ FailToEnqueue
    \/ MetricsThread
    \/ ClearKeepRunning
    \/ PassTime

Spec == Init /\ [][Next]_vars

\* The metrics thread is scheduled.  Nothing is assumed of the arrival of
\* packets, of the clock, or of a request to stop.
Fairness == WF_vars(MetricsThread)

FairSpec == Spec /\ Fairness

-----------------------------------------------------------------------------
\* Properties.

TabulatorStep == {"loop", "take", "cumulativeTotal", "total", "classify", "future",
                  "expired", "cumulativeValid", "valid", "window", "returned",
                  "threw", "stamp", "idle", "sleep", "done"}

\* Every variable keeps its type; maps keep to the known streams and the
\* queue to its capacity.
TypeOK ==
    /\ clock \in Nat
    /\ cumulativeTotal \in Nat
    /\ cumulativeValid \in Nat
    /\ counter \in [CounterName -> [Streams -> Nat]]
    /\ DOMAIN windows \subseteq Streams
    /\ \A s \in DOMAIN windows : windows[s] \in Window
    /\ DOMAIN gauge = GaugeName
    /\ \A g \in GaugeName : /\ DOMAIN gauge[g] \subseteq Streams
                            /\ \A s \in DOMAIN gauge[g] : gauge[g][s] \in Rational
    /\ pc \in TabulatorStep
    /\ packet \in Packets
    /\ tabulatedAt \in Nat
    /\ rejected \in [Streams -> Nat]
    /\ closedPackets \in [Streams -> Nat]
    /\ queue \in Seq(Entry)
    /\ Len(queue) <= MaximumQueueSize
    /\ keepRunning \in BOOLEAN
    /\ lastUpdate \in Nat
    /\ arrivals \in Nat
    /\ dropped \in Nat
    /\ taken \in Nat
    /\ lastTaken \in Nat

\* 1 if the metrics thread is at one of the given steps with a packet of s.
InHand(s, steps) == IF pc \in steps /\ packet.stream = s THEN 1 ELSE 0

\* A packet that was counted in its stream's total ends in exactly one of the
\* valid, future and expired counters or is refused as empty; until then it
\* is the one in hand.  Catches a missing return after the future or expired
\* count, and a counter incremented before the check that may throw.
EveryPacketCountedOnce ==
    \A s \in Streams :
        counter["total"][s] =
            counter["valid"][s] + counter["future"][s] + counter["expired"][s]
            + rejected[s]
            + InHand(s, {"classify", "future", "expired", "cumulativeValid", "valid"})

\* The packets counted valid are the packets averaged: each is in exactly one
\* window, open or already closed.  Catches a flush that resets what it did
\* not report and a valid packet that misses its window.
WindowsHoldTheValidPackets ==
    \A s \in Streams :
        counter["valid"][s] =
            closedPackets[s]
            + (IF s \in DOMAIN windows THEN windows[s].packetsCount ELSE 0)
            + InHand(s, {"window"})

\* Every packet put in the queue is there, taken or dropped, and the queue holds
\* exactly the packets that were put in last, in the order of their arrival,
\* all of them later than the last one taken; also when a push failed.
QueueIsTheNewest ==
    /\ arrivals = dropped + taken + Len(queue)
    /\ \A i \in 1 .. Len(queue) : queue[i].number = arrivals - Len(queue) + i
    /\ lastTaken <= arrivals - Len(queue)

\* Packets are taken in the order they arrived, none twice; and one is lost
\* only to make room for the packet that finds the queue full, which then fills
\* it again unless its push fails.
TakenInOrderDroppedWhenFull ==
    [][/\ taken' # taken => lastTaken' > lastTaken
       /\ dropped' # dropped => /\ dropped' = dropped + 1
                               /\ Len(queue) = MaximumQueueSize
                               /\ (arrivals' # arrivals => Len(queue') = MaximumQueueSize)]_vars

\* The cumulative counters, kept apart from the per-stream maps, agree with
\* them except while the metrics thread is between the two increments.
CumulativeCountersAgree ==
    /\ cumulativeTotal = SumFunction(counter["total"]) + (IF pc = "total" THEN 1 ELSE 0)
    /\ cumulativeValid = SumFunction(counter["valid"]) + (IF pc = "valid" THEN 1 ELSE 0)
    /\ taken = cumulativeTotal + (IF pc = "cumulativeTotal" THEN 1 ELSE 0)

\* Until the process is told to stop, a queued packet does not stay: it is
\* taken or makes room.  A packet whose tabulation throws must not end the
\* metrics thread.
QueuedPacketsMoveOn ==
    \A n \in 1 .. MaxArrivals :
        (\E i \in 1 .. Len(queue) : queue[i].number = n)
            ~> (~keepRunning \/ ~\E i \in 1 .. Len(queue) : queue[i].number = n)

\* Told to stop, the metrics thread ends, so that joining it returns.
StopEndsTheThread == ~keepRunning ~> pc = "done"

\* Only a packet with samples gets past the classification.
ClassifiedPacketsHaveSamples ==
    pc \in {"future", "expired", "cumulativeValid", "valid", "window"} =>
        packet.nSamples > 0

=============================================================================
