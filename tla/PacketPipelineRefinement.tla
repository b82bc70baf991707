----------------------- MODULE PacketPipelineRefinement -----------------------
(***************************************************************************)
(* The packet pipeline implements the packet ledger.  A packet is settled  *)
(* when tabulateMetrics compares it with the clock: from then on it counts *)
(* as tallied, although its counter is incremented some steps later.       *)
(***************************************************************************)
EXTENDS PacketPipeline

ChannelBar == [i \in 1 .. Len(queue) |-> queue[i].packet]

HandBar == IF pc \in {"cumulativeTotal", "total", "classify"} THEN <<packet>> ELSE <<>>

\* The steps at which a packet has been classified and is not counted yet.
Pending(h) == IF h = "valid" THEN {"cumulativeValid", "valid"} ELSE {h}

Settled(s, h) ==
    IF h = "empty" THEN rejected[s] ELSE counter[h][s] + InHand(s, Pending(h))

TallyBar ==
    [s \in Streams |-> [h \in {"valid", "future", "expired", "empty"} |-> Settled(s, h)]]

Ledger == INSTANCE PacketLedger
          WITH Capacity <- MaximumQueueSize,
               now      <- clock,
               read     <- arrivals,
               channel  <- ChannelBar,
               hand     <- HandBar,
               tally    <- TallyBar

\* The pipeline's threads, queue and counters do nothing the ledger does not
\* allow: packets leave in order, only the oldest is dropped and only when
\* the queue is full, and each one taken is counted once, in its stream, under
\* the heading its times deserve when the clock is read.
ImplementsLedger == Ledger!Spec

=============================================================================
