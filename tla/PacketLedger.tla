----------------------------- MODULE PacketLedger -----------------------------
(***************************************************************************)
(* What packet counting promises, without threads, locks or steps: packets *)
(* come through a channel that keeps only the most recent ones, are taken  *)
(* in order, and each packet taken is settled at one instant, once, under  *)
(* the one heading its times deserve at that instant.                      *)
(***************************************************************************)
EXTENDS Integers, Sequences

CONSTANTS Streams, Packets,
          Capacity,          \* packets the channel keeps
          MaximumLatency, MaximumFutureTime,
          MaxArrivals, MaxClock

Heading == {"valid", "future", "expired", "empty"}

VARIABLES now,      \* time
          read,     \* packets read and kept so far
          channel,  \* packets waiting, oldest first
          hand,     \* <<p>> when p was taken and is not settled, else <<>>
          tally     \* packets settled, by stream and heading

ledgerVars == <<now, read, channel, hand, tally>>

Init ==
    /\ now = 0
    /\ read = 0
    /\ channel = <<>>
    /\ hand = <<>>
    /\ tally = [s \in Streams |-> [h \in Heading |-> 0]]

\* A packet arrives; the oldest one waiting gives way when there is no room.
Read(p) ==
    /\ read < MaxArrivals
    /\ read' = read + 1
    /\ channel' = Append(IF Len(channel) = Capacity THEN Tail(channel) ELSE channel, p)
    /\ UNCHANGED <<now, hand, tally>>

\* A packet arrives and cannot be kept; the oldest one has given way in vain.
Lose ==
    /\ Len(channel) = Capacity
    /\ channel' = Tail(channel)
    /\ UNCHANGED <<now, read, hand, tally>>

Take ==
    /\ hand = <<>>
    /\ channel # <<>>
    /\ hand' = <<Head(channel)>>
    /\ channel' = Tail(channel)
    /\ UNCHANGED <<now, read, tally>>

\* The heading a packet deserves at time t.
Deserves(p, t, h) ==
    LET inFuture == p.end > t + MaximumFutureTime
        tooOld   == p.start < t - MaximumLatency
    IN  CASE h = "empty"   -> p.nSamples <= 0
          [] h = "future"  -> p.nSamples > 0 /\ inFuture
          [] h = "expired" -> p.nSamples > 0 /\ ~inFuture /\ tooOld
          [] h = "valid"   -> p.nSamples > 0 /\ ~inFuture /\ ~tooOld

Settle(h) ==
    /\ hand # <<>>
    /\ Deserves(hand[1], now, h)
    /\ tally' = [tally EXCEPT ![hand[1].stream][h] = @ + 1]
    /\ hand' = <<>>
    /\ UNCHANGED <<now, read, channel>>

Tick ==
    /\ now < MaxClock
    /\ now' = now + 1
    /\ UNCHANGED <<read, channel, hand, tally>>

Next ==
    \/ \E p \in Packets : Read(p)
    \/ Lose
    \/ Take
    \/ \E h \in Heading : Settle(h)
    \/ Tick

Spec == Init /\ [][Next]_ledgerVars

=============================================================================
