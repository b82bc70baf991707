------------------------------- MODULE MCPackets -------------------------------
(***************************************************************************)
(* Small values for TLC, shared by the instances of the packet pipeline:   *)
(* three packets of two streams.  Aging is in the future at time 0, valid  *)
(* from 1 to MaximumLatency, and expired later; Fresh is of the other      *)
(* stream and is valid from time 1; Empty has no samples.                  *)
(***************************************************************************)
EXTENDS Integers

CONSTANTS s1, s2

MCStreams == {s1, s2}

Aging == [stream |-> s1, start |-> 0, end |-> 1, nSamples |-> 1, sum |-> 2, sumSquared |-> 4]
Fresh == [stream |-> s2, start |-> 1, end |-> 1, nSamples |-> 2, sum |-> 3, sumSquared |-> 5]
Empty == [stream |-> s1, start |-> 0, end |-> 0, nSamples |-> 0, sum |-> 0, sumSquared |-> 0]

MCPacketSet == {Aging, Fresh, Empty}

=============================================================================
