------------------------------- MODULE TraceBuf2 -------------------------------
(***************************************************************************)
(* An Earthworm tracebuf2 message, its unpacking by TraceBuf2, and the     *)
(* Packet that is made of it.  The format letter of a message tells the    *)
(* kind of its samples and the byte order of all its numbers; the machine  *)
(* the programs run on is little-endian.  Times are in nanoseconds here;   *)
(* the release build is modelled, in which an assertion throws.            *)
(***************************************************************************)
EXTENDS Packet

Message ==
    [format  : {"i", "f", "s", "t", "other"},   \* byte 57
     size    : {"2", "4", "8", "other"},        \* byte 58
     order   : {"little", "big"},               \* the sender's byte order
     names   : Names,
     rate    : [num : Int, den : Nat \ {0}],
     start   : Int,
     nsamp   : Int,
     samples : Seq(Int)]

\* Earthworm's convention: the letters s and t are for big-endian senders, and
\* a message has the samples it announces.
FollowsConvention(m) ==
    /\ m.order = "big" <=> m.format \in {"s", "t"}
    /\ m.nsamp <= Len(m.samples)

\* A number whose bytes are taken in the wrong order.
Garbled == -1

\* Mutant: big-endian floats are taken for little-endian ones.
SwapsIntegersOnly(m) == m.format = "s"

Swaps(m) == m.format \in {"s", "t"}

\* Letters that are not known are taken for integers.
IsFloat(m) == m.format \in {"f", "t"}

unpack(number, m) == IF Swaps(m) = (m.order = "big") THEN number ELSE Garbled

UnpackedRate(m) == [num |-> unpack(m.rate.num, m), den |-> m.rate.den]

UnpackedSamples(m) ==
    [i \in 1..unpack(m.nsamp, m) |-> unpack(m.samples[i], m)]

\* The first check that fails throws.  The branch for floats of eight bytes is
\* never reached, as floats of four are asked for before it.  Samples that are
\* swapped go through a vector, and an empty one has no data to point to.
Refusal(m) ==
    IF m.size = "other" THEN "size"
    ELSE IF m.size = "2" /\ IsFloat(m) THEN "float16"
    ELSE IF ~IsSamplingRate(UnpackedRate(m)) THEN "rate"
    ELSE IF unpack(m.nsamp, m) < 0 THEN "samples"
    ELSE IF IsFloat(m) /\ m.size # "4" THEN "assertion"
    ELSE IF Swaps(m) /\ unpack(m.nsamp, m) = 0 THEN "null"
    ELSE IF ~IsIdentifier(m.names) THEN "name"
    ELSE "none"

\* Integers of two bytes are promoted to four.
PacketType(m) ==
    IF IsFloat(m) THEN IF m.size = "4" THEN "Float" ELSE "Double"
    ELSE IF m.size = "8" THEN "Integer64" ELSE "Integer32"

\* TraceBuf2 keeps the start in seconds; the packet rounds to microseconds.
PacketOfMessage(m) ==
    PacketOf(m.names, UnpackedRate(m), Rounded(unpack(m.start, m), 1000),
             PacketType(m), UnpackedSamples(m))

=============================================================================
