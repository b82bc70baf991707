-------------------------------- MODULE Packet --------------------------------
(***************************************************************************)
(* The classes StreamIdentifier and Packet: what their setters do to the   *)
(* object, and when they throw.  A network, station, channel or location   *)
(* is a code; CONSTANTS say which codes are blank and what convertString,  *)
(* which removes blanks and turns letters to upper case, makes of each.    *)
(*                                                                         *)
(* Times are in microseconds.  A sampling rate is a fraction of samples    *)
(* per second.  Samples are values; a packet keeps them in order.          *)
(***************************************************************************)
EXTENDS Integers, Sequences

CONSTANTS Codes,       \* what a name field may hold
          BlankCodes,  \* the empty code and those of white space only
          Converted    \* convertString

NoLocation == "--"

ASSUME CodesAssumption ==
    /\ BlankCodes \subseteq Codes /\ "" \in BlankCodes
    /\ NoLocation \in Codes \ BlankCodes
    /\ Converted \in [Codes -> Codes]
    /\ \A c \in Codes : Converted[Converted[c]] = Converted[c]
    /\ \A c \in Codes \ BlankCodes : Converted[c] \notin BlankCodes

Names == [network : Codes, station : Codes, channel : Codes, location : Codes]

-----------------------------------------------------------------------------
\* StreamIdentifier.

\* setNetwork, setStation and setChannel throw when nothing is left of a code.
IsIdentifier(names) ==
    \A field \in {"network", "station", "channel"} :
        Converted[names[field]] \notin BlankCodes

\* Mutant: the identifier keeps the codes as they were spelt.
SpeltIdentifier(names) ==
    [network  |-> names.network,
     station  |-> names.station,
     channel  |-> names.channel,
     location |-> IF names.location \in BlankCodes THEN NoLocation
                  ELSE names.location]

\* A blank location code is the code "--".
Identifier(names) ==
    [network  |-> Converted[names.network],
     station  |-> Converted[names.station],
     channel  |-> Converted[names.channel],
     location |-> IF names.location \in BlankCodes THEN NoLocation
                  ELSE Converted[names.location]]

-----------------------------------------------------------------------------
\* Packet.

NewPacket == [identifier   |-> <<>>,
              samplingRate |-> [num |-> 0, den |-> 1],
              startTime    |-> 0,
              endTime      |-> 0,
              dataType     |-> "Unknown",
              data         |-> <<>>]

\* a / b to the nearest integer, halves away from zero (std::round), b > 0.
Rounded(a, b) == IF a >= 0 THEN (2 * a + b) \div (2 * b)
                 ELSE -((b - 2 * a) \div (2 * b))

\* a / b towards zero (a conversion to an integer), b > 0.
Truncated(a, b) == IF a >= 0 THEN a \div b ELSE -((-a) \div b)

IsSamplingRate(rate) == rate.num > 0

MicroSecondsPerSecond == 1000000

\* Mutant: the packet ends one sample after its last one.
EndTimeAfterTheLast(packet) ==
    IF packet.data # <<>> /\ IsSamplingRate(packet.samplingRate)
    THEN packet.startTime
         + Rounded(Len(packet.data) * MicroSecondsPerSecond * packet.samplingRate.den,
                   packet.samplingRate.num)
    ELSE packet.startTime

\* The time of the last sample, as far as start, rate and samples are known.
EndTime(packet) ==
    IF packet.data # <<>> /\ IsSamplingRate(packet.samplingRate)
    THEN packet.startTime
         + Rounded((Len(packet.data) - 1) * MicroSecondsPerSecond
                        * packet.samplingRate.den,
                   packet.samplingRate.num)
    ELSE packet.startTime

\* The end time is stored, and computed anew by every setter it depends on.
updateEndTime(packet) == [packet EXCEPT !.endTime = EndTime(packet)]

setStreamIdentifier(packet, identifier) == [packet EXCEPT !.identifier = identifier]

\* Mutant: the rate is set after the samples, and the end time is not.
setSamplingRateOnly(packet, rate) == [packet EXCEPT !.samplingRate = rate]

setSamplingRate(packet, rate) ==
    updateEndTime([packet EXCEPT !.samplingRate = rate])

setStartTime(packet, time) == updateEndTime([packet EXCEPT !.startTime = time])

\* No samples leave the packet with the samples it has.
setData(packet, type, data) ==
    IF data = <<>> THEN updateEndTime(packet)
    ELSE updateEndTime([packet EXCEPT !.data = data, !.dataType = type])

\* The calls both conversions make, in their order.
PacketOf(names, rate, time, type, data) ==
    setData(setStartTime(setSamplingRate(
                setStreamIdentifier(NewPacket, Identifier(names)), rate), time),
            type, data)

=============================================================================
