--------------------------- MODULE PacketConversion ---------------------------
(***************************************************************************)
(* What becomes of the data before Process::addPacketCallback sees it.     *)
(* The SEEDLink client converts the miniSEED records of a buffer to        *)
(* packets and hands them over when all are converted; the ring reader     *)
(* unpacks one tracebuf2 message at a time; and any caller may set the     *)
(* parts of a Packet in any order.  A behaviour follows one of the three:  *)
(* they share no state.                                                    *)
(***************************************************************************)
EXTENDS TraceBuf2

CONSTANTS Payloads,     \* the buffers that the SEEDLink server sends
          Messages,     \* the tracebuf2 messages in the ring
          Rates,        \* what a caller sets: sampling rates,
          StartTimes,   \* start times,
          Signals,      \* samples
          MaxPayloads   \* bound: buffers collected

Record ==
    [parsed  : BOOLEAN,                     \* msr3_parse succeeds
     named   : BOOLEAN,                     \* ms_sid2nslc succeeds
     names   : Names,
     rate    : [num : Int, den : Nat \ {0}],
     start   : Int,                         \* nanoseconds
     type    : {"i", "f", "d", "other"},
     samples : Seq(Int)]

\* A record is longer than MINRECLEN.  What follows the last one is not a
\* record, and is looked at only when it is longer than MINRECLEN.
Payload == [records : Seq(Record), trailing : {"short", "long"}]

ASSUME InputsAssumption ==
    /\ Payloads \subseteq Payload
    /\ Messages \subseteq {m \in Message : FollowsConvention(m)}
    /\ Rates \subseteq [num : Int, den : Nat \ {0}]
    /\ StartTimes \subseteq Int
    /\ Signals \subseteq Seq(Int)
    /\ MaxPayloads \in Nat

VARIABLES source,     \* which of the three is followed
          step,       \* the next step of packetToCallback
          payload,    \* seedLinkBuffer
          next,       \* the record at offset
          converted,  \* dataPackets
          allocated,  \* MS3Records that have not been freed
          skipped,    \* buffers of which nothing was handed over
          collected,  \* buffers so far
          received,   \* what tport_copyfrom returned
          offered,    \* the packets handed to the callback since the last input
          packet      \* the caller's Packet

bufferVars == <<step, payload, next, converted, allocated, skipped, collected>>
vars == <<source, bufferVars, received, offered, packet>>

Nothing == [code |-> "GET_NONE"]

Init ==
    /\ source \in {"miniSEED", "ring", "caller"}
    /\ step = "collect"
    /\ payload = [records |-> <<>>, trailing |-> "short"]
    /\ next = 1
    /\ converted = <<>>
    /\ allocated = 0
    /\ skipped = 0
    /\ collected = 0
    /\ received = Nothing
    /\ offered = <<>>
    /\ packet = NewPacket

-----------------------------------------------------------------------------
\* SEEDLinkClientImpl::packetToCallback and miniSEEDToDataPackets.

\* The first failure throws.
Failure(r) ==
    IF ~r.parsed THEN "parse"
    ELSE IF ~r.named THEN "sid"
    ELSE IF ~IsIdentifier(r.names) THEN "name"
    ELSE IF ~IsSamplingRate(r.rate) THEN "rate"
    ELSE IF r.samples # <<>> /\ r.type = "other" THEN "type"
    ELSE "none"

\* The setters of StreamIdentifier and Packet throw past msr3_free.
Leaks(r) == Failure(r) \in {"name", "rate"}

SampleType(r) ==
    CASE r.type = "i" -> "Integer32"
      [] r.type = "f" -> "Float"
      [] r.type = "d" -> "Double"
      [] OTHER        -> "Unknown"

\* The start is cut to microseconds.
PacketOfRecord(r) ==
    PacketOf(r.names, r.rate, Truncated(r.start, 1000), SampleType(r), r.samples)

Collect ==
    /\ source = "miniSEED" /\ step = "collect" /\ collected < MaxPayloads
    /\ payload' \in Payloads
    /\ step' = "convert"
    /\ next' = 1
    /\ converted' = <<>>
    /\ offered' = <<>>
    /\ collected' = collected + 1
    /\ UNCHANGED <<source, allocated, skipped, received, packet>>

AtRecord == next <= Len(payload.records)

\* Mutant: a record that was converted is not freed.
ConvertAndKeep ==
    /\ step = "convert" /\ AtRecord
    /\ Failure(payload.records[next]) = "none"
    /\ converted' = Append(converted, PacketOfRecord(payload.records[next]))
    /\ next' = next + 1
    /\ allocated' = allocated + 1
    /\ UNCHANGED <<source, step, payload, skipped, collected, received, offered, packet>>

ConvertRecord ==
    /\ step = "convert" /\ AtRecord
    /\ Failure(payload.records[next]) = "none"
    /\ converted' = Append(converted, PacketOfRecord(payload.records[next]))
    /\ next' = next + 1
    /\ UNCHANGED <<source, step, payload, allocated, skipped, collected, received,
                   offered, packet>>

\* Mutant: the packets before the record that failed are handed over.
KeepPacketsBefore ==
    /\ step = "convert"
    /\ IF AtRecord THEN Failure(payload.records[next]) # "none"
                   ELSE payload.trailing = "long"
    /\ step' = "handOver"
    /\ UNCHANGED <<source, payload, next, converted, allocated, skipped, collected,
                   received, offered, packet>>

\* What cannot be converted throws, and the packets before it are lost.
SkipBuffer ==
    /\ step = "convert"
    /\ IF AtRecord THEN Failure(payload.records[next]) # "none"
                   ELSE payload.trailing = "long"
    /\ step' = "collect"
    /\ allocated' = IF AtRecord /\ Leaks(payload.records[next])
                    THEN allocated + 1 ELSE allocated
    /\ skipped' = skipped + 1
    /\ UNCHANGED <<source, payload, next, converted, collected, received, offered, packet>>

EndOfBuffer ==
    /\ step = "convert" /\ ~AtRecord /\ payload.trailing = "short"
    /\ step' = "handOver"
    /\ UNCHANGED <<source, payload, next, converted, allocated, skipped, collected,
                   received, offered, packet>>

\* The callback gets the next packet.  Should it throw, the loop goes on.
HandPacket ==
    /\ step = "handOver" /\ Len(offered) < Len(converted)
    /\ offered' = Append(offered, converted[Len(offered) + 1])
    /\ UNCHANGED <<source, bufferVars, received, packet>>

AllHanded ==
    /\ step = "handOver" /\ Len(offered) = Len(converted)
    /\ step' = "collect"
    /\ UNCHANGED <<source, payload, next, converted, allocated, skipped, collected,
                   received, offered, packet>>

-----------------------------------------------------------------------------
\* WaveRing::acquire: one message.

ReturnCodes == {"GET_OK", "GET_MISS", "GET_MISS_LAPPED", "GET_MISS_SEQGAP",
                "GET_NOTRACK", "GET_TOOBIG"}

Logos == {"TYPE_TRACEBUF2", "other"}

\* A message is used only if nothing was wrong with reading it: of the messages
\* that were missed and the one that tells of them, none is.
CopyFrom ==
    /\ source = "ring" /\ received = Nothing
    /\ \E m \in Messages, code \in ReturnCodes, logo \in Logos :
          /\ received' = [code |-> code, logo |-> logo, message |-> m]
          /\ offered' = IF code = "GET_OK" /\ logo = "TYPE_TRACEBUF2"
                           /\ Refusal(m) = "none"
                        THEN <<PacketOfMessage(m)>> ELSE <<>>
    /\ UNCHANGED <<source, bufferVars, packet>>

\* The buffer is a new one in the next round.
ReadAgain ==
    /\ source = "ring" /\ received # Nothing
    /\ received' = Nothing
    /\ offered' = <<>>
    /\ UNCHANGED <<source, bufferVars, packet>>

-----------------------------------------------------------------------------
\* A caller of Packet.

SetSamplingRate == \E rate \in Rates :
    IsSamplingRate(rate) /\ packet' = setSamplingRate(packet, rate)

SetStartTime == \E time \in StartTimes : packet' = setStartTime(packet, time)

SetData == \E signal \in Signals : packet' = setData(packet, "Integer32", signal)

clear == packet' = NewPacket

UsePacket ==
    /\ source = "caller"
    /\ SetSamplingRate \/ SetStartTime \/ SetData \/ clear
    /\ UNCHANGED <<source, bufferVars, received, offered>>

-----------------------------------------------------------------------------
Next ==
    \/ Collect
    \/ ConvertRecord
    \/ SkipBuffer
    \/ EndOfBuffer
    \/ HandPacket
    \/ AllHanded
    \/ CopyFrom
    \/ ReadAgain
    \/ UsePacket

Spec == Init /\ [][Next]_vars

-----------------------------------------------------------------------------
\* Properties.

Packets ==
    [identifier   : Names \cup {<<>>},
     samplingRate : [num : Int, den : Nat \ {0}],
     startTime    : Int,
     endTime      : Int,
     dataType     : {"Integer32", "Integer64", "Float", "Double", "Unknown"},
     data         : Seq(Int)]

BufferTyped ==
    /\ step \in {"collect", "convert", "handOver"}
    /\ payload \in Payload
    /\ next \in Nat \ {0}
    /\ allocated \in Nat /\ skipped \in Nat /\ collected \in Nat

\* Every variable keeps to its type.
TypeOK ==
    /\ source \in {"miniSEED", "ring", "caller"}
    /\ BufferTyped
    /\ converted \in Seq(Packets)
    /\ offered \in Seq(Packets)
    /\ packet \in Packets

Convertible(buffer) ==
    /\ buffer.trailing = "short"
    /\ \A i \in DOMAIN buffer.records : Failure(buffer.records[i]) = "none"

\* The conversion throws out of the loop over the buffer: when the next buffer
\* is collected the callback has seen all packets of this one in their order,
\* or, if anything in it could not be converted, none.
WholeBufferOrNothing ==
    (collected > 0 /\ step = "collect") =>
        offered = IF Convertible(payload)
                  THEN [i \in DOMAIN payload.records |->
                           PacketOfRecord(payload.records[i])]
                  ELSE <<>>

\* libmseed allocates the records and the conversion frees them by hand.  It
\* forgets at most one for each buffer that it skips, so a server that sends
\* sound data does not make the program grow.
OnlySkippedBuffersLeak == allocated <= skipped

\* The time of the last sample is stored, not computed when it is asked for:
\* whatever order the setters are called in, it is never out of date.
EndTimeIsCurrent ==
    \A p \in {packet} \cup {offered[i] : i \in DOMAIN offered} :
        p.endTime = EndTime(p)

\* The packet tells of the recording: its stream, whichever way that was spelt,
\* the start within a microsecond, the samples, and an end that is as far from
\* the start as the samples say, to the nearest microsecond.
Faithful(recording, samples, p) ==
    /\ \A field \in {"network", "station", "channel"} :
          p.identifier[field] = Converted[recording.names[field]]
    /\ p.identifier.location \notin BlankCodes
    /\ 1000 * p.startTime - recording.start \in -999..999
    /\ p.data = samples
    /\ LET lasts == (p.endTime - p.startTime) * recording.rate.num
           spans == (Len(samples) - 1) * MicroSecondsPerSecond * recording.rate.den
       IN  samples # <<>> =>
              /\ 2 * (lasts - spans) <= recording.rate.num
              /\ 2 * (spans - lasts) <= recording.rate.num

\* A miniSEED record and a tracebuf2 message in either byte order make packets
\* that tell the same of a recording, although one is cut to microseconds and
\* the other rounded.
PacketsAreFaithful ==
    \A i \in DOMAIN offered :
        IF source = "miniSEED"
        THEN Faithful(payload.records[i], payload.records[i].samples, offered[i])
        ELSE LET m == received.message
             IN  Faithful(m, SubSeq(m.samples, 1, m.nsamp), offered[i])

\* Of the messages that are read without an error, none of integers and none of
\* four-byte floats is lost if it has samples, a sampling rate and a name.
SoundMessagesAreOffered ==
    (source = "ring" /\ received # Nothing) =>
        LET m == received.message IN
        (/\ received.code = "GET_OK" /\ received.logo = "TYPE_TRACEBUF2"
         /\ \/ m.format \in {"i", "s"} /\ m.size \in {"2", "4", "8"}
            \/ m.format \in {"f", "t"} /\ m.size = "4"
         /\ m.nsamp > 0 /\ m.rate.num > 0 /\ IsIdentifier(m.names))
        => Len(offered) = 1

\* traceBuf2.cpp:336 and 391 assert that a message is of integers or of floats
\* that were unpacked above, and have a branch for floats of eight bytes: no
\* message that the reader unpacks makes the assertion fail.
AssertionHolds ==
    (/\ source = "ring" /\ received # Nothing
     /\ received.code = "GET_OK" /\ received.logo = "TYPE_TRACEBUF2")
    => Refusal(received.message) # "assertion"

=============================================================================
