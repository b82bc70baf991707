------------------------ MODULE PacketConversionProofs ------------------------
(***************************************************************************)
(* Proofs about the conversion to packets, for all buffers, messages and   *)
(* calls of the setters.                                                   *)
(***************************************************************************)
EXTENDS PacketConversion, SequenceTheorems, TLAPS

Rate == [num : Int, den : Nat \ {0}]
DataTypes == {"Integer32", "Integer64", "Float", "Double", "Unknown"}

\* The stored time of the last sample is that time.
IsCurrent(p) == p.endTime = EndTime(p)

-----------------------------------------------------------------------------
\* The setters of Packet.

LEMMA RoundedIsInteger ==
  ASSUME NEW a \in Int, NEW b \in Int, b > 0
  PROVE  Rounded(a, b) \in Int
BY DEF Rounded

LEMMA TruncatedIsInteger ==
  ASSUME NEW a \in Int, NEW b \in Int, b > 0
  PROVE  Truncated(a, b) \in Int
BY DEF Truncated

LEMMA EndTimeIsInteger ==
  ASSUME NEW p \in Packets
  PROVE  EndTime(p) \in Int
<1>1. /\ p.startTime \in Int /\ p.samplingRate.num \in Int
      /\ p.samplingRate.den \in Int /\ Len(p.data) \in Int
  BY DEF Packets
<1>2. CASE IsSamplingRate(p.samplingRate)
  <2>1. (Len(p.data) - 1) * MicroSecondsPerSecond * p.samplingRate.den \in Int
    BY <1>1 DEF MicroSecondsPerSecond
  <2>2. Rounded((Len(p.data) - 1) * MicroSecondsPerSecond * p.samplingRate.den,
                p.samplingRate.num) \in Int
    BY <1>1, <1>2, <2>1, RoundedIsInteger DEF IsSamplingRate
  <2>3. QED
    BY <1>1, <2>2 DEF EndTime
<1>3. CASE ~IsSamplingRate(p.samplingRate)
  BY <1>1, <1>3 DEF EndTime
<1>4. QED
  BY <1>2, <1>3

\* updateEndTime is the last thing each setter does, and makes the time current.
LEMMA UpdateMakesCurrent ==
  ASSUME NEW p \in Packets
  PROVE  updateEndTime(p) \in Packets /\ IsCurrent(updateEndTime(p))
<1>1. EndTime(p) \in Int
  BY EndTimeIsInteger
<1> DEFINE q == updateEndTime(p)
<1>2. q \in Packets
  BY <1>1 DEF updateEndTime, Packets
<1>3. /\ q.endTime = EndTime(p) /\ q.startTime = p.startTime
      /\ q.data = p.data /\ q.samplingRate = p.samplingRate
  BY DEF updateEndTime, Packets
<1>4. EndTime(q) = EndTime(p)
  BY <1>3 DEF EndTime
<1>5. QED
  BY <1>2, <1>3, <1>4 DEF IsCurrent

LEMMA NewPacketIsCurrent == NewPacket \in Packets /\ IsCurrent(NewPacket)
<1>1. NewPacket \in Packets
  BY DEF NewPacket, Packets
<1>2. EndTime(NewPacket) = 0
  BY DEF EndTime, NewPacket
<1>3. QED
  BY <1>1, <1>2 DEF IsCurrent, NewPacket

LEMMA SettersMakeCurrent ==
  ASSUME NEW p \in Packets
  PROVE  /\ \A rate \in Rate :
               setSamplingRate(p, rate) \in Packets /\ IsCurrent(setSamplingRate(p, rate))
         /\ \A time \in Int :
               setStartTime(p, time) \in Packets /\ IsCurrent(setStartTime(p, time))
         /\ \A type \in DataTypes : \A data \in Seq(Int) :
               /\ setData(p, type, data) \in Packets
               /\ IsCurrent(setData(p, type, data))
<1>1. ASSUME NEW rate \in Rate
      PROVE  setSamplingRate(p, rate) \in Packets /\ IsCurrent(setSamplingRate(p, rate))
  <2>1. [p EXCEPT !.samplingRate = rate] \in Packets
    BY DEF Packets, Rate
  <2>2. QED
    BY <2>1, UpdateMakesCurrent DEF setSamplingRate
<1>2. ASSUME NEW time \in Int
      PROVE  setStartTime(p, time) \in Packets /\ IsCurrent(setStartTime(p, time))
  <2>1. [p EXCEPT !.startTime = time] \in Packets
    BY DEF Packets
  <2>2. QED
    BY <2>1, UpdateMakesCurrent DEF setStartTime
<1>3. ASSUME NEW type \in DataTypes, NEW data \in Seq(Int)
      PROVE  /\ setData(p, type, data) \in Packets
             /\ IsCurrent(setData(p, type, data))
  <2>1. [p EXCEPT !.data = data, !.dataType = type] \in Packets
    BY DEF Packets, DataTypes
  <2>2. QED
    BY <2>1, UpdateMakesCurrent DEF setData
<1>4. QED
  BY <1>1, <1>2, <1>3

\* Both conversions end with setData, so their packets are current.
LEMMA ConvertedIsCurrent ==
  ASSUME NEW names \in Names, NEW rate \in Rate, NEW time \in Int,
         NEW type \in DataTypes, NEW data \in Seq(Int)
  PROVE  /\ PacketOf(names, rate, time, type, data) \in Packets
         /\ IsCurrent(PacketOf(names, rate, time, type, data))
<1>1. Identifier(names) \in Names
  BY CodesAssumption DEF Identifier, Names
<1>2. setStreamIdentifier(NewPacket, Identifier(names)) \in Packets
  BY <1>1, NewPacketIsCurrent DEF setStreamIdentifier, Packets
<1>3. QED
  BY <1>2, SettersMakeCurrent DEF PacketOf

-----------------------------------------------------------------------------
\* The two conversions.

LEMMA RecordGivesPacket ==
  ASSUME NEW r \in Record
  PROVE  PacketOfRecord(r) \in Packets /\ IsCurrent(PacketOfRecord(r))
<1>1. /\ r.names \in Names /\ r.rate \in Rate /\ r.start \in Int
      /\ r.samples \in Seq(Int)
  BY DEF Record, Rate
<1>2. Truncated(r.start, 1000) \in Int
  BY <1>1 DEF Truncated
<1>3. SampleType(r) \in DataTypes
  BY DEF SampleType, DataTypes
<1>4. QED
  BY <1>1, <1>2, <1>3, ConvertedIsCurrent DEF PacketOfRecord

\* Of a sender who keeps to the convention every number is read as it was sent.
LEMMA UnpackedAsSent ==
  ASSUME NEW m \in Messages, NEW number \in Int
  PROVE  unpack(number, m) = number
<1>1. m \in Message /\ FollowsConvention(m)
  BY InputsAssumption
<1>2. QED
  BY <1>1 DEF unpack, Swaps, FollowsConvention, Message

LEMMA MessageTyped ==
  ASSUME NEW m \in Messages
  PROVE  /\ m \in Message
         /\ m.names \in Names /\ m.rate \in Rate /\ m.start \in Int
         /\ m.nsamp \in Int /\ m.samples \in Seq(Int) /\ m.nsamp <= Len(m.samples)
BY InputsAssumption DEF Message, FollowsConvention, Rate

LEMMA MessageGivesPacket ==
  ASSUME NEW m \in Messages, Refusal(m) = "none"
  PROVE  PacketOfMessage(m) \in Packets /\ IsCurrent(PacketOfMessage(m))
<1>1. /\ m \in Message
      /\ m.names \in Names /\ m.rate \in Rate /\ m.start \in Int
      /\ m.nsamp \in Int /\ m.samples \in Seq(Int) /\ m.nsamp <= Len(m.samples)
  BY MessageTyped
<1>2. UnpackedRate(m) \in Rate
  <2>1. m.rate.num \in Int /\ m.rate.den \in Nat \ {0}
    BY <1>1 DEF Rate
  <2>2. unpack(m.rate.num, m) = m.rate.num
    BY <2>1, UnpackedAsSent
  <2>3. QED
    BY <2>1, <2>2 DEF UnpackedRate, Rate
<1>3. Rounded(unpack(m.start, m), 1000) \in Int
  BY <1>1, UnpackedAsSent DEF Rounded
<1>4. PacketType(m) \in DataTypes
  BY DEF PacketType, DataTypes
<1>5. UnpackedSamples(m) \in Seq(Int)
  <2>1. unpack(m.nsamp, m) = m.nsamp
    BY <1>1, UnpackedAsSent
  <2>2. m.nsamp \in Nat
    BY <1>1, <2>1 DEF Refusal
  <2>3. \A i \in 1..m.nsamp : unpack(m.samples[i], m) \in Int
    BY <1>1, <2>2 DEF unpack, Garbled
  <2>4. QED
    BY <2>1, <2>2, <2>3 DEF UnpackedSamples
<1>6. QED
  BY <1>1, <1>2, <1>3, <1>4, <1>5, ConvertedIsCurrent DEF PacketOfMessage

\* A sound message passes every check of the unpacking.
LEMMA SoundMessageIsNotRefused ==
  ASSUME NEW m \in Messages,
         \/ m.format \in {"i", "s"} /\ m.size \in {"2", "4", "8"}
         \/ m.format \in {"f", "t"} /\ m.size = "4",
         m.nsamp > 0, m.rate.num > 0, IsIdentifier(m.names)
  PROVE  Refusal(m) = "none"
<1>1. m.rate.num \in Int /\ m.nsamp \in Int
  BY MessageTyped DEF Rate
<1>2. unpack(m.rate.num, m) = m.rate.num /\ unpack(m.nsamp, m) = m.nsamp
  BY <1>1, UnpackedAsSent
<1>3. IsSamplingRate(UnpackedRate(m))
  BY <1>2 DEF IsSamplingRate, UnpackedRate
<1>4. QED
  BY <1>1, <1>2, <1>3 DEF Refusal, IsFloat

-----------------------------------------------------------------------------
\* Types, and the end times: every packet anyone holds is current.

AllCurrent ==
    /\ \A i \in DOMAIN converted : IsCurrent(converted[i])
    /\ \A i \in DOMAIN offered : IsCurrent(offered[i])
    /\ IsCurrent(packet)

LEMMA AppendKeepsCurrent ==
  ASSUME NEW s \in Seq(Packets), NEW p \in Packets, IsCurrent(p),
         \A i \in DOMAIN s : IsCurrent(s[i])
  PROVE  /\ Append(s, p) \in Seq(Packets)
         /\ \A i \in DOMAIN Append(s, p) : IsCurrent(Append(s, p)[i])
<1>1. Append(s, p) \in Seq(Packets) /\ DOMAIN Append(s, p) = 1..(Len(s) + 1)
  BY AppendProperties
<1>2. ASSUME NEW i \in 1..(Len(s) + 1)
      PROVE  IsCurrent(Append(s, p)[i])
  <2>1. CASE i = Len(s) + 1
    BY <2>1, AppendProperties
  <2>2. CASE i # Len(s) + 1
    <3>1. i \in 1..Len(s)
      BY <2>2, LenProperties
    <3>2. Append(s, p)[i] = s[i] /\ i \in DOMAIN s
      BY <3>1, AppendProperties, LenProperties
    <3>3. QED
      BY <3>2
  <2>3. QED
    BY <2>1, <2>2
<1>3. QED
  BY <1>1, <1>2

LEMMA StepKeepsTypes ==
  TypeOK /\ AllCurrent /\ [Next]_vars => (TypeOK /\ AllCurrent)'
<1> SUFFICES ASSUME TypeOK, AllCurrent, [Next]_vars
             PROVE  (TypeOK /\ AllCurrent)'
  OBVIOUS
<1> USE DEF TypeOK, AllCurrent, BufferTyped
<1>1. CASE Collect
  <2>1. payload' \in Payload
    BY <1>1, InputsAssumption DEF Collect
  <2>2. QED
    BY <1>1, <2>1 DEF Collect
<1>2. CASE ConvertRecord
  <2> DEFINE r == payload.records[next]
  <2>1. r \in Record
    BY <1>2 DEF ConvertRecord, AtRecord, Payload
  <2>2. PacketOfRecord(r) \in Packets /\ IsCurrent(PacketOfRecord(r))
    BY <2>1, RecordGivesPacket
  <2>3. /\ Append(converted, PacketOfRecord(r)) \in Seq(Packets)
        /\ \A i \in DOMAIN Append(converted, PacketOfRecord(r)) :
              IsCurrent(Append(converted, PacketOfRecord(r))[i])
    BY <2>2, AppendKeepsCurrent
  <2>4. /\ converted' = Append(converted, PacketOfRecord(r)) /\ next' = next + 1
        /\ UNCHANGED <<source, step, payload, allocated, skipped, collected,
                       offered, packet>>
    BY <1>2 DEF ConvertRecord
  <2>5. IsCurrent(packet)' /\ \A i \in DOMAIN offered' : IsCurrent(offered'[i])
    BY <2>4
  <2>6. \A i \in DOMAIN converted' : IsCurrent(converted'[i])
    BY <2>3, <2>4
  <2> HIDE DEF r
  <2>7. TypeOK'
    BY <2>3, <2>4
  <2>8. QED
    BY <2>5, <2>6, <2>7
<1>3. CASE SkipBuffer
  BY <1>3 DEF SkipBuffer
<1>4. CASE EndOfBuffer
  BY <1>4 DEF EndOfBuffer
<1>5. CASE HandPacket
  <2> DEFINE p == converted[Len(offered) + 1]
  <2>1. p \in Packets /\ IsCurrent(p)
    BY <1>5, LenProperties DEF HandPacket
  <2>2. /\ Append(offered, p) \in Seq(Packets)
        /\ \A i \in DOMAIN Append(offered, p) : IsCurrent(Append(offered, p)[i])
    BY <2>1, AppendKeepsCurrent
  <2>3. /\ offered' = Append(offered, p)
        /\ UNCHANGED <<source, step, payload, next, converted, allocated, skipped,
                       collected, packet>>
    BY <1>5 DEF HandPacket, bufferVars
  <2>4. IsCurrent(packet)' /\ \A i \in DOMAIN converted' : IsCurrent(converted'[i])
    BY <2>3
  <2>5. \A i \in DOMAIN offered' : IsCurrent(offered'[i])
    BY <2>2, <2>3
  <2> HIDE DEF p
  <2>6. TypeOK'
    BY <2>2, <2>3
  <2>7. QED
    BY <2>4, <2>5, <2>6
<1>6. CASE AllHanded
  BY <1>6 DEF AllHanded
<1>7. CASE CopyFrom
  <2>1. /\ UNCHANGED <<source, step, payload, next, converted, allocated, skipped,
                       collected, packet>>
        /\ \E m \in Messages :
              \/ offered' = <<PacketOfMessage(m)>> /\ Refusal(m) = "none"
              \/ offered' = <<>>
    BY <1>7 DEF CopyFrom, bufferVars
  <2>2. offered' \in Seq(Packets) /\ \A i \in DOMAIN offered' : IsCurrent(offered'[i])
    <3>1. CASE offered' = <<>>
      BY <3>1
    <3>2. CASE offered' # <<>>
      <4>1. PICK m \in Messages : /\ offered' = <<PacketOfMessage(m)>>
                                  /\ Refusal(m) = "none"
        BY <2>1, <3>2
      <4>2. PacketOfMessage(m) \in Packets /\ IsCurrent(PacketOfMessage(m))
        BY <4>1, MessageGivesPacket
      <4>3. QED
        BY <4>1, <4>2
    <3>3. QED
      BY <3>1, <3>2
  <2>3. IsCurrent(packet)' /\ \A i \in DOMAIN converted' : IsCurrent(converted'[i])
    BY <2>1
  <2>4. TypeOK'
    BY <2>1, <2>2
  <2>5. QED
    BY <2>2, <2>3, <2>4
<1>8. CASE ReadAgain
  BY <1>8 DEF ReadAgain, bufferVars
<1>9. CASE UsePacket
  <2>1. UNCHANGED <<source, step, payload, next, converted, allocated, skipped,
                    collected, offered>>
    BY <1>9 DEF UsePacket, bufferVars
  <2>2. packet' \in Packets /\ IsCurrent(packet')
    <3>1. CASE SetSamplingRate
      BY <3>1, SettersMakeCurrent, InputsAssumption DEF SetSamplingRate, Rate
    <3>2. CASE SetStartTime
      BY <3>2, SettersMakeCurrent, InputsAssumption DEF SetStartTime
    <3>3. CASE SetData
      BY <3>3, SettersMakeCurrent, InputsAssumption DEF SetData, DataTypes
    <3>4. CASE clear
      BY <3>4, NewPacketIsCurrent DEF clear
    <3>5. QED
      BY <1>9, <3>1, <3>2, <3>3, <3>4 DEF UsePacket
  <2>3. QED
    BY <2>1, <2>2
<1>10. CASE UNCHANGED vars
  BY <1>10 DEF vars, bufferVars
<1>11. QED
  BY <1>1, <1>2, <1>3, <1>4, <1>5, <1>6, <1>7, <1>8, <1>9, <1>10 DEF Next

\* Whatever is converted, sent or set, the stored end time of a packet is the
\* time of its last sample.
THEOREM EndTimesAreCurrent == Spec => [](TypeOK /\ EndTimeIsCurrent)
<1>1. Init => TypeOK /\ AllCurrent
  BY NewPacketIsCurrent DEF Init, TypeOK, AllCurrent, BufferTyped, Payload
<1>2. TypeOK /\ AllCurrent => EndTimeIsCurrent
  BY DEF AllCurrent, EndTimeIsCurrent, IsCurrent
<1>3. QED
  BY <1>1, <1>2, StepKeepsTypes, PTL DEF Spec

-----------------------------------------------------------------------------
\* Buffers.

\* Buffers are the SEEDLink client's, and only a reader of the ring has anything
\* to hand over without one.
Unconverted ==
    /\ source # "miniSEED" => step = "collect" /\ collected = 0
    /\ collected = 0 => /\ step = "collect"
                        /\ source # "ring" => offered = <<>>

\* The loop over the records has converted those before the next one.
Converting ==
    step = "convert" =>
        /\ offered = <<>>
        /\ next <= Len(payload.records) + 1
        /\ Len(converted) = next - 1
        /\ \A i \in 1..(next - 1) :
              /\ Failure(payload.records[i]) = "none"
              /\ converted[i] = PacketOfRecord(payload.records[i])

\* The loop over the packets has handed over the first of them.
Handing ==
    step = "handOver" =>
        /\ Convertible(payload)
        /\ Len(converted) = Len(payload.records)
        /\ \A i \in 1..Len(converted) :
              converted[i] = PacketOfRecord(payload.records[i])
        /\ Len(offered) <= Len(converted)
        /\ \A i \in 1..Len(offered) : offered[i] = converted[i]

Buffers ==
    /\ Unconverted
    /\ Converting
    /\ Handing
    /\ WholeBufferOrNothing
    /\ OnlySkippedBuffersLeak

LEMMA StepKeepsBuffers ==
  TypeOK /\ Buffers /\ [Next]_vars => Buffers'
<1> SUFFICES ASSUME TypeOK, Buffers, [Next]_vars
             PROVE  Buffers'
  OBVIOUS
<1>t. /\ converted \in Seq(Packets) /\ offered \in Seq(Packets)
      /\ payload \in Payload /\ payload.records \in Seq(Record)
      /\ next \in Nat \ {0} /\ allocated \in Nat /\ skipped \in Nat
      /\ collected \in Nat
  BY DEF TypeOK, BufferTyped, Payload
<1>1. CASE Collect
  <2>1. /\ source = "miniSEED" /\ source' = source /\ step' = "convert" /\ next' = 1
        /\ converted' = <<>> /\ offered' = <<>> /\ allocated' = allocated
        /\ skipped' = skipped /\ payload' \in Payload
        /\ collected' = collected + 1
    BY <1>1, InputsAssumption DEF Collect
  <2>2. Converting'
    BY <2>1 DEF Converting, Payload
  <2>3. QED
    BY <1>t, <2>1, <2>2 DEF Buffers, Unconverted, Handing, WholeBufferOrNothing,
                            OnlySkippedBuffersLeak
<1>2. CASE ConvertRecord
  <2> DEFINE r == payload.records[next]
             p == PacketOfRecord(r)
  <2>1. /\ step = "convert" /\ next <= Len(payload.records)
        /\ Failure(r) = "none" /\ converted' = Append(converted, p)
        /\ next' = next + 1
        /\ UNCHANGED <<source, step, payload, allocated, skipped, collected, offered>>
    BY <1>2 DEF ConvertRecord, AtRecord
  <2>2. /\ offered = <<>> /\ Len(converted) = next - 1
        /\ \A i \in 1..(next - 1) :
              /\ Failure(payload.records[i]) = "none"
              /\ converted[i] = PacketOfRecord(payload.records[i])
    BY <2>1 DEF Buffers, Converting
  <2>3. p \in Packets
    <3>1. r \in Record
      BY <1>t, <2>1
    <3>2. QED
      BY <3>1, RecordGivesPacket
  <2>4. /\ Len(converted') = next
        /\ converted'[next] = p
        /\ \A i \in 1..(next - 1) : converted'[i] = converted[i]
    BY <1>t, <2>1, <2>2, <2>3, AppendProperties
  <2>5. ASSUME NEW i \in 1..next
        PROVE  /\ Failure(payload.records[i]) = "none"
               /\ converted'[i] = PacketOfRecord(payload.records[i])
    <3>1. CASE i = next
      BY <2>1, <2>4, <3>1
    <3>2. CASE i # next
      <4>1. i \in 1..(next - 1)
        BY <1>t, <3>2
      <4>2. QED
        BY <2>2, <2>4, <4>1
    <3>3. QED
      BY <3>1, <3>2
  <2> HIDE DEF r, p
  <2>6. next' - 1 = next /\ next' <= Len(payload.records) + 1
    BY <1>t, <2>1
  <2>7. Converting'
    BY <2>1, <2>2, <2>4, <2>5, <2>6 DEF Converting
  <2>8. QED
    BY <2>1, <2>7 DEF Buffers, Unconverted, Handing, WholeBufferOrNothing,
                      OnlySkippedBuffersLeak
<1>3. CASE SkipBuffer
  <2>1. /\ step = "convert" /\ step' = "collect" /\ skipped' = skipped + 1
        /\ allocated' \in {allocated, allocated + 1}
        /\ UNCHANGED <<source, payload, next, converted, collected, offered>>
        /\ IF next <= Len(payload.records)
           THEN Failure(payload.records[next]) # "none"
           ELSE payload.trailing = "long"
    BY <1>3 DEF SkipBuffer, AtRecord
  <2>2. ~Convertible(payload)
    BY <1>t, <2>1 DEF Convertible
  <2>3. WholeBufferOrNothing'
    BY <2>1, <2>2 DEF Buffers, Converting, WholeBufferOrNothing, Convertible
  <2>4. OnlySkippedBuffersLeak'
    BY <1>t, <2>1 DEF Buffers, OnlySkippedBuffersLeak
  <2>5. Unconverted'
    BY <2>1 DEF Buffers, Unconverted
  <2>6. QED
    BY <2>1, <2>3, <2>4, <2>5 DEF Buffers, Converting, Handing
<1>4. CASE EndOfBuffer
  <2>1. /\ step = "convert" /\ step' = "handOver"
        /\ ~(next <= Len(payload.records)) /\ payload.trailing = "short"
        /\ UNCHANGED <<source, payload, next, converted, allocated, skipped,
                       collected, offered>>
    BY <1>4 DEF EndOfBuffer, AtRecord
  <2>2. /\ offered = <<>> /\ next - 1 = Len(payload.records)
        /\ Len(converted) = next - 1
        /\ \A i \in 1..(next - 1) :
              /\ Failure(payload.records[i]) = "none"
              /\ converted[i] = PacketOfRecord(payload.records[i])
    BY <1>t, <2>1 DEF Buffers, Converting
  <2>3. Convertible(payload)
    <3>1. DOMAIN payload.records = 1..(next - 1)
      BY <1>t, <2>2, LenProperties
    <3>2. QED
      BY <2>1, <2>2, <3>1 DEF Convertible
  <2>4. Handing'
    BY <1>t, <2>1, <2>2, <2>3 DEF Handing, Convertible
  <2>5. QED
    BY <2>1, <2>4 DEF Buffers, Unconverted, Converting, WholeBufferOrNothing,
                      OnlySkippedBuffersLeak
<1>5. CASE HandPacket
  <2> DEFINE p == converted[Len(offered) + 1]
  <2>1. /\ step = "handOver" /\ Len(offered) < Len(converted)
        /\ offered' = Append(offered, p)
        /\ UNCHANGED <<source, step, payload, next, converted, allocated, skipped,
                       collected>>
    BY <1>5 DEF HandPacket, bufferVars
  <2>2. p \in Packets /\ Len(offered) \in Nat /\ Len(converted) \in Nat
    BY <1>t, <2>1, LenProperties
  <2>3. /\ Len(offered') = Len(offered) + 1
        /\ offered'[Len(offered) + 1] = p
        /\ \A i \in 1..Len(offered) : offered'[i] = offered[i]
    BY <1>t, <2>1, <2>2, AppendProperties
  <2>4. \A i \in 1..(Len(offered) + 1) : offered'[i] = converted[i]
    BY <2>1, <2>2, <2>3 DEF Buffers, Handing
  <2> HIDE DEF p
  <2>5. Handing'
    BY <2>1, <2>2, <2>3, <2>4 DEF Buffers, Handing, Convertible
  <2>6. QED
    BY <2>1, <2>5 DEF Buffers, Unconverted, Converting, WholeBufferOrNothing,
                      OnlySkippedBuffersLeak
<1>6. CASE AllHanded
  <2>1. /\ step = "handOver" /\ Len(offered) = Len(converted) /\ step' = "collect"
        /\ UNCHANGED <<source, payload, next, converted, allocated, skipped,
                       collected, offered>>
    BY <1>6 DEF AllHanded
  <2>2. /\ Convertible(payload) /\ Len(offered) = Len(payload.records)
        /\ \A i \in 1..Len(offered) : offered[i] = PacketOfRecord(payload.records[i])
    BY <2>1 DEF Buffers, Handing
  <2>3. offered = [i \in DOMAIN payload.records |-> PacketOfRecord(payload.records[i])]
    <3>1. /\ DOMAIN offered = 1..Len(offered)
          /\ DOMAIN payload.records = 1..Len(payload.records)
          /\ offered = [i \in DOMAIN offered |-> offered[i]]
      BY <1>t, LenProperties
    <3>2. QED
      BY <2>2, <3>1
  <2>4. WholeBufferOrNothing'
    BY <2>1, <2>2, <2>3 DEF WholeBufferOrNothing, Convertible
  <2>5. QED
    BY <2>1, <2>4 DEF Buffers, Unconverted, Converting, Handing,
                      OnlySkippedBuffersLeak
<1>7. CASE CopyFrom \/ ReadAgain
  <2>1. /\ source = "ring"
        /\ UNCHANGED <<source, step, payload, next, converted, allocated, skipped,
                       collected>>
    BY <1>7 DEF CopyFrom, ReadAgain, bufferVars
  <2>2. step = "collect" /\ collected = 0
    BY <2>1 DEF Buffers, Unconverted
  <2>3. QED
    BY <2>1, <2>2 DEF Buffers, Unconverted, Converting, Handing,
                      WholeBufferOrNothing, OnlySkippedBuffersLeak
<1>8. CASE UsePacket \/ UNCHANGED vars
  <2>1. UNCHANGED <<source, step, payload, next, converted, allocated, skipped,
                    collected, offered>>
    BY <1>8 DEF UsePacket, vars, bufferVars
  <2>2. QED
    BY <2>1 DEF Buffers, Unconverted, Converting, Handing, WholeBufferOrNothing,
                OnlySkippedBuffersLeak, Convertible
<1>9. QED
  BY <1>1, <1>2, <1>3, <1>4, <1>5, <1>6, <1>7, <1>8 DEF Next

LEMMA AlwaysBuffers == Spec => []Buffers
<1>1. Init => Buffers
  BY DEF Init, Buffers, Unconverted, Converting, Handing, WholeBufferOrNothing,
         OnlySkippedBuffersLeak
<1>2. QED
  BY <1>1, StepKeepsBuffers, EndTimesAreCurrent, PTL DEF Spec

\* In every reachable state the callback has seen all packets of the buffer that
\* was handled last, in their order, or none.
THEOREM BuffersAreWhole == Spec => []WholeBufferOrNothing
<1>1. Buffers => WholeBufferOrNothing
  BY DEF Buffers
<1>2. QED
  BY <1>1, AlwaysBuffers, PTL

\* In every reachable state no more records are forgotten than buffers skipped.
THEOREM SkippedBuffersLeak == Spec => []OnlySkippedBuffersLeak
<1>1. Buffers => OnlySkippedBuffersLeak
  BY DEF Buffers
<1>2. QED
  BY <1>1, AlwaysBuffers, PTL

-----------------------------------------------------------------------------
\* Messages.

\* The callback has what the message that was read last gave.
Handled ==
    source = "ring" =>
        /\ step = "collect"
        /\ received = Nothing => offered = <<>>
        /\ received # Nothing =>
              /\ received.message \in Messages
              /\ offered = IF received.code = "GET_OK"
                              /\ received.logo = "TYPE_TRACEBUF2"
                              /\ Refusal(received.message) = "none"
                           THEN <<PacketOfMessage(received.message)>> ELSE <<>>

LEMMA StepKeepsHandled == Handled /\ [Next]_vars => Handled'
<1> SUFFICES ASSUME Handled, [Next]_vars
             PROVE  Handled'
  OBVIOUS
<1>1. CASE CopyFrom
  <2>1. PICK m \in Messages, code \in ReturnCodes, logo \in Logos :
          /\ received' = [code |-> code, logo |-> logo, message |-> m]
          /\ offered' = IF code = "GET_OK" /\ logo = "TYPE_TRACEBUF2"
                           /\ Refusal(m) = "none"
                        THEN <<PacketOfMessage(m)>> ELSE <<>>
    BY <1>1 DEF CopyFrom
  <2>2. /\ received'.code = code /\ received'.logo = logo /\ received'.message = m
    BY <2>1
  <2>3. received' # Nothing
    <3>1. DOMAIN received' # DOMAIN Nothing
      BY <2>1 DEF Nothing
    <3>2. QED
      BY <3>1
  <2>4. source = "ring" /\ source' = source /\ step' = step
    BY <1>1 DEF CopyFrom, bufferVars
  <2>5. QED
    BY <2>1, <2>2, <2>3, <2>4 DEF Handled
<1>2. CASE ReadAgain
  BY <1>2 DEF ReadAgain, bufferVars, Handled
<1>3. CASE Collect \/ ConvertRecord \/ SkipBuffer \/ EndOfBuffer \/ HandPacket \/ AllHanded
  <2>1. source # "ring" /\ source' = source
    BY <1>3 DEF Collect, ConvertRecord, SkipBuffer, EndOfBuffer, HandPacket,
                AllHanded, Handled
  <2>2. QED
    BY <2>1 DEF Handled
<1>4. CASE UsePacket \/ UNCHANGED vars
  BY <1>4 DEF UsePacket, vars, bufferVars, Handled
<1>5. QED
  BY <1>1, <1>2, <1>3, <1>4 DEF Next

\* No sound message that is read without an error is lost.
THEOREM SoundMessagesGetThrough == Spec => []SoundMessagesAreOffered
<1>1. Init => Handled
  BY DEF Init, Handled
<1>2. Handled => SoundMessagesAreOffered
  <2> SUFFICES ASSUME Handled, source = "ring", received # Nothing,
                      received.code = "GET_OK", received.logo = "TYPE_TRACEBUF2",
                      NEW m, m = received.message,
                      \/ m.format \in {"i", "s"} /\ m.size \in {"2", "4", "8"}
                      \/ m.format \in {"f", "t"} /\ m.size = "4",
                      m.nsamp > 0, m.rate.num > 0, IsIdentifier(m.names)
               PROVE  Len(offered) = 1
    BY DEF SoundMessagesAreOffered
  <2>1. Refusal(m) = "none"
    BY SoundMessageIsNotRefused DEF Handled
  <2>2. offered = <<PacketOfMessage(m)>>
    BY <2>1 DEF Handled
  <2>3. QED
    BY <2>2
<1>3. QED
  BY <1>1, <1>2, StepKeepsHandled, PTL DEF Spec

-----------------------------------------------------------------------------
\* What packets tell of the recording.

LEMMA RoundingIsNear ==
  ASSUME NEW a \in Int, NEW b \in Int, b > 0
  PROVE  /\ 2 * (Rounded(a, b) * b - a) <= b
         /\ 2 * (a - Rounded(a, b) * b) <= b
<1> DEFINE up == (2 * a + b) \div (2 * b)
           down == (b - 2 * a) \div (2 * b)
<1>1. /\ up \in Int /\ (2 * b) * up <= 2 * a + b
      /\ 2 * a + b < (2 * b) * up + 2 * b
  OBVIOUS
<1>2. /\ down \in Int /\ (2 * b) * down <= b - 2 * a
      /\ b - 2 * a < (2 * b) * down + 2 * b
  OBVIOUS
<1>3. CASE a >= 0
  <2>1. Rounded(a, b) = up
    BY <1>3 DEF Rounded
  <2> HIDE DEF up
  <2>2. (2 * b) * up = 2 * (up * b)
    BY <1>1
  <2>3. QED
    BY <1>1, <2>1, <2>2
<1>4. CASE ~(a >= 0)
  <2>1. Rounded(a, b) = -down
    BY <1>4 DEF Rounded
  <2> HIDE DEF down
  <2>2. (2 * b) * down = 2 * (down * b) /\ (-down) * b = -(down * b)
    BY <1>2
  <2>3. QED
    BY <1>2, <2>1, <2>2
<1>5. QED
  BY <1>3, <1>4

\* The calls of a conversion reach the packet unchanged.
LEMMA PacketHasParts ==
  ASSUME NEW names \in Names, NEW rate \in Rate, NEW time \in Int,
         NEW type \in DataTypes, NEW data \in Seq(Int), NEW p,
         p = PacketOf(names, rate, time, type, data)
  PROVE  /\ p.identifier = Identifier(names) /\ p.samplingRate = rate
         /\ p.startTime = time /\ p.data = data
<1> DEFINE p1 == setStreamIdentifier(NewPacket, Identifier(names))
           p2 == setSamplingRate(p1, rate)
           p3 == setStartTime(p2, time)
           p4 == setData(p3, type, data)
<1>1. Identifier(names) \in Names
  BY CodesAssumption DEF Identifier, Names
<1>2. /\ p1 \in Packets /\ p1.identifier = Identifier(names) /\ p1.data = <<>>
  BY <1>1, NewPacketIsCurrent DEF setStreamIdentifier, Packets, NewPacket
<1> HIDE DEF p1
<1>3. /\ p2 \in Packets /\ p2.identifier = Identifier(names) /\ p2.data = <<>>
      /\ p2.samplingRate = rate
  BY <1>2, SettersMakeCurrent DEF setSamplingRate, updateEndTime, Packets
<1> HIDE DEF p2
<1>4. /\ p3 \in Packets /\ p3.identifier = Identifier(names) /\ p3.data = <<>>
      /\ p3.samplingRate = rate /\ p3.startTime = time
  BY <1>3, SettersMakeCurrent DEF setStartTime, updateEndTime, Packets
<1> HIDE DEF p3
<1>5. /\ p4.identifier = Identifier(names) /\ p4.samplingRate = rate
      /\ p4.startTime = time /\ p4.data = data
  BY <1>4, SettersMakeCurrent DEF setData, updateEndTime, Packets
<1>6. PacketOf(names, rate, time, type, data) = p4
  BY DEF PacketOf, p1, p2, p3
<1>7. QED
  BY <1>5, <1>6

\* A time in microseconds that is less than one off a time in nanoseconds.
IsNear(time, start) == 1000 * time - start \in -999..999

\* Both ways to microseconds are less than one off.
LEMMA MicroSecondIsNear ==
  ASSUME NEW time \in Int
  PROVE  /\ Truncated(time, 1000) \in Int /\ IsNear(Truncated(time, 1000), time)
         /\ Rounded(time, 1000) \in Int /\ IsNear(Rounded(time, 1000), time)
<1>1. ASSUME NEW t \in Int
      PROVE  t \div 1000 \in Int /\ 1000 * (t \div 1000) - t \in -999..0
  OBVIOUS
<1>2. ASSUME NEW t \in Int
      PROVE  /\ (2 * t + 1000) \div 2000 \in Int
             /\ 1000 * ((2 * t + 1000) \div 2000) - t \in -999..999
  OBVIOUS
<1>3. Truncated(time, 1000) \in Int /\ IsNear(Truncated(time, 1000), time)
  <2>1. CASE time >= 0
    BY <1>1, <2>1 DEF Truncated, IsNear
  <2>2. CASE ~(time >= 0)
    <3>1. PICK t \in Int : t = -time
      OBVIOUS
    <3>2. PICK u \in Int : u = t \div 1000
      BY <1>1
    <3>3. Truncated(time, 1000) = -u
      BY <2>2, <3>1, <3>2 DEF Truncated
    <3>4. 1000 * u - t \in -999..0
      BY <1>1, <3>2
    <3>5. QED
      BY SMTT(30), <3>1, <3>3, <3>4 DEF IsNear
  <2>3. QED
    BY <2>1, <2>2
<1>4. Rounded(time, 1000) \in Int /\ IsNear(Rounded(time, 1000), time)
  <2>1. CASE time >= 0
    BY <1>2, <2>1 DEF Rounded, IsNear
  <2>2. CASE ~(time >= 0)
    <3>1. PICK t \in Int : t = -time
      OBVIOUS
    <3>2. PICK u \in Int : u = (2 * t + 1000) \div 2000
      BY <1>2
    <3>3. Rounded(time, 1000) = -u
      BY <2>2, <3>1, <3>2 DEF Rounded
    <3>4. 1000 * u - t \in -999..999
      BY <1>2, <3>2
    <3>5. QED
      BY SMTT(30), <3>1, <3>3, <3>4 DEF IsNear
  <2>3. QED
    BY <2>1, <2>2
<1>5. QED
  BY <1>3, <1>4

\* A packet made with a start within a microsecond is faithful.
LEMMA ConversionIsFaithful ==
  ASSUME NEW recording, NEW time \in Int, NEW type \in DataTypes,
         NEW samples \in Seq(Int), NEW p,
         p = PacketOf(recording.names, recording.rate, time, type, samples),
         recording.names \in Names, recording.rate \in Rate,
         IsSamplingRate(recording.rate),
         IsNear(time, recording.start)
  PROVE  Faithful(recording, samples, p)
<1>1. /\ p.identifier = Identifier(recording.names)
      /\ p.samplingRate = recording.rate /\ p.startTime = time /\ p.data = samples
  BY PacketHasParts
<1>2. p.endTime = EndTime(p)
  BY ConvertedIsCurrent DEF IsCurrent
<1>3. /\ \A field \in {"network", "station", "channel"} :
            p.identifier[field] = Converted[recording.names[field]]
      /\ p.identifier.location \notin BlankCodes
  <2>1. recording.names.location \in Codes
    BY DEF Names
  <2>2. p.identifier.location =
            IF recording.names.location \in BlankCodes THEN NoLocation
            ELSE Converted[recording.names.location]
    BY <1>1 DEF Identifier
  <2>3. p.identifier.location \notin BlankCodes
    <3>1. CASE recording.names.location \in BlankCodes
      BY <2>2, <3>1, CodesAssumption
    <3>2. CASE recording.names.location \notin BlankCodes
      BY <2>1, <2>2, <3>2, CodesAssumption
    <3>3. QED
      BY <3>1, <3>2
  <2>4. QED
    BY <1>1, <2>3 DEF Identifier
<1>4. ASSUME samples # <<>>
      PROVE  LET lasts == (p.endTime - p.startTime) * recording.rate.num
                 spans == (Len(samples) - 1) * MicroSecondsPerSecond
                                * recording.rate.den
             IN  /\ 2 * (lasts - spans) <= recording.rate.num
                 /\ 2 * (spans - lasts) <= recording.rate.num
  <2> DEFINE spans == (Len(samples) - 1) * MicroSecondsPerSecond * recording.rate.den
  <2>1. /\ spans \in Int /\ recording.rate.num \in Int /\ recording.rate.num > 0
    BY DEF Rate, IsSamplingRate, MicroSecondsPerSecond
  <2>2. p.endTime = time + Rounded(spans, recording.rate.num)
    BY <1>1, <1>2, <1>4 DEF EndTime
  <2> HIDE DEF spans
  <2>3. Rounded(spans, recording.rate.num) \in Int
    BY <2>1 DEF Rounded
  <2>4. p.endTime - p.startTime = Rounded(spans, recording.rate.num)
    BY <1>1, <2>2, <2>3
  <2>5. /\ 2 * (Rounded(spans, recording.rate.num) * recording.rate.num - spans)
              <= recording.rate.num
        /\ 2 * (spans - Rounded(spans, recording.rate.num) * recording.rate.num)
              <= recording.rate.num
    BY <2>1, RoundingIsNear
  <2>6. QED
    BY <2>4, <2>5 DEF spans
<1>5. 1000 * p.startTime - recording.start \in -999..999
  BY SMTT(30), <1>1 DEF IsNear
<1>6. QED
  BY <1>1, <1>3, <1>4, <1>5, Zenon DEF Faithful

LEMMA RecordIsFaithful ==
  ASSUME NEW r \in Record, Failure(r) = "none"
  PROVE  Faithful(r, r.samples, PacketOfRecord(r))
<1>1. /\ r.names \in Names /\ r.rate \in Rate /\ r.start \in Int
      /\ r.samples \in Seq(Int)
  BY DEF Record, Rate
<1>2. /\ Truncated(r.start, 1000) \in Int
      /\ IsNear(Truncated(r.start, 1000), r.start)
  <2>1. PICK time \in Int : time = r.start
    BY <1>1
  <2>2. QED
    BY <2>1, MicroSecondIsNear
<1>3. SampleType(r) \in DataTypes
  BY DEF SampleType, DataTypes
<1>4. IsSamplingRate(r.rate)
  BY DEF Failure
<1>5. QED
  BY <1>1, <1>2, <1>3, <1>4, ConversionIsFaithful DEF PacketOfRecord

LEMMA MessageIsFaithful ==
  ASSUME NEW m \in Messages, Refusal(m) = "none"
  PROVE  Faithful(m, SubSeq(m.samples, 1, m.nsamp), PacketOfMessage(m))
<1>1. /\ m.names \in Names /\ m.rate \in Rate /\ m.start \in Int
      /\ m.nsamp \in Int /\ m.samples \in Seq(Int) /\ m.nsamp <= Len(m.samples)
  BY MessageTyped
<1>2. UnpackedRate(m) = m.rate /\ IsSamplingRate(m.rate)
  <2>1. m.rate.num \in Int /\ m.rate.den \in Nat \ {0}
        /\ m.rate = [num |-> m.rate.num, den |-> m.rate.den]
    BY <1>1 DEF Rate
  <2>2. unpack(m.rate.num, m) = m.rate.num
    BY <2>1, UnpackedAsSent
  <2>3. IsSamplingRate(UnpackedRate(m))
    BY DEF Refusal
  <2>4. QED
    BY <2>1, <2>2, <2>3 DEF UnpackedRate
<1>3. unpack(m.start, m) = m.start /\ unpack(m.nsamp, m) = m.nsamp
  BY <1>1, UnpackedAsSent
<1>4. /\ Rounded(m.start, 1000) \in Int
      /\ IsNear(Rounded(m.start, 1000), m.start)
  <2>1. PICK time \in Int : time = m.start
    BY <1>1
  <2>2. QED
    BY <2>1, MicroSecondIsNear
<1>5. PacketType(m) \in DataTypes
  BY DEF PacketType, DataTypes
<1>6. /\ UnpackedSamples(m) = SubSeq(m.samples, 1, m.nsamp)
      /\ SubSeq(m.samples, 1, m.nsamp) \in Seq(Int)
  <2>1. m.nsamp \in Nat
    BY <1>1, <1>3 DEF Refusal
  <2>2. \A i \in 1..m.nsamp : /\ m.samples[i] \in Int
                              /\ unpack(m.samples[i], m) = m.samples[i]
    BY <1>1, <2>1, UnpackedAsSent
  <2>3. UnpackedSamples(m) = [i \in 1..m.nsamp |-> m.samples[i]]
    BY <1>3, <2>2 DEF UnpackedSamples
  <2>4. SubSeq(m.samples, 1, m.nsamp) = [i \in 1..m.nsamp |-> m.samples[i]]
    BY <1>1, <2>1, <2>2
  <2>5. [i \in 1..m.nsamp |-> m.samples[i]] \in Seq(Int)
    BY <2>1, <2>2
  <2>6. QED
    BY <2>3, <2>4, <2>5
<1> DEFINE read == SubSeq(m.samples, 1, m.nsamp)
<1>7. PacketOfMessage(m)
        = PacketOf(m.names, m.rate, Rounded(m.start, 1000), PacketType(m), read)
  BY <1>2, <1>3, <1>6 DEF PacketOfMessage
<1>8. read \in Seq(Int)
  BY <1>6
<1> HIDE DEF read
<1>9. Faithful(m, read, PacketOfMessage(m))
  BY <1>1, <1>2, <1>4, <1>5, <1>7, <1>8, ConversionIsFaithful
<1>10. QED
  BY <1>9 DEF read

\* Every packet that reaches the callback tells of the record or the message that
\* it was made of, whichever program it is in.
THEOREM ConversionsAreFaithful == Spec => []PacketsAreFaithful
<1>1. TypeOK /\ Buffers /\ Handled => PacketsAreFaithful
  <2> SUFFICES ASSUME TypeOK, Buffers, Handled, NEW i \in DOMAIN offered
               PROVE  IF source = "miniSEED"
                      THEN Faithful(payload.records[i], payload.records[i].samples,
                                    offered[i])
                      ELSE LET m == received.message
                           IN  Faithful(m, SubSeq(m.samples, 1, m.nsamp), offered[i])
    BY DEF PacketsAreFaithful
  <2>1. CASE source = "miniSEED"
    <3>1. /\ offered \in Seq(Packets) /\ converted \in Seq(Packets)
          /\ payload.records \in Seq(Record) /\ i \in 1..Len(offered)
          /\ step \in {"collect", "convert", "handOver"} /\ collected \in Nat
      BY LenProperties DEF TypeOK, BufferTyped, Payload
    <3>2. offered # <<>>
      BY <3>1
    <3>3. /\ Convertible(payload) /\ i \in DOMAIN payload.records
          /\ offered[i] = PacketOfRecord(payload.records[i])
      <4>1. CASE step = "collect"
        <5>1. collected > 0
          BY <2>1, <3>1, <3>2 DEF Buffers, Unconverted
        <5>2. QED
          BY <3>1, <3>2, <4>1, <5>1 DEF Buffers, WholeBufferOrNothing
      <4>2. CASE step = "handOver"
        BY <3>1, <4>2 DEF Buffers, Handing
      <4>3. QED
        BY <3>1, <3>2, <4>1, <4>2 DEF Buffers, Converting
    <3>4. payload.records[i] \in Record /\ Failure(payload.records[i]) = "none"
      BY <3>1, <3>3 DEF Convertible
    <3>5. QED
      BY <2>1, <3>3, <3>4, RecordIsFaithful
  <2>2. CASE source = "ring"
    <3>1. offered # <<>>
      OBVIOUS
    <3>2. /\ received.message \in Messages /\ Refusal(received.message) = "none"
          /\ offered = <<PacketOfMessage(received.message)>>
      BY <2>2, <3>1 DEF Handled
    <3>3. offered[i] = PacketOfMessage(received.message)
      BY <3>2
    <3>4. QED
      BY <2>2, <3>2, <3>3, MessageIsFaithful
  <2>3. CASE source = "caller"
    <3>1. offered = <<>>
      BY <2>3 DEF Buffers, Unconverted
    <3>2. QED
      BY <3>1
  <2>4. QED
    BY <2>1, <2>2, <2>3 DEF TypeOK
<1>2. Init => Buffers /\ Handled
  BY DEF Init, Buffers, Unconverted, Converting, Handing, WholeBufferOrNothing,
         OnlySkippedBuffersLeak, Handled
<1>3. QED
  BY <1>1, <1>2, StepKeepsBuffers, StepKeepsHandled, EndTimesAreCurrent, PTL DEF Spec

=============================================================================
