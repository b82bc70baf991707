---------------------------- MODULE PublishedGauges ----------------------------
(***************************************************************************)
(* The packet pipeline with a record, for each stream, of the packets      *)
(* averaged since its window was last closed and of those averaged in the  *)
(* window closed last, so that the gauges published for a stream can be    *)
(* compared with its packets, whatever other streams' packets the metrics  *)
(* thread tabulated and however their windows were closed in between.      *)
(***************************************************************************)
EXTENDS PacketPipeline

VARIABLES pending,   \* auxiliary: what was averaged since the window was closed
          published  \* auxiliary: what was averaged in the window closed last

publishedVars == <<vars, pending, published>>

PublishedInit ==
    /\ Init
    /\ pending = [s \in Streams |-> <<>>]
    /\ published = [s \in Streams |-> <<>>]

\* The metrics thread has updated the window of s.
Averages(s) == pc = "window" /\ pc' = "returned" /\ packet.stream = s

\* It has flushed while the window of s was due.
Closes(s) ==
    /\ \/ pc = "returned" /\ pc' = "stamp"
       \/ pc = "idle" /\ pc' = "sleep" /\ clock > lastUpdate + UpdateInterval
    /\ s \in DOMAIN windows
    /\ Due(windows[s], clock)

PublishedNext ==
    /\ Next
    /\ pending' =
          [s \in Streams |->
              IF Averages(s)
              THEN Append(pending[s], [nSamples |-> packet.nSamples,
                                       sum      |-> packet.sum,
                                       latency  |-> Latency(packet, tabulatedAt)])
              ELSE IF Closes(s) THEN <<>> ELSE pending[s]]
    /\ published' = [s \in Streams |-> IF Closes(s) THEN pending[s] ELSE published[s]]

PublishedSpec == PublishedInit /\ [][PublishedNext]_publishedVars

PublishedFairSpec == PublishedSpec /\ Fairness

-----------------------------------------------------------------------------
\* Properties.

\* The total of one field over recorded packets.
Total(field, record) == SumFunction([i \in DOMAIN record |-> record[i][field]])

EqualRationals(q, r) == q[1] * r[2] = r[1] * q[2]

\* The values of the gauges are the averages of the recorded packets.  Without
\* packets the latency is the update interval.
AreAveragesOf(value, record) ==
    /\ \A g \in GaugeName : value[g][2] > 0
    /\ record = <<>> => /\ value["latency"] = <<UpdateInterval, 1>>
                        /\ value["counts"] = <<0, 1>>
                        /\ value["std"] = <<0, 1>>
    /\ record # <<>> =>
          /\ EqualRationals(value["latency"], <<Total("latency", record), Len(record)>>)
          /\ EqualRationals(value["counts"],
                            <<Total("sum", record), Total("nSamples", record)>>)

\* What is published for a stream are the averages of exactly the packets of
\* that stream averaged between the last two flushes at which its window was
\* due: none of them is lost to, or added by, a flush caused by another
\* stream, an idle check or a window opened late, and none is divided by zero.
GaugesAverageTheirPackets ==
    \A s \in DOMAIN gauge["counts"] :
        AreAveragesOf([g \in GaugeName |-> gauge[g][s]], published[s])

=============================================================================
