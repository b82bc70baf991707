---------------------------- MODULE SEEDLinkProofs ----------------------------
(***************************************************************************)
(* Proofs about uSEEDLinkPacketMetrics.  First the life of its process,    *)
(* whether or not the server may fail and threads may be refused.  Then    *)
(* the program as a whole, for every file it may be started with, every    *)
(* set of streams and every choice of patterns.                            *)
(***************************************************************************)
EXTENDS SEEDLinkProgram, SequenceTheorems, TLAPS

\* The steps of handleMainThread, in which nothing has been stopped, and
\* those of main() on its way out of ~Process.
Watching == {"catchSignals", "loop", "checkAcquisition", "checkMetrics"}
Leaving == {"destroyMembers", "destroyClient", "exited"}

\* A thread's task is over, or it never had one.
AcquisitionOver == acquisition \in {"none", "ended", "threw"}
MetricsOver == metrics \in {"none", "ended"}

\* What the futures say of the tasks, and what the main thread's progress says
\* of the futures and flags.  A task ends quietly only when its flag has been
\* cleared, so while the main thread watches, only an exception ends one; and
\* the first call of stop takes it.
Progress ==
    /\ acquisitionFuture \/ AcquisitionOver
    /\ metricsFuture \/ MetricsOver
    /\ main = "start" => acquisition = "none" /\ metrics = "none"
    /\ main = "startClient" => acquisition = "none" /\ metricsFuture
    /\ acquisition = "ended" => ~clientRunning
    /\ metrics = "ended" => ~keepRunning
    /\ main \in {"startClient"} \cup Watching => keepRunning /\ metricsFuture
    /\ main \in Watching => clientRunning
    /\ main \in {"catchSignals", "loop", "checkAcquisition"} => acquisitionFuture
    /\ main = "checkMetrics" /\ isOkay => acquisitionFuture
    /\ main = "checkMetrics" /\ ~isOkay => acquisition = "threw"
    /\ main \in {"terminate", "clearClient", "joinAcquisition", "joinMetrics"} =>
          ~keepRunning
    /\ main = "joinAcquisition" => ~clientRunning
    /\ main \in {"joinMetrics", "catch"} => ~acquisitionFuture
    /\ inDestructor => ~acquisitionFuture
    /\ inDestructor => main \in {"stop", "terminate", "clearClient", "joinAcquisition",
                                 "joinMetrics"} \cup Leaving
    /\ main \in Leaving => inDestructor /\ ~metricsFuture
    /\ main # "aborted"

\* Every thread is at one of its steps and every flag is a flag.
THEOREM TypeCorrect == Spec => []TypeOK
<1>1. Init => TypeOK
  BY DEF Init, TypeOK, StepsTyped, FlagsTyped
<1>2. StepsTyped /\ [Next]_vars => StepsTyped'
  <2> SUFFICES ASSUME StepsTyped, [Next]_vars PROVE StepsTyped'
    OBVIOUS
  <2> USE DEF StepsTyped, mainVars, clientVars
  <2>1. CASE LaunchMetrics
    BY <2>1 DEF LaunchMetrics, Launched
  <2>2. CASE StartClient
    BY <2>2 DEF StartClient, Launched
  <2>3. CASE stdCatchSignals
    BY <2>3 DEF stdCatchSignals
  <2>4. CASE CheckInterrupted
    BY <2>4 DEF CheckInterrupted
  <2>5. CASE CheckAcquisition
    BY <2>5 DEF CheckAcquisition
  <2>6. CASE CheckMetrics
    BY <2>6 DEF CheckMetrics
  <2>7. CASE ClearKeepRunning
    BY <2>7 DEF ClearKeepRunning
  <2>8. CASE terminate
    BY <2>8 DEF terminate
  <2>9. CASE ClearClient
    BY <2>9 DEF ClearClient
  <2>10. CASE JoinAcquisition
    BY <2>10 DEF JoinAcquisition
  <2>11. CASE JoinMetrics
    BY <2>11 DEF JoinMetrics
  <2>12. CASE CatchInMain
    BY <2>12 DEF CatchInMain
  <2>13. CASE DestroyFutures
    BY <2>13 DEF DestroyFutures
  <2>14. CASE disconnect
    BY <2>14 DEF disconnect
  <2>15. CASE packetToCallback
    BY <2>15 DEF packetToCallback, PollAgain, Collect, LeavePolling
  <2>16. CASE tabulateMetrics
    BY <2>16 DEF tabulateMetrics
  <2>17. CASE stdSignalHandler
    BY <2>17 DEF stdSignalHandler
  <2>18. CASE UNCHANGED vars
    BY <2>18 DEF vars
  <2>19. QED
    BY <2>1, <2>2, <2>3, <2>4, <2>5, <2>6, <2>7, <2>8, <2>9, <2>10, <2>11, <2>12,
       <2>13, <2>14, <2>15, <2>16, <2>17, <2>18 DEF Next, MainThread
<1>3. FlagsTyped /\ [Next]_vars => FlagsTyped'
  <2> SUFFICES ASSUME FlagsTyped, [Next]_vars PROVE FlagsTyped'
    OBVIOUS
  <2> USE DEF FlagsTyped, mainVars, clientVars
  <2>1. CASE LaunchMetrics
    BY <2>1 DEF LaunchMetrics, Launched
  <2>2. CASE StartClient
    BY <2>2 DEF StartClient, Launched
  <2>3. CASE stdCatchSignals
    BY <2>3 DEF stdCatchSignals
  <2>4. CASE CheckInterrupted
    BY <2>4 DEF CheckInterrupted
  <2>5. CASE CheckAcquisition
    BY <2>5 DEF CheckAcquisition
  <2>6. CASE CheckMetrics
    BY <2>6 DEF CheckMetrics
  <2>7. CASE ClearKeepRunning
    BY <2>7 DEF ClearKeepRunning
  <2>8. CASE terminate
    BY <2>8 DEF terminate
  <2>9. CASE ClearClient
    BY <2>9 DEF ClearClient
  <2>10. CASE JoinAcquisition
    BY <2>10 DEF JoinAcquisition
  <2>11. CASE JoinMetrics
    BY <2>11 DEF JoinMetrics
  <2>12. CASE CatchInMain
    BY <2>12 DEF CatchInMain
  <2>13. CASE DestroyFutures
    BY <2>13 DEF DestroyFutures
  <2>14. CASE disconnect
    BY <2>14 DEF disconnect
  <2>15. CASE packetToCallback
    BY <2>15 DEF packetToCallback, PollAgain, Collect, LeavePolling
  <2>16. CASE tabulateMetrics
    BY <2>16 DEF tabulateMetrics
  <2>17. CASE stdSignalHandler
    BY <2>17 DEF stdSignalHandler
  <2>18. CASE UNCHANGED vars
    BY <2>18 DEF vars
  <2>19. QED
    BY <2>1, <2>2, <2>3, <2>4, <2>5, <2>6, <2>7, <2>8, <2>9, <2>10, <2>11, <2>12,
       <2>13, <2>14, <2>15, <2>16, <2>17, <2>18 DEF Next, MainThread
<1>4. QED
  BY <1>1, <1>2, <1>3, PTL DEF Spec, TypeOK

\* The invariant is inductive.
LEMMA Inductive == Spec => []Progress
<1>1. Init => Progress
  BY DEF Init, Progress, AcquisitionOver, MetricsOver, Watching, Leaving
<1>2. Progress /\ [Next]_vars => Progress'
  <2> SUFFICES ASSUME Progress, [Next]_vars PROVE Progress'
    OBVIOUS
  <2> USE DEF Progress, AcquisitionOver, MetricsOver, Watching, Leaving, mainVars, clientVars
  <2>1. CASE LaunchMetrics
    BY <2>1 DEF LaunchMetrics, Launched
  <2>2. CASE StartClient
    BY <2>2 DEF StartClient, Launched
  <2>3. CASE stdCatchSignals
    BY <2>3 DEF stdCatchSignals
  <2>4. CASE CheckInterrupted
    BY <2>4 DEF CheckInterrupted
  <2>5. CASE CheckAcquisition
    BY <2>5 DEF CheckAcquisition
  <2>6. CASE CheckMetrics
    BY <2>6 DEF CheckMetrics
  <2>7. CASE ClearKeepRunning
    BY <2>7 DEF ClearKeepRunning
  <2>8. CASE terminate
    BY <2>8 DEF terminate
  <2>9. CASE ClearClient
    BY <2>9 DEF ClearClient
  <2>10. CASE JoinAcquisition
    BY <2>10 DEF JoinAcquisition
  <2>11. CASE JoinMetrics
    BY <2>11 DEF JoinMetrics
  <2>12. CASE CatchInMain
    BY <2>12 DEF CatchInMain
  <2>13. CASE DestroyFutures
    BY <2>13 DEF DestroyFutures
  <2>14. CASE disconnect
    BY <2>14 DEF disconnect
  <2>15. CASE packetToCallback
    BY <2>15 DEF packetToCallback, PollAgain, Collect, LeavePolling
  <2>16. CASE tabulateMetrics
    BY <2>16 DEF tabulateMetrics
  <2>17. CASE stdSignalHandler
    BY <2>17 DEF stdSignalHandler
  <2>18. CASE UNCHANGED vars
    BY <2>18 DEF vars
  <2>19. QED
    BY <2>1, <2>2, <2>3, <2>4, <2>5, <2>6, <2>7, <2>8, <2>9, <2>10, <2>11, <2>12,
       <2>13, <2>14, <2>15, <2>16, <2>17, <2>18 DEF Next, MainThread
<1>3. QED
  BY <1>1, <1>2, PTL DEF Spec

\* No thread outlives the connection and the members it uses.
THEOREM NoThreadOutlivesItsMembers == Spec => []ThreadsEndBeforeTheirMembers
<1>1. Progress => ThreadsEndBeforeTheirMembers
  BY DEF Progress, AcquisitionOver, MetricsOver, Leaving, ThreadsEndBeforeTheirMembers
<1>2. QED
  BY <1>1, Inductive, PTL

\* checkFuturesOkay never waits on a future that has no task.
THEOREM NeverWaitsOnNothing == Spec => []WaitsOnValidFutures
<1>1. Progress => WaitsOnValidFutures
  BY DEF Progress, Watching, WaitsOnValidFutures
<1>2. QED
  BY <1>1, Inductive, PTL

\* No exception leaves ~Process.
THEOREM DestructorIsQuiet == Spec => []DestructorDoesNotThrow
<1>1. Progress => DestructorDoesNotThrow
  BY DEF Progress, DestructorDoesNotThrow
<1>2. QED
  BY <1>1, Inductive, PTL

-----------------------------------------------------------------------------
\* The abstract life of a program.

Failed == {t \in {"acquisition"} : acquisition = "threw"}
LifeVars == <<LifePhase, Working, Failed, interrupted>>

\* uSEEDLinkPacketMetrics lives the life of ProgramLife, whether or not the
\* server fails and threads are refused: it stops for a reason, its threads work
\* until they fail or it stops, and its members go when no thread is at work.
THEOREM ProcessImplementsLife == Spec => ImplementsLife
<1>1. Init => Life!Init
  BY DEF Init, Life!Init, LifePhase, Working
<1>2. Progress /\ Progress' /\ [Next]_vars => [Life!Next]_LifeVars
  <2> SUFFICES ASSUME Progress, Progress', [Next]_vars PROVE [Life!Next]_LifeVars
    OBVIOUS
  <2> USE DEF Progress, AcquisitionOver, MetricsOver, Watching, Leaving, mainVars, clientVars,
              LifePhase, Working, Failed, LifeVars
  <2>1. CASE LaunchMetrics
    BY <2>1 DEF LaunchMetrics, Launched, Life!Next, Life!Launch
  <2>2. CASE StartClient
    BY <2>2 DEF StartClient, Launched, Life!Next, Life!Launch
  <2>3. CASE stdCatchSignals
    BY <2>3 DEF stdCatchSignals, Life!Next, Life!Started
  <2>4. CASE CheckInterrupted
    BY <2>4 DEF CheckInterrupted, Life!Next, Life!Stop
  <2>5. CASE CheckAcquisition
    BY <2>5 DEF CheckAcquisition
  <2>6. CASE CheckMetrics
    BY <2>6 DEF CheckMetrics, Life!Next, Life!Stop
  <2>7. CASE ClearKeepRunning
    BY <2>7 DEF ClearKeepRunning
  <2>8. CASE terminate
    BY <2>8 DEF terminate
  <2>9. CASE ClearClient
    BY <2>9 DEF ClearClient
  <2>10. CASE JoinAcquisition
    BY <2>10 DEF JoinAcquisition
  <2>11. CASE JoinMetrics
    BY <2>11 DEF JoinMetrics
  <2>12. CASE CatchInMain
    BY <2>12 DEF CatchInMain
  <2>13. CASE DestroyFutures
    BY <2>13 DEF DestroyFutures, Life!Next, Life!End
  <2>14. CASE disconnect
    BY <2>14 DEF disconnect
  <2>15. CASE PollAgain
    BY <2>15 DEF PollAgain
  <2>16. CASE Collect
    BY <2>16 DEF Collect
  <2>17. CASE LeavePolling
    BY <2>17 DEF LeavePolling, Life!Next, Life!Fail, Life!Finish
  <2>18. CASE tabulateMetrics
    BY <2>18 DEF tabulateMetrics, Life!Next, Life!Finish
  <2>19. CASE stdSignalHandler
    BY <2>19 DEF stdSignalHandler, Life!Next, Life!Signal
  <2>20. CASE UNCHANGED vars
    BY <2>20 DEF vars
  <2>21. QED
    BY <2>1, <2>2, <2>3, <2>4, <2>5, <2>6, <2>7, <2>8, <2>9, <2>10, <2>11, <2>12,
       <2>13, <2>14, <2>15, <2>16, <2>17, <2>18, <2>19, <2>20
       DEF Next, MainThread, packetToCallback
<1>3. QED
  BY <1>1, <1>2, Inductive, PTL DEF Spec, ImplementsLife, Life!Spec, Life!lifeVars, LifeVars, Failed

-----------------------------------------------------------------------------
\* The program around the process.

\* What main does around the Process leaves the Process alone.
LEMMA ProgramRunsProcess == ProgramSpec => Spec
<1>1. ProgramInit => Init
  BY DEF ProgramInit
<1>2. [ProgramNext]_ProgramVars => [Next]_vars
  BY DEF ProgramNext, ProgramVars, OutsideProcess, Run
<1>3. QED
  BY <1>1, <1>2, PTL DEF ProgramSpec, Spec

\* Whatever the program was started with, its threads end before what they use,
\* and it lives the life of ProgramLife.
THEOREM ProgramLives ==
  ProgramSpec => [](ThreadsEndBeforeTheirMembers /\ WaitsOnValidFutures
                      /\ DestructorDoesNotThrow)
                 /\ ImplementsLife
BY ProgramRunsProcess, NoThreadOutlivesItsMembers, NeverWaitsOnNothing,
   DestructorIsQuiet, ProcessImplementsLife, PTL

-----------------------------------------------------------------------------
\* Options and static objects.

\* The options are sound from the beginning, and stay so.
Options ==
    /\ ini \in SEEDLinkFile
    /\ maximumQueueSize = DefaultQueueSize
    /\ updateInterval \in Int /\ updateInterval >= 1

\* The singleton is the oldest static object.  The exporter runs only while the
\* provider is there, and objects are destroyed only on leaving.
Statics ==
    /\ statics \in {<<>>, <<"metrics">>, <<"metrics", "provider">>}
    /\ stage \notin {"start", "leave", "ended"} => statics # <<>>
    /\ exporter => statics = <<"metrics", "provider">>

\* Every constant of the pipeline that an option sets is as the pipeline assumes.
THEOREM OptionsAreSound == ProgramSpec => []OptionsMeetAssumptions
<1>1. ProgramInit => Options
  BY SEEDLinkFilesAssumption
     DEF ProgramInit, StartupInit, Options, DefaultInterval
<1>2. Options /\ [ProgramNext]_ProgramVars => Options'
  <2> SUFFICES ASSUME Options, [ProgramNext]_ProgramVars PROVE Options'
    OBVIOUS
  <2>1. CASE ReadOptions
    <3>1. CollectorIsNamed /\ ~IntervalIsRefused =>
             Get(ini.interval, DefaultInterval) \in Int
             /\ Get(ini.interval, DefaultInterval) >= 1
      <4>1. ini.interval \in Seq(Int)
        BY DEF Options, SEEDLinkFile
      <4>2. Get(ini.interval, DefaultInterval) \in Int
        BY <4>1 DEF Get, DefaultInterval
      <4>3. QED
        BY <4>2 DEF IntervalIsRefused
    <3>2. QED
      BY <2>1, <3>1 DEF ReadOptions, ReadMetricsOptions, Options
  <2>2. CASE ~ReadOptions
    BY <2>2 DEF Options, ProgramNext, ProgramVars, OutsideProcess, Run, Startup,
       startupVars, optionVars, initializeMetricsSingleton, parseCommandLineOptions,
       initializeOTelHTTP, SetUpdateInterval, ReadSelector, SelectorsRead,
       ExporterThrows, CreateConnection, AddStream, Subscribe, ReturnFromMain,
       DestroyStatic
  <2>3. QED
    BY <2>1, <2>2
<1>3. Options => OptionsMeetAssumptions
  BY DEF Options, OptionsMeetAssumptions, DefaultQueueSize
<1>4. QED
  BY <1>1, <1>2, <1>3, PTL DEF ProgramSpec

\* However the program leaves, the exporter reads the singleton only while it exists.
THEOREM SingletonOutlivesTheExporter == ProgramSpec => []ExporterReadsLiveMetrics
<1>1. ProgramInit => Statics
  BY DEF ProgramInit, StartupInit, Statics
<1>2. Statics /\ [ProgramNext]_ProgramVars => Statics'
  <2> SUFFICES ASSUME Statics, [ProgramNext]_ProgramVars PROVE Statics'
    OBVIOUS
  <2> USE DEF Statics, optionVars, selectionVars, startupVars
  <2>1. CASE initializeMetricsSingleton
    <3>1. statics = <<>> => Created("metrics") = <<"metrics">>
      BY DEF Created
    <3>2. statics # <<>> => Created("metrics") = statics
      BY DEF Created
    <3>3. QED
      BY <2>1, <3>1, <3>2 DEF initializeMetricsSingleton
  <2>2. CASE initializeOTelHTTP
    <3>1. CASE statics = <<"metrics">>
      <4>1. DOMAIN statics = 1 .. 1 /\ statics[1] = "metrics"
        <5>1. statics \in Seq({"metrics"}) /\ Len(statics) = 1
          BY <3>1
        <5>2. QED
          BY <3>1, <5>1, LenProperties
      <4>2. Append(statics, "provider") = <<"metrics", "provider">>
        <5> DEFINE Object == {"metrics", "provider"}
                   two    == <<"metrics", "provider">>
        <5>1. statics \in Seq(Object) /\ Len(statics) = 1 /\ statics[1] = "metrics"
          BY <3>1
        <5>2. /\ Append(statics, "provider") \in Seq(Object)
              /\ Len(Append(statics, "provider")) = 2
              /\ Append(statics, "provider")[1] = "metrics"
              /\ Append(statics, "provider")[2] = "provider"
          <6>1. /\ Append(statics, "provider") \in Seq(Object)
                /\ Len(Append(statics, "provider")) = Len(statics) + 1
                /\ \A i \in 1 .. Len(statics) : Append(statics, "provider")[i] = statics[i]
                /\ Append(statics, "provider")[Len(statics) + 1] = "provider"
            BY <5>1, AppendProperties
          <6>2. QED
            BY <5>1, <6>1
        <5>3. two \in Seq(Object) /\ Len(two) = 2 /\ two[1] = "metrics" /\ two[2] = "provider"
          OBVIOUS
        <5> HIDE DEF two
        <5>4. \A i \in 1 .. 2 : Append(statics, "provider")[i] = two[i]
          BY <5>2, <5>3
        <5>5. Append(statics, "provider") = two
          BY <5>2, <5>3, <5>4, SeqEqual
        <5>6. QED
          BY <5>5 DEF two
      <4>3. QED
        BY <2>2, <4>1, <4>2 DEF initializeOTelHTTP, Created
    <3>2. CASE statics = <<"metrics", "provider">>
      <4>1. 2 \in DOMAIN statics /\ statics[2] = "provider"
        BY <3>2
      <4>2. QED
        BY <2>2, <3>2, <4>1 DEF initializeOTelHTTP, Created
    <3>3. QED
      BY <2>2, <3>1, <3>2 DEF initializeOTelHTTP
  <2>3. CASE SetUpdateInterval
    <3>1. statics # <<>> => Created("metrics") = statics
      BY DEF Created
    <3>2. QED
      BY <2>3, <3>1 DEF SetUpdateInterval
  <2>4. CASE DestroyStatic
    <3>1. CASE statics = <<>>
      BY <2>4, <3>1 DEF DestroyStatic
    <3>2. CASE statics = <<"metrics">>
      <4>1. SubSeq(statics, 1, Len(statics) - 1) = <<>>
        BY <3>2, SubSeqEmpty
      <4>2. QED
        BY <2>4, <3>2, <4>1 DEF DestroyStatic
    <3>3. CASE statics = <<"metrics", "provider">>
      <4>1. statics # <<>> /\ Len(statics) = 2 /\ statics[1] = "metrics"
            /\ statics[2] = "provider"
        BY <3>3
      <4>2. /\ SubSeq(statics, 1, 1) \in Seq({"metrics"})
            /\ Len(SubSeq(statics, 1, 1)) = 1
            /\ SubSeq(statics, 1, 1)[1] = "metrics"
        <5>1. \A i \in 1 .. 1 : statics[i] \in {"metrics"}
          BY <4>1
        <5>2. QED
          BY <4>1, <5>1, SubSeqProperties
      <4>3. SubSeq(statics, 1, 1) = <<"metrics">>
        <5>1. /\ <<"metrics">> \in Seq({"metrics"}) /\ Len(<<"metrics">>) = 1
              /\ <<"metrics">>[1] = "metrics"
          OBVIOUS
        <5>2. \A i \in 1 .. Len(SubSeq(statics, 1, 1)) :
                 SubSeq(statics, 1, 1)[i] = <<"metrics">>[i]
          BY <4>2, <5>1
        <5>3. QED
          BY <4>2, <5>1, <5>2, SeqEqual
      <4>4. ~exporter'
        BY <2>4, <4>1 DEF DestroyStatic
      <4>5. QED
        BY <2>4, <4>1, <4>3, <4>4 DEF DestroyStatic
    <3>4. QED
      BY <3>1, <3>2, <3>3
  <2>5. CASE parseCommandLineOptions \/ ReadOptions \/ ReadSelector \/ SelectorsRead
             \/ ExporterThrows \/ CreateConnection \/ AddStream \/ Subscribe
             \/ ReturnFromMain
    BY <2>5 DEF parseCommandLineOptions, ReadOptions, ReadSelector, SelectorsRead,
                ExporterThrows, CreateConnection, AddStream, Subscribe,
                ReturnFromMain, Fail
  <2>6. CASE Run(Next) \/ UNCHANGED ProgramVars
    <3>1. exporter' => exporter
      BY <2>6 DEF Run, ProgramVars
    <3>2. stage' = stage /\ statics' = statics
      BY <2>6 DEF Run, ProgramVars
    <3>3. QED
      BY <3>1, <3>2
  <2>7. QED
    BY <2>1, <2>2, <2>3, <2>4, <2>5, <2>6
       DEF ProgramNext, OutsideProcess, Startup
<1>3. Statics => ExporterReadsLiveMetrics
  BY DEF Statics, ExporterReadsLiveMetrics
<1>4. QED
  BY <1>1, <1>2, <1>3, PTL DEF ProgramSpec

-----------------------------------------------------------------------------
\* From the text of a selector to the server.

\* What the server sends for the stream of a selector is all that its text asks
\* for: no field is lost, misplaced or narrowed on the way.
LEMMA TextReachesServer ==
  ASSUME NEW text \in Text, NEW stream \in Streams, IsSelector(text), Asks(text, stream)
  PROVE  Sends(StreamOf(fromString(text)), stream)
<1> DEFINE selector == fromString(text)
<1>1. Len(text) \in Nat /\ \A i \in 1 .. Len(text) : text[i] \in Fields
  BY DEF Text
<1>2. Len(text) > 1 /\ text[1] \in Fields /\ text[2] \in Fields
  <2>1. Len(text) > 1
    BY DEF IsSelector
  <2>2. QED
    BY <1>1, <2>1
<1>3. /\ selector.network = Upper[text[1]] /\ selector.station = Upper[text[2]]
      /\ selector.type \in {"All", "Data"}
  BY DEF fromString, getDataType
<1>4. selector.type = "Data" => stream.type = "D"
  <2>1. ASSUME selector.type = "Data"
        PROVE  Len(text) > 3 /\ text[Len(text)] \in {"D", "d"}
    BY <1>1, <2>1 DEF fromString, getDataType
  <2>2. QED
    BY <2>1 DEF Asks
<1>5. selector.channel # "" => stream.channel \in Matches[selector.channel]
  <2>1. Len(text) > 2 => text[3] \in Fields /\ (text[3] = "" <=> Upper[text[3]] = "")
    <3>1. \A f \in Fields : Upper[f] \in Fields /\ Size[Upper[f]] = Size[f]
                            /\ (Size[f] = 0 <=> f = "")
      BY FieldsAssumption
    <3>2. Len(text) > 2 => text[3] \in Fields
      BY <1>1
    <3>3. QED
      BY <3>1, <3>2
  <2>2. QED
    BY <1>1, <2>1, MatchesAssumption DEF fromString, Asks, AnyChannel
<1>6. selector.location # "" => stream.location \in Matches[selector.location]
  BY <1>1, MatchesAssumption DEF fromString, Asks, AnyLocation
<1>7. stream.channel \in Matches[AnyChannel] /\ stream.location \in Matches[AnyLocation]
  BY MatchesAssumption
<1> HIDE DEF selector
<1> DEFINE asked == StreamOf(selector)
<1>8. /\ stream.network \in Matches[asked.network]
      /\ stream.station \in Matches[asked.station]
      /\ asked.selector = getSelector(selector)
  BY <1>3 DEF StreamOf, Asks
<1> HIDE DEF asked
<1>9. Sends(asked, stream)
  <2>1. CASE selector.location # "" \/ selector.channel # ""
    <3> DEFINE location == IF selector.location # "" \/ selector.noLocationCode
                           THEN selector.location ELSE AnyLocation
               channel  == IF selector.channel # "" THEN selector.channel ELSE AnyChannel
               type     == IF selector.type = "All" THEN "*" ELSE "D"
    <3>1. getSelector(selector) = <<location, channel, type>>
      BY <2>1 DEF getSelector
    <3>2. /\ location = "" \/ stream.location \in Matches[location]
          /\ stream.channel \in Matches[channel]
          /\ type = "*" \/ stream.type = type
      BY <1>3, <1>4, <1>5, <1>6, <1>7
    <3> HIDE DEF location, channel, type
    <3>3. /\ Len(asked.selector) = 3
          /\ asked.selector[1] = location
          /\ asked.selector[2] = channel
          /\ asked.selector[3] = type
      BY <1>8, <3>1
    <3>4. asked.selector[1] = "" \/ stream.location \in Matches[asked.selector[1]]
      BY <3>2, <3>3
    <3>5. stream.channel \in Matches[asked.selector[2]]
      BY <3>2, <3>3
    <3>6. asked.selector[3] = "*" \/ stream.type = asked.selector[3]
      BY <3>2, <3>3
    <3>7. Len(asked.selector) # 2
      BY <3>3
    <3>8. QED
      BY <1>8, <3>3, <3>4, <3>5, <3>6, <3>7 DEF Sends
  <2>2. CASE selector.location = "" /\ selector.channel = "" /\ selector.type = "All"
    <3>1. getSelector(selector) = <<>>
      BY <2>2 DEF getSelector
    <3>2. Len(asked.selector) = 0
      BY <1>8, <3>1
    <3>3. QED
      BY <1>8, <3>2 DEF Sends
  <2>3. CASE selector.location = "" /\ selector.channel = "" /\ selector.type = "Data"
    <3>1. getSelector(selector) = <<"*", "D">>
      BY <2>3 DEF getSelector
    <3>2. Len(asked.selector) = 2 /\ asked.selector[2] = "D"
      BY <1>8, <3>1
    <3>3. Len(asked.selector) # 3
      BY <3>2
    <3>4. stream.type = "D"
      BY <1>4, <2>3
    <3>5. stream.type = asked.selector[2]
      BY <3>2, <3>4
    <3>6. QED
      BY <1>8, <3>3, <3>5 DEF Sends
  <2>4. QED
    BY <1>3, <2>1, <2>2, <2>3
<1>10. QED
  BY <1>9 DEF asked, selector

-----------------------------------------------------------------------------
\* The subscription.

Selector == {fromString(text) : text \in Text}

\* The selectors are the lines of the file read so far, none of them passed over;
\* what libslink was asked for are streams of them, or all stations for want of any.
Selected ==
    /\ ini \in SEEDLinkFile
    /\ line \in 1 .. Len(ini.selectors) + 1
    /\ selectors \in Seq(Selector) /\ Len(selectors) = line - 1
    /\ \A i \in 1 .. Len(selectors) :
          IsSelector(ini.selectors[i]) /\ selectors[i] = fromString(ini.selectors[i])
    /\ candidate \in Nat \ {0}
    /\ \A asked \in streams :
          \E i \in 1 .. Len(selectors) : asked = StreamOf(selectors[i])
    /\ stage \in {"export", "construct", "addStreams", "setInterval", "running"} =>
          line = Len(ini.selectors) + 1
    /\ stage \in {"setInterval", "running"} => (allStations <=> streams = {})

\* A line of the file that is read becomes one more selector.
LEMMA ReadSelectorSelects ==
  ASSUME Selected, ReadSelector
  PROVE  Selected'
<1>1. /\ stage = "selectors" /\ line \in Nat /\ line <= Len(ini.selectors)
      /\ ini' = ini /\ candidate' = candidate /\ streams' = streams
      /\ allStations' = allStations
      /\ ini.selectors \in Seq(Text) /\ Len(ini.selectors) \in Nat
  BY DEF Selected, SEEDLinkFile, ReadSelector, optionVars
<1> DEFINE text == ini.selectors[line]
<1>2. text \in Text
  BY <1>1, ElementOfSeq DEF Selected
<1>3. CASE ~IsSelector(text) \/ IsDuplicate(fromString(text), selectors)
  BY <1>1, <1>3 DEF Selected, ReadSelector, Fail
<1>4. CASE IsSelector(text) /\ ~IsDuplicate(fromString(text), selectors)
  <2>1. /\ selectors' = Append(selectors, fromString(text))
        /\ line' = line + 1 /\ stage' = stage
    BY <1>4 DEF ReadSelector
  <2>2. fromString(text) \in Selector
    BY <1>2 DEF Selector
  <2> HIDE DEF text
  <2>3. /\ selectors' \in Seq(Selector) /\ Len(selectors') = Len(selectors) + 1
        /\ \A i \in 1 .. Len(selectors) : selectors'[i] = selectors[i]
        /\ selectors'[Len(selectors) + 1] = fromString(text)
    BY <2>1, <2>2, AppendProperties DEF Selected
  <2>4. Len(selectors) = line - 1 /\ Len(selectors') = line' - 1
    BY <1>1, <2>1, <2>3 DEF Selected
  <2>5. ASSUME NEW i \in 1 .. Len(selectors')
        PROVE  /\ IsSelector(ini'.selectors[i])
               /\ selectors'[i] = fromString(ini'.selectors[i])
    <3>1. CASE i = line
      BY <1>1, <1>4, <2>3, <2>4, <3>1 DEF text
    <3>2. CASE i # line
      <4>1. i \in 1 .. Len(selectors)
        BY <1>1, <2>1, <2>4, <3>2
      <4>2. QED
        BY <1>1, <2>3, <4>1 DEF Selected
    <3>3. QED
      BY <3>1, <3>2
  <2>6. ASSUME NEW asked \in streams'
        PROVE  \E i \in 1 .. Len(selectors') : asked = StreamOf(selectors'[i])
    <3>1. PICK i \in 1 .. Len(selectors) : asked = StreamOf(selectors[i])
      BY <1>1 DEF Selected
    <3>2. i \in 1 .. Len(selectors') /\ selectors'[i] = selectors[i]
      BY <1>1, <2>1, <2>3, <2>4
    <3>3. QED
      BY <3>1, <3>2
  <2>7. line' \in 1 .. Len(ini'.selectors) + 1
    BY <1>1, <2>1
  <2>8. QED
    BY <1>1, <2>1, <2>3, <2>4, <2>5, <2>6, <2>7 DEF Selected
<1>5. QED
  BY <1>3, <1>4

LEMMA AlwaysSelected == ProgramSpec => []Selected
<1>1. ProgramInit => Selected
  <2> SUFFICES ASSUME ProgramInit PROVE Selected
    OBVIOUS
  <2>1. ini \in SEEDLinkFile /\ ini.selectors \in Seq(Text)
    BY SEEDLinkFilesAssumption DEF ProgramInit, StartupInit, SEEDLinkFile
  <2>2. Len(ini.selectors) \in Nat
    BY <2>1
  <2>3. QED
    BY <2>1, <2>2 DEF ProgramInit, StartupInit, Selected
<1>2. Selected /\ [ProgramNext]_ProgramVars => Selected'
  <2> SUFFICES ASSUME Selected, [ProgramNext]_ProgramVars PROVE Selected'
    OBVIOUS
  <2>1. CASE ReadSelector
    BY <2>1, ReadSelectorSelects
  <2> USE DEF Selected, optionVars, selectionVars, startupVars
  <2>2. CASE SelectorsRead
    <3>1. Len(ini.selectors) \in Nat
      BY DEF SEEDLinkFile
    <3>2. QED
      BY <2>2, <3>1 DEF SelectorsRead
  <2>3. CASE AddStream
    BY <2>3 DEF AddStream
  <2>4. CASE Subscribe
    BY <2>4 DEF Subscribe, Fail
  <2>5. CASE UNCHANGED selectionVars
             /\ (initializeMetricsSingleton \/ parseCommandLineOptions
                   \/ initializeOTelHTTP \/ SetUpdateInterval \/ DestroyStatic)
    BY <2>5 DEF initializeMetricsSingleton, parseCommandLineOptions,
                initializeOTelHTTP, SetUpdateInterval, DestroyStatic, Fail
  <2>6. CASE ReadOptions \/ ExporterThrows \/ CreateConnection \/ ReturnFromMain
    BY <2>6 DEF ReadOptions, ExporterThrows, CreateConnection, ReturnFromMain, Fail
  <2>7. CASE Run(Next) \/ UNCHANGED ProgramVars
    <3>1. UNCHANGED <<ini, stage, line, selectors, candidate, streams, allStations>>
      BY <2>7 DEF Run, ProgramVars
    <3>2. QED
      BY <3>1
  <2>8. QED
    BY <2>1, <2>2, <2>3, <2>4, <2>5, <2>6, <2>7
       DEF ProgramNext, OutsideProcess, Startup
<1>3. QED
  BY <1>1, <1>2, PTL DEF ProgramSpec

\* Whatever the file asks for is subscribed to, as far as libslink adds it.
THEOREM FileIsSubscribed == ProgramSpec => []AskedStreamsAreSubscribed
<1>1. Selected => AskedStreamsAreSubscribed
  <2> SUFFICES ASSUME Selected, stage = "running"
               PROVE  /\ Len(selectors) = Len(ini.selectors)
                      /\ \A i \in DOMAIN selectors : \A stream \in Streams :
                            (/\ Asks(ini.selectors[i], stream)
                             /\ streams # {} => StreamOf(selectors[i]) \in streams)
                            => Subscribed(stream)
    BY DEF AskedStreamsAreSubscribed
  <2>1. /\ Len(selectors) = Len(ini.selectors) /\ Len(ini.selectors) \in Nat
        /\ ini.selectors \in Seq(Text) /\ DOMAIN selectors = 1 .. Len(selectors)
    BY DEF Selected, SEEDLinkFile
  <2>2. ASSUME NEW i \in DOMAIN selectors, NEW stream \in Streams,
               Asks(ini.selectors[i], stream),
               streams # {} => StreamOf(selectors[i]) \in streams
        PROVE  Subscribed(stream)
    <3>1. CASE streams = {}
      BY <3>1 DEF Selected, Subscribed
    <3>2. CASE streams # {}
      <4>1. /\ ini.selectors[i] \in Text /\ IsSelector(ini.selectors[i])
            /\ selectors[i] = fromString(ini.selectors[i])
        BY <2>1, ElementOfSeq DEF Selected
      <4>2. Sends(StreamOf(selectors[i]), stream)
        BY <2>2, <4>1, TextReachesServer
      <4>3. QED
        BY <2>2, <3>2, <4>2 DEF Subscribed
    <3>3. QED
      BY <3>1, <3>2
  <2>3. QED
    BY <2>1, <2>2
<1>2. QED
  BY <1>1, AlwaysSelected, PTL

\* Nothing is subscribed to but stations of the file, once one selector was added.
THEOREM OnlyTheFileIsSubscribed == ProgramSpec => []OnlyAskedStations
<1>1. Selected => OnlyAskedStations
  <2> SUFFICES ASSUME Selected, stage = "running", streams # {},
                      NEW stream \in Streams, Subscribed(stream)
               PROVE  \E i \in DOMAIN ini.selectors :
                         /\ stream.network \in Matches[Upper[ini.selectors[i][1]]]
                         /\ stream.station \in Matches[Upper[ini.selectors[i][2]]]
    BY DEF OnlyAskedStations
  <2>1. PICK asked \in streams : Sends(asked, stream)
    BY DEF Selected, Subscribed
  <2>2. PICK i \in 1 .. Len(selectors) : asked = StreamOf(selectors[i])
    BY DEF Selected
  <2>3. /\ asked.network = Upper[ini.selectors[i][1]]
        /\ asked.station = Upper[ini.selectors[i][2]]
    <3>1. selectors[i] = fromString(ini.selectors[i])
      BY DEF Selected
    <3>2. asked.network = selectors[i].network /\ asked.station = selectors[i].station
      BY <2>2 DEF StreamOf
    <3>3. /\ fromString(ini.selectors[i]).network = Upper[ini.selectors[i][1]]
          /\ fromString(ini.selectors[i]).station = Upper[ini.selectors[i][2]]
      BY DEF fromString
    <3>4. QED
      BY <3>1, <3>2, <3>3
  <2>4. i \in DOMAIN ini.selectors
    BY DEF Selected, SEEDLinkFile
  <2>5. QED
    BY <2>1, <2>3, <2>4 DEF Sends
<1>2. QED
  BY <1>1, AlwaysSelected, PTL

=============================================================================
