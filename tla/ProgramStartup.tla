----------------------------- MODULE ProgramStartup -----------------------------
(***************************************************************************)
(* What main does around the Process, as far as the two programs have it   *)
(* in common: the metrics singleton, the initialization file, the          *)
(* exporter, and the objects with static storage, which are destroyed      *)
(* after main in the opposite order of their construction.                 *)
(*                                                                         *)
(* A value of the file is <<>> or <<v>>.  Log settings, names and          *)
(* attributes are left out.  The module has no next-state relation:        *)
(* SEEDLinkProgram and EarthwormProgram put these steps in order.          *)
(***************************************************************************)
EXTENDS Integers, Sequences, FiniteSets

CONSTANTS InitializationFiles,  \* the files a program may be started with
          SizeModulus           \* the number of values of a size_t

VARIABLES stage,            \* the next step of main
          ini,              \* the initialization file
          exportMetrics,    \* options.exportMetrics
          updateInterval,   \* options.windowedMetricsUpdateInterval
          maximumQueueSize, \* options.maximumQueueSize
          statics,          \* external: static objects, the oldest first
          exporter,         \* external: the exporter's thread reads the metrics
          status            \* what main returns

optionVars == <<ini, exportMetrics, updateInterval, maximumQueueSize>>
startupVars == <<stage, optionVars, statics, exporter, status>>

DefaultQueueSize == 4096
DefaultInterval == 120

\* boost::property_tree::ptree::get with a default.
Get(value, default) == IF value = <<>> THEN default ELSE value[1]

StartupInit ==
    /\ stage = "start"
    /\ ini \in InitializationFiles
    /\ exportMetrics = FALSE
    /\ updateInterval = DefaultInterval
    /\ maximumQueueSize = DefaultQueueSize
    /\ statics = <<>>
    /\ exporter = FALSE
    /\ status = "none"

\* An exception that is caught: the exporter is cleaned up, and main returns.
Fail ==
    /\ stage' = "leave"
    /\ status' = "failure"
    /\ exporter' = FALSE

-----------------------------------------------------------------------------
\* A function-local static object is created on first use.
Created(object) ==
    IF \E i \in DOMAIN statics : statics[i] = object THEN statics
    ELSE Append(statics, object)

\* Mutant: the singleton is left to its first use.
initializeMetricsSingletonLater ==
    /\ stage = "start"
    /\ stage' = "parse"
    /\ UNCHANGED <<optionVars, statics, exporter, status>>

initializeMetricsSingleton ==
    /\ stage = "start"
    /\ statics' = Created("metrics")
    /\ stage' = "parse"
    /\ UNCHANGED <<optionVars, exporter, status>>

\* Help or the version is printed; or there is no file; or there is one.
parseCommandLineOptions ==
    /\ stage = "parse"
    /\ \/ /\ stage' = "leave" /\ status' = "success"
          /\ UNCHANGED exporter
       \/ Fail
       \/ /\ stage' = "read"
          /\ UNCHANGED <<exporter, status>>
    /\ UNCHANGED <<optionVars, statics>>

\* Metrics are exported when the file has a host.  A key "url" is not read.
CollectorIsNamed == ini.host

\* Mutant: an interval of zero is let through.
IntervalIsNegative == CollectorIsNamed /\ Get(ini.interval, DefaultInterval) < 0

IntervalIsRefused == CollectorIsNamed /\ Get(ini.interval, DefaultInterval) <= 0

\* The interval is read only if metrics are exported.
ReadMetricsOptions ==
    /\ exportMetrics' = CollectorIsNamed
    /\ updateInterval' = IF CollectorIsNamed THEN Get(ini.interval, DefaultInterval)
                         ELSE updateInterval

\* The provider replaces the one that does nothing, and its reader starts.
initializeOTelHTTP ==
    /\ stage = "export"
    /\ stage' = "construct"
    /\ statics' = IF exportMetrics THEN Created("provider") ELSE statics
    /\ exporter' = exportMetrics
    /\ UNCHANGED <<optionVars, status>>

\* The end of Process's constructor.
SetUpdateInterval ==
    /\ stage = "setInterval"
    /\ stage' = "running"
    /\ statics' = IF exportMetrics THEN Created("metrics") ELSE statics
    /\ UNCHANGED <<optionVars, exporter, status>>

\* The static provider stops its reader when it is destroyed.
DestroyStatic ==
    /\ stage = "leave"
    /\ IF statics = <<>>
       THEN stage' = "ended" /\ UNCHANGED <<statics, exporter>>
       ELSE /\ statics' = SubSeq(statics, 1, Len(statics) - 1)
            /\ exporter' = (exporter /\ statics[Len(statics)] # "provider")
            /\ UNCHANGED stage
    /\ UNCHANGED <<optionVars, status>>

-----------------------------------------------------------------------------
\* Properties.

\* What PacketPipeline assumes of the options is what is left of the file after
\* all checks: a queue has room, and an interval has a length.
OptionsMeetAssumptions ==
    stage = "running" => maximumQueueSize >= 1 /\ updateInterval >= 1

\* The exporter's thread reads the singleton until the provider is destroyed,
\* which on one path of main is left to the end of the program.  By then the
\* singleton still exists: it was created before anything else ("Get this done
\* early", seedLinkPacketMetrics.cpp:653).
ExporterReadsLiveMetrics ==
    exporter /\ stage = "leave" =>
        \E i \in DOMAIN statics : statics[i] = "metrics"

\* README.md:37-39 tells how the collector is named in the file.  A program that
\* is started with such a file exports.
DocumentedFileExports == stage = "running" /\ ini.url => exportMetrics

=============================================================================
