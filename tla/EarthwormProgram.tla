---------------------------- MODULE EarthwormProgram ----------------------------
(***************************************************************************)
(* uEarthwormPacketMetrics from main's first line to the destruction of    *)
(* its static objects: EarthwormProcess between the steps of               *)
(* ProgramStartup.  The variables of EarthwormProcess have their values    *)
(* after construction until stage is "running".                            *)
(***************************************************************************)
EXTENDS EarthwormProcess, ProgramStartup

ProgramInit == Init /\ StartupInit

EarthwormFile ==
    [host      : BOOLEAN,  \* OTelHTTPMetricsOptions.host is there
     url       : BOOLEAN,  \* OTelHTTPMetricsOptions.url is there
     interval  : Seq(Int),
     queueSize : Seq(Int),
     names     : BOOLEAN]  \* neither the module's nor the ring's name is empty

ASSUME EarthwormFilesAssumption ==
    InitializationFiles \subseteq EarthwormFile /\ SizeModulus \in Nat \ {0}

\* A negative number is read modulo the size of the type.
QueueSize == Get(ini.queueSize, DefaultQueueSize) % SizeModulus

\* The constructor of ProgramOptions.
ReadOptions ==
    /\ stage = "read"
    /\ IF QueueSize = 0 \/ ~ini.names \/ IntervalIsRefused
       THEN Fail /\ UNCHANGED <<exportMetrics, updateInterval, maximumQueueSize>>
       ELSE /\ maximumQueueSize' = QueueSize
            /\ ReadMetricsOptions
            /\ stage' = "export"
            /\ UNCHANGED <<exporter, status>>
    /\ UNCHANGED <<ini, statics>>

\* No handler is there for what initializeOTelHTTP may throw.
ExporterThrows ==
    /\ stage = "export" /\ exportMetrics
    /\ stage' = "aborted"
    /\ UNCHANGED <<optionVars, statics, exporter, status>>

\* The constructor of Process creates the ring reader, which is not connected.
ConstructReader ==
    /\ stage = "construct"
    /\ stage' = "setInterval"
    /\ UNCHANGED <<optionVars, statics, exporter, status>>

Startup ==
    \/ initializeMetricsSingleton
    \/ parseCommandLineOptions
    \/ ReadOptions
    \/ initializeOTelHTTP
    \/ ExporterThrows
    \/ ConstructReader
    \/ SetUpdateInterval

\* cleanupOTelMetrics is called when start has returned, or after it has thrown
\* and the Process has been destroyed.
CleansUp ==
    \/ exitStatus = "none" /\ exitStatus' = "success"
    \/ pc["main"] # "exited" /\ pc'["main"] = "exited"

Run(A) ==
    /\ stage = "running"
    /\ A
    /\ exporter' = (exporter /\ ~CleansUp)
    /\ UNCHANGED <<stage, optionVars, statics, status>>

ReturnFromMain ==
    /\ stage = "running" /\ pc["main"] = "exited"
    /\ stage' = "leave"
    /\ status' = exitStatus
    /\ UNCHANGED <<optionVars, statics, exporter>>

OutsideProcess == (Startup \/ ReturnFromMain \/ DestroyStatic) /\ UNCHANGED vars

ProgramNext == OutsideProcess \/ Run(Next)

ProgramVars == <<vars, startupVars>>

\* As for EarthwormProcess; what main does around the Process does not block.
ProgramSpec ==
    /\ ProgramInit /\ [][ProgramNext]_ProgramVars
    /\ WF_ProgramVars(OutsideProcess)
    /\ WF_ProgramVars(Run(MainThread))
    /\ WF_ProgramVars(Run(ReaderThread))
    /\ WF_ProgramVars(Run(tabulateMetrics))

=============================================================================
