---------------------------- MODULE SEEDLinkProgram ----------------------------
(***************************************************************************)
(* uSEEDLinkPacketMetrics from main's first line to the destruction of its *)
(* static objects: SEEDLinkProcess between the steps of ProgramStartup,    *)
(* with the selectors of the initialization file and the client's          *)
(* subscription.  The variables of SEEDLinkProcess have their values after *)
(* construction until stage is "running".                                  *)
(***************************************************************************)
EXTENDS SEEDLinkProcess, ProgramStartup, StreamSelection

VARIABLES line,        \* the selector of the file that is read next
          selectors,   \* SEEDLinkClientOptions::mSelectors
          candidate,   \* the selector that is given to libslink next
          streams,     \* external: mSEEDLinkConnection->streams
          allStations  \* external: the connection is in all-station mode

selectionVars == <<line, selectors, candidate, streams, allStations>>

SEEDLinkFile ==
    [host       : BOOLEAN,  \* OTelHTTPMetricsOptions.host is there
     url        : BOOLEAN,  \* OTelHTTPMetricsOptions.url is there
     interval   : Seq(Int),
     serverHost : BOOLEAN,  \* SEEDLink.host is there, and is not blank
     selectors  : Seq(Text)]

ASSUME SEEDLinkFilesAssumption == InitializationFiles \subseteq SEEDLinkFile

ProgramInit ==
    /\ Init
    /\ StartupInit
    /\ line = 1
    /\ selectors = <<>>
    /\ candidate = 1
    /\ streams = {}
    /\ allStations = FALSE

-----------------------------------------------------------------------------
\* readInitializationFile.

ReadOptions ==
    /\ stage = "read"
    /\ IF IntervalIsRefused \/ ~ini.serverHost
       THEN Fail /\ UNCHANGED <<exportMetrics, updateInterval>>
       ELSE /\ ReadMetricsOptions
            /\ stage' = "selectors"
            /\ UNCHANGED <<exporter, status>>
    /\ UNCHANGED <<ini, maximumQueueSize, statics, selectionVars>>

\* Mutant: a selector that cannot be read or added is passed over.
PassOverSelector ==
    /\ stage = "selectors" /\ line <= Len(ini.selectors)
    /\ LET text == ini.selectors[line]
       IN  selectors' = IF ~IsSelector(text)
                           \/ IsDuplicate(fromString(text), selectors)
                        THEN selectors ELSE Append(selectors, fromString(text))
    /\ line' = line + 1
    /\ UNCHANGED <<startupVars, candidate, streams, allStations>>

\* One selector that cannot be read or added makes the program fail.
ReadSelector ==
    /\ stage = "selectors" /\ line <= Len(ini.selectors)
    /\ LET text == ini.selectors[line]
       IN  IF ~IsSelector(text) \/ IsDuplicate(fromString(text), selectors)
           THEN Fail /\ UNCHANGED <<line, selectors>>
           ELSE /\ selectors' = Append(selectors, fromString(text))
                /\ line' = line + 1
                /\ UNCHANGED <<stage, exporter, status>>
    /\ UNCHANGED <<optionVars, statics, candidate, streams, allStations>>

SelectorsRead ==
    /\ stage = "selectors" /\ line > Len(ini.selectors)
    /\ stage' = "export"
    /\ UNCHANGED <<optionVars, statics, exporter, status, selectionVars>>

\* What initializeOTelHTTP throws is caught.
ExporterThrows ==
    /\ stage = "export" /\ exportMetrics
    /\ Fail
    /\ UNCHANGED <<optionVars, statics, selectionVars>>

-----------------------------------------------------------------------------
\* The constructor of Process: SEEDLinkClientImpl::initialize.

\* There may be no memory, or the address may not do.
CreateConnection ==
    /\ stage = "construct"
    /\ \/ Fail
       \/ stage' = "addStreams" /\ UNCHANGED <<exporter, status>>
    /\ UNCHANGED <<optionVars, statics, selectionVars>>

\* A stream that libslink does not add is warned of and left out.
AddStream ==
    /\ stage = "addStreams" /\ candidate <= Len(selectors)
    /\ \/ streams' = streams \cup {StreamOf(selectors[candidate])}
       \/ UNCHANGED streams
    /\ candidate' = candidate + 1
    /\ UNCHANGED <<startupVars, line, selectors, allStations>>

\* Mutant: the connection is left without streams if some were asked for.
SubscribeToSelected ==
    /\ stage = "addStreams" /\ candidate > Len(selectors)
    /\ allStations' = (selectors = <<>>)
    /\ stage' = "setInterval"
    /\ UNCHANGED <<optionVars, statics, exporter, status, line, selectors, candidate,
                   streams>>

\* Without a stream all stations are asked for, which libslink may refuse.  The
\* remaining parameters of the connection are set, with warnings at most; a
\* debug build asks the server for its name, and the release build does not.
Subscribe ==
    /\ stage = "addStreams" /\ candidate > Len(selectors)
    /\ \/ /\ allStations' = (streams = {})
          /\ stage' = "setInterval"
          /\ UNCHANGED <<exporter, status>>
       \/ streams = {} /\ Fail /\ UNCHANGED allStations
    /\ UNCHANGED <<optionVars, statics, line, selectors, candidate, streams>>

-----------------------------------------------------------------------------
Startup ==
    \/ /\ \/ initializeMetricsSingleton
          \/ parseCommandLineOptions
          \/ initializeOTelHTTP
          \/ SetUpdateInterval
       /\ UNCHANGED selectionVars
    \/ ReadOptions
    \/ ReadSelector
    \/ SelectorsRead
    \/ ExporterThrows
    \/ CreateConnection
    \/ AddStream
    \/ Subscribe

\* What start throws makes main clean up, before the Process is destroyed.  When
\* start returns, the exporter is left running.
Run(A) ==
    /\ stage = "running"
    /\ A
    /\ exporter' = (exporter /\ ~(main = "catch" /\ main' # "catch"))
    /\ UNCHANGED <<stage, optionVars, statics, status, selectionVars>>

ReturnFromMain ==
    /\ stage = "running" /\ main = "exited"
    /\ stage' = "leave"
    /\ status' = exitStatus
    /\ UNCHANGED <<optionVars, statics, exporter, selectionVars>>

OutsideProcess ==
    /\ Startup \/ ReturnFromMain \/ (DestroyStatic /\ UNCHANGED selectionVars)
    /\ UNCHANGED vars

ProgramNext == OutsideProcess \/ Run(Next)

ProgramVars == <<vars, startupVars, selectionVars>>

\* As for SEEDLinkProcess; what main does around the Process does not block.
ProgramSpec ==
    /\ ProgramInit /\ [][ProgramNext]_ProgramVars
    /\ WF_ProgramVars(OutsideProcess)
    /\ WF_ProgramVars(Run(MainThread))
    /\ WF_ProgramVars(Run(packetToCallback))
    /\ WF_ProgramVars(Run(tabulateMetrics))

-----------------------------------------------------------------------------
\* Properties.

Subscribed(stream) == allStations \/ \E asked \in streams : Sends(asked, stream)

\* No line of the file is passed over, and no step from its text to the server
\* loses a stream: a program that runs gets every stream a line asks for, except
\* when libslink did not add this line's selector and did add another.
AskedStreamsAreSubscribed ==
    stage = "running" =>
        /\ Len(selectors) = Len(ini.selectors)
        /\ \A i \in DOMAIN selectors : \A stream \in Streams :
              (/\ Asks(ini.selectors[i], stream)
               /\ streams # {} => StreamOf(selectors[i]) \in streams)
              => Subscribed(stream)

\* What a program did not ask for would be in its counts.  As long as libslink has
\* added one selector, only stations of the file are subscribed to.
OnlyAskedStations ==
    stage = "running" /\ streams # {} =>
        \A stream \in Streams : Subscribed(stream) =>
            \E i \in DOMAIN ini.selectors :
                /\ stream.network \in Matches[Upper[ini.selectors[i][1]]]
                /\ stream.station \in Matches[Upper[ini.selectors[i][2]]]

=============================================================================
