------------------------------- MODULE Observers -------------------------------
(***************************************************************************)
(* The two readers of the MetricsSingleton beside the pipeline: the        *)
(* exporter's thread and the main thread with its summary.  A program has  *)
(* the exporter if the initialization file names a collector, and          *)
(* uSEEDLinkPacketMetrics has the summary as well if its interval is       *)
(* positive.                                                               *)
(***************************************************************************)
EXTENDS MetricsExport, SummaryReport

CONSTANT Configurations   \* the sets of observers a program may have

ASSUME ConfigurationsAssumption ==
    Configurations \subseteq SUBSET {"exporter", "summary"}

VARIABLE observers   \* the observers of this program

observerVars == <<vars, exportVars, reportVars, observers>>

ObserversInit == ExportInit /\ ReportInit /\ observers \in Configurations

ObserversNext ==
    /\ \/ Next /\ UNCHANGED <<exportVars, reportVars>>
       \/ "exporter" \in observers /\ Exporter /\ UNCHANGED reportVars
       \/ "summary" \in observers /\ printSummary /\ UNCHANGED exportVars
    /\ UNCHANGED observers

ObserversSpec == ObserversInit /\ [][ObserversNext]_observerVars

=============================================================================
