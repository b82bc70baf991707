----------------------------- MODULE SummaryReport -----------------------------
(***************************************************************************)
(* The main thread's printSummary beside the packet pipeline: once per     *)
(* summary interval it loads the two cumulative counters, one atomic after *)
(* the other, and logs by how much each grew since the last report.        *)
(***************************************************************************)
EXTENDS PacketPipeline

CONSTANT PrintSummaryInterval   \* printSummaryInterval, in clock units; 0 is off

ASSUME SummaryIntervalAssumption == PrintSummaryInterval \in Int

VARIABLES reporting,               \* the next step of printSummary
          lastPrintSummary,        \* mLastPrintSummary
          totalPackets,            \* local variable: the total it loaded
          totalReceivedLastReport, \* mTotalReceivedLastReport
          validReceivedLastReport, \* mValidReceivedLastReport
          report,                  \* the two numbers it logged last
          logged                   \* auxiliary: the sums of all numbers it logged

reportVars == <<reporting, lastPrintSummary, totalPackets, totalReceivedLastReport,
                validReceivedLastReport, report, logged>>

Nothing == [total |-> 0, valid |-> 0]

ReportInit ==
    /\ Init
    /\ reporting = "waiting"
    /\ lastPrintSummary = 0
    /\ totalPackets = 0
    /\ totalReceivedLastReport = 0
    /\ validReceivedLastReport = 0
    /\ report = Nothing
    /\ logged = Nothing

SummaryDue ==
    /\ reporting = "waiting"
    /\ PrintSummaryInterval > 0
    /\ clock > lastPrintSummary + PrintSummaryInterval
    /\ lastPrintSummary' = clock
    /\ reporting' = "total"
    /\ UNCHANGED <<vars, totalPackets, totalReceivedLastReport,
                   validReceivedLastReport, report, logged>>

LoadTotal ==
    /\ reporting = "total"
    /\ totalPackets' = cumulativeTotal
    /\ reporting' = "valid"
    /\ UNCHANGED <<vars, lastPrintSummary, totalReceivedLastReport,
                   validReceivedLastReport, report, logged>>

\* Mutant: the valid packets reported are not remembered.
LoadValidForgetful ==
    /\ reporting = "valid"
    /\ report' = [total |-> totalPackets - totalReceivedLastReport,
                  valid |-> cumulativeValid - validReceivedLastReport]
    /\ logged' = [total |-> logged.total + report'.total,
                  valid |-> logged.valid + report'.valid]
    /\ totalReceivedLastReport' = totalPackets
    /\ reporting' = "waiting"
    /\ UNCHANGED <<vars, lastPrintSummary, totalPackets, validReceivedLastReport>>

\* The second counter is loaded; the rest of printSummary is the main
\* thread's own business.
LoadValidAndLog ==
    /\ reporting = "valid"
    /\ report' = [total |-> totalPackets - totalReceivedLastReport,
                  valid |-> cumulativeValid - validReceivedLastReport]
    /\ logged' = [total |-> logged.total + report'.total,
                  valid |-> logged.valid + report'.valid]
    /\ totalReceivedLastReport' = totalPackets
    /\ validReceivedLastReport' = cumulativeValid
    /\ reporting' = "waiting"
    /\ UNCHANGED <<vars, lastPrintSummary, totalPackets>>

printSummary == SummaryDue \/ LoadTotal \/ LoadValidAndLog

ReportNext ==
    \/ Next /\ UNCHANGED reportVars
    \/ printSummary

ReportSpec == ReportInit /\ [][ReportNext]_<<vars, reportVars>>

-----------------------------------------------------------------------------
\* Properties.

\* Added up, the reports never claim a packet that was not counted, and no
\* report is negative: each packet is in at most one report's total and one
\* report's valid packets.
NoPacketReportedTwice ==
    /\ logged.total <= cumulativeTotal
    /\ logged.valid <= cumulativeValid
    /\ report.total >= 0 /\ report.valid >= 0

=============================================================================
