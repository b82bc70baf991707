------------------------------ MODULE MCObservers ------------------------------
(***************************************************************************)
(* A small instance of Observers for TLC: the clock leaves room for two    *)
(* reports, and any number of export cycles fall between the steps of the  *)
(* metrics thread.                                                         *)
(***************************************************************************)
EXTENDS Observers, MCPackets

MCConfigurations == {{"exporter"}, {"summary"}}

=============================================================================
