--------------------------- MODULE MCPromptPipeline ---------------------------
(***************************************************************************)
(* A small instance of PromptPipeline for TLC: update intervals of two     *)
(* clock units, and time for a window to be opened, held open by a late    *)
(* packet, and closed.                                                     *)
(***************************************************************************)
EXTENDS PromptPipeline, MCPackets

=============================================================================
