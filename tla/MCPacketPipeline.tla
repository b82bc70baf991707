--------------------------- MODULE MCPacketPipeline ---------------------------
(***************************************************************************)
(* A small instance of PacketPipeline for TLC, with its refinement and     *)
(* with the record of PublishedGauges, which restricts no behaviour.       *)
(***************************************************************************)
EXTENDS PacketPipelineRefinement, PublishedGauges, MCPackets

=============================================================================
