------------------------- MODULE MCWindowAccumulation -------------------------
(***************************************************************************)
(* Small instances of WindowAccumulation: samples of both signs, packets   *)
(* of zero to two samples.  In an int of 5 bits the squares of -3 and 1    *)
(* fit and that of 4 does not; in one of 8 bits every square here does.    *)
(***************************************************************************)
EXTENDS WindowAccumulation

MCSampleValues == {-3, 1, 4}
MCLatencies == {0, 2}
MCPacketSizes == 0 .. 2

=============================================================================
