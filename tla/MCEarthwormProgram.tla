--------------------------- MODULE MCEarthwormProgram ---------------------------
(***************************************************************************)
(* Every setting of a file that a check or a default distinguishes.        *)
(***************************************************************************)
EXTENDS EarthwormProgram

File == [host |-> TRUE, url |-> FALSE, interval |-> <<>>, queueSize |-> <<>>,
         names |-> TRUE]

MCInitializationFiles ==
    {File,
     [File EXCEPT !.host = FALSE],
     [File EXCEPT !.host = FALSE, !.url = TRUE],
     [File EXCEPT !.interval = <<0>>],
     [File EXCEPT !.interval = <<1>>, !.queueSize = <<1>>],
     [File EXCEPT !.host = FALSE, !.interval = <<-1>>],
     [File EXCEPT !.queueSize = <<0>>],
     [File EXCEPT !.queueSize = <<-1>>],
     [File EXCEPT !.names = FALSE]}

=============================================================================
