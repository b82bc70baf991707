--------------------------- MODULE MCSEEDLinkProgram ---------------------------
(***************************************************************************)
(* Texts of two to six fields, with and without location and type, an      *)
(* empty field for a tab beside a blank, a lone network, and a selector    *)
(* that two texts spell differently.                                       *)
(***************************************************************************)
EXTENDS SEEDLinkProgram

MCFields == {"UU", "uu", "FORK", "NOQ", "HHZ", "hhz", "01", "D", "d", "T", "", "*", "??"}

MCSize ==
    [f \in MCFields |-> CASE f = "" -> 0
                          [] f \in {"D", "d", "T", "*"} -> 1
                          [] f \in {"UU", "uu", "01", "??"} -> 2
                          [] f \in {"HHZ", "hhz", "NOQ"} -> 3
                          [] OTHER -> 4]

MCUpper ==
    [f \in MCFields |-> CASE f = "uu" -> "UU" [] f = "hhz" -> "HHZ"
                          [] f = "d" -> "D" [] OTHER -> f]

MCMatches ==
    [f \in MCFields |-> CASE f = "*" -> {"FORK", "NOQ", "HHZ", "ENZ"}
                          [] f = "??" -> {"01", "02"}
                          [] OTHER -> {f}]

MCStreams ==
    [network : {"UU"}, station : {"FORK", "NOQ"}, channel : {"HHZ", "ENZ"},
     location : {"01", "02"}, type : {"D", "T"}]

Texts ==
    {<<"uu", "FORK">>, <<"UU", "*">>, <<"UU", "FORK", "hhz">>,
     <<"UU", "FORK", "HHZ", "01">>, <<"UU", "NOQ", "HHZ", "d">>,
     <<"UU", "NOQ", "HHZ", "T">>, <<"UU", "FORK", "HHZ", "01", "D">>,
     <<"UU", "NOQ", "", "D">>, <<"UU", "FORK", "", "", "D">>,
     <<"UU", "NOQ", "HHZ", "01", "T", "T">>, <<"UU", "", "HHZ">>, <<"UU">>, <<>>}

File == [host |-> TRUE, url |-> FALSE, interval |-> <<>>, serverHost |-> TRUE,
         selectors |-> <<<<"UU", "FORK">>>>]

MCInitializationFiles ==
    {[File EXCEPT !.host = FALSE, !.url = TRUE],
     [File EXCEPT !.serverHost = FALSE],
     [File EXCEPT !.interval = <<0>>],
     [File EXCEPT !.interval = <<1>>],
     [File EXCEPT !.host = FALSE, !.interval = <<0>>, !.selectors = <<>>]}
    \cup {[File EXCEPT !.selectors = <<text>>] : text \in Texts}
    \cup {[File EXCEPT !.host = FALSE, !.selectors = <<first, second>>] :
             first, second \in Texts}

=============================================================================
