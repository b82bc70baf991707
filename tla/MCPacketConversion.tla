-------------------------- MODULE MCPacketConversion --------------------------
(***************************************************************************)
(* Small inputs for PacketConversion: every way a record or a message can  *)
(* fail to be converted, starts on both sides of the microsecond, rates    *)
(* above and below one sample per second and one that does not divide a    *)
(* second, buffers of up to three records.                                 *)
(***************************************************************************)
EXTENDS PacketConversion

MCCodes == {"", " ", "uu", "UU", "01", NoLocation}
MCBlankCodes == {"", " "}
MCConverted == [c \in MCCodes |-> CASE c = "uu" -> "UU" [] c = " " -> "" [] OTHER -> c]

Spelt(network, location) ==
    [network |-> network, station |-> "UU", channel |-> "uu", location |-> location]

Hundred == [num |-> 100, den |-> 1]
Tenth == [num |-> 1, den |-> 10]
Third == [num |-> 3, den |-> 1]
Unset == [num |-> 0, den |-> 1]

Sound == [parsed |-> TRUE, named |-> TRUE, names |-> Spelt("uu", " "),
          rate |-> Hundred, start |-> 1999, type |-> "i", samples |-> <<7, 8, 9>>]

MCRecords ==
    {Sound,
     [Sound EXCEPT !.parsed = FALSE],
     [Sound EXCEPT !.named = FALSE],
     [Sound EXCEPT !.names.network = " "],
     [Sound EXCEPT !.rate = Unset],
     [Sound EXCEPT !.type = "other"],
     [Sound EXCEPT !.type = "other", !.samples = <<>>],
     [Sound EXCEPT !.type = "f", !.rate = Tenth, !.start = -1500,
                   !.names.location = "01"],
     [Sound EXCEPT !.type = "d", !.rate = Third, !.samples = <<5, 4>>]}

MCPayloads ==
    [records  : UNION {[1..n -> MCRecords] : n \in 0..3},
     trailing : {"short", "long"}]

MCMessages ==
    {m \in [format  : {"i", "f", "s", "t", "other"},
            size    : {"2", "4", "8", "other"},
            order   : {"little", "big"},
            names   : {Spelt("uu", " "), Spelt("UU", "01"), Spelt(" ", "01")},
            rate    : {Hundred, Tenth, Third, Unset},
            start   : {-1500, 0, 1999},
            nsamp   : {-1, 0, 1, 2},
            samples : {<<7, 8>>}] : FollowsConvention(m)}

MCRates == {Hundred, Tenth, Third, Unset}
MCStartTimes == {0, 5}
MCSignals == {<<>>, <<1>>, <<1, 2, 3>>}

=============================================================================
