---------------------------- MODULE StreamSelection ----------------------------
(***************************************************************************)
(* StreamSelector and SEEDLinkClientOptions::addStreamSelector: from the   *)
(* text of a selector, like "UU FORK HH? 01 D", to what the server is      *)
(* asked for.  A text is the sequence of its fields.  Blanks are merged    *)
(* before it is split and tabs are not, so a field between two separators  *)
(* may be empty; the first and the last are not, for the text was trimmed. *)
(*                                                                         *)
(* What a pattern with ? and * matches is the server's matter.  CONSTANTS  *)
(* give the length of each field, its upper case, and the codes it matches.*)
(***************************************************************************)
EXTENDS Integers, Sequences

CONSTANTS Fields,   \* the fields a text may have
          Size,     \* their numbers of characters
          Upper,    \* toupper
          Matches,  \* external: the codes that a pattern stands for
          Streams   \* external: the streams a server may have

Text == Seq(Fields)

AnyStation == "*"
AnyChannel == "*"
AnyLocation == "??"

ASSUME FieldsAssumption ==
    /\ {"", AnyStation, AnyLocation, "D", "d"} \subseteq Fields
    /\ Size \in [Fields -> Nat] /\ Upper \in [Fields -> Fields]
    /\ \A f \in Fields : (Size[f] = 0 <=> f = "") /\ Size[Upper[f]] = Size[f]

\* What libslink is given where a text names no channel or location is a
\* pattern for all of them.
ASSUME MatchesAssumption ==
    \A stream \in Streams :
        stream.channel \in Matches[AnyChannel] /\ stream.location \in Matches[AnyLocation]

-----------------------------------------------------------------------------
\* fromString, and the setters it calls.

\* setNetwork throws unless there are two letters.  A station is asked for when
\* the whole text has more than one letter, which a network of two implies, and
\* setStation throws when the station is empty.
IsSelector(text) ==
    /\ text # <<>>
    /\ Size[text[1]] = 2
    /\ Len(text) > 1 /\ text[2] # ""

\* Mutant: what is not for all data is for data records only.
getDataTypeOfRecords(text) ==
    IF text[Len(text)] \in {"A", "a"} THEN "All" ELSE "Data"

\* A letter that is neither D nor A means all data.
getDataType(text) ==
    IF text[Len(text)] \in {"D", "d"} THEN "Data" ELSE "All"

\* The last of four fields is a location code if it has two letters or more.
\* With a type there and no location the selector has no location at all.
fromString(text) ==
    LET hasType     == Len(text) > 4 \/ (Len(text) = 4 /\ Size[text[4]] <= 1)
        hasLocation == Len(text) > 4 \/ (Len(text) = 4 /\ Size[text[4]] > 1)
        noLocation  == Len(text) = 4 /\ hasType
    IN  [network  |-> Upper[text[1]],
         station  |-> Upper[text[2]],
         channel  |-> IF Len(text) > 2 THEN Upper[text[3]] ELSE AnyChannel,
         location |-> IF hasLocation THEN text[4]
                      ELSE IF noLocation THEN "" ELSE AnyLocation,
         noLocationCode |-> noLocation,
         type     |-> IF hasType THEN getDataType(text) ELSE "All"]

\* The selector string as its three parts, or <<>> for the empty string.
getSelector(selector) ==
    LET location == IF selector.location # "" \/ selector.noLocationCode
                    THEN selector.location ELSE AnyLocation
        channel  == IF selector.channel # "" THEN selector.channel ELSE AnyChannel
        type     == IF selector.type = "All" THEN "*" ELSE "D"
    IN  IF selector.location # "" \/ selector.channel # ""
        THEN <<location, channel, type>>
        ELSE IF selector.type = "All" THEN <<>> ELSE <<"*", type>>

\* Mutant: every station of the network is asked for.
StreamOfNetwork(selector) ==
    [network  |-> selector.network,
     station  |-> AnyStation,
     selector |-> getSelector(selector)]

\* What sl_add_stream is given: the station with its network, and the selector.
StreamOf(selector) ==
    [network  |-> selector.network,
     station  |-> selector.station,
     selector |-> getSelector(selector)]

\* addStreamSelector throws for a selector that is there already.
IsDuplicate(selector, selectors) ==
    \E i \in DOMAIN selectors : StreamOf(selectors[i]) = StreamOf(selector)

-----------------------------------------------------------------------------
\* What a text asks for, and what a server sends: both over Streams.

\* Read as streamSelector.hpp:79-80 has it: network, station, channel, location
\* and type, of which all but the first may be missing or unknown.
Asks(text, stream) ==
    /\ stream.network \in Matches[Upper[text[1]]]
    /\ stream.station \in Matches[Upper[text[2]]]
    /\ Len(text) > 2 => text[3] = "" \/ stream.channel \in Matches[Upper[text[3]]]
    /\ Len(text) = 4 /\ Size[text[4]] > 1 => stream.location \in Matches[text[4]]
    /\ Len(text) > 4 => text[4] = "" \/ stream.location \in Matches[text[4]]
    /\ Len(text) > 3 /\ text[Len(text)] \in {"D", "d"} => stream.type = "D"

\* External: a server of libslink's protocol.  A selector of three parts whose
\* location is empty has none in its string, and matches any.
Sends(asked, stream) ==
    /\ stream.network \in Matches[asked.network]
    /\ stream.station \in Matches[asked.station]
    /\ Len(asked.selector) = 3 =>
          /\ asked.selector[1] = "" \/ stream.location \in Matches[asked.selector[1]]
          /\ stream.channel \in Matches[asked.selector[2]]
          /\ asked.selector[3] = "*" \/ stream.type = asked.selector[3]
    /\ Len(asked.selector) = 2 => stream.type = asked.selector[2]

=============================================================================
