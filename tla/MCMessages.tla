------------------------------ MODULE MCMessages ------------------------------
EXTENDS MessageProperties

-----------------------------------------------------------------------------
(* Requests                                                                *)

\* The ends of a year and of February, of a leap year and not, in zones east
\* and west of Greenwich, with summer time and without.
Clock(date, now, then) == [date |-> date, now |-> now, then |-> then]
MCClocks == {
  Clock(<<2023, 3, 1>>, 0, 0), Clock(<<2023, 12, 31>>, -480, -420),
  Clock(<<2023, 12, 31>>, 0, 60), Clock(<<2024, 2, 28>>, 120, 60),
  Clock(<<2024, 2, 29>>, 0, 0), Clock(<<2024, 2, 29>>, -480, -480)}

\* A date that can be asked for on each of them, and dates around the bounds,
\* past, too far ahead and not of the calendar.
Soon == <<2024, 3, 1>>
OtherDates == {
  Malformed, <<2024, 2, 30>>, <<2024, 13, 1>>, <<2023, 2, 28>>, <<2023, 12, 31>>,
  <<2024, 1, 1>>, <<2024, 2, 29>>, <<2024, 3, 2>>, <<2024, 12, 30>>, <<2024, 12, 31>>,
  <<2025, 1, 1>>, <<2025, 2, 28>>, <<2025, 3, 1>>, <<2025, 3, 2>>, <<2025, 3, 3>>}

Texts == {"Segment", "Area", "PropertyID", "PropertyType", "Category", "RoomType", "Type"}

\* Texts that a search may leave out.
Optional(cmd, param) ==
  \/ cmd = "SearchProp" /\ param \in {"Area", "Type", "Category"}
  \/ cmd = "SearchAvail" /\ param \in {"Area", "PropertyID", "Type", "Category"}

BaseOf(cmd, param) ==
  CASE param \in Texts -> IF Optional(cmd, param) THEN <<>> ELSE <<"x">>
    [] param = "Date"   -> <<Soon>>
    [] param = "Dates"  -> << <<Soon>> >>
    [] param = "Amount" -> <<1>>
    [] cmd = "SetProp" /\ param = "Stars" -> <<3>>
    [] cmd = "SetProp" /\ param \in {"Latitude", "Longitude"} -> <<0>>
    [] OTHER -> <<>>

ValuesOf(cmd, param) ==
  CASE param \in Texts -> {<<"">>, <<" ">>, <<"y">>}
    [] param = "Date"  -> {<<d>> : d \in OtherDates}
    [] param = "Dates" -> {<<>>, << <<>> >>} \cup {<< <<d, Soon>> >> : d \in OtherDates}
    [] param = "Stars" -> {<<0>>, <<1>>, <<5>>, <<6>>}
    [] param = "Latitude"  -> {<<1>>, <<-91>>, <<90>>, <<91>>}
    [] param = "Longitude" -> {<<1>>, <<-180>>, <<-181>>, <<181>>}
    [] param = "Amenities" ->
         {<< <<>> >>, << << <<"a">> >> >>, << << <<"a", "b">> >> >>,
          << << <<"a">>, <<"b">> >> >>, << << <<"">> >> >>}
    [] param = "RateFeature" ->
         {<< <<>> >>, << << <<"f">> >> >>, << << <<"f">>, <<"g">> >> >>, << << <<"h">> >> >>}
    [] OTHER -> {<<0>>, <<3>>, <<255>>}

MCBase   == [cmd \in Commands |-> [param \in Params(cmd) |-> BaseOf(cmd, param)]]
MCValues == [cmd \in Commands |-> [param \in Params(cmd) |-> ValuesOf(cmd, param)]]

\* No codecs, few, and one more than a mask has bits for.
MCRegistries == {
  <<>>, << << <<"f">>, <<"g">> >> >>,
  << [i \in 1..25 |-> IF i = 24 THEN <<"f">> ELSE IF i = 25 THEN <<"g">> ELSE <<ToString(i)>>] >>}

-----------------------------------------------------------------------------
(* Frames                                                                  *)

\* A segment without a byte, of one, of as many as the length byte can tell,
\* and of more.
MCRoutes == {[i \in 1..n |-> 97] : n \in {0, 1, 254, 255, 256, 257, 300}}

MCPayload == <<7, 255, 254, 0>>
MCKeepaliveSegment == [i \in 1..13 |-> 95]
MCRests == {<<>>, <<Magic, 0>>, <<RouterMagic, 1, 0, 0, 0, 5>>}

-----------------------------------------------------------------------------
(* Responses                                                               *)

ResponseField(i, type, len, num, dates) ==
  [id |-> i, type |-> type, len |-> len, num |-> num, dates |-> dates]

\* Fields a SEARCHAVAIL answer is made of, and the same slightly wrong: one day
\* and no day announced, a property, vectors of one day (with a good and with a
\* bad date), of no day, and of a day with a byte missing.
AvailFields == {
  ResponseField(1, Number, 2, 1, TRUE), ResponseField(1, Number, 2, 0, TRUE),
  ResponseField(2, String, 16, 0, TRUE),
  ResponseField(3, Vector, 13, 1, TRUE), ResponseField(3, Vector, 13, 1, FALSE),
  ResponseField(3, Vector, 2, 0, TRUE), ResponseField(3, Vector, 12, 1, TRUE)}

\* Fields of the other answers.
OtherFields == {
  ResponseField(1, String, 10, 0, TRUE), ResponseField(2, String, 10, 0, TRUE),
  ResponseField(1, Number, 1, 1, TRUE), ResponseField(1, Number, 0, 0, TRUE),
  ResponseField(2, Fixed, 4, 7, TRUE), ResponseField(1, Yaml, 5, 0, TRUE)}

MCAlphabet == [cmd \in Commands |->
  IF cmd = "SearchAvail" THEN AvailFields \cup {ResponseField(1, String, 10, 0, TRUE)}
  ELSE OtherFields]

MCMaxFields == [cmd \in Commands |->
  IF cmd \in {"SearchAvail", "GetPropRoomDay"} THEN 5 ELSE 3]

\* A code of every kind.
MCSaid == {"NOT_FOUND", "AUTH_ERROR", "503", "SERVER_ERROR"}
MCTransport == {"request timed out", "connection closed", "context canceled",
                "write tcp 10.0.0.1"}
=============================================================================
