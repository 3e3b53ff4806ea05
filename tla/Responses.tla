------------------------------ MODULE Responses ------------------------------
(***************************************************************************)
(* What the Parse functions of internal/command make of a frame: a value,  *)
(* the text of the router's error, an error of the SDK's own, or an index  *)
(* out of range, which panics.                                             *)
(*                                                                         *)
(* A frame is [status, count, fields]: the field count it declares and the *)
(* fields its bytes hold.  A field is [id, type, len, num, dates]: num is  *)
(* the uint16 its data starts with, dates whether all dates in it unpack.  *)
(***************************************************************************)
EXTENDS Naturals, Sequences

\* Type bytes of fields.
String == 1
Number == 2
Fixed  == 3
Vector == 8
Yaml   == 9

\* A fault: as many fields as there are, whatever the header declares.
FieldsUnchecked(f) == f.fields

\* ParseFields wants as many fields as the header of the frame declares and no
\* byte left over.  readLoop drops its error and goes on without any field.
FieldsKept(f) == IF f.count = Len(f.fields) THEN f.fields ELSE <<>>

\* A fault: the type of the field is tested the wrong way round.
TextInverted(fs) ==
  IF fs # <<>> /\ fs[1].type # String THEN "message" ELSE "error"

\* The error path: most commands look before they read fields[0] ...
Text(fs) ==
  IF fs # <<>> /\ fs[1].type = String THEN "message" ELSE "error"
\* ... and four do not.
TextUnguarded(fs) == IF fs = <<>> THEN "panic" ELSE "message"

\* The success paths.
Scalar(fs) ==
  IF fs = <<>> THEN "panic" ELSE IF fs[1].len # 1 THEN "error" ELSE "value"

Flag(fs) == IF fs = <<>> \/ fs[1].len = 0 THEN "panic" ELSE "value"

RoomDay(fs) ==
  IF Len(fs) < 5 \/ fs[3].len = 0 \/ fs[4].len < 4 \/ fs[5].len < 4
  THEN "panic" ELSE "value"

Codecs(fs) == IF Len(fs) = 1 /\ fs[1].type = Yaml THEN "value" ELSE "error"

PropertyIDs(fs) ==
  IF \A i \in 1..Len(fs) : fs[i].id = i /\ fs[i].type = String
  THEN "value" ELSE "error"

Segments(fs) ==
  IF /\ Len(fs) % 2 = 0
     /\ \A i \in 1..Len(fs) : IF i % 2 = 1 THEN fs[i].type = String
                              ELSE fs[i].type = Fixed /\ fs[i].len = 4
  THEN "value" ELSE "error"

\* The days vector of one property: a count and eleven bytes a day.
IsDays(f, days) ==
  /\ f.type = Vector
  /\ f.len >= 2 /\ f.num = days /\ f.len = 2 + 11 * days
  /\ f.dates

\* A fault: the loop stops at the last field without asking what it is.
AvailUnfinished(fs) ==
  LET days == fs[1].num
      loop[i \in 2..Len(fs) + 1] ==
        IF i >= Len(fs) THEN "value"
        ELSE IF fs[i].type = String /\ IsDays(fs[i + 1], days) THEN loop[i + 2]
        ELSE "error"
  IN IF fs = <<>> THEN "panic"
     ELSE IF fs[1].id = 1 /\ fs[1].type = Number /\ fs[1].len = 2 THEN loop[2]
     ELSE "error"

\* ParseSearchAvailResp walks over the fields: the number of days, then pairs
\* of a property and its days.
Avail(fs) ==
  LET days == fs[1].num
      loop[i \in 2..Len(fs) + 1] ==
        IF i > Len(fs) THEN "value"
        ELSE IF /\ fs[i].type = String
                /\ i + 1 <= Len(fs) /\ IsDays(fs[i + 1], days) THEN loop[i + 2]
        ELSE "error"
  IN IF fs = <<>> THEN "panic"
     ELSE IF fs[1].id = 1 /\ fs[1].type = Number /\ fs[1].len = 2 THEN loop[2]
     ELSE "error"

-----------------------------------------------------------------------------
(* The commands, by what they do with a response                           *)

Deletions == {"DelProp", "DelSegment", "DelPropDay", "DelPropRoom", "DelRoomDay"}
Scalars   == {"SetRoomAvl", "IncRoomAvl", "DecRoomAvl"}
Flags     == {"PropExist", "PropRoomExist"}
Lists     == {"PropRoomList", "PropRoomDateList"}
Commands  == Deletions \cup Scalars \cup Flags \cup Lists \cup
  {"SetProp", "SetRoomPkg", "SearchProp", "SearchAvail", "GetPropRoomDay",
   "GetSegments", "GetCodecs"}

\* Commands whose error path reads fields[0] whatever the fields are.
Unguarded == {"SetProp", "SetRoomAvl", "IncRoomAvl", "PropExist"}

\* A fault: an existence query that the router refuses answers "no".
OnErrorAsNo(cmd, fs) == IF cmd \in Flags THEN "value" ELSE TextUnguarded(fs)

OnError(cmd, fs) ==
  IF cmd \in Unguarded THEN TextUnguarded(fs)
  ELSE IF cmd = "SearchProp" /\ fs # <<>> /\ fs[1].id # 1 THEN "error"
  ELSE Text(fs)

OnSuccess(cmd, fs) ==
  CASE cmd \in Scalars         -> Scalar(fs)
    [] cmd \in Flags           -> Flag(fs)
    [] cmd = "GetPropRoomDay"  -> RoomDay(fs)
    [] cmd = "GetCodecs"       -> Codecs(fs)
    [] cmd = "SearchProp"      -> PropertyIDs(fs)
    [] cmd = "SearchAvail"     -> Avail(fs)
    [] cmd = "GetSegments"     -> Segments(fs)
    [] OTHER                   -> "value"

Outcomes == {"value", "message", "error", "panic"}

\* What the Parse function of cmd makes of frame f.
Parse(cmd, f) ==
  IF f.status = "SUCCESS" THEN OnSuccess(cmd, FieldsKept(f))
  ELSE OnError(cmd, FieldsKept(f))

\* The zero RawResult, which Execute returns for a call that failAll ended.
NoResponse == [status |-> "", count |-> 0, fields |-> <<>>]
=============================================================================
