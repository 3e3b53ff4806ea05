------------------------------- MODULE Requests -------------------------------
(***************************************************************************)
(* A request on its way through Verify (pkg/types/request.go) and the      *)
(* Build function of its command (internal/command): it is refused, with   *)
(* an error, or becomes a sequence of fields [id, type, data].             *)
(*                                                                         *)
(* A payload is a function from the parameters of its command to values:   *)
(* <<v>> for a value v, <<>> for a nil pointer or slice.  The value of     *)
(* a list is a sequence of names, and a name the sequence of its pieces    *)
(* between commas, since lists are sent joined by commas.                  *)
(***************************************************************************)
EXTENDS Responses, Dates, Errors, Features

NameLists == {"Amenities", "RateFeature"}
Slices    == NameLists \cup {"Dates"}

\* Parameters that are fields of every request, and are not checked for being
\* nil, by the commands that have the same ones.
RoomDays == {"DelRoomDay", "GetPropRoomDay"}
Rooms    == {"DelPropRoom", "PropRoomExist", "PropRoomDateList"}
ByID     == {"DelProp", "PropExist", "PropRoomList"}

Field3(i, type, param) == [id |-> i, type |-> type, param |-> param]

\* Fields of type String, with ids from 1 on.
Strings(params) == [i \in 1..Len(params) |-> Field3(i, String, params[i])]

\* The fields of each command, in the order in which they are written.
Schema(cmd) ==
  CASE cmd = "SetProp" ->
         Strings(<<"Segment", "Area", "PropertyID", "PropertyType", "Category">>) \o
         <<Field3(6, Number, "Stars"), Field3(7, Fixed, "Latitude"),
           Field3(8, Fixed, "Longitude"), Field3(9, String, "Amenities")>>
    [] cmd = "SetRoomPkg" ->
         Strings(<<"PropertyID", "RoomType", "Date">>) \o
         <<Field3(4, Number, "Availability"), Field3(5, Fixed, "FinalPrice"),
           Field3(6, String, "RateFeature")>>
    [] cmd = "SearchProp" ->
         Strings(<<"Segment", "Area", "Type">>) \o
         <<Field3(4, Number, "Stars"), Field3(5, String, "Category"),
           Field3(6, String, "Amenities"), Field3(7, Fixed, "Longitude"),
           Field3(8, Fixed, "Latitude"), Field3(9, Fixed, "Limit")>>
    [] cmd = "SearchAvail" ->
         Strings(<<"Segment", "RoomType", "Area", "PropertyID", "Type">>) \o
         <<Field3(6, Number, "Stars"), Field3(7, String, "Category"),
           Field3(8, String, "Amenities"), Field3(9, Fixed, "Longitude"),
           Field3(10, Fixed, "Latitude"), Field3(11, String, "Dates"),
           Field3(12, Number, "Availability"), Field3(13, Fixed, "FinalPrice"),
           Field3(14, String, "RateFeature"), Field3(15, Fixed, "Limit")>>
    [] cmd \in Scalars ->
         Strings(<<"PropertyID", "RoomType", "Date">>) \o <<Field3(4, Number, "Amount")>>
    [] cmd \in RoomDays -> Strings(<<"PropertyID", "RoomType", "Date">>)
    [] cmd = "DelPropDay" -> Strings(<<"PropertyID", "Date">>)
    [] cmd \in Rooms -> Strings(<<"PropertyID", "RoomType">>)
    [] cmd \in ByID -> Strings(<<"PropertyID">>)
    [] cmd = "DelSegment" -> Strings(<<"Segment">>)
    [] OTHER -> <<>>

Params(cmd) == {Schema(cmd)[i].param : i \in DOMAIN Schema(cmd)}

-----------------------------------------------------------------------------
(* Verify                                                                  *)

\* Texts that must not be empty.
Required(cmd) ==
  CASE cmd = "SetProp" -> {"Segment", "Area", "PropertyID", "PropertyType", "Category"}
    [] cmd = "SearchProp" -> {"Segment"}
    [] cmd = "SearchAvail" -> {"Segment", "RoomType"}
    [] OTHER -> {"Segment", "PropertyID", "RoomType"} \cap Params(cmd)

\* Single ids come as arguments of the method, which trims them first.
Empty(cmd) == IF cmd \in ByID \cup {"DelSegment"} THEN {"", " "} ELSE {""}

\* A value that is given lies in a range; one that is not need not.
Within(p, param, range) ==
  param \in DOMAIN p /\ p[param] # <<>> => p[param][1] \in range

ListOf(v) == IF v = <<>> THEN <<>> ELSE v[1]

DatesOf(p) ==
  IF "Dates" \in DOMAIN p THEN ToSet(ListOf(p.Dates))
  ELSE IF "Date" \in DOMAIN p THEN {p.Date[1]} ELSE {}

\* Whether Verify looks into the codecs.
LooksUp(p) == "RateFeature" \in DOMAIN p /\ ListOf(p.RateFeature) # <<>>

\* The checks of Verify, by the given clock; codecs holds the rate features known.
TextsGiven(cmd, p) == \A param \in Required(cmd) : p[param][1] \notin Empty(cmd)

NumbersAllowed(cmd, p) ==
  /\ cmd \in {"SetProp", "SearchProp"} => Within(p, "Stars", 1..5)
  /\ Within(p, "Latitude", -90..90) /\ Within(p, "Longitude", -180..180)
  /\ cmd \in Scalars => p.Amount # <<0>>
  /\ cmd = "SearchAvail" => p.Limit # <<0>>

DatesAllowed(cmd, p, clock) ==
  /\ cmd = "SearchAvail" => ListOf(p.Dates) # <<>>
  /\ \A d \in DatesOf(p) : ValidateDate(d, clock)

ValidateRateFeatures(p, codecs) ==
  LooksUp(p) => ToSet(p.RateFeature[1]) \subseteq ToSet(codecs[1])

\* A fault: a text may be empty.
ValidWithoutTexts(cmd, p, clock, codecs) ==
  NumbersAllowed(cmd, p) /\ DatesAllowed(cmd, p, clock) /\ ValidateRateFeatures(p, codecs)

\* What Verify accepts.
Valid(cmd, p, clock, codecs) ==
  /\ TextsGiven(cmd, p) /\ NumbersAllowed(cmd, p)
  /\ DatesAllowed(cmd, p, clock) /\ ValidateRateFeatures(p, codecs)

-----------------------------------------------------------------------------
(* The Build functions                                                     *)

\* strings.Join(list, ","), as the pieces between its commas.
Join(list) == IF list = <<>> THEN <<"">> ELSE FlattenSeq(list)

\* A fault: a search by stars, price or limit cannot ask for zero.
ToldUnlessZero(cmd, p, param) ==
  /\ cmd # "SetProp" => p[param] # <<>>
  /\ cmd = "SearchAvail" /\ param \in {"Availability", "FinalPrice"} => p[param] # <<0>>
  /\ cmd = "SearchAvail" /\ param \in Slices => p[param] # << <<>> >>

\* Whether a parameter is written: not if it is nil, except for SETPROP, and
\* for SEARCHAVAIL not if it is an empty list.
Told(cmd, p, param) ==
  \/ cmd = "SetProp"
  \/ /\ p[param] # <<>>
     /\ cmd = "SearchAvail" /\ param \in Slices => p[param] # << <<>> >>

Written(p, param) ==
  IF param \in NameLists THEN Join(ListOf(p[param])) ELSE p[param]

\* The fields of a request; their number goes in front of them.
Filled(f, p) == [id |-> f.id, type |-> f.type, data |-> Written(p, f.param)]
Build(cmd, p) ==
  FlattenSeq([i \in 1..Len(Schema(cmd)) |->
    LET f == Schema(cmd)[i] IN IF Told(cmd, p, f.param) THEN <<Filled(f, p)>> ELSE <<>>])

\* BuildSetRoomPkgPayload checks its texts once more.
Buildable(cmd, p) ==
  cmd = "SetRoomPkg" => p.PropertyID # <<"">> /\ p.RoomType # <<"">> /\ p.Date # <<Malformed>>

-----------------------------------------------------------------------------
NoError == [kind |-> "none", code |-> ""]

Outcome(how, error, fields) == [outcome |-> how, error |-> error, fields |-> fields]

\* A method of the client up to the call of Execute.
Prepare(cmd, p, clock, codecs) ==
  IF LooksUp(p) /\ codecs = <<>> THEN Outcome("panic", NoError, <<>>)
  ELSE IF ~Valid(cmd, p, clock, codecs)
    THEN Outcome("refused", RzError(Plain("VALIDATION_ERROR")), <<>>)
  ELSE IF ~Buildable(cmd, p)
    THEN Outcome("refused", RzError(Plain("missing required fields")), <<>>)
  ELSE Outcome("built", NoError, Build(cmd, p))
=============================================================================
