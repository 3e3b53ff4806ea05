--------------------------- MODULE MessageProperties ---------------------------
(***************************************************************************)
(* What callers, and the router, rely on at each stage of a request and of *)
(* its response.                                                           *)
(***************************************************************************)
EXTENDS MessageCheck

Parsed == stage = "parsed"
Verified == request.outcome \in {"built", "refused"}

-----------------------------------------------------------------------------
(* Requests                                                                *)

\* What is in a list is what stands between commas, if anything does: the list
\* of one empty name is not told from the empty one.
Meaning(param, v) ==
  IF param \in NameLists
  THEN LET names == FlattenSeq(ListOf(v)) IN IF names = <<"">> THEN <<>> ELSE names
  ELSE v

\* Two requests a server can tell apart: they have different fields, or
\* different data in the same field.
Apart(fs, gs) ==
  \/ {fs[i].id : i \in DOMAIN fs} # {gs[i].id : i \in DOMAIN gs}
  \/ \E i \in DOMAIN fs, j \in DOMAIN gs : fs[i].id = gs[j].id /\ fs[i].data # gs[j].data

\* Every parameter is told: whichever parameter of a built request the caller
\* had chosen to mean something else, the server would have read something
\* else, so that no filter, amount or price is silently left out, least of all
\* the zero of one (Verify and Build of every command).
EveryParameterTold ==
  request.outcome = "built" =>
    \A param \in Params(command) :
      \A v \in Values[command][param] \cup {Base[command][param]} :
        LET other == Prepare(command, [payload EXCEPT ![param] = v],
                             request.clock, request.codecs)
        IN Meaning(param, v) # Meaning(param, payload[param]) /\ other.outcome = "built"
           => Apart(request.fields, other.fields)

\* The days from the 1st of March of the year 0 to a date, the last day of a
\* leap year being its 29th of February.
DayNumber(d) ==
  LET year  == IF d[2] > 2 THEN d[1] ELSE d[1] - 1
      month == (d[2] + 9) % 12
  IN 365 * year + (year \div 4) - (year \div 100) + (year \div 400)
     + ((153 * month + 2) \div 5) + d[3] - 1

DaysAhead(d) == DayNumber(d) - DayNumber(Today(request.clock))

\* The days ahead that are allowed everywhere and always: one less than 365 if
\* the clock of the host will be further ahead of UTC than it is.
DaysGranted(clock) == IF clock.now < clock.then THEN 364 ELSE 365

\* The window of dates: what is sent is of the calendar, not past in UTC and at
\* most 366 days ahead, across the ends of years, the 29th of February and the
\* changes of summer time, in every zone; and a request is not refused for its
\* dates when there is one, if it needs one, and each is within the days that
\* are granted (request.go:19).
DateWindow ==
  Verified =>
    /\ request.outcome = "built" =>
         \A d \in DatesOf(payload) :
           d # Malformed /\ IsDate(d) /\ DaysAhead(d) \in 0..366
    /\ \/ request.outcome = "built"
       \/ command = "SearchAvail" /\ DatesOf(payload) = {}
       \/ \E d \in DatesOf(payload) :
            \/ d = Malformed \/ ~IsDate(d)
            \/ DaysAhead(d) \notin 0..DaysGranted(request.clock)
       \/ \E param \in Params(command) \ {"Date", "Dates"} :
            payload[param] # Base[command][param]

\* The number has two bytes.
TwoBytes(n) == n < 65536

\* A date that a request may ask for comes back as it was when the router and
\* the SDK agree on the year.  The SDK's is that of its own zone (helpers.go:43):
\* around the turn of the year it can be one ahead of the router's, or one
\* behind, and the date is then the same day of the year after, or before, or
\* an error if there is no such day.
DatesComeBack ==
  request.outcome = "built" =>
    \A d \in DatesOf(payload) :
      LET year     == Today(request.clock)[1]
          packed   == Pack(d, year)
          moved(k) == <<d[1] + k, d[2], d[3]>>
      IN /\ TwoBytes(packed)
         /\ U16ToDate(packed, year) = d
         /\ \A k \in {-1, 1} : U16ToDate(packed, year + k) =
                               IF IsDate(moved(k)) THEN moved(k) ELSE Malformed

\* The features that a request was allowed to name, answers can name too: as
\* long as the codecs are those it was verified with, they come back as they
\* were, except for the ones beyond the 24 of a mask, which Verify accepts and
\* no answer shows; and without codecs none does (codecs.go:23, helpers.go:28).
FeaturesComeBack ==
  request.outcome = "built" /\ LooksUp(payload) =>
    LET asked    == payload.RateFeature[1]
        registry == request.codecs[1]
        mask     == Mask(asked, registry)
        shown    == {registry[i] : i \in 1..Len(registry) \cap 1..24}
    IN /\ ToSet(BitmaskToRateFeatureStrings(<<registry>>, mask)) = ToSet(asked) \cap shown
       /\ BitmaskToRateFeatureStrings(<<>>, mask) = <<>>

\* A request that is refused on the spot is told as one to correct, never as a
\* bug of the SDK: Verify knows of everything that Build would refuse.
RefusalIsRequest == request.outcome = "refused" => error.kind = "request"

-----------------------------------------------------------------------------
(* Frames                                                                  *)

Framed == stage = "framed"

\* The bytes that follow a frame are the next frame: whatever the length of
\* the segment, of 256 bytes and more too, the reader of one frame stops where
\* the next begins (frame.go:36, 185).
FramesAligned ==
  Framed =>
    \A rest \in Rests :
      LET sent == frame.bytes \o rest
      IN rest = IF frame.to = "shard" THEN From(sent, 10 + Uint32(SubSeq(sent, 6, 9)))
                ELSE TakeApart(sent).rest

\* No request is misrouted: a router finds in a frame what was asked, or sees
\* that the frame is broken, which it is only by a segment of more than 255
\* bytes (frame.go:66); the keepalive is a whole frame too.
NeverMisrouted ==
  Framed /\ frame.to # "shard" =>
    LET asked == [segment |-> frame.segment, isWrite |-> frame.isWrite,
                  clrid   |-> frame.id,
                  payload |-> IF frame.to = "router" THEN Payload ELSE <<>>]
        found == TakeApart(frame.bytes).request
    IN \/ found = <<asked>>
       \/ found = <<>> /\ Len(frame.segment) > 255

-----------------------------------------------------------------------------
(* Responses                                                               *)

\* Bound: responses are written out as bytes up to so many fields.
MaxBytesFields == 2

\* Bound: the id they carry, of more than two bytes.
WireID == 65536

StatusBytes == [s \in {"SUCCESS", "ERROR", ""} |->
  CASE s = "SUCCESS" -> <<83, 85, 67, 67, 69, 83, 83>>
    [] s = "ERROR"   -> <<69, 82, 82, 79, 82>>
    [] OTHER         -> <<>>]

\* The fields of the response as they are on the wire: two bytes of the number
\* and then some.
Raw(f) ==
  [id |-> f.id, type |-> f.type,
   data |-> [i \in 1..f.len |-> IF i <= 2 THEN LE2(f.num)[i] ELSE 255]]
RawFields == [i \in 1..Len(frame.fields) |-> Raw(frame.fields[i])]
FieldsBytes ==
  FlattenSeq([i \in 1..Len(RawFields) |-> FieldBytes(RawFields[i])])

Sent(count) == Response(WireID, StatusBytes[frame.status], count, FieldsBytes)
OnWire == stage = "answer" /\ Len(frame.fields) <= MaxBytesFields

\* A response is read as it was written, and what follows it stays: DrainFrame
\* and ParseFields find the id, the status and the fields; and not one field
\* when the count is one off, a byte is missing or a byte is left over
\* (frame.go:113, 148).
BytesAgree ==
  OnWire =>
    \A extra \in {-1, 0, 1} : \A rest \in Rests :
      LET count == Len(frame.fields) + extra
          h     == DrainFrame(Sent(count) \o rest)[1]
      IN count >= 0 =>
           /\ h.clrid = WireID /\ h.status = StatusBytes[frame.status] /\ h.rest = rest
           /\ ParseFields(h.data, h.count) = IF extra = 0 THEN <<RawFields>> ELSE <<>>
           /\ ParseFields(h.data \o <<0>>, h.count) = <<>>
           /\ h.data # <<>> =>
                ParseFields(SubSeq(h.data, 1, Len(h.data) - 1), h.count) = <<>>

\* A connection that breaks within a response yields none: wherever it breaks,
\* readLoop ends, and no call gets a part of an answer (frame.go:113).
TornIsError ==
  OnWire =>
    \A n \in 0..Len(Sent(Len(frame.fields))) - 1 :
      DrainFrame(SubSeq(Sent(Len(frame.fields)), 1, n)) = <<>>

\* No command reports a value unless the router said SUCCESS, whatever fields
\* come along (every Parse function of internal/command).
StatusDecides == result = "value" => frame.status = "SUCCESS"

\* What SEARCHAVAIL is answered with: the number of days, then any number of
\* properties, each followed by a vector of so many days.
IsAvailability(fs) ==
  /\ Len(fs) % 2 = 1
  /\ fs[1].id = 1 /\ fs[1].type = Number /\ fs[1].len = 2
  /\ \A k \in 1..(Len(fs) - 1) \div 2 :
       fs[2 * k].type = String /\ IsDays(fs[2 * k + 1], fs[1].num)

\* The loop of ParseSearchAvailResp accepts exactly these answers: none is cut
\* short, none with something left over slips through.
AvailExact ==
  Parsed /\ command = "SearchAvail" /\ frame.status = "SUCCESS" =>
    (result = "value" <=> IsAvailability(FieldsKept(frame)))

\* Commands whose SUCCESS needs no field to be read.
FieldsOptional ==
  Deletions \cup Lists \cup {"SetProp", "SetRoomPkg", "SearchProp", "GetSegments"}

\* The damage is contained: a frame whose fields do not add up, which readLoop
\* delivers as one without fields, never yields a value that was read in it;
\* only a command that needs no field takes it for a success (handler.go:256).
DamageContained ==
  result = "value" /\ frame.count # Len(frame.fields) => command \in FieldsOptional

-----------------------------------------------------------------------------
(* Errors                                                                  *)

\* The kinds of the router's codes: err.go:19-26 gives the errors of login to
\* the client, validation, a thing not found and an overflow to the request, and
\* 429, 503, 308 and a change of role to retry; README.md:381-386 says the same
\* of 429 and 503, of a rule broken and of the unexpected.  It has no category
\* of the client, and one of its own for changes of topology, which the SDK
\* counts among those to retry (err.go:42).  Of 405, an underflow and what is
\* forbidden only classify tells.
KindOfCode(code) ==
  IF code \in {"503", "429", "308", "405"} THEN "retry"
  ELSE IF code \in {"VALIDATION_ERROR", "NOT_FOUND", "OVERFLOW", "UNDERFLOW", "FORBIDDEN"}
    THEN "request"
  ELSE IF code = "AUTH_ERROR" THEN "client"
  ELSE "internal"

\* The router's verdict survives in every command: a response that is not a
\* SUCCESS and whose only field is a string becomes an error of the kind and
\* with the code of this string (the error paths of the Parse functions,
\* err.go:60).
KindSurvives ==
  (/\ Parsed /\ frame.status # "SUCCESS" /\ frame.count = 1
   /\ Len(frame.fields) = 1 /\ frame.fields[1].id = 1
   /\ frame.fields[1].type = String)
  => error = [kind |-> KindOfCode(frame.said), code |-> frame.said]

\* The kind tells what has happened to the request: only the router's word
\* makes an error one to retry, so that a request whose fate is unknown, a
\* timeout or a lost connection, never is; an error of the request is one of
\* the router or of Verify, before anything was sent; and one of the client
\* comes from its configuration or its credentials (err.go:128).
KindTellsWhere ==
  LET said == IF Parsed THEN KindOfCode(frame.said) ELSE "nothing"
  IN /\ error.kind = "retry" => said = "retry"
     /\ error.kind = "request" => (request.outcome = "refused" \/ said = "request")
     /\ error.kind = "client" =>
          \/ stage = "refused" /\ request.outcome = "none"
          \/ said = "client"
=============================================================================
