----------------------------- MODULE MessageCheck -----------------------------
(***************************************************************************)
(* One request on its way out and one response on its way back: the caller *)
(* configures the client, fills in a payload and calls the method; the     *)
(* payload is verified, built and framed; a response of any fields arrives *)
(* or none does; it is drained, parsed, and what is wrong is classified.   *)
(* What the pure functions of the SDK make of it at each stage is compared *)
(* with what callers, or the router, rely on.                              *)
(***************************************************************************)
EXTENDS Requests, Wire

CONSTANTS
  Base,        \* Base[cmd]: a payload that Verify accepts by any of Clocks
  Values,      \* Values[cmd][param]: other values of its parameters
  MaxChanges,  \* bound: how many parameters differ from the base
  Clocks,      \* what the clock of the host may show, as in Dates
  Registries,  \* codecs the client may hold, as in Features
  Routes,      \* segments a request may be routed by, as bytes
  Payload,     \* the bytes of a request, which frames do not look into
  KeepaliveSegment,
  Rests,       \* what may follow a frame on a connection
  Alphabet,    \* Alphabet[cmd]: the fields a response to cmd may be made of
  MaxFields,   \* MaxFields[cmd]: bound: the number of its fields
  Said,        \* texts of the router's errors, by their codes
  Transport    \* texts of the errors of Execute

\* What a parameter of a payload may be.
Offered(cmd, param) == Values[cmd][param] \cup {Base[cmd][param]}

\* The dates a caller may write, of the calendar or not.
DateTexts == (Nat \X Nat \X Nat) \cup {Malformed}

\* Bound: the bytes of a frame, far more than anything sent.
MaxFrame == 2147483647

ASSUME BoundsAssumption ==
  MaxChanges \in Nat /\ \A cmd \in Commands : MaxFields[cmd] \in Nat
\* A name of the codecs is the sequence of its pieces between commas.
ASSUME RegistriesAssumption ==
  \A codecs \in Registries :
    codecs = <<>> \/ \E names \in ToSet(codecs) : names \in Seq(Seq(STRING)) /\ codecs = <<names>>
ASSUME DatesAssumption ==
  /\ \A clock \in Clocks : IsClock(clock) /\ clock.date \in Nat \X Nat \X Nat
  /\ \A cmd \in Commands :
       /\ DOMAIN Base[cmd] = Params(cmd)
       /\ "Date" \in Params(cmd) => \A v \in Offered(cmd, "Date") : v[1] \in DateTexts
       /\ "Dates" \in Params(cmd) =>
            \A v \in Offered(cmd, "Dates") : ToSet(ListOf(v)) \subseteq DateTexts
ASSUME BaseAssumption ==
  \A cmd \in Commands, clock \in Clocks, codecs \in Registries :
    Valid(cmd, Base[cmd], clock, codecs)
\* A segment is a text, and no byte of a text in UTF-8 is 255.
ASSUME SegmentAssumption ==
  /\ KeepaliveSegment \in Seq(Byte) /\ Len(KeepaliveSegment) < 256
  /\ Payload \in Seq(Byte) /\ Len(Payload) <= MaxFrame
  /\ Rests \subseteq Seq(Byte)
  /\ \A s \in Routes :
       /\ s \in Seq(Byte) /\ Len(s) + Len(Payload) + 11 <= MaxFrame
       /\ \A i \in DOMAIN s : s[i] # Magic
\* Bound: the bytes of a field, far more than anything answered.
MaxData == 1073741824

MaxUint16 == 65535

\* A field of a response has an id and a first number of two bytes and a type of
\* one.
ASSUME AlphabetAssumption ==
  \A cmd \in Commands : \A f \in Alphabet[cmd] :
    /\ f.id \in 0..MaxUint16 /\ f.num \in 0..MaxUint16 /\ f.type \in Byte
    /\ f.len \in 0..MaxData
\* No error of a connection begins with a code of the router.
ASSUME TransportAssumption ==
  \A t \in Transport : t \notin {"AUTH_ERROR"} \cup RequestCodes \cup RetryCodes

VARIABLES
  stage,    \* how far the exchange is
  command,
  payload,  \* what the caller asks for
  changes,  \* how many parameters differ from the base
  request,  \* what became of the request
  frame,    \* the frame on the wire, or the response
  result,   \* what the Parse function made of the response
  error     \* the error of the method, if it returned one

vars == <<stage, command, payload, changes, request, frame, result, error>>

NoRequest == Outcome("none", NoError, <<>>)
NoFrame   == [status |-> "", count |-> 0, fields |-> <<>>]

Init ==
  /\ stage = "config"
  /\ command \in Commands /\ payload = Base[command] /\ changes = 0
  /\ request = NoRequest /\ frame = NoFrame
  /\ result = "none" /\ error = NoError

-----------------------------------------------------------------------------
(* The request                                                             *)

\* WithAddr trims the address; Build wants it and a port, or returns an error
\* that validate has marked already.
Configure ==
  /\ stage = "config"
  /\ \E addr \in {"", " ", "host"}, port \in {0, 1} :
       IF addr \in {"", " "} \/ port = 0
       THEN /\ error' = RzErrorAs(RzErrorAs(Plain("server address is required"), "client"),
                                  "client")
            /\ stage' = "refused"
       ELSE stage' = "edit" /\ UNCHANGED error
  /\ UNCHANGED <<command, payload, changes, request, frame, result>>

\* The caller asks for something else.
Change ==
  /\ stage = "edit" /\ changes < MaxChanges
  /\ \E param \in Params(command) : \E v \in Values[command][param] :
       /\ payload[param] = Base[command][param] /\ v # payload[param]
       /\ payload' = [payload EXCEPT ![param] = v]
  /\ changes' = changes + 1
  /\ UNCHANGED <<stage, command, request, frame, result, error>>

\* The method verifies and builds the request, with the codecs it has.
Call ==
  /\ stage = "edit" /\ command # "GetSegments"
  /\ \E clock \in Clocks, codecs \in Registries :
       LET r == Prepare(command, payload, clock, codecs) IN
       /\ request' = [outcome |-> r.outcome, fields |-> r.fields,
                       clock |-> clock, codecs |-> codecs]
       /\ stage' = IF r.outcome = "built" THEN "built" ELSE "refused"
       /\ error' = r.error
  /\ UNCHANGED <<command, payload, changes, frame, result>>

\* The commands that Execute is told to be writes.
Writes == Deletions \cup Scalars \cup {"SetProp", "SetRoomPkg"}

\* Bound: ids of frames.
FrameIDs == {0, 1, 65536}

\* Execute, or the keepalive, puts a frame on the connection.
Frame ==
  /\ stage = "built" /\ changes = 0 /\ stage' = "framed"
  /\ \E segment \in Routes, id \in FrameIDs :
       \/ frame' = [to |-> "shard", id |-> id, segment |-> <<>>, isWrite |-> FALSE,
                    bytes |-> PrependHeader(id, Payload)]
       \/ frame' = [to |-> "router", id |-> id, segment |-> segment,
                    isWrite |-> command \in Writes,
                    bytes |-> PrependRouterHeader(segment, command \in Writes, id, Payload)]
       \/ frame' = [to |-> "nobody", id |-> 0, segment |-> KeepaliveSegment,
                    isWrite |-> FALSE, bytes |-> BuildKeepaliveFrame(0, KeepaliveSegment)]
  /\ request' = NoRequest
  /\ UNCHANGED <<command, payload, changes, result, error>>

\* Execute returns an error.
Fail ==
  /\ stage = "built" /\ stage' = "failed"
  /\ \E t \in Transport : error' = RzError(Plain(t))
  /\ request' = NoRequest
  /\ UNCHANGED <<command, payload, changes, frame, result>>

-----------------------------------------------------------------------------
(* The response                                                            *)

\* A response begins.  No method calls GETSEGMENTS, whose Parse function is
\* there.
Answer ==
  /\ changes = 0
  /\ \/ stage = "built"
     \/ stage = "edit" /\ command = "GetSegments"
  /\ stage' = "answer"
  /\ \E status \in {"SUCCESS", "ERROR", ""} : frame' = [NoFrame EXCEPT !.status = status]
  /\ request' = NoRequest
  /\ UNCHANGED <<command, payload, changes, result, error>>

\* One more field of the response.
NextField ==
  /\ stage = "answer"
  /\ Len(frame.fields) < MaxFields[command]
  /\ \E f \in Alphabet[command] : frame' = [frame EXCEPT !.fields = Append(@, f)]
  /\ UNCHANGED <<stage, command, payload, changes, request, result, error>>

\* The error of a method whose Parse function returned none of the values.
MethodError(outcome, f, said) ==
  CASE outcome = "message" ->
         RzError(Plain(IF f.fields[1].type = String THEN said ELSE "garbage"))
    [] outcome = "error" -> RzError(Plain("RESPONSE_ERROR"))
    [] OTHER -> NoError

\* The response is complete, and declares its fields or one too many.
ParseResponse ==
  /\ stage = "answer" /\ stage' = "parsed"
  /\ \E extra \in {0, 1}, said \in IF frame.status = "SUCCESS" THEN {""} ELSE Said :
       /\ frame' = [status |-> frame.status, count |-> Len(frame.fields) + extra,
                    fields |-> frame.fields, said |-> said]
       /\ result' = Parse(command, frame')
       /\ error' = MethodError(result', frame', said)
  /\ UNCHANGED <<command, payload, changes, request>>

Finished == stage \in {"refused", "failed", "framed", "parsed"} /\ UNCHANGED vars

Next ==
  \/ Configure \/ Change \/ Call \/ Frame \/ Fail
  \/ Answer \/ NextField \/ ParseResponse \/ Finished

Spec == Init /\ [][Next]_vars
===============================================================================
