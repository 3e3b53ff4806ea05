----------------------------- MODULE MessageProofs -----------------------------
(***************************************************************************)
(* What holds of requests and responses for every payload, date, segment,  *)
(* response and error, whatever a caller asks for and a router answers.    *)
(***************************************************************************)
EXTENDS MessageProperties, WireProofs

-----------------------------------------------------------------------------
(* The inductive invariant                                                 *)

Typed ==
  /\ stage \in {"config", "edit", "built", "refused", "framed", "failed", "answer", "parsed"}
  /\ command \in Commands
  /\ DOMAIN payload = Params(command)
  /\ \A param \in Params(command) : payload[param] \in Offered(command, param)

\* A request is built from what was verified, and lasts until it is sent.
Requested ==
  /\ request.outcome = "built" =>
       /\ request.clock \in Clocks /\ request.codecs \in Registries
       /\ Valid(command, payload, request.clock, request.codecs)
       /\ ~(LooksUp(payload) /\ request.codecs = <<>>)
       /\ request.fields = Build(command, payload)
  /\ request.outcome = "refused" =>
       /\ request.clock \in Clocks /\ request.codecs \in Registries
       /\ ~Valid(command, payload, request.clock, request.codecs)
  /\ stage \in {"config", "edit", "framed", "failed", "answer", "parsed"} =>
       request = NoRequest

\* A frame is of a request or a keepalive.
Framing ==
  stage = "framed" =>
    \/ /\ frame.to = "shard" /\ frame.id \in FrameIDs
       /\ frame.bytes = PrependHeader(frame.id, Payload)
    \/ /\ frame.to = "router" /\ frame.id \in FrameIDs
       /\ frame.segment \in Routes /\ frame.isWrite \in BOOLEAN
       /\ frame.bytes = PrependRouterHeader(frame.segment, frame.isWrite, frame.id, Payload)
    \/ /\ frame.to = "nobody" /\ frame.id = 0
       /\ frame.segment = KeepaliveSegment /\ frame.isWrite = FALSE
       /\ frame.bytes = BuildKeepaliveFrame(0, KeepaliveSegment)

\* Where a result and an error come from.
Ended ==
  /\ IF stage = "parsed"
     THEN result = Parse(command, frame) /\ error = MethodError(result, frame, frame.said)
     ELSE result = "none"
  /\ stage \in {"config", "edit", "built", "framed", "answer"} => error = NoError
  /\ stage = "failed" => \E t \in Transport : error = RzError(Plain(t))
  /\ stage = "refused" =>
       \/ request = NoRequest /\ error.kind = "client"
       \/ request.outcome = "refused" /\ error.kind = "request"
       \/ request.outcome = "panic" /\ error = NoError
  /\ request.outcome = "refused" => stage = "refused"
  /\ request.outcome = "built" => stage = "built"

\* A response is made of the fields that a response to the command may have.
Responding ==
  /\ stage = "answer" =>
       frame \in [status : {"SUCCESS", "ERROR", ""}, count : {0},
                  fields : Seq(Alphabet[command])]
  /\ stage = "parsed" => frame.fields \in Seq(Alphabet[command])

IInv == Typed /\ Requested /\ Framing /\ Ended /\ Responding

-----------------------------------------------------------------------------
(* What a method makes of a payload                                        *)

Joined(a, b, c, d, e, f) == <<a, b, c>> \o <<d, e, f>> = <<a, b, c, d, e, f>>

\* Two sequences of three, put together.
LEMMA ThreeAndThree ==
  ASSUME NEW a, NEW b, NEW c, NEW d, NEW e, NEW f
  PROVE  Joined(a, b, c, d, e, f)
  <1> DEFINE S == {a, b, c, d, e, f}
             s == <<a, b, c>>
             t == <<d, e, f>>
             u == <<a, b, c, d, e, f>>
  <1>1. s \in Seq(S) /\ t \in Seq(S) /\ u \in Seq(S)
    OBVIOUS
  <1>2. Len(s) = 3 /\ Len(t) = 3 /\ Len(u) = 6
    OBVIOUS
  <1>3. /\ s[1] = u[1] /\ s[2] = u[2] /\ s[3] = u[3]
        /\ t[1] = u[4] /\ t[2] = u[5] /\ t[3] = u[6]
    OBVIOUS
  <1> HIDE DEF S, s, t, u
  <1>4. /\ s \o t \in Seq(S) /\ Len(s \o t) = 6
        /\ \A i \in 1..6 : (s \o t)[i] = IF i <= 3 THEN s[i] ELSE t[i - 3]
    <2>1. /\ s \o t \in Seq(S) /\ Len(s \o t) = Len(s) + Len(t)
          /\ \A i \in 1..Len(s) + Len(t) :
               (s \o t)[i] = IF i <= Len(s) THEN s[i] ELSE t[i - Len(s)]
      BY <1>1, ConcatProperties
    <2>2. Len(s) + Len(t) = 6
      BY <1>2
    <2> QED BY <1>2, <2>1, <2>2
  <1>5. \A i \in 1..6 : (s \o t)[i] = u[i]
    <2> DEFINE At(i) == (s \o t)[i]
    <2>1. \A i \in 1..6 : At(i) = IF i <= 3 THEN s[i] ELSE t[i - 3]
      BY <1>4
    <2> HIDE DEF At
    <2>2. At(1) = s[1] /\ At(2) = s[2] /\ At(3) = s[3]
      BY <2>1
    <2>3. At(4) = t[1] /\ At(5) = t[2] /\ At(6) = t[3]
      BY <2>1
    <2>4. \A i \in 1..6 : i = 1 \/ i = 2 \/ i = 3 \/ i = 4 \/ i = 5 \/ i = 6
      OBVIOUS
    <2>5. \A i \in 1..6 : At(i) = u[i]
      BY <1>3, <2>2, <2>3, <2>4
    <2> QED BY <2>5 DEF At
  <1>6. s \o t = u
    BY <1>1, <1>2, <1>4, <1>5, SeqEqual
  <1> QED BY <1>6 DEF Joined, s, t, u

\* The parameters of SETROOMPKG.
LEMMA RoomPkgParams ==
  /\ {"PropertyID", "RoomType", "Date"} \subseteq Params("SetRoomPkg")
  /\ "Dates" \notin Params("SetRoomPkg")
  <1> DEFINE ids == <<"PropertyID", "RoomType", "Date">>
             f1 == Field3(1, String, "PropertyID")
             f2 == Field3(2, String, "RoomType")
             f3 == Field3(3, String, "Date")
             f4 == Field3(4, Number, "Availability")
             f5 == Field3(5, Fixed, "FinalPrice")
             f6 == Field3(6, String, "RateFeature")
             all == <<f1, f2, f3, f4, f5, f6>>
  <1>1. Schema("SetRoomPkg") = Strings(ids) \o <<f4, f5, f6>>
    BY DEF Schema, Scalars, RoomDays, Rooms, ByID
  <1>2. Strings(ids) = <<f1, f2, f3>>
    BY DEF Strings
  <1>6. /\ f1.param = "PropertyID" /\ f2.param = "RoomType" /\ f3.param = "Date"
        /\ f4.param = "Availability" /\ f5.param = "FinalPrice"
        /\ f6.param = "RateFeature"
    BY DEF Field3
  <1> HIDE DEF f1, f2, f3, f4, f5, f6
  <1>3. Schema("SetRoomPkg") = all
    <2> HIDE DEF all
    <2>1. Joined(f1, f2, f3, f4, f5, f6)
      BY ThreeAndThree
    <2>3. <<f1, f2, f3>> \o <<f4, f5, f6>> = all
      BY <2>1 DEF Joined, all
    <2>2. Strings(ids) \o <<f4, f5, f6>> = <<f1, f2, f3>> \o <<f4, f5, f6>>
      BY <1>2, Zenon
    <2> HIDE DEF ids
    <2> QED BY <1>1, <2>3, <2>2, Zenon
  <1>4. Params("SetRoomPkg") = {all[k].param : k \in DOMAIN all}
    BY <1>3 DEF Params
  <1>5. DOMAIN all = 1..6
    OBVIOUS
  <1>9. /\ all[1] = f1 /\ all[2] = f2 /\ all[3] = f3
        /\ all[4] = f4 /\ all[5] = f5 /\ all[6] = f6
    OBVIOUS
  <1> HIDE DEF all
  <1>7. /\ all[1].param \in Params("SetRoomPkg") /\ all[2].param \in Params("SetRoomPkg")
        /\ all[3].param \in Params("SetRoomPkg")
    BY <1>4, <1>5
  <1>8. ASSUME "Dates" \in Params("SetRoomPkg")
        PROVE  FALSE
    <2>1. PICK k \in 1..6 : all[k].param = "Dates"
      BY <1>4, <1>5, <1>8
    <2>2. k = 1 \/ k = 2 \/ k = 3 \/ k = 4 \/ k = 5 \/ k = 6
      OBVIOUS
    <2> QED BY <1>6, <1>9, <2>1, <2>2
  <1> QED BY <1>6, <1>9, <1>7, <1>8

\* Verify accepts nothing that the Build function then refuses.
LEMMA ValidIsBuildable ==
  ASSUME NEW cmd \in Commands, NEW p, DOMAIN p = Params(cmd),
         NEW clock, NEW codecs, Valid(cmd, p, clock, codecs)
  PROVE  Buildable(cmd, p)
  <1> SUFFICES ASSUME cmd = "SetRoomPkg"
               PROVE  /\ p.PropertyID # <<"">> /\ p.RoomType # <<"">>
                      /\ p.Date # <<Malformed>>
    BY DEF Buildable
  <1>1. "PropertyID" \in Required(cmd) /\ "RoomType" \in Required(cmd)
    BY RoomPkgParams DEF Required
  <1>2. p["PropertyID"][1] # "" /\ p["RoomType"][1] # ""
    BY <1>1 DEF Valid, TextsGiven, Empty
  <1>3. DatesOf(p) = {p.Date[1]}
    BY RoomPkgParams DEF DatesOf
  <1>4. p.Date[1] # Malformed
    BY <1>3 DEF Valid, DatesAllowed, ValidateDate
  <1>5. \A v : <<v>>[1] = v
    OBVIOUS
  <1> QED BY <1>2, <1>4, <1>5

\* The three ways in which a method can go on with a payload.
LEMMA Prepared ==
  ASSUME NEW cmd \in Commands, NEW p, DOMAIN p = Params(cmd), NEW clock, NEW codecs
  PROVE  LET r == Prepare(cmd, p, clock, codecs)
         IN \/ r.outcome = "panic" /\ r.error = NoError
            \/ /\ r.outcome = "refused" /\ r.error.kind = "request"
               /\ ~Valid(cmd, p, clock, codecs)
            \/ /\ r.outcome = "built" /\ r.error = NoError /\ Valid(cmd, p, clock, codecs)
               /\ ~(LooksUp(p) /\ codecs = <<>>) /\ r.fields = Build(cmd, p)
  <1>1. CASE LooksUp(p) /\ codecs = <<>>
    BY <1>1 DEF Prepare, Outcome
  <1>2. CASE ~(LooksUp(p) /\ codecs = <<>>) /\ ~Valid(cmd, p, clock, codecs)
    BY <1>2 DEF Prepare, Outcome, RzError, Plain, Classify, RequestCodes
  <1>3. CASE ~(LooksUp(p) /\ codecs = <<>>) /\ Valid(cmd, p, clock, codecs)
    BY <1>3, ValidIsBuildable DEF Prepare, Outcome
  <1> QED BY <1>1, <1>2, <1>3

-----------------------------------------------------------------------------
(* Every step preserves the invariant                                      *)

\* The invariant holds at the start.
LEMMA InitIInv == Init => IInv
  <1> SUFFICES ASSUME Init PROVE IInv
    OBVIOUS
  <1>1. Typed
    BY DatesAssumption DEF Init, Typed, Offered
  <1>2. request = NoRequest /\ NoRequest.outcome = "none"
    BY DEF Init, NoRequest, Outcome
  <1> QED BY <1>1, <1>2 DEF Init, IInv, Requested, Framing, Ended, Responding

\* Steps that leave the payload alone.
LEMMA SamePayload ==
  ASSUME Typed, UNCHANGED <<command, payload>>,
         stage' \in {"config", "edit", "built", "refused", "framed", "failed",
                     "answer", "parsed"}
  PROVE  Typed'
  BY DEF Typed

\* Every action preserves the invariant, one case for each.
LEMMA StepIInv == IInv /\ [Next]_vars => IInv'
  <1> SUFFICES ASSUME IInv, [Next]_vars PROVE IInv'
    OBVIOUS
  <1> USE DEF IInv
  <1>0. NoRequest.outcome = "none"
    BY DEF NoRequest, Outcome
  <1>1. CASE Configure
    <2>0. /\ stage = "config" /\ request' = request /\ result' = result
          /\ UNCHANGED <<command, payload>>
      BY <1>1, Zenon DEF Configure
    <2>2. \/ /\ error' = RzErrorAs(RzErrorAs(Plain("server address is required"), "client"),
                                    "client")
             /\ stage' = "refused"
          \/ stage' = "edit" /\ UNCHANGED error
      BY <1>1, Zenon DEF Configure
    <2>1. Typed'
      BY <2>0, <2>2, SamePayload
    <2>3. \/ stage' = "refused" /\ error'.kind = "client"
          \/ stage' = "edit" /\ error' = error
      <3>1. \A code : RzErrorAs(RzErrorAs(Plain(code), "client"), "client").kind = "client"
        BY DEF RzErrorAs, Plain
      <3> QED BY <2>2, <3>1
    <2> QED BY <1>0, <2>0, <2>1, <2>3 DEF Requested, Framing, Ended, Responding
  <1>2. CASE Change
    <2>1. PICK param \in Params(command) :
            \E v \in Values[command][param] :
              payload' = [payload EXCEPT ![param] = v]
      BY <1>2 DEF Change
    <2>2. /\ stage' = stage /\ stage = "edit" /\ command' = command
          /\ request' = request /\ result' = result /\ error' = error
      BY <1>2 DEF Change
    <2>3. Typed'
      BY <2>1, <2>2 DEF Typed, Offered
    <2> QED BY <1>0, <2>2, <2>3 DEF Requested, Framing, Ended, Responding
  <1>3. CASE Call
    <2>1. Typed'
      BY <1>3, SamePayload DEF Call
    <2>2. PICK clock \in Clocks, codecs \in Registries :
            LET r == Prepare(command, payload, clock, codecs) IN
            /\ request' = [outcome |-> r.outcome, fields |-> r.fields,
                           clock |-> clock, codecs |-> codecs]
            /\ stage' = IF r.outcome = "built" THEN "built" ELSE "refused"
            /\ error' = r.error
      BY <1>3 DEF Call
    <2> DEFINE r == Prepare(command, payload, clock, codecs)
    <2>3. \/ r.outcome = "panic" /\ r.error = NoError
          \/ /\ r.outcome = "refused" /\ r.error.kind = "request"
             /\ ~Valid(command, payload, clock, codecs)
          \/ /\ r.outcome = "built" /\ r.error = NoError
             /\ Valid(command, payload, clock, codecs)
             /\ ~(LooksUp(payload) /\ codecs = <<>>) /\ r.fields = Build(command, payload)
      BY Prepared DEF Typed
    <2>4. /\ request'.outcome = r.outcome /\ request'.clock = clock
          /\ request'.codecs = codecs /\ request'.fields = r.fields
          /\ stage' = IF r.outcome = "built" THEN "built" ELSE "refused"
          /\ error' = r.error
      BY <2>2
    <2>5. stage = "edit" /\ UNCHANGED <<command, payload, result>>
      BY <1>3 DEF Call
    <2> HIDE DEF r
    <2>6. Requested'
      <3>1. clock \in Clocks /\ codecs \in Registries
        OBVIOUS
      <3>2. stage' \in {"built", "refused"}
        BY <2>4
      <3>3. request'.outcome = "built" =>
              /\ request'.clock \in Clocks /\ request'.codecs \in Registries
              /\ Valid(command, payload, request'.clock, request'.codecs)
              /\ ~(LooksUp(payload) /\ request'.codecs = <<>>)
              /\ request'.fields = Build(command, payload)
        <4> SUFFICES ASSUME request'.outcome = "built"
                     PROVE  /\ request'.clock \in Clocks /\ request'.codecs \in Registries
                            /\ Valid(command, payload, request'.clock, request'.codecs)
                            /\ ~(LooksUp(payload) /\ request'.codecs = <<>>)
                            /\ request'.fields = Build(command, payload)
          OBVIOUS
        <4>1. r.outcome # "panic" /\ r.outcome # "refused"
          BY <2>4
        <4>2. /\ Valid(command, payload, clock, codecs)
              /\ ~(LooksUp(payload) /\ codecs = <<>>) /\ r.fields = Build(command, payload)
          BY <2>3, <4>1, Zenon
        <4>3. request'.clock = clock /\ request'.codecs = codecs /\ request'.fields = r.fields
          BY <2>4
        <4> QED BY <3>1, <4>2, <4>3
      <3>4. request'.outcome = "refused" =>
              /\ request'.clock \in Clocks /\ request'.codecs \in Registries
              /\ ~Valid(command, payload, request'.clock, request'.codecs)
        <4> SUFFICES ASSUME request'.outcome = "refused"
                     PROVE  /\ request'.clock \in Clocks /\ request'.codecs \in Registries
                            /\ ~Valid(command, payload, request'.clock, request'.codecs)
          OBVIOUS
        <4>1. r.outcome # "panic" /\ r.outcome # "built"
          BY <2>4
        <4>2. ~Valid(command, payload, clock, codecs)
          BY <2>3, <4>1, Zenon
        <4>3. request'.clock = clock /\ request'.codecs = codecs
          BY <2>4
        <4> QED BY <3>1, <4>2, <4>3
      <3>5. /\ command' = command /\ payload' = payload
            /\ Clocks' = Clocks /\ Registries' = Registries
        BY <2>5
      <3>6. stage' \notin {"config", "edit", "framed", "failed", "answer", "parsed"}
        BY <3>2
      <3> QED BY <3>3, <3>4, <3>5, <3>6, Zenon DEF Requested
    <2> QED BY <1>0, <2>1, <2>3, <2>4, <2>5, <2>6 DEF Framing, Ended, Responding
  <1>4. CASE Frame
    <2>1. Typed'
      BY <1>4, SamePayload DEF Frame
    <2>2. /\ stage' = "framed" /\ stage = "built" /\ request' = NoRequest
          /\ UNCHANGED <<command, result, error>>
      BY <1>4 DEF Frame
    <2>3. Framing'
      <3>1. PICK segment \in Routes, id \in FrameIDs :
              \/ frame' = [to |-> "shard", id |-> id, segment |-> <<>>, isWrite |-> FALSE,
                           bytes |-> PrependHeader(id, Payload)]
              \/ frame' = [to |-> "router", id |-> id, segment |-> segment,
                           isWrite |-> command \in Writes,
                           bytes |-> PrependRouterHeader(segment, command \in Writes, id, Payload)]
              \/ frame' = [to |-> "nobody", id |-> 0, segment |-> KeepaliveSegment,
                           isWrite |-> FALSE,
                           bytes |-> BuildKeepaliveFrame(0, KeepaliveSegment)]
        BY <1>4 DEF Frame
      <3>2. CASE frame' = [to |-> "shard", id |-> id, segment |-> <<>>, isWrite |-> FALSE,
                           bytes |-> PrependHeader(id, Payload)]
        BY <3>2 DEF Framing
      <3>3. CASE frame' = [to |-> "router", id |-> id, segment |-> segment,
                           isWrite |-> command \in Writes,
                           bytes |-> PrependRouterHeader(segment, command \in Writes, id, Payload)]
        <4> DEFINE w == command \in Writes
        <4>1. w \in BOOLEAN
          OBVIOUS
        <4>2. /\ frame'.to = "router" /\ frame'.id = id /\ frame'.segment = segment
              /\ frame'.isWrite = w /\ frame'.bytes = PrependRouterHeader(segment, w, id, Payload)
          BY <3>3
        <4> HIDE DEF w
        <4> QED BY <4>1, <4>2 DEF Framing
      <3>4. CASE frame' = [to |-> "nobody", id |-> 0, segment |-> KeepaliveSegment,
                           isWrite |-> FALSE,
                           bytes |-> BuildKeepaliveFrame(0, KeepaliveSegment)]
        BY <3>4 DEF Framing
      <3> QED BY <3>1, <3>2, <3>3, <3>4
    <2> QED BY <1>0, <2>1, <2>2, <2>3 DEF Requested, Ended, Responding
  <1>5. CASE Fail
    <2>1. Typed'
      BY <1>5, SamePayload DEF Fail
    <2>2. /\ stage = "built" /\ stage' = "failed" /\ request' = NoRequest
          /\ result' = result /\ \E t \in Transport : error' = RzError(Plain(t))
      BY <1>5 DEF Fail
    <2> QED BY <1>0, <2>1, <2>2 DEF Requested, Framing, Ended, Responding
  <1>6. CASE Answer
    <2>1. Typed'
      BY <1>6, SamePayload DEF Answer
    <2>2. /\ stage \in {"built", "edit"} /\ stage' = "answer" /\ request' = NoRequest
          /\ result' = result /\ error' = error
      BY <1>6 DEF Answer
    <2>3. Responding'
      <3>1. PICK status \in {"SUCCESS", "ERROR", ""} :
              frame' = [NoFrame EXCEPT !.status = status]
        BY <1>6 DEF Answer
      <3>2. frame' = [status |-> status, count |-> 0, fields |-> <<>>]
        BY <3>1 DEF NoFrame
      <3>3. \A S : <<>> \in Seq(S)
        BY EmptySeq
      <3>4. frame' \in [status : {"SUCCESS", "ERROR", ""}, count : {0},
                        fields : Seq(Alphabet[command'])]
        BY <3>2, <3>3
      <3> QED BY <2>2, <3>4 DEF Responding
    <2> QED BY <1>0, <2>1, <2>2, <2>3 DEF Requested, Framing, Ended
  <1>7. CASE NextField
    <2>1. Typed'
      BY <1>7, SamePayload DEF NextField
    <2>2. stage = "answer" /\ UNCHANGED <<stage, request, result, error>>
      BY <1>7 DEF NextField
    <2>3. Responding'
      <3>1. PICK f \in Alphabet[command] : frame' = [frame EXCEPT !.fields = Append(@, f)]
        BY <1>7 DEF NextField
      <3>2. /\ frame \in [status : {"SUCCESS", "ERROR", ""}, count : {0},
                          fields : Seq(Alphabet[command])]
            /\ frame.fields \in Seq(Alphabet[command])
        BY <2>2 DEF Responding
      <3>3. Append(frame.fields, f) \in Seq(Alphabet[command])
        BY <3>2, AppendProperties
      <3>4. frame' \in [status : {"SUCCESS", "ERROR", ""}, count : {0},
                        fields : Seq(Alphabet[command])]
        <4> DEFINE S == Seq(Alphabet[command])
                   t == Append(frame.fields, f)
        <4>1. frame' = [frame EXCEPT !.fields = t] /\ t \in S
          BY <3>1, <3>3
        <4>2. frame \in [status : {"SUCCESS", "ERROR", ""}, count : {0}, fields : S]
          BY <3>2
        <4> HIDE DEF S, t
        <4>3. frame' \in [status : {"SUCCESS", "ERROR", ""}, count : {0}, fields : S]
          BY <4>1, <4>2
        <4> QED BY <4>3 DEF S
      <3>5. command' = command
        BY <1>7 DEF NextField
      <3> QED BY <2>2, <3>4, <3>5 DEF Responding
    <2> QED BY <1>0, <2>1, <2>2, <2>3 DEF Requested, Framing, Ended
  <1>8. CASE ParseResponse
    <2>1. Typed'
      BY <1>8, SamePayload DEF ParseResponse
    <2>2. PICK extra \in {0, 1}, said \in IF frame.status = "SUCCESS" THEN {""} ELSE Said :
            /\ frame' = [status |-> frame.status, count |-> Len(frame.fields) + extra,
                         fields |-> frame.fields, said |-> said]
            /\ result' = Parse(command, frame')
            /\ error' = MethodError(result', frame', said)
      BY <1>8 DEF ParseResponse
    <2>3. /\ stage = "answer" /\ stage' = "parsed" /\ request' = request
          /\ command' = command /\ frame'.said = said
      BY <1>8, <2>2 DEF ParseResponse
    <2>4. Responding'
      <3>1. frame'.fields = frame.fields
        BY <2>2
      <3>2. frame.fields \in Seq(Alphabet[command])
        BY <2>3 DEF Responding
      <3> QED BY <2>3, <3>1, <3>2 DEF Responding
    <2> QED BY <1>0, <2>1, <2>2, <2>3, <2>4 DEF Requested, Framing, Ended
  <1>9. CASE UNCHANGED vars
    <2>1. Typed'
      BY <1>9, SamePayload DEF vars, Typed
    <2> QED BY <1>9, <2>1 DEF vars, Requested, Framing, Ended, Responding
  <1>10. CASE Finished
    BY <1>9, <1>10 DEF Finished
  <1> QED
    BY <1>1, <1>2, <1>3, <1>4, <1>5, <1>6, <1>7, <1>8, <1>9, <1>10 DEF Next

\* The invariant holds in every reachable state.
LEMMA Invariance == Spec => []IInv
  BY InitIInv, StepIInv, PTL DEF Spec

-----------------------------------------------------------------------------
(* Requests                                                                *)

\* Whatever a caller fills in, a request refused before it is sent is told as
\* one to correct: Verify knows of all that the Build function would refuse.
THEOREM RefusalsAreRequests == Spec => []RefusalIsRequest
  <1>1. IInv => RefusalIsRequest
    <2>1. NoRequest.outcome = "none"
      BY DEF NoRequest, Outcome
    <2> QED BY <2>1 DEF IInv, Ended, RefusalIsRequest
  <1> QED BY <1>1, Invariance, PTL

-----------------------------------------------------------------------------
(* Dates                                                                   *)

\* The day after a date is one of three.
LEMMA DayAfterIs ==
  ASSUME NEW y \in Nat, NEW m \in Nat, NEW n \in Nat, IsDate(<<y, m, n>>)
  PROVE  /\ n < DaysIn(y, m) => DayAfter(<<y, m, n>>) = <<y, m, n + 1>>
         /\ n = DaysIn(y, m) /\ m < 12 => DayAfter(<<y, m, n>>) = <<y, m + 1, 1>>
         /\ n = DaysIn(y, m) /\ m = 12 => DayAfter(<<y, m, n>>) = <<y + 1, 1, 1>>
         /\ m \in 1..12 /\ n \in 1..DaysIn(y, m) /\ DaysIn(y, m) \in 28..31
  BY DEF DayAfter, IsDate, DaysIn

\* The same day of the next year, or the day after it.
LEMMA AddYearIs ==
  ASSUME NEW y \in Nat, NEW m \in Nat, NEW n \in Nat, IsDate(<<y, m, n>>)
  PROVE  AddYear(<<y, m, n>>) =
           IF m = 2 /\ n = 29 /\ ~Leap(y + 1) THEN <<y + 1, 3, 1>> ELSE <<y + 1, m, n>>
  BY DEF AddYear

\* It is a date too.
LEMMA AddYearIsDate ==
  ASSUME NEW y \in Nat, NEW m \in Nat, NEW n \in Nat, IsDate(<<y, m, n>>)
  PROVE  IsDate(AddYear(<<y, m, n>>))
  <1>1. m \in 1..12 /\ n \in 1..DaysIn(y, m)
    BY DEF IsDate
  <1>2. CASE m = 2 /\ n = 29 /\ ~Leap(y + 1)
    <2>1. IsDate(<<y + 1, 3, 1>>)
      BY DEF IsDate, DaysIn
    <2> QED BY <1>2, <2>1, AddYearIs, Zenon
  <1>3. CASE ~(m = 2 /\ n = 29 /\ ~Leap(y + 1))
    <2>1. n \in 1..DaysIn(y + 1, m)
      <3>1. CASE m = 2
        <4>1. n \in 1..29
          BY <1>1, <3>1 DEF DaysIn
        <4>2. DaysIn(y + 1, m) = IF Leap(y + 1) THEN 29 ELSE 28
          BY <3>1 DEF DaysIn
        <4> QED BY <1>3, <3>1, <4>1, <4>2
      <3>2. CASE m # 2
        <4>1. DaysIn(y + 1, m) = DaysIn(y, m)
          BY <3>2 DEF DaysIn
        <4> QED BY <1>1, <4>1
      <3> QED BY <3>1, <3>2
    <2>2. IsDate(<<y + 1, m, n>>)
      BY <1>1, <2>1 DEF IsDate
    <2> QED BY <1>3, <2>2, AddYearIs, Zenon
  <1> QED BY <1>2, <1>3

\* A year from now is in the next year, whatever the zone.
LEMMA LastDayYear ==
  ASSUME NEW y \in Nat, NEW m \in Nat, NEW n \in Nat, IsDate(<<y, m, n>>),
         NEW offset \in Int
  PROVE  /\ UTCDay(<<y, m, n>>, offset)[1] \in Nat
         /\ UTCDay(AddYear(<<y, m, n>>), offset)[1] = UTCDay(<<y, m, n>>, offset)[1] + 1
  <1>1. CASE offset >= 0
    BY <1>1 DEF UTCDay, AddYear
  <1>2. CASE offset < 0
    <2> DEFINE Y == DayAfter(<<y, m, n>>)[1]
               Z == DayAfter(AddYear(<<y, m, n>>))[1]
    <2>1. CASE m = 12 /\ n = 31
      <3>1. DaysIn(y, m) = 31 /\ DaysIn(y + 1, m) = 31
        BY <2>1 DEF DaysIn
      <3>2. DayAfter(<<y, m, n>>) = <<y + 1, 1, 1>>
        BY <2>1, <3>1, DayAfterIs
      <3>3. AddYear(<<y, m, n>>) = <<y + 1, m, n>>
        <4>1. m # 2
          BY <2>1
        <4> QED BY <4>1, AddYearIs, Zenon
      <3>4. IsDate(<<y + 1, m, n>>)
        BY <2>1, <3>1 DEF IsDate
      <3>5. DayAfter(<<y + 1, m, n>>) = <<y + 1 + 1, 1, 1>>
        BY <2>1, <3>1, <3>4, DayAfterIs
      <3>6. Y = y + 1 /\ Z = y + 1 + 1
        BY <3>2, <3>3, <3>5
      <3> HIDE DEF Y, Z
      <3>7. Y \in Nat /\ Z = Y + 1
        BY <3>6
      <3> QED BY <1>2, <3>7 DEF Y, Z, UTCDay
    <2>2. CASE ~(m = 12 /\ n = 31)
      <3>1. DayAfter(<<y, m, n>>) \in {<<y, m, n + 1>>, <<y, m + 1, 1>>}
        <4>1. m = 12 => DaysIn(y, m) = 31
          BY DEF DaysIn
        <4> QED BY <2>2, <4>1, DayAfterIs
      <3>2. PICK l \in Nat, o \in Nat :
              AddYear(<<y, m, n>>) = <<y + 1, l, o>> /\ ~(l = 12 /\ o = 31)
        <4>1. CASE m = 2 /\ n = 29 /\ ~Leap(y + 1)
          <5>1. AddYear(<<y, m, n>>) = <<y + 1, 3, 1>>
            BY <4>1, AddYearIs
          <5> QED BY <5>1
        <4>2. CASE ~(m = 2 /\ n = 29 /\ ~Leap(y + 1))
          <5>1. AddYear(<<y, m, n>>) = <<y + 1, m, n>>
            BY <4>2, AddYearIs, Zenon
          <5> QED BY <2>2, <5>1
        <4> QED BY <4>1, <4>2
      <3>3. IsDate(<<y + 1, l, o>>)
        BY <3>2, AddYearIsDate, Zenon
      <3>4. DayAfter(<<y + 1, l, o>>) \in {<<y + 1, l, o + 1>>, <<y + 1, l + 1, 1>>}
        <4>1. l = 12 => DaysIn(y + 1, l) = 31
          BY DEF DaysIn
        <4> QED BY <3>2, <3>3, <4>1, DayAfterIs
      <3>5. Y = y /\ Z = y + 1
        BY <3>1, <3>2, <3>4
      <3> HIDE DEF Y, Z
      <3>6. Y \in Nat /\ Z = Y + 1
        BY <3>5
      <3> QED BY <1>2, <3>6 DEF Y, Z, UTCDay
    <2> QED BY <2>1, <2>2
  <1> QED BY <1>1, <1>2

\* The dates that can be asked for on a day lie in its year or the next.
LEMMA WindowYears ==
  ASSUME NEW y \in Nat, NEW m \in Nat, NEW n \in Nat, NEW clock,
         IsClock(clock), clock.date \in Nat \X Nat \X Nat,
         ValidateDate(<<y, m, n>>, clock)
  PROVE  LET year == Today(clock)[1]
         IN year \in Nat /\ y \in year..year + 1 /\ m \in 1..12 /\ n \in 1..31
  <1> DEFINE today == Today(clock)
             last  == LastDay(clock)
             d     == <<y, m, n>>
  <1>1. m \in 1..12 /\ n \in 1..31
    BY DEF ValidateDate, IsDate, DaysIn
  <1>2. today[1] \in Nat /\ last[1] = today[1] + 1
    <2>1. PICK y0 \in Nat, m0 \in Nat, n0 \in Nat : clock.date = <<y0, m0, n0>>
      OBVIOUS
    <2>2. IsDate(<<y0, m0, n0>>) /\ clock.now \in Int
      BY <2>1, Zenon DEF IsClock
    <2>3. /\ UTCDay(<<y0, m0, n0>>, clock.now)[1] \in Nat
          /\ UTCDay(AddYear(<<y0, m0, n0>>), clock.now)[1]
               = UTCDay(<<y0, m0, n0>>, clock.now)[1] + 1
      BY <2>2, LastDayYear
    <2> QED BY <2>1, <2>3, Zenon DEF Today, LastDay
  <1>3. ~Before(d, today) /\ ~Before(last, d)
    BY Zenon DEF ValidateDate, Beyond
  <1>4. d[1] = y
    OBVIOUS
  <1> HIDE DEF today, last, d
  <1>5. ~(y < today[1]) /\ ~(last[1] < y)
    BY <1>3, <1>4 DEF Before
  <1>6. today[1] <= y /\ y <= today[1] + 1
    BY <1>2, <1>5
  <1>7. today[1] \in Nat /\ y \in today[1]..today[1] + 1
    BY <1>2, <1>6
  <1> QED BY <1>1, <1>7 DEF today

\* A date packed in one year and unpacked in another moves by the years between
\* them, in the years that three bits can tell.
LEMMA UnpackPacked ==
  ASSUME NEW year \in Nat, NEW y \in year..year + 7, NEW m \in 1..12, NEW n \in 1..31,
         NEW k \in Int
  PROVE  LET packed == Pack(<<y, m, n>>, year)
             late   == <<y + k, m, n>>
         IN /\ TwoBytes(packed)
            /\ U16ToDate(packed, year + k) = IF IsDate(late) THEN late ELSE Malformed
  <1> DEFINE packed == Pack(<<y, m, n>>, year)
             late == <<y + k, m, n>>
  <1>1. packed = (y - year) * 512 + (m - 1) * 32 + (n - 1)
    BY DEF Pack
  <1>2. (packed \div 512) % 8 = y - year
    BY <1>1
  <1>3. (packed \div 32) % 16 = m - 1
    BY <1>1
  <1>4. packed % 32 = n - 1
    BY <1>1
  <1>5. TwoBytes(packed)
    BY <1>1, SMT DEF TwoBytes
  <1> HIDE DEF packed
  <1>6. <<year + k + ((packed \div 512) % 8), ((packed \div 32) % 16) + 1, (packed % 32) + 1>>
        = late
    BY <1>2, <1>3, <1>4
  <1> HIDE DEF late
  <1>7. U16ToDate(packed, year + k) = IF IsDate(late) THEN late ELSE Malformed
    BY <1>6 DEF U16ToDate
  <1> QED BY <1>5, <1>7, Zenon DEF packed, late

\* The dates of a payload are among those a caller may write.
LEMMA PayloadDates ==
  ASSUME Typed, NEW d \in DatesOf(payload)
  PROVE  d \in DateTexts
  <1>1. CASE "Dates" \in DOMAIN payload
    <2>1. payload["Dates"] \in Offered(command, "Dates") /\ "Dates" \in Params(command)
          /\ command \in Commands
      BY <1>1 DEF Typed
    <2>2. ToSet(ListOf(payload["Dates"])) \subseteq DateTexts
      BY <2>1, DatesAssumption
    <2> QED BY <1>1, <2>2 DEF DatesOf
  <1>2. CASE "Dates" \notin DOMAIN payload /\ "Date" \in DOMAIN payload
    <2>1. payload["Date"] \in Offered(command, "Date") /\ "Date" \in Params(command)
          /\ command \in Commands
      BY <1>2 DEF Typed
    <2>2. payload["Date"][1] \in DateTexts
      BY <2>1, DatesAssumption
    <2> QED BY <1>2, <2>2 DEF DatesOf
  <1>3. CASE "Dates" \notin DOMAIN payload /\ "Date" \notin DOMAIN payload
    BY <1>3 DEF DatesOf
  <1> QED BY <1>1, <1>2, <1>3

\* Every date that a request may ask for, on whatever day and in whatever zone,
\* comes back as it was when both sides agree on the year, and moves by one year
\* when the SDK's is one ahead of the router's or one behind.
THEOREM DatesSurvive == Spec => []DatesComeBack
  <1>1. ASSUME IInv, request.outcome = "built", NEW d \in DatesOf(payload)
        PROVE  LET year     == Today(request.clock)[1]
                   packed   == Pack(d, year)
                   moved(k) == <<d[1] + k, d[2], d[3]>>
               IN /\ TwoBytes(packed)
                  /\ U16ToDate(packed, year) = d
                  /\ \A k \in {-1, 1} : U16ToDate(packed, year + k) =
                                        IF IsDate(moved(k)) THEN moved(k) ELSE Malformed
    <2>1. request.clock \in Clocks /\ ValidateDate(d, request.clock)
      BY <1>1 DEF IInv, Requested, Valid, DatesAllowed
    <2>2. d \in DateTexts /\ d # Malformed /\ IsDate(d)
      BY <1>1, <2>1, PayloadDates DEF IInv, ValidateDate
    <2>3. /\ d \in Nat \X Nat \X Nat
          /\ IsClock(request.clock) /\ request.clock.date \in Nat \X Nat \X Nat
      BY <2>1, <2>2, DatesAssumption DEF DateTexts
    <2>4. PICK y \in Nat, m \in Nat, n \in Nat : d = <<y, m, n>>
      BY <2>3
    <2> DEFINE y0 == Today(request.clock)[1]
               packed == Pack(d, y0)
               moved(k) == <<y + k, m, n>>
    <2>5. y0 \in Nat /\ y \in y0..y0 + 1 /\ m \in 1..12 /\ n \in 1..31
      <3>1. ValidateDate(<<y, m, n>>, request.clock)
        BY <2>1, <2>4, Zenon
      <3> QED BY <2>3, <3>1, WindowYears
    <2> HIDE DEF y0
    <2>6. y \in y0..y0 + 7
      BY <2>5
    <2>7. \A k \in Int : /\ TwoBytes(packed)
                         /\ U16ToDate(packed, y0 + k)
                              = IF IsDate(moved(k)) THEN moved(k) ELSE Malformed
      <3> TAKE k \in Int
      <3> HIDE DEF packed, moved
      <3>1. TwoBytes(Pack(<<y, m, n>>, y0)) /\ U16ToDate(Pack(<<y, m, n>>, y0), y0 + k)
              = IF IsDate(<<y + k, m, n>>) THEN <<y + k, m, n>> ELSE Malformed
        BY <2>5, <2>6, UnpackPacked
      <3>2. packed = Pack(<<y, m, n>>, y0) /\ moved(k) = <<y + k, m, n>>
        BY <2>4 DEF packed, moved
      <3> QED BY <3>1, <3>2
    <2> HIDE DEF packed
    <2>8. TwoBytes(packed) /\ U16ToDate(packed, y0) = d
      <3>1. y0 + 0 = y0 /\ moved(0) = d /\ 0 \in Int
        BY <2>4, <2>5
      <3> HIDE DEF moved
      <3> QED BY <2>2, <2>7, <3>1
    <2>9. \A k \in {-1, 1} : U16ToDate(packed, y0 + k)
                               = IF IsDate(moved(k)) THEN moved(k) ELSE Malformed
      <3> HIDE DEF moved
      <3> QED BY <2>7
    <2>10. \A k : moved(k) = <<d[1] + k, d[2], d[3]>>
      BY <2>4
    <2> HIDE DEF moved
    <2>11. packed = Pack(d, Today(request.clock)[1]) /\ y0 = Today(request.clock)[1]
      BY DEF packed, y0
    <2> QED BY <2>8, <2>9, <2>10, <2>11, Zenon
  <1>2. IInv => DatesComeBack
    BY <1>1, Zenon DEF DatesComeBack
  <1> QED BY <1>2, Invariance, PTL

-----------------------------------------------------------------------------
(* What a request tells                                                   *)

\* The fields of a schema, numbered from 1 on.
Names == {"Segment", "Area", "PropertyID", "PropertyType", "Category", "RoomType", "Type",
          "Date", "Dates", "Stars", "Latitude", "Longitude", "Amenities", "Availability",
          "FinalPrice", "RateFeature", "Limit", "Amount"}
Places == [id : Nat, type : {String, Number, Fixed}, param : Names]
Numbered(s) == s \in Seq(Places) /\ \A i \in 1..Len(s) : s[i].id = i

\* A field of a schema is one of the places.
LEMMA Field3Is ==
  ASSUME NEW i \in Nat, NEW type \in {String, Number, Fixed}, NEW param \in Names
  PROVE  Field3(i, type, param) \in Places /\ Field3(i, type, param).id = i
  BY DEF Field3, Places

\* Fields of type String are numbered from 1 on.
LEMMA StringsNumbered ==
  ASSUME NEW params \in Seq(Names)
  PROVE  Numbered(Strings(params)) /\ Len(Strings(params)) = Len(params)
  <1> DEFINE n == Len(params)
             F(i) == Field3(i, String, params[i])
  <1>1. n \in Nat /\ \A i \in 1..n : params[i] \in Names
    BY ElementOfSeq, LenProperties
  <1>2. Strings(params) = [i \in 1..n |-> F(i)]
    BY Zenon DEF Strings
  <1>3. \A i \in 1..n : F(i) \in Places /\ F(i).id = i
    <2> TAKE i \in 1..n
    <2>1. i \in Nat /\ params[i] \in Names /\ String \in {String, Number, Fixed}
      BY <1>1
    <2> QED BY <2>1, Field3Is
  <1> HIDE DEF n, F
  <1>4. /\ Strings(params) \in Seq(Places) /\ Len(Strings(params)) = n
        /\ \A i \in 1..n : Strings(params)[i] = F(i)
    BY <1>1, <1>2, <1>3
  <1> QED BY <1>3, <1>4 DEF Numbered, n

\* Strings and then other fields, with the next ids.
LEMMA MoreNumbered ==
  ASSUME NEW params \in Seq(Names), NEW rest \in Seq(Places),
         \A j \in 1..Len(rest) : rest[j].id = Len(params) + j
  PROVE  Numbered(Strings(params) \o rest)
  <1> DEFINE s == Strings(params)
             m == Len(s)
             n == Len(rest)
  <1>1. s \in Seq(Places) /\ m = Len(params) /\ \A i \in 1..m : s[i].id = i
    BY StringsNumbered DEF Numbered
  <1> HIDE DEF s
  <1>2. m \in Nat /\ n \in Nat
    BY <1>1, LenProperties
  <1>3. /\ s \o rest \in Seq(Places) /\ Len(s \o rest) = m + n
        /\ \A i \in 1..m + n : (s \o rest)[i] = IF i <= m THEN s[i] ELSE rest[i - m]
    BY <1>1, ConcatProperties
  <1>4. \A j \in 1..n : rest[j].id = m + j
    BY <1>1
  <1> DEFINE t == s \o rest
  <1> HIDE DEF m, n, t
  <1>5. \A i \in 1..m + n : t[i].id = i
    <2> TAKE i \in 1..m + n
    <2>1. CASE i <= m
      BY <1>1, <1>2, <1>3, <2>1 DEF t, m
    <2>2. CASE ~(i <= m)
      <3> DEFINE j == i - m
      <3>1. j \in 1..n /\ m + j = i
        BY <1>2, <2>2
      <3>2. t[i] = rest[j]
        BY <1>3, <2>2 DEF t
      <3> HIDE DEF j
      <3> QED BY <1>4, <3>1, <3>2
    <2> QED BY <2>1, <2>2
  <1> QED BY <1>3, <1>5 DEF Numbered, s, t, m, n

\* The fields of every command are numbered from 1 on.
LEMMA SchemaNumbered ==
  ASSUME NEW cmd
  PROVE  Numbered(Schema(cmd))
  <1>1. CASE cmd = "SetProp"
    <2> DEFINE a == <<"Segment", "Area", "PropertyID", "PropertyType", "Category">>
               b == <<Field3(6, Number, "Stars"), Field3(7, Fixed, "Latitude"),
                      Field3(8, Fixed, "Longitude"), Field3(9, String, "Amenities")>>
    <2>1. a \in Seq(Names) /\ Len(a) = 5
      BY DEF Names
    <2>2. b \in Seq(Places) /\ Len(b) = 4
      <3>1. /\ Field3(6, Number, "Stars") \in Places /\ Field3(7, Fixed, "Latitude") \in Places
            /\ Field3(8, Fixed, "Longitude") \in Places /\ Field3(9, String, "Amenities") \in Places
        BY Field3Is DEF Names
      <3> QED BY <3>1
    <2>3. b[1].id = 6 /\ b[2].id = 7 /\ b[3].id = 8 /\ b[4].id = 9
      BY DEF Field3
    <2>4. Schema(cmd) = Strings(a) \o b
      BY <1>1 DEF Schema, Scalars, RoomDays, Rooms, ByID
    <2> HIDE DEF a, b
    <2>5. \A j \in 1..Len(b) : b[j].id = Len(a) + j
      BY <2>1, <2>2, <2>3
    <2> QED BY <2>1, <2>2, <2>4, <2>5, MoreNumbered
  <1>2. CASE cmd = "SetRoomPkg"
    <2> DEFINE a == <<"PropertyID", "RoomType", "Date">>
               b == <<Field3(4, Number, "Availability"), Field3(5, Fixed, "FinalPrice"),
                      Field3(6, String, "RateFeature")>>
    <2>1. a \in Seq(Names) /\ Len(a) = 3
      BY DEF Names
    <2>2. b \in Seq(Places) /\ Len(b) = 3
      <3>1. /\ Field3(4, Number, "Availability") \in Places /\ Field3(5, Fixed, "FinalPrice") \in Places
            /\ Field3(6, String, "RateFeature") \in Places
        BY Field3Is DEF Names
      <3> QED BY <3>1
    <2>3. b[1].id = 4 /\ b[2].id = 5 /\ b[3].id = 6
      BY DEF Field3
    <2>4. Schema(cmd) = Strings(a) \o b
      BY <1>2 DEF Schema, Scalars, RoomDays, Rooms, ByID
    <2> HIDE DEF a, b
    <2>5. \A j \in 1..Len(b) : b[j].id = Len(a) + j
      BY <2>1, <2>2, <2>3
    <2> QED BY <2>1, <2>2, <2>4, <2>5, MoreNumbered
  <1>3. CASE cmd = "SearchProp"
    <2> DEFINE a == <<"Segment", "Area", "Type">>
               b == <<Field3(4, Number, "Stars"), Field3(5, String, "Category"),
                      Field3(6, String, "Amenities"), Field3(7, Fixed, "Longitude"),
                      Field3(8, Fixed, "Latitude"), Field3(9, Fixed, "Limit")>>
    <2>1. a \in Seq(Names) /\ Len(a) = 3
      BY DEF Names
    <2>2. b \in Seq(Places) /\ Len(b) = 6
      <3>1. /\ Field3(4, Number, "Stars") \in Places /\ Field3(5, String, "Category") \in Places
            /\ Field3(6, String, "Amenities") \in Places /\ Field3(7, Fixed, "Longitude") \in Places
            /\ Field3(8, Fixed, "Latitude") \in Places /\ Field3(9, Fixed, "Limit") \in Places
        BY Field3Is DEF Names
      <3> QED BY <3>1
    <2>3. /\ b[1].id = 4 /\ b[2].id = 5 /\ b[3].id = 6 /\ b[4].id = 7
          /\ b[5].id = 8 /\ b[6].id = 9
      BY DEF Field3
    <2>4. Schema(cmd) = Strings(a) \o b
      BY <1>3 DEF Schema, Scalars, RoomDays, Rooms, ByID
    <2> HIDE DEF a, b
    <2>5. \A j \in 1..Len(b) : b[j].id = Len(a) + j
      BY <2>1, <2>2, <2>3
    <2> QED BY <2>1, <2>2, <2>4, <2>5, MoreNumbered
  <1>4. CASE cmd = "SearchAvail"
    <2> DEFINE a == <<"Segment", "RoomType", "Area", "PropertyID", "Type">>
               b == <<Field3(6, Number, "Stars"), Field3(7, String, "Category"),
                      Field3(8, String, "Amenities"), Field3(9, Fixed, "Longitude"),
                      Field3(10, Fixed, "Latitude"), Field3(11, String, "Dates"),
                      Field3(12, Number, "Availability"), Field3(13, Fixed, "FinalPrice"),
                      Field3(14, String, "RateFeature"), Field3(15, Fixed, "Limit")>>
    <2>1. a \in Seq(Names) /\ Len(a) = 5
      BY DEF Names
    <2>2. b \in Seq(Places) /\ Len(b) = 10
      <3>1. /\ Field3(6, Number, "Stars") \in Places /\ Field3(7, String, "Category") \in Places
            /\ Field3(8, String, "Amenities") \in Places /\ Field3(9, Fixed, "Longitude") \in Places
            /\ Field3(10, Fixed, "Latitude") \in Places /\ Field3(11, String, "Dates") \in Places
            /\ Field3(12, Number, "Availability") \in Places /\ Field3(13, Fixed, "FinalPrice") \in Places
            /\ Field3(14, String, "RateFeature") \in Places /\ Field3(15, Fixed, "Limit") \in Places
        BY Field3Is DEF Names
      <3> QED BY <3>1
    <2>3. /\ b[1].id = 6 /\ b[2].id = 7 /\ b[3].id = 8 /\ b[4].id = 9
          /\ b[5].id = 10 /\ b[6].id = 11 /\ b[7].id = 12 /\ b[8].id = 13
          /\ b[9].id = 14 /\ b[10].id = 15
      BY DEF Field3
    <2>4. Schema(cmd) = Strings(a) \o b
      BY <1>4 DEF Schema, Scalars, RoomDays, Rooms, ByID
    <2> HIDE DEF a, b
    <2>5. \A j \in 1..Len(b) : b[j].id = Len(a) + j
      BY <2>1, <2>2, <2>3
    <2> QED BY <2>1, <2>2, <2>4, <2>5, MoreNumbered
  <1>5. CASE cmd \in Scalars
    <2> DEFINE a == <<"PropertyID", "RoomType", "Date">>
               b == <<Field3(4, Number, "Amount")>>
    <2>1. a \in Seq(Names) /\ Len(a) = 3
      BY DEF Names
    <2>2. b \in Seq(Places) /\ Len(b) = 1
      <3>1. Field3(4, Number, "Amount") \in Places
        BY Field3Is DEF Names
      <3> QED BY <3>1
    <2>3. b[1].id = 4
      BY DEF Field3
    <2>4. Schema(cmd) = Strings(a) \o b
      BY <1>5 DEF Schema, Scalars, RoomDays, Rooms, ByID
    <2> HIDE DEF a, b
    <2>5. \A j \in 1..Len(b) : b[j].id = Len(a) + j
      BY <2>1, <2>2, <2>3
    <2> QED BY <2>1, <2>2, <2>4, <2>5, MoreNumbered
  <1>6. CASE cmd \in RoomDays
    <2> DEFINE a == <<"PropertyID", "RoomType", "Date">>
    <2>1. a \in Seq(Names)
      BY DEF Names
    <2>2. Schema(cmd) = Strings(a)
      BY <1>6 DEF Schema, Scalars, RoomDays, Rooms, ByID
    <2> HIDE DEF a
    <2> QED BY <2>1, <2>2, StringsNumbered
  <1>7. CASE cmd = "DelPropDay"
    <2> DEFINE a == <<"PropertyID", "Date">>
    <2>1. a \in Seq(Names)
      BY DEF Names
    <2>2. Schema(cmd) = Strings(a)
      BY <1>7 DEF Schema, Scalars, RoomDays, Rooms, ByID
    <2> HIDE DEF a
    <2> QED BY <2>1, <2>2, StringsNumbered
  <1>8. CASE cmd \in Rooms
    <2> DEFINE a == <<"PropertyID", "RoomType">>
    <2>1. a \in Seq(Names)
      BY DEF Names
    <2>2. Schema(cmd) = Strings(a)
      BY <1>8 DEF Schema, Scalars, RoomDays, Rooms, ByID
    <2> HIDE DEF a
    <2> QED BY <2>1, <2>2, StringsNumbered
  <1>9. CASE cmd \in ByID
    <2> DEFINE a == <<"PropertyID">>
    <2>1. a \in Seq(Names)
      BY DEF Names
    <2>2. Schema(cmd) = Strings(a)
      BY <1>9 DEF Schema, Scalars, RoomDays, Rooms, ByID
    <2> HIDE DEF a
    <2> QED BY <2>1, <2>2, StringsNumbered
  <1>10. CASE cmd = "DelSegment"
    <2> DEFINE a == <<"Segment">>
    <2>1. a \in Seq(Names)
      BY DEF Names
    <2>2. Schema(cmd) = Strings(a)
      BY <1>10 DEF Schema, Scalars, RoomDays, Rooms, ByID
    <2> HIDE DEF a
    <2> QED BY <2>1, <2>2, StringsNumbered
  <1>11. CASE /\ cmd \notin {"SetProp", "SetRoomPkg", "SearchProp", "SearchAvail"}
            /\ cmd \notin Scalars \cup RoomDays \cup Rooms \cup ByID
            /\ cmd \notin {"DelPropDay", "DelSegment"}
    <2>1. Schema(cmd) = <<>>
      BY <1>11 DEF Schema
    <2>2. <<>> \in Seq(Places) /\ Len(<<>>) = 0
      BY EmptySeq
    <2> QED BY <2>1, <2>2 DEF Numbered
  <1> QED BY <1>1, <1>2, <1>3, <1>4, <1>5, <1>6, <1>7, <1>8, <1>9, <1>10, <1>11

\* The places of a schema that are told.
ToldOf(cmd, p) == {k \in 1..Len(Schema(cmd)) : Told(cmd, p, Schema(cmd)[k].param)}

\* The fields of a request are those of the parameters told.
LEMMA BuildItems ==
  ASSUME NEW cmd, NEW p
  PROVE  ToSet(Build(cmd, p)) = {Filled(Schema(cmd)[i], p) : i \in ToldOf(cmd, p)}
  <1> DEFINE s == Schema(cmd)
             N == Len(s)
             X(i) == Filled(s[i], p)
             S == {X(i) : i \in 1..N}
             one(i) == IF Told(cmd, p, s[i].param) THEN <<X(i)>> ELSE <<>>
             seqs == [i \in 1..N |-> one(i)]
             K == ToldOf(cmd, p)
  <1>1. N \in Nat
    BY SchemaNumbered, LenProperties DEF Numbered
  <1>2. Build(cmd, p) = FlattenSeq(seqs)
    BY Zenon DEF Build
  <1>3. \A i \in 1..N : i \in K <=> Told(cmd, p, s[i].param)
    BY DEF ToldOf
  <1>4. K \subseteq 1..N
    BY DEF ToldOf
  <1> HIDE DEF s, K
  <1>5. \A i \in 1..N : X(i) \in S
    OBVIOUS
  <1> HIDE DEF X, S
  <1>6. \A i \in 1..N : one(i) \in Seq(S)
    <2> TAKE i \in 1..N
    <2>1. <<X(i)>> \in Seq(S)
      BY <1>5
    <2>2. <<>> \in Seq(S)
      BY EmptySeq
    <2> QED BY <2>1, <2>2, Zenon
  <1>7. \A i \in 1..N : ToSet(one(i)) = IF i \in K THEN {X(i)} ELSE {}
    <2> TAKE i \in 1..N
    <2>1. ToSet(<<X(i)>>) = {X(i)}
      BY DEF ToSet
    <2>2. ToSet(<<>>) = {}
      BY DEF ToSet
    <2> QED BY <1>3, <2>1, <2>2, Zenon
  <1> HIDE DEF one, N
  <1>8. seqs \in Seq(Seq(S)) /\ Len(seqs) = N /\ \A i \in 1..N : seqs[i] = one(i)
    BY <1>1, <1>6
  <1> HIDE DEF seqs
  <1>9. ToSet(FlattenSeq(seqs)) = UNION {ToSet(seqs[i]) : i \in 1..N}
    BY <1>8, FlattenItems
  <1>10. \A i \in 1..N : ToSet(seqs[i]) = IF i \in K THEN {X(i)} ELSE {}
    BY <1>7, <1>8, Zenon
  <1>11. UNION {ToSet(seqs[i]) : i \in 1..N} = {X(i) : i \in K}
    BY <1>4, <1>10, Zenon
  <1> QED BY <1>2, <1>9, <1>11, Zenon DEF K, X, s

\* Requests that a server cannot tell apart tell the same parameters, and the
\* same of them.
LEMMA NotApartSame ==
  ASSUME NEW cmd, NEW p, NEW q, ~Apart(Build(cmd, p), Build(cmd, q)),
         NEW k \in 1..Len(Schema(cmd))
  PROVE  LET param == Schema(cmd)[k].param
         IN /\ Told(cmd, p, param) <=> Told(cmd, q, param)
            /\ Told(cmd, p, param) => Written(p, param) = Written(q, param)
  <1> DEFINE s == Schema(cmd)
             fs == Build(cmd, p)
             gs == Build(cmd, q)
             P == ToldOf(cmd, p)
             Q == ToldOf(cmd, q)
             N == Len(s)
  <1>1. \A i \in 1..N : s[i].id = i
    BY SchemaNumbered DEF Numbered
  <1>2. /\ P \subseteq 1..N /\ Q \subseteq 1..N
        /\ k \in P <=> Told(cmd, p, s[k].param)
        /\ k \in Q <=> Told(cmd, q, s[k].param)
    BY DEF ToldOf
  <1>3. /\ {fs[i].id : i \in DOMAIN fs} = {gs[i].id : i \in DOMAIN gs}
        /\ \A i \in DOMAIN fs, j \in DOMAIN gs :
             fs[i].id = gs[j].id => fs[i].data = gs[j].data
    BY Zenon DEF Apart
  <1>4. ToSet(fs) = {Filled(s[i], p) : i \in P} /\ ToSet(gs) = {Filled(s[i], q) : i \in Q}
    BY BuildItems, Zenon
  <1> HIDE DEF fs, gs, P, Q, N, s
  <1>5. /\ {x.id : x \in ToSet(fs)} = {x.id : x \in ToSet(gs)}
        /\ \A x \in ToSet(fs), y \in ToSet(gs) : x.id = y.id => x.data = y.data
    <2>1. \A f : {f[i].id : i \in DOMAIN f} = {x.id : x \in ToSet(f)}
      BY Zenon DEF ToSet
    <2>2. \A x \in ToSet(fs), y \in ToSet(gs) : x.id = y.id => x.data = y.data
      <3> TAKE x \in ToSet(fs), y \in ToSet(gs)
      <3>1. PICK i \in DOMAIN fs : x = fs[i]
        BY Zenon DEF ToSet
      <3>2. PICK j \in DOMAIN gs : y = gs[j]
        BY Zenon DEF ToSet
      <3> QED BY <1>3, <3>1, <3>2, Zenon
    <2> QED BY <1>3, <2>1, <2>2, Zenon
  <1>6. \A i, r : /\ Filled(s[i], r).id = s[i].id
                  /\ Filled(s[i], r).data = Written(r, s[i].param)
    BY Zenon DEF Filled
  <1>7. {x.id : x \in ToSet(fs)} = P /\ {x.id : x \in ToSet(gs)} = Q
    <2>1. \A i \in P : Filled(s[i], p).id = i
      BY <1>1, <1>2, <1>6, Zenon
    <2>2. \A i \in Q : Filled(s[i], q).id = i
      BY <1>1, <1>2, <1>6, Zenon
    <2>3. \A I, r : (\A i \in I : Filled(s[i], r).id = i) =>
                      {x.id : x \in {Filled(s[i], r) : i \in I}} = I
      BY Zenon
    <2>4. {x.id : x \in {Filled(s[i], p) : i \in P}} = P
      BY <2>1, <2>3, Zenon
    <2>5. {x.id : x \in {Filled(s[i], q) : i \in Q}} = Q
      BY <2>2, <2>3, Zenon
    <2> QED BY <1>4, <2>4, <2>5
  <1>8. P = Q
    BY <1>5, <1>7, Zenon
  <1>9. k \in P => Written(p, s[k].param) = Written(q, s[k].param)
    <2> SUFFICES ASSUME k \in P PROVE Written(p, s[k].param) = Written(q, s[k].param)
      OBVIOUS
    <2> DEFINE x == Filled(s[k], p)
               y == Filled(s[k], q)
    <2>1. x \in ToSet(fs) /\ y \in ToSet(gs)
      BY <1>4, <1>8, Zenon
    <2>2. x.id = y.id /\ x.data = Written(p, s[k].param) /\ y.data = Written(q, s[k].param)
      BY <1>6, Zenon
    <2> HIDE DEF x, y
    <2> QED BY <1>5, <2>1, <2>2, Zenon
  <1> QED BY <1>2, <1>8, <1>9, Zenon DEF s

\* What is written of a list tells what is meant.
LEMMA WrittenIsMeant ==
  ASSUME NEW p, NEW q, NEW param, Written(p, param) = Written(q, param)
  PROVE  Meaning(param, p[param]) = Meaning(param, q[param])
  <1>1. CASE param \notin NameLists
    BY <1>1, Zenon DEF Written, Meaning
  <1>2. CASE param \in NameLists
    <2> DEFINE Read(list) == IF Join(list) = <<"">> THEN <<>> ELSE Join(list)
    <2>1. \A v : Meaning(param, v) = Read(ListOf(v))
      <3> SUFFICES ASSUME NEW v PROVE Meaning(param, v) = Read(ListOf(v))
        OBVIOUS
      <3> DEFINE list == ListOf(v)
      <3>1. Meaning(param, v) = IF FlattenSeq(list) = <<"">> THEN <<>> ELSE FlattenSeq(list)
        BY <1>2, Zenon DEF Meaning
      <3>2. FlattenSeq(<<>>) = <<>>
        BY DEF FlattenSeq
      <3>3. <<>> # <<"">>
        OBVIOUS
      <3>4. Join(list) = IF list = <<>> THEN <<"">> ELSE FlattenSeq(list)
        BY Zenon DEF Join
      <3> HIDE DEF list
      <3>5. list = <<>> => Meaning(param, v) = Read(list)
        BY <3>1, <3>2, <3>3, <3>4, Zenon
      <3>6. list # <<>> => Meaning(param, v) = Read(list)
        BY <3>1, <3>4, Zenon
      <3> QED BY <3>5, <3>6, Zenon DEF list
    <2>2. Join(ListOf(p[param])) = Join(ListOf(q[param]))
      BY <1>2, Zenon DEF Written
    <2> QED BY <2>1, <2>2, Zenon
  <1> QED BY <1>1, <1>2

\* What is not told means nothing.
LEMMA UntoldIsSame ==
  ASSUME NEW cmd, NEW p, NEW q, NEW param, ~Told(cmd, p, param), ~Told(cmd, q, param),
         cmd = "SearchAvail" => ListOf(p.Dates) # <<>> /\ ListOf(q.Dates) # <<>>
  PROVE  Meaning(param, p[param]) = Meaning(param, q[param])
  <1> DEFINE none == << <<>> >>
  <1>1. \/ p[param] = <<>>
        \/ cmd = "SearchAvail" /\ param \in Slices /\ p[param] = none
    BY Zenon DEF Told
  <1>2. \/ q[param] = <<>>
        \/ cmd = "SearchAvail" /\ param \in Slices /\ q[param] = none
    BY Zenon DEF Told
  <1>3. ListOf(<<>>) = <<>> /\ ListOf(none) = <<>>
    BY DEF ListOf
  <1> HIDE DEF none
  <1>4. CASE param \in NameLists
    <2>1. ListOf(p[param]) = <<>> /\ ListOf(q[param]) = <<>>
      BY <1>1, <1>2, <1>3, Zenon
    <2> QED BY <1>4, <2>1, Zenon DEF Meaning
  <1>5. CASE param \notin NameLists
    <2>1. param \in Slices => param = "Dates"
      BY <1>5 DEF Slices
    <2>2. cmd = "SearchAvail" /\ param = "Dates" => p[param] # none /\ q[param] # none
      BY <1>3
    <2>3. p[param] = <<>> /\ q[param] = <<>>
      BY <1>1, <1>2, <2>1, <2>2, Zenon
    <2> QED BY <2>3, Zenon
  <1> QED BY <1>4, <1>5

\* Every parameter of a request is told: another meaning of one makes another
\* request (Verify and Build of every command).
THEOREM ParametersAreTold == Spec => []EveryParameterTold
  <1>1. ASSUME IInv, request.outcome = "built", NEW param \in Params(command), NEW v,
               LET other == Prepare(command, [payload EXCEPT ![param] = v],
                                    request.clock, request.codecs)
               IN Meaning(param, v) # Meaning(param, payload[param])
                  /\ other.outcome = "built"
        PROVE  LET other == Prepare(command, [payload EXCEPT ![param] = v],
                                    request.clock, request.codecs)
               IN Apart(request.fields, other.fields)
    <2> DEFINE q == [payload EXCEPT ![param] = v]
               other == Prepare(command, q, request.clock, request.codecs)
    <2>1. /\ DOMAIN payload = Params(command) /\ command \in Commands
          /\ Valid(command, payload, request.clock, request.codecs)
          /\ request.fields = Build(command, payload)
      BY <1>1, Zenon DEF IInv, Typed, Requested
    <2>2. q[param] = v /\ DOMAIN q = Params(command)
      BY <2>1
    <2>3. other.outcome = "built" /\ Meaning(param, v) # Meaning(param, payload[param])
      BY <1>1, Zenon
    <2> HIDE DEF q
    <2>4. Valid(command, q, request.clock, request.codecs) /\ other.fields = Build(command, q)
      <3>1. other.outcome # "panic" /\ other.outcome # "refused"
        BY <2>3
      <3> QED BY <2>1, <2>2, <3>1, Prepared, Zenon
    <2>5. command = "SearchAvail" => ListOf(payload.Dates) # <<>> /\ ListOf(q.Dates) # <<>>
      BY <2>1, <2>4, Zenon DEF Valid, DatesAllowed
    <2>6. PICK k \in DOMAIN Schema(command) : Schema(command)[k].param = param
      BY DEF Params
    <2>7. k \in 1..Len(Schema(command))
      BY <2>6, SchemaNumbered, LenProperties DEF Numbered
    <2> SUFFICES ASSUME ~Apart(Build(command, payload), Build(command, q))
                 PROVE  FALSE
      BY <2>1, <2>4, Zenon DEF q
    <2>8. /\ Told(command, payload, param) <=> Told(command, q, param)
          /\ Told(command, payload, param) => Written(payload, param) = Written(q, param)
      BY <2>6, <2>7, NotApartSame, Zenon
    <2>9. Meaning(param, payload[param]) = Meaning(param, q[param])
      <3>1. CASE Told(command, payload, param)
        BY <2>8, <3>1, WrittenIsMeant
      <3>2. CASE ~Told(command, payload, param)
        BY <2>5, <2>8, <3>2, UntoldIsSame
      <3> QED BY <3>1, <3>2
    <2> QED BY <2>2, <2>3, <2>9, Zenon
  <1>2. IInv => EveryParameterTold
    BY <1>1, Zenon DEF EveryParameterTold
  <1> QED BY <1>2, Invariance, PTL

-----------------------------------------------------------------------------
(* The window of dates                                                     *)

\* The days up to the 1st of March of a year, and from there to the 1st of a
\* month, counted from March on.
MarchDays(y) == 365 * y + (y \div 4) - (y \div 100) + (y \div 400)
MonthDays(k) == (153 * k + 2) \div 5

\* The year and the month of a date, counted from March on.
MarchYear(y, m)  == IF m > 2 THEN y ELSE y - 1
MarchMonth(m) == IF m > 2 THEN m - 3 ELSE m + 9

\* One day more for a leap year.
LeapDay(y) == IF Leap(y) THEN 1 ELSE 0

\* The days before each month.
LEMMA MonthTable ==
  /\ MonthDays(0) = 0 /\ MonthDays(1) = 31 /\ MonthDays(2) = 61 /\ MonthDays(3) = 92
  /\ MonthDays(4) = 122 /\ MonthDays(5) = 153 /\ MonthDays(6) = 184 /\ MonthDays(7) = 214
  /\ MonthDays(8) = 245 /\ MonthDays(9) = 275 /\ MonthDays(10) = 306 /\ MonthDays(11) = 337
  BY SMT DEF MonthDays

\* A leap year is one of every fourth, but not every hundredth, but every four
\* hundredth year.
LEMMA QuotientStep ==
  ASSUME NEW y \in Int
  PROVE  /\ (y + 1) \div 4 = (y \div 4) + (IF (y + 1) % 4 = 0 THEN 1 ELSE 0)
         /\ (y + 1) \div 100 = (y \div 100) + (IF (y + 1) % 100 = 0 THEN 1 ELSE 0)
         /\ (y + 1) \div 400 = (y \div 400) + (IF (y + 1) % 400 = 0 THEN 1 ELSE 0)
         /\ (y + 1) % 400 = 0 => (y + 1) % 100 = 0
         /\ (y + 1) % 100 = 0 => (y + 1) % 4 = 0
         /\ y \div 4 \in Int /\ y \div 100 \in Int /\ y \div 400 \in Int
  BY SMT

\* The year from the 1st of March on, to the next.
LEMMA YearLength ==
  ASSUME NEW y \in Int
  PROVE  /\ MarchDays(y) \in Int /\ LeapDay(y) \in 0..1
         /\ MarchDays(y + 1) = MarchDays(y) + 365 + LeapDay(y + 1)
  <1> DEFINE a == y \div 4
             b == y \div 100
             c == y \div 400
             p == (y + 1) % 4
             q == (y + 1) % 100
             r == (y + 1) % 400
  <1>1. /\ (y + 1) \div 4 = a + (IF p = 0 THEN 1 ELSE 0)
        /\ (y + 1) \div 100 = b + (IF q = 0 THEN 1 ELSE 0)
        /\ (y + 1) \div 400 = c + (IF r = 0 THEN 1 ELSE 0)
        /\ r = 0 => q = 0
        /\ q = 0 => p = 0
        /\ a \in Int /\ b \in Int /\ c \in Int
    BY QuotientStep
  <1>2. LeapDay(y + 1) = IF p = 0 /\ (q # 0 \/ r = 0) THEN 1 ELSE 0
    BY Zenon DEF LeapDay, Leap
  <1>3. MarchDays(y) = 365 * y + a - b + c
    BY DEF MarchDays
  <1>4. MarchDays(y + 1) = 365 * (y + 1) + ((y + 1) \div 4) - ((y + 1) \div 100)
                             + ((y + 1) \div 400)
    BY Zenon DEF MarchDays
  <1>5. LeapDay(y) \in 0..1
    BY DEF LeapDay
  <1> HIDE DEF a, b, c, p, q, r
  <1> DEFINE a1 == (y + 1) \div 4
             b1 == (y + 1) \div 100
             c1 == (y + 1) \div 400
             L == LeapDay(y + 1)
             Y0 == MarchDays(y)
             Y1 == MarchDays(y + 1)
  <1>6. /\ a1 = a + (IF p = 0 THEN 1 ELSE 0) /\ b1 = b + (IF q = 0 THEN 1 ELSE 0)
        /\ c1 = c + (IF r = 0 THEN 1 ELSE 0)
        /\ Y0 = 365 * y + a - b + c /\ Y1 = 365 * (y + 1) + a1 - b1 + c1
        /\ L = IF p = 0 /\ (q # 0 \/ r = 0) THEN 1 ELSE 0
    BY <1>1, <1>2, <1>3, <1>4, Zenon
  <1> HIDE DEF a1, b1, c1, L, Y0, Y1
  <1>7. Y0 \in Int /\ Y1 = Y0 + 365 + L
    BY <1>1, <1>6
  <1> QED BY <1>5, <1>7, Zenon DEF L, Y0, Y1

\* Years apart are so many days apart at least.
LEMMA YearsApart ==
  ASSUME NEW y \in Int, NEW z \in Int, y <= z
  PROVE  MarchDays(y) <= MarchDays(z)
  <1> DEFINE a == y \div 4
             b == z \div 4
             e == y \div 100
             f == z \div 100
             g == y \div 400
             h == z \div 400
  <1>1. a \in Int /\ b \in Int /\ a <= b /\ e = a \div 25 /\ f = b \div 25
    BY SMT
  <1>2. g \in Int /\ h \in Int /\ g <= h
    BY SMT
  <1>3. MarchDays(y) = 365 * y + a - e + g /\ MarchDays(z) = 365 * z + b - f + h
    BY DEF MarchDays
  <1> HIDE DEF a, b, e, f, g, h
  <1>4. e \in Int /\ f \in Int /\ f - e <= b - a
    BY <1>1, SMT
  <1> QED BY <1>1, <1>2, <1>3, <1>4

\* A date, counted from March on.
LEMMA CountedFromMarch ==
  ASSUME NEW y \in Nat, NEW m \in Nat, NEW n \in Nat, IsDate(<<y, m, n>>)
  PROVE  LET Y == MarchYear(y, m)
             k == MarchMonth(m)
         IN /\ Y \in Int /\ k \in 0..11 /\ m \in 1..12 /\ n >= 1
            /\ DayNumber(<<y, m, n>>) = MarchDays(Y) + MonthDays(k) + n - 1
            /\ k < 11 => n <= MonthDays(k + 1) - MonthDays(k)
            /\ k = 11 => n <= 28 + LeapDay(Y + 1)
  <1>1. m \in 1..12 /\ n \in 1..DaysIn(y, m)
    BY DEF IsDate
  <1> DEFINE Y == MarchYear(y, m)
             k == MarchMonth(m)
  <1>2. Y \in Int /\ k \in 0..11 /\ (m + 9) % 12 = k
    BY <1>1, SMT DEF MarchYear, MarchMonth
  <1>3. DayNumber(<<y, m, n>>) = MarchDays(Y) + MonthDays(k) + n - 1
    <2> DEFINE d == <<y, m, n>>
               year == IF d[2] > 2 THEN d[1] ELSE d[1] - 1
    <2>1. d[1] = y /\ d[2] = m /\ d[3] = n
      OBVIOUS
    <2> HIDE DEF d
    <2>2. DayNumber(d) = MarchDays(year) + MonthDays((d[2] + 9) % 12) + d[3] - 1
      BY DEF DayNumber, MarchDays, MonthDays
    <2>3. year = Y
      BY <2>1, Zenon DEF MarchYear
    <2> HIDE DEF year, Y, k
    <2> QED BY <1>2, <2>1, <2>2, <2>3, Zenon DEF d
  <1>4. k < 11 => n <= MonthDays(k + 1) - MonthDays(k)
    <2> SUFFICES ASSUME k < 11 PROVE n <= MonthDays(k + 1) - MonthDays(k)
      OBVIOUS
    <2>1. m # 2 /\ n <= IF m \in {4, 6, 9, 11} THEN 30 ELSE 31
      BY <1>1, <1>2 DEF DaysIn, MarchMonth
    <2>2. \/ m = 1 /\ k = 10
          \/ m = 3 /\ k = 0
          \/ m = 4 /\ k = 1
          \/ m = 5 /\ k = 2
          \/ m = 6 /\ k = 3
          \/ m = 7 /\ k = 4
          \/ m = 8 /\ k = 5
          \/ m = 9 /\ k = 6
          \/ m = 10 /\ k = 7
          \/ m = 11 /\ k = 8
          \/ m = 12 /\ k = 9
      <3>1. \/ m = 1 \/ m = 3 \/ m = 4 \/ m = 5 \/ m = 6 \/ m = 7 \/ m = 8 \/ m = 9
            \/ m = 10 \/ m = 11 \/ m = 12
        BY <1>1, <2>1
      <3>2. k = IF m > 2 THEN m - 3 ELSE m + 9
        BY DEF MarchMonth
      <3> HIDE DEF k
      <3> QED BY <3>1, <3>2
    <2> HIDE DEF k
    <2> QED BY <2>1, <2>2, MonthTable
  <1>5. k = 11 => n <= 28 + LeapDay(Y + 1)
    <2> SUFFICES ASSUME k = 11 PROVE n <= 28 + LeapDay(Y + 1)
      OBVIOUS
    <2>1. m = 2 /\ Y + 1 = y
      BY <1>1 DEF MarchMonth, MarchYear
    <2>2. DaysIn(y, m) = 28 + LeapDay(y)
      BY <2>1 DEF DaysIn, LeapDay
    <2>3. LeapDay(Y + 1) = LeapDay(y)
      BY <2>1, Zenon
    <2> QED BY <1>1, <2>2, <2>3
  <1> QED BY <1>1, <1>2, <1>3, <1>4, <1>5

\* In the same year, a later month begins after all days of an earlier one.
LEMMA MonthsApart ==
  ASSUME NEW j \in 0..11, NEW k \in 0..11, j < k
  PROVE  MonthDays(j + 1) <= MonthDays(k)
  BY SMT DEF MonthDays

\* A date has a higher number than those before it.
LEMMA BeforeIsLess ==
  ASSUME NEW y \in Nat, NEW m \in Nat, NEW n \in Nat, IsDate(<<y, m, n>>),
         NEW z \in Nat, NEW l \in Nat, NEW o \in Nat, IsDate(<<z, l, o>>),
         Before(<<y, m, n>>, <<z, l, o>>)
  PROVE  DayNumber(<<y, m, n>>) < DayNumber(<<z, l, o>>)
  <1> DEFINE Y == MarchYear(y, m)
             Z == MarchYear(z, l)
             j == MarchMonth(m)
             k == MarchMonth(l)
             D == DayNumber(<<y, m, n>>)
             E == DayNumber(<<z, l, o>>)
  <1>1. /\ Y \in Int /\ j \in 0..11 /\ m \in 1..12 /\ n >= 1
        /\ D = MarchDays(Y) + MonthDays(j) + n - 1
        /\ j < 11 => n <= MonthDays(j + 1) - MonthDays(j)
        /\ j = 11 => n <= 28 + LeapDay(Y + 1)
    BY CountedFromMarch
  <1>2. /\ Z \in Int /\ k \in 0..11 /\ l \in 1..12 /\ o >= 1
        /\ E = MarchDays(Z) + MonthDays(k) + o - 1
    BY CountedFromMarch
  <1>3. y < z \/ (y = z /\ m < l) \/ (y = z /\ m = l /\ n < o)
    BY DEF Before
  <1>4. Y < Z \/ (Y = Z /\ j < k) \/ (Y = Z /\ j = k /\ n < o)
    <2>1. Y = (IF m > 2 THEN y ELSE y - 1) /\ Z = (IF l > 2 THEN z ELSE z - 1)
      BY DEF MarchYear
    <2>2. j = (IF m > 2 THEN m - 3 ELSE m + 9) /\ k = (IF l > 2 THEN l - 3 ELSE l + 9)
      BY DEF MarchMonth
    <2>3. m \in 1..12 /\ l \in 1..12
      BY <1>1, <1>2
    <2> HIDE DEF Y, Z, j, k
    <2> QED BY <1>3, <2>1, <2>2, <2>3
  <1>5. /\ \A i \in 0..11 : MonthDays(i) \in 0..337
        /\ MonthDays(11) = 337
    BY SMT DEF MonthDays
  <1> DEFINE MY == MarchDays(Y)
             MZ == MarchDays(Z)
             Mj == MonthDays(j)
             Mk == MonthDays(k)
             Mnext == MonthDays(j + 1)
             L == LeapDay(Y + 1)
  <1>6. MY \in Int /\ L \in 0..1
    <2>1. Y \in Int /\ Y + 1 \in Int
      BY <1>1
    <2> HIDE DEF Y
    <2> QED BY <2>1, YearLength
  <1>7. MZ \in Int
    BY <1>2, YearLength
  <1>8. Mj \in 0..337 /\ Mk \in 0..337
    BY <1>1, <1>2, <1>5, Zenon
  <1>9. D = MY + Mj + n - 1 /\ E = MZ + Mk + o - 1 /\ n >= 1 /\ o >= 1
    BY <1>1, <1>2, Zenon
  <1>10. D < MY + 365 + L
    <2>1. j < 11 => n <= Mnext - Mj /\ Mnext \in 0..337
      BY <1>1, <1>5
    <2>2. j = 11 => n <= 28 + L /\ Mj = 337
      BY <1>1, <1>5
    <2>3. j < 11 \/ j = 11
      BY <1>1
    <2> HIDE DEF MY, Mj, Mnext, L, D, j
    <2> QED BY <1>6, <1>8, <1>9, <2>1, <2>2, <2>3
  <1>11. CASE Y < Z
    <2>1. MY + 365 + L <= MZ
      <3>1. MarchDays(Y + 1) = MY + 365 + L
        BY <1>1, YearLength
      <3>2. Y + 1 \in Int /\ Y + 1 <= Z
        BY <1>1, <1>2, <1>11
      <3>3. MarchDays(Y + 1) <= MZ
        BY <1>2, <3>2, YearsApart
      <3> QED BY <3>1, <3>3
    <2> HIDE DEF MY, Mj, MZ, Mk, L, D, E
    <2>2. D < E
      BY <1>6, <1>7, <1>8, <1>9, <1>10, <2>1
    <2> QED BY <2>2 DEF D, E
  <1>12. CASE Y = Z /\ j < k
    <2>1. Mnext <= Mk /\ Mnext \in Int
      <3>1. j < 11 /\ j + 1 \in 0..11
        BY <1>1, <1>2, <1>12
      <3>2. Mnext \in 0..337
        BY <1>5, <3>1, Zenon
      <3>3. Mnext <= Mk
        BY <1>1, <1>2, <1>12, MonthsApart, Zenon
      <3> QED BY <3>2, <3>3
    <2>2. n <= Mnext - Mj
      BY <1>1, <1>2, <1>12
    <2>3. MY = MZ
      BY <1>12
    <2> HIDE DEF MY, Mj, MZ, Mk, Mnext, D, E
    <2>4. D < E
      BY <1>6, <1>7, <1>8, <1>9, <2>1, <2>2, <2>3
    <2> QED BY <2>4 DEF D, E
  <1>13. CASE Y = Z /\ j = k /\ n < o
    <2>1. MY = MZ /\ Mj = Mk /\ n < o
      BY <1>13
    <2> HIDE DEF MY, Mj, MZ, Mk, D, E
    <2>2. D < E
      BY <1>6, <1>7, <1>8, <1>9, <2>1
    <2> QED BY <2>2 DEF D, E
  <1> QED BY <1>4, <1>11, <1>12, <1>13

\* The same day of the next year is 365 or 366 days ahead.
LEMMA NextYear ==
  ASSUME NEW y \in Nat, NEW m \in Nat, NEW n \in Nat, IsDate(<<y, m, n>>)
  PROVE  LET late == AddYear(<<y, m, n>>)
         IN /\ IsDate(late) /\ late \in Nat \X Nat \X Nat
            /\ DayNumber(late) - DayNumber(<<y, m, n>>) \in 365..366
            /\ DayNumber(late) \in Int /\ DayNumber(<<y, m, n>>) \in Int
  <1> DEFINE Y == MarchYear(y, m)
             k == MarchMonth(m)
             D == DayNumber(<<y, m, n>>)
  <1>1. /\ Y \in Int /\ k \in 0..11 /\ m \in 1..12
        /\ D = MarchDays(Y) + MonthDays(k) + n - 1
    BY CountedFromMarch
  <1>2. m \in 1..12 /\ n \in 1..DaysIn(y, m)
    BY DEF IsDate
  <1>3. /\ <<y, m, n>>[1] = y /\ <<y, m, n>>[2] = m /\ <<y, m, n>>[3] = n
    OBVIOUS
  <1>4. MonthDays(k) \in Int /\ MonthDays(0) = 0 /\ MonthDays(11) = 337
    BY <1>1, SMT DEF MonthDays
  <1>5. CASE m = 2 /\ n = 29 /\ ~Leap(y + 1)
    <2> DEFINE late == <<y + 1, 3, 1>>
               E == DayNumber(late)
    <2>1. AddYear(<<y, m, n>>) = late
      BY <1>5 DEF AddYear
    <2>2. IsDate(late) /\ late \in Nat \X Nat \X Nat
      BY DEF IsDate, DaysIn
    <2>3. MarchYear(y + 1, 3) = y + 1 /\ MarchMonth(3) = 0
      BY DEF MarchYear, MarchMonth
    <2>4. E = MarchDays(y + 1) + 0 + 1 - 1
      <3>1. y + 1 \in Nat /\ 3 \in Nat /\ 1 \in Nat
        OBVIOUS
      <3>2. E = MarchDays(MarchYear(y + 1, 3)) + MonthDays(MarchMonth(3)) + 1 - 1
        BY <2>2, <3>1, CountedFromMarch
      <3> QED BY <1>4, <2>3, <3>2
    <2>5. Y = y - 1 /\ k = 11
      BY <1>5 DEF MarchYear, MarchMonth
    <2>6. Leap(y)
      BY <1>2, <1>5 DEF DaysIn
    <2>7. LeapDay(y) = 1 /\ LeapDay(y + 1) = 0
      BY <1>5, <2>6 DEF LeapDay
    <2> DEFINE M0 == MarchDays(y - 1)
               M1 == MarchDays(y)
               M2 == MarchDays(y + 1)
    <2>8. M1 = M0 + 365 + 1 /\ M0 \in Int
      <3>1. y - 1 \in Int /\ (y - 1) + 1 = y
        OBVIOUS
      <3>2. MarchDays((y - 1) + 1) = M0 + 365 + LeapDay((y - 1) + 1) /\ M0 \in Int
        BY <3>1, YearLength
      <3> QED BY <2>7, <3>1, <3>2
    <2>9. M2 = M1 + 365 + 0
      <3>1. M2 = M1 + 365 + LeapDay(y + 1)
        BY YearLength
      <3> QED BY <2>7, <3>1
    <2>10. D = M0 + 337 + 29 - 1
      BY <1>1, <1>4, <1>5, <2>5
    <2>11. E = M2 + 0 + 1 - 1
      BY <2>4
    <2> HIDE DEF M0, M1, M2, D, E
    <2>12. E - D \in 365..366 /\ E \in Int /\ D \in Int
      BY <2>8, <2>9, <2>10, <2>11
    <2> QED BY <2>1, <2>2, <2>12 DEF D, E
  <1>6. CASE ~(m = 2 /\ n = 29 /\ ~Leap(y + 1))
    <2> DEFINE late == <<y + 1, m, n>>
               E == DayNumber(late)
    <2>1. AddYear(<<y, m, n>>) = late
      BY <1>6 DEF AddYear
    <2>2. IsDate(late) /\ late \in Nat \X Nat \X Nat
      <3>1. IsDate(late)
        BY <2>1, AddYearIsDate, Zenon
      <3> QED BY <3>1
    <2>3. MarchYear(y + 1, m) = Y + 1
      BY DEF MarchYear
    <2>4. E = MarchDays(Y + 1) + MonthDays(k) + n - 1
      <3>1. y + 1 \in Nat
        OBVIOUS
      <3>2. E = MarchDays(MarchYear(y + 1, m)) + MonthDays(k) + n - 1
        BY <2>2, <3>1, CountedFromMarch
      <3> QED BY <2>3, <3>2
    <2> DEFINE M0 == MarchDays(Y)
               M1 == MarchDays(Y + 1)
               L == LeapDay(Y + 1)
               K == MonthDays(k)
    <2>5. M1 = M0 + 365 + L /\ M0 \in Int /\ L \in 0..1
      BY <1>1, YearLength
    <2>6. D = M0 + K + n - 1 /\ E = M1 + K + n - 1 /\ K \in Int
      BY <1>1, <1>4, <2>4
    <2> HIDE DEF M0, M1, L, K, D, E
    <2>7. E - D \in 365..366 /\ E \in Int /\ D \in Int
      BY <2>5, <2>6
    <2> QED BY <2>1, <2>2, <2>7 DEF D, E
  <1> QED BY <1>5, <1>6

\* Of two dates one is before the other, unless they are the same.
LEMMA InOrder ==
  ASSUME NEW d \in Nat \X Nat \X Nat, NEW e \in Nat \X Nat \X Nat
  PROVE  Before(d, e) \/ d = e \/ Before(e, d)
  <1>1. PICK y \in Nat, m \in Nat, n \in Nat : d = <<y, m, n>>
    OBVIOUS
  <1>2. PICK z \in Nat, l \in Nat, o \in Nat : e = <<z, l, o>>
    OBVIOUS
  <1> QED BY <1>1, <1>2 DEF Before

\* The same of dates that are not taken apart.
LEMMA BeforeIsFewer ==
  ASSUME NEW d \in Nat \X Nat \X Nat, NEW e \in Nat \X Nat \X Nat,
         IsDate(d), IsDate(e), Before(d, e)
  PROVE  DayNumber(d) < DayNumber(e)
  <1>1. PICK y \in Nat, m \in Nat, n \in Nat : d = <<y, m, n>>
    OBVIOUS
  <1>2. PICK z \in Nat, l \in Nat, o \in Nat : e = <<z, l, o>>
    OBVIOUS
  <1>3. IsDate(<<y, m, n>>) /\ IsDate(<<z, l, o>>) /\ Before(<<y, m, n>>, <<z, l, o>>)
    BY <1>1, <1>2, Zenon
  <1>4. DayNumber(<<y, m, n>>) < DayNumber(<<z, l, o>>)
    BY <1>3, BeforeIsLess
  <1> QED BY <1>1, <1>2, <1>4, Zenon

\* The day after a date is a date, one day later.
LEMMA DayAfterIsNext ==
  ASSUME NEW y \in Nat, NEW m \in Nat, NEW n \in Nat, IsDate(<<y, m, n>>)
  PROVE  LET next == DayAfter(<<y, m, n>>)
         IN /\ IsDate(next) /\ next \in Nat \X Nat \X Nat
            /\ DayNumber(next) = DayNumber(<<y, m, n>>) + 1
  <1> DEFINE D == DayNumber(<<y, m, n>>)
             E(z, l, o) == DayNumber(<<z, l, o>>)
             Y == MarchYear(y, m)
             k == MarchMonth(m)
  <1>1. m \in 1..12 /\ n \in 1..DaysIn(y, m) /\ DaysIn(y, m) \in 28..31
    BY DayAfterIs
  <1>2. /\ Y \in Int /\ k \in 0..11
        /\ D = MarchDays(Y) + MonthDays(k) + n - 1
    BY CountedFromMarch
  <1>3. MarchDays(Y) \in Int /\ MonthDays(k) \in Int
    <2>1. MarchDays(Y) \in Int
      BY <1>2, YearLength
    <2>2. MonthDays(k) \in Int
      BY <1>2, SMT DEF MonthDays
    <2> QED BY <2>1, <2>2
  <1>4. CASE n < DaysIn(y, m)
    <2>1. DayAfter(<<y, m, n>>) = <<y, m, n + 1>>
      BY <1>4, DayAfterIs
    <2>2. IsDate(<<y, m, n + 1>>) /\ n + 1 \in Nat
      BY <1>1, <1>4 DEF IsDate
    <2>3. E(y, m, n + 1) = MarchDays(Y) + MonthDays(k) + (n + 1) - 1
      BY <2>2, CountedFromMarch
    <2>4. E(y, m, n + 1) = D + 1
      <3> DEFINE F == E(y, m, n + 1)
                 M == MarchDays(Y)
                 K == MonthDays(k)
      <3>1. D = M + K + n - 1 /\ F = M + K + (n + 1) - 1 /\ M \in Int /\ K \in Int
        BY <1>2, <1>3, <2>3
      <3> HIDE DEF D, F, M, K
      <3>2. F = D + 1
        BY <3>1
      <3> QED BY <3>2 DEF F
    <2> QED BY <2>1, <2>2, <2>4
  <1>5. CASE n = DaysIn(y, m) /\ m < 12
    <2>1. DayAfter(<<y, m, n>>) = <<y, m + 1, 1>>
      BY <1>5, DayAfterIs
    <2>2. IsDate(<<y, m + 1, 1>>) /\ m + 1 \in Nat
      BY <1>1, <1>5 DEF IsDate, DaysIn
    <2> DEFINE Z == MarchYear(y, m + 1)
               l == MarchMonth(m + 1)
    <2>3. E(y, m + 1, 1) = MarchDays(Z) + MonthDays(l) + 1 - 1
      BY <2>2, CountedFromMarch
    <2>4. MarchDays(Z) + MonthDays(l) = MarchDays(Y) + MonthDays(k) + n
      <3>1. CASE m = 2
        <4>1. Y = y - 1 /\ k = 11 /\ Z = y /\ l = 0
          BY <3>1 DEF MarchYear, MarchMonth
        <4>2. n = 28 + LeapDay(y)
          BY <1>5, <3>1 DEF DaysIn, LeapDay
        <4>3. MarchDays((y - 1) + 1) = MarchDays(y - 1) + 365 + LeapDay((y - 1) + 1)
          BY YearLength
        <4>4. (y - 1) + 1 = y
          OBVIOUS
        <4>5. MarchDays(y) = MarchDays(y - 1) + 365 + LeapDay(y)
          BY <4>3, <4>4
        <4>6. MarchDays(y - 1) \in Int /\ LeapDay(y) \in 0..1
          BY YearLength
        <4>7. MonthDays(11) = 337 /\ MonthDays(0) = 0
          BY MonthTable
        <4> HIDE DEF Y, Z, k, l
        <4> QED BY <4>1, <4>2, <4>5, <4>6, <4>7
      <3>2. CASE m # 2
        <4>1. Z = Y /\ l = k + 1 /\ k < 11
          BY <1>1, <1>5, <3>2 DEF MarchYear, MarchMonth
        <4>2. MonthDays(k + 1) = MonthDays(k) + n
          <5>1. n = IF m \in {4, 6, 9, 11} THEN 30 ELSE 31
            BY <1>5, <3>2 DEF DaysIn
          <5>2. \/ m = 1 \/ m = 3 \/ m = 4 \/ m = 5 \/ m = 6 \/ m = 7 \/ m = 8 \/ m = 9
                \/ m = 10 \/ m = 11
            BY <1>1, <1>5, <3>2
          <5>3. k = IF m > 2 THEN m - 3 ELSE m + 9
            BY DEF MarchMonth
          <5> HIDE DEF k
          <5> QED BY <5>1, <5>2, <5>3, MonthTable
        <4> HIDE DEF Y, Z, k, l
        <4> QED BY <1>3, <4>1, <4>2
      <3> QED BY <3>1, <3>2
    <2>5. E(y, m + 1, 1) = D + 1
      <3> DEFINE F == E(y, m + 1, 1)
                 M == MarchDays(Y)
                 K == MonthDays(k)
                 S == MarchDays(Z) + MonthDays(l)
      <3>1. D = M + K + n - 1 /\ F = S + 1 - 1 /\ S = M + K + n /\ M \in Int /\ K \in Int
        BY <1>2, <1>3, <2>3, <2>4
      <3> HIDE DEF D, F, M, K, S
      <3>2. F = D + 1
        BY <3>1
      <3> QED BY <3>2 DEF F
    <2> QED BY <2>1, <2>2, <2>5
  <1>6. CASE n = DaysIn(y, m) /\ m = 12
    <2>1. DayAfter(<<y, m, n>>) = <<y + 1, 1, 1>>
      BY <1>6, DayAfterIs
    <2>2. IsDate(<<y + 1, 1, 1>>) /\ y + 1 \in Nat /\ n = 31
      BY <1>6 DEF IsDate, DaysIn
    <2>3. MarchYear(y + 1, 1) = y /\ MarchMonth(1) = 10 /\ Y = y /\ k = 9
      BY <1>6 DEF MarchYear, MarchMonth
    <2>4. E(y + 1, 1, 1) = MarchDays(y) + MonthDays(10) + 1 - 1
      <3>1. E(y + 1, 1, 1) = MarchDays(MarchYear(y + 1, 1)) + MonthDays(MarchMonth(1)) + 1 - 1
        BY <2>2, CountedFromMarch
      <3> QED BY <2>3, <3>1
    <2>5. E(y + 1, 1, 1) = D + 1
      <3> DEFINE F == E(y + 1, 1, 1)
                 M == MarchDays(y)
      <3>1. MonthDays(10) = 306 /\ MonthDays(9) = 275
        BY MonthTable
      <3>2. D = M + 275 + 31 - 1 /\ F = M + 306 + 1 - 1 /\ M \in Int
        BY <1>2, <1>3, <2>2, <2>3, <2>4, <3>1
      <3> HIDE DEF D, F, M
      <3>3. F = D + 1
        BY <3>2
      <3> QED BY <3>3 DEF F
    <2> QED BY <2>1, <2>2, <2>5
  <1>7. n < DaysIn(y, m) \/ (n = DaysIn(y, m) /\ m < 12) \/ (n = DaysIn(y, m) /\ m = 12)
    BY <1>1
  <1> QED BY <1>4, <1>5, <1>6, <1>7

\* The day in UTC is a date, as many days later for all dates.
LEMMA DayInUTC ==
  ASSUME NEW d \in Nat \X Nat \X Nat, IsDate(d), NEW offset
  PROVE  LET day == UTCDay(d, offset)
         IN /\ IsDate(day) /\ day \in Nat \X Nat \X Nat
            /\ DayNumber(d) \in Int
            /\ DayNumber(day) = DayNumber(d) + (IF offset < 0 THEN 1 ELSE 0)
  <1>1. PICK y \in Nat, m \in Nat, n \in Nat : d = <<y, m, n>>
    OBVIOUS
  <1>2. IsDate(<<y, m, n>>)
    BY <1>1, Zenon
  <1>3. DayNumber(<<y, m, n>>) \in Int
    BY <1>2, NextYear
  <1>4. /\ IsDate(DayAfter(<<y, m, n>>)) /\ DayAfter(<<y, m, n>>) \in Nat \X Nat \X Nat
        /\ DayNumber(DayAfter(<<y, m, n>>)) = DayNumber(<<y, m, n>>) + 1
    BY <1>2, DayAfterIsNext
  <1>5. /\ IsDate(DayAfter(d)) /\ DayAfter(d) \in Nat \X Nat \X Nat
        /\ DayNumber(DayAfter(d)) = DayNumber(d) + 1 /\ DayNumber(d) \in Int
    BY <1>1, <1>3, <1>4, Zenon
  <1>6. CASE offset < 0
    <2>1. UTCDay(d, offset) = DayAfter(d) /\ (IF offset < 0 THEN 1 ELSE 0) = 1
      BY <1>6 DEF UTCDay
    <2> QED BY <1>5, <2>1, Zenon
  <1>7. CASE ~(offset < 0)
    <2>1. UTCDay(d, offset) = d /\ (IF offset < 0 THEN 1 ELSE 0) = 0
      BY <1>7 DEF UTCDay
    <2>2. DayNumber(d) = DayNumber(d) + 0
      BY <1>5
    <2> QED BY <1>5, <2>1, <2>2, Zenon
  <1> QED BY <1>6, <1>7

\* The last day of the window is 365 or 366 days from its first, by any clock.
LEMMA WindowLength ==
  ASSUME NEW clock, IsClock(clock), clock.date \in Nat \X Nat \X Nat
  PROVE  LET first == Today(clock)
             last  == LastDay(clock)
         IN /\ IsDate(first) /\ first \in Nat \X Nat \X Nat
            /\ IsDate(last) /\ last \in Nat \X Nat \X Nat
            /\ DayNumber(first) \in Int /\ DayNumber(last) \in Int
            /\ DayNumber(last) - DayNumber(first) \in 365..366
  <1> DEFINE date == clock.date
             late == AddYear(clock.date)
             D == DayNumber(date)
             E == DayNumber(late)
             F == DayNumber(Today(clock))
             L == DayNumber(LastDay(clock))
             s == IF clock.now < 0 THEN 1 ELSE 0
  <1>1. IsDate(date) /\ date \in Nat \X Nat \X Nat
    BY DEF IsClock
  <1>2. IsDate(late) /\ late \in Nat \X Nat \X Nat /\ E - D \in 365..366
    <2>1. PICK y \in Nat, m \in Nat, n \in Nat : date = <<y, m, n>>
      BY <1>1
    <2>2. IsDate(<<y, m, n>>)
      BY <1>1, <2>1, Zenon
    <2>3. /\ IsDate(AddYear(<<y, m, n>>)) /\ AddYear(<<y, m, n>>) \in Nat \X Nat \X Nat
          /\ DayNumber(AddYear(<<y, m, n>>)) - DayNumber(<<y, m, n>>) \in 365..366
      BY <2>2, NextYear
    <2> QED BY <2>1, <2>3, Zenon
  <1> HIDE DEF date, late
  <1>3. /\ IsDate(UTCDay(date, clock.now)) /\ UTCDay(date, clock.now) \in Nat \X Nat \X Nat
        /\ D \in Int /\ DayNumber(UTCDay(date, clock.now)) = D + s
    BY <1>1, DayInUTC
  <1>4. /\ IsDate(UTCDay(late, clock.now)) /\ UTCDay(late, clock.now) \in Nat \X Nat \X Nat
        /\ E \in Int /\ DayNumber(UTCDay(late, clock.now)) = E + s
    BY <1>2, DayInUTC
  <1>5. Today(clock) = UTCDay(date, clock.now) /\ LastDay(clock) = UTCDay(late, clock.now)
    BY Zenon DEF Today, LastDay, date, late
  <1>6. F = D + s /\ L = E + s
    BY <1>3, <1>4, <1>5, Zenon
  <1>7. s \in 0..1
    OBVIOUS
  <1> HIDE DEF D, E, F, L, s
  <1>8. F \in Int /\ L \in Int /\ L - F \in 365..366
    BY <1>2, <1>3, <1>4, <1>6, <1>7
  <1> QED BY <1>3, <1>4, <1>5, <1>8, Zenon DEF F, L

\* What ValidateDate accepts, counted in days.
LEMMA WindowDays ==
  ASSUME NEW d \in Nat \X Nat \X Nat,
         NEW clock, IsClock(clock), clock.date \in Nat \X Nat \X Nat
  PROVE  LET ahead == DayNumber(d) - DayNumber(Today(clock))
         IN /\ ValidateDate(d, clock) => IsDate(d) /\ ahead \in 0..366
            /\ IsDate(d) /\ ahead \in 0..DaysGranted(clock) => ValidateDate(d, clock)
  <1> DEFINE first == Today(clock)
             last == LastDay(clock)
             early == clock.now < clock.then
             G == DaysGranted(clock)
             D == DayNumber(d)
             T == DayNumber(first)
             E == DayNumber(last)
  <1>1. /\ IsDate(first) /\ first \in Nat \X Nat \X Nat
        /\ IsDate(last) /\ last \in Nat \X Nat \X Nat
        /\ E - T \in 365..366 /\ E \in Int /\ T \in Int
    BY WindowLength
  <1>2. IsDate(d) => D \in Int
    BY DayInUTC
  <1> HIDE DEF first, last
  <1>3. IsDate(d) => (Before(d, first) => D < T) /\ (Before(first, d) => T < D)
    <2> HIDE DEF D, T
    <2> QED BY <1>1, BeforeIsFewer DEF D, T
  <1>4. IsDate(d) => (Before(d, last) => D < E) /\ (Before(last, d) => E < D)
    <2> HIDE DEF D, E
    <2> QED BY <1>1, BeforeIsFewer DEF D, E
  <1>5. /\ Before(d, first) \/ d = first \/ Before(first, d)
        /\ Before(d, last) \/ d = last \/ Before(last, d)
    BY <1>1, InOrder
  <1>6. (d = first => D = T) /\ (d = last => D = E)
    BY Zenon
  <1>7. d # Malformed
    <2>1. PICK y \in Nat, m \in Nat, n \in Nat : d = <<y, m, n>>
      OBVIOUS
    <2>2. Len(<<y, m, n>>) = 3 /\ Len(<<>>) = 0
      OBVIOUS
    <2> QED BY <2>1, <2>2, Zenon DEF Malformed
  <1>8. ValidateDate(d, clock) <=>
          IsDate(d) /\ ~Before(d, first) /\ ~Before(last, d) /\ ~(d = last /\ early)
    BY <1>7, Zenon DEF ValidateDate, Beyond, first, last
  <1>9. G = IF early THEN 364 ELSE 365
    BY Zenon DEF DaysGranted
  <1> HIDE DEF early, D, T, E, G
  <1>10. ValidateDate(d, clock) => IsDate(d) /\ D - T \in 0..366
    <2> SUFFICES ASSUME ValidateDate(d, clock) PROVE IsDate(d) /\ D - T \in 0..366
      OBVIOUS
    <2>1. D \in Int /\ T <= D /\ D <= E
      BY <1>1, <1>2, <1>3, <1>4, <1>5, <1>6, <1>8
    <2> QED BY <1>1, <1>8, <2>1
  <1>11. IsDate(d) /\ D - T \in 0..G => ValidateDate(d, clock)
    <2> SUFFICES ASSUME IsDate(d), D - T \in 0..G PROVE ValidateDate(d, clock)
      OBVIOUS
    <2>1. ~(D < T) /\ ~(E < D) /\ (early => D # E)
      BY <1>1, <1>2, <1>9
    <2> QED BY <1>3, <1>4, <1>6, <1>8, <2>1
  <1> QED BY <1>10, <1>11, Zenon DEF D, T, first, G

\* The parameters of strings and of further fields.
LEMMA MoreParams ==
  ASSUME NEW cmd, NEW names \in Seq(Names), NEW rest \in Seq(Places),
         Schema(cmd) = Strings(names) \o rest
  PROVE  /\ \A i \in 1..Len(names) : names[i] \in Params(cmd)
         /\ \A j \in 1..Len(rest) : rest[j].param \in Params(cmd)
  <1> DEFINE s == Strings(names)
             m == Len(s)
             n == Len(rest)
             t == s \o rest
  <1>1. s \in Seq(Places) /\ m = Len(names)
    BY StringsNumbered DEF Numbered
  <1>2. \A i \in 1..Len(names) : s[i].param = names[i]
    BY DEF Strings, Field3
  <1> HIDE DEF s
  <1>3. m \in Nat /\ n \in Nat
    BY <1>1, LenProperties
  <1>4. /\ t \in Seq(Places) /\ Len(t) = m + n
        /\ \A i \in 1..m + n : t[i] = IF i <= m THEN s[i] ELSE rest[i - m]
    BY <1>1, ConcatProperties
  <1>5. DOMAIN t = 1..m + n
    <2> HIDE DEF t, m, n
    <2> QED BY <1>4, LenProperties
  <1>6. Params(cmd) = {t[i].param : i \in DOMAIN t}
    BY DEF Params, s
  <1> HIDE DEF m, n, t
  <1>7. \A i \in 1..m + n : t[i].param \in Params(cmd)
    BY <1>5, <1>6
  <1>8. ASSUME NEW i \in 1..Len(names)
        PROVE  names[i] \in Params(cmd)
    <2>1. i \in 1..m + n /\ i <= m
      BY <1>1, <1>3
    <2>2. t[i] = s[i]
      BY <1>4, <2>1
    <2> QED BY <1>2, <1>7, <2>1, <2>2
  <1>9. ASSUME NEW j \in 1..n
        PROVE  rest[j].param \in Params(cmd)
    <2> DEFINE i == m + j
    <2>1. i \in 1..m + n /\ ~(i <= m) /\ i - m = j
      BY <1>3
    <2> HIDE DEF i
    <2>2. t[i] = rest[j]
      BY <1>4, <2>1
    <2> QED BY <1>7, <2>1, <2>2
  <1> QED BY <1>8, <1>9 DEF n

\* The parameters that Verify looks at without asking whether they are there.
LEMMA ParamsThere ==
  ASSUME NEW cmd
  PROVE  /\ Required(cmd) \subseteq Params(cmd) \ {"Date", "Dates"}
         /\ cmd \in Scalars => "Amount" \in Params(cmd)
         /\ cmd = "SearchAvail" => {"Dates", "Limit"} \subseteq Params(cmd)
  <1>1. CASE cmd = "SetProp"
    <2> DEFINE a == <<"Segment", "Area", "PropertyID", "PropertyType", "Category">>
               b == <<Field3(6, Number, "Stars"), Field3(7, Fixed, "Latitude"),
                      Field3(8, Fixed, "Longitude"), Field3(9, String, "Amenities")>>
    <2>1. a \in Seq(Names) /\ Len(a) = 5
      BY DEF Names
    <2>2. b \in Seq(Places)
      <3>1. /\ Field3(6, Number, "Stars") \in Places /\ Field3(7, Fixed, "Latitude") \in Places
            /\ Field3(8, Fixed, "Longitude") \in Places /\ Field3(9, String, "Amenities") \in Places
        BY Field3Is DEF Names
      <3> QED BY <3>1
    <2>3. Schema(cmd) = Strings(a) \o b
      BY <1>1 DEF Schema, Scalars, RoomDays, Rooms, ByID
    <2>4. /\ a[1] = "Segment" /\ a[2] = "Area" /\ a[3] = "PropertyID"
          /\ a[4] = "PropertyType" /\ a[5] = "Category"
      OBVIOUS
    <2> HIDE DEF a, b
    <2>5. \A i \in 1..5 : a[i] \in Params(cmd)
      BY <2>1, <2>2, <2>3, MoreParams
    <2>6. {"Segment", "Area", "PropertyID", "PropertyType", "Category"} \subseteq Params(cmd)
      <3>1. /\ a[1] \in Params(cmd) /\ a[2] \in Params(cmd) /\ a[3] \in Params(cmd)
            /\ a[4] \in Params(cmd) /\ a[5] \in Params(cmd)
        BY <2>5
      <3> QED BY <2>4, <3>1
    <2> QED BY <1>1, <2>6 DEF Required, Scalars
  <1>2. CASE cmd = "SearchProp"
    <2> DEFINE a == <<"Segment", "Area", "Type">>
               b == <<Field3(4, Number, "Stars"), Field3(5, String, "Category"),
                      Field3(6, String, "Amenities"), Field3(7, Fixed, "Longitude"),
                      Field3(8, Fixed, "Latitude"), Field3(9, Fixed, "Limit")>>
    <2>1. a \in Seq(Names) /\ Len(a) = 3 /\ a[1] = "Segment"
      BY DEF Names
    <2>2. b \in Seq(Places)
      <3>1. /\ Field3(4, Number, "Stars") \in Places /\ Field3(5, String, "Category") \in Places
            /\ Field3(6, String, "Amenities") \in Places /\ Field3(7, Fixed, "Longitude") \in Places
            /\ Field3(8, Fixed, "Latitude") \in Places /\ Field3(9, Fixed, "Limit") \in Places
        BY Field3Is DEF Names
      <3> QED BY <3>1
    <2>3. Schema(cmd) = Strings(a) \o b
      BY <1>2 DEF Schema, Scalars, RoomDays, Rooms, ByID
    <2> HIDE DEF a, b
    <2>4. "Segment" \in Params(cmd)
      <3>1. \A i \in 1..3 : a[i] \in Params(cmd)
        BY <2>1, <2>2, <2>3, MoreParams
      <3> QED BY <2>1, <3>1
    <2> QED BY <1>2, <2>4 DEF Required, Scalars
  <1>3. CASE cmd = "SearchAvail"
    <2> DEFINE a == <<"Segment", "RoomType", "Area", "PropertyID", "Type">>
               b == <<Field3(6, Number, "Stars"), Field3(7, String, "Category"),
                      Field3(8, String, "Amenities"), Field3(9, Fixed, "Longitude"),
                      Field3(10, Fixed, "Latitude"), Field3(11, String, "Dates"),
                      Field3(12, Number, "Availability"), Field3(13, Fixed, "FinalPrice"),
                      Field3(14, String, "RateFeature"), Field3(15, Fixed, "Limit")>>
    <2>1. a \in Seq(Names) /\ Len(a) = 5 /\ a[1] = "Segment" /\ a[2] = "RoomType"
      BY DEF Names
    <2>2. b \in Seq(Places) /\ Len(b) = 10
      <3>1. /\ Field3(6, Number, "Stars") \in Places /\ Field3(7, String, "Category") \in Places
            /\ Field3(8, String, "Amenities") \in Places /\ Field3(9, Fixed, "Longitude") \in Places
            /\ Field3(10, Fixed, "Latitude") \in Places /\ Field3(11, String, "Dates") \in Places
            /\ Field3(12, Number, "Availability") \in Places /\ Field3(13, Fixed, "FinalPrice") \in Places
            /\ Field3(14, String, "RateFeature") \in Places /\ Field3(15, Fixed, "Limit") \in Places
        BY Field3Is DEF Names
      <3> QED BY <3>1
    <2>3. Schema(cmd) = Strings(a) \o b
      BY <1>3 DEF Schema, Scalars, RoomDays, Rooms, ByID
    <2>4. b[6].param = "Dates" /\ b[10].param = "Limit"
      BY DEF Field3
    <2> HIDE DEF a, b
    <2>5. "Segment" \in Params(cmd) /\ "RoomType" \in Params(cmd)
      <3>1. \A i \in 1..5 : a[i] \in Params(cmd)
        BY <2>1, <2>2, <2>3, MoreParams
      <3> QED BY <2>1, <3>1
    <2>6. "Dates" \in Params(cmd) /\ "Limit" \in Params(cmd)
      <3>1. \A j \in 1..10 : b[j].param \in Params(cmd)
        BY <2>1, <2>2, <2>3, MoreParams
      <3>2. b[6].param \in Params(cmd) /\ b[10].param \in Params(cmd)
        BY <3>1
      <3> QED BY <2>4, <3>2
    <2> QED BY <1>3, <2>5, <2>6 DEF Required, Scalars
  <1>4. CASE cmd \notin {"SetProp", "SearchProp", "SearchAvail"}
    <2>1. Required(cmd) \subseteq Params(cmd) \ {"Date", "Dates"}
      BY <1>4 DEF Required
    <2>2. ASSUME cmd \in Scalars
          PROVE  "Amount" \in Params(cmd)
      <3> DEFINE a == <<"PropertyID", "RoomType", "Date">>
                 b == <<Field3(4, Number, "Amount")>>
      <3>1. a \in Seq(Names)
        BY DEF Names
      <3>2. b \in Seq(Places) /\ Len(b) = 1
        <4>1. Field3(4, Number, "Amount") \in Places
          BY Field3Is DEF Names
        <4> QED BY <4>1
      <3>3. Schema(cmd) = Strings(a) \o b
        BY <2>2 DEF Schema, Scalars, RoomDays, Rooms, ByID
      <3>4. b[1].param = "Amount"
        BY DEF Field3
      <3> HIDE DEF a, b
      <3>5. \A j \in 1..1 : b[j].param \in Params(cmd)
        BY <3>1, <3>2, <3>3, MoreParams
      <3> QED BY <3>4, <3>5
    <2> QED BY <1>4, <2>1, <2>2
  <1> QED BY <1>1, <1>2, <1>3, <1>4

\* Verify looks at the dates of a payload, and at each other parameter, on its
\* own: other dates that are good leave it accepted.
LEMMA GoodDatesAreValid ==
  ASSUME NEW cmd, NEW p, NEW q, DOMAIN p = Params(cmd), DOMAIN q = Params(cmd),
         \A param \in Params(cmd) \ {"Date", "Dates"} : p[param] = q[param],
         NEW clock, NEW codecs, Valid(cmd, q, clock, codecs),
         cmd = "SearchAvail" => DatesOf(p) # {},
         \A d \in DatesOf(p) : ValidateDate(d, clock)
  PROVE  Valid(cmd, p, clock, codecs)
  <1> DEFINE Same == Params(cmd) \ {"Date", "Dates"}
  <1>1. TextsGiven(cmd, p)
    BY ParamsThere DEF Valid, TextsGiven
  <1>2. NumbersAllowed(cmd, p)
    <2>1. \A param \in {"Stars", "Latitude", "Longitude"} : \A range :
            Within(q, param, range) => Within(p, param, range)
      BY DEF Within
    <2>2. cmd \in Scalars => p["Amount"] = q["Amount"]
      BY ParamsThere
    <2>3. cmd = "SearchAvail" => p["Limit"] = q["Limit"]
      BY ParamsThere
    <2>4. NumbersAllowed(cmd, q)
      BY DEF Valid
    <2> QED BY <2>1, <2>2, <2>3, <2>4 DEF NumbersAllowed
  <1>3. DatesAllowed(cmd, p, clock)
    <2> SUFFICES ASSUME cmd = "SearchAvail" PROVE ListOf(p.Dates) # <<>>
      BY DEF DatesAllowed
    <2>1. "Dates" \in DOMAIN p
      BY ParamsThere
    <2>2. DatesOf(p) = ToSet(ListOf(p["Dates"]))
      BY <2>1 DEF DatesOf
    <2>3. ToSet(<<>>) = {}
      BY DEF ToSet
    <2> QED BY <2>2, <2>3
  <1>4. ValidateRateFeatures(p, codecs)
    <2> SUFFICES ASSUME LooksUp(p)
                 PROVE  ToSet(p.RateFeature[1]) \subseteq ToSet(codecs[1])
      BY DEF ValidateRateFeatures
    <2>1. "RateFeature" \in Params(cmd) /\ p["RateFeature"] = q["RateFeature"]
      BY DEF LooksUp
    <2>2. LooksUp(q)
      BY <2>1 DEF LooksUp
    <2> QED BY <2>1, <2>2 DEF Valid, ValidateRateFeatures
  <1> QED BY <1>1, <1>2, <1>3, <1>4 DEF Valid

\* What is sent lies in the window, on whatever day, in whatever zone and for
\* whatever dates, and dates within the days granted are never what a request
\* is refused for.
THEOREM DatesLieInTheWindow == Spec => []DateWindow
  <1>1. ASSUME IInv, request.outcome = "built", NEW d \in DatesOf(payload)
        PROVE  d # Malformed /\ IsDate(d) /\ DaysAhead(d) \in 0..366
    <2>1. request.clock \in Clocks /\ ValidateDate(d, request.clock)
      BY <1>1 DEF IInv, Requested, Valid, DatesAllowed
    <2>2. d \in DateTexts /\ d # Malformed
      BY <1>1, <2>1, PayloadDates DEF IInv, ValidateDate
    <2>3. /\ d \in Nat \X Nat \X Nat
          /\ IsClock(request.clock) /\ request.clock.date \in Nat \X Nat \X Nat
      BY <2>1, <2>2, DatesAssumption DEF DateTexts
    <2> QED BY <2>1, <2>2, <2>3, WindowDays DEF DaysAhead
  <1>2. ASSUME IInv, request.outcome = "refused",
               ~(command = "SearchAvail" /\ DatesOf(payload) = {}),
               \A d \in DatesOf(payload) :
                 d # Malformed /\ IsDate(d) /\ DaysAhead(d) \in 0..DaysGranted(request.clock),
               \A param \in Params(command) \ {"Date", "Dates"} :
                 payload[param] = Base[command][param]
        PROVE  FALSE
    <2>1. /\ request.clock \in Clocks /\ request.codecs \in Registries
          /\ ~Valid(command, payload, request.clock, request.codecs)
      BY <1>2 DEF IInv, Requested
    <2>2. \A d \in DatesOf(payload) : ValidateDate(d, request.clock)
      <3> TAKE d \in DatesOf(payload)
      <3>1. d \in Nat \X Nat \X Nat
        BY <1>2, PayloadDates DEF IInv, DateTexts
      <3>2. IsClock(request.clock) /\ request.clock.date \in Nat \X Nat \X Nat
        BY <2>1, DatesAssumption
      <3>3. /\ IsDate(d)
            /\ DayNumber(d) - DayNumber(Today(request.clock)) \in 0..DaysGranted(request.clock)
        BY <1>2 DEF DaysAhead
      <3> QED BY <3>1, <3>2, <3>3, WindowDays
    <2>3. /\ command \in Commands /\ DOMAIN payload = Params(command)
          /\ DOMAIN Base[command] = Params(command)
      BY <1>2, DatesAssumption DEF IInv, Typed
    <2>4. Valid(command, Base[command], request.clock, request.codecs)
      BY <2>1, <2>3, BaseAssumption
    <2> QED BY <1>2, <2>1, <2>2, <2>3, <2>4, GoodDatesAreValid
  <1>3. IInv => DateWindow
    BY <1>1, <1>2, Zenon DEF DateWindow, Verified
  <1> QED BY <1>3, Invariance, PTL

-----------------------------------------------------------------------------
(* Rate features                                                           *)

\* Named keeps the names whose bit is in the mask, and no other.
LEMMA NamedNames ==
  ASSUME NEW S, NEW names \in Seq(S), NEW mask, NEW bits \in Nat
  PROVE  ToSet(Named(names, mask, bits))
           = {names[i] : i \in {k \in 1..Len(names) : k <= bits /\ k - 1 \in mask}}
  <1> DEFINE N == Len(names)
             named(i) == IF i <= bits /\ i - 1 \in mask THEN <<names[i]>> ELSE <<>>
             seqs == [i \in 1..N |-> named(i)]
             K == {k \in 1..N : k <= bits /\ k - 1 \in mask}
  <1>1. N \in Nat /\ \A i \in 1..N : names[i] \in S
    OBVIOUS
  <1>2. \A i \in 1..N : named(i) \in Seq(S)
    <2> TAKE i \in 1..N
    <2>1. <<names[i]>> \in Seq(S)
      BY <1>1
    <2>2. <<>> \in Seq(S)
      BY EmptySeq
    <2> QED BY <2>1, <2>2
  <1>3. \A i \in 1..N : ToSet(named(i)) = IF i \in K THEN {names[i]} ELSE {}
    <2> TAKE i \in 1..N
    <2>1. ToSet(<<names[i]>>) = {names[i]}
      BY DEF ToSet
    <2>2. ToSet(<<>>) = {}
      BY DEF ToSet
    <2> QED BY <2>1, <2>2
  <1>4. Named(names, mask, bits) = FlattenSeq(seqs)
    BY Zenon DEF Named
  <1> HIDE DEF named
  <1>5. seqs \in Seq(Seq(S)) /\ Len(seqs) = N /\ \A i \in 1..N : seqs[i] = named(i)
    BY <1>1, <1>2
  <1> HIDE DEF seqs
  <1>6. ToSet(FlattenSeq(seqs)) = UNION {ToSet(seqs[i]) : i \in 1..N}
    BY <1>5, FlattenItems
  <1>7. \A i \in 1..N : ToSet(seqs[i]) = IF i \in K THEN {names[i]} ELSE {}
    BY <1>3, <1>5, Zenon
  <1>8. K \subseteq 1..N
    OBVIOUS
  <1> HIDE DEF K, N
  <1>9. UNION {ToSet(seqs[i]) : i \in 1..N} = {names[i] : i \in K}
    BY <1>7, <1>8, Zenon
  <1> QED BY <1>4, <1>6, <1>9, Zenon DEF K, N

\* What a mask of the router says of the names asked for.
LEMMA FeaturesShown ==
  ASSUME NEW S, NEW registry \in Seq(S), NEW asked
  PROVE  ToSet(BitmaskToRateFeatureStrings(<<registry>>, Mask(asked, registry)))
           = ToSet(asked) \cap {registry[i] : i \in 1..Len(registry) \cap 1..24}
  <1> DEFINE mask == Mask(asked, registry)
             N == Len(registry)
             A == ToSet(asked)
             K == {k \in 1..N : k <= 24 /\ k - 1 \in mask}
  <1>1. N \in Nat
    OBVIOUS
  <1>2. mask = {i - 1 : i \in {k \in 1..N : registry[k] \in A /\ k <= 24}}
    BY Zenon DEF Mask
  <1> HIDE DEF mask, A
  <1>3. ToSet(Named(registry, mask, 24)) = {registry[i] : i \in K}
    BY NamedNames, Zenon
  <1>4. BitmaskToRateFeatureStrings(<<registry>>, mask) = Named(registry, mask, 24)
    BY DEF BitmaskToRateFeatureStrings
  <1>5. \A k \in 1..N : k \in K <=> k <= 24 /\ registry[k] \in A
    BY <1>1, <1>2
  <1>6. K \subseteq 1..N /\ \A k \in 1..N : k <= 24 <=> k \in 1..24
    BY <1>1
  <1> HIDE DEF K, N
  <1>7. {registry[i] : i \in K} = A \cap {registry[i] : i \in 1..N \cap 1..24}
    BY <1>5, <1>6, Zenon
  <1> QED BY <1>3, <1>4, <1>7, Zenon DEF mask, A, N

\* Features that a request was allowed to name come back as they were, as far as
\* a mask has bits, if the codecs stay the same (BitmaskToRateFeatureStrings).
THEOREM AllowedFeaturesComeBack == Spec => []FeaturesComeBack
  <1>1. ASSUME IInv, request.outcome = "built", LooksUp(payload)
        PROVE  LET asked    == payload.RateFeature[1]
                   registry == request.codecs[1]
                   mask     == Mask(asked, registry)
                   shown    == {registry[i] : i \in 1..Len(registry) \cap 1..24}
               IN /\ ToSet(BitmaskToRateFeatureStrings(<<registry>>, mask))
                       = ToSet(asked) \cap shown
                  /\ BitmaskToRateFeatureStrings(<<>>, mask) = <<>>
    <2> DEFINE asked    == payload.RateFeature[1]
               registry == request.codecs[1]
               mask     == Mask(asked, registry)
    <2>1. request.codecs \in Registries /\ request.codecs # <<>>
      BY <1>1 DEF IInv, Requested
    <2>2. PICK names : names \in Seq(Seq(STRING)) /\ request.codecs = <<names>>
      BY <2>1, RegistriesAssumption
    <2>3. registry \in Seq(Seq(STRING))
      BY <2>2
    <2> HIDE DEF asked, registry
    <2>4. ToSet(BitmaskToRateFeatureStrings(<<registry>>, mask))
            = ToSet(asked) \cap {registry[i] : i \in 1..Len(registry) \cap 1..24}
      BY <2>3, FeaturesShown
    <2>5. BitmaskToRateFeatureStrings(<<>>, mask) = <<>>
      BY DEF BitmaskToRateFeatureStrings
    <2> QED BY <2>4, <2>5, Zenon DEF asked, registry
  <1>2. IInv => FeaturesComeBack
    BY <1>1, Zenon DEF FeaturesComeBack
  <1> QED BY <1>2, Invariance, PTL

-----------------------------------------------------------------------------
(* Frames                                                                  *)

\* Ids, frames, segments and payloads are of a size that four bytes can tell.
LEMMA FrameIDsFit == \A id \in FrameIDs : id \in Nat /\ id <= MaxLength
  BY SMT DEF FrameIDs, MaxLength

LEMMA FramesFit == MaxFrame <= MaxLength /\ MaxFrame \in Nat /\ MaxLength \in Nat
  BY SMT DEF MaxFrame, MaxLength

LEMMA RoutesFit ==
  ASSUME NEW segment \in Routes
  PROVE  /\ segment \in Seq(Byte) /\ Len(Payload) + Len(segment) + 11 <= MaxLength
         /\ \A i \in 1..Len(segment) : segment[i] # Magic
  <1>1. segment \in Seq(Byte) /\ Payload \in Seq(Byte)
    BY SegmentAssumption
  <1>2. Len(segment) + Len(Payload) + 11 <= MaxFrame /\ Len(segment) \in Nat
        /\ Len(Payload) \in Nat
    BY <1>1, SegmentAssumption
  <1>3. DOMAIN segment = 1..Len(segment)
    BY <1>1
  <1> QED BY <1>1, <1>2, <1>3, FramesFit, SegmentAssumption

LEMMA PayloadFits == Len(Payload) <= MaxLength
  <1>1. Payload \in Seq(Byte) /\ Len(Payload) <= MaxFrame
    BY SegmentAssumption
  <1>2. Len(Payload) \in Nat
    BY <1>1
  <1> QED BY <1>1, <1>2, FramesFit

LEMMA KeepaliveFits ==
  /\ KeepaliveSegment \in Seq(Byte) /\ Len(KeepaliveSegment) < 256
  /\ <<>> \in Seq(Byte) /\ Len(<<>>) + Len(KeepaliveSegment) + 11 <= MaxLength
  /\ 0 <= MaxLength
  /\ BuildKeepaliveFrame(0, KeepaliveSegment)
       = PrependRouterHeader(KeepaliveSegment, FALSE, 0, <<>>)
  <1>1. KeepaliveSegment \in Seq(Byte) /\ Len(KeepaliveSegment) < 256
    BY SegmentAssumption
  <1>2. <<>> \in Seq(Byte) /\ Len(<<>>) = 0 /\ Len(KeepaliveSegment) \in Nat
    BY <1>1
  <1>3. 0 <= MaxLength /\ 300 <= MaxLength
    BY SMT DEF MaxLength
  <1>4. Len(<<>>) + Len(KeepaliveSegment) + 11 <= MaxLength
    BY <1>1, <1>2, <1>3, FramesFit
  <1>5. BuildKeepaliveFrame(0, KeepaliveSegment)
          = PrependRouterHeader(KeepaliveSegment, FALSE, 0, <<>>)
    BY <1>1, <1>3, KeepaliveIsRequest
  <1> QED BY <1>1, <1>2, <1>3, <1>4, <1>5

\* Where one frame ends the next begins, for segments of every length.
THEOREM NextFrameIsFound == Spec => []FramesAligned
  <1>1. ASSUME IInv, Framed, NEW rest \in Rests
        PROVE  LET sent == frame.bytes \o rest
               IN rest = IF frame.to = "shard" THEN From(sent, 10 + Uint32(SubSeq(sent, 6, 9)))
                         ELSE TakeApart(sent).rest
    <2> DEFINE sent == frame.bytes \o rest
    <2>1. rest \in Seq(Byte) /\ Payload \in Seq(Byte)
      BY SegmentAssumption
    <2>2. CASE frame.to = "shard" /\ frame.id \in FrameIDs
               /\ frame.bytes = PrependHeader(frame.id, Payload)
      <3>1. Headed(sent, frame.id, Payload, rest)
        <4>1. Len(Payload) <= MaxLength
          BY PayloadFits
        <4> QED BY <2>1, <2>2, <4>1, FrameIDsFit, ShardHeader
      <3> HIDE DEF sent
      <3>2. rest = From(sent, 10 + Uint32(SubSeq(sent, 6, 9)))
        BY <3>1 DEF Headed
      <3> QED BY <2>2, <3>2 DEF sent
    <2>3. CASE frame.to = "router" /\ frame.id \in FrameIDs
               /\ frame.segment \in Routes /\ frame.isWrite \in BOOLEAN
               /\ frame.bytes
                    = PrependRouterHeader(frame.segment, frame.isWrite, frame.id, Payload)
      <3>1. /\ frame.segment \in Seq(Byte)
            /\ Len(Payload) + Len(frame.segment) + 11 <= MaxLength
            /\ frame.id \in Nat /\ frame.id <= MaxLength
        BY <2>3, FrameIDsFit, RoutesFit
      <3>2. TakesApart(sent, frame.segment, frame.isWrite, frame.id, Payload, rest)
        BY <2>1, <2>3, <3>1, RouterTakesApart
      <3> HIDE DEF sent
      <3>3. TakeApart(sent).rest = rest /\ frame.to # "shard"
        BY <2>3, <3>2 DEF TakesApart
      <3> QED BY <3>3 DEF sent
    <2>4. CASE frame.to = "nobody"
               /\ frame.bytes = BuildKeepaliveFrame(0, KeepaliveSegment)
      <3>1. frame.bytes = PrependRouterHeader(KeepaliveSegment, FALSE, 0, <<>>)
        BY <2>4, KeepaliveFits
      <3>2. TakesApart(sent, KeepaliveSegment, FALSE, 0, <<>>, rest)
        <4>1. FALSE \in BOOLEAN /\ 0 \in Nat
          OBVIOUS
        <4> QED BY <2>1, <3>1, <4>1, KeepaliveFits, RouterTakesApart
      <3> HIDE DEF sent
      <3>3. TakeApart(sent).rest = rest /\ frame.to # "shard"
        BY <2>4, <3>2 DEF TakesApart
      <3> QED BY <3>3 DEF sent
    <2> QED BY <1>1, <2>2, <2>3, <2>4 DEF IInv, Framing, Framed
  <1>2. IInv => FramesAligned
    BY <1>1 DEF FramesAligned
  <1> QED BY <1>2, Invariance, PTL

\* A router finds what was asked, for every segment of at most 255 bytes, and
\* nothing at all for a longer one.
THEOREM NothingIsMisrouted == Spec => []NeverMisrouted
  <1> DEFINE load == IF frame.to = "router" THEN Payload ELSE <<>>
  <1>1. ASSUME IInv, Framed, frame.to # "shard"
        PROVE  /\ TakesApart(frame.bytes, frame.segment, frame.isWrite, frame.id, load, <<>>)
               /\ frame.segment \in Seq(Byte)
               /\ Len(frame.segment) < 256 \/ \A i \in 1..Len(frame.segment) :
                                                 frame.segment[i] # Magic
    <2>1. CASE frame.to = "router" /\ frame.id \in FrameIDs
               /\ frame.segment \in Routes /\ frame.isWrite \in BOOLEAN
               /\ frame.bytes
                    = PrependRouterHeader(frame.segment, frame.isWrite, frame.id, Payload)
      <3>1. /\ frame.segment \in Seq(Byte) /\ Payload \in Seq(Byte)
            /\ Len(Payload) + Len(frame.segment) + 11 <= MaxLength
            /\ frame.id \in Nat /\ frame.id <= MaxLength
        BY <2>1, FrameIDsFit, RoutesFit, SegmentAssumption
      <3>2. TakesApart(frame.bytes, frame.segment, frame.isWrite, frame.id, Payload, <<>>)
        BY <2>1, <3>1, RouterAlone
      <3>3. load = Payload
        BY <2>1
      <3>4. \A i \in 1..Len(frame.segment) : frame.segment[i] # Magic
        BY <2>1, RoutesFit
      <3> HIDE DEF load
      <3> QED BY <3>1, <3>2, <3>3, <3>4
    <2>2. CASE /\ frame.to = "nobody" /\ frame.id = 0
               /\ frame.segment = KeepaliveSegment /\ frame.isWrite = FALSE
               /\ frame.bytes = BuildKeepaliveFrame(0, KeepaliveSegment)
      <3>1. TakesApart(frame.bytes, KeepaliveSegment, FALSE, 0, <<>>, <<>>)
        <4>1. FALSE \in BOOLEAN /\ 0 \in Nat
          OBVIOUS
        <4> QED BY <2>2, <4>1, KeepaliveFits, RouterAlone
      <3>2. load = <<>>
        BY <2>2
      <3> HIDE DEF load
      <3> QED BY <2>2, <3>1, <3>2, KeepaliveFits
    <2> QED BY <1>1, <2>1, <2>2 DEF IInv, Framing, Framed
  <1> DEFINE asked == [segment |-> frame.segment, isWrite |-> frame.isWrite,
                       clrid   |-> frame.id, payload |-> load]
             found == TakeApart(frame.bytes).request
  <1>2. ASSUME IInv, Framed, frame.to # "shard"
        PROVE  found = <<asked>> \/ (found = <<>> /\ Len(frame.segment) > 255)
    <2> HIDE DEF load
    <2>1. CASE Len(frame.segment) < 256
      <3>1. TakesApart(frame.bytes, frame.segment, frame.isWrite, frame.id, load, <<>>)
        BY <1>1, <1>2
      <3>2. found = <<asked>>
        BY <2>1, <3>1, Zenon DEF TakesApart
      <3> HIDE DEF asked, found
      <3> QED BY <3>2
    <2>2. CASE Len(frame.segment) >= 256
      <3>1. found = <<>>
        <4>1. ~(Len(frame.segment) < 256)
          <5>1. Len(frame.segment) \in Nat
            BY <1>1, <1>2
          <5> QED BY <2>2, <5>1
        <4> QED BY <1>1, <1>2, <2>2, <4>1, Zenon DEF TakesApart
      <3>2. Len(frame.segment) > 255
        <4>1. Len(frame.segment) \in Nat
          BY <1>1, <1>2
        <4> QED BY <2>2, <4>1
      <3> QED BY <3>1, <3>2
    <2>3. Len(frame.segment) < 256 \/ Len(frame.segment) >= 256
      <3>1. Len(frame.segment) \in Nat
        BY <1>1, <1>2
      <3> QED BY <3>1
    <2> QED BY <2>1, <2>2, <2>3
  <1>3. IInv => NeverMisrouted
    <2> HIDE DEF found
    <2>1. IInv => (Framed /\ frame.to # "shard"
                     => found = <<asked>> \/ (found = <<>> /\ Len(frame.segment) > 255))
      BY <1>2
    <2> QED BY <2>1, Zenon DEF NeverMisrouted, found
  <1> QED BY <1>3, Invariance, PTL

-----------------------------------------------------------------------------
(* Responses                                                               *)

\* No Parse function returns a value for an error.
LEMMA NoValueOnError == \A cmd, fs : OnError(cmd, fs) # "value"
  BY DEF OnError, TextUnguarded, Text

\* Whatever the fields, no command reports a value unless the router said
\* SUCCESS.
THEOREM OnlySuccessIsValue == Spec => []StatusDecides
  <1>1. IInv => StatusDecides
    BY NoValueOnError DEF IInv, Ended, StatusDecides, Parse
  <1> QED BY <1>1, Invariance, PTL

\* Without a field, a command that needs one does not return a value.
LEMMA NothingIsRead ==
  ASSUME NEW cmd \in Commands \ FieldsOptional
  PROVE  OnSuccess(cmd, <<>>) # "value"
  <1>1. cmd \in Scalars \cup Flags \cup {"GetPropRoomDay", "GetCodecs", "SearchAvail"}
    BY DEF Commands, FieldsOptional
  <1>2. CASE cmd \in Scalars
    <2>1. /\ cmd \notin Flags
          /\ cmd \notin {"GetPropRoomDay", "GetCodecs", "SearchProp", "SearchAvail", "GetSegments"}
      BY <1>2 DEF Flags, Scalars
    <2>2. Scalar(<<>>) # "value"
      BY DEF Scalar
    <2> QED BY <1>2, <2>1, <2>2 DEF OnSuccess
  <1>3. CASE cmd \in Flags
    <2>1. /\ cmd \notin Scalars
          /\ cmd \notin {"GetPropRoomDay", "GetCodecs", "SearchProp", "SearchAvail", "GetSegments"}
      BY <1>3 DEF Flags, Scalars
    <2>2. Flag(<<>>) # "value"
      BY DEF Flag
    <2> QED BY <1>3, <2>1, <2>2 DEF OnSuccess
  <1>4. CASE cmd \in {"GetPropRoomDay", "GetCodecs", "SearchAvail"}
    <2>1. cmd \notin Scalars /\ cmd \notin Flags
      BY <1>4 DEF Flags, Scalars
    <2>2. RoomDay(<<>>) # "value" /\ Codecs(<<>>) # "value" /\ Avail(<<>>) # "value"
      BY DEF RoomDay, Codecs, Avail
    <2> QED BY <1>4, <2>1, <2>2 DEF OnSuccess
  <1> QED BY <1>1, <1>2, <1>3, <1>4

\* A response whose fields do not add up yields no value that was read in it.
THEOREM DamageYieldsNothing == Spec => []DamageContained
  <1>1. ASSUME IInv, result = "value", frame.count # Len(frame.fields)
        PROVE  command \in FieldsOptional
    <2>1. command \in Commands /\ result = Parse(command, frame)
      BY <1>1 DEF IInv, Typed, Ended
    <2>2. FieldsKept(frame) = <<>>
      BY <1>1 DEF FieldsKept
    <2>3. OnSuccess(command, <<>>) = "value"
      BY <1>1, <2>1, <2>2, NoValueOnError DEF Parse
    <2> QED BY <2>1, <2>3, NothingIsRead
  <1>2. IInv => DamageContained
    BY <1>1 DEF DamageContained
  <1> QED BY <1>2, Invariance, PTL

\* A field that names a property, and its days after it.
Pair(fs, i) == fs[i].type = String /\ IsDays(fs[i + 1], fs[1].num)

\* The fields from place i on are pairs.
Pairs(fs, i) ==
  \E m \in Nat : Len(fs) + 1 - i = 2 * m /\ \A k \in 0..m - 1 : Pair(fs, i + 2 * k)

\* Pairs from a place on are a pair at this place and pairs after it.
LEMMA PairsStep ==
  ASSUME NEW F, NEW fs \in Seq(F), NEW i \in 2..Len(fs) + 1
  PROVE  /\ i > Len(fs) => Pairs(fs, i)
         /\ i = Len(fs) => ~Pairs(fs, i)
         /\ i < Len(fs) => (Pairs(fs, i) <=> Pair(fs, i) /\ Pairs(fs, i + 2))
  <1> DEFINE L == Len(fs)
  <1>1. L \in Nat /\ i \in Nat
    OBVIOUS
  <1> HIDE DEF L
  <1>2. ASSUME i > L PROVE L + 1 - i = 2 * 0
    BY <1>1, <1>2 DEF L
  <1>3. ASSUME i > L PROVE Pairs(fs, i)
    BY <1>1, <1>2, <1>3 DEF Pairs, L
  <1>4. ASSUME i = L PROVE ~Pairs(fs, i)
    BY <1>1, <1>4 DEF Pairs, L
  <1>5. ASSUME i < L, Pairs(fs, i) PROVE Pair(fs, i) /\ Pairs(fs, i + 2)
    <2>1. PICK m \in Nat : L + 1 - i = 2 * m /\ \A k \in 0..m - 1 : Pair(fs, i + 2 * k)
      BY <1>5 DEF Pairs, L
    <2>2. m - 1 \in Nat /\ 0 \in 0..m - 1 /\ i + 2 * 0 = i
      BY <1>1, <1>5, <2>1
    <2>3. L + 1 - (i + 2) = 2 * (m - 1)
      BY <1>1, <2>1
    <2>4. \A k \in 0..(m - 1) - 1 : Pair(fs, (i + 2) + 2 * k)
      <3> TAKE k \in 0..(m - 1) - 1
      <3>1. k + 1 \in 0..m - 1 /\ i + 2 * (k + 1) = (i + 2) + 2 * k
        BY <1>1
      <3> QED BY <2>1, <3>1
    <2>5. Pair(fs, i)
      BY <2>1, <2>2
    <2> QED BY <2>2, <2>3, <2>4, <2>5 DEF Pairs, L
  <1>6. ASSUME i < L, Pair(fs, i), Pairs(fs, i + 2) PROVE Pairs(fs, i)
    <2>1. PICK m \in Nat : /\ L + 1 - (i + 2) = 2 * m
                           /\ \A k \in 0..m - 1 : Pair(fs, (i + 2) + 2 * k)
      BY <1>6 DEF Pairs, L
    <2>2. L + 1 - i = 2 * (m + 1)
      BY <1>1, <2>1
    <2>3. \A k \in 0..(m + 1) - 1 : Pair(fs, i + 2 * k)
      <3> TAKE k \in 0..(m + 1) - 1
      <3>1. CASE k = 0
        <4>1. i + 2 * k = i
          BY <1>1, <3>1
        <4> QED BY <1>6, <4>1
      <3>2. CASE k # 0
        <4>1. k - 1 \in 0..m - 1 /\ (i + 2) + 2 * (k - 1) = i + 2 * k
          BY <1>1, <3>2
        <4> QED BY <2>1, <4>1
      <3> QED BY <3>1, <3>2
    <2>4. m + 1 \in Nat
      OBVIOUS
    <2> QED BY <2>2, <2>3, <2>4 DEF Pairs, L
  <1> QED BY <1>3, <1>4, <1>5, <1>6 DEF L

\* The loop of ParseSearchAvailResp.
LoopIs(f, fs) ==
  f = [i \in 2..Len(fs) + 1 |->
        IF i > Len(fs) THEN "value"
        ELSE IF /\ fs[i].type = String
                /\ i + 1 <= Len(fs) /\ IsDays(fs[i + 1], fs[1].num) THEN f[i + 2]
        ELSE "error"]
AvailLoop(fs) == CHOOSE f : LoopIs(f, fs)

\* The loop of ParseSearchAvailResp finds out whether pairs follow the first
\* field.
LEMMA LoopFindsPairs ==
  ASSUME NEW F, NEW fs \in Seq(F), fs # <<>>
  PROVE  AvailLoop(fs)[2] = IF Pairs(fs, 2) THEN "value" ELSE "error"
  <1> DEFINE L == Len(fs)
             g == [i \in 2..L + 1 |-> IF Pairs(fs, i) THEN "value" ELSE "error"]
             loop == AvailLoop(fs)
             Step(f, i) == IF i > L THEN "value"
                           ELSE IF i + 1 <= L /\ Pair(fs, i) THEN f[i + 2] ELSE "error"
  <1>1. L \in Nat /\ L > 0 /\ L = Len(fs)
    OBVIOUS
  <1>2. \A f : LoopIs(f, fs) <=> f = [i \in 2..L + 1 |-> Step(f, i)]
    BY DEF LoopIs, Pair
  <1> HIDE DEF L
  <1>3. \A i \in 2..L + 1 : g[i] = Step(g, i)
    <2> TAKE i \in 2..L + 1
    <2>1. /\ i > L => Pairs(fs, i)
          /\ i = L => ~Pairs(fs, i)
          /\ i < L => (Pairs(fs, i) <=> Pair(fs, i) /\ Pairs(fs, i + 2))
      BY PairsStep DEF L
    <2>2. i < L => i + 2 \in 2..L + 1
      BY <1>1
    <2>3. i > L \/ i = L \/ (i < L /\ i + 1 <= L)
      BY <1>1
    <2>4. i = L => ~(i + 1 <= L)
      BY <1>1
    <2>5. i < L => ~(i > L)
      BY <1>1
    <2>6. i < L => g[i + 2] = IF Pairs(fs, i + 2) THEN "value" ELSE "error"
      BY <2>2
    <2>7. g[i] = IF Pairs(fs, i) THEN "value" ELSE "error"
      OBVIOUS
    <2>8. i = L => ~(i > L)
      BY <1>1
    <2> HIDE DEF g
    <2> QED BY <2>1, <2>3, <2>4, <2>5, <2>6, <2>7, <2>8
  <1>4. DOMAIN g = 2..L + 1
    OBVIOUS
  <1>5. LoopIs(loop, fs)
    <2>1. LoopIs(g, fs)
      <3>1. g = [i \in 2..L + 1 |-> g[i]]
        OBVIOUS
      <3> HIDE DEF g
      <3> QED BY <1>2, <1>3, <3>1
    <2> QED BY <2>1 DEF AvailLoop
  <1> HIDE DEF loop, g
  <1>6. \A i \in 2..L + 1 : loop[i] = Step(loop, i)
    BY <1>2, <1>5
  <1> HIDE DEF Step
  <1> DEFINE Wrong == {n \in Nat : \E i \in 2..L + 1 : n = L + 1 - i /\ loop[i] # g[i]}
  <1>7. Wrong = {}
    <2> SUFFICES ASSUME Wrong # {} PROVE FALSE
      OBVIOUS
    <2>1. PICK n \in Wrong : \A k \in Wrong : n <= k
      BY Least
    <2>2. PICK i \in 2..L + 1 : n = L + 1 - i /\ loop[i] # g[i]
      OBVIOUS
    <2>3. loop[i] = Step(loop, i) /\ g[i] = Step(g, i)
      BY <1>3, <1>6
    <2>4. i + 1 <= L /\ loop[i + 2] # g[i + 2]
      <3>1. ~(i > L) /\ i + 1 <= L
        BY <2>2, <2>3 DEF Step
      <3>2. Step(loop, i) # Step(g, i)
        BY <2>2, <2>3
      <3>3. \A f : Step(f, i) = f[i + 2] \/ Step(f, i) = "error"
        BY <3>1 DEF Step
      <3>4. Pair(fs, i)
        BY <3>2 DEF Step
      <3>5. \A f : Step(f, i) = f[i + 2]
        BY <3>1, <3>4 DEF Step
      <3> QED BY <3>1, <3>2, <3>5
    <2>5. i + 2 \in 2..L + 1 /\ L + 1 - (i + 2) \in Nat /\ L + 1 - (i + 2) < n
      <3>1. L \in Nat /\ i \in Nat /\ 2 <= i
        BY <1>1
      <3>2. i + 1 <= L /\ n = L + 1 - i
        BY <2>2, <2>4, Zenon
      <3> HIDE DEF Wrong
      <3> QED BY <3>1, <3>2
    <2>6. L + 1 - (i + 2) \in Wrong
      BY <2>4, <2>5
    <2>7. n <= L + 1 - (i + 2) /\ n \in Nat
      BY <2>1, <2>6
    <2> QED BY <2>5, <2>7
  <1>8. \A i \in 2..L + 1 : loop[i] = g[i]
    <2> SUFFICES ASSUME NEW i \in 2..L + 1, loop[i] # g[i] PROVE FALSE
      OBVIOUS
    <2>1. L + 1 - i \in Nat
      BY <1>1
    <2>2. L + 1 - i \in Wrong
      BY <2>1
    <2> QED BY <1>7, <2>2
  <1>9. 2 \in 2..L + 1
    BY <1>1
  <1>10. loop[2] = g[2]
    BY <1>8, <1>9
  <1>11. g[2] = IF Pairs(fs, 2) THEN "value" ELSE "error"
    BY <1>9 DEF g
  <1> QED BY <1>10, <1>11 DEF loop

\* What ParseSearchAvailResp accepts, however many fields there are.
THEOREM AvailAcceptsExactly ==
  ASSUME NEW F, NEW fs \in Seq(F)
  PROVE  Avail(fs) = "value" <=> IsAvailability(fs)
  <1> DEFINE L == Len(fs)
             loop == AvailLoop(fs)
  <1>1. L \in Nat
    OBVIOUS
  <1>2. CASE fs = <<>>
    BY <1>2 DEF Avail, IsAvailability
  <1>3. CASE fs # <<>>
    <2>1. Avail(fs) = IF fs[1].id = 1 /\ fs[1].type = Number /\ fs[1].len = 2 THEN loop[2]
                      ELSE "error"
      <3> DEFINE days == fs[1].num
                 read[i \in 2..Len(fs) + 1] ==
                   IF i > Len(fs) THEN "value"
                   ELSE IF /\ fs[i].type = String
                           /\ i + 1 <= Len(fs) /\ IsDays(fs[i + 1], days) THEN read[i + 2]
                   ELSE "error"
      <3>1. read = loop
        BY DEF LoopIs, AvailLoop
      <3>2. Avail(fs) = IF fs[1].id = 1 /\ fs[1].type = Number /\ fs[1].len = 2 THEN read[2]
                        ELSE "error"
        BY <1>3 DEF Avail
      <3> HIDE DEF read, loop
      <3> QED BY <3>1, <3>2
    <2>2. loop[2] = "value" <=> Pairs(fs, 2)
      BY <1>3, LoopFindsPairs
    <2> HIDE DEF loop
    <2>3. Pairs(fs, 2) <=> L % 2 = 1 /\ \A k \in 1..(L - 1) \div 2 : Pair(fs, 2 * k)
      <3>1. ASSUME Pairs(fs, 2)
            PROVE  L % 2 = 1 /\ \A k \in 1..(L - 1) \div 2 : Pair(fs, 2 * k)
        <4>1. PICK m \in Nat : L + 1 - 2 = 2 * m /\ \A k \in 0..m - 1 : Pair(fs, 2 + 2 * k)
          BY <3>1 DEF Pairs
        <4>2. L % 2 = 1 /\ (L - 1) \div 2 = m
          BY <1>1, <4>1
        <4>3. ASSUME NEW k \in 1..m PROVE Pair(fs, 2 * k)
          <5>1. k - 1 \in 0..m - 1 /\ 2 + 2 * (k - 1) = 2 * k
            OBVIOUS
          <5> QED BY <4>1, <5>1
        <4> QED BY <4>2, <4>3
      <3>2. ASSUME L % 2 = 1, \A k \in 1..(L - 1) \div 2 : Pair(fs, 2 * k)
            PROVE  Pairs(fs, 2)
        <4> DEFINE m == (L - 1) \div 2
        <4>1. m \in Nat /\ L + 1 - 2 = 2 * m
          BY <1>1, <3>2
        <4> HIDE DEF m
        <4>2. ASSUME NEW k \in 0..m - 1 PROVE Pair(fs, 2 + 2 * k)
          <5>1. k + 1 \in 1..m /\ 2 * (k + 1) = 2 + 2 * k
            BY <4>1
          <5> QED BY <3>2, <5>1 DEF m
        <4> QED BY <4>1, <4>2 DEF Pairs
      <3> QED BY <3>1, <3>2
    <2> QED BY <2>1, <2>2, <2>3 DEF IsAvailability, Pair
  <1> QED BY <1>2, <1>3

\* What ParseSearchAvailResp takes for an answer is one, and it takes every one.
THEOREM AnswersAreExact == Spec => []AvailExact
  <1>1. ASSUME IInv, Parsed, command = "SearchAvail", frame.status = "SUCCESS"
        PROVE  result = "value" <=> IsAvailability(FieldsKept(frame))
    <2>1. result = Parse(command, frame) /\ frame.fields \in Seq(Alphabet[command])
      BY <1>1 DEF IInv, Ended, Responding, Parsed
    <2>2. result = Avail(FieldsKept(frame))
      BY <1>1, <2>1 DEF Parse, OnSuccess, Scalars, Flags
    <2>3. FieldsKept(frame) \in Seq(Alphabet[command])
      BY <2>1, EmptySeq DEF FieldsKept
    <2> QED BY <2>2, <2>3, AvailAcceptsExactly
  <1>2. IInv => AvailExact
    BY <1>1 DEF AvailExact
  <1> QED BY <1>2, Invariance, PTL

-----------------------------------------------------------------------------
(* Responses on the wire                                                   *)

\* Both of two bytes are bytes.
LEMMA TwoBytesRead == \A s \in Seq(Byte) : Len(s) = 2 => s[1] \in Byte /\ s[2] \in Byte
  <1> SUFFICES ASSUME NEW s \in Seq(Byte), Len(s) = 2
               PROVE  s[1] \in Byte /\ s[2] \in Byte
    OBVIOUS
  <1>1. 1 \in 1..Len(s) /\ 2 \in 1..Len(s)
    OBVIOUS
  <1> QED BY <1>1, ElementOfSeq, Zenon

\* The data of a field: two bytes of a number and then some.
LEMMA RawData ==
  ASSUME NEW m \in Nat, m <= MaxCount, NEW n \in Nat
  PROVE  /\ [i \in 1..n |-> IF i <= 2 THEN LE2(m)[i] ELSE 255] \in Seq(Byte)
         /\ Len([i \in 1..n |-> IF i <= 2 THEN LE2(m)[i] ELSE 255]) = n
  <1> DEFINE b == LE2(m)
             B(i) == IF i <= 2 THEN b[i] ELSE 255
  <1>1. b \in Seq(Byte) /\ Len(b) = 2
    BY LE2Bytes
  <1> HIDE DEF b
  <1>2. b[1] \in Byte /\ b[2] \in Byte
    BY <1>1, TwoBytesRead
  <1>3. 255 \in Byte
    BY SMT DEF Byte
  <1>4. \A i \in 1..n : B(i) \in Byte
    <2> TAKE i \in 1..n
    <2>1. i = 1 \/ i = 2 \/ ~(i <= 2)
      OBVIOUS
    <2> QED BY <1>2, <1>3, <2>1, Zenon
  <1> HIDE DEF B
  <1>5. [i \in 1..n |-> B(i)] \in Seq(Byte) /\ Len([i \in 1..n |-> B(i)]) = n
    BY <1>4
  <1> QED BY <1>5, Zenon DEF B, b

\* A number of two bytes is an id or a count, and data are shorter than a
\* frame.
LEMMA Uint16Counts == \A k \in 0..MaxUint16 : k \in Nat /\ k <= MaxCount /\ k \in 0..MaxCount
  <1>1. MaxUint16 = MaxCount /\ MaxCount \in Nat
    BY DEF MaxUint16, MaxCount
  <1> QED BY <1>1

LEMMA DataIsShort == \A k \in 0..MaxData : k \in Nat /\ k <= MaxData /\ k <= MaxLength
  <1>1. MaxData <= MaxLength /\ MaxData \in Nat /\ MaxLength \in Nat
    BY DEF MaxData, MaxLength
  <1> QED BY <1>1

\* A field of a response, as the reader of its bytes has it.
LEMMA RawFits ==
  ASSUME NEW f, f.id \in 0..MaxUint16, f.num \in 0..MaxUint16, f.type \in Byte,
         f.len \in 0..MaxData
  PROVE  Fits(Raw(f)) /\ Len(Raw(f).data) <= MaxData
  <1> DEFINE d == Raw(f).data
             l == Len(d)
  <1>1. d = [i \in 1..f.len |-> IF i <= 2 THEN LE2(f.num)[i] ELSE 255]
    BY Zenon DEF Raw
  <1>2. d \in Seq(Byte) /\ l = f.len
    <2>1. f.num \in Nat /\ f.num <= MaxCount /\ f.len \in Nat
      BY Uint16Counts, DataIsShort, Zenon
    <2>2. /\ [i \in 1..f.len |-> IF i <= 2 THEN LE2(f.num)[i] ELSE 255] \in Seq(Byte)
          /\ Len([i \in 1..f.len |-> IF i <= 2 THEN LE2(f.num)[i] ELSE 255]) = f.len
      BY <2>1, RawData
    <2> QED BY <1>1, <2>2, Zenon
  <1>3. Raw(f) = [id |-> f.id, type |-> f.type, data |-> d]
    BY Zenon DEF Raw
  <1>4. f.id \in 0..MaxCount
    BY Uint16Counts, Zenon
  <1> HIDE DEF d
  <1>5. Raw(f) \in Field
    <2> DEFINE j == f.id
               t == f.type
    <2>1. j \in 0..MaxCount /\ t \in Byte
          /\ Raw(f) = [id |-> j, type |-> t, data |-> d]
      BY <1>3, <1>4, Zenon
    <2> HIDE DEF j, t
    <2> QED BY <1>2, <2>1 DEF Field
  <1>6. l <= MaxData /\ l <= MaxLength
    BY <1>2, DataIsShort, Zenon
  <1> QED BY <1>5, <1>6, Zenon DEF Fits, d

\* The fields of a response, as the reader of their bytes has them.
LEMMA RawFieldsFit ==
  ASSUME Typed, frame.fields \in Seq(Alphabet[command])
  PROVE  /\ RawFields \in Seq({Raw(f) : f \in Alphabet[command]})
         /\ Len(RawFields) = Len(frame.fields)
         /\ \A i \in 1..Len(RawFields) : Fits(RawFields[i]) /\ Len(RawFields[i].data) <= MaxData
  <1> DEFINE A == Alphabet[command]
             fs == frame.fields
             R(i) == Raw(fs[i])
  <1>1. command \in Commands
    BY Zenon DEF Typed
  <1>2. \A f \in A : /\ f.id \in 0..MaxUint16 /\ f.num \in 0..MaxUint16
                     /\ f.type \in Byte /\ f.len \in 0..MaxData
    BY <1>1, AlphabetAssumption, Zenon
  <1>3. \A f \in A : Fits(Raw(f)) /\ Len(Raw(f).data) <= MaxData
    BY <1>2, RawFits, Zenon
  <1>4. fs \in Seq(A)
    OBVIOUS
  <1>5. RawFields = [i \in 1..Len(fs) |-> R(i)]
    BY Zenon DEF RawFields
  <1> HIDE DEF A, fs
  <1>6. Len(fs) \in Nat /\ \A i \in 1..Len(fs) : fs[i] \in A
    BY <1>4, ElementOfSeq
  <1>7. \A i \in 1..Len(fs) : R(i) \in {Raw(f) : f \in A}
    BY <1>6, Zenon
  <1>8. \A i \in 1..Len(fs) : Fits(R(i)) /\ Len(R(i).data) <= MaxData
    BY <1>3, <1>6, Zenon
  <1> HIDE DEF R
  <1>9. /\ RawFields \in Seq({Raw(f) : f \in A}) /\ Len(RawFields) = Len(fs)
        /\ \A i \in 1..Len(fs) : RawFields[i] = R(i)
    <2> DEFINE S == {Raw(f) : f \in A}
    <2>1. \A i \in 1..Len(fs) : R(i) \in S
      BY <1>7
    <2> HIDE DEF S
    <2>2. /\ RawFields \in Seq(S) /\ Len(RawFields) = Len(fs)
          /\ \A i \in 1..Len(fs) : RawFields[i] = R(i)
      BY <1>5, <1>6, <2>1
    <2> QED BY <2>2 DEF S
  <1>10. \A i \in 1..Len(RawFields) : Fits(RawFields[i]) /\ Len(RawFields[i].data) <= MaxData
    BY <1>8, <1>9, Zenon
  <1> QED BY <1>9, <1>10, Zenon DEF A, fs

\* Bound: the bytes of a status in an answer.
MaxStatus == 7

\* Two fields and the head of a response are shorter than a frame.
LEMMA BoundsFit ==
  /\ MaxData \in Nat /\ MaxLength \in Nat /\ MaxStatus = 7 /\ MaxBytesFields = 2
  /\ 2 * (7 + MaxData) + 20 <= MaxLength
  BY DEF MaxData, MaxLength, MaxStatus, MaxBytesFields

\* The fields of an answer, as they are on the wire.
Carried(fs) ==
  /\ Len(fs) <= MaxBytesFields
  /\ \A i \in 1..Len(fs) : Fits(fs[i]) /\ Len(fs[i].data) <= MaxData

\* So are the bytes of the fields of an answer.
LEMMA FieldsAreShort ==
  ASSUME NEW F, NEW fs \in Seq(F), Carried(fs)
  PROVE  FieldsOf(fs) \in Seq(Byte) /\ Len(FieldsOf(fs)) \in Nat
         /\ Len(FieldsOf(fs)) + 20 <= MaxLength
  <1> DEFINE N == Len(fs)
             l(i) == Len(fs[i].data)
             all == FieldsOf(fs)
  <1>1. N \in Nat /\ N <= 2
    BY BoundsFit DEF Carried
  <1>2. \A i \in 1..N : Fits(fs[i]) /\ l(i) <= MaxData
    BY Zenon DEF Carried
  <1>3. PICK ends : Ends(ends, fs)
    BY <1>2, FieldsEnd
  <1>4. /\ ends[0] = 0 /\ all \in Seq(Byte) /\ Len(all) = ends[N]
        /\ \A i \in 1..N : ends[i] = ends[i - 1] + 7 + l(i) /\ ends[i] \in Nat
    BY <1>3, Zenon DEF Ends
  <1>5. \A i \in 1..N : l(i) \in Nat
    BY <1>2, FieldParts, Zenon
  <1> DEFINE e0 == ends[0]
             e1 == ends[1]
             e2 == ends[2]
             l1 == l(1)
             l2 == l(2)
  <1>6. N >= 1 => e1 = e0 + 7 + l1 /\ l1 \in Nat /\ l1 <= MaxData
    <2>1. N >= 1 => 1 \in 1..N /\ 1 - 1 = 0
      BY <1>1
    <2>2. 1 \in 1..N => ends[1] = ends[1 - 1] + 7 + l(1) /\ l(1) \in Nat /\ l(1) <= MaxData
      BY <1>2, <1>4, <1>5, Zenon
    <2> QED BY <2>1, <2>2
  <1>7. N >= 2 => e2 = e1 + 7 + l2 /\ l2 \in Nat /\ l2 <= MaxData
    <2>1. N >= 2 => 2 \in 1..N /\ 2 - 1 = 1
      BY <1>1
    <2>2. 2 \in 1..N => ends[2] = ends[2 - 1] + 7 + l(2) /\ l(2) \in Nat /\ l(2) <= MaxData
      BY <1>2, <1>4, <1>5, Zenon
    <2> QED BY <2>1, <2>2
  <1>8. e0 = 0 /\ (N = 0 => Len(all) = e0) /\ (N = 1 => Len(all) = e1) /\ (N = 2 => Len(all) = e2)
    BY <1>4
  <1> DEFINE L == Len(all)
  <1>9. L \in Nat
    BY <1>4
  <1>10. L + 20 <= MaxLength
    <2>1. e0 = 0 /\ (N = 0 => L = e0) /\ (N = 1 => L = e1) /\ (N = 2 => L = e2)
      BY <1>8
    <2> HIDE DEF N, L, e0, e1, e2, l1, l2
    <2> QED BY <1>1, <1>6, <1>7, <2>1, BoundsFit
  <1> QED BY <1>4, <1>9, <1>10

\* A response of up to two fields, as it was written and as it is read.
LEMMA ResponseIsRead ==
  ASSUME NEW F, NEW fs \in Seq(F), Carried(fs),
         NEW clrid \in Nat, clrid <= MaxLength,
         NEW status \in Seq(Byte), Len(status) <= MaxStatus,
         NEW count \in Nat, count <= 3, NEW rest \in Seq(Byte)
  PROVE  LET h == DrainFrame(Response(clrid, status, count, FieldsOf(fs)) \o rest)[1]
         IN /\ h.clrid = clrid /\ h.status = status /\ h.rest = rest
            /\ ParseFields(h.data, h.count) = IF count = Len(fs) THEN <<fs>> ELSE <<>>
            /\ ParseFields(h.data \o <<0>>, h.count) = <<>>
            /\ h.data # <<>> =>
                 ParseFields(SubSeq(h.data, 1, Len(h.data) - 1), h.count) = <<>>
  <1> DEFINE d == FieldsOf(fs)
             h == DrainFrame(Response(clrid, status, count, d) \o rest)[1]
  <1>1. d \in Seq(Byte) /\ Len(d) \in Nat /\ Len(d) + 20 <= MaxLength
    BY FieldsAreShort
  <1>2. \A i \in 1..Len(fs) : Fits(fs[i])
    BY Zenon DEF Carried
  <1>3. /\ ParseFields(d, count) = IF count = Len(fs) THEN <<fs>> ELSE <<>>
        /\ \A x \in Seq(Byte) : Len(x) \in 1..6 => ParseFields(d \o x, count) = <<>>
        /\ d # <<>> => ParseFields(SubSeq(d, 1, Len(d) - 1), count) = <<>>
    BY <1>2, FieldsReadBack
  <1> HIDE DEF d
  <1>4. <<0>> \in Seq(Byte) /\ Len(<<0>>) \in 1..6
    BY DEF Byte
  <1>5. count <= MaxCount
    BY DEF MaxCount
  <1>6. Len(status) \in Nat /\ Len(status) < 256 /\ Len(d) + Len(status) + 3 <= MaxLength
    <2> DEFINE s == Len(status)
               l == Len(d)
    <2>1. s \in Nat /\ s <= MaxStatus /\ l \in Nat /\ l + 20 <= MaxLength
      BY <1>1
    <2> HIDE DEF s, l
    <2>2. s < 256 /\ l + s + 3 <= MaxLength
      BY <2>1, BoundsFit
    <2> QED BY <2>1, <2>2 DEF s, l
  <1>7. DrainFrame(Response(clrid, status, count, d) \o rest)
          = <<[clrid |-> clrid, status |-> status, count |-> count, data |-> d, rest |-> rest]>>
    BY <1>1, <1>5, <1>6, ResponseDrained
  <1>8. h = [clrid |-> clrid, status |-> status, count |-> count, data |-> d, rest |-> rest]
    BY <1>7
  <1> HIDE DEF h
  <1>9. /\ h.clrid = clrid /\ h.status = status /\ h.count = count /\ h.data = d
        /\ h.rest = rest
    BY <1>8, Zenon
  <1>10. /\ h.clrid = clrid /\ h.status = status /\ h.rest = rest
         /\ ParseFields(h.data, h.count) = IF count = Len(fs) THEN <<fs>> ELSE <<>>
         /\ ParseFields(h.data \o <<0>>, h.count) = <<>>
         /\ h.data # <<>> =>
              ParseFields(SubSeq(h.data, 1, Len(h.data) - 1), h.count) = <<>>
    BY <1>3, <1>4, <1>9, Zenon
  <1> QED BY <1>10, Zenon DEF h, d

\* No part of such a response is read as one.
LEMMA TornResponseIsNot ==
  ASSUME NEW F, NEW fs \in Seq(F), Carried(fs),
         NEW clrid \in Nat, clrid <= MaxLength,
         NEW status \in Seq(Byte), Len(status) <= MaxStatus, NEW count \in Nat, count <= 3,
         NEW n \in 0..Len(Response(clrid, status, count, FieldsOf(fs))) - 1
  PROVE  DrainFrame(SubSeq(Response(clrid, status, count, FieldsOf(fs)), 1, n)) = <<>>
  <1> DEFINE d == FieldsOf(fs)
             one == <<Len(status)>>
             num == LE2(count)
             load == one \o status \o num \o d
             s == PrependHeader(clrid, load)
  <1>1. d \in Seq(Byte) /\ Len(d) \in Nat /\ Len(d) + 20 <= MaxLength
    BY FieldsAreShort
  <1>2. s = Response(clrid, status, count, FieldsOf(fs))
    BY Zenon DEF Response
  <1> HIDE DEF d
  <1>3. Len(status) \in Nat /\ Len(status) <= 7
    BY BoundsFit
  <1>4. one \in Seq(Byte) /\ Len(one) = 1
    BY <1>3, OneByte, SmallIsByte
  <1>5. num \in Seq(Byte) /\ Len(num) = 2
    BY LE2Bytes DEF MaxCount
  <1> HIDE DEF one, num
  <1>6. load \in Seq(Byte) /\ Len(load) = Len(one) + Len(status) + Len(num) + Len(d)
    <2>1. one \o status \in Seq(Byte) /\ Len(one \o status) = Len(one) + Len(status)
      BY <1>4, Concat
    <2>2. /\ (one \o status) \o num \in Seq(Byte)
          /\ Len((one \o status) \o num) = Len(one) + Len(status) + Len(num)
      BY <1>5, <2>1, Concat
    <2> QED BY <1>1, <2>2, Concat
  <1>7. Len(load) \in Nat /\ Len(load) <= MaxLength
    <2> DEFINE a == Len(one)
               b == Len(status)
               c == Len(num)
               e == Len(d)
               l == Len(load)
    <2>1. /\ a = 1 /\ b \in Nat /\ b <= 7 /\ c = 2 /\ e \in Nat /\ e + 20 <= MaxLength
          /\ l = a + b + c + e
      BY <1>1, <1>3, <1>4, <1>5, <1>6
    <2> HIDE DEF a, b, c, e, l
    <2>2. l \in Nat /\ l <= MaxLength
      BY <2>1, BoundsFit
    <2> QED BY <2>2 DEF l
  <1> HIDE DEF load
  <1>8. Len(s) = 9 + Len(load)
    BY <1>6, <1>7, ShardAlone
  <1>9. n \in Nat /\ n < Len(s)
    <2> DEFINE l == Len(s)
    <2>1. l \in Nat /\ n \in 0..l - 1
      BY <1>2, <1>7, <1>8
    <2> HIDE DEF l
    <2>2. n \in Nat /\ n < l
      BY <2>1
    <2> QED BY <2>2 DEF l
  <1>10. DrainFrame(SubSeq(s, 1, n)) = <<>>
    BY <1>6, <1>7, <1>9, TornFrameLost
  <1> QED BY <1>2, <1>10, Zenon

\* What is sent in an answer, if it is written out as bytes.
LEMMA SentFields ==
  ASSUME IInv, OnWire
  PROVE  /\ RawFields \in Seq({Raw(f) : f \in Alphabet[command]}) /\ Carried(RawFields)
         /\ Len(RawFields) = Len(frame.fields) /\ Len(frame.fields) \in 0..2
         /\ FieldsBytes = FieldsOf(RawFields)
         /\ StatusBytes[frame.status] \in Seq(Byte)
         /\ Len(StatusBytes[frame.status]) <= MaxStatus
  <1> DEFINE fs == frame.fields
             st == frame.status
  <1>1. /\ Typed /\ fs \in Seq(Alphabet[command]) /\ st \in {"SUCCESS", "ERROR", ""}
        /\ Len(fs) <= 2
    BY BoundsFit DEF IInv, Responding, OnWire
  <1>2. Len(fs) \in 0..2
    <2> DEFINE l == Len(fs)
    <2>1. l \in Nat /\ l <= 2
      BY <1>1, LenProperties, Zenon
    <2> HIDE DEF l
    <2>2. l \in 0..2
      BY <2>1
    <2> QED BY <2>2 DEF l
  <1>3. /\ RawFields \in Seq({Raw(f) : f \in Alphabet[command]}) /\ Len(RawFields) = Len(fs)
        /\ \A i \in 1..Len(RawFields) : Fits(RawFields[i]) /\ Len(RawFields[i].data) <= MaxData
    BY <1>1, RawFieldsFit, Zenon
  <1>4. Len(RawFields) <= MaxBytesFields
    BY <1>1, <1>3, BoundsFit, Zenon
  <1>5. Carried(RawFields)
    BY <1>3, <1>4, Zenon DEF Carried
  <1>6. FieldsBytes = FieldsOf(RawFields)
    BY Zenon DEF FieldsBytes, FieldsOf
  <1>7. StatusBytes[st] \in Seq(Byte) /\ Len(StatusBytes[st]) <= MaxStatus
    <2>1. \A b \in {83, 85, 67, 69, 82, 79} : b \in Byte
      BY DEF Byte
    <2>2. /\ <<83, 85, 67, 67, 69, 83, 83>> \in Seq(Byte)
          /\ Len(<<83, 85, 67, 67, 69, 83, 83>>) = 7
      BY <2>1
    <2>3. <<69, 82, 82, 79, 82>> \in Seq(Byte) /\ Len(<<69, 82, 82, 79, 82>>) = 5
      BY <2>1
    <2>4. <<>> \in Seq(Byte) /\ Len(<<>>) = 0
      BY EmptySeq
    <2> HIDE DEF st
    <2>5. StatusBytes[st] = CASE st = "SUCCESS" -> <<83, 85, 67, 67, 69, 83, 83>>
                              [] st = "ERROR"   -> <<69, 82, 82, 79, 82>>
                              [] OTHER         -> <<>>
      BY <1>1 DEF StatusBytes
    <2>6. CASE st = "SUCCESS"
      BY <2>2, <2>5, <2>6, BoundsFit
    <2>7. CASE st = "ERROR"
      BY <2>3, <2>5, <2>7, BoundsFit
    <2>8. CASE st = ""
      <3>1. st # "SUCCESS" /\ st # "ERROR"
        BY <2>8
      <3>2. StatusBytes[st] = <<>>
        BY <2>5, <3>1, Zenon
      <3> QED BY <2>4, <3>2, BoundsFit
    <2> QED BY <1>1, <2>6, <2>7, <2>8, Zenon
  <1> QED BY <1>2, <1>3, <1>5, <1>6, <1>7, Zenon

\* The id of such a response is one.
LEMMA WireIDFits == WireID \in Nat /\ WireID <= MaxLength
  BY DEF WireID, MaxLength

\* What a response says is read in it, and no field is read where the count of
\* the fields or the bytes are not right (DrainFrame, ParseFields).
THEOREM AnswersAreReadAsWritten == Spec => []BytesAgree
  <1>1. ASSUME IInv, OnWire, NEW extra \in {-1, 0, 1}, NEW rest \in Rests,
               Len(frame.fields) + extra >= 0
        PROVE  LET count == Len(frame.fields) + extra
                   h     == DrainFrame(Sent(count) \o rest)[1]
               IN /\ h.clrid = WireID /\ h.status = StatusBytes[frame.status] /\ h.rest = rest
                  /\ ParseFields(h.data, h.count) = IF extra = 0 THEN <<RawFields>> ELSE <<>>
                  /\ ParseFields(h.data \o <<0>>, h.count) = <<>>
                  /\ h.data # <<>> =>
                       ParseFields(SubSeq(h.data, 1, Len(h.data) - 1), h.count) = <<>>
    <2> DEFINE id == WireID
               F == {Raw(f) : f \in Alphabet[command]}
               N == Len(frame.fields)
               count == N + extra
               status == StatusBytes[frame.status]
               r == Response(id, status, count, FieldsOf(RawFields))
               h == DrainFrame(r \o rest)[1]
    <2>1. /\ RawFields \in Seq(F) /\ Carried(RawFields) /\ Len(RawFields) = N /\ N \in 0..2
          /\ FieldsBytes = FieldsOf(RawFields) /\ status \in Seq(Byte)
          /\ Len(status) <= MaxStatus
      BY <1>1, SentFields
    <2>2. id \in Nat /\ id <= MaxLength
      BY WireIDFits
    <2>3. rest \in Seq(Byte)
      BY SegmentAssumption
    <2>4. r = Sent(count)
      BY <2>1 DEF Sent
    <2>9. N + extra >= 0
      BY <1>1, Zenon
    <2> HIDE DEF id, F, N, status
    <2>5. count \in Nat /\ count <= 3 /\ (count = N <=> extra = 0)
      BY <2>1, <2>9
    <2> HIDE DEF count
    <2>6. /\ h.clrid = id /\ h.status = status /\ h.rest = rest
          /\ ParseFields(h.data, h.count) = IF count = Len(RawFields) THEN <<RawFields>> ELSE <<>>
          /\ ParseFields(h.data \o <<0>>, h.count) = <<>>
          /\ h.data # <<>> =>
               ParseFields(SubSeq(h.data, 1, Len(h.data) - 1), h.count) = <<>>
      BY <2>1, <2>2, <2>3, <2>5, ResponseIsRead
    <2> HIDE DEF r
    <2>7. h = DrainFrame(Sent(count) \o rest)[1]
      BY <2>4, Zenon
    <2> HIDE DEF h
    <2>8. ParseFields(h.data, h.count) = IF extra = 0 THEN <<RawFields>> ELSE <<>>
      BY <2>1, <2>5, <2>6, Zenon
    <2> QED BY <2>6, <2>7, <2>8 DEF id, status, count, N
  <1>2. IInv => BytesAgree
    BY <1>1, Zenon DEF BytesAgree
  <1> QED BY <1>2, Invariance, PTL

\* Of a response that a broken connection has cut, nothing is read (DrainFrame).
THEOREM TornAnswersAreLost == Spec => []TornIsError
  <1>1. ASSUME IInv, OnWire, NEW n \in 0..Len(Sent(Len(frame.fields))) - 1
        PROVE  DrainFrame(SubSeq(Sent(Len(frame.fields)), 1, n)) = <<>>
    <2> DEFINE id == WireID
               F == {Raw(f) : f \in Alphabet[command]}
               count == Len(frame.fields)
               status == StatusBytes[frame.status]
               r == Response(id, status, count, FieldsOf(RawFields))
    <2>1. /\ RawFields \in Seq(F) /\ Carried(RawFields) /\ count \in 0..2
          /\ FieldsBytes = FieldsOf(RawFields) /\ status \in Seq(Byte)
          /\ Len(status) <= MaxStatus
      BY <1>1, SentFields
    <2>2. id \in Nat /\ id <= MaxLength
      BY WireIDFits
    <2>3. r = Sent(count)
      BY <2>1 DEF Sent
    <2> HIDE DEF id, F, status
    <2>4. n \in 0..Len(r) - 1
      BY <2>3, Zenon
    <2> HIDE DEF count
    <2>5. count \in Nat /\ count <= 3
      BY <2>1
    <2>6. DrainFrame(SubSeq(r, 1, n)) = <<>>
      BY <2>1, <2>2, <2>4, <2>5, TornResponseIsNot
    <2> HIDE DEF r
    <2> QED BY <2>3, <2>6, Zenon DEF count
  <1>2. IInv => TornIsError
    BY <1>1 DEF TornIsError
  <1> QED BY <1>2, Invariance, PTL

-----------------------------------------------------------------------------
(* Errors                                                                  *)

\* The kinds that classify gives are the documented ones.
LEMMA ClassifyAsDocumented == \A code : Classify(code) = KindOfCode(code)
  BY DEF Classify, KindOfCode, RequestCodes, RetryCodes

\* The text of an error frame reaches the caller in every command, whatever its
\* code, with the kind documented for it.
THEOREM VerdictsSurvive == Spec => []KindSurvives
  <1>1. ASSUME IInv, Parsed, frame.status # "SUCCESS", frame.count = 1,
               Len(frame.fields) = 1, frame.fields[1].id = 1, frame.fields[1].type = String
        PROVE  error = [kind |-> KindOfCode(frame.said), code |-> frame.said]
    <2>1. /\ command \in Commands /\ result = OnError(command, FieldsKept(frame))
          /\ error = MethodError(result, frame, frame.said)
      BY <1>1 DEF IInv, Typed, Ended, Parsed, Parse
    <2>2. FieldsKept(frame) = frame.fields /\ frame.fields # <<>>
      BY <1>1 DEF FieldsKept
    <2>3. result = "message"
      BY <1>1, <2>1, <2>2 DEF OnError, TextUnguarded, Text
    <2>4. error = RzError(Plain(frame.said))
      BY <1>1, <2>1, <2>3 DEF MethodError
    <2> QED BY <2>4, ClassifyAsDocumented DEF RzError, Plain
  <1>2. IInv => KindSurvives
    BY <1>1 DEF KindSurvives
  <1> QED BY <1>2, Invariance, PTL

\* The kind of an error tells where the request has got to, for every text of
\* the router and every error of a connection.
THEOREM KindsTellWhere == Spec => []KindTellsWhere
  <1>1. \A code : RzError(Plain(code)) = [kind |-> KindOfCode(code), code |-> code]
    BY ClassifyAsDocumented DEF RzError, Plain
  <1>2. \A t \in Transport : KindOfCode(t) = "internal"
    BY TransportAssumption DEF KindOfCode, RequestCodes, RetryCodes
  <1>3. KindOfCode("garbage") = "internal" /\ KindOfCode("RESPONSE_ERROR") = "internal"
    BY DEF KindOfCode
  <1>4. NoRequest.outcome = "none" /\ NoError.kind = "none"
    BY DEF NoRequest, Outcome, NoError
  <1>5. ASSUME IInv
        PROVE  KindTellsWhere
    <2>1. CASE stage = "parsed"
      <3>1. \/ error = NoError
            \/ error = RzError(Plain(frame.said))
            \/ error = RzError(Plain("garbage")) \/ error = RzError(Plain("RESPONSE_ERROR"))
        BY <1>5, <2>1 DEF IInv, Ended, MethodError
      <3>2. \/ error.kind \in {"none", "internal"}
            \/ error.kind = KindOfCode(frame.said)
        BY <3>1, <1>1, <1>3, <1>4
      <3> QED BY <2>1, <3>2 DEF KindTellsWhere, Parsed
    <2>2. CASE stage = "failed"
      <3>1. error.kind = "internal"
        BY <1>1, <1>2, <1>5, <2>2 DEF IInv, Ended
      <3> QED BY <2>2, <3>1 DEF KindTellsWhere, Parsed
    <2>3. CASE stage = "refused"
      BY <1>4, <1>5, <2>3 DEF IInv, Ended, KindTellsWhere, Parsed
    <2>4. CASE stage \in {"config", "edit", "built", "framed", "answer"}
      <3>1. error.kind = "none"
        BY <1>4, <1>5, <2>4 DEF IInv, Ended
      <3> QED BY <2>4, <3>1 DEF KindTellsWhere, Parsed
    <2>5. stage \in {"config", "edit", "built", "framed", "answer", "parsed", "failed", "refused"}
      BY <1>5 DEF IInv, Typed
    <2> QED BY <2>1, <2>2, <2>3, <2>4, <2>5
  <1> QED BY <1>5, Invariance, PTL
===============================================================================
