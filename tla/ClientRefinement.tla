--------------------------- MODULE ClientRefinement ---------------------------
(***************************************************************************)
(* The methods of the client, above a handler that keeps the promises of   *)
(* Rpc, keep them towards their own callers: proved for any number of      *)
(* calls, any methods and whatever the router answers.                     *)
(***************************************************************************)
EXTENDS ClientProofs

\* The request of a call of a method.
Request(c) == <<c, "request">>

\* Before a method has sent its request, Execute has not been called with it.
NotSent ==
  \A c \in Calls :
    \/ pc[c] \in {"idle", "verify", "send"}
    \/ pc[c] \in {"check", "fetch", "store", "use"} /\ stage[c] = "verify"
    \/ method[c] = "GetCodecs"
    => status[Request(c)] = "idle"

\* A method has received nothing before its request has returned; one that is
\* done has a result, and if it says that the request was refused it was.
Told ==
  \A c \in Calls :
    /\ pc[c] \in {"verify", "send", "wait"} => stage[c] = "verify"
    /\ pc[c] \in {"verify", "send"} => method[c] # "GetCodecs"
    /\ pc[c] = "done" => result[c] # "none"
    /\ result[c] = "refused" => status[Request(c)] \in {"idle", "refused"}

\* What was not sent, or refused, has not run.
NotRun == \A e \in Executions : status[e] \in {"idle", "refused"} => runs[e] = 0

SendInv == CacheInv /\ NotSent /\ Told /\ NotRun

\* An invocation, a return or a run of Execute for another call, or for the
\* codecs, leaves the request of a call alone.
LEMMA RequestsApart ==
  /\ \A c \in Callers, s \in Stages : <<c, s>> \in Executions
  /\ \A c \in Calls : Request(c) \in Executions
  /\ \A c, d \in Callers : c # d => Request(c) # Request(d)
  /\ \A c, d \in Callers : <<d, "verify">> # Request(c) /\ <<d, "decode">> # Request(c)
BY DEF Request, Executions, Callers, Stages

\* Execute keeps NotRun.
LEMMA NotRunKept ==
  ASSUME Domains, NotRun, NEW e \in Executions,
         \/ R!Invoke(e)
         \/ \E how \in R!Results : R!Return(e, how)
         \/ R!Run(e)
  PROVE  NotRun'
BY DEF Domains, NotRun, R!Invoke, R!Return, R!Run, R!Results

\* The state New starts in satisfies SendInv.
LEMMA SendInit == Init => SendInv
<1> SUFFICES ASSUME Init PROVE SendInv
  OBVIOUS
<1>1. NotSent
  BY RequestsApart DEF Init, R!Init, NotSent
<1>2. Told
  BY DEF Init, Told, Callers
<1>3. NotRun
  BY DEF Init, R!Init, NotRun
<1> QED BY <1>1, <1>2, <1>3, CacheInit DEF SendInv

\* The steps of New do not touch the request of any call.
LEMMA CreatorKeepsSend ==
  ASSUME SendInv, MethodStep(Creator)
  PROVE  (NotSent /\ Told /\ NotRun)'
<1> USE CreatorAssumption DEF SendInv, CacheInv, CInv
<1>1. /\ pc[Creator] \in {"fetch", "store"} /\ Creator \in Callers
      /\ Calls \subseteq Callers
      /\ <<Creator, stage[Creator]>> \in Executions
  BY RequestsApart DEF Started, MethodStep, Check, Fetched, Store, Use, Verify, Send,
    Returned, ParseAnswer, Callers, Domains, Stages
<1>2. \A c \in Calls : Request(c) # <<Creator, stage[Creator]>> /\ Request(c) \in Executions
  BY RequestsApart DEF Request
<1>3. \A c \in Calls : /\ pc'[c] = pc[c] /\ method'[c] = method[c]
                       /\ stage'[c] = stage[c] /\ result'[c] = result[c]
  BY <1>1 DEF MethodStep, Check, Fetched, Store, Use, Verify, Send, Returned,
    ParseAnswer, Goto, Return, Domains
<1>4. CASE Fetched(Creator)
  <2>1. \A c \in Calls : status'[Request(c)] = status[Request(c)]
    BY <1>1, <1>2, <1>4, ExecutionFacts DEF Fetched
  <2>2. NotRun'
    BY <1>1, <1>4, NotRunKept DEF Fetched
  <2> QED BY <1>3, <2>1, <2>2 DEF NotSent, Told
<1>5. CASE UNCHANGED rpcs
  BY <1>3, <1>5 DEF NotSent, Told, NotRun, rpcs
<1> QED BY <1>1, <1>4, <1>5 DEF MethodStep, Check, Store, Use, Verify, Send, Returned, ParseAnswer

\* The steps of a method call Execute with its request when it is sent, and
\* not before.
LEMMA MethodKeepsSend ==
  ASSUME SendInv, NEW c \in Calls, MethodStep(c)
  PROVE  (NotSent /\ Told /\ NotRun)'
<1> USE DEF SendInv, CacheInv, CInv
<1>1. /\ Calls \subseteq Callers /\ c \in Callers
      /\ <<c, stage[c]>> \in Executions /\ Request(c) \in Executions
      /\ <<c, stage[c]>> # Request(c)
      /\ \A d \in Calls : d # c => <<c, stage[c]>> # Request(d) /\ Request(c) # Request(d)
      /\ \A d \in Calls : Request(d) \in Executions
  BY RequestsApart DEF Callers, Domains, Stages, Request
<1>2. CASE Check(c)
  <2>1. \A d \in Calls : status'[Request(d)] = status[Request(d)]
    BY <1>1, <1>2, ExecutionFacts DEF Check, rpcs
  <2>2. NotRun'
    BY <1>1, <1>2, NotRunKept DEF Check, rpcs, NotRun
  <2>3. UNCHANGED <<method, stage, result>> /\ pc[c] = "check"
    BY <1>2 DEF Check, locals
  <2>4. \E l \in {"use", "fetch"} : pc' = [pc EXCEPT ![c] = l]
    BY <1>2 DEF Check, Goto
  <2> QED BY <1>1, <2>1, <2>2, <2>3, <2>4 DEF NotSent, Told, Domains
<1>3. CASE Fetched(c)
  <2>1. \A d \in Calls : status'[Request(d)] = status[Request(d)]
    BY <1>1, <1>3, ExecutionFacts DEF Fetched
  <2>2. NotRun'
    BY <1>1, <1>3, NotRunKept DEF Fetched
  <2>3. UNCHANGED <<method, stage, result>> /\ pc[c] = "fetch"
        /\ pc' = [pc EXCEPT ![c] = "store"]
    BY <1>3 DEF Fetched, Goto
  <2> QED BY <1>1, <2>1, <2>2, <2>3 DEF NotSent, Told, Domains
<1>4. CASE Store(c)
  BY <1>1, <1>4 DEF Store, Goto, Return, NotSent, Told, NotRun, Domains, rpcs
<1>5. CASE Use(c)
  BY <1>1, <1>5 DEF Use, Goto, Return, NotSent, Told, NotRun, Domains, Started, rpcs
<1>6. CASE Verify(c)
  BY <1>1, <1>6 DEF Verify, Goto, Return, NotSent, Told, NotRun, Domains, rpcs
<1>7. CASE Send(c)
  <2>1. \A d \in Calls : d # c => status'[Request(d)] = status[Request(d)]
    BY <1>1, <1>7, ExecutionFacts DEF Send, Request
  <2>2. NotRun'
    BY <1>1, <1>7, NotRunKept DEF Send, Request
  <2>3. UNCHANGED <<method, stage, result>> /\ pc[c] = "send"
        /\ pc' = [pc EXCEPT ![c] = "wait"]
    BY <1>7 DEF Send, Goto, locals
  <2>4. stage[c] = "verify" /\ result[c] = "none" /\ method[c] # "GetCodecs"
    BY <2>3 DEF Told, ResultLast, Domains
  <2> QED BY <1>1, <2>1, <2>2, <2>3, <2>4 DEF NotSent, Told, Domains
<1>8. CASE Returned(c)
  <2>1. \A d \in Calls : d # c => status'[Request(d)] = status[Request(d)]
    BY <1>1, <1>8, ExecutionFacts DEF Returned, Request
  <2>2. NotRun'
    BY <1>1, <1>8, NotRunKept DEF Returned, Request
  <2>3. /\ UNCHANGED method /\ pc[c] = "wait" /\ method[c] # "GetCodecs"
        /\ result[c] = "none"
    BY <1>8 DEF Returned, Started, ResultLast
  <2>4. \/ /\ \E how \in {"refused", "failed"} :
                 /\ pc' = [pc EXCEPT ![c] = "done"]
                 /\ result' = [result EXCEPT ![c] = how]
                 /\ status'[Request(c)] = how
           /\ UNCHANGED stage
        \/ /\ stage' = [stage EXCEPT ![c] = "decode"] /\ UNCHANGED result
           /\ \E l \in {"check", "parse"} : pc' = [pc EXCEPT ![c] = l]
    BY <1>8 DEF Returned, Goto, Return, Request
  <2> QED BY <1>1, <2>1, <2>2, <2>3, <2>4 DEF NotSent, Told, Domains
<1>9. CASE ParseAnswer(c)
  BY <1>1, <1>9 DEF ParseAnswer, Goto, Return, NotSent, Told, NotRun, Domains, rpcs
<1> QED BY <1>2, <1>3, <1>4, <1>5, <1>6, <1>7, <1>8, <1>9 DEF MethodStep

\* The other steps.  The router runs what Execute was called with.
LEMMA OthersKeepSend ==
  ASSUME SendInv,
         New \/ (\E c \in Calls : Start(c)) \/ OnReconnect \/ Execute \/ UNCHANGED vars
  PROVE  (NotSent /\ Told /\ NotRun)'
<1> USE CreatorAssumption DEF SendInv, CacheInv, CInv
<1>c. Calls \subseteq Callers /\ Creator \in Callers
  BY DEF Callers
<1>1. CASE New
  <2>1. <<Creator, "verify">> \in Executions /\ \A c \in Calls : <<Creator, "verify">> # Request(c)
    BY <1>c, RequestsApart DEF Stages
  <2>2. /\ \A c \in Calls : status'[Request(c)] = status[Request(c)]
        /\ NotRun'
    BY <1>1, <2>1, RequestsApart, ExecutionFacts, NotRunKept DEF New
  <2>3. \A c \in Calls : /\ pc'[c] = pc[c] /\ method'[c] = method[c]
                         /\ stage'[c] = stage[c] /\ result'[c] = result[c]
    BY <1>1, <1>c DEF New, Goto, Domains
  <2> QED BY <2>2, <2>3 DEF NotSent, Told
<1>2. ASSUME NEW c \in Calls, Start(c) PROVE (NotSent /\ Told /\ NotRun)'
  <2>1. /\ UNCHANGED <<stage, result, status, runs>>
        /\ pc[c] = "idle" /\ stage[c] = "verify" /\ result[c] = "none"
        /\ status[Request(c)] = "idle"
    BY <1>2 DEF Start, rpcs, NotSent, Started, ResultLast
  <2>2. PICK m \in Methods :
          /\ method' = [method EXCEPT ![c] = m]
          /\ \/ pc' = [pc EXCEPT ![c] = "check"]
             \/ pc' = [pc EXCEPT ![c] = "verify"] /\ m # "GetCodecs"
    BY <1>2 DEF Start, Goto
  <2> QED BY <1>c, <2>1, <2>2 DEF NotSent, Told, NotRun, Domains
<1>3. CASE OnReconnect \/ UNCHANGED vars
  BY <1>3 DEF OnReconnect, vars, locals, rpcs, NotSent, Told, NotRun
<1>4. CASE Execute
  <2>1. PICK e \in Executions : R!Run(e)
    BY <1>4 DEF Execute, Executions
  <2>2. NotRun'
    BY <2>1, NotRunKept
  <2>3. UNCHANGED status
    BY <2>1 DEF R!Run
  <2> QED BY <1>4, <2>2, <2>3 DEF Execute, locals, NotSent, Told
<1> QED BY <1>1, <1>2, <1>3, <1>4

\* Every step keeps SendInv.
LEMMA SendKept == SendInv /\ [Next]_vars => SendInv'
<1> SUFFICES ASSUME SendInv, [Next]_vars PROVE SendInv'
  OBVIOUS
<1>1. CacheInv'
  BY CacheKept DEF SendInv
<1>2. (NotSent /\ Told /\ NotRun)'
  BY CreatorKeepsSend, MethodKeepsSend, OthersKeepSend DEF Next, Running, Finished, Callers
<1> QED BY <1>1, <1>2 DEF SendInv

-----------------------------------------------------------------------------
(* The refinement                                                          *)

\* What the caller of a method sees of it, and of its request.
Seen(c) == IF pc[c] = "idle" \/ method[c] = "GetCodecs" THEN "idle"
           ELSE IF pc[c] # "done" THEN "pending"
           ELSE IF result[c] # "ok" THEN result[c]
           ELSE IF status[Request(c)] = "damaged" THEN "damaged"
           ELSE "answered"

\* The initial states map to initial states.
LEMMA RefinesInit == Init => Abs!Init
<1> SUFFICES ASSUME Init PROVE Abs!Init
  OBVIOUS
<1>1. \A c \in Calls : pc[c] = "idle" /\ runs[<<c, "request">>] = 0
  BY DEF Init, R!Init, Executions, Callers, Stages
<1> QED BY <1>1 DEF Abs!Init, MethodStatus

\* What Execute returned to a method that returned no error stays as it was.
LEMMA OkStays ==
  ASSUME SendInv, [Next]_vars, NEW c \in Calls, result[c] = "ok", method[c] # "GetCodecs"
  PROVE  status'[Request(c)] = status[Request(c)]
<1>1. status[Request(c)] \in Replies /\ Request(c) \in Executions
  BY RequestsApart DEF SendInv, CacheInv, CInv, OkParsed, AnswerExecuted, Request
<1> QED BY <1>1, ResultsStay DEF SendInv, Replies, R!Results

\* A step that changes what the caller of c alone sees, from old to new, and
\* runs nothing.
LEMMA OneCallMoves ==
  ASSUME NEW c \in Calls, UNCHANGED runs,
         \A d \in Calls : d # c => Seen(d)' = Seen(d),
         \/ Seen(c)' = Seen(c)
         \/ Seen(c) = "idle" /\ Seen(c)' = "pending"
         \/ /\ Seen(c) = "pending" /\ Seen(c)' \in R!Results
            /\ Seen(c)' \in Replies => runs[<<c, "request">>] = 1
            /\ Seen(c)' = "refused" => runs[<<c, "request">>] = 0
  PROVE  [Abs!Next]_(Abs!vars)
<1> DEFINE ran == [d \in Calls |-> runs[<<d, "request">>]]
<1>1. MethodStatus = [d \in Calls |-> Seen(d)]
  BY DEF MethodStatus, Seen, Request
<1>2. MethodStatus' = [MethodStatus EXCEPT ![c] = Seen(c)']
  <2>1. MethodStatus' = [d \in Calls |-> Seen(d)']
    BY DEF MethodStatus, Seen, Request
  <2> QED BY <1>1, <2>1
<1>3. ran' = ran
  OBVIOUS
<1>4. CASE Seen(c)' = Seen(c)
  <2>1. MethodStatus' = MethodStatus
    BY <1>1, <1>2, <1>4
  <2> QED BY <2>1, <1>3 DEF Abs!vars
<1>5. CASE Seen(c) = "idle" /\ Seen(c)' = "pending"
  <2>1. Abs!Invoke(c)
    BY <1>1, <1>2, <1>3, <1>5 DEF Abs!Invoke
  <2> QED BY <2>1 DEF Abs!Next
<1>6. CASE /\ Seen(c) = "pending" /\ Seen(c)' \in R!Results
           /\ Seen(c)' \in Replies => runs[<<c, "request">>] = 1
           /\ Seen(c)' = "refused" => runs[<<c, "request">>] = 0
  <2>1. Abs!Return(c, Seen(c)')
    BY <1>1, <1>2, <1>3, <1>6 DEF Abs!Return, Replies
  <2> QED BY <2>1, <1>6 DEF Abs!Next, R!Results, Abs!Results
<1> QED BY <1>4, <1>5, <1>6

\* The steps of a method.
LEMMA MethodRefines ==
  ASSUME SendInv, SendInv', [Next]_vars, NEW c \in Callers, MethodStep(c)
  PROVE  [Abs!Next]_(Abs!vars)
<1> USE CreatorAssumption DEF SendInv, CacheInv, CInv
<1>1. UNCHANGED runs
  BY DEF MethodStep, Check, Fetched, Store, Use, Verify, Send, Returned, ParseAnswer,
    R!Invoke, R!Return, rpcs
<1>2. \A d \in Callers : d # c => /\ pc'[d] = pc[d] /\ method'[d] = method[d]
                                /\ result'[d] = result[d]
  BY DEF MethodStep, Check, Fetched, Store, Use, Verify, Send, Returned, ParseAnswer,
    Goto, Return, locals, Domains
<1>3. \A d \in Calls : d # c => Seen(d)' = Seen(d)
  BY <1>2, OkStays DEF Seen, Callers
<1>4. CASE c = Creator
  <2>1. MethodStatus' = MethodStatus
    BY <1>3, <1>4 DEF MethodStatus, Seen, Request
  <2> QED BY <1>1, <2>1 DEF Abs!vars
<1>5. CASE c \in Calls
  <2>1. pc[c] # "idle" /\ pc[c] # "done" /\ result[c] = "none" /\ UNCHANGED method
    BY <1>5 DEF MethodStep, Check, Fetched, Store, Use, Verify, Send, Returned,
      ParseAnswer, locals, ResultLast
  <2>2. CASE method[c] = "GetCodecs"
    <3>1. Seen(c)' = Seen(c)
      BY <2>1, <2>2 DEF Seen
    <3> QED BY <1>1, <1>3, <1>5, <3>1, OneCallMoves
  <2>3. CASE method[c] # "GetCodecs"
    <3>1. Seen(c) = "pending"
      BY <2>1, <2>3 DEF Seen
    <3>2. CASE pc'[c] # "done"
      <4>1. pc'[c] # "idle"
        BY <2>1, <1>5 DEF MethodStep, Check, Fetched, Store, Use, Verify, Send,
          Returned, ParseAnswer, Goto, Return, Domains
      <4>2. Seen(c)' = Seen(c)
        BY <2>1, <2>3, <3>1, <3>2, <4>1 DEF Seen
      <4> QED BY <1>1, <1>3, <1>5, <4>2, OneCallMoves
    <3>3. CASE pc'[c] = "done"
      <4>1. result'[c] \in {"ok", "refused", "failed"}
        BY <1>5, <3>3 DEF Told, Domains
      <4>2. Seen(c)' \in {"answered", "damaged", "refused", "failed"}
            /\ (Seen(c)' \in Replies => result'[c] = "ok")
            /\ (Seen(c)' = "refused" => result'[c] = "refused")
        BY <2>1, <2>3, <3>3, <4>1 DEF Seen, Replies
      <4>3. Request(c) \in Executions
        BY <1>5, RequestsApart
      <4>4. result'[c] = "ok" => runs'[Request(c)] = 1
        <5>1. method'[c] # "GetCodecs"
          BY <2>1, <2>3
        <5>2. result'[c] = "ok" => status'[Request(c)] \in Replies
          BY <1>5, <5>1 DEF OkParsed, AnswerExecuted, Request
        <5> QED BY <5>2, <4>3 DEF AnswerExecuted
      <4>5. result'[c] = "refused" => runs'[Request(c)] = 0
        BY <1>5, <4>3 DEF Told, NotRun
      <4>6. /\ Seen(c)' \in Replies => runs[<<c, "request">>] = 1
            /\ Seen(c)' = "refused" => runs[<<c, "request">>] = 0
        BY <1>1, <4>2, <4>4, <4>5 DEF Request
      <4>7. Seen(c)' \in R!Results
        BY <4>2 DEF R!Results
      <4> QED BY <1>1, <1>3, <1>5, <3>1, <4>6, <4>7, OneCallMoves
    <3> QED BY <3>2, <3>3
  <2> QED BY <2>2, <2>3
<1> QED BY <1>4, <1>5 DEF Callers

\* The other steps.
LEMMA OthersRefine ==
  ASSUME SendInv, [Next]_vars,
         New \/ (\E c \in Calls : Start(c)) \/ OnReconnect \/ Execute \/ UNCHANGED vars
  PROVE  [Abs!Next]_(Abs!vars)
<1> USE CreatorAssumption DEF SendInv, CacheInv, CInv
<1>c. Calls \subseteq Callers /\ Creator \in Callers
  BY DEF Callers
<1>1. CASE New
  <2>1. \A c \in Calls : Seen(c)' = Seen(c)
    BY <1>1, <1>c, OkStays DEF New, Goto, Seen, Domains
  <2>2. MethodStatus' = MethodStatus /\ UNCHANGED runs
    BY <1>1, <2>1 DEF MethodStatus, Seen, Request, New, R!Invoke
  <2> QED BY <2>2 DEF Abs!vars
<1>2. ASSUME NEW c \in Calls, Start(c) PROVE [Abs!Next]_(Abs!vars)
  <2>1. /\ \A d \in Calls : d # c => Seen(d)' = Seen(d)
        /\ Seen(c) = "idle" /\ Seen(c)' \in {"idle", "pending"}
        /\ UNCHANGED runs
    <3>1. \E l \in {"check", "verify"}, m \in Methods :
            pc' = [pc EXCEPT ![c] = l] /\ method' = [method EXCEPT ![c] = m]
      BY <1>2 DEF Start, Goto
    <3>2. pc[c] = "idle" /\ UNCHANGED <<result, runs>>
      BY <1>2 DEF Start, rpcs
    <3>3. UNCHANGED status
      BY <1>2 DEF Start, rpcs
    <3> QED BY <1>c, <3>1, <3>2, <3>3 DEF Seen, Domains
  <2> QED BY <2>1, OneCallMoves
<1>3. CASE OnReconnect \/ UNCHANGED vars
  BY <1>3 DEF OnReconnect, vars, locals, rpcs, Abs!vars, MethodStatus
<1>4. CASE Execute
  <2>1. PICK e \in Executions : R!Run(e)
    BY <1>4 DEF Execute, Executions
  <2>2. UNCHANGED <<pc, method, result, status>>
    BY <1>4, <2>1 DEF Execute, locals, R!Run
  <2>3. MethodStatus' = MethodStatus
    BY <2>2 DEF MethodStatus
  <2>4. CASE \E c \in Calls : e = <<c, "request">>
    <3>1. PICK c \in Calls : e = <<c, "request">>
      BY <2>4
    <3>2. [d \in Calls |-> runs[<<d, "request">>]]' =
          [[d \in Calls |-> runs[<<d, "request">>]] EXCEPT ![c] = 1]
      BY <2>1, <3>1, RequestsApart DEF R!Run, Domains, Request
    <3>3. runs[<<c, "request">>] = 0 /\ status[Request(c)] \notin {"idle", "refused"}
      BY <2>1, <3>1 DEF R!Run, Request
    <3>4. MethodStatus[c] = Seen(c)
      BY DEF MethodStatus, Seen, Request
    <3>5. pc[c] # "idle" /\ method[c] # "GetCodecs" /\ result[c] # "refused"
      BY <3>3 DEF NotSent, Told
    <3>6. Seen(c) \notin {"idle", "refused"}
      BY <3>5, <1>c DEF Seen, Domains
    <3>7. Abs!Run(c)
      BY <2>3, <3>2, <3>3, <3>4, <3>6 DEF Abs!Run
    <3> QED BY <3>7 DEF Abs!Next
  <2>5. CASE ~\E c \in Calls : e = <<c, "request">>
    <3>1. \A d \in Calls : runs'[<<d, "request">>] = runs[<<d, "request">>]
      BY <2>1, <2>5, RequestsApart DEF R!Run, Domains, Request
    <3> QED BY <2>3, <3>1 DEF Abs!vars
  <2> QED BY <2>4, <2>5
<1> QED BY <1>1, <1>2, <1>3, <1>4

\* The methods implement Rpc towards their callers: one request, executed at
\* most once, never if it was invalid or refused, and executed if the method
\* returns no error.
THEOREM ClientImplementsRpc == Spec => RefinesRpc
<1>1. SendInv /\ SendInv' /\ [Next]_vars => [Abs!Next]_(Abs!vars)
  BY MethodRefines, OthersRefine DEF Next, Running, Finished
<1> QED BY <1>1, RefinesInit, SendInit, SendKept, PTL DEF Spec, RefinesRpc, Abs!Spec
=============================================================================
