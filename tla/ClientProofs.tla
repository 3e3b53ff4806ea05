----------------------------- MODULE ClientProofs -----------------------------
(***************************************************************************)
(* The safety of the client, proved for any number of concurrent calls,    *)
(* any methods, any number of resets and whatever frames the router        *)
(* answers with.                                                           *)
(***************************************************************************)
EXTENDS ClientProperties, TLAPS

\* What is needed of the types.
Named == Methods \cup {"none", "New"}
Responded == {NoResponse} \cup UNION {Answers[m] \cup Torn[m] : m \in Named}
Domains ==
  /\ pc \in [Callers -> {"idle", "check", "fetch", "store", "use", "verify",
                         "send", "wait", "parse", "done"}]
  /\ result \in [Callers -> {"none", "ok", "refused", "failed"}]
  /\ method \in [Callers -> Named]
  /\ stage \in [Callers -> {"verify", "decode"}]
  /\ answer \in [Callers -> Responded]
  /\ status \in [Executions -> {"idle", "pending"} \cup R!Results]
  /\ runs \in [Executions -> {0, 1}]

\* New is called by its creator only, and only a method that is done has a
\* result.
ResultLast ==
  \A c \in Calls : /\ method[c] # "New"
                   /\ result[c] # "none" => pc[c] = "done"

\* An answer comes from a request that was executed, a damaged one too.
Replies == {"answered", "damaged"}
AnswerExecuted ==
  /\ \A e \in Executions : status[e] \in Replies => runs[e] = 1
  /\ \A c \in Calls : answer[c].status = "SUCCESS" => status[<<c, "request">>] \in Replies

\* A method that returned no error has parsed a SUCCESS.
OkParsed ==
  \A c \in Calls : result[c] = "ok" /\ method[c] # "GetCodecs" =>
    answer[c].status = "SUCCESS"

CInv == Domains /\ ResultLast /\ AnswerExecuted /\ OkParsed

\* Only a SUCCESS parses to a value, in every command (internal/command).
LEMMA ParseDecides ==
  ASSUME NEW cmd, NEW f, Parse(cmd, f) = "value"
  PROVE  f.status = "SUCCESS"
BY DEF Parse, OnError, Text, TextUnguarded

\* No command is called New.
LEMMA NewIsNoMethod == "New" \notin Methods
BY MethodsAssumption DEF Commands, Deletions, Scalars, Flags, Lists

\* What an invocation, a return or a run of Execute leaves as it was: the
\* types, and every answer.
LEMMA ExecutionFacts ==
  ASSUME Domains, AnswerExecuted, NEW e \in Executions,
         \/ R!Invoke(e)
         \/ \E how \in R!Results : R!Return(e, how)
         \/ R!Run(e)
  PROVE  /\ status' \in [Executions -> {"idle", "pending"} \cup R!Results]
         /\ runs' \in [Executions -> {0, 1}]
         /\ \A d \in Executions : status[d] \in Replies => status'[d] \in Replies
         /\ \A d \in Executions : status'[d] \in Replies => runs'[d] = 1
         /\ \A d \in Executions : d # e => status'[d] = status[d]
         /\ \A d \in Executions : status[d] \in R!Results => status'[d] = status[d]
BY DEF Domains, AnswerExecuted, Replies, R!Invoke, R!Return, R!Run, R!Results

\* The state New starts in satisfies CInv.
LEMMA CInitInv == Init => CInv
<1> SUFFICES ASSUME Init PROVE CInv
  OBVIOUS
<1>1. Calls \subseteq Callers
  BY DEF Callers
<1>2. Domains
  BY DEF Init, R!Init, Domains, Named, Responded
<1>3. ResultLast /\ OkParsed
  BY <1>1 DEF Init, ResultLast, OkParsed
<1>4. AnswerExecuted
  BY <1>1 DEF Init, R!Init, AnswerExecuted, Replies, NoResponse
<1> QED BY <1>2, <1>3, <1>4 DEF CInv

\* Every step of a method keeps CInv.
LEMMA MethodKeepsInv ==
  ASSUME CInv, NEW c \in Callers, MethodStep(c)
  PROVE  CInv'
<1> USE DEF CInv
<1>e. \A d \in Callers, s \in Stages : <<d, s>> \in Executions
  BY DEF Executions
<1>s. <<c, stage[c]>> \in Executions /\ <<c, "request">> \in Executions
  BY <1>e DEF Domains, Stages
<1>c. Calls \subseteq Callers
  BY DEF Callers
<1>1. CASE Check(c)
  <2>1. CASE UNCHANGED rpcs
    BY <1>1, <2>1, <1>c DEF Check, Goto, Domains, ResultLast, AnswerExecuted,
      OkParsed, locals, shared, rpcs
  <2>2. CASE R!Invoke(<<c, stage[c]>>)
    <3>1. Domains'
      BY <1>1, <2>2, <1>s, ExecutionFacts DEF Check, Goto, Domains, locals, shared
    <3>2. AnswerExecuted'
      BY <1>1, <2>2, <1>s, <1>e, <1>c, ExecutionFacts
        DEF Check, Goto, AnswerExecuted, locals, Stages
    <3>3. (ResultLast /\ OkParsed)'
      BY <1>1, <2>2, <1>c DEF Check, Goto, Domains, ResultLast, OkParsed, locals
    <3> QED BY <3>1, <3>2, <3>3
  <2> QED BY <1>1, <2>1, <2>2 DEF Check
<1>2. CASE Fetched(c)
  <2>1. Domains'
    BY <1>2, <1>s, ExecutionFacts DEF Fetched, Goto, Domains, shared
  <2>2. AnswerExecuted'
    BY <1>2, <1>s, <1>e, <1>c, ExecutionFacts DEF Fetched, AnswerExecuted, Stages
  <2>3. (ResultLast /\ OkParsed)'
    BY <1>2, <1>c DEF Fetched, Goto, Domains, ResultLast, OkParsed
  <2> QED BY <2>1, <2>2, <2>3
<1>3. CASE Store(c)
  BY <1>3, <1>c DEF Store, Goto, Return, Domains, ResultLast, AnswerExecuted,
    OkParsed, rpcs
<1>4. CASE Use(c)
  BY <1>4, <1>c DEF Use, Goto, Return, Domains, ResultLast, AnswerExecuted,
    OkParsed, rpcs, shared
<1>5. CASE Verify(c)
  BY <1>5, <1>c DEF Verify, Goto, Return, Domains, ResultLast, AnswerExecuted,
    OkParsed, rpcs
<1>6. CASE Send(c)
  <2>1. Domains'
    BY <1>6, <1>s, ExecutionFacts DEF Send, Goto, Domains, locals, shared
  <2>2. AnswerExecuted'
    BY <1>6, <1>s, <1>e, <1>c, ExecutionFacts DEF Send, AnswerExecuted, Stages, locals
  <2>3. (ResultLast /\ OkParsed)'
    BY <1>6, <1>c DEF Send, Goto, Domains, ResultLast, OkParsed, locals
  <2> QED BY <2>1, <2>2, <2>3
<1>7. CASE Returned(c)
  <2>1. Domains'
    <3>1. \A f \in Response(method[c], status'[<<c, "request">>]) : f \in Responded
      BY DEF Response, Responded, Domains
    <3> QED BY <1>7, <1>s, <3>1, ExecutionFacts DEF Returned, Goto, Return, Domains, shared
  <2>2. AnswerExecuted'
    <3> DEFINE e == <<c, "request">>
    <3>1. /\ \A d \in Executions : status[d] \in Replies => status'[d] \in Replies
          /\ \A d \in Executions : status'[d] \in Replies => runs'[d] = 1
      BY <1>7, <1>s, ExecutionFacts DEF Returned
    <3>2. answer'[c].status = "SUCCESS" => answer' = answer \/ status'[e] \in Replies
      <4>1. ASSUME status'[e] = "void" PROVE answer'[c] = NoResponse
        BY <1>7, <4>1 DEF Returned, Response, Domains
      <4>2. NoResponse.status # "SUCCESS"
        BY DEF NoResponse
      <4>3. answer' = answer \/ status'[e] \in {"answered", "damaged", "void"}
        BY <1>7 DEF Returned, Response
      <4> QED BY <4>1, <4>2, <4>3 DEF Replies
    <3>3. \A d \in Calls : d # c => answer'[d] = answer[d]
      BY <1>7, <1>c DEF Returned, Domains
    <3>4. \A d \in Calls : <<d, "request">> \in Executions
      BY <1>e, <1>c DEF Stages
    <3> QED BY <3>1, <3>2, <3>3, <3>4 DEF AnswerExecuted
  <2>3. ResultLast'
    BY <1>7, <1>c DEF Returned, Goto, Return, Domains, ResultLast
  <2>4. OkParsed'
    BY <1>7, <1>c DEF Returned, Goto, Return, Domains, ResultLast, OkParsed
  <2> QED BY <2>1, <2>2, <2>3, <2>4
<1>8. CASE ParseAnswer(c)
  <2>1. (Domains /\ ResultLast /\ AnswerExecuted)'
    BY <1>8, <1>c DEF ParseAnswer, Goto, Return, Domains, ResultLast,
      AnswerExecuted, rpcs
  <2>2. OkParsed'
    BY <1>8, <1>c, ParseDecides DEF ParseAnswer, Goto, Return, Domains, OkParsed
  <2> QED BY <2>1, <2>2
<1> QED BY <1>1, <1>2, <1>3, <1>4, <1>5, <1>6, <1>7, <1>8 DEF MethodStep

\* New, the start of a method, OnReconnect and the router keep CInv.
LEMMA OthersKeepInv ==
  ASSUME CInv,
         New \/ (\E c \in Calls : Start(c)) \/ OnReconnect \/ Execute \/ UNCHANGED vars
  PROVE  CInv'
<1> USE DEF CInv
<1>e. \A d \in Callers, s \in Stages : <<d, s>> \in Executions
  BY DEF Executions
<1>c. Calls \subseteq Callers /\ Creator \in Callers
  BY DEF Callers
<1>1. CASE New
  <2>1. Domains'
    BY <1>1, <1>e, <1>c, ExecutionFacts DEF New, Goto, Domains, Named, shared, Stages
  <2>2. AnswerExecuted'
    BY <1>1, <1>e, <1>c, ExecutionFacts DEF New, AnswerExecuted, Stages
  <2>3. (ResultLast /\ OkParsed)'
    BY <1>1, <1>c, CreatorAssumption DEF New, Goto, Domains, ResultLast, OkParsed
  <2> QED BY <2>1, <2>2, <2>3
<1>2. ASSUME NEW c \in Calls, Start(c) PROVE CInv'
  BY <1>2, <1>c, NewIsNoMethod DEF Start, Goto, Domains, Named, ResultLast,
    AnswerExecuted, OkParsed, rpcs, shared
<1>3. CASE OnReconnect
  BY <1>3 DEF OnReconnect, Domains, ResultLast, AnswerExecuted, OkParsed, locals, rpcs
<1>4. CASE Execute
  <2>1. PICK e \in Executions : R!Run(e)
    BY <1>4 DEF Execute, Executions
  <2>2. Domains'
    BY <1>4, <2>1, ExecutionFacts DEF Execute, Domains
  <2>3. AnswerExecuted'
    BY <1>4, <2>1, <1>e, <1>c, ExecutionFacts DEF Execute, AnswerExecuted, locals, Stages
  <2>4. (ResultLast /\ OkParsed)'
    BY <1>4 DEF Execute, ResultLast, OkParsed, locals
  <2> QED BY <2>2, <2>3, <2>4
<1>5. CASE UNCHANGED vars
  BY <1>5 DEF vars, Domains, ResultLast, AnswerExecuted, OkParsed, locals, rpcs, shared
<1> QED BY <1>1, <1>2, <1>3, <1>4, <1>5

\* A method that returns no error had its request executed, and the router
\* said SUCCESS.
THEOREM SuccessCorrect == Spec => []SuccessIsReal
<1>1. CInv /\ [Next]_vars => CInv'
  BY MethodKeepsInv, OthersKeepInv DEF Next, Running, Finished
<1>2. CInv => SuccessIsReal
  BY DEF CInv, AnswerExecuted, Replies, OkParsed, SuccessIsReal, Executions, Callers, Stages
<1> QED BY <1>1, <1>2, CInitInv, PTL DEF Spec

-----------------------------------------------------------------------------
(* The cache                                                               *)

\* The numbers that stand for codecs, and the bound of the resets.
Numbers ==
  /\ held \in [Callers -> 0..MaxResets + 1]
  /\ seen \in [Callers -> 0..MaxResets + 1]
  /\ reply \in [Callers -> 0..MaxResets + 1]
  /\ codecs \in 0..MaxResets + 1
  /\ resets \in 0..MaxResets
  /\ panicked \in BOOLEAN

\* A call has a method as soon as it has started, and New, called by its
\* creator, does nothing but fetch the codecs and store them; GetCodecs has no
\* request of its own.
Started ==
  /\ \A c \in Callers : pc[c] # "idle" => method[c] # "none"
  /\ pc[Creator] \in {"idle", "fetch", "store", "done"}
  /\ pc[Creator] # "idle" => method[Creator] = "New"
  /\ pc[Creator] # "done" => result[Creator] = "none"
  /\ result[Creator] # "ok" => \A c \in Calls : pc[c] = "idle"
  /\ \A c \in Calls :
       /\ pc[c] = "idle" => stage[c] = "verify"
       /\ method[c] = "GetCodecs" =>
            stage[c] = "verify" /\ pc[c] \in {"check", "fetch", "store", "use", "done"}

\* Until the first reset the cache that New filled is full, so that nobody
\* fetches, and whoever has read it has read codecs.
CacheFull ==
  resets = 0 =>
    /\ result[Creator] = "ok" =>
         codecs # 0 /\ \A c \in Calls : pc[c] \notin {"fetch", "store"}
    /\ \A c \in Calls :
         /\ pc[c] = "verify" /\ method[c] \in Validators => seen[c] # 0
         /\ pc[c] = "parse" /\ method[c] \in Decoders => seen[c] # 0
         /\ result[c] = "ok" /\ method[c] \in Decoders \cup {"GetCodecs"} => seen[c] # 0

CacheInv == CInv /\ Numbers /\ Started /\ CacheFull

\* No command is called none, and the methods that look rate features up ask
\* for the codecs first.
LEMMA MethodNames ==
  /\ "none" \notin Methods /\ "New" \notin Methods
  /\ RateCheckers \subseteq Validators
BY MethodsAssumption
  DEF Commands, Deletions, Scalars, Flags, Lists, RateCheckers, Validators

\* The state New starts in satisfies the invariant of the cache.
LEMMA CacheInit == Init => CacheInv
<1> SUFFICES ASSUME Init PROVE CacheInv
  OBVIOUS
<1>1. Calls \subseteq Callers /\ Creator \in Callers
  BY DEF Callers
<1>2. Numbers
  <2>1. 0 \in 0..MaxResets /\ 0 \in 0..MaxResets + 1
    BY ResetsAssumption
  <2>2. /\ held = [c \in Callers |-> 0] /\ seen = [c \in Callers |-> 0]
        /\ reply = [c \in Callers |-> 0]
    BY DEF Init
  <2>3. codecs = 0 /\ resets = 0 /\ panicked = FALSE
    BY DEF Init
  <2> QED BY <2>1, <2>2, <2>3 DEF Numbers
<1>3. Started
  BY <1>1 DEF Init, Started
<1>4. CacheFull
  BY <1>1 DEF Init, CacheFull
<1> QED BY <1>2, <1>3, <1>4, CInitInv DEF CacheInv

\* Every step of a method keeps the types of the numbers.
LEMMA NumbersKept ==
  ASSUME CacheInv, NEW c \in Callers, MethodStep(c)
  PROVE  Numbers'
<1> USE DEF CacheInv, Numbers
<1>1. CASE Check(c)
  BY <1>1 DEF Check, locals, shared
<1>2. CASE Fetched(c)
  <2>1. /\ UNCHANGED <<seen, codecs, resets, panicked>>
        /\ held' = [held EXCEPT ![c] = 0] \/ held' = [held EXCEPT ![c] = reply[c]]
        /\ reply' = [reply EXCEPT ![c] = 0]
    BY <1>2 DEF Fetched, shared
  <2>2. 0 \in 0..MaxResets + 1 /\ reply[c] \in 0..MaxResets + 1
    BY ResetsAssumption
  <2> QED BY <2>1, <2>2
<1>3. CASE Store(c)
  BY <1>3 DEF Store
<1>4. CASE Use(c)
  BY <1>4 DEF Use, shared
<1>5. CASE Verify(c)
  BY <1>5 DEF Verify
<1>6. CASE Send(c)
  BY <1>6 DEF Send, locals, shared
<1>7. CASE Returned(c)
  BY <1>7 DEF Returned, shared
<1>8. CASE ParseAnswer(c)
  BY <1>8 DEF ParseAnswer
<1> QED BY <1>1, <1>2, <1>3, <1>4, <1>5, <1>6, <1>7, <1>8 DEF MethodStep

\* The steps of New, which is a fetch and a store.
LEMMA NewKeepsCache ==
  ASSUME CacheInv, MethodStep(Creator)
  PROVE  (Started /\ CacheFull)'
<1> USE CreatorAssumption DEF CacheInv, CInv
<1>1. pc[Creator] \in {"fetch", "store"} /\ method[Creator] = "New"
  BY DEF Started, MethodStep, Check, Fetched, Store, Use, Verify, Send, Returned,
    ParseAnswer
<1>2. /\ Calls \subseteq Callers /\ Creator \in Callers
      /\ \A c \in Calls : c # Creator /\ pc[c] = "idle" /\ result[c] = "none"
  BY <1>1 DEF Callers, Started, ResultLast, Domains
<1>3. CASE Fetched(Creator)
  BY <1>1, <1>2, <1>3 DEF Fetched, Goto, Started, CacheFull, Domains, Numbers, shared
<1>4. CASE Store(Creator)
  BY <1>1, <1>2, <1>4 DEF Store, Goto, Return, Started, CacheFull, Domains, Numbers
<1> QED BY <1>1, <1>3, <1>4
  DEF MethodStep, Check, Use, Verify, Send, Returned, ParseAnswer

\* The steps of a method.
LEMMA MethodKeepsCache ==
  ASSUME CacheInv, NEW c \in Calls, MethodStep(c)
  PROVE  (Started /\ CacheFull)'
<1> USE CreatorAssumption DEF CacheInv, CInv
<1>1. /\ Calls \subseteq Callers /\ Creator \in Callers /\ c # Creator
      /\ pc[c] # "idle" /\ method[c] # "New"
      /\ result[Creator] = "ok"
  BY DEF Callers, Started, ResultLast, MethodStep, Check, Fetched, Store, Use,
    Verify, Send, Returned, ParseAnswer
<1>2. CASE Check(c)
  <2>1. resets = 0 => pc' = [pc EXCEPT ![c] = "use"]
    BY <1>1, <1>2 DEF Check, Goto, CacheFull
  <2>2. UNCHANGED <<method, seen, result, codecs, resets>>
    BY <1>2 DEF Check, locals, shared
  <2>3. pc' = [pc EXCEPT ![c] = "use"] \/ pc' = [pc EXCEPT ![c] = "fetch"]
    BY <1>2 DEF Check, Goto
  <2>4. UNCHANGED stage
    BY <1>2 DEF Check, locals
  <2> QED BY <1>1, <2>1, <2>2, <2>3, <2>4 DEF Started, CacheFull, Domains
<1>3. CASE Fetched(c)
  BY <1>1, <1>3 DEF Fetched, Goto, Started, CacheFull, Domains, shared
<1>4. CASE Store(c)
  BY <1>1, <1>4 DEF Store, Goto, Return, Started, CacheFull, Domains
<1>5. CASE Use(c)
  <2>1. Started'
    BY <1>1, <1>5 DEF Use, Goto, Return, Started, Domains, shared
  <2>2. resets = 0 => codecs # 0
    BY <1>1 DEF CacheFull
  <2>3. CacheFull'
    BY <1>1, <1>5, <2>2 DEF Use, Goto, Return, CacheFull, Domains, Numbers, shared
  <2> QED BY <2>1, <2>3
<1>6. CASE Verify(c)
  BY <1>1, <1>6 DEF Verify, Goto, Return, Started, CacheFull, Domains
<1>7. CASE Send(c)
  BY <1>1, <1>7 DEF Send, Goto, Started, CacheFull, Domains, locals, shared
<1>8. CASE Returned(c)
  <2>1. /\ UNCHANGED <<method, seen, codecs, resets>>
        /\ \/ \E how \in {"refused", "failed"} :
                /\ pc' = [pc EXCEPT ![c] = "done"] /\ UNCHANGED stage
                /\ result' = [result EXCEPT ![c] = how]
           \/ /\ UNCHANGED result /\ stage' = [stage EXCEPT ![c] = "decode"]
              /\ \/ method[c] \in Decoders /\ pc' = [pc EXCEPT ![c] = "check"]
                 \/ method[c] \notin Decoders /\ pc' = [pc EXCEPT ![c] = "parse"]
    BY <1>8 DEF Returned, Goto, Return, shared
  <2>4. pc[c] = "wait"
    BY <1>8 DEF Returned
  <2>2. Started'
    BY <1>1, <2>1, <2>4 DEF Started, Domains
  <2>3. CacheFull'
    BY <1>1, <2>1, <2>4 DEF CacheFull, Domains
  <2> QED BY <2>2, <2>3
<1>9. CASE ParseAnswer(c)
  <2>1. pc[c] = "parse" /\ UNCHANGED <<method, stage, seen, codecs, resets>>
    BY <1>9 DEF ParseAnswer
  <2>2. \/ UNCHANGED <<pc, result>>
        \/ \E how \in {"ok", "failed"} :
             pc' = [pc EXCEPT ![c] = "done"] /\ result' = [result EXCEPT ![c] = how]
    BY <1>9 DEF ParseAnswer, Goto, Return
  <2> QED BY <1>1, <2>1, <2>2 DEF Started, CacheFull, Domains
<1> QED BY <1>2, <1>3, <1>4, <1>5, <1>6, <1>7, <1>8, <1>9 DEF MethodStep

\* The other steps.
LEMMA OthersKeepCache ==
  ASSUME CacheInv,
         New \/ (\E c \in Calls : Start(c)) \/ OnReconnect \/ Execute \/ UNCHANGED vars
  PROVE  (Numbers /\ Started /\ CacheFull)'
<1> USE CreatorAssumption DEF CacheInv, CInv
<1>c. Calls \subseteq Callers /\ Creator \in Callers
  BY DEF Callers
<1>1. CASE New
  BY <1>1, <1>c DEF New, Goto, Domains, Numbers, Started, CacheFull, shared
<1>2. ASSUME NEW c \in Calls, Start(c) PROVE (Numbers /\ Started /\ CacheFull)'
  <2>1. c # Creator /\ result[c] = "none" /\ UNCHANGED <<stage, held, seen, reply, answer, result, shared>>
    BY <1>2 DEF Start, ResultLast
  <2>2. PICK m \in Methods :
          /\ method' = [method EXCEPT ![c] = m]
          /\ Goto(c, IF m \in Validators \cup {"GetCodecs"} THEN "check" ELSE "verify")
    BY <1>2 DEF Start
  <2>3. result[Creator] = "ok" /\ m # "none"
    BY <1>2, MethodNames DEF Start
  <2>4. pc[c] = "idle" /\ stage[c] = "verify"
    BY <1>2 DEF Start, Started
  <2>5. Numbers'
    BY <2>1 DEF Numbers, shared
  <2>6. Started'
    BY <1>c, <2>1, <2>2, <2>3, <2>4 DEF Goto, Domains, Started
  <2>7. CacheFull'
    BY <1>c, <2>1, <2>2, <2>3 DEF Goto, Domains, CacheFull, shared
  <2> QED BY <2>5, <2>6, <2>7
<1>3. CASE OnReconnect
  BY <1>3, <1>c, ResetsAssumption DEF OnReconnect, Numbers, Started, CacheFull, locals
<1>4. CASE Execute
  <2>1. /\ UNCHANGED <<pc, method, stage, held, seen, result, shared>>
        /\ reply' = reply \/ \E c \in Callers : reply' = [reply EXCEPT ![c] = resets + 1]
    BY <1>4 DEF Execute
  <2>2. resets + 1 \in 0..MaxResets + 1
    BY ResetsAssumption DEF Numbers
  <2> QED BY <2>1, <2>2 DEF Numbers, Started, CacheFull, shared
<1>5. CASE UNCHANGED vars
  BY <1>5 DEF vars, Numbers, Started, CacheFull, locals, shared
<1> QED BY <1>1, <1>2, <1>3, <1>4, <1>5

\* Every step keeps the invariant of the cache.
LEMMA CacheKept == CacheInv /\ [Next]_vars => CacheInv'
<1> SUFFICES ASSUME CacheInv, [Next]_vars PROVE CacheInv'
  OBVIOUS
<1>1. ASSUME NEW c \in Callers, MethodStep(c) PROVE CacheInv'
  BY <1>1, MethodKeepsInv, NumbersKept, NewKeepsCache, MethodKeepsCache
    DEF CacheInv, Callers
<1>2. CASE New \/ (\E c \in Calls : Start(c)) \/ OnReconnect \/ Execute \/ UNCHANGED vars
  BY <1>2, OthersKeepInv, OthersKeepCache DEF CacheInv
<1> QED BY <1>1, <1>2 DEF Next, Running, Finished

\* Every variable of the client has its type, and a call that works on a
\* response knows its method.
THEOREM ClientTypeCorrect == Spec => []TypeOK
<1>1. CacheInv => TypeOK
  BY DEF CacheInv, CInv, Domains, Numbers, Started, Named, TypeOK
<1> QED BY <1>1, CacheInit, CacheKept, PTL DEF Spec

\* Until OnReconnect empties it, the cache that New filled stays full, however
\* many methods read and write it at once.
THEOREM CodecsNotLost == Spec => []CodecsStay
<1>1. CacheInv => CodecsStay
  BY DEF CacheInv, CacheFull, CodecsStay
<1> QED BY <1>1, CacheInit, CacheKept, PTL DEF Spec

\* A cache that is up to date stays so until the next reset, if no answer with
\* older codecs is under way: only a fetch that the router answered before a
\* reset, and that is stored after it, brings them back.
THEOREM StaleCodecsNeedReset == Spec => StaleNeedsReset
<1>1. ASSUME CacheInv, [Next]_vars, UpToDate, resets' = resets
      PROVE  UpToDate'
  <2> USE <1>1 DEF CacheInv, CInv, UpToDate
  <2>1. CASE /\ UNCHANGED <<codecs, held, reply>>
             /\ \A c \in Callers : pc'[c] = "store" => pc[c] = "store"
    BY <2>1
  <2>2. ASSUME NEW c \in Callers, Fetched(c) PROVE UpToDate'
    <3>1. /\ UNCHANGED codecs /\ pc' = [pc EXCEPT ![c] = "store"]
          /\ reply' = [reply EXCEPT ![c] = 0]
          /\ \E k \in {0, reply[c]} : held' = [held EXCEPT ![c] = k]
      BY <2>2 DEF Fetched, Goto, shared
    <3> QED BY <3>1 DEF Domains, Numbers
  <2>3. ASSUME NEW c \in Callers, Store(c) PROVE UpToDate'
    BY <2>3 DEF Store, Goto, Return, Domains
  <2>4. ASSUME NEW c \in Callers, MethodStep(c), ~Fetched(c), ~Store(c) PROVE UpToDate'
    <3>1. UNCHANGED <<codecs, held, reply>>
      BY <2>4 DEF MethodStep, Check, Use, Verify, Send, Returned, ParseAnswer, locals, shared
    <3>2. \A d \in Callers : pc'[d] = "store" => pc[d] = "store"
      BY <2>4 DEF MethodStep, Check, Use, Verify, Send, Returned, ParseAnswer,
        Goto, Return, Domains
    <3> QED BY <2>1, <3>1, <3>2
  <2>5. CASE New \/ \E c \in Calls : Start(c)
    BY <2>1, <2>5 DEF New, Start, Goto, shared, Domains
  <2>6. CASE OnReconnect
    BY <2>6, ResetsAssumption DEF OnReconnect, Numbers
  <2>7. CASE Execute
    <3>1. /\ UNCHANGED <<pc, held, codecs>>
          /\ reply' = reply \/ \E c \in Callers : reply' = [reply EXCEPT ![c] = resets + 1]
      BY <2>7 DEF Execute, shared
    <3> QED BY <3>1 DEF Numbers
  <2>8. CASE UNCHANGED vars
    BY <2>1, <2>8 DEF vars, locals, shared
  <2> QED BY <2>2, <2>3, <2>4, <2>5, <2>6, <2>7, <2>8 DEF Next, Running, Finished
<1> QED BY <1>1, CacheInit, CacheKept, PTL DEF Spec, StaleNeedsReset

-----------------------------------------------------------------------------
(* Panics                                                                  *)

\* The router answers a command with what its Parse function reads.
WellFormed == \A m \in Methods : \A f \in Answers[m] : Parse(m, f) # "panic"

\* A method that parses has the router's answer to its request, or else
\* Execute returned without one, or with a damaged one.
Responds ==
  \A c \in Calls :
    /\ pc[c] = "parse" => stage[c] = "decode"
    /\ stage[c] = "decode" =>
         /\ method[c] \in Methods
         /\ answer[c] \in Answers[method[c]] \/ status[<<c, "request">>] \in {"void", "damaged"}

PanicInv == CacheInv /\ Responds /\ PanicNeedsFailure

\* What the executions do to the results they have had: nothing.
LEMMA ResultsStay ==
  ASSUME CacheInv, [Next]_vars
  PROVE  \A e \in Executions : status[e] \in R!Results => status'[e] = status[e]
<1> USE DEF CacheInv, CInv
<1>1. \A d \in Callers, s \in Stages : <<d, s>> \in Executions
  BY DEF Executions
<1>2. Creator \in Callers /\ \A c \in Callers : stage[c] \in Stages
  BY DEF Callers, Domains, Stages
<1>3. \/ UNCHANGED rpcs
      \/ \E e \in Executions :
           \/ R!Invoke(e)
           \/ \E how \in R!Results : R!Return(e, how)
           \/ R!Run(e)
  <2>1. CASE New \/ (\E c \in Calls : Start(c)) \/ OnReconnect \/ Execute \/ UNCHANGED vars
    BY <1>1, <1>2, <2>1 DEF New, Start, OnReconnect, Execute, vars, Stages
  <2>2. ASSUME NEW c \in Callers, MethodStep(c)
        PROVE  \/ UNCHANGED rpcs
               \/ \E e \in Executions :
                    R!Invoke(e) \/ \E how \in R!Results : R!Return(e, how)
    <3>1. <<c, stage[c]>> \in Executions /\ <<c, "request">> \in Executions
      BY <1>1, <1>2 DEF Stages
    <3>2. CASE Check(c) \/ Fetched(c)
      BY <3>1, <3>2 DEF Check, Fetched
    <3>3. CASE Send(c) \/ Returned(c)
      BY <3>1, <3>3 DEF Send, Returned
    <3>4. CASE Store(c) \/ Use(c) \/ Verify(c) \/ ParseAnswer(c)
      BY <3>4 DEF Store, Use, Verify, ParseAnswer
    <3> QED BY <2>2, <3>2, <3>3, <3>4 DEF MethodStep
  <2> QED BY <2>1, <2>2 DEF Next, Running, Finished
<1> QED BY <1>3, ExecutionFacts DEF rpcs

\* The state New starts in satisfies the invariant of panics.
LEMMA PanicInit == Init => PanicInv
<1> SUFFICES ASSUME Init PROVE PanicInv
  OBVIOUS
<1>1. Responds /\ PanicNeedsFailure
  BY DEF Init, Responds, PanicNeedsFailure, Callers
<1> QED BY <1>1, CacheInit DEF PanicInv

\* Every step keeps what a method that parses has in its hands.
LEMMA RespondsKept ==
  ASSUME CacheInv, Responds, [Next]_vars
  PROVE  Responds'
<1> USE DEF CacheInv, CInv
<1>1. \A e \in Executions : status[e] \in {"void", "damaged"} => status'[e] \in {"void", "damaged"}
  BY ResultsStay DEF R!Results
<1>2. \A c \in Calls : <<c, "request">> \in Executions
  BY DEF Executions, Callers, Stages
<1>c. Calls \subseteq Callers
  BY DEF Callers
<1>3. CASE UNCHANGED <<pc, stage, method, answer>>
  BY <1>1, <1>2, <1>3 DEF Responds
<1>4. CASE New
  <2>1. \A c \in Calls : /\ pc'[c] = pc[c] /\ method'[c] = method[c]
                         /\ stage'[c] = stage[c] /\ answer'[c] = answer[c]
    BY <1>4, <1>c, CreatorAssumption DEF New, Goto, Domains
  <2> QED BY <1>1, <1>2, <2>1 DEF Responds
<1>5. ASSUME NEW c \in Calls, Start(c) PROVE Responds'
  <2>1. pc[c] = "idle" /\ stage[c] = "verify"
    BY <1>5 DEF Start, Started
  <2>2. UNCHANGED <<stage, answer, status>>
    BY <1>5 DEF Start, rpcs
  <2>3. \E m \in Methods, l \in {"check", "verify"} :
          method' = [method EXCEPT ![c] = m] /\ pc' = [pc EXCEPT ![c] = l]
    BY <1>5 DEF Start, Goto
  <2> QED BY <1>c, <2>1, <2>2, <2>3 DEF Responds, Domains
<1>6. ASSUME NEW c \in Callers, Returned(c) PROVE Responds'
  <2>1. pc[c] = "wait" /\ UNCHANGED method
    BY <1>6 DEF Returned
  <2>2. c \in Calls /\ method[c] \in Methods
    BY <2>1 DEF Started, Callers, Domains, Named, ResultLast
  <2>3. CASE UNCHANGED <<stage, answer>> /\ \E how : Return(c, how)
    BY <1>1, <1>2, <1>c, <2>1, <2>3 DEF Return, Goto, Responds, Domains
  <2>4. CASE /\ stage' = [stage EXCEPT ![c] = "decode"]
             /\ \E l \in {"check", "parse"} : Goto(c, l)
             /\ \E f : /\ answer' = [answer EXCEPT ![c] = f]
                       /\ \/ f \in Answers[method[c]]
                          \/ status'[<<c, "request">>] \in {"void", "damaged"}
    <3>1. \A d \in Calls : d # c => /\ pc'[d] = pc[d] /\ stage'[d] = stage[d]
                                    /\ answer'[d] = answer[d]
      BY <1>c, <2>4 DEF Goto, Domains
    <3>2. /\ stage'[c] = "decode"
          /\ \/ answer'[c] \in Answers[method[c]]
             \/ status'[<<c, "request">>] \in {"void", "damaged"}
      BY <2>2, <2>4 DEF Domains, Callers
    <3> QED BY <1>1, <1>2, <2>1, <2>2, <3>1, <3>2 DEF Responds
  <2> QED BY <1>6, <2>3, <2>4 DEF Returned, Response
<1>7. ASSUME NEW c \in Callers, MethodStep(c), ~Returned(c) PROVE Responds'
  <2>1. UNCHANGED <<method, stage, answer>>
    BY <1>7 DEF MethodStep, Check, Fetched, Store, Use, Verify, Send, ParseAnswer, locals
  <2>2. pc' = pc \/ \E l : Goto(c, l) /\ (l = "parse" => stage[c] = "decode")
    <3>1. CASE Check(c) \/ Fetched(c) \/ Send(c)
      BY <3>1 DEF Check, Fetched, Send, Return, Goto
    <3>2. CASE Store(c) \/ Use(c)
      BY <3>2 DEF Store, Use, Return, Goto
    <3>3. CASE Verify(c)
      BY <3>3 DEF Verify, Return, Goto
    <3>4. CASE ParseAnswer(c)
      BY <3>4 DEF ParseAnswer, Return, Goto
    <3> QED BY <1>7, <3>1, <3>2, <3>3, <3>4 DEF MethodStep
  <2>3. ASSUME NEW l, Goto(c, l), l = "parse" => stage[c] = "decode" PROVE Responds'
    BY <1>1, <1>2, <1>c, <2>1, <2>3 DEF Goto, Responds, Domains
  <2> QED BY <1>1, <1>2, <2>1, <2>2, <2>3 DEF Responds
<1>8. CASE OnReconnect \/ Execute \/ UNCHANGED vars
  BY <1>3, <1>8 DEF OnReconnect, Execute, vars, locals
<1> QED BY <1>4, <1>5, <1>6, <1>7, <1>8 DEF Next, Running, Finished

\* A panic has a cause in the call that panics, and nothing happens after it.
LEMMA CauseKept ==
  ASSUME WellFormed, PanicInv, [Next]_vars
  PROVE  PanicNeedsFailure'
<1> USE DEF PanicInv, CacheInv, CInv
<1>1. CASE UNCHANGED vars
  BY <1>1 DEF vars, locals, shared, rpcs, PanicNeedsFailure
<1>2. CASE ~panicked /\ panicked' = panicked
  BY <1>2 DEF PanicNeedsFailure
<1>3. ASSUME NEW c \in Callers, Verify(c), panicked' # panicked
      PROVE  PanicNeedsFailure'
  <2>1. /\ method[c] \in RateCheckers /\ seen[c] = 0 /\ pc[c] = "verify"
        /\ UNCHANGED <<pc, seen, resets>>
    BY <1>3 DEF Verify, Goto, Return
  <2>2. c \in Calls
    BY <2>1 DEF Callers, Started
  <2>3. resets # 0
    BY <2>1, <2>2, MethodNames DEF CacheFull
  <2> QED BY <2>1, <2>2, <2>3, ResetsAssumption DEF PanicNeedsFailure, Numbers
<1>4. ASSUME NEW c \in Callers, ParseAnswer(c), panicked' # panicked
      PROVE  PanicNeedsFailure'
  <2>1. /\ Parse(method[c], answer[c]) = "panic" /\ pc[c] = "parse"
        /\ UNCHANGED <<pc, status>>
    BY <1>4 DEF ParseAnswer, Goto, Return, rpcs
  <2>2. c \in Calls
    BY <2>1 DEF Callers, Started
  <2>3. status[<<c, "request">>] \in {"void", "damaged"}
    BY <2>1, <2>2 DEF Responds, WellFormed
  <2> QED BY <2>1, <2>2, <2>3 DEF PanicNeedsFailure
<1> QED BY <1>1, <1>2, <1>3, <1>4 DEF Next, Running, Finished, New, Start, MethodStep,
  Check, Fetched, Store, Use, Send, Returned, OnReconnect, Execute, locals, shared

\* Provided the router answers with what the Parse functions read, a method
\* panics only because it works with nil codecs after a reset, or because its
\* own Execute returned a nil error and not the router's answer.
THEOREM PanicsHaveCauses ==
  ASSUME WellFormed
  PROVE  Spec => []PanicNeedsFailure
<1>1. PanicInv /\ [Next]_vars => PanicInv'
  BY CacheKept, RespondsKept, CauseKept DEF PanicInv
<1>2. PanicInv => PanicNeedsFailure
  BY DEF PanicInv
<1> QED BY <1>1, <1>2, PanicInit, PTL DEF Spec
=============================================================================
