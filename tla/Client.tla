-------------------------------- MODULE Client --------------------------------
(***************************************************************************)
(* The client (pkg/client/client.go): its methods validate a request,      *)
(* execute it through the handler and parse what comes back, and share a   *)
(* cache of the router's codecs, which they fill without a lock and which  *)
(* the handler's OnReconnect empties.                                      *)
(*                                                                         *)
(* Execute is what Rpc promises of it.  A step is one access to the cache, *)
(* one invocation or return of Execute, or one parse; methods and the read *)
(* loop of the handler interleave between any two.                         *)
(***************************************************************************)
EXTENDS Responses

CONSTANTS
  Calls,     \* calls of the methods
  Creator,   \* the call of New
  Methods,   \* the methods called
  Answers,   \* Answers[cmd]: the frames the router answers cmd with
  Torn,      \* Torn[cmd]: what may be left of them when two readers share a
             \* connection (see Handler): damaged fields, or none, and the
             \* status as it was or unreadable
  MaxResets  \* bound: how often OnReconnect is called

ASSUME CreatorAssumption == Creator \notin Calls
ASSUME MethodsAssumption == Methods \subseteq Commands \ {"GetSegments"}
ASSUME ResetsAssumption == MaxResets \in Nat

\* Methods that call getCodecs first, that then look into the codecs (if the
\* request has rate features), and that call it again to decode the answer.
Validators   == {"SetProp", "SetRoomPkg", "SearchProp", "SearchAvail"}
RateCheckers == {"SetRoomPkg", "SearchAvail"}
Decoders     == {"SearchAvail", "GetPropRoomDay"}

VARIABLES
  pc,        \* pc[c]: where call c is in its method
  method,    \* method[c]: the method called
  stage,     \* stage[c]: what the codecs are wanted for
  held,      \* held[c]: the codecs fetchCodecs returned to c, 0 for nil
  seen,      \* seen[c]: the codecs c works with, 0 for nil
  reply,     \* reply[c]: the codecs the router answered c's fetch with, 0 if
             \* it has not yet, or no fetch is under way
  answer,    \* answer[c]: the response to the request of c
  result,    \* result[c]: how the method returned
  codecs,    \* Client.codecs: 0 for nil, else 1 + the resets before the router
             \* answered the fetch that brought them
  resets,    \* how often OnReconnect was called
  panicked,  \* a goroutine panicked: the process is gone
  status, runs  \* the state of Execute, see Rpc

locals == <<method, stage, held, seen, reply, answer, result>>
shared == <<codecs, resets, panicked>>
rpcs   == <<status, runs>>
vars   == <<pc, locals, shared, rpcs>>

Callers    == Calls \cup {Creator}
Stages     == {"verify", "request", "decode"}
Executions == Callers \X Stages

R == INSTANCE Rpc WITH Calls <- Executions

Init ==
  /\ pc = [c \in Callers |-> "idle"]
  /\ method = [c \in Callers |-> "none"]
  /\ stage = [c \in Callers |-> "verify"]
  /\ held = [c \in Callers |-> 0] /\ seen = [c \in Callers |-> 0]
  /\ reply = [c \in Callers |-> 0]
  /\ answer = [c \in Callers |-> NoResponse]
  /\ result = [c \in Callers |-> "none"]
  /\ codecs = 0 /\ resets = 0 /\ panicked = FALSE
  /\ R!Init

Goto(c, label) == pc' = [pc EXCEPT ![c] = label]
Return(c, how) == Goto(c, "done") /\ result' = [result EXCEPT ![c] = how]

\* New, whose handler is connected and knows OnReconnect by now, fetches the
\* codecs without looking at the cache.
New ==
  /\ pc[Creator] = "idle" /\ Goto(Creator, "fetch")
  /\ method' = [method EXCEPT ![Creator] = "New"]
  /\ R!Invoke(<<Creator, "verify">>)
  /\ UNCHANGED <<stage, held, seen, reply, answer, result, shared>>

\* A method is called on the client that New returned.
Start(c) ==
  /\ pc[c] = "idle" /\ result[Creator] = "ok"
  /\ \E m \in Methods :
       /\ method' = [method EXCEPT ![c] = m]
       /\ Goto(c, IF m \in Validators \cup {"GetCodecs"} THEN "check" ELSE "verify")
  /\ UNCHANGED <<stage, held, seen, reply, answer, result, shared, rpcs>>

-----------------------------------------------------------------------------
(* getCodecs and GetCodecs                                                 *)

\* The cache is read, and the codecs are fetched if it is empty.
Check(c) ==
  /\ pc[c] = "check"
  /\ \/ codecs # 0 /\ Goto(c, "use") /\ UNCHANGED rpcs
     \/ codecs = 0 /\ Goto(c, "fetch") /\ R!Invoke(<<c, stage[c]>>)
  /\ UNCHANGED <<locals, shared>>

\* What Execute can hand to a method with a nil error: the router's answer,
\* one damaged on the way, or the zero RawResult.
Response(cmd, how) ==
  CASE how = "answered" -> Answers[cmd]
    [] how = "damaged"  -> Torn[cmd]
    [] how = "void"     -> {NoResponse}
    [] OTHER            -> {}

\* fetchCodecs returns the codecs in the answer, or nil and an error.  They
\* are as old as the answer, which the router may have given long before
\* Execute returns it.
Fetched(c) ==
  LET e == <<c, stage[c]>> IN
  /\ pc[c] = "fetch" /\ Goto(c, "store")
  /\ \E how \in R!Results : R!Return(e, how)
  /\ \/ \E f \in Response("GetCodecs", status'[e]) :
          held' = [held EXCEPT ![c] =
                     IF Parse("GetCodecs", f) = "value" THEN reply[c] ELSE 0]
     \/ /\ status'[e] \in {"refused", "failed"}
        /\ held' = [held EXCEPT ![c] = 0]
  /\ reply' = [reply EXCEPT ![c] = 0]
  /\ UNCHANGED <<method, stage, seen, answer, result, shared>>

\* A fault: the codecs are returned to the first caller and not cached.
StoreForgotten(c) ==
  /\ pc[c] = "store"
  /\ IF method[c] \in {"GetCodecs", "New"}
     THEN Return(c, IF held[c] = 0 THEN "failed" ELSE "ok")
     ELSE Goto(c, "use") /\ UNCHANGED result
  /\ UNCHANGED <<method, stage, held, seen, reply, answer, shared, rpcs>>

\* A fault: a caller whose fetch failed falls back on the codecs New fetched.
StoreOld(c) ==
  /\ pc[c] = "store"
  /\ codecs' = IF held[c] = 0 THEN held[Creator] ELSE held[c]
  /\ IF method[c] \in {"GetCodecs", "New"}
     THEN Return(c, IF codecs' = 0 THEN "failed" ELSE "ok")
     ELSE Goto(c, "use") /\ UNCHANGED result
  /\ UNCHANGED <<method, stage, held, seen, reply, answer, resets, panicked, rpcs>>

\* Whatever fetchCodecs returned goes into the cache, nil too.  getCodecs
\* drops the error, GetCodecs and New return it.
Store(c) ==
  /\ pc[c] = "store"
  /\ codecs' = held[c]
  /\ \/ /\ method[c] = "New"
        /\ Return(c, IF held[c] = 0 THEN "failed" ELSE "ok")
     \/ /\ method[c] = "GetCodecs" /\ held[c] = 0
        /\ Return(c, "failed")
     \/ /\ method[c] # "New" /\ (method[c] = "GetCodecs" => held[c] # 0)
        /\ Goto(c, "use") /\ UNCHANGED result
  /\ UNCHANGED <<method, stage, held, seen, reply, answer, resets, panicked, rpcs>>

\* A fault: a caller that finds the cache empty waits for another to fill it.
UseSpins(c) ==
  /\ pc[c] = "use"
  /\ seen' = [seen EXCEPT ![c] = codecs]
  /\ \/ codecs = 0 /\ UNCHANGED <<pc, result>>
     \/ codecs # 0 /\ method[c] = "GetCodecs" /\ Return(c, "ok")
     \/ codecs # 0 /\ method[c] # "GetCodecs" /\ stage[c] = "verify"
          /\ Goto(c, "verify") /\ UNCHANGED result
     \/ codecs # 0 /\ stage[c] = "decode" /\ Goto(c, "parse") /\ UNCHANGED result
  /\ UNCHANGED <<method, stage, held, reply, answer, shared, rpcs>>

\* The cache is read once more, for the result.
Use(c) ==
  /\ pc[c] = "use"
  /\ seen' = [seen EXCEPT ![c] = codecs]
  /\ \/ method[c] = "GetCodecs" /\ Return(c, "ok")
     \/ method[c] # "GetCodecs" /\ stage[c] = "verify"
          /\ Goto(c, "verify") /\ UNCHANGED result
     \/ stage[c] = "decode" /\ Goto(c, "parse") /\ UNCHANGED result
  /\ UNCHANGED <<method, stage, held, reply, answer, shared, rpcs>>

-----------------------------------------------------------------------------
(* The rest of a method                                                    *)

\* Verify: the request is valid or not.  Rate features, if it has any, are
\* looked up in the codecs, which panics if they are nil.
Verify(c) ==
  /\ pc[c] = "verify"
  /\ \/ Goto(c, "send") /\ UNCHANGED <<result, panicked>>
     \/ Return(c, "refused") /\ UNCHANGED panicked
     \/ /\ method[c] \in RateCheckers /\ seen[c] = 0
        /\ panicked' = TRUE
        /\ UNCHANGED <<pc, result>>
  /\ UNCHANGED <<method, stage, held, seen, reply, answer, codecs, resets, rpcs>>

Send(c) ==
  /\ pc[c] = "send" /\ Goto(c, "wait")
  /\ R!Invoke(<<c, "request">>)
  /\ UNCHANGED <<locals, shared>>

\* A fault: a request that timed out is reported as one that was not sent.
ReturnedRefused(c) ==
  LET e == <<c, "request">> IN
  /\ pc[c] = "wait"
  /\ \E how \in R!Results : R!Return(e, how)
  /\ Return(c, IF status'[e] = "answered" THEN "ok" ELSE "refused")
  /\ UNCHANGED <<method, stage, held, seen, reply, answer, shared>>

\* A fault: a nil error of Execute is taken for a SUCCESS.
ReturnedUnparsed(c) ==
  LET e == <<c, "request">> IN
  /\ pc[c] = "wait"
  /\ \E how \in R!Results : R!Return(e, how)
  /\ Return(c, IF status'[e] \in {"refused", "failed"} THEN status'[e] ELSE "ok")
  /\ UNCHANGED <<method, stage, held, seen, reply, answer, shared>>

\* A fault: the method returns before its answer is parsed.
ReturnedRaw(c) ==
  LET e == <<c, "request">> IN
  /\ pc[c] = "wait"
  /\ \E how \in R!Results : R!Return(e, how)
  /\ Return(c, status'[e])
  /\ UNCHANGED <<method, stage, held, seen, reply, answer, shared>>

\* Execute returns an error, which the method returns, or a nil error and a
\* response.  The arguments of the Parse function come first: two methods ask
\* for the codecs again.
Returned(c) ==
  LET e == <<c, "request">> IN
  /\ pc[c] = "wait"
  /\ \E how \in R!Results : R!Return(e, how)
  /\ \/ /\ status'[e] \in {"refused", "failed"}
        /\ Return(c, status'[e])
        /\ UNCHANGED <<stage, answer>>
     \/ /\ \E f \in Response(method[c], status'[e]) :
             answer' = [answer EXCEPT ![c] = f]
        /\ stage' = [stage EXCEPT ![c] = "decode"]
        /\ Goto(c, IF method[c] \in Decoders THEN "check" ELSE "parse")
        /\ UNCHANGED result
  /\ UNCHANGED <<method, held, seen, reply, shared>>

\* The Parse function of the method's command.
ParseAnswer(c) ==
  LET outcome == Parse(method[c], answer[c]) IN
  /\ pc[c] = "parse"
  /\ \/ outcome = "value" /\ Return(c, "ok") /\ UNCHANGED panicked
     \/ outcome \in {"message", "error"} /\ Return(c, "failed") /\ UNCHANGED panicked
     \/ outcome = "panic" /\ panicked' = TRUE /\ UNCHANGED <<pc, result>>
  /\ UNCHANGED <<method, stage, held, seen, reply, answer, codecs, resets, rpcs>>

MethodStep(c) ==
  \/ Check(c) \/ Fetched(c) \/ Store(c) \/ Use(c)
  \/ Verify(c) \/ Send(c) \/ Returned(c) \/ ParseAnswer(c)

-----------------------------------------------------------------------------
\* OnReconnect, called by a read loop whose connection failed.
OnReconnect ==
  /\ pc[Creator] # "idle" /\ resets < MaxResets
  /\ resets' = resets + 1
  /\ codecs' = 0
  /\ UNCHANGED <<pc, locals, panicked, rpcs>>

\* The router executes a request.  The codecs it sends are those of this
\* moment, if a fetch still waits for them.
Execute ==
  /\ \E c \in Callers, s \in Stages :
       /\ R!Run(<<c, s>>)
       /\ reply' = IF pc[c] = "fetch" /\ stage[c] = s
                   THEN [reply EXCEPT ![c] = resets + 1] ELSE reply
  /\ UNCHANGED <<pc, method, stage, held, seen, answer, result, shared>>

Finished ==
  /\ panicked \/ \A c \in Callers : pc[c] \in {"idle", "done"}
  /\ UNCHANGED vars

Running ==
  \/ New
  \/ \E c \in Calls : Start(c)
  \/ \E c \in Callers : MethodStep(c)
  \/ OnReconnect
  \/ Execute

Next == (~panicked /\ Running) \/ Finished

Spec == Init /\ [][Next]_vars
=============================================================================
