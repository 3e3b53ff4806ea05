--------------------------- MODULE ClientProperties ---------------------------
(***************************************************************************)
(* What the methods of the client promise, and what is said of them and is *)
(* not so.                                                                 *)
(***************************************************************************)
EXTENDS Client

\* A method that can go on does, and Execute returns (CallsReturn of
\* HandlerProperties): by its timeout at the latest, so without an answer.
Fairness == \A c \in Callers : WF_vars(~panicked /\ MethodStep(c))
FairSpec == Spec /\ Fairness

-----------------------------------------------------------------------------
(* Safety                                                                  *)

\* Every variable has its type, and a call that works on a response knows its
\* method.
TypeOK ==
  /\ pc \in [Callers -> {"idle", "check", "fetch", "store", "use", "verify",
                         "send", "wait", "parse", "done"}]
  /\ method \in [Callers -> Methods \cup {"none", "New"}]
  /\ \A c \in Callers : pc[c] # "idle" => method[c] # "none"
  /\ stage \in [Callers -> {"verify", "decode"}]
  /\ {held, seen, reply} \subseteq [Callers -> 0..MaxResets + 1]
  /\ codecs \in 0..MaxResets + 1
  /\ result \in [Callers -> {"none", "ok", "refused", "failed"}]
  /\ resets \in 0..MaxResets
  /\ panicked \in BOOLEAN
  /\ status \in [Executions -> {"idle", "pending"} \cup R!Results]
  /\ runs \in [Executions -> {0, 1}]

\* A method returns without an error only if the router executed its request
\* and answered SUCCESS, although the fields may be damaged: the nil error with
\* which Execute returns when the connection is lost or closed never passes for
\* a SUCCESS (the Parse functions).
SuccessIsReal ==
  \A c \in Calls : result[c] = "ok" /\ method[c] # "GetCodecs" =>
    /\ status[<<c, "request">>] \in {"answered", "damaged"}
    /\ runs[<<c, "request">>] = 1
    /\ answer[c].status = "SUCCESS"

\* The methods do to their requests what Rpc says: one request, executed at
\* most once, never if it was invalid or refused, and if the method returns no
\* error then it was executed.  GetCodecs sends no request of the caller's.
MethodStatus ==
  [c \in Calls |->
    IF pc[c] = "idle" \/ method[c] = "GetCodecs" THEN "idle"
    ELSE IF pc[c] # "done" THEN "pending"
    ELSE IF result[c] # "ok" THEN result[c]
    ELSE IF status[<<c, "request">>] = "damaged" THEN "damaged"
    ELSE "answered"]

Abs == INSTANCE Rpc WITH status <- MethodStatus,
                         runs <- [c \in Calls |-> runs[<<c, "request">>]]
RefinesRpc == Abs!Spec

\* A method takes the process down in two ways only: in Verify it works with
\* codecs that are nil, and the cache New filled has been reset; or it parses a
\* response that is not the router's, for its own Execute ended with a nil
\* error and none, or a damaged one.
PanicNeedsFailure ==
  panicked => \E c \in Calls :
    \/ pc[c] = "verify" /\ seen[c] = 0 /\ resets > 0
    \/ pc[c] = "parse" /\ status[<<c, "request">>] \in {"void", "damaged"}

\* Codecs only get lost by OnReconnect: until then the cache that New filled
\* stays full, so that no method decodes an answer without codecs and GetCodecs
\* returns some, although all of them drop the error of a failed fetch or store
\* nil (getCodecs, GetCodecs).
CodecsStay ==
  result[Creator] = "ok" /\ resets = 0 =>
    /\ codecs # 0
    /\ \A c \in Calls : method[c] \in Decoders \cup {"GetCodecs"} /\ result[c] = "ok"
         => seen[c] # 0

\* Codecs that the router sent before the last reset get into the cache only
\* from a fetch that this reset overtook between the router's answer and the
\* assignment in getCodecs or GetCodecs: once the cache, the answers under way
\* and the codecs about to be stored are up to date, they stay so until the
\* next reset, whatever fails and however many methods fetch at once.  (An
\* answer under way is one in the connection, or in the channel of its call.)
UpToDate ==
  /\ codecs \in {0, resets + 1}
  /\ \A c \in Callers : /\ reply[c] \in {0, resets + 1}
                        /\ pc[c] = "store" => held[c] \in {0, resets + 1}
StaleNeedsReset == [][UpToDate /\ resets' = resets => UpToDate']_vars

\* Every method returns, and so does New.
MethodsReturn ==
  \A c \in Callers : pc[c] # "idle" ~> pc[c] = "done" \/ panicked

-----------------------------------------------------------------------------
(* What documentation and comments say, and the code does not do           *)

\* "All methods return errors" (README.md:356): whatever the handler and the
\* router do, a method returns.
NoMethodPanics == ~panicked

\* "codecs, err := cli.GetCodecs(); fmt.Println(codecs.RateFeatures)"
\* (README.md:299): GetCodecs returns codecs unless it returns an error.
CodecsOrError ==
  \A c \in Calls : method[c] = "GetCodecs" /\ result[c] = "ok" => seen[c] # 0
=============================================================================
