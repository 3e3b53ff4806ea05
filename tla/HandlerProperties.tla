-------------------------- MODULE HandlerProperties --------------------------
(***************************************************************************)
(* What the handler promises, what it needs of its surroundings to keep    *)
(* the promise, and what is said of it and is not so.                      *)
(***************************************************************************)
EXTENDS Handler

(* Fairness                                                                *)

\* A goroutine that can run does run.  One that waits for the lock gets it
\* even if others keep taking it, for a sync.Mutex hands itself over to a
\* waiter that starves, and so does one that waits in Write, for net.Conn
\* serves the writers of a connection one after the other: hence SF.  Timers
\* and tickers fire, and a dial ends.  A select chooses at random among its
\* ready cases, so that a keepalive loop whose context has ended does not take
\* the tick forever.  Nothing is assumed of the callers: a call may never be
\* made, a context may never end, Client.Close may never be called.
ClientFairness ==
  /\ \A c \in Calls : SF_vars(~panicked /\ CallProgress(c))
  /\ \A r \in Conns : SF_vars(~panicked /\ ReaderStep(r))
  /\ SF_vars(~panicked /\ KeepaliveStep)
  /\ SF_vars(~panicked /\ KeepaliveStep /\ kpc' = "done")
  /\ SF_vars(~panicked /\ Close)

\* The router goes on reading the connections it holds.
RouterFairness ==
  \A k \in Conns : WF_vars(~panicked /\ RouterStep(k) /\ out'[k] # out[k])

\* The client alone is fair: the router may stop reading.
ClientFairSpec == Spec /\ ClientFairness
FairSpec == Spec /\ ClientFairness /\ RouterFairness

-----------------------------------------------------------------------------
(* Safety                                                                  *)

CallTypes ==
  /\ pc \in [Calls -> {"idle", "lock", "load", "write", "wait", "clean",
                       "recon", "dial", "done"}]
  /\ id \in [Calls -> Nat]
  /\ wconn \in [Calls -> Conns \cup {0}]
  /\ chan \in [Calls -> {"none", "open"} \cup Deliveries]
  /\ from \in [Calls -> Calls \cup {NoCall}]
  /\ outcome \in [Calls -> {"none"} \cup Deliveries \cup Errors]
  /\ served \in [Calls -> Nat]

FieldTypes ==
  /\ nextID \in Nat
  /\ demux \in [IDs -> Calls \cup {NoCall}]
  /\ mu \in Frames \cup {NoCall}
  /\ conn \in Conns
  /\ {closed, ctxDone, panicked} \subseteq BOOLEAN
  /\ kpc \in {"off", "select", "lock", "write", "done"}

ReaderTypes ==
  /\ rpc \in [Conns -> {"off", "top", "load", "header", "payload", "lookup",
                        "send", "fail", "done"}]
  /\ turn \in [Conns -> Turns]

LinkTypes ==
  /\ nconns \in Conns
  /\ cstate \in [Conns -> {"new", "open", "broken", "closed"}]
  /\ stream \in [Conns -> {"header", "payload", "torn"}]
  /\ out \in [Conns -> Seq(Frames)]
  /\ got \in [Conns -> SUBSET Calls]
  /\ inq \in [Conns -> Seq(Calls)]

\* What a goroutine uses, it has read before.
ReadFirst ==
  /\ \A c \in Calls : pc[c] = "write" => wconn[c] \in Conns
  /\ \A r \in Conns :
       /\ rpc[r] \in {"header", "payload"} => turn[r].conn \in Conns
       /\ rpc[r] \in {"payload", "lookup", "send"} => turn[r].frame \in Calls
       /\ rpc[r] = "send" => turn[r].dst \in Calls

\* Every variable has its type, and no goroutine works with a connection, a
\* frame or a channel it does not have (Execute, readLoop).
TypeOK == CallTypes /\ FieldTypes /\ ReaderTypes /\ LinkTypes /\ ReadFirst

\* An answer that Execute returns is the answer to its own request, which the
\* router executed once: whatever was reconnected, timed out or failed in
\* between, ids and channels are never crossed (demux, readLoop).  A frame that
\* two readers tore apart is damaged, and still its own.
Replies == {"answer", "garbage"}
AnswerIsOwn ==
  \A c \in Calls : outcome[c] \in Replies => from[c] = c /\ served[c] = 1

\* Until Close, demux holds calls that are still inside Execute, each under
\* its own id: every way out of Execute and every failure of a reader removes
\* the entry, so the map cannot grow with the calls that returned.
NoEntryLeft ==
  ~closed => \A i \in IDs : demux[i] # NoCall =>
    /\ id[demux[i]] = i
    /\ pc[demux[i]] \in {"load", "write", "wait", "clean"}

\* No wakeup is lost: while nothing was sent on the channel of a call that is
\* on its way to the select or in it, either demux still holds the call, so
\* that a reader, failAll or Close will find it, or a reader has taken it out
\* and is about to send to it.
NoLostCall ==
  \A c \in Calls : pc[c] \in {"load", "write", "wait"} /\ chan[c] = "open" =>
    \/ c \in Waiting
    \/ \E r \in Conns : rpc[r] = "send" /\ turn[r].dst = c

\* The client holds one connection: however many calls reconnect, and even
\* when they race, every connection but the current one has been closed.
OneConnection ==
  \A k \in 1..nconns : k # conn => cstate[k] = "closed"

\* A send on a closed channel, which would kill the process, cannot happen
\* before Close: readers, failAll and cleanup never fight over a channel.
PanicOnlyAfterClose == panicked => closed

-----------------------------------------------------------------------------
(* Refinement of Rpc                                                       *)

\* A call is pending between NextID and its return.  It is refused when
\* Execute returns ErrConnClosed or the error of the Write, answered when it
\* returns the router's answer, damaged when it returns that answer torn, void
\* when it returns the zero RawResult with a nil error, and has failed when it
\* returns another error.
AbsStatus ==
  [c \in Calls |->
    IF pc[c] = "idle" THEN "idle"
    ELSE IF pc[c] # "done" THEN "pending"
    ELSE IF outcome[c] = "answer" THEN "answered"
    ELSE IF outcome[c] \in {"connclosed", "write"} THEN "refused"
    ELSE IF outcome[c] = "garbage" THEN "damaged"
    ELSE IF outcome[c] = "empty" THEN "void"
    ELSE "failed"]

Abs == INSTANCE Rpc WITH status <- AbsStatus, runs <- served

\* Every behaviour of the handler is one of Rpc: at most one execution per
\* call, no answer without it, and a refused request never executes.
RefinesRpc == Abs!Spec

-----------------------------------------------------------------------------
(* Action properties                                                       *)

\* A keepalive only goes out on the connection that is current, and never on
\* a handler that has been closed.
KeepaliveOnCurrent ==
  [][\A k \in Conns : out'[k] = Append(out[k], Keepalive)
       => k = conn /\ cstate[k] = "open" /\ ~closed]_vars

-----------------------------------------------------------------------------
(* Liveness                                                                *)

\* Every call of Execute returns, provided the router goes on reading.
CallsReturn ==
  \A c \in Calls : pc[c] # "idle" ~> pc[c] = "done" \/ panicked

\* Client.Close returns: once it cancelled the context, it gets the lock.
CloseReturns == ctxDone ~> closed \/ panicked

\* The keepalive goroutine ends after Close.
KeepaliveEnds == closed ~> kpc \in {"off", "done"} \/ panicked

-----------------------------------------------------------------------------
(* What documentation and comments say, and the code does not do           *)

\* "Close closes the client connection" (pkg/client/client.go:93) for a client
\* that is "safe for concurrent use" (README.md:451): closing the client does
\* not take the process down.
NoPanic == ~panicked

\* "Close closes the client connection" (pkg/client/client.go:93): once the
\* client is closed and every call has returned, no connection is open.
CloseCloses ==
  closed /\ (\A c \in Calls : pc[c] \in {"idle", "done"})
    => \A k \in Conns : cstate[k] # "open"

\* "The client is safe for concurrent use and manages TCP connections
\* internally" (README.md:451): one goroutine at a time reads a connection.
OneReader ==
  \A r, s \in Conns :
    /\ {rpc[r], rpc[s]} \subseteq {"header", "payload"}
    /\ turn[r].conn = turn[s].conn
    => r = s

\* "Timeout is the request timeout" (pkg/client/config.go:37), "Request timeout"
\* (README.md:94): a call that started ends, whatever the router does.
TimeoutEndsCall ==
  \A c \in Calls : pc[c] \in {"write", "wait"} ~> pc[c] = "done" \/ panicked
=============================================================================
