------------------------------- MODULE Handler -------------------------------
(***************************************************************************)
(* The connection handler of the SDK (internal/client/handler.go): callers *)
(* multiplex requests over one TCP connection, a read loop hands every     *)
(* answer to the call whose id it carries, a failed or timed out call      *)
(* reconnects, and in cluster mode a keepalive goroutine writes under the  *)
(* handler's lock.                                                         *)
(*                                                                         *)
(* A call is one invocation of Execute, a reader one readLoop goroutine,   *)
(* named after the connection whose dial started it.  A step is a critical *)
(* section, one access to a shared field made without the lock, or one     *)
(* blocking operation; a goroutine can be preempted between two steps.     *)
(* The lock is held across steps only where the code blocks with it: the   *)
(* dial of reconnect and the write of the keepalive.                       *)
(***************************************************************************)
EXTENDS Naturals, Sequences

CONSTANTS
  Calls,      \* invocations of Execute
  NoCall,     \* nobody: a free lock, an absent map entry
  Keepalive,  \* the keepalive goroutine, and the frame it writes
  MaxConn,    \* bound: successful dials over a run
  LastID,     \* bound: the last request id (uint32; the wrap is not modelled)
  SendBuf,    \* frames a connection accepts before Write blocks
  Cluster     \* TRUE in ClusterMode, FALSE in StandaloneMode

ASSUME NobodyAssumption ==
  NoCall \notin Calls /\ Keepalive \notin Calls /\ Keepalive # NoCall
ASSUME BoundsAssumption ==
  MaxConn \in Nat \ {0} /\ LastID \in Nat /\ SendBuf \in Nat \ {0}
ASSUME ModeAssumption == Cluster \in BOOLEAN

VARIABLES
  \* the callers of Execute
  pc,        \* pc[c]: where call c is in Execute
  id,        \* id[c]: the request id of c, 0 before NextID
  wconn,     \* wconn[c]: the connection c read from h.conn for its Write, or 0
  chan,      \* chan[c]: the result channel of c, and what was sent on it
  from,      \* from[c]: the call whose answer was sent on chan[c]
  outcome,   \* outcome[c]: what Execute is going to return, or returned
  \* the fields of the handler
  nextID, demux, mu, conn, closed, ctxDone,
  \* the goroutines of the handler
  rpc,       \* rpc[r]: where reader r is in readLoop
  turn,      \* turn[r]: the variables of the current turn of r's loop
  kpc,       \* where the keepalive goroutine is
  panicked,  \* a goroutine panicked: the process is gone
  \* the connections, and the router at their other end
  nconns,    \* connections dialled so far
  cstate,    \* cstate[k]: the client's end of connection k
  stream,    \* stream[k]: where the next byte to be read lies in a frame
  out,       \* out[k]: frames written and not yet read by the router
  got,       \* got[k]: requests executed by the router and not yet answered
  inq,       \* inq[k]: answers sent by the router and not yet read
  served     \* served[c]: how many times the router executed c

calls    == <<pc, id, wconn, chan, from, outcome>>
fields   == <<nextID, demux, mu, conn, closed, ctxDone>>
readers  == <<rpc, turn>>
links    == <<nconns, cstate, stream, out, got, inq>>
vars     == <<calls, fields, readers, kpc, panicked, links, served>>

Conns  == 1..MaxConn
IDs    == 1..LastID
Frames == Calls \cup {Keepalive}

\* What can be sent on a result channel: an answer, one with bytes of something
\* else in it, or the zero RawResult (failAll sends it, and receiving from a
\* channel that Close closed yields it).  And what else ends a call.
Deliveries == {"answer", "garbage", "empty"}
Errors     == {"connclosed", "write", "ctx", "timeout"}

\* One turn of the read loop: the connection read from h.conn, the call whose
\* answer is read, whether the payload is another's, the channel found.
Turns == [conn : Conns \cup {0}, frame : Calls \cup {NoCall},
          bad : BOOLEAN, dst : Calls \cup {NoCall}]
NewTurn == [conn |-> 0, frame |-> NoCall, bad |-> FALSE, dst |-> NoCall]

\* The state NewHandler returns in: its reconnect dialled connection 1 and
\* started reader 1, and in cluster mode startKeepalive started the keepalive.
Init ==
  /\ pc = [c \in Calls |-> "idle"]
  /\ id = [c \in Calls |-> 0]
  /\ wconn = [c \in Calls |-> 0]
  /\ chan = [c \in Calls |-> "none"]
  /\ from = [c \in Calls |-> NoCall]
  /\ outcome = [c \in Calls |-> "none"]
  /\ nextID = 0 /\ demux = [i \in IDs |-> NoCall]
  /\ mu = NoCall /\ conn = 1 /\ closed = FALSE /\ ctxDone = FALSE
  /\ rpc = [r \in Conns |-> IF r = 1 THEN "top" ELSE "off"]
  /\ turn = [r \in Conns |-> NewTurn]
  /\ kpc = IF Cluster THEN "select" ELSE "off"
  /\ panicked = FALSE
  /\ nconns = 1
  /\ cstate = [k \in Conns |-> IF k = 1 THEN "open" ELSE "new"]
  /\ stream = [k \in Conns |-> "header"]
  /\ out = [k \in Conns |-> <<>>]
  /\ got = [k \in Conns |-> {}]
  /\ inq = [k \in Conns |-> <<>>]
  /\ served = [c \in Calls |-> 0]

Goto(c, label) == pc' = [pc EXCEPT ![c] = label]
ReaderGoto(r, label) == rpc' = [rpc EXCEPT ![r] = label]
EndTurn(r) == turn' = [turn EXCEPT ![r] = NewTurn]

\* The calls demux holds.
Waiting == {demux[i] : i \in IDs} \ {NoCall}

\* Close of the client's end of connection k: reads and writes on it fail from
\* now on.  What was written stays on its way to the router.
CloseConn(k) ==
  /\ cstate' = [cstate EXCEPT ![k] = "closed"]
  /\ got' = [got EXCEPT ![k] = {}]
  /\ inq' = [inq EXCEPT ![k] = <<>>]
  /\ stream' = [stream EXCEPT ![k] = "header"]

-----------------------------------------------------------------------------
(* Execute.  CallStep adds what no step of a call changes.                 *)

\* A fault: the counter is read and not advanced, so that ids repeat.
NextIDRepeated(c) ==
  /\ pc[c] = "idle" /\ Goto(c, "lock")
  /\ nextID < LastID
  /\ id' = [id EXCEPT ![c] = nextID + 1]
  /\ UNCHANGED <<wconn, chan, outcome, fields, rpc, links>>

\* Execute starts: NextID, one atomic addition on a uint32.
NextID(c) ==
  /\ pc[c] = "idle" /\ Goto(c, "lock")
  /\ nextID < LastID
  /\ nextID' = nextID + 1
  /\ id' = [id EXCEPT ![c] = nextID + 1]
  /\ UNCHANGED <<wconn, chan, outcome, demux, mu, conn, rpc, links>>

\* The critical section of Execute.  h.conn is never nil once NewHandler
\* returned (no assignment sets it back), so the self-heal branch is dead.
Register(c) ==
  /\ pc[c] = "lock"
  /\ mu = NoCall
  /\ \/ /\ closed
        /\ outcome' = [outcome EXCEPT ![c] = "connclosed"]
        /\ Goto(c, "done")
        /\ UNCHANGED <<chan, demux>>
     \/ /\ ~closed
        /\ chan' = [chan EXCEPT ![c] = "open"]
        /\ demux' = [demux EXCEPT ![id[c]] = c]
        /\ Goto(c, "load")
        /\ UNCHANGED outcome
  /\ UNCHANGED <<id, wconn, nextID, mu, conn, rpc, links>>

\* h.conn is read without the lock: what the Write uses is the connection
\* current at some moment between the unlock and the Write.
LoadConn(c) ==
  /\ pc[c] = "load" /\ Goto(c, "write")
  /\ wconn' = [wconn EXCEPT ![c] = conn]
  /\ UNCHANGED <<id, chan, outcome, nextID, demux, mu, conn, rpc, links>>

\* The whole frame is handed to the kernel.  With no write deadline the call
\* stays here while the connection is open and accepts nothing more.  On a
\* connection broken by the peer a Write may still succeed; the frame is lost.
WriteOK(c) ==
  LET k == wconn[c] IN
  /\ pc[c] = "write" /\ Goto(c, "wait")
  /\ \/ /\ cstate[k] = "open"
        /\ Len(out[k]) < SendBuf
        /\ out' = [out EXCEPT ![k] = Append(@, c)]
     \/ /\ cstate[k] = "broken"
        /\ UNCHANGED out
  /\ wconn' = [wconn EXCEPT ![c] = 0]
  /\ UNCHANGED <<id, chan, outcome, nextID, demux, mu, conn, rpc,
                 nconns, cstate, stream, got, inq>>

\* A fault: Write is tried again, with the connection already forgotten.
WriteFailRetried(c) ==
  /\ pc[c] = "write"
  /\ cstate[wconn[c]] # "open"
  /\ outcome' = [outcome EXCEPT ![c] = "write"]
  /\ wconn' = [wconn EXCEPT ![c] = 0]
  /\ UNCHANGED <<pc, id, chan, nextID, demux, mu, conn, rpc, links>>

\* Write returns an error: the frame was not handed over completely.
WriteFail(c) ==
  /\ pc[c] = "write" /\ Goto(c, "clean")
  /\ cstate[wconn[c]] # "open"
  /\ outcome' = [outcome EXCEPT ![c] = "write"]
  /\ wconn' = [wconn EXCEPT ![c] = 0]
  /\ UNCHANGED <<id, chan, nextID, demux, mu, conn, rpc, links>>

\* The receive case of the select.  A channel is closed after every send, and
\* receiving from a channel closed without a send yields the zero RawResult:
\* in all three cases Execute returns what it got and a nil error.
Receive(c) ==
  /\ pc[c] = "wait" /\ Goto(c, "done")
  /\ chan[c] \in Deliveries
  /\ outcome' = [outcome EXCEPT ![c] = chan[c]]
  /\ UNCHANGED <<id, wconn, chan, nextID, demux, mu, conn, rpc, links>>

\* The other two cases of the select: the caller's context ends, or the timer
\* fires.  Either may be chosen even when a result is ready.
GiveUp(c, err) ==
  /\ pc[c] = "wait" /\ Goto(c, "clean")
  /\ outcome' = [outcome EXCEPT ![c] = err]
  /\ UNCHANGED <<id, wconn, chan, nextID, demux, mu, conn, rpc, links>>
CtxEnds(c) == GiveUp(c, "ctx")

\* A fault: a call that times out sends its request again.
TimeoutResent(c) ==
  /\ pc[c] = "wait" /\ Goto(c, "load")
  /\ UNCHANGED <<id, wconn, chan, outcome, nextID, demux, mu, conn, rpc, links>>

Timeout(c) == GiveUp(c, "timeout")

\* A fault: Execute returns without removing its entry.
CleanupForgotten(c) ==
  /\ pc[c] = "clean"
  /\ Goto(c, IF outcome[c] = "ctx" THEN "done" ELSE "recon")
  /\ UNCHANGED <<id, wconn, chan, outcome, nextID, demux, mu, conn, rpc, links>>

\* cleanup; then Execute returns ctx.Err(), or goes on to reconnect.
Cleanup(c) ==
  /\ pc[c] = "clean"
  /\ mu = NoCall
  /\ demux' = [demux EXCEPT ![id[c]] = NoCall]
  /\ Goto(c, IF outcome[c] = "ctx" THEN "done" ELSE "recon")
  /\ UNCHANGED <<id, wconn, chan, outcome, nextID, mu, conn, rpc, links>>

\* A fault: the old connection is not closed.
ReconnectKeepsOld(c) ==
  /\ pc[c] = "recon" /\ Goto(c, "dial")
  /\ mu = NoCall /\ mu' = c
  /\ UNCHANGED <<id, wconn, chan, outcome, nextID, demux, conn, rpc, links>>

\* reconnect: the lock is taken, to be kept while dialling, and the current
\* connection closed, whichever it is by now.
ReconnectClose(c) ==
  /\ pc[c] = "recon" /\ Goto(c, "dial")
  /\ mu = NoCall /\ mu' = c
  /\ CloseConn(conn)
  /\ UNCHANGED <<id, wconn, chan, outcome, nextID, demux, conn, rpc, nconns, out>>

\* The dial succeeds: h.conn is replaced and a new reader started.  Execute
\* then returns the error it reconnected for.
DialOK(c) ==
  LET k == nconns + 1 IN
  /\ pc[c] = "dial" /\ Goto(c, "done")
  /\ k \in Conns
  /\ nconns' = k
  /\ conn' = k
  /\ cstate' = [cstate EXCEPT ![k] = "open"]
  /\ ReaderGoto(k, "top")
  /\ mu' = NoCall
  /\ UNCHANGED <<id, wconn, chan, outcome, nextID, demux, stream, out, got, inq>>

\* The dial fails: h.conn stays the closed connection.
DialFail(c) ==
  /\ pc[c] = "dial" /\ Goto(c, "done")
  /\ mu' = NoCall
  /\ UNCHANGED <<id, wconn, chan, outcome, nextID, demux, conn, rpc, links>>

\* What a call does once it has started, if its caller does nothing.
CallProgress(c) ==
  /\ \/ Register(c) \/ LoadConn(c) \/ WriteOK(c) \/ WriteFail(c)
     \/ Receive(c) \/ Timeout(c) \/ Cleanup(c)
     \/ ReconnectClose(c) \/ DialOK(c) \/ DialFail(c)
  /\ UNCHANGED <<from, closed, ctxDone, turn, kpc, panicked, served>>

\* What its caller decides.
CallerStep(c) ==
  /\ NextID(c) \/ CtxEnds(c)
  /\ UNCHANGED <<from, closed, ctxDone, turn, kpc, panicked, served>>

-----------------------------------------------------------------------------
(* readLoop.  ReaderStep adds what no step of a reader changes.            *)

\* The top of the loop: stop without failAll once the context has ended.
ReaderTop(r) ==
  /\ rpc[r] = "top"
  /\ ReaderGoto(r, IF ctxDone THEN "done" ELSE "load")
  /\ UNCHANGED <<chan, from, demux, turn, panicked, stream, inq>>

\* The argument of DrainFrame: h.conn, read without the lock at every frame.
ReaderLoad(r) ==
  /\ rpc[r] = "load" /\ ReaderGoto(r, "header")
  /\ turn' = [turn EXCEPT ![r].conn = conn]
  /\ UNCHANGED <<chan, from, demux, panicked, stream, inq>>

\* DrainFrame reads the nine header bytes, at the start of a frame.
ReadHeader(r) ==
  LET k == turn[r].conn IN
  /\ rpc[r] = "header" /\ ReaderGoto(r, "payload")
  /\ cstate[k] # "closed" /\ stream[k] = "header" /\ inq[k] # <<>>
  /\ turn' = [turn EXCEPT ![r].frame = Head(inq[k])]
  /\ inq' = [inq EXCEPT ![k] = Tail(@)]
  /\ stream' = [stream EXCEPT ![k] = "payload"]
  /\ UNCHANGED <<chan, from, demux, panicked>>

\* The nine bytes do not start a frame, because another reader is inside one:
\* bad magic byte.  (The first byte of a payload is a status length.)
BadMagic(r) ==
  LET k == turn[r].conn IN
  /\ rpc[r] = "header" /\ ReaderGoto(r, "fail")
  /\ cstate[k] # "closed"
  /\ \/ /\ stream[k] = "payload"
        /\ UNCHANGED inq
     \/ /\ stream[k] = "torn" /\ inq[k] # <<>>
        /\ inq' = [inq EXCEPT ![k] = Tail(@)]
  /\ stream' = [stream EXCEPT ![k] = "torn"]
  /\ EndTurn(r)
  /\ UNCHANGED <<chan, from, demux, panicked>>

\* DrainFrame reads the payload announced by the header, and ParseFields its
\* fields (its error is dropped).
ReadPayload(r) ==
  LET k == turn[r].conn IN
  /\ rpc[r] = "payload" /\ ReaderGoto(r, "lookup")
  /\ cstate[k] # "closed" /\ stream[k] = "payload"
  /\ stream' = [stream EXCEPT ![k] = "header"]
  /\ UNCHANGED <<chan, from, demux, turn, panicked, inq>>

\* Another reader took bytes of this payload, before its status or after it
\* (ReadFull reads in pieces): it is made up with bytes of the next frame, and
\* passes DrainFrame's length checks or not.  If it does, it goes to the call
\* of its header, with the status as it was or not and other fields or none.
ReadTornPayload(r) ==
  LET k == turn[r].conn IN
  /\ rpc[r] = "payload"
  /\ cstate[k] # "closed" /\ stream[k] = "torn" /\ inq[k] # <<>>
  /\ inq' = [inq EXCEPT ![k] = Tail(@)]
  /\ \/ ReaderGoto(r, "lookup") /\ turn' = [turn EXCEPT ![r].bad = TRUE]
     \/ ReaderGoto(r, "fail") /\ EndTurn(r)
  /\ UNCHANGED <<chan, from, demux, panicked, stream>>

\* A read on a connection that is closed or broken returns an error.
ReadFail(r) ==
  /\ rpc[r] \in {"header", "payload"} /\ ReaderGoto(r, "fail")
  /\ cstate[turn[r].conn] # "open"
  /\ EndTurn(r)
  /\ UNCHANGED <<chan, from, demux, panicked, stream, inq>>

\* A fault: the entry is read and not deleted.
LookupKeepsEntry(r) ==
  LET i == id[turn[r].frame] IN
  /\ rpc[r] = "lookup"
  /\ mu = NoCall
  /\ \/ demux[i] = NoCall /\ ReaderGoto(r, "top") /\ EndTurn(r)
     \/ /\ demux[i] # NoCall /\ ReaderGoto(r, "send")
        /\ turn' = [turn EXCEPT ![r].dst = demux[i]]
  /\ UNCHANGED <<chan, from, demux, panicked, stream, inq>>

\* Look the id of the frame up in demux and delete it, under the lock.
Lookup(r) ==
  LET i == id[turn[r].frame] IN
  /\ rpc[r] = "lookup"
  /\ mu = NoCall
  /\ \/ demux[i] = NoCall /\ ReaderGoto(r, "top") /\ EndTurn(r)
     \/ /\ demux[i] # NoCall /\ ReaderGoto(r, "send")
        /\ turn' = [turn EXCEPT ![r].dst = demux[i]]
  /\ demux' = [demux EXCEPT ![i] = NoCall]
  /\ UNCHANGED <<chan, from, panicked, stream, inq>>

\* Send the result on the channel and close it, after the unlock.  Sending on
\* a channel that is already closed panics.
Send(r) ==
  LET c == turn[r].dst IN
  /\ rpc[r] = "send"
  /\ \/ /\ chan[c] = "open"
        /\ chan' = [chan EXCEPT ![c] = IF turn[r].bad THEN "garbage" ELSE "answer"]
        /\ from' = [from EXCEPT ![c] = turn[r].frame]
        /\ ReaderGoto(r, "top") /\ EndTurn(r)
        /\ UNCHANGED panicked
     \/ /\ chan[c] # "open"
        /\ panicked' = TRUE
        /\ UNCHANGED <<chan, from, readers>>
  /\ UNCHANGED <<demux, stream, inq>>

\* A fault: the map is emptied and nobody is told.
FailAllSilent(r) ==
  /\ rpc[r] = "fail" /\ ReaderGoto(r, "done")
  /\ mu = NoCall
  /\ demux' = [i \in IDs |-> NoCall]
  /\ UNCHANGED <<chan, from, turn, panicked, stream, inq>>

\* failAll: the zero RawResult for every call in demux, whatever the error and
\* whatever connection the call was written on; then the reader ends, after
\* OnReconnect (which resets a field of Client, not of the handler).
FailAll(r) ==
  /\ rpc[r] = "fail"
  /\ mu = NoCall
  /\ \/ /\ \A c \in Waiting : chan[c] = "open"
        /\ chan' = [c \in Calls |-> IF c \in Waiting THEN "empty" ELSE chan[c]]
        /\ demux' = [i \in IDs |-> NoCall]
        /\ ReaderGoto(r, "done")
        /\ UNCHANGED panicked
     \/ /\ \E c \in Waiting : chan[c] # "open"
        /\ panicked' = TRUE
        /\ UNCHANGED <<chan, demux, rpc>>
  /\ UNCHANGED <<from, turn, stream, inq>>

ReaderStep(r) ==
  /\ \/ ReaderTop(r) \/ ReaderLoad(r) \/ ReadHeader(r) \/ BadMagic(r)
     \/ ReadPayload(r) \/ ReadTornPayload(r) \/ ReadFail(r) \/ Lookup(r)
     \/ Send(r) \/ FailAll(r)
  /\ UNCHANGED <<pc, id, wconn, outcome, nextID, mu, conn, closed, ctxDone, kpc,
                 nconns, cstate, out, got, served>>

-----------------------------------------------------------------------------
(* keepaliveLoop.  KeepaliveStep adds what no step of it changes.          *)

\* The select takes a tick, which it may do even once the context has ended.
KeepaliveTick == kpc = "select" /\ kpc' = "lock" /\ UNCHANGED <<mu, out>>

\* A fault: h.closed is not checked.
KeepaliveLockUnchecked ==
  /\ kpc = "lock" /\ kpc' = "write"
  /\ mu = NoCall /\ mu' = Keepalive
  /\ UNCHANGED out

KeepaliveLock ==
  /\ kpc = "lock"
  /\ mu = NoCall
  /\ \/ closed /\ kpc' = "select" /\ UNCHANGED mu
     \/ ~closed /\ kpc' = "write" /\ mu' = Keepalive
  /\ UNCHANGED out

\* A fault: a write that failed is tried again, with the lock held.
KeepaliveWriteRetried ==
  /\ kpc = "write"
  /\ \/ /\ cstate[conn] = "open" /\ Len(out[conn]) < SendBuf
        /\ out' = [out EXCEPT ![conn] = Append(@, Keepalive)]
        /\ mu' = NoCall /\ kpc' = "select"
     \/ /\ cstate[conn] # "open"
        /\ UNCHANGED <<out, mu, kpc>>

\* The write, with the lock held.  An error is dropped.
KeepaliveWrite ==
  /\ kpc = "write" /\ kpc' = "select"
  /\ \/ /\ cstate[conn] = "open" /\ Len(out[conn]) < SendBuf
        /\ out' = [out EXCEPT ![conn] = Append(@, Keepalive)]
     \/ /\ cstate[conn] # "open"
        /\ UNCHANGED out
  /\ mu' = NoCall

\* A fault: break leaves the select and not the loop.
KeepaliveStopBreaks ==
  kpc = "select" /\ (ctxDone \/ closed) /\ UNCHANGED <<kpc, mu, out>>

\* The select takes ctx.Done or keepaliveStop, which Close closes.
KeepaliveStop ==
  kpc = "select" /\ (ctxDone \/ closed) /\ kpc' = "done" /\ UNCHANGED <<mu, out>>

KeepaliveStep ==
  /\ KeepaliveTick \/ KeepaliveLock \/ KeepaliveWrite \/ KeepaliveStop
  /\ UNCHANGED <<calls, nextID, demux, conn, closed, ctxDone, readers, panicked,
                 nconns, cstate, stream, got, inq, served>>

-----------------------------------------------------------------------------
(* Client.Close: it cancels the context the handler's context is derived   *)
(* from, then closes the handler                                           *)

Cancel ==
  /\ ~ctxDone
  /\ ctxDone' = TRUE
  /\ UNCHANGED <<calls, nextID, demux, mu, conn, closed, readers, kpc, panicked,
                 links, served>>

\* Handler.Close closes the channel of every waiting call and leaves it in
\* demux.  A second Close returns at once.
Close ==
  /\ ctxDone /\ ~closed
  /\ mu = NoCall
  /\ closed' = TRUE
  /\ CloseConn(conn)
  /\ chan' = [c \in Calls |-> IF c \in Waiting THEN "empty" ELSE chan[c]]
  /\ UNCHANGED <<pc, id, wconn, from, outcome, nextID, demux, mu, conn, ctxDone,
                 readers, kpc, panicked, nconns, out, served>>

-----------------------------------------------------------------------------
(* The router and the network (not part of the SDK)                        *)

\* The router takes the next frame of a connection and executes the request;
\* it goes on after the client closed its end.  It does not answer keepalives,
\* nor anything on a connection that is gone.
ServerRead(k) ==
  LET f == Head(out[k]) IN
  /\ out[k] # <<>>
  /\ out' = [out EXCEPT ![k] = Tail(@)]
  /\ \/ f = Keepalive /\ UNCHANGED <<served, got>>
     \/ /\ f \in Calls
        /\ served' = [served EXCEPT ![f] = @ + 1]
        /\ got' = [got EXCEPT ![k] = IF cstate[k] = "open" THEN @ \cup {f} ELSE @]
  /\ UNCHANGED <<cstate, inq>>

\* Requests of one connection are answered in any order.
Answer(k) ==
  /\ cstate[k] = "open"
  /\ \E c \in got[k] :
       /\ got' = [got EXCEPT ![k] = @ \ {c}]
       /\ inq' = [inq EXCEPT ![k] = Append(@, c)]
  /\ UNCHANGED <<cstate, out, served>>

\* The peer closes or resets the connection, or the network loses it.
Break(k) ==
  /\ cstate[k] = "open"
  /\ cstate' = [cstate EXCEPT ![k] = "broken"]
  /\ got' = [got EXCEPT ![k] = {}]
  /\ UNCHANGED <<out, inq, served>>

RouterStep(k) ==
  /\ ServerRead(k) \/ Answer(k) \/ Break(k)
  /\ UNCHANGED <<calls, fields, readers, kpc, panicked, nconns, stream>>

-----------------------------------------------------------------------------
\* Every call has returned, or the process is gone: nothing more need happen.
Finished ==
  /\ panicked \/ \A c \in Calls : pc[c] = "done"
  /\ UNCHANGED vars

Running ==
  \/ \E c \in Calls : CallerStep(c) \/ CallProgress(c)
  \/ \E r \in Conns : ReaderStep(r)
  \/ KeepaliveStep
  \/ Cancel
  \/ Close
  \/ \E k \in Conns : RouterStep(k)

Next == (~panicked /\ Running) \/ Finished

Spec == Init /\ [][Next]_vars
=============================================================================
