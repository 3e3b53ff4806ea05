--------------------------- MODULE HandlerRefinement ---------------------------
(***************************************************************************)
(* The handler implements Rpc, gives every call its own answer and forgets *)
(* none: proved for any number of calls and connections, on top of the     *)
(* invariant IInv of HandlerProofs.  RInv follows the one request of a     *)
(* call: not written, on its way, executed once; and its answer: on a      *)
(* connection, with a reader, on the channel.                              *)
(***************************************************************************)
EXTENDS HandlerProofs

\* The request of c has not reached the router, nor is it on its way.
Unsent(c) ==
  /\ served[c] = 0
  /\ \A k \in Conns : \A j \in 1..Len(out[k]) : out[k][j] # c

\* A request is at most once on its way, and not any more once it was executed.
OnceInv ==
  /\ \A k, l \in Conns : \A i \in 1..Len(out[k]) : \A j \in 1..Len(out[l]) :
       out[k][i] \in Calls /\ out[k][i] = out[l][j] => k = l /\ i = j
  /\ \A k \in Conns : \A j \in 1..Len(out[k]) :
       out[k][j] \in Calls => served[out[k][j]] = 0
  /\ \A c \in Calls : served[c] \in {0, 1}

\* A call has an outcome only when it is about to return.
EndInv ==
  \A c \in Calls : outcome[c] # "none" => pc[c] \in {"clean", "recon", "dial", "done"}

\* The request of a call that did not write it, or failed to, is not sent.
UnsentInv ==
  \A c \in Calls :
    pc[c] \in {"idle", "lock", "load", "write"} \/ outcome[c] \in {"connclosed", "write"}
      => Unsent(c)

\* What comes back belongs to requests that were executed.
ServedInv ==
  /\ \A k \in Conns : \A c \in got[k] : served[c] = 1
  /\ \A k \in Conns : \A j \in 1..Len(inq[k]) : served[inq[k][j]] = 1
  /\ \A r \in Conns : turn[r].frame \in Calls => served[turn[r].frame] = 1

\* A reader is about to send an answer to the call it belongs to.
OwnInv == \A r \in Conns : rpc[r] = "send" => turn[r].dst = turn[r].frame

\* The answer on a channel, damaged or not, is the owner's, and stays there
\* when it is returned.
AnswerInv ==
  \A c \in Calls :
    /\ chan[c] \in Replies => from[c] = c /\ served[c] = 1
    /\ outcome[c] \in Replies => chan[c] \in Replies

\* A reader starts when its connection is dialled.
ReaderInv == \A r \in Conns : nconns < r => rpc[r] = "off"

RInv ==
  /\ OnceInv
  /\ EndInv
  /\ UnsentInv
  /\ ServedInv
  /\ OwnInv
  /\ AnswerInv
  /\ ReaderInv
  /\ NoLostCall

-----------------------------------------------------------------------------
(* Which steps change what                                                 *)

\* Requests are put on their way by WriteOK, and taken by the router.
LEMMA OutChanges ==
  ASSUME [Next]_vars
  PROVE  \/ UNCHANGED <<out, served>>
         \/ \E c \in Calls : WriteOK(c) /\ UNCHANGED served
         \/ KeepaliveWrite /\ UNCHANGED served
         \/ \E k \in Conns : ServerRead(k)
<1>1. ASSUME NEW c \in Calls, CallerStep(c) PROVE UNCHANGED <<out, served>>
  BY <1>1 DEF CallerStep, NextID, CtxEnds, GiveUp, links
<1>2. ASSUME NEW c \in Calls, CallProgress(c)
      PROVE  UNCHANGED served /\ (WriteOK(c) \/ UNCHANGED out)
  BY <1>2 DEF CallProgress, Register, LoadConn, WriteFail, Receive, Timeout,
    GiveUp, Cleanup, ReconnectClose, DialOK, DialFail, links
<1>3. ASSUME NEW r \in Conns, ReaderStep(r) PROVE UNCHANGED <<out, served>>
  BY <1>3 DEF ReaderStep
<1>4. KeepaliveStep => UNCHANGED served /\ (KeepaliveWrite \/ UNCHANGED out)
  BY DEF KeepaliveStep, KeepaliveTick, KeepaliveLock, KeepaliveStop
<1>5. Cancel \/ Close \/ UNCHANGED vars => UNCHANGED <<out, served>>
  BY DEF Cancel, Close, vars, links
<1>6. ASSUME NEW k \in Conns, RouterStep(k)
      PROVE  ServerRead(k) \/ UNCHANGED <<out, served>>
  BY <1>6 DEF RouterStep, Answer, Break
<1> QED
  BY <1>1, <1>2, <1>3, <1>4, <1>5, <1>6 DEF Next, Running, Finished

\* The program counter and the outcome of a call are changed by its own steps.
LEMMA CallChanges ==
  ASSUME [Next]_vars
  PROVE  \/ UNCHANGED <<pc, outcome>>
         \/ \E c \in Calls : CallerStep(c) \/ CallProgress(c)
<1>1. ASSUME NEW r \in Conns, ReaderStep(r) PROVE UNCHANGED <<pc, outcome>>
  BY <1>1 DEF ReaderStep
<1>2. KeepaliveStep \/ Cancel \/ Close \/ UNCHANGED vars => UNCHANGED <<pc, outcome>>
  BY DEF KeepaliveStep, Cancel, Close, vars, calls
<1>3. ASSUME NEW k \in Conns, RouterStep(k) PROVE UNCHANGED <<pc, outcome>>
  BY <1>3 DEF RouterStep, calls
<1> QED BY <1>1, <1>2, <1>3 DEF Next, Running, Finished

\* How the program counter and the outcome of a call change: it starts, goes
\* on without one, gets one from Register, WriteFail, Receive or the select, or
\* returns with the one it has.
LEMMA CallMoves ==
  ASSUME TypeOK, NEW c \in Calls, CallerStep(c) \/ CallProgress(c)
  PROVE  /\ pc' = [pc EXCEPT ![c] = pc'[c]] /\ UNCHANGED served
         /\ \/ /\ UNCHANGED outcome
               /\ \/ NextID(c) /\ pc[c] = "idle" /\ pc'[c] = "lock"
                  \/ Register(c) /\ pc[c] = "lock" /\ pc'[c] = "load"
                  \/ LoadConn(c) /\ pc[c] = "load" /\ pc'[c] = "write"
                  \/ WriteOK(c) /\ pc[c] = "write" /\ pc'[c] = "wait"
                  \/ pc[c] \in {"clean", "recon", "dial"}
                       /\ pc'[c] \in {"recon", "dial", "done"}
            \/ /\ outcome' = [outcome EXCEPT ![c] = outcome'[c]]
               /\ \/ pc[c] = "lock" /\ pc'[c] = "done" /\ outcome'[c] = "connclosed"
                  \/ pc[c] = "write" /\ pc'[c] = "clean" /\ outcome'[c] = "write"
                  \/ pc[c] = "wait" /\ pc'[c] = "done" /\ outcome'[c] = chan[c]
                       /\ chan[c] \in Deliveries
                  \/ pc[c] = "wait" /\ pc'[c] = "clean"
                       /\ outcome'[c] \in {"ctx", "timeout"}
<1> USE DEF TypeOK, CallTypes, Goto
<1>1. UNCHANGED served
  BY DEF CallerStep, CallProgress
<1>2. CASE NextID(c)
  BY <1>1, <1>2 DEF NextID
<1>3. CASE CtxEnds(c) \/ Timeout(c)
  BY <1>1, <1>3 DEF CtxEnds, Timeout, GiveUp
<1>4. CASE Register(c)
  BY <1>1, <1>4 DEF Register
<1>5. CASE LoadConn(c)
  BY <1>1, <1>5 DEF LoadConn
<1>6. CASE WriteOK(c)
  BY <1>1, <1>6 DEF WriteOK
<1>7. CASE WriteFail(c)
  BY <1>1, <1>7 DEF WriteFail
<1>8. CASE Receive(c)
  BY <1>1, <1>8 DEF Receive
<1>9. CASE Cleanup(c)
  BY <1>1, <1>9 DEF Cleanup
<1>10. CASE ReconnectClose(c)
  BY <1>1, <1>10 DEF ReconnectClose
<1>11. CASE DialOK(c) \/ DialFail(c)
  BY <1>1, <1>11 DEF DialOK, DialFail
<1> QED
  BY <1>2, <1>3, <1>4, <1>5, <1>6, <1>7, <1>8, <1>9, <1>10, <1>11
    DEF CallerStep, CallProgress

-----------------------------------------------------------------------------
(* The requests on their way                                               *)

\* A frame put at the end of a connection comes after the others, which stay.
LEMMA PutFacts ==
  ASSUME TypeOK, NEW k \in Conns, NEW f \in Frames,
         out' = [out EXCEPT ![k] = Append(@, f)]
  PROVE  \A l \in Conns : \A j \in 1..Len(out'[l]) :
           \/ j \in 1..Len(out[l]) /\ out'[l][j] = out[l][j]
           \/ l = k /\ j = Len(out[k]) + 1 /\ out'[l][j] = f
<1>1. out \in [Conns -> Seq(Frames)]
  BY DEF TypeOK, LinkTypes
<1>2. ASSUME NEW l \in Conns, l # k PROVE out'[l] = out[l]
  BY <1>1, <1>2
<1>3. out'[k] = Append(out[k], f) /\ out[k] \in Seq(Frames)
  BY <1>1
<1>4. \A j \in 1..Len(Append(out[k], f)) :
        \/ j \in 1..Len(out[k]) /\ Append(out[k], f)[j] = out[k][j]
        \/ j = Len(out[k]) + 1 /\ Append(out[k], f)[j] = f
  BY <1>3
<1> QED BY <1>2, <1>3, <1>4

\* Putting a keepalive, or a request not sent before, keeps OnceInv.
LEMMA PutKeepsOnce ==
  ASSUME TypeOK, OnceInv, NEW k \in Conns, NEW f \in Frames,
         f \in Calls => Unsent(f), UNCHANGED served,
         out' = [out EXCEPT ![k] = Append(@, f)]
  PROVE  OnceInv'
<1>1. \A l \in Conns : \A j \in 1..Len(out'[l]) :
        \/ j \in 1..Len(out[l]) /\ out'[l][j] = out[l][j]
        \/ l = k /\ j = Len(out[k]) + 1 /\ out'[l][j] = f
  BY PutFacts
<1>2. ASSUME NEW l \in Conns, NEW m \in Conns,
             NEW i \in 1..Len(out'[l]), NEW j \in 1..Len(out'[m]),
             out'[l][i] \in Calls, out'[l][i] = out'[m][j]
      PROVE  l = m /\ i = j
  BY <1>1, <1>2 DEF OnceInv, Unsent
<1>3. ASSUME NEW l \in Conns, NEW j \in 1..Len(out'[l]), out'[l][j] \in Calls
      PROVE  served'[out'[l][j]] = 0
  BY <1>1, <1>3 DEF OnceInv, Unsent
<1> QED BY <1>2, <1>3 DEF OnceInv

\* What a read of the router does: the first frame of the connection goes, the
\* others move up, and a request among them is counted.
LEMMA TakeFacts ==
  ASSUME TypeOK, NEW k \in Conns, ServerRead(k)
  PROVE  /\ Head(out[k]) = out[k][1] /\ 1 \in 1..Len(out[k])
         /\ \A l \in Conns : l # k => out'[l] = out[l]
         /\ \A j \in 1..Len(out'[k]) :
              j + 1 \in 1..Len(out[k]) /\ out'[k][j] = out[k][j + 1]
         /\ \/ Head(out[k]) = Keepalive /\ UNCHANGED <<served, got>>
            \/ /\ Head(out[k]) \in Calls
               /\ served' = [served EXCEPT ![Head(out[k])] = @ + 1]
               /\ got' \in {got, [got EXCEPT ![k] = @ \cup {Head(out[k])}]}
<1>1. out \in [Conns -> Seq(Frames)] /\ got \in [Conns -> SUBSET Calls]
  BY DEF TypeOK, LinkTypes
<1>2. out[k] \in Seq(Frames) /\ out[k] # <<>>
  BY <1>1 DEF ServerRead
<1>3. out' = [out EXCEPT ![k] = Tail(out[k])]
  BY DEF ServerRead
<1>4. /\ Head(out[k]) = out[k][1] /\ 1 \in 1..Len(out[k])
      /\ \A j \in 1..Len(Tail(out[k])) :
           j + 1 \in 1..Len(out[k]) /\ Tail(out[k])[j] = out[k][j + 1]
  BY <1>2, TailFacts
<1>5. \/ Head(out[k]) = Keepalive /\ UNCHANGED <<served, got>>
      \/ /\ Head(out[k]) \in Calls
         /\ served' = [served EXCEPT ![Head(out[k])] = @ + 1]
         /\ got' \in {got, [got EXCEPT ![k] = @ \cup {Head(out[k])}]}
  BY <1>1 DEF ServerRead
<1> QED BY <1>1, <1>3, <1>4, <1>5

\* A read of the router keeps OnceInv.
LEMMA TakeKeepsOnce ==
  ASSUME TypeOK, OnceInv, NEW k \in Conns, ServerRead(k)
  PROVE  OnceInv'
<1> DEFINE f == Head(out[k])
<1>1. /\ f = out[k][1] /\ 1 \in 1..Len(out[k])
      /\ \A l \in Conns : l # k => out'[l] = out[l]
      /\ \A j \in 1..Len(out'[k]) :
           j + 1 \in 1..Len(out[k]) /\ out'[k][j] = out[k][j + 1]
      /\ \/ f = Keepalive /\ UNCHANGED served
         \/ f \in Calls /\ served' = [served EXCEPT ![f] = @ + 1]
  BY TakeFacts
<1> HIDE DEF f
<1>2. \A j \in 1..Len(out'[k]) : j \in Nat /\ j + 1 # 1
  OBVIOUS
<1>3. ASSUME NEW l \in Conns, NEW m \in Conns,
             NEW i \in 1..Len(out'[l]), NEW j \in 1..Len(out'[m]),
             out'[l][i] \in Calls, out'[l][i] = out'[m][j]
      PROVE  l = m /\ i = j
  <2>1. CASE l = k /\ m = k
    <3>1. /\ i + 1 \in 1..Len(out[k]) /\ out[k][i + 1] = out'[k][i]
          /\ j + 1 \in 1..Len(out[k]) /\ out[k][j + 1] = out'[k][j]
      BY <1>1, <2>1
    <3>2. out[k][i + 1] \in Calls /\ out[k][i + 1] = out[k][j + 1]
      BY <1>3, <2>1, <3>1
    <3>3. i + 1 = j + 1
      BY <3>1, <3>2 DEF OnceInv
    <3> QED BY <2>1, <3>3
  <2>2. CASE l = k /\ m # k
    BY <1>1, <1>3, <2>2 DEF OnceInv
  <2>3. CASE l # k /\ m = k
    BY <1>1, <1>3, <2>3 DEF OnceInv
  <2>4. CASE l # k /\ m # k
    BY <1>1, <1>3, <2>4 DEF OnceInv
  <2> QED BY <2>1, <2>2, <2>3, <2>4
<1>4. ASSUME NEW l \in Conns, NEW j \in 1..Len(out'[l]), out'[l][j] \in Calls
      PROVE  served'[out'[l][j]] = 0
  <2>1. out'[l][j] # f /\ served[out'[l][j]] = 0
    <3>1. CASE l = k
      <4>1. j + 1 \in 1..Len(out[k]) /\ out[k][j + 1] = out'[k][j] /\ j + 1 # 1
        BY <1>1, <1>2, <3>1
      <4>2. out[k][j + 1] \in Calls /\ served[out[k][j + 1]] = 0
        BY <1>4, <3>1, <4>1 DEF OnceInv
      <4>3. out[k][j + 1] # out[k][1]
        BY <1>1, <4>1, <4>2 DEF OnceInv
      <4> QED BY <1>1, <3>1, <4>1, <4>2, <4>3
    <3>2. CASE l # k
      BY <1>1, <1>4, <3>2 DEF OnceInv
    <3> QED BY <3>1, <3>2
  <2> QED BY <1>1, <1>4, <2>1 DEF TypeOK, CallTypes
<1>5. \A c \in Calls : served'[c] \in {0, 1}
  <2>1. f \in Calls => served[f] = 0
    BY <1>1 DEF OnceInv
  <2> QED BY <1>1, <2>1 DEF OnceInv, TypeOK, CallTypes
<1> QED BY <1>3, <1>4, <1>5 DEF OnceInv

\* OnceInv is kept by every step.
LEMMA StepKeepsOnce ==
  ASSUME IInv, RInv, [Next]_vars
  PROVE  OnceInv'
<1> USE DEF IInv, RInv
<1>1. CASE UNCHANGED <<out, served>>
  BY <1>1 DEF OnceInv
<1>2. ASSUME NEW c \in Calls, WriteOK(c), UNCHANGED served PROVE OnceInv'
  <2>1. Unsent(c) /\ c \in Frames /\ wconn[c] \in Conns
    BY <1>2 DEF UnsentInv, WriteOK, Frames, TypeOK, ReadFirst
  <2>2. out' = [out EXCEPT ![wconn[c]] = Append(@, c)] \/ UNCHANGED out
    BY <1>2 DEF WriteOK
  <2>3. CASE out' = [out EXCEPT ![wconn[c]] = Append(@, c)]
    BY <1>2, <2>1, <2>3, PutKeepsOnce
  <2> QED BY <1>1, <1>2, <2>2, <2>3
<1>3. ASSUME KeepaliveWrite, UNCHANGED served PROVE OnceInv'
  <2>1. Keepalive \in Frames /\ Keepalive \notin Calls /\ conn \in Conns
    BY NobodyAssumption DEF Frames, TypeOK, FieldTypes
  <2>2. out' = [out EXCEPT ![conn] = Append(@, Keepalive)] \/ UNCHANGED out
    BY <1>3 DEF KeepaliveWrite
  <2>3. CASE out' = [out EXCEPT ![conn] = Append(@, Keepalive)]
    BY <1>3, <2>1, <2>3, PutKeepsOnce
  <2> QED BY <1>1, <1>3, <2>2, <2>3
<1>4. ASSUME NEW k \in Conns, ServerRead(k) PROVE OnceInv'
  BY <1>4, TakeKeepsOnce
<1> QED BY <1>1, <1>2, <1>3, <1>4, OutChanges

\* A request that is not sent stays so unless its call writes it.
LEMMA StaysUnsent ==
  ASSUME IInv, RInv, [Next]_vars, NEW c \in Calls, Unsent(c), ~WriteOK(c)
  PROVE  Unsent(c)'
<1> USE DEF IInv, RInv
<1>1. CASE UNCHANGED <<out, served>>
  BY <1>1 DEF Unsent
<1>2. ASSUME NEW d \in Calls, WriteOK(d), UNCHANGED served PROVE Unsent(c)'
  <2>1. d \in Frames /\ wconn[d] \in Conns /\ d # c
    BY <1>2 DEF WriteOK, Frames, TypeOK, ReadFirst
  <2>2. out' = [out EXCEPT ![wconn[d]] = Append(@, d)] \/ UNCHANGED out
    BY <1>2 DEF WriteOK
  <2>3. CASE out' = [out EXCEPT ![wconn[d]] = Append(@, d)]
    <3>1. \A l \in Conns : \A j \in 1..Len(out'[l]) :
            \/ j \in 1..Len(out[l]) /\ out'[l][j] = out[l][j]
            \/ out'[l][j] = d
      BY <2>1, <2>3, PutFacts
    <3> QED BY <1>2, <2>1, <3>1 DEF Unsent
  <2> QED BY <1>1, <1>2, <2>2, <2>3
<1>3. ASSUME KeepaliveWrite, UNCHANGED served PROVE Unsent(c)'
  <2>1. Keepalive \in Frames /\ Keepalive # c /\ conn \in Conns
    BY NobodyAssumption DEF Frames, TypeOK, FieldTypes
  <2>2. out' = [out EXCEPT ![conn] = Append(@, Keepalive)] \/ UNCHANGED out
    BY <1>3 DEF KeepaliveWrite
  <2>3. CASE out' = [out EXCEPT ![conn] = Append(@, Keepalive)]
    <3>1. \A l \in Conns : \A j \in 1..Len(out'[l]) :
            \/ j \in 1..Len(out[l]) /\ out'[l][j] = out[l][j]
            \/ out'[l][j] = Keepalive
      BY <2>1, <2>3, PutFacts
    <3> QED BY <1>3, <2>1, <3>1 DEF Unsent
  <2> QED BY <1>1, <1>3, <2>2, <2>3
<1>4. ASSUME NEW k \in Conns, ServerRead(k) PROVE Unsent(c)'
  <2>1. /\ Head(out[k]) = out[k][1] /\ 1 \in 1..Len(out[k])
        /\ \A l \in Conns : l # k => out'[l] = out[l]
        /\ \A j \in 1..Len(out'[k]) :
             j + 1 \in 1..Len(out[k]) /\ out'[k][j] = out[k][j + 1]
        /\ \/ UNCHANGED served
           \/ served' = [served EXCEPT ![Head(out[k])] = @ + 1]
    BY <1>4, TakeFacts
  <2>2. Head(out[k]) # c
    BY <2>1 DEF Unsent
  <2>3. served'[c] = 0
    BY <2>1, <2>2 DEF Unsent, TypeOK, CallTypes
  <2>4. \A l \in Conns : \A j \in 1..Len(out'[l]) : out'[l][j] # c
    BY <2>1 DEF Unsent
  <2> QED BY <2>3, <2>4 DEF Unsent
<1> QED BY <1>1, <1>2, <1>3, <1>4, OutChanges

\* EndInv is kept by every step.
LEMMA StepKeepsEnd ==
  ASSUME IInv, RInv, [Next]_vars
  PROVE  EndInv'
<1> USE DEF IInv, RInv
<1>1. CASE UNCHANGED <<pc, outcome>>
  BY <1>1 DEF EndInv
<1>2. ASSUME NEW c \in Calls, CallerStep(c) \/ CallProgress(c) PROVE EndInv'
  <2>1. /\ pc' = [pc EXCEPT ![c] = pc'[c]]
        /\ \/ UNCHANGED outcome
                /\ (pc[c] \in {"clean", "recon", "dial"} => pc'[c] \in {"recon", "dial", "done"})
                /\ (pc[c] \in {"clean", "recon", "dial"} \/ pc[c] \in {"idle", "lock", "load", "write"})
           \/ outcome' = [outcome EXCEPT ![c] = outcome'[c]] /\ pc'[c] \in {"clean", "done"}
    BY <1>2, CallMoves
  <2> QED BY <2>1 DEF EndInv, TypeOK, CallTypes
<1> QED BY <1>1, <1>2, CallChanges

\* UnsentInv is kept by every step: a call that has not written its request,
\* or failed to, never writes it afterwards.
LEMMA StepKeepsUnsent ==
  ASSUME IInv, RInv, [Next]_vars
  PROVE  UnsentInv'
<1> USE DEF IInv, RInv
<1> SUFFICES ASSUME NEW d \in Calls,
                    \/ pc'[d] \in {"idle", "lock", "load", "write"}
                    \/ outcome'[d] \in {"connclosed", "write"}
             PROVE  Unsent(d)'
  BY DEF UnsentInv
<1>1. Unsent(d) /\ ~WriteOK(d)
  <2>1. CASE UNCHANGED <<pc, outcome>>
    <3>1. Unsent(d)
      BY <2>1 DEF UnsentInv
    <3>2. ~WriteOK(d)
      BY <2>1 DEF WriteOK, Goto, TypeOK, CallTypes
    <3> QED BY <3>1, <3>2
  <2>2. ASSUME NEW c \in Calls, CallerStep(c) \/ CallProgress(c), c # d
        PROVE  Unsent(d) /\ ~WriteOK(d)
    <3>1. pc' = [pc EXCEPT ![c] = pc'[c]]
          /\ (UNCHANGED outcome \/ outcome' = [outcome EXCEPT ![c] = outcome'[c]])
      BY <2>2, CallMoves
    <3>2. pc'[d] = pc[d] /\ outcome'[d] = outcome[d]
      BY <2>2, <3>1 DEF TypeOK, CallTypes
    <3>3. ~WriteOK(d)
      BY <3>2 DEF WriteOK, Goto, TypeOK, CallTypes
    <3> QED BY <3>2, <3>3 DEF UnsentInv
  <2>3. ASSUME CallerStep(d) \/ CallProgress(d)
        PROVE  Unsent(d) /\ ~WriteOK(d)
    <3>1. \/ pc[d] \in {"idle", "lock", "load", "write"} /\ pc'[d] # "wait"
          \/ pc[d] = "write" /\ pc'[d] = "wait" /\ UNCHANGED outcome
          \/ pc[d] \in {"clean", "recon", "dial"} /\ UNCHANGED outcome
               /\ pc'[d] \in {"recon", "dial", "done"}
          \/ pc[d] = "wait" /\ pc'[d] \in {"done", "clean"}
               /\ outcome'[d] \in Deliveries \cup {"ctx", "timeout"}
      BY <2>3, CallMoves
    <3>2. ~WriteOK(d)
      BY <3>1 DEF WriteOK, Goto, TypeOK, CallTypes, EndInv
    <3>3. Unsent(d)
      BY <3>1 DEF UnsentInv, EndInv, Deliveries
    <3> QED BY <3>2, <3>3
  <2> QED BY <2>1, <2>2, <2>3, CallChanges
<1> QED BY <1>1, StaysUnsent

\* Which steps move answers: the router's, the readers', and the closing or
\* the dialling of a connection.
LEMMA AnswerMoves ==
  ASSUME TypeOK, [Next]_vars
  PROVE  \/ \E k \in Conns : ServerRead(k) /\ UNCHANGED <<inq, turn>>
         \/ /\ UNCHANGED served
            /\ \/ \E k \in Conns : Answer(k) /\ UNCHANGED turn
               \/ \E r \in Conns : ReaderStep(r)
               \/ /\ UNCHANGED turn
                  /\ \A k \in Conns : /\ got'[k] \in {got[k], {}}
                                      /\ inq'[k] \in {inq[k], <<>>}
<1> USE DEF TypeOK, LinkTypes
<1>1. ASSUME NEW c \in Calls, CallerStep(c)
      PROVE  UNCHANGED <<served, turn, got, inq>>
  BY <1>1 DEF CallerStep, NextID, CtxEnds, GiveUp, links
<1>2. ASSUME NEW c \in Calls, CallProgress(c)
      PROVE  /\ UNCHANGED <<served, turn>>
             /\ CloseConn(conn) \/ UNCHANGED <<got, inq>>
  BY <1>2 DEF CallProgress, Register, LoadConn, WriteOK, WriteFail, Receive,
    Timeout, GiveUp, Cleanup, ReconnectClose, DialOK, DialFail, links
<1>3. CloseConn(conn) => \A k \in Conns : /\ got'[k] \in {got[k], {}}
                                          /\ inq'[k] \in {inq[k], <<>>}
  BY DEF CloseConn
<1>4. ASSUME NEW r \in Conns, ReaderStep(r) PROVE UNCHANGED served
  BY <1>4 DEF ReaderStep
<1>5. KeepaliveStep \/ Cancel \/ UNCHANGED vars => UNCHANGED <<served, turn, got, inq>>
  BY DEF KeepaliveStep, Cancel, vars, links, readers
<1>6. Close => UNCHANGED <<served, turn>> /\ CloseConn(conn)
  BY DEF Close, readers
<1>7. ASSUME NEW k \in Conns, RouterStep(k)
      PROVE  /\ UNCHANGED turn
             /\ \/ ServerRead(k) /\ UNCHANGED inq
                \/ Answer(k) /\ UNCHANGED served
                \/ /\ UNCHANGED served
                   /\ \A l \in Conns : got'[l] \in {got[l], {}} /\ inq'[l] = inq[l]
  BY <1>7 DEF RouterStep, ServerRead, Answer, Break, readers
<1> QED
  BY <1>1, <1>2, <1>3, <1>4, <1>5, <1>6, <1>7 DEF Next, Running, Finished

\* ServedInv is kept by every step: nothing comes back before the request was
\* executed.
LEMMA StepKeepsServed ==
  ASSUME IInv, RInv, [Next]_vars
  PROVE  ServedInv'
<1> USE DEF IInv, RInv
<1>1. ASSUME NEW k \in Conns, ServerRead(k), UNCHANGED <<inq, turn>>
      PROVE  ServedInv'
  <2> DEFINE f == Head(out[k])
  <2>1. /\ f = out[k][1] /\ 1 \in 1..Len(out[k])
        /\ \/ UNCHANGED <<served, got>>
           \/ /\ f \in Calls
              /\ served' = [served EXCEPT ![f] = @ + 1]
              /\ got' \in {got, [got EXCEPT ![k] = @ \cup {f}]}
    BY <1>1, TakeFacts
  <2>2. f \in Calls => served[f] = 0
    BY <2>1 DEF OnceInv
  <2> HIDE DEF f
  <2>3. CASE UNCHANGED <<served, got>>
    BY <1>1, <2>3 DEF ServedInv
  <2>4. CASE /\ f \in Calls
             /\ served' = [served EXCEPT ![f] = @ + 1]
             /\ got' \in {got, [got EXCEPT ![k] = @ \cup {f}]}
    <3>1. served'[f] = 1 /\ \A c \in Calls : served[c] = 1 => served'[c] = 1
      <4>1. served[f] = 0 /\ served \in [Calls -> Nat]
        BY <2>2, <2>4 DEF TypeOK, CallTypes
      <4> QED BY <2>4, <4>1
    <3>2. \A l \in Conns : \A c \in got'[l] : c \in got[l] \/ c = f
      BY <2>4 DEF TypeOK, LinkTypes
    <3>3. /\ \A l \in Conns : got[l] \subseteq Calls
          /\ \A l \in Conns : \A j \in 1..Len(inq[l]) : inq[l][j] \in Calls
      BY DEF TypeOK, LinkTypes
    <3> QED BY <1>1, <3>1, <3>2, <3>3 DEF ServedInv
  <2> QED BY <2>1, <2>3, <2>4
<1>2. ASSUME NEW k \in Conns, Answer(k), UNCHANGED <<served, turn>>
      PROVE  ServedInv'
  <2>1. PICK c \in got[k] : /\ got' = [got EXCEPT ![k] = @ \ {c}]
                            /\ inq' = [inq EXCEPT ![k] = Append(@, c)]
    BY <1>2 DEF Answer
  <2>2. inq[k] \in Seq(Calls) /\ c \in Calls
    BY DEF TypeOK, LinkTypes
  <2>3. \A j \in 1..Len(Append(inq[k], c)) :
          \/ Append(inq[k], c)[j] = c
          \/ j \in 1..Len(inq[k]) /\ Append(inq[k], c)[j] = inq[k][j]
    BY <2>2, AppendFacts
  <2> QED BY <1>2, <2>1, <2>3 DEF ServedInv, TypeOK, LinkTypes
<1>3. ASSUME NEW r \in Conns, ReaderStep(r) PROVE ServedInv'
  <2>1. UNCHANGED <<served, got>>
    BY <1>3 DEF ReaderStep
  <2> DEFINE k == turn[r].conn
  <2>2. \/ UNCHANGED inq
        \/ inq[k] # <<>> /\ inq' = [inq EXCEPT ![k] = Tail(@)] /\ k \in Conns
    BY <1>3 DEF ReaderStep, ReaderTop, ReaderLoad, ReadHeader, BadMagic,
      ReadPayload, ReadTornPayload, ReadFail, Lookup, Send, FailAll, TypeOK, ReadFirst
  <2>3. \A l \in Conns : \A j \in 1..Len(inq'[l]) : served[inq'[l][j]] = 1
    <3>1. CASE UNCHANGED inq
      BY <3>1 DEF ServedInv
    <3>2. CASE inq[k] # <<>> /\ inq' = [inq EXCEPT ![k] = Tail(@)] /\ k \in Conns
      <4>1. inq[k] \in Seq(Calls)
        BY <3>2 DEF TypeOK, LinkTypes
      <4>2. \A j \in 1..Len(Tail(inq[k])) :
              j + 1 \in 1..Len(inq[k]) /\ Tail(inq[k])[j] = inq[k][j + 1]
        BY <3>2, <4>1, TailFacts
      <4> QED BY <3>2, <4>2 DEF ServedInv, TypeOK, LinkTypes
    <3> QED BY <2>2, <3>1, <3>2
  <2>4. \A s \in Conns : turn'[s].frame \in Calls => served[turn'[s].frame] = 1
    <3>1. CASE ReadHeader(r)
      <4>1. k \in Conns /\ inq[k] # <<>> /\ inq[k] \in Seq(Calls)
        BY <3>1 DEF ReadHeader, TypeOK, ReadFirst, LinkTypes
      <4>2. served[Head(inq[k])] = 1
        BY <4>1, TailFacts DEF ServedInv
      <4> QED BY <3>1, <4>2 DEF ReadHeader, ServedInv, TypeOK, ReaderTypes, Turns
    <3>2. CASE ~ReadHeader(r)
      <4>1. \A s \in Conns : turn'[s].frame \in {turn[s].frame, NoCall}
        BY <1>3, <3>2 DEF ReaderStep, ReaderTop, ReaderLoad, BadMagic,
          ReadPayload, ReadTornPayload, ReadFail, Lookup, Send, FailAll,
          EndTurn, NewTurn, TypeOK, ReaderTypes, Turns, readers
      <4> QED BY <4>1, NobodyAssumption DEF ServedInv
    <3> QED BY <3>1, <3>2
  <2> QED BY <2>1, <2>3, <2>4 DEF ServedInv
<1>4. ASSUME UNCHANGED <<served, turn>>,
             \A k \in Conns : got'[k] \in {got[k], {}} /\ inq'[k] \in {inq[k], <<>>}
      PROVE  ServedInv'
  <2>1. \A k \in Conns : \A j \in 1..Len(inq'[k]) : inq'[k] = inq[k]
    BY <1>4
  <2> QED BY <1>4, <2>1 DEF ServedInv
<1> QED BY <1>1, <1>2, <1>3, <1>4, AnswerMoves

-----------------------------------------------------------------------------
(* The answers                                                             *)

\* OwnInv is kept by every step: a reader finds in demux the call whose id the
\* frame carries, for no two calls have the same id.
LEMMA StepKeepsOwn ==
  ASSUME IInv, RInv, [Next]_vars
  PROVE  OwnInv'
<1> USE DEF IInv, RInv
<1>1. ASSUME NEW r \in Conns, ReaderStep(r) PROVE OwnInv'
  <2>1. CASE Lookup(r)
    <3> DEFINE f == turn[r].frame
    <3>1. f \in Calls /\ Started(f) /\ id[f] \in IDs
      BY <2>1, BoundsAssumption DEF Lookup, TypeOK, ReadFirst, TurnInv, Started, IdInv,
        IDs, FieldTypes
    <3>2. ASSUME demux[id[f]] # NoCall PROVE demux[id[f]] = f
      <4>1. /\ demux[id[f]] \in Calls /\ id[demux[id[f]]] = id[f]
            /\ Started(demux[id[f]])
        BY <3>1, <3>2 DEF DemuxInv, TypeOK, FieldTypes
      <4> QED BY <3>1, <4>1 DEF IdInv, Started
    <3> QED
      BY <2>1, <3>2 DEF Lookup, ReaderGoto, EndTurn, OwnInv, TypeOK, ReaderTypes, Turns
  <2>2. CASE ~Lookup(r)
    <3>1. \A s \in Conns : rpc'[s] = "send" => rpc[s] = "send" /\ turn'[s] = turn[s]
      BY <1>1, <2>2 DEF ReaderStep, ReaderTop, ReaderLoad, ReadHeader, BadMagic,
        ReadPayload, ReadTornPayload, ReadFail, Send, FailAll, ReaderGoto,
        EndTurn, TypeOK, ReaderTypes, readers
    <3> QED BY <3>1 DEF OwnInv
  <2> QED BY <2>1, <2>2
<1>2. ASSUME UNCHANGED turn, \A r \in Conns : rpc'[r] = "send" => rpc[r] = "send"
      PROVE  OwnInv'
  BY <1>2 DEF OwnInv
<1>3. ASSUME NEW c \in Calls, CallProgress(c)
      PROVE  UNCHANGED turn /\ \A r \in Conns : rpc'[r] = "send" => rpc[r] = "send"
  BY <1>3 DEF CallProgress, Register, LoadConn, WriteOK, WriteFail, Receive,
    Timeout, GiveUp, Cleanup, ReconnectClose, DialOK, DialFail, ReaderGoto,
    TypeOK, ReaderTypes
<1>4. ASSUME NEW c \in Calls, CallerStep(c) PROVE UNCHANGED <<turn, rpc>>
  BY <1>4 DEF CallerStep, NextID, CtxEnds, GiveUp
<1>5. KeepaliveStep \/ Cancel \/ Close \/ UNCHANGED vars => UNCHANGED <<turn, rpc>>
  BY DEF KeepaliveStep, Cancel, Close, vars, readers
<1>6. ASSUME NEW k \in Conns, RouterStep(k) PROVE UNCHANGED <<turn, rpc>>
  BY <1>6 DEF RouterStep, readers
<1> QED
  BY <1>1, <1>2, <1>3, <1>4, <1>5, <1>6 DEF Next, Running, Finished

\* Who puts something on a channel: Register opens it, a reader sends to it
\* while it is open, failAll and Close end those demux still holds.
LEMMA ChanChanges ==
  ASSUME IInv, [Next]_vars
  PROVE  \/ UNCHANGED <<chan, from>>
         \/ \E c \in Calls : Register(c) /\ chan' = [chan EXCEPT ![c] = "open"]
                               /\ UNCHANGED from
         \/ \E r \in Conns : Send(r) /\ chan[turn[r].dst] = "open" /\ UNCHANGED outcome
         \/ /\ chan' = [c \in Calls |-> IF c \in Waiting THEN "empty" ELSE chan[c]]
            /\ \A c \in Waiting : chan[c] = "open"
            /\ UNCHANGED <<from, outcome>>
<1> USE DEF IInv, TypeOK, CallTypes
<1>1. ASSUME NEW c \in Calls, CallerStep(c) PROVE UNCHANGED <<chan, from>>
  BY <1>1 DEF CallerStep, NextID, CtxEnds, GiveUp
<1>2. ASSUME NEW c \in Calls, CallProgress(c)
      PROVE  /\ UNCHANGED from
             /\ \/ UNCHANGED chan
                \/ Register(c) /\ chan' = [chan EXCEPT ![c] = "open"]
  <2>1. UNCHANGED from
    BY <1>2 DEF CallProgress
  <2>2. CASE Register(c)
    <3>1. UNCHANGED chan \/ chan' = [chan EXCEPT ![c] = "open"]
      BY <2>2 DEF Register
    <3> QED BY <2>1, <2>2, <3>1
  <2>3. CASE ~Register(c)
    BY <1>2, <2>1, <2>3 DEF CallProgress, LoadConn, WriteOK, WriteFail, Receive,
      Timeout, GiveUp, Cleanup, ReconnectClose, DialOK, DialFail
  <2> QED BY <2>2, <2>3
<1>3. ASSUME NEW r \in Conns, ReaderStep(r)
      PROVE  /\ UNCHANGED outcome
             /\ \/ UNCHANGED <<chan, from>>
                \/ Send(r) /\ chan[turn[r].dst] = "open"
                \/ /\ chan' = [c \in Calls |-> IF c \in Waiting THEN "empty" ELSE chan[c]]
                   /\ \A c \in Waiting : chan[c] = "open"
                   /\ UNCHANGED from
  BY <1>3 DEF ReaderStep, ReaderTop, ReaderLoad, ReadHeader, BadMagic,
    ReadPayload, ReadTornPayload, ReadFail, Lookup, Send, FailAll
<1>4. KeepaliveStep \/ Cancel \/ UNCHANGED vars => UNCHANGED <<chan, from>>
  BY DEF KeepaliveStep, Cancel, vars, calls
<1>5. ASSUME Close
      PROVE  /\ chan' = [c \in Calls |-> IF c \in Waiting THEN "empty" ELSE chan[c]]
             /\ \A c \in Waiting : chan[c] = "open"
             /\ UNCHANGED <<from, outcome>>
  BY <1>5 DEF Close, DemuxInv, Waiting
<1>6. ASSUME NEW k \in Conns, RouterStep(k) PROVE UNCHANGED <<chan, from>>
  BY <1>6 DEF RouterStep, calls
<1> QED
  BY <1>1, <1>2, <1>3, <1>4, <1>5, <1>6 DEF Next, Running, Finished

\* A call that gets an outcome gets what was on its channel, or an error.
LEMMA OutcomeChanges ==
  ASSUME TypeOK, [Next]_vars, NEW c \in Calls, outcome'[c] \in Replies
  PROVE  outcome[c] \in Replies \/ chan[c] \in Replies
<1>1. CASE UNCHANGED <<pc, outcome>>
  BY <1>1
<1>2. ASSUME NEW d \in Calls, CallerStep(d) \/ CallProgress(d)
      PROVE  outcome[c] \in Replies \/ chan[c] \in Replies
  <2>1. \/ UNCHANGED outcome
        \/ /\ outcome' = [outcome EXCEPT ![d] = outcome'[d]]
           /\ outcome'[d] \in {"connclosed", "write", "ctx", "timeout", chan[d]}
    BY <1>2, CallMoves
  <2> QED BY <2>1 DEF TypeOK, CallTypes, Replies
<1> QED BY <1>1, <1>2, CallChanges

\* An execution is never taken back.
LEMMA ServedStays ==
  ASSUME IInv, RInv, [Next]_vars, NEW c \in Calls, served[c] = 1
  PROVE  served'[c] = 1
<1>1. CASE UNCHANGED served
  BY <1>1
<1>2. ASSUME NEW k \in Conns, ServerRead(k) PROVE served'[c] = 1
  <2>1. /\ Head(out[k]) = out[k][1] /\ 1 \in 1..Len(out[k])
        /\ \/ UNCHANGED served
           \/ Head(out[k]) \in Calls /\ served' = [served EXCEPT ![Head(out[k])] = @ + 1]
    BY <1>2, TakeFacts DEF IInv
  <2>2. Head(out[k]) # c
    BY <2>1 DEF RInv, OnceInv
  <2> QED BY <2>1, <2>2 DEF IInv, TypeOK, CallTypes
<1> QED BY <1>1, <1>2, OutChanges

\* AnswerInv is kept by every step.
LEMMA StepKeepsAnswer ==
  ASSUME IInv, RInv, [Next]_vars
  PROVE  AnswerInv'
<1> USE DEF IInv, RInv
<1> SUFFICES ASSUME NEW c \in Calls
             PROVE  /\ chan'[c] \in Replies => from'[c] = c /\ served'[c] = 1
                    /\ outcome'[c] \in Replies => chan'[c] \in Replies
  BY DEF AnswerInv
<1>1. \/ chan'[c] = chan[c] /\ from'[c] = from[c]
      \/ chan'[c] \notin Replies /\ outcome'[c] \notin Replies
      \/ chan'[c] \in Replies /\ from'[c] = c /\ served[c] = 1
      \/ chan'[c] \notin Replies /\ outcome'[c] = outcome[c] /\ chan[c] = "open"
  <2>1. ASSUME NEW d \in Calls, Register(d), chan' = [chan EXCEPT ![d] = "open"],
               UNCHANGED from, d = c
        PROVE  chan'[c] \notin Replies /\ outcome'[c] \notin Replies
    BY <2>1 DEF Register, EndInv, TypeOK, CallTypes, Replies
  <2>2. ASSUME NEW r \in Conns, Send(r), chan[turn[r].dst] = "open",
               UNCHANGED outcome, turn[r].dst = c
        PROVE  \/ chan'[c] \in Replies /\ from'[c] = c /\ served[c] = 1
               \/ chan'[c] \notin Replies /\ outcome'[c] = outcome[c] /\ chan[c] = "open"
    BY <2>2 DEF Send, OwnInv, ServedInv, TypeOK, CallTypes, Replies
  <2>3. ASSUME NEW r \in Conns, Send(r), chan[turn[r].dst] = "open", turn[r].dst # c
        PROVE  chan'[c] = chan[c] /\ from'[c] = from[c]
    BY <2>3 DEF Send, TypeOK, CallTypes
  <2>4. ASSUME chan' = [d \in Calls |-> IF d \in Waiting THEN "empty" ELSE chan[d]],
               \A d \in Waiting : chan[d] = "open", UNCHANGED <<from, outcome>>
        PROVE  \/ chan'[c] = chan[c] /\ from'[c] = from[c]
               \/ chan'[c] \notin Replies /\ outcome'[c] = outcome[c] /\ chan[c] = "open"
    BY <2>4 DEF Replies
  <2> QED
    BY <2>1, <2>2, <2>3, <2>4, ChanChanges DEF TypeOK, CallTypes
<1>2. outcome'[c] \in Replies => outcome[c] \in Replies \/ chan[c] \in Replies
  BY OutcomeChanges
<1> QED BY <1>1, <1>2, ServedStays DEF AnswerInv, Replies

-----------------------------------------------------------------------------
(* No call is forgotten                                                    *)

\* A reader takes a step only once it was started.
LEMMA StepKeepsReader ==
  ASSUME IInv, RInv, [Next]_vars
  PROVE  ReaderInv'
<1> USE DEF IInv, RInv
<1>1. ASSUME NEW c \in Calls, CallProgress(c) PROVE ReaderInv'
  <2>1. CASE DialOK(c)
    <3>1. nconns' = nconns + 1 /\ rpc' = [rpc EXCEPT ![nconns + 1] = "top"]
      BY <2>1 DEF DialOK, ReaderGoto
    <3>2. nconns \in Nat /\ \A r \in Conns : r \in Nat
      BY BoundsAssumption DEF TypeOK, LinkTypes, Conns
    <3> QED BY <3>1, <3>2 DEF ReaderInv, TypeOK, ReaderTypes
  <2>2. CASE ~DialOK(c)
    <3>1. UNCHANGED <<nconns, rpc>>
      BY <1>1, <2>2 DEF CallProgress, Register, LoadConn, WriteOK, WriteFail,
        Receive, Timeout, GiveUp, Cleanup, ReconnectClose, DialFail, links
    <3> QED BY <3>1 DEF ReaderInv
  <2> QED BY <2>1, <2>2
<1>2. ASSUME NEW r \in Conns, ReaderStep(r) PROVE ReaderInv'
  <2>1. rpc[r] # "off" /\ \A s \in Conns : s # r => rpc'[s] = rpc[s]
    BY <1>2 DEF ReaderStep, ReaderTop, ReaderLoad, ReadHeader, BadMagic,
      ReadPayload, ReadTornPayload, ReadFail, Lookup, Send, FailAll, ReaderGoto,
      TypeOK, ReaderTypes, readers
  <2>2. UNCHANGED nconns
    BY <1>2 DEF ReaderStep
  <2> QED BY <2>1, <2>2 DEF ReaderInv
<1>3. ASSUME NEW c \in Calls, CallerStep(c) PROVE UNCHANGED <<nconns, rpc>>
  BY <1>3 DEF CallerStep, NextID, CtxEnds, GiveUp, links
<1>4. KeepaliveStep \/ Cancel \/ Close \/ UNCHANGED vars => UNCHANGED <<nconns, rpc>>
  BY DEF KeepaliveStep, Cancel, Close, vars, readers, links
<1>5. ASSUME NEW k \in Conns, RouterStep(k) PROVE UNCHANGED <<nconns, rpc>>
  BY <1>5 DEF RouterStep, readers
<1>6. UNCHANGED <<nconns, rpc>> => ReaderInv'
  BY DEF ReaderInv
<1> QED
  BY <1>1, <1>2, <1>3, <1>4, <1>5, <1>6 DEF Next, Running, Finished

\* Somebody will wake the call: demux holds it, or a reader is about to send.
Held(c) ==
  \/ c \in Waiting
  \/ \E r \in Conns : rpc[r] = "send" /\ turn[r].dst = c

\* What a call does keeps every other call held, and leaves demux without its
\* own entry only when it gives up.
LEMMA CallKeepsHeld ==
  ASSUME IInv, RInv, NEW c \in Calls, CallProgress(c), NEW d \in Calls, Held(d)
  PROVE  Held(d)' \/ (d = c /\ Cleanup(c))
<1> USE DEF IInv, RInv, TypeOK
<1>1. CASE Register(c)
  <2>1. id[c] \in IDs /\ pc[c] = "lock"
    BY <1>1, BoundsAssumption DEF Register, IdInv, IDs, FieldTypes
  <2>2. demux[id[c]] = NoCall
    <3>1. SUFFICES ASSUME demux[id[c]] # NoCall PROVE FALSE
      OBVIOUS
    <3>2. demux[id[c]] \in Calls /\ id[demux[id[c]]] = id[c] /\ Started(demux[id[c]])
      BY <2>1, <3>1 DEF DemuxInv, FieldTypes
    <3> QED BY <2>1, <3>2 DEF IdInv, Started
  <2>3. UNCHANGED demux \/ demux' = [demux EXCEPT ![id[c]] = c]
    BY <1>1 DEF Register
  <2>4. d \in Waiting => d \in Waiting'
    BY <2>1, <2>2, <2>3 DEF Waiting, FieldTypes
  <2>5. UNCHANGED <<rpc, turn>>
    BY <1>1 DEF CallProgress, Register
  <2> QED BY <2>4, <2>5 DEF Held
<1>2. CASE Cleanup(c)
  <2>1. demux' = [demux EXCEPT ![id[c]] = NoCall] /\ UNCHANGED <<rpc, turn>>
    BY <1>2 DEF CallProgress, Cleanup
  <2>2. ASSUME d \in Waiting, d # c PROVE d \in Waiting'
    <3>1. PICK i \in IDs : demux[i] = d
      BY <2>2 DEF Waiting
    <3>2. id[d] = i /\ Started(d)
      BY <3>1, NobodyAssumption DEF DemuxInv
    <3>3. i # id[c]
      BY <2>2, <3>2, <1>2 DEF Cleanup, IdInv, Started
    <3>4. demux'[i] = d /\ d # NoCall
      BY <2>1, <3>1, <3>3, NobodyAssumption DEF FieldTypes
    <3> QED BY <3>4 DEF Waiting
  <2> QED BY <1>2, <2>1, <2>2 DEF Held
<1>3. CASE DialOK(c)
  <2>1. UNCHANGED <<demux, turn>> /\ rpc' = [rpc EXCEPT ![nconns + 1] = "top"]
        /\ nconns + 1 \in Conns
    BY <1>3 DEF CallProgress, DialOK, ReaderGoto
  <2>2. rpc[nconns + 1] = "off"
    BY <2>1, BoundsAssumption DEF ReaderInv, LinkTypes, Conns
  <2>3. \A r \in Conns : rpc[r] = "send" => rpc'[r] = "send"
    BY <2>1, <2>2 DEF ReaderTypes
  <2> QED BY <2>1, <2>3 DEF Held, Waiting
<1>4. CASE ~(Register(c) \/ Cleanup(c) \/ DialOK(c))
  <2>1. UNCHANGED <<demux, rpc, turn>>
    BY <1>4 DEF CallProgress, LoadConn, WriteOK, WriteFail, Receive, Timeout,
      GiveUp, ReconnectClose, DialFail
  <2> QED BY <2>1 DEF Held, Waiting
<1> QED BY <1>1, <1>2, <1>3, <1>4

\* What a reader does keeps every call held whose channel is still open.
LEMMA ReaderKeepsHeld ==
  ASSUME IInv, RInv, NEW r \in Conns, ReaderStep(r), NEW d \in Calls, Held(d),
         chan'[d] = "open"
  PROVE  Held(d)'
<1> USE DEF IInv, RInv, TypeOK
<1>1. CASE Lookup(r)
  <2> DEFINE i == id[turn[r].frame]
  <2>1. i \in IDs
    BY <1>1, BoundsAssumption DEF Lookup, ReadFirst, TurnInv, Started, IdInv,
      IDs, FieldTypes
  <2>2. demux' = [demux EXCEPT ![i] = NoCall]
        /\ \/ demux[i] = NoCall
           \/ rpc' = [rpc EXCEPT ![r] = "send"]
                /\ turn' = [turn EXCEPT ![r].dst = demux[i]]
    BY <1>1 DEF Lookup, ReaderGoto
  <2>3. \A s \in Conns : rpc[s] = "send" => rpc'[s] = "send" /\ turn'[s] = turn[s]
    BY <1>1 DEF Lookup, ReaderGoto, EndTurn, ReaderTypes
  <2>4. ASSUME d \in Waiting PROVE Held(d)'
    <3>1. PICK j \in IDs : demux[j] = d
      BY <2>4 DEF Waiting
    <3>2. CASE j = i
      <4>1. rpc'[r] = "send" /\ turn'[r].dst = d
        BY <2>2, <3>1, <3>2, NobodyAssumption DEF ReaderTypes, Turns
      <4> QED BY <4>1 DEF Held
    <3>3. CASE j # i
      <4>1. demux'[j] = d /\ d # NoCall
        BY <2>2, <3>1, <3>3, NobodyAssumption DEF FieldTypes
      <4> QED BY <4>1 DEF Held, Waiting
    <3> QED BY <3>2, <3>3
  <2> QED BY <2>3, <2>4 DEF Held
<1>2. CASE Send(r)
  <2>1. CASE chan[turn[r].dst] = "open"
    <3>1. turn[r].dst # d
      BY <1>2, <2>1 DEF Send, CallTypes
    <3>2. UNCHANGED demux /\ \A s \in Conns : s # r => rpc'[s] = rpc[s] /\ turn'[s] = turn[s]
      BY <1>2, <2>1 DEF Send, ReaderGoto, EndTurn, ReaderTypes
    <3> QED BY <3>1, <3>2 DEF Held, Waiting
  <2>2. CASE chan[turn[r].dst] # "open"
    BY <1>2, <2>2 DEF Send, readers, Held, Waiting
  <2> QED BY <2>1, <2>2
<1>3. CASE FailAll(r)
  <2>1. \/ UNCHANGED <<demux, rpc, turn>>
        \/ /\ chan'[d] = IF d \in Waiting THEN "empty" ELSE chan[d]
           /\ rpc[r] = "fail" /\ rpc' = [rpc EXCEPT ![r] = "done"] /\ UNCHANGED turn
    BY <1>3 DEF FailAll, ReaderGoto
  <2>2. CASE UNCHANGED <<demux, rpc, turn>>
    BY <2>2 DEF Held, Waiting
  <2>3. CASE /\ chan'[d] = IF d \in Waiting THEN "empty" ELSE chan[d]
             /\ rpc[r] = "fail" /\ rpc' = [rpc EXCEPT ![r] = "done"] /\ UNCHANGED turn
    <3>1. d \notin Waiting
      BY <2>3
    <3> QED BY <2>3, <3>1 DEF Held, ReaderTypes
  <2> QED BY <2>1, <2>2, <2>3
<1>4. CASE ~(Lookup(r) \/ Send(r) \/ FailAll(r))
  <2>1. /\ UNCHANGED demux
        /\ \A s \in Conns : rpc[s] = "send" => rpc'[s] = "send" /\ turn'[s] = turn[s]
    BY <1>4 DEF ReaderStep, ReaderTop, ReaderLoad, ReadHeader, BadMagic,
      ReadPayload, ReadTornPayload, ReadFail, ReaderGoto, EndTurn, ReaderTypes
  <2> QED BY <2>1 DEF Held, Waiting
<1> QED BY <1>1, <1>2, <1>3, <1>4

\* NoLostCall is kept by every step.
LEMMA StepKeepsNoLost ==
  ASSUME IInv, RInv, [Next]_vars
  PROVE  NoLostCall'
<1> USE DEF IInv, RInv
<1> SUFFICES ASSUME NEW d \in Calls, pc'[d] \in {"load", "write", "wait"},
                    chan'[d] = "open"
             PROVE  Held(d)'
  BY DEF NoLostCall, Held
<1>1. pc[d] \in {"load", "write", "wait"} /\ chan[d] = "open" => Held(d)
  BY DEF NoLostCall, Held
<1>2. ASSUME UNCHANGED <<demux, rpc, turn>>, chan[d] = "open",
             pc[d] \in {"load", "write", "wait"}
      PROVE  Held(d)'
  BY <1>1, <1>2 DEF Held, Waiting
<1>3. ASSUME NEW c \in Calls, CallerStep(c) PROVE Held(d)'
  BY <1>2, <1>3 DEF CallerStep, NextID, CtxEnds, GiveUp, Goto, TypeOK, CallTypes
<1>4. ASSUME NEW c \in Calls, CallProgress(c) PROVE Held(d)'
  <2>1. CASE Register(c) /\ c = d
    <3>1. demux' = [demux EXCEPT ![id[c]] = c] /\ id[c] \in IDs
      BY <2>1, BoundsAssumption DEF Register, Goto, IdInv, IDs, TypeOK, FieldTypes, CallTypes
    <3>2. d \in Waiting'
      BY <2>1, <3>1, NobodyAssumption DEF Waiting, TypeOK, FieldTypes
    <3> QED BY <3>2 DEF Held
  <2>2. CASE ~(Register(c) /\ c = d)
    <3>1. chan[d] = "open"
      BY <1>4, <2>2 DEF CallProgress, Register, LoadConn, WriteOK, WriteFail,
        Receive, Timeout, GiveUp, Cleanup, ReconnectClose, DialOK, DialFail,
        TypeOK, CallTypes
    <3>2. pc[d] \in {"load", "write", "wait"} /\ ~(d = c /\ Cleanup(c))
      BY <1>4, <2>2 DEF CallProgress, Register, LoadConn, WriteOK, WriteFail,
        Receive, Timeout, GiveUp, Cleanup, ReconnectClose, DialOK, DialFail,
        Goto, TypeOK, CallTypes
    <3> QED BY <1>1, <1>4, <3>1, <3>2, CallKeepsHeld
  <2> QED BY <2>1, <2>2
<1>5. ASSUME NEW r \in Conns, ReaderStep(r) PROVE Held(d)'
  <2>1. UNCHANGED pc
    BY <1>5 DEF ReaderStep
  <2>2. chan[d] = "open"
    BY <1>5 DEF ReaderStep, ReaderTop, ReaderLoad, ReadHeader, BadMagic,
      ReadPayload, ReadTornPayload, ReadFail, Lookup, Send, FailAll, TypeOK, CallTypes
  <2> QED BY <1>1, <1>5, <2>1, <2>2, ReaderKeepsHeld
<1>6. ASSUME KeepaliveStep \/ Cancel \/ UNCHANGED vars PROVE Held(d)'
  BY <1>2, <1>6 DEF KeepaliveStep, Cancel, vars, calls, fields, readers
<1>7. ASSUME NEW k \in Conns, RouterStep(k) PROVE Held(d)'
  BY <1>2, <1>7 DEF RouterStep, calls, fields, readers
<1>8. ASSUME Close PROVE Held(d)'
  <2>1. /\ UNCHANGED <<pc, rpc, turn>> /\ d \notin Waiting /\ chan[d] = "open"
    BY <1>8 DEF Close, readers
  <2> QED BY <1>1, <2>1 DEF Held
<1> QED
  BY <1>3, <1>4, <1>5, <1>6, <1>7, <1>8 DEF Next, Running, Finished

-----------------------------------------------------------------------------
(* The theorems                                                            *)

\* The initial state satisfies RInv.
LEMMA InitRInv == Init => RInv
<1> SUFFICES ASSUME Init PROVE RInv
  OBVIOUS
<1> USE NobodyAssumption, BoundsAssumption DEF Init
<1>1. OnceInv /\ EndInv
  BY DEF OnceInv, EndInv
<1>2. UnsentInv
  BY DEF UnsentInv, Unsent
<1>3. ServedInv /\ OwnInv
  BY DEF ServedInv, OwnInv, NewTurn
<1>4. AnswerInv /\ NoLostCall
  BY DEF AnswerInv, Replies, NoLostCall
<1>5. ReaderInv
  BY DEF ReaderInv, Conns
<1> QED BY <1>1, <1>2, <1>3, <1>4, <1>5 DEF RInv

\* RInv is an inductive invariant, relative to IInv.
THEOREM RequestsFollowed == Spec => []RInv
<1>1. IInv /\ RInv /\ [Next]_vars => RInv'
  BY StepKeepsOnce, StepKeepsEnd, StepKeepsUnsent, StepKeepsServed, StepKeepsOwn,
    StepKeepsAnswer, StepKeepsReader, StepKeepsNoLost DEF RInv
<1> QED BY <1>1, InitRInv, Inductive, PTL DEF Spec

\* An answer that Execute returns, damaged or not, is the answer to its own
\* request, which the router executed once.
THEOREM AnswersNotCrossed == Spec => []AnswerIsOwn
<1>1. RInv => AnswerIsOwn
  BY DEF RInv, AnswerInv, AnswerIsOwn
<1> QED BY <1>1, RequestsFollowed, PTL

\* No wakeup is lost: a call whose channel is open is held by demux or by a
\* reader about to send.
THEOREM NoCallForgotten == Spec => []NoLostCall
<1>1. RInv => NoLostCall
  BY DEF RInv
<1> QED BY <1>1, RequestsFollowed, PTL

\* A read of the router is a run of the request, or a stutter on a keepalive.
LEMMA RunRefines ==
  ASSUME IInv, RInv, NEW k \in Conns, ServerRead(k), UNCHANGED <<pc, outcome>>
  PROVE  [Abs!Next]_(Abs!vars)
<1> DEFINE f == Head(out[k])
<1>1. /\ f = out[k][1] /\ 1 \in 1..Len(out[k])
      /\ \/ UNCHANGED served
         \/ f \in Calls /\ served' = [served EXCEPT ![f] = @ + 1]
  BY TakeFacts DEF IInv
<1> HIDE DEF f
<1>2. AbsStatus' = AbsStatus
  BY DEF AbsStatus
<1>3. CASE UNCHANGED served
  BY <1>2, <1>3 DEF Abs!vars
<1>4. CASE f \in Calls /\ served' = [served EXCEPT ![f] = @ + 1]
  <2>1. served[f] = 0 /\ served' = [served EXCEPT ![f] = 1]
    <3>1. served[f] = 0
      BY <1>1, <1>4 DEF RInv, OnceInv
    <3> QED BY <1>4, <3>1
  <2>2. ~Unsent(f)
    BY <1>1 DEF Unsent
  <2>3. AbsStatus[f] \notin {"idle", "refused"}
    BY <1>4, <2>2 DEF AbsStatus, RInv, UnsentInv
  <2>4. Abs!Run(f)
    BY <1>2, <2>1, <2>3 DEF Abs!Run
  <2> QED BY <1>4, <2>4 DEF Abs!Next
<1> QED BY <1>1, <1>3, <1>4

\* A step of a call is its invocation, its return, or a stutter.
LEMMA CallRefines ==
  ASSUME IInv, RInv, [Next]_vars, NEW c \in Calls, CallerStep(c) \/ CallProgress(c)
  PROVE  [Abs!Next]_(Abs!vars)
<1>1. /\ pc' = [pc EXCEPT ![c] = pc'[c]] /\ UNCHANGED served
      /\ UNCHANGED outcome \/ outcome' = [outcome EXCEPT ![c] = outcome'[c]]
      /\ \/ pc[c] = "idle" /\ pc'[c] = "lock"
         \/ pc[c] \notin {"idle", "done"} /\ pc'[c] # "idle"
  BY CallMoves DEF IInv
<1>2. AbsStatus' = [AbsStatus EXCEPT ![c] = AbsStatus'[c]]
  BY <1>1 DEF AbsStatus, IInv, TypeOK, CallTypes
<1>3. CASE pc[c] = "idle" /\ pc'[c] = "lock"
  <2>1. AbsStatus[c] = "idle" /\ AbsStatus'[c] = "pending"
    BY <1>3 DEF AbsStatus
  <2>2. Abs!Invoke(c)
    BY <1>1, <1>2, <2>1 DEF Abs!Invoke
  <2> QED BY <2>2 DEF Abs!Next
<1>4. CASE pc[c] \notin {"idle", "done"} /\ pc'[c] \notin {"idle", "done"}
  <2>1. AbsStatus[c] = "pending" /\ AbsStatus'[c] = "pending"
    BY <1>4 DEF AbsStatus
  <2>2. AbsStatus' = AbsStatus
    BY <1>2, <2>1 DEF AbsStatus
  <2> QED BY <1>1, <2>2 DEF Abs!vars
<1>5. CASE pc[c] \notin {"idle", "done"} /\ pc'[c] = "done"
  <2> DEFINE how == AbsStatus'[c]
  <2>1. AbsStatus[c] = "pending"
    BY <1>5 DEF AbsStatus
  <2>2. how \in Abs!Results
    BY <1>5 DEF AbsStatus, Abs!Results
  <2>3. ASSUME how \in {"answered", "damaged"} PROVE served[c] = 1
    <3>1. outcome'[c] \in Replies
      BY <1>5, <2>3 DEF AbsStatus, Replies
    <3> QED BY <1>1, <3>1, StepKeepsAnswer DEF AnswerInv
  <2>4. ASSUME how = "refused" PROVE served[c] = 0
    <3>1. outcome'[c] \in {"connclosed", "write"}
      BY <1>5, <2>4 DEF AbsStatus
    <3> QED BY <1>1, <3>1, StepKeepsUnsent DEF UnsentInv, Unsent
  <2> HIDE DEF how
  <2>5. Abs!Return(c, how)
    BY <1>1, <1>2, <2>1, <2>3, <2>4 DEF Abs!Return, how
  <2> QED BY <2>2, <2>5 DEF Abs!Next
<1> QED BY <1>1, <1>3, <1>4, <1>5

\* The handler implements Rpc: its initial states are initial states of Rpc,
\* and each of its steps is a step of Rpc or changes nothing Rpc speaks of.
THEOREM HandlerImplementsRpc == Spec => RefinesRpc
<1>1. Init => Abs!Init
  BY DEF Init, Abs!Init, AbsStatus
<1>2. IInv /\ RInv /\ [Next]_vars => [Abs!Next]_(Abs!vars)
  <2> SUFFICES ASSUME IInv, RInv, [Next]_vars PROVE [Abs!Next]_(Abs!vars)
    OBVIOUS
  <2>1. CASE UNCHANGED <<pc, outcome>>
    <3>1. CASE UNCHANGED served
      BY <2>1, <3>1 DEF AbsStatus, Abs!vars
    <3>2. ASSUME NEW k \in Conns, ServerRead(k) PROVE [Abs!Next]_(Abs!vars)
      BY <2>1, <3>2, RunRefines
    <3> QED BY <3>1, <3>2, OutChanges
  <2>2. ASSUME NEW c \in Calls, CallerStep(c) \/ CallProgress(c)
        PROVE  [Abs!Next]_(Abs!vars)
    BY <2>2, CallRefines
  <2> QED BY <2>1, <2>2, CallChanges
<1> QED
  BY <1>1, <1>2, Inductive, RequestsFollowed, PTL DEF Spec, RefinesRpc, Abs!Spec
=============================================================================
