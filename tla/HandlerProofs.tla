---------------------------- MODULE HandlerProofs ----------------------------
(***************************************************************************)
(* The invariants of HandlerProperties, proved for any number of calls,    *)
(* connections and frames in flight, and for both modes.                   *)
(***************************************************************************)
EXTENDS HandlerProperties, TLAPS

\* The current connection is the last one dialled; all others were closed, and
\* so is the current one while reconnect dials the next.
LinkInv ==
  /\ conn = nconns
  /\ \A k \in Conns : k < nconns => cstate[k] = "closed"
  /\ \A c \in Calls : pc[c] = "dial" => cstate[conn] = "closed"

\* Who holds the lock from one step to the next.
LockInv ==
  /\ \A c \in Calls : mu = c <=> pc[c] = "dial"
  /\ mu = Keepalive <=> kpc = "write"

\* Every call that has started has an id of its own.
IdInv ==
  /\ nextID <= LastID
  /\ \A c \in Calls : pc[c] # "idle" => id[c] \in 1..nextID
  /\ \A c, d \in Calls : pc[c] # "idle" /\ pc[d] # "idle" /\ id[c] = id[d] => c = d

\* What travels is a request that was written, or the answer to one.
Started(c) == pc[c] \notin {"idle", "lock"}
OutInv == \A k \in Conns : \A j \in 1..Len(out[k]) :
            out[k][j] \in Calls => Started(out[k][j])
GotInv == \A k \in Conns : \A c \in got[k] : Started(c)
InqInv == \A k \in Conns : \A j \in 1..Len(inq[k]) : Started(inq[k][j])
TurnInv == \A r \in Conns : turn[r].frame \in Calls => Started(turn[r].frame)

\* demux holds calls under their own ids; until Close, calls still in Execute
\* with an open channel.
DemuxInv ==
  \A i \in IDs : demux[i] # NoCall =>
    /\ id[demux[i]] = i
    /\ Started(demux[i])
    /\ ~closed => /\ pc[demux[i]] \in {"load", "write", "wait", "clean"}
                  /\ chan[demux[i]] = "open"

\* A reader about to send has taken the call out of demux, and it alone.
SendInv ==
  /\ \A r \in Conns : rpc[r] = "send" =>
       /\ Started(turn[r].dst)
       /\ \A i \in IDs : demux[i] # turn[r].dst
       /\ ~closed => chan[turn[r].dst] = "open"
  /\ \A r, s \in Conns : rpc[r] = "send" /\ rpc[s] = "send"
                           /\ turn[r].dst = turn[s].dst => r = s

IInv ==
  /\ TypeOK
  /\ LinkInv
  /\ LockInv
  /\ IdInv
  /\ OutInv /\ GotInv /\ InqInv /\ TurnInv
  /\ DemuxInv
  /\ SendInv
  /\ PanicOnlyAfterClose

\* The type and the members of a sequence after Append.
LEMMA AppendFacts ==
  ASSUME NEW S, NEW s \in Seq(S), NEW e \in S
  PROVE  /\ Append(s, e) \in Seq(S)
         /\ \A j \in 1..Len(Append(s, e)) :
              Append(s, e)[j] = e \/ (j \in 1..Len(s) /\ Append(s, e)[j] = s[j])
OBVIOUS

\* Every member of the tail of a sequence was in the sequence.
LEMMA TailFacts ==
  ASSUME NEW S, NEW s \in Seq(S), s # <<>>
  PROVE  /\ Tail(s) \in Seq(S)
         /\ Head(s) = s[1] /\ Head(s) \in S /\ 1 \in 1..Len(s)
         /\ \A j \in 1..Len(Tail(s)) : j + 1 \in 1..Len(s) /\ Tail(s)[j] = s[j + 1]
OBVIOUS

\* While nothing travels and no call forgets that it started, what is on its
\* way still belongs to calls that have started.
LEMMA NothingMoves ==
  ASSUME LinkTypes, OutInv, GotInv, InqInv, TurnInv,
         UNCHANGED <<out, got, inq, turn>>,
         \A d \in Calls : Started(d) => Started(d)'
  PROVE  (OutInv /\ GotInv /\ InqInv /\ TurnInv)'
<1>1. OutInv'
  BY DEF OutInv
<1>2. GotInv'
  BY DEF GotInv, LinkTypes
<1>3. InqInv'
  <2>1. \A k \in Conns : \A j \in 1..Len(inq[k]) : inq[k][j] \in Calls
    BY DEF LinkTypes
  <2> QED BY <2>1 DEF InqInv
<1>4. TurnInv'
  BY DEF TurnInv
<1> QED BY <1>1, <1>2, <1>3, <1>4

\* What a caller decides, to start a call or to end its context, keeps IInv.
LEMMA CallerKeepsInv ==
  ASSUME IInv, NEW c \in Calls, CallerStep(c)
  PROVE  IInv'
<1> USE DEF IInv, TypeOK
<1>1. CASE NextID(c)
  <2>1. (ReaderTypes /\ LinkTypes /\ PanicOnlyAfterClose)'
    BY <1>1 DEF CallerStep, NextID, Goto, ReaderTypes, LinkTypes,
      PanicOnlyAfterClose, fields, calls, readers, links
  <2>2. \A d \in Calls : Started(d) => Started(d)'
    BY <1>1 DEF Started, CallTypes, CallerStep, NextID, Goto
  <2>3. (OutInv /\ GotInv /\ InqInv /\ TurnInv)'
    <3>1. UNCHANGED <<out, got, inq, turn>>
      BY <1>1 DEF CallerStep, NextID, Goto, links, readers
    <3> QED BY <2>2, <3>1, NothingMoves
  <2>4. CallTypes'
    BY <1>1 DEF CallTypes, FieldTypes, Deliveries, Errors, CallerStep, NextID,
      Goto, links, readers, fields, calls
  <2>5. FieldTypes'
    BY <1>1, BoundsAssumption, NobodyAssumption DEF FieldTypes, Frames, IDs,
      CallerStep, NextID, Goto, links, readers, fields, calls
  <2>6. ReadFirst'
    BY <1>1 DEF ReadFirst, CallTypes, FieldTypes, ReaderTypes, LinkTypes,
      CallerStep, NextID, Goto, links, readers, fields, calls
  <2>7. LinkInv'
    BY <1>1, BoundsAssumption, NobodyAssumption DEF LinkInv, LockInv,
      CallTypes, LinkTypes, FieldTypes, Conns, CallerStep, NextID, Goto,
      links, readers, fields, calls
  <2>8. LockInv'
    BY <1>1, BoundsAssumption, NobodyAssumption DEF LockInv, CallTypes,
      FieldTypes, Frames, CallerStep, NextID, Goto, links, readers, fields,
      calls
  <2>9. IdInv'
    BY <1>1, BoundsAssumption, NobodyAssumption DEF IdInv, CallTypes,
      FieldTypes, CallerStep, NextID, Goto, links, readers, fields, calls
  <2>10. DemuxInv'
    BY <1>1, BoundsAssumption, NobodyAssumption DEF Started, DemuxInv, IdInv,
      CallTypes, FieldTypes, SendInv, ReadFirst, IDs, CallerStep, NextID,
      Goto, links, readers, fields, calls
  <2>11. SendInv'
    BY <1>1 DEF Started, SendInv, DemuxInv, CallTypes, FieldTypes,
      ReaderTypes, ReadFirst, IdInv, IDs, CallerStep, NextID, Goto, links,
      readers, fields, calls
  <2> QED BY <2>1, <2>3, <2>4, <2>5, <2>6, <2>7, <2>8, <2>9, <2>10, <2>11
<1>2. CASE CtxEnds(c)
  <2>1. (FieldTypes /\ ReaderTypes /\ LinkTypes /\ PanicOnlyAfterClose)'
    BY <1>2 DEF CallerStep, CtxEnds, GiveUp, Goto, FieldTypes, ReaderTypes,
      LinkTypes, PanicOnlyAfterClose, fields, calls, readers, links
  <2>2. \A d \in Calls : Started(d) => Started(d)'
    BY <1>2 DEF Started, CallTypes, CallerStep, CtxEnds, GiveUp, Goto
  <2>3. (OutInv /\ GotInv /\ InqInv /\ TurnInv)'
    <3>1. UNCHANGED <<out, got, inq, turn>>
      BY <1>2 DEF CallerStep, CtxEnds, GiveUp, Goto, links, readers
    <3> QED BY <2>2, <3>1, NothingMoves
  <2>4. CallTypes'
    BY <1>2 DEF CallTypes, FieldTypes, Deliveries, Errors, CallerStep,
      CtxEnds, GiveUp, Goto, links, readers, fields, calls
  <2>5. ReadFirst'
    BY <1>2 DEF ReadFirst, CallTypes, FieldTypes, ReaderTypes, LinkTypes,
      CallerStep, CtxEnds, GiveUp, Goto, links, readers, fields, calls
  <2>6. LinkInv'
    BY <1>2, BoundsAssumption, NobodyAssumption DEF LinkInv, LockInv,
      CallTypes, LinkTypes, FieldTypes, Conns, CallerStep, CtxEnds, GiveUp,
      Goto, links, readers, fields, calls
  <2>7. LockInv'
    BY <1>2, BoundsAssumption, NobodyAssumption DEF LockInv, CallTypes,
      FieldTypes, Frames, CallerStep, CtxEnds, GiveUp, Goto, links, readers,
      fields, calls
  <2>8. IdInv'
    BY <1>2, BoundsAssumption, NobodyAssumption DEF IdInv, CallTypes,
      FieldTypes, CallerStep, CtxEnds, GiveUp, Goto, links, readers, fields,
      calls
  <2>9. DemuxInv'
    BY <1>2, BoundsAssumption, NobodyAssumption DEF Started, DemuxInv, IdInv,
      CallTypes, FieldTypes, SendInv, ReadFirst, IDs, CallerStep, CtxEnds,
      GiveUp, Goto, links, readers, fields, calls
  <2>10. SendInv'
    BY <1>2 DEF Started, SendInv, DemuxInv, CallTypes, FieldTypes,
      ReaderTypes, ReadFirst, IdInv, IDs, CallerStep, CtxEnds, GiveUp, Goto,
      links, readers, fields, calls
  <2> QED BY <2>1, <2>3, <2>4, <2>5, <2>6, <2>7, <2>8, <2>9, <2>10
<1> QED BY <1>1, <1>2 DEF CallerStep

\* Every step a call takes inside Execute, cleanup and reconnect keeps IInv.
LEMMA CallKeepsInv ==
  ASSUME IInv, NEW c \in Calls, CallProgress(c)
  PROVE  IInv'
<1> USE DEF IInv, TypeOK
<1>1. CASE Register(c)
  <2>1. (ReaderTypes /\ LinkTypes /\ PanicOnlyAfterClose)'
    BY <1>1 DEF CallProgress, Register, Goto, ReaderTypes, LinkTypes,
      PanicOnlyAfterClose, fields, calls, readers, links
  <2>2. \A d \in Calls : Started(d) => Started(d)'
    BY <1>1 DEF Started, CallTypes, CallProgress, Register, Goto
  <2>3. (OutInv /\ GotInv /\ InqInv /\ TurnInv)'
    <3>1. UNCHANGED <<out, got, inq, turn>>
      BY <1>1 DEF CallProgress, Register, Goto, links, readers
    <3> QED BY <2>2, <3>1, NothingMoves
  <2>4. CallTypes'
    BY <1>1 DEF CallTypes, FieldTypes, Deliveries, Errors, CallProgress,
      Register, Goto, links, readers, fields, calls
  <2>5. FieldTypes'
    BY <1>1, BoundsAssumption, NobodyAssumption DEF FieldTypes, Frames, IDs,
      CallProgress, Register, Goto, links, readers, fields, calls
  <2>6. ReadFirst'
    BY <1>1 DEF ReadFirst, CallTypes, FieldTypes, ReaderTypes, LinkTypes,
      CallProgress, Register, Goto, links, readers, fields, calls
  <2>7. LinkInv'
    BY <1>1, BoundsAssumption, NobodyAssumption DEF LinkInv, LockInv,
      CallTypes, LinkTypes, FieldTypes, Conns, CallProgress, Register, Goto,
      links, readers, fields, calls
  <2>8. LockInv'
    BY <1>1, BoundsAssumption, NobodyAssumption DEF LockInv, CallTypes,
      FieldTypes, Frames, CallProgress, Register, Goto, links, readers,
      fields, calls
  <2>9. IdInv'
    BY <1>1, BoundsAssumption, NobodyAssumption DEF IdInv, CallTypes,
      FieldTypes, CallProgress, Register, Goto, links, readers, fields, calls
  <2>10. DemuxInv'
    <3>1. id[c] \in IDs
      BY <1>1, BoundsAssumption DEF IdInv, IDs, FieldTypes, Register
    <3>2. pc[c] = "lock" /\ ~Started(c)
      BY <1>1 DEF Register, Started
    <3>3. CASE closed
      BY <1>1, <3>3, <2>2 DEF DemuxInv, CallTypes, FieldTypes, CallProgress, Register
    <3>4. CASE ~closed
      <4>1. /\ demux' = [demux EXCEPT ![id[c]] = c] /\ chan' = [chan EXCEPT ![c] = "open"]
            /\ pc' = [pc EXCEPT ![c] = "load"] /\ UNCHANGED <<id, closed>>
        BY <1>1, <3>4 DEF Register, CallProgress, Goto
      <4>2. SUFFICES ASSUME NEW i \in IDs, demux'[i] # NoCall
                     PROVE  /\ id'[demux'[i]] = i /\ pc'[demux'[i]] \notin {"idle", "lock"}
                            /\ pc'[demux'[i]] \in {"load", "write", "wait", "clean"}
                            /\ chan'[demux'[i]] = "open"
        BY DEF DemuxInv, Started
      <4>3. CASE i = id[c]
        BY <4>1, <4>3, <3>1 DEF CallTypes, FieldTypes, Started
      <4>4. CASE i # id[c]
        <5>1. demux'[i] = demux[i] /\ demux[i] \in Calls
          BY <4>1, <4>2, <4>4 DEF FieldTypes
        <5>2. demux[i] # c
          BY <5>1, <4>2, <3>2 DEF DemuxInv
        <5> QED
          BY <5>1, <5>2, <4>1, <4>2, <3>4 DEF DemuxInv, Started, CallTypes
      <4> QED BY <4>3, <4>4
    <3> QED BY <3>3, <3>4
  <2>11. SendInv'
    <3>1. id[c] \in IDs
      BY <1>1, BoundsAssumption DEF IdInv, IDs, FieldTypes, Register
    <3>2. pc[c] = "lock" /\ ~Started(c)
      BY <1>1 DEF Register, Started
    <3>3. ASSUME NEW r \in Conns, rpc[r] = "send"
          PROVE  turn[r].dst \in Calls \ {c}
      BY <3>2, <3>3 DEF SendInv, ReadFirst
    <3>4. /\ \A d \in Calls \ {c} : chan'[d] = chan[d] /\ (Started(d) => Started(d)')
          /\ \A i \in IDs : demux'[i] = demux[i] \/ demux'[i] = c
          /\ UNCHANGED <<rpc, turn, closed>>
      BY <1>1, <2>2 DEF Register, CallProgress, CallTypes, FieldTypes
    <3> QED
      BY <3>3, <3>4 DEF SendInv
  <2> QED BY <2>1, <2>3, <2>4, <2>5, <2>6, <2>7, <2>8, <2>9, <2>10, <2>11
<1>2. CASE LoadConn(c)
  <2>1. (FieldTypes /\ ReaderTypes /\ LinkTypes /\ PanicOnlyAfterClose)'
    BY <1>2 DEF CallProgress, LoadConn, Goto, FieldTypes, ReaderTypes,
      LinkTypes, PanicOnlyAfterClose, fields, calls, readers, links
  <2>2. \A d \in Calls : Started(d) => Started(d)'
    BY <1>2 DEF Started, CallTypes, CallProgress, LoadConn, Goto
  <2>3. (OutInv /\ GotInv /\ InqInv /\ TurnInv)'
    <3>1. UNCHANGED <<out, got, inq, turn>>
      BY <1>2 DEF CallProgress, LoadConn, Goto, links, readers
    <3> QED BY <2>2, <3>1, NothingMoves
  <2>4. CallTypes'
    BY <1>2 DEF CallTypes, FieldTypes, Deliveries, Errors, CallProgress,
      LoadConn, Goto, links, readers, fields, calls
  <2>5. ReadFirst'
    BY <1>2 DEF ReadFirst, CallTypes, FieldTypes, ReaderTypes, LinkTypes,
      CallProgress, LoadConn, Goto, links, readers, fields, calls
  <2>6. LinkInv'
    BY <1>2, BoundsAssumption, NobodyAssumption DEF LinkInv, LockInv,
      CallTypes, LinkTypes, FieldTypes, Conns, CallProgress, LoadConn, Goto,
      links, readers, fields, calls
  <2>7. LockInv'
    BY <1>2, BoundsAssumption, NobodyAssumption DEF LockInv, CallTypes,
      FieldTypes, Frames, CallProgress, LoadConn, Goto, links, readers,
      fields, calls
  <2>8. IdInv'
    BY <1>2, BoundsAssumption, NobodyAssumption DEF IdInv, CallTypes,
      FieldTypes, CallProgress, LoadConn, Goto, links, readers, fields, calls
  <2>9. DemuxInv'
    BY <1>2, BoundsAssumption, NobodyAssumption DEF Started, DemuxInv, IdInv,
      CallTypes, FieldTypes, SendInv, ReadFirst, IDs, CallProgress, LoadConn,
      Goto, links, readers, fields, calls
  <2>10. SendInv'
    BY <1>2 DEF Started, SendInv, DemuxInv, CallTypes, FieldTypes,
      ReaderTypes, ReadFirst, IdInv, IDs, CallProgress, LoadConn, Goto, links,
      readers, fields, calls
  <2> QED BY <2>1, <2>3, <2>4, <2>5, <2>6, <2>7, <2>8, <2>9, <2>10
<1>3. CASE WriteOK(c)
  <2>1. (FieldTypes /\ ReaderTypes /\ PanicOnlyAfterClose)'
    BY <1>3 DEF CallProgress, WriteOK, Goto, Frames, FieldTypes, ReaderTypes,
      PanicOnlyAfterClose, fields, calls, readers, links
  <2>2. \A d \in Calls : Started(d) => Started(d)'
    BY <1>3 DEF Started, CallTypes, CallProgress, WriteOK, Goto, Frames
  <2>3. (GotInv /\ InqInv /\ TurnInv)'
    BY <1>3, <2>2 DEF GotInv, InqInv, TurnInv, LinkTypes, ReaderTypes,
      CallProgress, WriteOK, Goto, Frames, links, readers
  <2>4. CallTypes'
    BY <1>3 DEF CallTypes, FieldTypes, Deliveries, Errors, CallProgress,
      WriteOK, Goto, Frames, links, readers, fields, calls
  <2>5. LinkTypes'
    <3>1. wconn[c] \in Conns /\ out[wconn[c]] \in Seq(Frames) /\ c \in Frames
      BY <1>3 DEF WriteOK, ReadFirst, LinkTypes, Frames
    <3> DEFINE s == Append(out[wconn[c]], c)
    <3>2. /\ s \in Seq(Frames)
          /\ \A j \in 1..Len(s) : s[j] = c \/ (j \in 1..Len(out[wconn[c]]) /\ s[j] = out[wconn[c]][j])
      BY <3>1, AppendFacts
    <3>3. /\ out' = [out EXCEPT ![wconn[c]] = s] \/ out' = out
          /\ UNCHANGED <<nconns, cstate, stream, got, inq>>
      BY <1>3 DEF WriteOK
    <3> HIDE DEF s
    <3> QED
      BY <3>1, <3>2, <3>3 DEF LinkTypes
  <2>6. ReadFirst'
    BY <1>3 DEF ReadFirst, CallTypes, FieldTypes, ReaderTypes, LinkTypes,
      CallProgress, WriteOK, Goto, Frames, links, readers, fields, calls
  <2>7. LinkInv'
    BY <1>3, BoundsAssumption, NobodyAssumption DEF LinkInv, LockInv,
      CallTypes, LinkTypes, FieldTypes, Conns, CallProgress, WriteOK, Goto,
      Frames, links, readers, fields, calls
  <2>8. LockInv'
    BY <1>3, BoundsAssumption, NobodyAssumption DEF LockInv, CallTypes,
      FieldTypes, Frames, CallProgress, WriteOK, Goto, links, readers, fields,
      calls
  <2>9. IdInv'
    BY <1>3, BoundsAssumption, NobodyAssumption DEF IdInv, CallTypes,
      FieldTypes, CallProgress, WriteOK, Goto, Frames, links, readers, fields,
      calls
  <2>10. OutInv'
    <3>1. wconn[c] \in Conns /\ out[wconn[c]] \in Seq(Frames) /\ c \in Frames
      BY <1>3 DEF WriteOK, ReadFirst, LinkTypes, Frames
    <3> DEFINE s == Append(out[wconn[c]], c)
    <3>2. /\ s \in Seq(Frames)
          /\ \A j \in 1..Len(s) : s[j] = c \/ (j \in 1..Len(out[wconn[c]]) /\ s[j] = out[wconn[c]][j])
      BY <3>1, AppendFacts
    <3>3. /\ out' = [out EXCEPT ![wconn[c]] = s] \/ out' = out
          /\ UNCHANGED <<nconns, cstate, stream, got, inq>>
      BY <1>3 DEF WriteOK
    <3> HIDE DEF s
    <3>4. Started(c)'
      BY <1>3 DEF WriteOK, Goto, Started, CallTypes
    <3> QED
      BY <3>1, <3>2, <3>3, <3>4, <2>2 DEF OutInv, LinkTypes
  <2>11. DemuxInv'
    BY <1>3, BoundsAssumption, NobodyAssumption DEF Started, DemuxInv, IdInv,
      CallTypes, FieldTypes, SendInv, ReadFirst, IDs, CallProgress, WriteOK,
      Goto, Frames, links, readers, fields, calls
  <2>12. SendInv'
    BY <1>3 DEF Started, SendInv, DemuxInv, CallTypes, FieldTypes,
      ReaderTypes, ReadFirst, IdInv, IDs, CallProgress, WriteOK, Goto, Frames,
      links, readers, fields, calls
  <2> QED BY <2>1, <2>3, <2>4, <2>5, <2>6, <2>7, <2>8, <2>9, <2>10, <2>11, <2>12
<1>4. CASE WriteFail(c)
  <2>1. (FieldTypes /\ ReaderTypes /\ LinkTypes /\ PanicOnlyAfterClose)'
    BY <1>4 DEF CallProgress, WriteFail, Goto, FieldTypes, ReaderTypes,
      LinkTypes, PanicOnlyAfterClose, fields, calls, readers, links
  <2>2. \A d \in Calls : Started(d) => Started(d)'
    BY <1>4 DEF Started, CallTypes, CallProgress, WriteFail, Goto
  <2>3. (OutInv /\ GotInv /\ InqInv /\ TurnInv)'
    <3>1. UNCHANGED <<out, got, inq, turn>>
      BY <1>4 DEF CallProgress, WriteFail, Goto, links, readers
    <3> QED BY <2>2, <3>1, NothingMoves
  <2>4. CallTypes'
    BY <1>4 DEF CallTypes, FieldTypes, Deliveries, Errors, CallProgress,
      WriteFail, Goto, links, readers, fields, calls
  <2>5. ReadFirst'
    BY <1>4 DEF ReadFirst, CallTypes, FieldTypes, ReaderTypes, LinkTypes,
      CallProgress, WriteFail, Goto, links, readers, fields, calls
  <2>6. LinkInv'
    BY <1>4, BoundsAssumption, NobodyAssumption DEF LinkInv, LockInv,
      CallTypes, LinkTypes, FieldTypes, Conns, CallProgress, WriteFail, Goto,
      links, readers, fields, calls
  <2>7. LockInv'
    BY <1>4, BoundsAssumption, NobodyAssumption DEF LockInv, CallTypes,
      FieldTypes, Frames, CallProgress, WriteFail, Goto, links, readers,
      fields, calls
  <2>8. IdInv'
    BY <1>4, BoundsAssumption, NobodyAssumption DEF IdInv, CallTypes,
      FieldTypes, CallProgress, WriteFail, Goto, links, readers, fields, calls
  <2>9. DemuxInv'
    BY <1>4, BoundsAssumption, NobodyAssumption DEF Started, DemuxInv, IdInv,
      CallTypes, FieldTypes, SendInv, ReadFirst, IDs, CallProgress, WriteFail,
      Goto, links, readers, fields, calls
  <2>10. SendInv'
    BY <1>4 DEF Started, SendInv, DemuxInv, CallTypes, FieldTypes,
      ReaderTypes, ReadFirst, IdInv, IDs, CallProgress, WriteFail, Goto,
      links, readers, fields, calls
  <2> QED BY <2>1, <2>3, <2>4, <2>5, <2>6, <2>7, <2>8, <2>9, <2>10
<1>5. CASE Receive(c)
  <2>1. (FieldTypes /\ ReaderTypes /\ LinkTypes /\ PanicOnlyAfterClose)'
    BY <1>5 DEF CallProgress, Receive, Goto, FieldTypes, ReaderTypes,
      LinkTypes, PanicOnlyAfterClose, fields, calls, readers, links
  <2>2. \A d \in Calls : Started(d) => Started(d)'
    BY <1>5 DEF Started, CallTypes, CallProgress, Receive, Goto
  <2>3. (OutInv /\ GotInv /\ InqInv /\ TurnInv)'
    <3>1. UNCHANGED <<out, got, inq, turn>>
      BY <1>5 DEF CallProgress, Receive, links
    <3> QED BY <2>2, <3>1, NothingMoves
  <2>4. CallTypes'
    BY <1>5 DEF CallTypes, FieldTypes, Deliveries, Errors, CallProgress,
      Receive, Goto, links, readers, fields, calls
  <2>5. ReadFirst'
    BY <1>5 DEF ReadFirst, CallTypes, FieldTypes, ReaderTypes, LinkTypes,
      CallProgress, Receive, Goto, links, readers, fields, calls
  <2>6. LinkInv'
    BY <1>5, BoundsAssumption, NobodyAssumption DEF LinkInv, LockInv,
      CallTypes, LinkTypes, FieldTypes, Conns, CallProgress, Receive, Goto,
      links, readers, fields, calls
  <2>7. LockInv'
    BY <1>5, BoundsAssumption, NobodyAssumption DEF LockInv, CallTypes,
      FieldTypes, Frames, CallProgress, Receive, Goto, links, readers, fields,
      calls
  <2>8. IdInv'
    BY <1>5, BoundsAssumption, NobodyAssumption DEF IdInv, CallTypes,
      FieldTypes, CallProgress, Receive, Goto, links, readers, fields, calls
  <2>9. DemuxInv'
    <3>1. c \notin Waiting \/ closed
      BY <1>5, NobodyAssumption DEF Receive, DemuxInv, Waiting, Deliveries
    <3> QED
      BY <1>5, <3>1, <2>2 DEF DemuxInv, Waiting, CallTypes, FieldTypes, CallProgress, Receive, Goto
  <2>10. SendInv'
    BY <1>5 DEF Started, SendInv, DemuxInv, CallTypes, FieldTypes,
      ReaderTypes, ReadFirst, IdInv, IDs, CallProgress, Receive, Goto, links,
      readers, fields, calls
  <2> QED BY <2>1, <2>3, <2>4, <2>5, <2>6, <2>7, <2>8, <2>9, <2>10
<1>6. CASE Timeout(c)
  <2>1. (FieldTypes /\ ReaderTypes /\ LinkTypes /\ PanicOnlyAfterClose)'
    BY <1>6 DEF CallProgress, Timeout, GiveUp, Goto, FieldTypes, ReaderTypes,
      LinkTypes, PanicOnlyAfterClose, fields, calls, readers, links
  <2>2. \A d \in Calls : Started(d) => Started(d)'
    BY <1>6 DEF Started, CallTypes, CallProgress, Timeout, GiveUp, Goto
  <2>3. (OutInv /\ GotInv /\ InqInv /\ TurnInv)'
    <3>1. UNCHANGED <<out, got, inq, turn>>
      BY <1>6 DEF CallProgress, Timeout, GiveUp, Goto, links, readers
    <3> QED BY <2>2, <3>1, NothingMoves
  <2>4. CallTypes'
    BY <1>6 DEF CallTypes, FieldTypes, Deliveries, Errors, CallProgress,
      Timeout, GiveUp, Goto, links, readers, fields, calls
  <2>5. ReadFirst'
    BY <1>6 DEF ReadFirst, CallTypes, FieldTypes, ReaderTypes, LinkTypes,
      CallProgress, Timeout, GiveUp, Goto, links, readers, fields, calls
  <2>6. LinkInv'
    BY <1>6, BoundsAssumption, NobodyAssumption DEF LinkInv, LockInv,
      CallTypes, LinkTypes, FieldTypes, Conns, CallProgress, Timeout, GiveUp,
      Goto, links, readers, fields, calls
  <2>7. LockInv'
    BY <1>6, BoundsAssumption, NobodyAssumption DEF LockInv, CallTypes,
      FieldTypes, Frames, CallProgress, Timeout, GiveUp, Goto, links, readers,
      fields, calls
  <2>8. IdInv'
    BY <1>6, BoundsAssumption, NobodyAssumption DEF IdInv, CallTypes,
      FieldTypes, CallProgress, Timeout, GiveUp, Goto, links, readers, fields,
      calls
  <2>9. DemuxInv'
    BY <1>6, BoundsAssumption, NobodyAssumption DEF Started, DemuxInv, IdInv,
      CallTypes, FieldTypes, SendInv, ReadFirst, IDs, CallProgress, Timeout,
      GiveUp, Goto, links, readers, fields, calls
  <2>10. SendInv'
    BY <1>6 DEF Started, SendInv, DemuxInv, CallTypes, FieldTypes,
      ReaderTypes, ReadFirst, IdInv, IDs, CallProgress, Timeout, GiveUp, Goto,
      links, readers, fields, calls
  <2> QED BY <2>1, <2>3, <2>4, <2>5, <2>6, <2>7, <2>8, <2>9, <2>10
<1>7. CASE Cleanup(c)
  <2>1. (ReaderTypes /\ LinkTypes /\ PanicOnlyAfterClose)'
    BY <1>7 DEF CallProgress, Cleanup, Goto, ReaderTypes, LinkTypes,
      PanicOnlyAfterClose, fields, calls, readers, links
  <2>2. \A d \in Calls : Started(d) => Started(d)'
    BY <1>7 DEF Started, CallTypes, CallProgress, Cleanup, Goto
  <2>3. (OutInv /\ GotInv /\ InqInv /\ TurnInv)'
    <3>1. UNCHANGED <<out, got, inq, turn>>
      BY <1>7 DEF CallProgress, Cleanup, links
    <3> QED BY <2>2, <3>1, NothingMoves
  <2>4. CallTypes'
    BY <1>7 DEF CallTypes, FieldTypes, Deliveries, Errors, CallProgress,
      Cleanup, Goto, links, readers, fields, calls
  <2>5. FieldTypes'
    BY <1>7, BoundsAssumption, NobodyAssumption DEF FieldTypes, Frames, IDs,
      CallProgress, Cleanup, Goto, links, readers, fields, calls
  <2>6. ReadFirst'
    BY <1>7 DEF ReadFirst, CallTypes, FieldTypes, ReaderTypes, LinkTypes,
      CallProgress, Cleanup, Goto, links, readers, fields, calls
  <2>7. LinkInv'
    BY <1>7, BoundsAssumption, NobodyAssumption DEF LinkInv, LockInv,
      CallTypes, LinkTypes, FieldTypes, Conns, CallProgress, Cleanup, Goto,
      links, readers, fields, calls
  <2>8. LockInv'
    BY <1>7, BoundsAssumption, NobodyAssumption DEF LockInv, CallTypes,
      FieldTypes, Frames, CallProgress, Cleanup, Goto, links, readers, fields,
      calls
  <2>9. IdInv'
    BY <1>7, BoundsAssumption, NobodyAssumption DEF IdInv, CallTypes,
      FieldTypes, CallProgress, Cleanup, Goto, links, readers, fields, calls
  <2>10. DemuxInv'
    BY <1>7, BoundsAssumption, NobodyAssumption DEF Started, DemuxInv, IdInv,
      CallTypes, FieldTypes, SendInv, ReadFirst, IDs, CallProgress, Cleanup,
      Goto, links, readers, fields, calls
  <2>11. SendInv'
    <3>1. id[c] \in IDs
      BY <1>7, BoundsAssumption DEF IdInv, IDs, FieldTypes, Cleanup
    <3>2. /\ \A i \in IDs : demux'[i] = demux[i] \/ demux'[i] = NoCall
          /\ UNCHANGED <<rpc, turn, closed, chan>>
      BY <1>7 DEF Cleanup, CallProgress, FieldTypes
    <3>3. \A r \in Conns : rpc[r] = "send" => turn[r].dst \in Calls
      BY DEF ReadFirst
    <3> QED
      BY <3>2, <3>3, <2>2, NobodyAssumption DEF SendInv
  <2> QED BY <2>1, <2>3, <2>4, <2>5, <2>6, <2>7, <2>8, <2>9, <2>10, <2>11
<1>8. CASE ReconnectClose(c)
  <2>1. (ReaderTypes /\ PanicOnlyAfterClose)'
    BY <1>8 DEF CallProgress, ReconnectClose, CloseConn, Goto, ReaderTypes,
      PanicOnlyAfterClose, fields, calls, readers, links
  <2>2. \A d \in Calls : Started(d) => Started(d)'
    BY <1>8 DEF Started, CallTypes, CallProgress, ReconnectClose, CloseConn,
      Goto
  <2>3. (OutInv /\ TurnInv)'
    BY <1>8, <2>2 DEF OutInv, TurnInv, LinkTypes, ReaderTypes, CallProgress,
      ReconnectClose, CloseConn, Goto, links, readers
  <2>4. CallTypes'
    BY <1>8 DEF CallTypes, FieldTypes, Deliveries, Errors, CallProgress,
      ReconnectClose, CloseConn, Goto, links, readers, fields, calls
  <2>5. FieldTypes'
    BY <1>8, BoundsAssumption, NobodyAssumption DEF FieldTypes, Frames, IDs,
      CallProgress, ReconnectClose, CloseConn, Goto, links, readers, fields,
      calls
  <2>6. LinkTypes'
    BY <1>8 DEF LinkTypes, FieldTypes, ReadFirst, Frames, CallProgress,
      ReconnectClose, CloseConn, Goto, links, readers, fields, calls
  <2>7. ReadFirst'
    BY <1>8 DEF ReadFirst, CallTypes, FieldTypes, ReaderTypes, LinkTypes,
      CallProgress, ReconnectClose, CloseConn, Goto, links, readers, fields,
      calls
  <2>8. LinkInv'
    BY <1>8, BoundsAssumption, NobodyAssumption DEF LinkInv, LockInv,
      CallTypes, LinkTypes, FieldTypes, Conns, CallProgress, ReconnectClose,
      CloseConn, Goto, links, readers, fields, calls
  <2>9. LockInv'
    BY <1>8, BoundsAssumption, NobodyAssumption DEF LockInv, CallTypes,
      FieldTypes, Frames, CallProgress, ReconnectClose, CloseConn, Goto,
      links, readers, fields, calls
  <2>10. IdInv'
    BY <1>8, BoundsAssumption, NobodyAssumption DEF IdInv, CallTypes,
      FieldTypes, CallProgress, ReconnectClose, CloseConn, Goto, links,
      readers, fields, calls
  <2>11. GotInv'
    BY <1>8, <2>2 DEF GotInv, LinkTypes, CallProgress, ReconnectClose,
      CloseConn, Goto, links, readers, fields, calls
  <2>12. InqInv'
    BY <1>8, <2>2 DEF InqInv, LinkTypes, ReadFirst, CallProgress,
      ReconnectClose, CloseConn, Goto, links, readers, fields, calls
  <2>13. DemuxInv'
    BY <1>8, BoundsAssumption, NobodyAssumption DEF Started, DemuxInv, IdInv,
      CallTypes, FieldTypes, SendInv, ReadFirst, IDs, CallProgress,
      ReconnectClose, CloseConn, Goto, links, readers, fields, calls
  <2>14. SendInv'
    BY <1>8 DEF Started, SendInv, DemuxInv, CallTypes, FieldTypes,
      ReaderTypes, ReadFirst, IdInv, IDs, CallProgress, ReconnectClose,
      CloseConn, Goto, links, readers, fields, calls
  <2> QED BY <2>1, <2>3, <2>4, <2>5, <2>6, <2>7, <2>8, <2>9, <2>10, <2>11, <2>12, <2>13, <2>14
<1>9. CASE DialOK(c)
  <2>1. (PanicOnlyAfterClose)'
    BY <1>9 DEF CallProgress, DialOK, Goto, ReaderGoto, PanicOnlyAfterClose,
      fields, calls, readers, links
  <2>2. \A d \in Calls : Started(d) => Started(d)'
    BY <1>9 DEF Started, CallTypes, CallProgress, DialOK, Goto, ReaderGoto
  <2>3. (OutInv /\ GotInv /\ InqInv /\ TurnInv)'
    <3>1. UNCHANGED <<out, got, inq, turn>>
      BY <1>9 DEF CallProgress, DialOK, Goto, ReaderGoto, links, readers
    <3> QED BY <2>2, <3>1, NothingMoves
  <2>4. CallTypes'
    BY <1>9 DEF CallTypes, FieldTypes, Deliveries, Errors, CallProgress,
      DialOK, Goto, ReaderGoto, links, readers, fields, calls
  <2>5. FieldTypes'
    BY <1>9, BoundsAssumption, NobodyAssumption DEF FieldTypes, Frames, IDs,
      CallProgress, DialOK, Goto, ReaderGoto, links, readers, fields, calls
  <2>6. ReaderTypes'
    BY <1>9 DEF ReaderTypes, FieldTypes, LinkTypes, ReadFirst, Turns,
      CallProgress, DialOK, Goto, ReaderGoto, links, readers, fields, calls
  <2>7. LinkTypes'
    BY <1>9 DEF LinkTypes, FieldTypes, ReadFirst, Frames, CallProgress,
      DialOK, Goto, ReaderGoto, links, readers, fields, calls
  <2>8. ReadFirst'
    BY <1>9 DEF ReadFirst, CallTypes, FieldTypes, ReaderTypes, LinkTypes,
      CallProgress, DialOK, Goto, ReaderGoto, links, readers, fields, calls
  <2>9. LinkInv'
    <3>1. cstate[conn] = "closed"
      BY <1>9 DEF DialOK, LinkInv
    <3>2. /\ nconns' = nconns + 1 /\ conn' = nconns + 1
          /\ nconns + 1 \in Conns /\ nconns \in Conns
          /\ cstate' = [cstate EXCEPT ![nconns + 1] = "open"]
      BY <1>9 DEF DialOK, LinkTypes
    <3>3. \A k \in Conns : k < nconns' => cstate'[k] = "closed"
      BY <3>1, <3>2, BoundsAssumption DEF LinkInv, LinkTypes, Conns
    <3>4. \A d \in Calls : pc'[d] # "dial"
      BY <1>9 DEF DialOK, LockInv, CallTypes, Goto
    <3> QED
      BY <3>2, <3>3, <3>4 DEF LinkInv
  <2>10. LockInv'
    BY <1>9, BoundsAssumption, NobodyAssumption DEF LockInv, CallTypes,
      FieldTypes, Frames, CallProgress, DialOK, Goto, ReaderGoto, links,
      readers, fields, calls
  <2>11. IdInv'
    BY <1>9, BoundsAssumption, NobodyAssumption DEF IdInv, CallTypes,
      FieldTypes, CallProgress, DialOK, Goto, ReaderGoto, links, readers,
      fields, calls
  <2>12. DemuxInv'
    <3>1. UNCHANGED <<demux, id, chan, closed>>
      BY <1>9 DEF CallProgress, DialOK
    <3>2. \A d \in Calls : d # c => pc'[d] = pc[d]
      BY <1>9 DEF DialOK, Goto, CallTypes
    <3>3. \A i \in IDs : demux[i] # NoCall =>
            demux[i] \in Calls /\ (~closed => demux[i] # c)
      BY <1>9 DEF DialOK, DemuxInv, FieldTypes
    <3> QED
      BY <2>2, <3>1, <3>2, <3>3 DEF DemuxInv
  <2>13. SendInv'
    <3>1. UNCHANGED <<demux, chan, closed, turn>>
      BY <1>9 DEF CallProgress, DialOK
    <3>2. \A r \in Conns : rpc'[r] = "send" => rpc[r] = "send"
      BY <1>9 DEF DialOK, ReaderGoto, ReaderTypes
    <3>3. \A r \in Conns : rpc[r] = "send" => turn[r].dst \in Calls
      BY DEF ReadFirst
    <3> QED
      BY <2>2, <3>1, <3>2, <3>3 DEF SendInv
  <2> QED BY <2>1, <2>3, <2>4, <2>5, <2>6, <2>7, <2>8, <2>9, <2>10, <2>11, <2>12, <2>13
<1>10. CASE DialFail(c)
  <2>1. (ReaderTypes /\ LinkTypes /\ PanicOnlyAfterClose)'
    BY <1>10 DEF CallProgress, DialFail, Goto, ReaderTypes, LinkTypes,
      PanicOnlyAfterClose, fields, calls, readers, links
  <2>2. \A d \in Calls : Started(d) => Started(d)'
    BY <1>10 DEF Started, CallTypes, CallProgress, DialFail, Goto
  <2>3. (OutInv /\ GotInv /\ InqInv /\ TurnInv)'
    <3>1. UNCHANGED <<out, got, inq, turn>>
      BY <1>10 DEF CallProgress, DialFail, Goto, links, readers
    <3> QED BY <2>2, <3>1, NothingMoves
  <2>4. CallTypes'
    BY <1>10 DEF CallTypes, FieldTypes, Deliveries, Errors, CallProgress,
      DialFail, Goto, links, readers, fields, calls
  <2>5. FieldTypes'
    BY <1>10, BoundsAssumption, NobodyAssumption DEF FieldTypes, Frames, IDs,
      CallProgress, DialFail, Goto, links, readers, fields, calls
  <2>6. ReadFirst'
    BY <1>10 DEF ReadFirst, CallTypes, FieldTypes, ReaderTypes, LinkTypes,
      CallProgress, DialFail, Goto, links, readers, fields, calls
  <2>7. LinkInv'
    BY <1>10, BoundsAssumption, NobodyAssumption DEF LinkInv, LockInv,
      CallTypes, LinkTypes, FieldTypes, Conns, CallProgress, DialFail, Goto,
      links, readers, fields, calls
  <2>8. LockInv'
    BY <1>10, BoundsAssumption, NobodyAssumption DEF LockInv, CallTypes,
      FieldTypes, Frames, CallProgress, DialFail, Goto, links, readers,
      fields, calls
  <2>9. IdInv'
    BY <1>10, BoundsAssumption, NobodyAssumption DEF IdInv, CallTypes,
      FieldTypes, CallProgress, DialFail, Goto, links, readers, fields, calls
  <2>10. DemuxInv'
    BY <1>10, BoundsAssumption, NobodyAssumption DEF Started, DemuxInv, IdInv,
      CallTypes, FieldTypes, SendInv, ReadFirst, IDs, CallProgress, DialFail,
      Goto, links, readers, fields, calls
  <2>11. SendInv'
    BY <1>10 DEF Started, SendInv, DemuxInv, CallTypes, FieldTypes,
      ReaderTypes, ReadFirst, IdInv, IDs, CallProgress, DialFail, Goto, links,
      readers, fields, calls
  <2> QED BY <2>1, <2>3, <2>4, <2>5, <2>6, <2>7, <2>8, <2>9, <2>10, <2>11
<1> QED BY <1>1, <1>2, <1>3, <1>4, <1>5, <1>6, <1>7, <1>8, <1>9, <1>10 DEF CallProgress

\* Every step of readLoop, DrainFrame and failAll keeps IInv.
LEMMA ReaderKeepsInv ==
  ASSUME IInv, NEW r \in Conns, ReaderStep(r)
  PROVE  IInv'
<1> USE DEF IInv, TypeOK
<1>1. CASE ReaderTop(r)
  <2>1. (CallTypes /\ FieldTypes /\ LinkTypes /\ LinkInv /\ LockInv /\ IdInv /\ OutInv /\ GotInv /\ InqInv /\ TurnInv /\ DemuxInv /\ PanicOnlyAfterClose)'
    BY <1>1 DEF ReaderStep, ReaderTop, ReaderGoto, CallTypes, FieldTypes,
      LinkTypes, LinkInv, LockInv, IdInv, OutInv, GotInv, InqInv, TurnInv,
      DemuxInv, PanicOnlyAfterClose, fields, calls, readers, links, Started
  <2>2. ReaderTypes'
    BY <1>1 DEF ReaderTypes, FieldTypes, LinkTypes, ReadFirst, Turns,
      ReaderStep, ReaderTop, ReaderGoto, links, readers, fields, calls
  <2>3. ReadFirst'
    BY <1>1 DEF ReadFirst, CallTypes, FieldTypes, ReaderTypes, LinkTypes,
      ReaderStep, ReaderTop, ReaderGoto, links, readers, fields, calls
  <2>4. SendInv'
    BY <1>1 DEF Started, SendInv, DemuxInv, CallTypes, FieldTypes,
      ReaderTypes, ReadFirst, IdInv, IDs, ReaderStep, ReaderTop, ReaderGoto,
      links, readers, fields, calls
  <2> QED BY <2>1, <2>2, <2>3, <2>4
<1>2. CASE ReaderLoad(r)
  <2>1. (CallTypes /\ FieldTypes /\ LinkTypes /\ LinkInv /\ LockInv /\ IdInv /\ OutInv /\ GotInv /\ InqInv /\ DemuxInv /\ PanicOnlyAfterClose)'
    BY <1>2 DEF ReaderStep, ReaderLoad, ReaderGoto, CallTypes, FieldTypes,
      LinkTypes, LinkInv, LockInv, IdInv, OutInv, GotInv, InqInv, DemuxInv,
      PanicOnlyAfterClose, fields, calls, readers, links, Started
  <2>2. \A s \in Conns : s # r => turn'[s] = turn[s] /\ rpc'[s] = rpc[s]
    BY <1>2 DEF ReaderTypes, ReaderLoad, ReaderGoto, readers
  <2>3. /\ turn'[r] \in Turns
        /\ turn'[r].conn \in Conns /\ turn'[r].frame = turn[r].frame
        /\ rpc'[r] = "header"
    BY <1>2 DEF ReaderTypes, FieldTypes, Turns, ReaderLoad, ReaderGoto
  <2>4. ReaderTypes'
    BY <1>2, <2>2, <2>3, NobodyAssumption DEF ReaderTypes, Turns, ReaderStep,
      ReaderLoad, ReaderGoto, calls, readers
  <2>5. ReadFirst'
    BY <1>2, <2>2, <2>3, NobodyAssumption DEF ReadFirst, ReaderStep,
      ReaderLoad, ReaderGoto, calls, readers
  <2>6. TurnInv'
    BY <1>2, <2>2, <2>3, NobodyAssumption DEF TurnInv, Started, ReaderStep,
      ReaderLoad, ReaderGoto, calls, readers
  <2>7. SendInv'
    BY <1>2, <2>2, <2>3, NobodyAssumption DEF SendInv, Started, ReaderStep,
      ReaderLoad, ReaderGoto, calls, readers
  <2> QED BY <2>1, <2>4, <2>5, <2>6, <2>7
<1>3. CASE ReadHeader(r)
  <2>1. (CallTypes /\ FieldTypes /\ LinkInv /\ LockInv /\ IdInv /\ OutInv /\ GotInv /\ DemuxInv /\ PanicOnlyAfterClose)'
    BY <1>3 DEF ReaderStep, ReadHeader, ReaderGoto, CallTypes, FieldTypes,
      LinkInv, LockInv, IdInv, OutInv, GotInv, DemuxInv, PanicOnlyAfterClose,
      fields, calls, readers, links, Started
  <2>2. \A s \in Conns : s # r => turn'[s] = turn[s] /\ rpc'[s] = rpc[s]
    BY <1>3 DEF ReaderTypes, ReadHeader, ReaderGoto, readers
  <2>3. /\ turn'[r] \in Turns
        /\ turn'[r].conn \in Conns /\ turn'[r].frame = Head(inq[turn[r].conn])
        /\ turn'[r].frame \in Calls
        /\ rpc'[r] = "payload"
    <3>1. /\ turn[r].conn \in Conns /\ inq[turn[r].conn] \in Seq(Calls)
          /\ inq[turn[r].conn] # <<>>
      BY <1>3 DEF ReadFirst, LinkTypes, ReadHeader
    <3>2. Head(inq[turn[r].conn]) \in Calls
      BY <3>1, TailFacts
    <3> QED
      BY <1>3, <3>1, <3>2 DEF ReaderTypes, Turns, ReadHeader, ReaderGoto
  <2>4. ReaderTypes'
    BY <1>3, <2>2, <2>3, NobodyAssumption DEF ReaderTypes, Turns, ReaderStep,
      ReadHeader, ReaderGoto, calls, readers
  <2>5. LinkTypes'
    BY <1>3 DEF LinkTypes, FieldTypes, ReadFirst, Frames, ReaderStep,
      ReadHeader, ReaderGoto, links, readers, fields, calls
  <2>6. ReadFirst'
    BY <1>3, <2>2, <2>3, NobodyAssumption DEF ReadFirst, ReaderStep,
      ReadHeader, ReaderGoto, calls, readers
  <2>7. InqInv'
    <3> DEFINE k == turn[r].conn
    <3>1. k \in Conns /\ inq[k] \in Seq(Calls)
      BY <1>3 DEF ReadFirst, LinkTypes, ReadHeader
    <3>2. inq' = inq \/ (inq[k] # <<>> /\ inq' = [inq EXCEPT ![k] = Tail(inq[k])])
      BY <1>3 DEF ReadHeader
    <3>3. inq[k] # <<>> => /\ Tail(inq[k]) \in Seq(Calls)
                          /\ \A j \in 1..Len(Tail(inq[k])) :
                               j + 1 \in 1..Len(inq[k]) /\ Tail(inq[k])[j] = inq[k][j + 1]
      BY <3>1, TailFacts
    <3>4. \A l \in Conns : l # k => inq'[l] = inq[l]
      BY <3>2 DEF LinkTypes
    <3>5. inq'[k] = inq[k] \/ (inq[k] # <<>> /\ inq'[k] = Tail(inq[k]))
      BY <3>1, <3>2 DEF LinkTypes
    <3> HIDE DEF k
    <3>6. \A j \in 1..Len(inq'[k]) : Started(inq'[k][j])
      BY <3>1, <3>3, <3>5 DEF InqInv
    <3>7. pc' = pc
      BY <1>3 DEF ReaderStep
    <3> QED
      BY <3>4, <3>6, <3>7 DEF InqInv, Started
  <2>8. TurnInv'
    <3> DEFINE k == turn[r].conn
    <3>1. k \in Conns /\ inq[k] \in Seq(Calls) /\ inq[k] # <<>>
      BY <1>3 DEF ReadFirst, LinkTypes, ReadHeader
    <3>2. Started(Head(inq[k]))
      BY <3>1, TailFacts DEF InqInv
    <3> QED
      BY <1>3, <2>2, <2>3, <3>2 DEF TurnInv, Started, ReaderStep
  <2>9. SendInv'
    BY <1>3, <2>2, <2>3, NobodyAssumption DEF SendInv, Started, ReaderStep,
      ReadHeader, ReaderGoto, calls, readers
  <2> QED BY <2>1, <2>4, <2>5, <2>6, <2>7, <2>8, <2>9
<1>4. CASE BadMagic(r)
  <2>1. (CallTypes /\ FieldTypes /\ LinkInv /\ LockInv /\ IdInv /\ OutInv /\ GotInv /\ DemuxInv /\ PanicOnlyAfterClose)'
    BY <1>4 DEF ReaderStep, BadMagic, ReaderGoto, EndTurn, NewTurn, CallTypes,
      FieldTypes, LinkInv, LockInv, IdInv, OutInv, GotInv, DemuxInv,
      PanicOnlyAfterClose, fields, calls, readers, links, Started
  <2>2. \A s \in Conns : s # r => turn'[s] = turn[s] /\ rpc'[s] = rpc[s]
    BY <1>4 DEF ReaderTypes, BadMagic, ReaderGoto, EndTurn, NewTurn, readers
  <2>3. turn'[r] = NewTurn /\ NewTurn \in Turns /\ rpc'[r] = "fail" /\ NewTurn.frame = NoCall
    BY <1>4 DEF ReaderTypes, Turns, BadMagic, ReaderGoto, EndTurn, NewTurn
  <2>4. ReaderTypes'
    BY <1>4, <2>2, <2>3, NobodyAssumption DEF ReaderTypes, Turns, ReaderStep,
      BadMagic, ReaderGoto, EndTurn, NewTurn, calls, readers
  <2>5. LinkTypes'
    <3> DEFINE k == turn[r].conn
    <3>1. k \in Conns /\ inq[k] \in Seq(Calls)
      BY <1>4 DEF ReadFirst, LinkTypes, BadMagic
    <3>2. inq' = inq \/ (inq[k] # <<>> /\ inq' = [inq EXCEPT ![k] = Tail(inq[k])])
      BY <1>4 DEF BadMagic
    <3>3. inq[k] # <<>> => /\ Tail(inq[k]) \in Seq(Calls)
                          /\ \A j \in 1..Len(Tail(inq[k])) :
                               j + 1 \in 1..Len(inq[k]) /\ Tail(inq[k])[j] = inq[k][j + 1]
      BY <3>1, TailFacts
    <3>4. inq' \in [Conns -> Seq(Calls)]
      BY <3>1, <3>2, <3>3 DEF LinkTypes
    <3>5. /\ UNCHANGED <<nconns, cstate, out, got>>
          /\ stream' \in [Conns -> {"header", "payload", "torn"}]
      BY <1>4 DEF LinkTypes, ReaderStep, BadMagic
    <3> QED
      BY <3>4, <3>5 DEF LinkTypes
  <2>6. ReadFirst'
    BY <1>4, <2>2, <2>3, NobodyAssumption DEF ReadFirst, ReaderStep, BadMagic,
      ReaderGoto, EndTurn, NewTurn, calls, readers
  <2>7. InqInv'
    <3> DEFINE k == turn[r].conn
    <3>1. k \in Conns /\ inq[k] \in Seq(Calls)
      BY <1>4 DEF ReadFirst, LinkTypes, BadMagic
    <3>2. inq' = inq \/ (inq[k] # <<>> /\ inq' = [inq EXCEPT ![k] = Tail(inq[k])])
      BY <1>4 DEF BadMagic
    <3>3. inq[k] # <<>> => /\ Tail(inq[k]) \in Seq(Calls)
                          /\ \A j \in 1..Len(Tail(inq[k])) :
                               j + 1 \in 1..Len(inq[k]) /\ Tail(inq[k])[j] = inq[k][j + 1]
      BY <3>1, TailFacts
    <3>4. \A l \in Conns : l # k => inq'[l] = inq[l]
      BY <3>2 DEF LinkTypes
    <3>5. inq'[k] = inq[k] \/ (inq[k] # <<>> /\ inq'[k] = Tail(inq[k]))
      BY <3>1, <3>2 DEF LinkTypes
    <3> HIDE DEF k
    <3>6. \A j \in 1..Len(inq'[k]) : Started(inq'[k][j])
      BY <3>1, <3>3, <3>5 DEF InqInv
    <3>7. pc' = pc
      BY <1>4 DEF ReaderStep
    <3> QED
      BY <3>4, <3>6, <3>7 DEF InqInv, Started
  <2>8. TurnInv'
    BY <1>4, <2>2, <2>3, NobodyAssumption DEF TurnInv, Started, ReaderStep,
      BadMagic, ReaderGoto, EndTurn, NewTurn, calls, readers
  <2>9. SendInv'
    BY <1>4, <2>2, <2>3, NobodyAssumption DEF SendInv, Started, ReaderStep,
      BadMagic, ReaderGoto, EndTurn, NewTurn, calls, readers
  <2> QED BY <2>1, <2>4, <2>5, <2>6, <2>7, <2>8, <2>9
<1>5. CASE ReadPayload(r)
  <2>1. (CallTypes /\ FieldTypes /\ LinkInv /\ LockInv /\ IdInv)'
    BY <1>5 DEF ReaderStep, ReadPayload, ReaderGoto, CallTypes, FieldTypes,
      LinkInv, LockInv, IdInv, fields, calls, readers, links
  <2>2. (OutInv /\ GotInv /\ InqInv /\ TurnInv /\ DemuxInv /\ PanicOnlyAfterClose)'
    BY <1>5 DEF ReaderStep, ReadPayload, ReaderGoto, OutInv, GotInv, InqInv,
      TurnInv, DemuxInv, PanicOnlyAfterClose, fields, calls, readers, links,
      Started
  <2>3. ReaderTypes'
    BY <1>5 DEF ReaderTypes, FieldTypes, LinkTypes, ReadFirst, Turns,
      ReaderStep, ReadPayload, ReaderGoto, links, readers, fields, calls
  <2>4. LinkTypes'
    BY <1>5 DEF LinkTypes, FieldTypes, ReadFirst, Frames, ReaderStep,
      ReadPayload, ReaderGoto, links, readers, fields, calls
  <2>5. ReadFirst'
    BY <1>5 DEF ReadFirst, CallTypes, FieldTypes, ReaderTypes, LinkTypes,
      ReaderStep, ReadPayload, ReaderGoto, links, readers, fields, calls
  <2>6. SendInv'
    BY <1>5 DEF Started, SendInv, DemuxInv, CallTypes, FieldTypes,
      ReaderTypes, ReadFirst, IdInv, IDs, ReaderStep, ReadPayload, ReaderGoto,
      links, readers, fields, calls
  <2> QED BY <2>1, <2>2, <2>3, <2>4, <2>5, <2>6
<1>6. CASE ReadTornPayload(r)
  <2>1. (CallTypes /\ FieldTypes /\ LinkInv /\ LockInv /\ IdInv /\ OutInv /\ GotInv /\ DemuxInv /\ PanicOnlyAfterClose)'
    BY <1>6 DEF ReaderStep, ReadTornPayload, ReaderGoto, EndTurn, NewTurn,
      CallTypes, FieldTypes, LinkInv, LockInv, IdInv, OutInv, GotInv,
      DemuxInv, PanicOnlyAfterClose, fields, calls, readers, links, Started
  <2>2. \A s \in Conns : s # r => turn'[s] = turn[s] /\ rpc'[s] = rpc[s]
    BY <1>6 DEF ReaderTypes, ReadTornPayload, ReaderGoto, EndTurn, NewTurn,
      readers
  <2>3. /\ turn'[r] \in Turns
        /\ \/ rpc'[r] = "lookup" /\ turn'[r].frame = turn[r].frame
           \/ rpc'[r] = "fail" /\ turn'[r].frame = NoCall
    <3>1. NewTurn \in Turns /\ NewTurn.frame = NoCall
      BY DEF NewTurn, Turns
    <3>2. /\ [turn[r] EXCEPT !.bad = TRUE] \in Turns
          /\ [turn[r] EXCEPT !.bad = TRUE].frame = turn[r].frame
      BY DEF ReaderTypes, Turns
    <3> QED
      BY <1>6, <3>1, <3>2 DEF ReaderTypes, ReadTornPayload, ReaderGoto, EndTurn
  <2>4. ReaderTypes'
    BY <1>6, <2>2, <2>3, NobodyAssumption DEF ReaderTypes, Turns, ReaderStep,
      ReadTornPayload, ReaderGoto, EndTurn, NewTurn, calls, readers
  <2>5. LinkTypes'
    BY <1>6 DEF LinkTypes, FieldTypes, ReadFirst, Frames, ReaderStep,
      ReadTornPayload, ReaderGoto, EndTurn, NewTurn, links, readers, fields,
      calls
  <2>6. ReadFirst'
    BY <1>6, <2>2, <2>3, NobodyAssumption DEF ReadFirst, ReaderStep,
      ReadTornPayload, ReaderGoto, EndTurn, NewTurn, calls, readers
  <2>7. InqInv'
    <3> DEFINE k == turn[r].conn
    <3>1. k \in Conns /\ inq[k] \in Seq(Calls)
      BY <1>6 DEF ReadFirst, LinkTypes, ReadTornPayload
    <3>2. inq' = inq \/ (inq[k] # <<>> /\ inq' = [inq EXCEPT ![k] = Tail(inq[k])])
      BY <1>6 DEF ReadTornPayload
    <3>3. inq[k] # <<>> => /\ Tail(inq[k]) \in Seq(Calls)
                          /\ \A j \in 1..Len(Tail(inq[k])) :
                               j + 1 \in 1..Len(inq[k]) /\ Tail(inq[k])[j] = inq[k][j + 1]
      BY <3>1, TailFacts
    <3>4. \A l \in Conns : l # k => inq'[l] = inq[l]
      BY <3>2 DEF LinkTypes
    <3>5. inq'[k] = inq[k] \/ (inq[k] # <<>> /\ inq'[k] = Tail(inq[k]))
      BY <3>1, <3>2 DEF LinkTypes
    <3> HIDE DEF k
    <3>6. \A j \in 1..Len(inq'[k]) : Started(inq'[k][j])
      BY <3>1, <3>3, <3>5 DEF InqInv
    <3>7. pc' = pc
      BY <1>6 DEF ReaderStep
    <3> QED
      BY <3>4, <3>6, <3>7 DEF InqInv, Started
  <2>8. TurnInv'
    BY <1>6, <2>2, <2>3, NobodyAssumption DEF TurnInv, Started, ReaderStep,
      ReadTornPayload, ReaderGoto, EndTurn, NewTurn, calls, readers
  <2>9. SendInv'
    BY <1>6, <2>2, <2>3, NobodyAssumption DEF SendInv, Started, ReaderStep,
      ReadTornPayload, ReaderGoto, EndTurn, NewTurn, calls, readers
  <2> QED BY <2>1, <2>4, <2>5, <2>6, <2>7, <2>8, <2>9
<1>7. CASE ReadFail(r)
  <2>1. (CallTypes /\ FieldTypes /\ LinkTypes /\ LinkInv /\ LockInv /\ IdInv /\ OutInv /\ GotInv /\ InqInv /\ DemuxInv /\ PanicOnlyAfterClose)'
    BY <1>7 DEF ReaderStep, ReadFail, ReaderGoto, EndTurn, NewTurn, CallTypes,
      FieldTypes, LinkTypes, LinkInv, LockInv, IdInv, OutInv, GotInv, InqInv,
      DemuxInv, PanicOnlyAfterClose, fields, calls, readers, links, Started
  <2>2. \A s \in Conns : s # r => turn'[s] = turn[s] /\ rpc'[s] = rpc[s]
    BY <1>7 DEF ReaderTypes, ReadFail, ReaderGoto, EndTurn, NewTurn, readers
  <2>3. turn'[r] = NewTurn /\ NewTurn \in Turns /\ rpc'[r] = "fail" /\ NewTurn.frame = NoCall
    BY <1>7 DEF ReaderTypes, Turns, ReadFail, ReaderGoto, EndTurn, NewTurn
  <2>4. ReaderTypes'
    BY <1>7, <2>2, <2>3, NobodyAssumption DEF ReaderTypes, Turns, ReaderStep,
      ReadFail, ReaderGoto, EndTurn, NewTurn, calls, readers
  <2>5. ReadFirst'
    BY <1>7, <2>2, <2>3, NobodyAssumption DEF ReadFirst, ReaderStep, ReadFail,
      ReaderGoto, EndTurn, NewTurn, calls, readers
  <2>6. TurnInv'
    BY <1>7, <2>2, <2>3, NobodyAssumption DEF TurnInv, Started, ReaderStep,
      ReadFail, ReaderGoto, EndTurn, NewTurn, calls, readers
  <2>7. SendInv'
    BY <1>7, <2>2, <2>3, NobodyAssumption DEF SendInv, Started, ReaderStep,
      ReadFail, ReaderGoto, EndTurn, NewTurn, calls, readers
  <2> QED BY <2>1, <2>4, <2>5, <2>6, <2>7
<1>8. CASE Lookup(r)
  <2>1. (CallTypes /\ LinkTypes /\ LinkInv /\ LockInv /\ IdInv /\ OutInv /\ GotInv /\ InqInv /\ PanicOnlyAfterClose)'
    BY <1>8 DEF ReaderStep, Lookup, ReaderGoto, EndTurn, NewTurn, CallTypes,
      LinkTypes, LinkInv, LockInv, IdInv, OutInv, GotInv, InqInv,
      PanicOnlyAfterClose, fields, calls, readers, links, Started
  <2>2. \A s \in Conns : s # r => turn'[s] = turn[s] /\ rpc'[s] = rpc[s]
    BY <1>8 DEF ReaderTypes, Lookup, ReaderGoto, EndTurn, NewTurn, readers
  <2>3. /\ turn'[r] \in Turns
        /\ turn[r].frame \in Calls /\ id[turn[r].frame] \in IDs
        /\ \/ rpc'[r] = "top" /\ turn'[r].frame = NoCall
           \/ /\ rpc'[r] = "send" /\ turn'[r].frame = turn[r].frame
              /\ turn'[r].dst = demux[id[turn[r].frame]]
              /\ turn'[r].dst \in Calls
    <3> DEFINE i == id[turn[r].frame]
    <3>1. turn[r].frame \in Calls
      BY <1>8 DEF ReadFirst, Lookup
    <3>2. i \in IDs
      BY <3>1, BoundsAssumption DEF TurnInv, Started, IdInv, IDs, FieldTypes
    <3>3. NewTurn \in Turns /\ NewTurn.frame = NoCall
      BY DEF NewTurn, Turns
    <3>4. demux[i] \in Calls \cup {NoCall}
      BY <3>2 DEF FieldTypes
    <3>5. /\ [turn[r] EXCEPT !.dst = demux[i]] \in Turns
          /\ [turn[r] EXCEPT !.dst = demux[i]].frame = turn[r].frame
          /\ [turn[r] EXCEPT !.dst = demux[i]].dst = demux[i]
      BY <3>4 DEF ReaderTypes, Turns
    <3> QED
      BY <1>8, <3>1, <3>2, <3>3, <3>4, <3>5 DEF ReaderTypes, Lookup, ReaderGoto, EndTurn
  <2>4. FieldTypes'
    BY <1>8, BoundsAssumption, NobodyAssumption DEF FieldTypes, Frames, IDs,
      ReaderStep, Lookup, ReaderGoto, EndTurn, NewTurn, links, readers,
      fields, calls
  <2>5. ReaderTypes'
    BY <1>8, <2>2, <2>3, NobodyAssumption DEF ReaderTypes, Turns, ReaderStep,
      Lookup, ReaderGoto, EndTurn, NewTurn, calls, readers
  <2>6. ReadFirst'
    BY <1>8, <2>2, <2>3, NobodyAssumption DEF ReadFirst, ReaderStep, Lookup,
      ReaderGoto, EndTurn, NewTurn, calls, readers
  <2>7. TurnInv'
    BY <1>8, <2>2, <2>3, NobodyAssumption DEF TurnInv, Started, ReaderStep,
      Lookup, ReaderGoto, EndTurn, NewTurn, calls, readers
  <2>8. DemuxInv'
    <3>1. UNCHANGED <<pc, id, chan, closed>>
      BY <1>8 DEF ReaderStep, Lookup
    <3>2. \A j \in IDs : demux'[j] # NoCall => demux'[j] = demux[j]
      BY <1>8, <2>3 DEF Lookup, FieldTypes
    <3> QED
      BY <3>1, <3>2 DEF DemuxInv, Started
  <2>9. SendInv'
    <3> DEFINE i == id[turn[r].frame]
               d == turn'[r].dst
    <3>1. /\ UNCHANGED <<pc, chan, closed>>
          /\ i \in IDs /\ demux' = [demux EXCEPT ![i] = NoCall]
      BY <1>8, <2>3 DEF ReaderStep, Lookup
    <3>2. rpc'[r] = "send" =>
            /\ d \in Calls /\ d # NoCall /\ Started(d)
            /\ ~closed => chan[d] = "open"
            /\ \A j \in IDs : demux[j] = d => j = i
            /\ \A s \in Conns : rpc[s] = "send" => turn[s].dst # d
      BY <2>3, <3>1, NobodyAssumption DEF DemuxInv, SendInv
    <3>3. rpc'[r] = "send" => \A j \in IDs : demux'[j] # d
      BY <3>1, <3>2 DEF FieldTypes
    <3>4. \A s \in Conns : s # r /\ rpc'[s] = "send" =>
            /\ rpc[s] = "send" /\ turn'[s] = turn[s] /\ turn[s].dst \in Calls
            /\ \A j \in IDs : demux'[j] # turn[s].dst
      BY <2>2, <3>1, NobodyAssumption DEF SendInv, ReadFirst, FieldTypes
    <3> QED
      BY <3>1, <3>2, <3>3, <3>4 DEF SendInv, Started
  <2> QED BY <2>1, <2>4, <2>5, <2>6, <2>7, <2>8, <2>9
<1>9. CASE Send(r)
  <2>1. (LinkTypes /\ LinkInv /\ LockInv /\ IdInv /\ OutInv /\ GotInv /\ InqInv)'
    BY <1>9 DEF ReaderStep, Send, ReaderGoto, EndTurn, NewTurn, LinkTypes,
      LinkInv, LockInv, IdInv, OutInv, GotInv, InqInv, fields, calls, readers,
      links, Started
  <2>2. \A s \in Conns : s # r => turn'[s] = turn[s] /\ rpc'[s] = rpc[s]
    BY <1>9 DEF ReaderTypes, Send, ReaderGoto, EndTurn, NewTurn, readers
  <2>3. \/ /\ rpc'[r] = "top" /\ turn'[r] = NewTurn
           /\ NewTurn \in Turns /\ NewTurn.frame = NoCall
        \/ rpc'[r] = "send" /\ turn'[r] = turn[r]
    <3>1. NewTurn \in Turns /\ NewTurn.frame = NoCall
      BY DEF NewTurn, Turns
    <3>2. \/ rpc' = [rpc EXCEPT ![r] = "top"] /\ turn' = [turn EXCEPT ![r] = NewTurn]
          \/ rpc[r] = "send" /\ rpc' = rpc /\ turn' = turn
      BY <1>9 DEF Send, ReaderGoto, EndTurn, readers
    <3> QED
      BY <3>1, <3>2 DEF ReaderTypes
  <2>4. CallTypes'
    <3>1. turn[r].frame \in Calls
      BY <1>9 DEF Send, ReadFirst
    <3> QED
      BY <1>9, <3>1 DEF CallTypes, Deliveries, ReaderStep, Send
  <2>5. FieldTypes'
    BY <1>9, BoundsAssumption, NobodyAssumption DEF FieldTypes, Frames, IDs,
      ReaderStep, Send, ReaderGoto, EndTurn, NewTurn, links, readers, fields,
      calls
  <2>6. ReaderTypes'
    <3>1. NewTurn \in Turns
      BY DEF NewTurn, Turns
    <3> QED
      BY <1>9, <3>1 DEF ReaderTypes, Send, ReaderGoto, EndTurn, readers
  <2>7. ReadFirst'
    BY <1>9, <2>2, <2>3, NobodyAssumption DEF ReadFirst, ReaderStep, Send,
      ReaderGoto, EndTurn, NewTurn, calls, readers
  <2>8. TurnInv'
    BY <1>9, <2>2, <2>3, NobodyAssumption DEF TurnInv, Started, ReaderStep,
      Send, ReaderGoto, EndTurn, NewTurn, calls, readers
  <2>9. DemuxInv'
    BY <1>9, BoundsAssumption, NobodyAssumption DEF Started, DemuxInv, IdInv,
      CallTypes, FieldTypes, SendInv, ReadFirst, IDs, ReaderStep, Send,
      ReaderGoto, EndTurn, NewTurn, links, readers, fields, calls
  <2>10. SendInv'
    <3>1. turn[r].dst \in Calls
      BY <1>9 DEF Send, ReadFirst
    <3>2. \A d \in Calls : d # turn[r].dst => chan'[d] = chan[d]
      BY <1>9, <3>1 DEF Send, CallTypes, FieldTypes
    <3>3. rpc'[r] = "send" => chan' = chan
      BY <1>9 DEF Send, ReaderTypes, ReaderGoto
    <3>4. \A s \in Conns : rpc[s] = "send" => turn[s].dst \in Calls
      BY DEF ReadFirst
    <3> QED
      BY <1>9, <2>2, <2>3, <3>1, <3>2, <3>3, <3>4 DEF SendInv, Started, ReaderStep, Send
  <2>11. PanicOnlyAfterClose'
    BY <1>9 DEF PanicOnlyAfterClose, SendInv, DemuxInv, ReaderStep, Send,
      ReaderGoto, EndTurn, NewTurn, links, readers, fields, calls
  <2> QED BY <2>1, <2>4, <2>5, <2>6, <2>7, <2>8, <2>9, <2>10, <2>11
<1>10. CASE FailAll(r)
  <2>1. (LinkTypes /\ LinkInv /\ LockInv /\ IdInv /\ OutInv /\ GotInv /\ InqInv /\ TurnInv)'
    BY <1>10 DEF ReaderStep, FailAll, ReaderGoto, Waiting, LinkTypes, LinkInv,
      LockInv, IdInv, OutInv, GotInv, InqInv, TurnInv, fields, calls, readers,
      links, Started
  <2>2. CallTypes'
    BY <1>10 DEF CallTypes, FieldTypes, Deliveries, Errors, ReaderStep,
      FailAll, ReaderGoto, Waiting, links, readers, fields, calls
  <2>3. FieldTypes'
    BY <1>10, BoundsAssumption, NobodyAssumption DEF FieldTypes, Frames, IDs,
      ReaderStep, FailAll, ReaderGoto, Waiting, links, readers, fields, calls
  <2>4. ReaderTypes'
    BY <1>10 DEF ReaderTypes, FailAll, ReaderGoto
  <2>5. ReadFirst'
    BY <1>10 DEF ReadFirst, CallTypes, FieldTypes, ReaderTypes, LinkTypes,
      ReaderStep, FailAll, ReaderGoto, Waiting, links, readers, fields, calls
  <2>6. DemuxInv'
    BY <1>10, BoundsAssumption, NobodyAssumption DEF Started, DemuxInv, IdInv,
      CallTypes, FieldTypes, SendInv, ReadFirst, IDs, ReaderStep, FailAll,
      ReaderGoto, Waiting, links, readers, fields, calls
  <2>7. SendInv'
    <3>1. \A s \in Conns : rpc'[s] = "send" => rpc[s] = "send" /\ turn'[s] = turn[s]
      BY <1>10 DEF FailAll, ReaderGoto, ReaderTypes
    <3>2. \A s \in Conns : rpc[s] = "send" => turn[s].dst \in Calls /\ turn[s].dst \notin Waiting
      BY DEF ReadFirst, SendInv, Waiting
    <3>3. \A d \in Calls : d \notin Waiting => chan'[d] = chan[d]
      BY <1>10 DEF FailAll, CallTypes
    <3>4. \A i \in IDs : demux'[i] = NoCall \/ demux'[i] = demux[i]
      BY <1>10 DEF FailAll
    <3> QED
      BY <1>10, <3>1, <3>2, <3>3, <3>4, NobodyAssumption DEF SendInv, Started, ReaderStep
  <2>8. PanicOnlyAfterClose'
    <3>1. ~closed => \A c \in Waiting : chan[c] = "open"
      BY DEF DemuxInv, Waiting
    <3> QED
      BY <1>10, <3>1 DEF PanicOnlyAfterClose, FailAll, ReaderStep
  <2> QED BY <2>1, <2>2, <2>3, <2>4, <2>5, <2>6, <2>7, <2>8
<1> QED BY <1>1, <1>2, <1>3, <1>4, <1>5, <1>6, <1>7, <1>8, <1>9, <1>10 DEF ReaderStep

\* Every step of keepaliveLoop keeps IInv.
LEMMA KeepaliveKeepsInv ==
  ASSUME IInv, KeepaliveStep
  PROVE  IInv'
<1> USE DEF IInv, TypeOK
<1>1. CASE KeepaliveTick
  <2>1. (CallTypes /\ ReaderTypes /\ LinkTypes /\ ReadFirst /\ LinkInv /\ IdInv /\ OutInv /\ GotInv /\ InqInv /\ TurnInv /\ DemuxInv /\ SendInv /\ PanicOnlyAfterClose)'
    BY <1>1 DEF KeepaliveStep, KeepaliveTick, CallTypes, ReaderTypes,
      LinkTypes, ReadFirst, LinkInv, IdInv, OutInv, GotInv, InqInv, TurnInv,
      DemuxInv, SendInv, PanicOnlyAfterClose, fields, calls, readers, links,
      Started
  <2>2. FieldTypes'
    BY <1>1, BoundsAssumption, NobodyAssumption DEF FieldTypes, Frames, IDs,
      KeepaliveStep, KeepaliveTick, links, readers, fields, calls
  <2>3. LockInv'
    BY <1>1, BoundsAssumption, NobodyAssumption DEF LockInv, CallTypes,
      FieldTypes, Frames, KeepaliveStep, KeepaliveTick, links, readers,
      fields, calls
  <2> QED BY <2>1, <2>2, <2>3
<1>2. CASE KeepaliveLock
  <2>1. (CallTypes /\ ReaderTypes /\ LinkTypes /\ ReadFirst /\ LinkInv /\ IdInv /\ OutInv /\ GotInv /\ InqInv /\ TurnInv /\ DemuxInv /\ SendInv /\ PanicOnlyAfterClose)'
    BY <1>2 DEF KeepaliveStep, KeepaliveLock, CallTypes, ReaderTypes,
      LinkTypes, ReadFirst, LinkInv, IdInv, OutInv, GotInv, InqInv, TurnInv,
      DemuxInv, SendInv, PanicOnlyAfterClose, fields, calls, readers, links,
      Started
  <2>2. FieldTypes'
    BY <1>2, BoundsAssumption, NobodyAssumption DEF FieldTypes, Frames, IDs,
      KeepaliveStep, KeepaliveLock, links, readers, fields, calls
  <2>3. LockInv'
    BY <1>2, BoundsAssumption, NobodyAssumption DEF LockInv, CallTypes,
      FieldTypes, Frames, KeepaliveStep, KeepaliveLock, links, readers,
      fields, calls
  <2> QED BY <2>1, <2>2, <2>3
<1>3. CASE KeepaliveWrite
  <2>1. (CallTypes /\ ReaderTypes /\ ReadFirst /\ LinkInv /\ IdInv /\ GotInv /\ InqInv /\ TurnInv /\ DemuxInv /\ SendInv /\ PanicOnlyAfterClose)'
    BY <1>3 DEF KeepaliveStep, KeepaliveWrite, Frames, CallTypes, ReaderTypes,
      ReadFirst, LinkInv, IdInv, GotInv, InqInv, TurnInv, DemuxInv, SendInv,
      PanicOnlyAfterClose, fields, calls, readers, links, Started
  <2>2. FieldTypes'
    BY <1>3, BoundsAssumption, NobodyAssumption DEF FieldTypes, Frames, IDs,
      KeepaliveStep, KeepaliveWrite, links, readers, fields, calls
  <2>3. LinkTypes'
    <3>1. conn \in Conns /\ out[conn] \in Seq(Frames) /\ Keepalive \in Frames
      BY DEF FieldTypes, LinkTypes, Frames
    <3> DEFINE s == Append(out[conn], Keepalive)
    <3>2. /\ s \in Seq(Frames)
          /\ \A j \in 1..Len(s) : s[j] = Keepalive \/ (j \in 1..Len(out[conn]) /\ s[j] = out[conn][j])
      BY <3>1, AppendFacts
    <3>3. /\ out' = [out EXCEPT ![conn] = s] \/ out' = out
          /\ UNCHANGED <<pc, nconns, cstate, stream, got, inq>>
      BY <1>3 DEF KeepaliveWrite, KeepaliveStep, calls
    <3> HIDE DEF s
    <3> QED
      BY <3>1, <3>2, <3>3 DEF LinkTypes
  <2>4. LockInv'
    BY <1>3, BoundsAssumption, NobodyAssumption DEF LockInv, CallTypes,
      FieldTypes, Frames, KeepaliveStep, KeepaliveWrite, links, readers,
      fields, calls
  <2>5. OutInv'
    <3>1. conn \in Conns /\ out[conn] \in Seq(Frames) /\ Keepalive \in Frames
      BY DEF FieldTypes, LinkTypes, Frames
    <3> DEFINE s == Append(out[conn], Keepalive)
    <3>2. /\ s \in Seq(Frames)
          /\ \A j \in 1..Len(s) : s[j] = Keepalive \/ (j \in 1..Len(out[conn]) /\ s[j] = out[conn][j])
      BY <3>1, AppendFacts
    <3>3. /\ out' = [out EXCEPT ![conn] = s] \/ out' = out
          /\ UNCHANGED <<pc, nconns, cstate, stream, got, inq>>
      BY <1>3 DEF KeepaliveWrite, KeepaliveStep, calls
    <3> HIDE DEF s
    <3>4. \A l \in Conns : \A j \in 1..Len(out'[l]) : out'[l][j] \in Calls =>
            j \in 1..Len(out[l]) /\ out'[l][j] = out[l][j]
      BY <3>1, <3>2, <3>3, NobodyAssumption DEF LinkTypes
    <3> QED
      BY <3>3, <3>4 DEF OutInv, Started
  <2> QED BY <2>1, <2>2, <2>3, <2>4, <2>5
<1>4. CASE KeepaliveStop
  <2>1. (CallTypes /\ ReaderTypes /\ LinkTypes /\ ReadFirst /\ LinkInv /\ IdInv /\ OutInv /\ GotInv /\ InqInv /\ TurnInv /\ DemuxInv /\ SendInv /\ PanicOnlyAfterClose)'
    BY <1>4 DEF KeepaliveStep, KeepaliveStop, CallTypes, ReaderTypes,
      LinkTypes, ReadFirst, LinkInv, IdInv, OutInv, GotInv, InqInv, TurnInv,
      DemuxInv, SendInv, PanicOnlyAfterClose, fields, calls, readers, links,
      Started
  <2>2. FieldTypes'
    BY <1>4, BoundsAssumption, NobodyAssumption DEF FieldTypes, Frames, IDs,
      KeepaliveStep, KeepaliveStop, links, readers, fields, calls
  <2>3. LockInv'
    BY <1>4, BoundsAssumption, NobodyAssumption DEF LockInv, CallTypes,
      FieldTypes, Frames, KeepaliveStep, KeepaliveStop, links, readers,
      fields, calls
  <2> QED BY <2>1, <2>2, <2>3
<1> QED BY <1>1, <1>2, <1>3, <1>4 DEF KeepaliveStep

\* Whatever the router and the network do keeps IInv.
LEMMA RouterKeepsInv ==
  ASSUME IInv, NEW k \in Conns, RouterStep(k)
  PROVE  IInv'
<1> USE DEF IInv, TypeOK
<1>1. CASE ServerRead(k)
  <2>1. (FieldTypes /\ ReaderTypes /\ ReadFirst /\ LinkInv /\ LockInv /\ IdInv /\ InqInv /\ TurnInv /\ DemuxInv /\ SendInv /\ PanicOnlyAfterClose)'
    BY <1>1 DEF RouterStep, ServerRead, FieldTypes, ReaderTypes, ReadFirst,
      LinkInv, LockInv, IdInv, InqInv, TurnInv, DemuxInv, SendInv,
      PanicOnlyAfterClose, fields, calls, readers, links, Started
  <2>2. CallTypes'
    <3>1. served' \in [Calls -> Nat]
      <4>1. \/ served' = served
            \/ /\ Head(out[k]) \in Calls
               /\ served' = [served EXCEPT ![Head(out[k])] = served[Head(out[k])] + 1]
        BY <1>1 DEF ServerRead
      <4> QED BY <4>1 DEF CallTypes
    <3> QED
      BY <1>1, <3>1 DEF CallTypes, RouterStep, calls
  <2>3. LinkTypes'
    <3>1. out[k] \in Seq(Frames) /\ out[k] # <<>>
      BY <1>1 DEF LinkTypes, ServerRead
    <3>2. /\ Tail(out[k]) \in Seq(Frames)
          /\ Head(out[k]) = out[k][1] /\ 1 \in 1..Len(out[k])
      BY <3>1, TailFacts
    <3> DEFINE f == Head(out[k])
    <3>3. \/ got' = got
          \/ f \in Calls /\ got' = [got EXCEPT ![k] = got[k] \cup {f}]
      BY <1>1 DEF ServerRead, LinkTypes
    <3> HIDE DEF f
    <3>4. got' \in [Conns -> SUBSET Calls]
      <4>1. CASE got' = got
        BY <4>1 DEF LinkTypes
      <4>2. CASE f \in Calls /\ got' = [got EXCEPT ![k] = got[k] \cup {f}]
        <5>1. got \in [Conns -> SUBSET Calls] /\ got[k] \cup {f} \in SUBSET Calls
          BY <4>2 DEF LinkTypes
        <5> QED
          BY <4>2, <5>1
      <4> QED BY <3>3, <4>1, <4>2
    <3>5. out' \in [Conns -> Seq(Frames)]
      BY <1>1, <3>2 DEF LinkTypes, ServerRead
    <3> QED
      BY <1>1, <3>4, <3>5 DEF LinkTypes, RouterStep, ServerRead
  <2>4. OutInv'
    BY <1>1 DEF Started, OutInv, LinkTypes, ReadFirst, Frames, RouterStep,
      ServerRead, links, readers, fields, calls
  <2>5. GotInv'
    <3>1. out[k] \in Seq(Frames) /\ out[k] # <<>>
      BY <1>1 DEF LinkTypes, ServerRead
    <3>2. /\ Tail(out[k]) \in Seq(Frames)
          /\ Head(out[k]) = out[k][1] /\ 1 \in 1..Len(out[k])
      BY <3>1, TailFacts
    <3> DEFINE f == Head(out[k])
    <3>3. \/ got' = got
          \/ f \in Calls /\ got' = [got EXCEPT ![k] = got[k] \cup {f}]
      BY <1>1 DEF ServerRead, LinkTypes
    <3> HIDE DEF f
    <3>4. ASSUME NEW l \in Conns, NEW c \in got'[l]
          PROVE  c \in got[l] \/ (c = f /\ f \in Calls)
      <4>1. got \in [Conns -> SUBSET Calls]
        BY DEF LinkTypes
      <4>2. CASE l = k
        BY <3>3, <3>4, <4>1, <4>2
      <4>3. CASE l # k
        BY <3>3, <3>4, <4>1, <4>3
      <4> QED BY <4>2, <4>3
    <3>5. f \in Calls => Started(f)
      BY <3>2 DEF OutInv, f
    <3> QED
      BY <1>1, <3>4, <3>5 DEF GotInv, Started, RouterStep, calls
  <2> QED BY <2>1, <2>2, <2>3, <2>4, <2>5
<1>2. CASE Answer(k)
  <2>1. (CallTypes /\ FieldTypes /\ ReaderTypes /\ ReadFirst /\ LinkInv /\ LockInv /\ IdInv /\ OutInv /\ TurnInv /\ DemuxInv /\ SendInv /\ PanicOnlyAfterClose)'
    BY <1>2 DEF RouterStep, Answer, CallTypes, FieldTypes, ReaderTypes,
      ReadFirst, LinkInv, LockInv, IdInv, OutInv, TurnInv, DemuxInv, SendInv,
      PanicOnlyAfterClose, fields, calls, readers, links, Started
  <2>2. LinkTypes'
    BY <1>2 DEF LinkTypes, FieldTypes, ReadFirst, Frames, RouterStep, Answer,
      links, readers, fields, calls
  <2>3. GotInv'
    BY <1>2 DEF Started, GotInv, OutInv, LinkTypes, RouterStep, Answer, links,
      readers, fields, calls
  <2>4. InqInv'
    BY <1>2 DEF Started, InqInv, GotInv, LinkTypes, ReadFirst, RouterStep,
      Answer, links, readers, fields, calls
  <2> QED BY <2>1, <2>2, <2>3, <2>4
<1>3. CASE Break(k)
  <2>1. (CallTypes /\ FieldTypes /\ ReaderTypes /\ ReadFirst /\ LockInv /\ IdInv /\ OutInv /\ InqInv /\ TurnInv /\ DemuxInv /\ SendInv /\ PanicOnlyAfterClose)'
    BY <1>3 DEF RouterStep, Break, CallTypes, FieldTypes, ReaderTypes,
      ReadFirst, LockInv, IdInv, OutInv, InqInv, TurnInv, DemuxInv, SendInv,
      PanicOnlyAfterClose, fields, calls, readers, links, Started
  <2>2. LinkTypes'
    BY <1>3 DEF LinkTypes, FieldTypes, ReadFirst, Frames, RouterStep, Break,
      links, readers, fields, calls
  <2>3. LinkInv'
    BY <1>3, BoundsAssumption, NobodyAssumption DEF LinkInv, LockInv,
      CallTypes, LinkTypes, FieldTypes, Conns, RouterStep, Break, links,
      readers, fields, calls
  <2>4. GotInv'
    BY <1>3 DEF Started, GotInv, LinkTypes, RouterStep, Break, links, readers,
      fields, calls
  <2> QED BY <2>1, <2>2, <2>3, <2>4
<1> QED BY <1>1, <1>2, <1>3 DEF RouterStep

\* Cancelling the context of the handler keeps IInv.
LEMMA CancelKeepsInv ==
  ASSUME IInv, Cancel
  PROVE  IInv'
<1>1. (CallTypes /\ ReaderTypes /\ LinkTypes /\ ReadFirst)'
  BY DEF IInv, TypeOK, CallTypes, ReaderTypes, LinkTypes, ReadFirst, Cancel,
    calls, readers, links
<1>2. (FieldTypes /\ PanicOnlyAfterClose)'
  BY DEF IInv, TypeOK, FieldTypes, PanicOnlyAfterClose, Cancel
<1>3. (LinkInv /\ LockInv /\ IdInv)'
  BY DEF IInv, LinkInv, LockInv, IdInv, Cancel, calls, links
<1>4. (OutInv /\ GotInv /\ InqInv /\ TurnInv /\ DemuxInv /\ SendInv)'
  BY DEF IInv, OutInv, GotInv, InqInv, TurnInv, DemuxInv, SendInv, Started,
    Cancel, calls, readers, links
<1> QED BY <1>1, <1>2, <1>3, <1>4 DEF IInv, TypeOK

\* Handler.Close keeps IInv: it closes channels and sets closed in one
\* critical section, so that NoEntryLeft and PanicOnlyAfterClose have nothing
\* to say from then on.
LEMMA CloseKeepsInv ==
  ASSUME IInv, Close
  PROVE  IInv'
<1> USE DEF IInv, TypeOK
<1>1. (ReaderTypes /\ ReadFirst /\ IdInv /\ OutInv /\ TurnInv)'
  BY DEF ReaderTypes, ReadFirst, IdInv, OutInv, TurnInv, Started, Close, readers
<1>2. CallTypes'
  BY DEF CallTypes, Deliveries, Close
<1>3. (FieldTypes /\ PanicOnlyAfterClose)'
  BY DEF FieldTypes, PanicOnlyAfterClose, Close
<1>4. (LinkTypes /\ LinkInv)'
  BY DEF LinkTypes, LinkInv, FieldTypes, Close, CloseConn
<1>5. LockInv'
  BY DEF LockInv, Close
<1>6. (GotInv /\ InqInv)'
  BY DEF GotInv, InqInv, LinkTypes, Started, Close, CloseConn
<1>7. (DemuxInv /\ SendInv)'
  BY DEF DemuxInv, SendInv, Started, Close, readers
<1> QED BY <1>1, <1>2, <1>3, <1>4, <1>5, <1>6, <1>7

\* The state NewHandler returns in satisfies IInv.
LEMMA InitInv == Init => IInv
<1> SUFFICES ASSUME Init PROVE IInv
  OBVIOUS
<1> USE NobodyAssumption, BoundsAssumption DEF Init
<1>1. CallTypes
  BY DEF CallTypes
<1>2. FieldTypes
  <2>1. kpc \in {"off", "select"} /\ conn \in Conns
    BY ModeAssumption DEF Conns
  <2> QED BY <2>1 DEF FieldTypes, IDs, Frames
<1>3. ReaderTypes /\ ReadFirst
  <2>1. NewTurn \in Turns
    BY DEF NewTurn, Turns
  <2> QED BY <2>1 DEF ReaderTypes, ReadFirst
<1>4. LinkTypes /\ LinkInv
  BY DEF LinkTypes, LinkInv, Conns
<1>5. LockInv /\ IdInv
  BY DEF LockInv, IdInv
<1>6. OutInv /\ GotInv /\ InqInv
  BY DEF OutInv, GotInv, InqInv
<1>7. TurnInv /\ DemuxInv /\ SendInv
  BY DEF TurnInv, DemuxInv, SendInv, NewTurn, IDs
<1>8. PanicOnlyAfterClose
  BY DEF PanicOnlyAfterClose
<1> QED BY <1>1, <1>2, <1>3, <1>4, <1>5, <1>6, <1>7, <1>8 DEF IInv, TypeOK

\* A step that changes nothing keeps IInv.
LEMMA StutterKeepsInv ==
  ASSUME IInv, UNCHANGED vars
  PROVE  IInv'
<1> USE DEF IInv, TypeOK, vars, calls, fields, readers, links
<1>1. (CallTypes /\ FieldTypes /\ ReaderTypes /\ LinkTypes /\ ReadFirst)'
  BY DEF CallTypes, FieldTypes, ReaderTypes, LinkTypes, ReadFirst
<1>2. (LinkInv /\ LockInv /\ IdInv)'
  BY DEF LinkInv, LockInv, IdInv
<1>3. (OutInv /\ GotInv /\ InqInv /\ TurnInv /\ DemuxInv /\ SendInv)'
  BY DEF OutInv, GotInv, InqInv, TurnInv, DemuxInv, SendInv, Started
<1>4. PanicOnlyAfterClose'
  BY DEF PanicOnlyAfterClose
<1> QED BY <1>1, <1>2, <1>3, <1>4

\* IInv is an inductive invariant of the handler.
THEOREM Inductive == Spec => []IInv
<1>1. IInv /\ [Next]_vars => IInv'
  <2> SUFFICES ASSUME IInv, [Next]_vars PROVE IInv'
    OBVIOUS
  <2>1. ASSUME NEW c \in Calls, CallerStep(c) PROVE IInv'
    BY <2>1, CallerKeepsInv
  <2>2. ASSUME NEW c \in Calls, CallProgress(c) PROVE IInv'
    BY <2>2, CallKeepsInv
  <2>3. ASSUME NEW r \in Conns, ReaderStep(r) PROVE IInv'
    BY <2>3, ReaderKeepsInv
  <2>4. CASE KeepaliveStep
    BY <2>4, KeepaliveKeepsInv
  <2>5. CASE Cancel
    BY <2>5, CancelKeepsInv
  <2>6. CASE Close
    BY <2>6, CloseKeepsInv
  <2>7. ASSUME NEW k \in Conns, RouterStep(k) PROVE IInv'
    BY <2>7, RouterKeepsInv
  <2>8. CASE UNCHANGED vars
    BY <2>8, StutterKeepsInv
  <2> QED
    BY <2>1, <2>2, <2>3, <2>4, <2>5, <2>6, <2>7, <2>8
      DEF Next, Running, Finished
<1> QED BY <1>1, InitInv, PTL DEF Spec

\* Every variable keeps its type, and no goroutine uses a connection, a frame
\* or a channel it does not have.
THEOREM TypeCorrect == Spec => []TypeOK
<1>1. IInv => TypeOK
  BY DEF IInv
<1> QED BY <1>1, Inductive, PTL

\* No send on a closed channel before Close, however many readers, failures
\* and reconnects there are.
THEOREM SafeBeforeClose == Spec => []PanicOnlyAfterClose
<1>1. IInv => PanicOnlyAfterClose
  BY DEF IInv
<1> QED BY <1>1, Inductive, PTL

\* Until Close, demux holds calls that are still inside Execute only.
THEOREM MapDoesNotLeak == Spec => []NoEntryLeft
<1>1. IInv => NoEntryLeft
  BY DEF IInv, DemuxInv, NoEntryLeft
<1> QED BY <1>1, Inductive, PTL

\* All connections but the current one are closed.
THEOREM ConnectionsDoNotLeak == Spec => []OneConnection
<1>1. IInv => OneConnection
  BY BoundsAssumption DEF IInv, TypeOK, FieldTypes, LinkTypes, LinkInv, OneConnection, Conns
<1> QED BY <1>1, Inductive, PTL

-----------------------------------------------------------------------------
(* The keepalive                                                           *)

\* Close waits for the lock that the keepalive holds while it writes.
WriteInv == kpc = "write" => ~closed

\* Appending makes a sequence longer, and two sequences that are equal after
\* Append were extended by the same element.
LEMMA AppendDiffers ==
  ASSUME NEW S, NEW s \in Seq(S), NEW d \in S, NEW e \in S
  PROVE  /\ Append(s, e) # s
         /\ s # <<>> => Append(s, e) # Tail(s)
         /\ Append(s, d) = Append(s, e) => d = e
<1>1. Len(Append(s, e)) = Len(s) + 1 /\ Append(s, e)[Len(s) + 1] = e
  OBVIOUS
<1>2. Len(Append(s, d)) = Len(s) + 1 /\ Append(s, d)[Len(s) + 1] = d
  OBVIOUS
<1>3. Len(s) \in Nat
  OBVIOUS
<1>4. s # <<>> => Len(Tail(s)) = Len(s) - 1
  OBVIOUS
<1> QED BY <1>1, <1>2, <1>3, <1>4

\* WriteInv is inductive, given who holds the lock.
LEMMA StepKeepsWriteInv ==
  ASSUME IInv, WriteInv, [Next]_vars
  PROVE  WriteInv'
<1>1. CASE KeepaliveStep
  BY <1>1 DEF KeepaliveStep, KeepaliveTick, KeepaliveLock, KeepaliveWrite,
    KeepaliveStop, WriteInv
<1>2. CASE Close
  BY <1>2, NobodyAssumption DEF Close, WriteInv, IInv, LockInv
<1>3. CASE UNCHANGED <<kpc, closed>>
  BY <1>3 DEF WriteInv
<1>4. UNCHANGED vars => UNCHANGED <<kpc, closed>>
  BY DEF vars, fields
<1>5. \A c \in Calls : CallerStep(c) \/ CallProgress(c) => UNCHANGED <<kpc, closed>>
  BY DEF CallerStep, CallProgress
<1>6. \A r \in Conns : ReaderStep(r) => UNCHANGED <<kpc, closed>>
  BY DEF ReaderStep
<1>7. Cancel => UNCHANGED <<kpc, closed>>
  BY DEF Cancel
<1>8. \A k \in Conns : RouterStep(k) => UNCHANGED <<kpc, closed>>
  BY DEF RouterStep, fields
<1> QED
  BY <1>1, <1>2, <1>3, <1>4, <1>5, <1>6, <1>7, <1>8 DEF Next, Running, Finished

\* A step that puts a keepalive into a connection is the keepalive's write, to
\* the current connection, which is open.
LEMMA OnlyKeepaliveWrites ==
  ASSUME IInv, [Next]_vars, NEW k \in Conns, out'[k] = Append(out[k], Keepalive)
  PROVE  kpc = "write" /\ k = conn /\ cstate[k] = "open"
<1> USE DEF IInv, TypeOK
<1>1. out[k] \in Seq(Frames) /\ Keepalive \in Frames /\ Calls \subseteq Frames
  BY DEF LinkTypes, Frames
<1>2. out'[k] # out[k] /\ (out[k] # <<>> => out'[k] # Tail(out[k]))
  BY <1>1, AppendDiffers
<1>3. \A c \in Calls : out'[k] # Append(out[k], c)
  BY <1>1, AppendDiffers, NobodyAssumption
<1>4. CASE KeepaliveStep
  BY <1>2, <1>4 DEF KeepaliveStep, KeepaliveTick, KeepaliveLock, KeepaliveWrite,
    KeepaliveStop, LinkTypes, FieldTypes
<1>5. UNCHANGED out => FALSE
  BY <1>2
<1>6. ASSUME NEW c \in Calls, CallerStep(c) PROVE UNCHANGED out
  BY <1>6 DEF CallerStep, NextID, CtxEnds, GiveUp, links
<1>7. ASSUME NEW c \in Calls, CallProgress(c), ~WriteOK(c) PROVE UNCHANGED out
  BY <1>7 DEF CallProgress, Register, LoadConn, WriteFail, Receive, Timeout,
    GiveUp, Cleanup, ReconnectClose, DialOK, DialFail, links
<1>8. ASSUME NEW c \in Calls, WriteOK(c) PROVE FALSE
  <2>1. UNCHANGED out \/ out' = [out EXCEPT ![wconn[c]] = Append(out[wconn[c]], c)]
    BY <1>8 DEF WriteOK
  <2> QED BY <1>2, <1>3, <2>1 DEF LinkTypes
<1>9. ASSUME NEW r \in Conns, ReaderStep(r) PROVE UNCHANGED out
  BY <1>9 DEF ReaderStep
<1>10. ASSUME NEW j \in Conns, RouterStep(j) PROVE FALSE
  <2>1. UNCHANGED out \/ (out[j] # <<>> /\ out' = [out EXCEPT ![j] = Tail(out[j])])
    BY <1>10 DEF RouterStep, ServerRead, Answer, Break
  <2> QED BY <1>2, <2>1 DEF LinkTypes
<1>11. Cancel \/ Close \/ UNCHANGED vars => UNCHANGED out
  BY DEF Cancel, Close, vars, links
<1> QED
  BY <1>4, <1>5, <1>6, <1>7, <1>8, <1>9, <1>10, <1>11 DEF Next, Running, Finished

\* A keepalive only goes out on the current connection of an open handler.
THEOREM KeepaliveCorrect == Spec => KeepaliveOnCurrent
<1>1. Init => WriteInv
  BY DEF Init, WriteInv
<1>2. IInv /\ WriteInv /\ [Next]_vars => WriteInv'
  BY StepKeepsWriteInv
<1>3. IInv /\ WriteInv /\ [Next]_vars =>
        [\A k \in Conns : out'[k] = Append(out[k], Keepalive)
           => k = conn /\ cstate[k] = "open" /\ ~closed]_vars
  BY OnlyKeepaliveWrites DEF WriteInv
<1> QED BY <1>1, <1>2, <1>3, Inductive, PTL DEF Spec, KeepaliveOnCurrent
=============================================================================
