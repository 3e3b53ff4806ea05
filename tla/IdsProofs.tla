------------------------------- MODULE IdsProofs -------------------------------
(***************************************************************************)
(* Answers meet their own calls for every number of ids and of callers:    *)
(* the ids of what is alive are as far behind nextID as it is old, so that *)
(* two of one id would be of one age, since the window is smaller than the *)
(* number of ids.                                                          *)
(***************************************************************************)
EXTENDS Ids, TLAPS

\* The id that was handed out a ids ago.
Back(a) == IF nextID >= a THEN nextID - a ELSE nextID - a + IDs

\* The id of everything alive tells its age.
Numbered ==
  /\ \A c \in Active : id[c] = Back(age[c])
  /\ \A f \in wire : f.id = Back(f.age)

AgesDiffer == \A c, d \in Active : age[c] = age[d] => c = d

\* An entry is the one of the call with its id, which has not been answered.
EntryIsOwn ==
  \A i \in 0..IDs - 1 : demux[i] # NoCaller =>
    /\ pc[demux[i]] \in {"write", "wait", "clean"}
    /\ id[demux[i]] = i
    /\ got[demux[i]] = "none"

NewCall == \A c \in Callers : pc[c] = "lock" => got[c] = "none"

BeatIsAnswer == beat => AnswersKeepalive

\* The inductive invariant.
IInv ==
  /\ TypeOK /\ Numbered /\ AgesDiffer /\ EntryIsOwn /\ NewCall
  /\ BeatIsAnswer /\ Reachable /\ OwnAnswer

-----------------------------------------------------------------------------
\* Ids are handed out one after the other: the ids of two different ages
\* within the window differ.
LEMMA BackInjective ==
  ASSUME TypeOK, NEW a \in 0..Window, NEW b \in 0..Window, Back(a) = Back(b)
  PROVE  a = b
  BY WindowAssumption DEF TypeOK, Back

\* What is alive when an id is handed out is as old as before and one more.
LEMMA BackShifts ==
  ASSUME TypeOK, nextID' = Successor(nextID)
  PROVE  /\ Back(0)' = nextID'
         /\ \A a \in 0..Window : a < Window => Back(a + 1)' = Back(a)
  BY WindowAssumption DEF TypeOK, Back, Successor

\* Within a window no two calls have one id.
LEMMA IdsDiffer ==
  ASSUME TypeOK, Numbered, AgesDiffer, NEW c \in Active, NEW d \in Active, id[c] = id[d]
  PROVE  c = d
  <1>1. age[c] \in 0..Window /\ age[d] \in 0..Window
    BY DEF TypeOK, Active
  <1>2. Back(age[c]) = Back(age[d])
    BY DEF Numbered
  <1> QED BY <1>1, <1>2, BackInjective DEF AgesDiffer

\* The invariant holds at the start.
LEMMA InitInv == Init => IInv
  <1> SUFFICES ASSUME Init PROVE IInv
    OBVIOUS
  <1> USE DEF Init, Active
  <1>1. TypeOK
    <2>1. 0 \in 0..IDs - 1 /\ 0 \in 0..Window
      BY WindowAssumption
    <2> QED BY <2>1 DEF TypeOK
  <1>2. Numbered /\ AgesDiffer /\ EntryIsOwn /\ NewCall
    BY DEF Numbered, AgesDiffer, EntryIsOwn, NewCall
  <1>3. Reachable /\ OwnAnswer /\ BeatIsAnswer
    BY DEF Reachable, OwnAnswer, BeatIsAnswer
  <1> QED BY <1>1, <1>2, <1>3 DEF IInv

-----------------------------------------------------------------------------
\* Taking an id, which makes everything alive older by one, preserves the
\* invariant.
LEMMA NextIDInv ==
  ASSUME IInv, NEW c \in Callers, NextID(c) PROVE IInv'
  <1> USE DEF IInv
  <1>1. nextID' \in 0..IDs - 1 /\ nextID' = Successor(nextID)
    BY WindowAssumption DEF NextID, TypeOK, Successor
  <1>2. Active' = Active \cup {c} /\ c \notin Active
    BY DEF NextID, Goto, Active, TypeOK
  <1>3. /\ age'[c] = 0
        /\ \A d \in Active : age'[d] = age[d] + 1 /\ age[d] \in 0..Window /\ age[d] < Window
    BY <1>2 DEF NextID, TypeOK, Active
  <1>4. \A d \in Callers : d # c => pc'[d] = pc[d] /\ id'[d] = id[d] /\ got'[d] = got[d]
    BY DEF NextID, Goto, TypeOK
  <1>5. pc'[c] = "lock" /\ id'[c] = nextID' /\ got'[c] = "none"
    BY DEF NextID, Goto, TypeOK
  <1>6. \A g \in wire' : \E f \in wire :
          /\ g = [id |-> f.id, age |-> f.age + 1]
          /\ f \in Frames /\ f.age < Window
    BY DEF NextID, TypeOK
  <1>7. TypeOK'
    <2>1. age' \in [Callers -> 0..Window]
      BY <1>3, WindowAssumption DEF NextID, Active
    <2>2. wire' \subseteq Frames'
      BY <1>6, WindowAssumption DEF Frames
    <2> QED BY <1>1, <2>1, <2>2 DEF NextID, Goto, TypeOK
  <1>8. Numbered'
    <2>1. ASSUME NEW d \in Active' PROVE (id[d] = Back(age[d]))'
      <3>1. CASE d = c
        BY <3>1, <1>1, <1>3, <1>5, BackShifts
      <3>2. CASE d # c
        BY <3>2, <1>1, <1>2, <1>3, <1>4, <2>1, BackShifts DEF Numbered, Active
      <3> QED BY <3>1, <3>2
    <2>2. ASSUME NEW g \in wire' PROVE g.id = Back(g.age)'
      <3>1. PICK f \in wire : g = [id |-> f.id, age |-> f.age + 1]
                              /\ f \in Frames /\ f.age < Window
        BY <1>6
      <3>2. f.age \in 0..Window /\ g.age = f.age + 1 /\ g.id = f.id
        BY <3>1 DEF Frames
      <3> QED BY <1>1, <3>1, <3>2, BackShifts DEF Numbered
    <2> QED BY <2>1, <2>2 DEF Numbered
  <1>9. AgesDiffer'
    BY <1>2, <1>3 DEF AgesDiffer
  <1>10. EntryIsOwn' /\ NewCall'
    <2>1. ASSUME NEW i \in 0..IDs - 1, demux[i] # NoCaller
          PROVE demux[i] \in Callers /\ demux[i] # c
      <3>1. pc[c] = "idle" /\ pc[demux[i]] \in {"write", "wait", "clean"}
        BY <2>1 DEF NextID, EntryIsOwn
      <3>2. demux[i] \in Callers
        BY <2>1 DEF TypeOK
      <3> QED BY <3>1, <3>2
    <2>2. EntryIsOwn'
      BY <2>1, <1>4 DEF EntryIsOwn, NextID
    <2>3. NewCall'
      BY <1>4, <1>5 DEF NewCall
    <2> QED BY <2>2, <2>3
  <1>11. Reachable'
    BY <1>4, <1>5 DEF Reachable, NextID
  <1>12. OwnAnswer' /\ BeatIsAnswer'
    BY <1>2, <1>4, <1>5 DEF OwnAnswer, Active, BeatIsAnswer, NextID
  <1> QED BY <1>7, <1>8, <1>9, <1>10, <1>11, <1>12

\* Registering overwrites nobody.
LEMMA RegisterInv ==
  ASSUME IInv, NEW c \in Callers, Register(c) PROVE IInv'
  <1> USE DEF IInv
  <1>1. Active' = Active /\ c \in Active
    BY DEF Register, Goto, Active, TypeOK
  <1>2. TypeOK'
    BY DEF Register, Goto, TypeOK, Frames
  <1>3. Numbered' /\ AgesDiffer' /\ BeatIsAnswer' /\ OwnAnswer'
    BY <1>1 DEF BeatIsAnswer, Register, Numbered, AgesDiffer, OwnAnswer, Back
  <1>4. EntryIsOwn' /\ NewCall'
    BY CallersAssumption DEF Register, Goto, EntryIsOwn, NewCall, TypeOK
  <1>5. Reachable'
    <2> SUFFICES ASSUME NEW d \in Callers, pc'[d] \in {"write", "wait"}, got'[d] = "none"
                 PROVE demux'[id'[d]] = d
      BY DEF Reachable
    <2>1. CASE d = c
      BY <2>1 DEF Register, TypeOK
    <2>2. CASE d # c
      <3>1. d \in Active /\ id[d] # id[c]
        BY <2>2, <1>1, IdsDiffer DEF Register, Goto, TypeOK, Active
      <3> QED BY <2>2, <3>1 DEF Register, Goto, Reachable, TypeOK
    <2> QED BY <2>1, <2>2
  <1> QED BY <1>2, <1>3, <1>4, <1>5

\* A frame has the id and the age of its call.
LEMMA WriteInv ==
  ASSUME IInv, NEW c \in Callers, Write(c) PROVE IInv'
  <1> USE DEF IInv
  <1>1. Active' = Active /\ c \in Active
    BY DEF Write, Goto, Active, TypeOK
  <1>2. TypeOK'
    <2>1. [id |-> id[c], age |-> age[c]] \in Frames
      BY DEF TypeOK, Frames
    <2>2. pc' \in [Callers -> {"idle", "lock", "write", "wait", "clean"}]
      BY DEF Write, Goto, TypeOK
    <2>3. wire' \subseteq Frames /\ Frames' = Frames
      BY <2>1 DEF Write, TypeOK, Frames
    <2> QED BY <2>2, <2>3 DEF Write, TypeOK
  <1>3. AgesDiffer' /\ BeatIsAnswer' /\ OwnAnswer'
    BY <1>1 DEF BeatIsAnswer, Write, AgesDiffer, OwnAnswer
  <1>4. Numbered'
    BY <1>1 DEF Write, Numbered, Back
  <1>5. /\ pc[c] = "write" /\ pc'[c] \in {"wait", "clean"}
        /\ \A d \in Callers : d # c => pc'[d] = pc[d]
    BY DEF Write, Goto, TypeOK
  <1>6. UNCHANGED <<nextID, demux, id, age, got>>
    BY DEF Write
  <1>7. EntryIsOwn'
    BY <1>5, <1>6 DEF EntryIsOwn, TypeOK
  <1>8. NewCall' /\ Reachable'
    BY <1>5, <1>6 DEF NewCall, Reachable
  <1> QED BY <1>2, <1>3, <1>4, <1>7, <1>8

\* A call that has its answer is no longer active.
LEMMA ReceiveInv ==
  ASSUME IInv, NEW c \in Callers, Receive(c) PROVE IInv'
  <1> USE DEF IInv
  <1>1. Active' = Active \ {c}
    BY DEF Receive, Goto, Active, TypeOK
  <1>2. TypeOK'
    BY DEF Receive, Goto, TypeOK, Frames
  <1>3. Numbered' /\ AgesDiffer' /\ BeatIsAnswer' /\ OwnAnswer'
    BY <1>1 DEF BeatIsAnswer, Receive, Numbered, AgesDiffer, OwnAnswer, Back
  <1>4. EntryIsOwn' /\ NewCall' /\ Reachable'
    BY DEF Receive, Goto, EntryIsOwn, NewCall, Reachable, TypeOK
  <1> QED BY <1>2, <1>3, <1>4

\* Giving up changes only where the call is.
LEMMA GiveUpInv ==
  ASSUME IInv, NEW c \in Callers, GiveUp(c) PROVE IInv'
  <1> USE DEF IInv
  <1>1. Active' = Active
    BY DEF GiveUp, Goto, Active, TypeOK
  <1>2. TypeOK'
    BY DEF GiveUp, Goto, TypeOK, Frames
  <1>3. Numbered' /\ AgesDiffer' /\ BeatIsAnswer' /\ OwnAnswer'
    BY <1>1 DEF BeatIsAnswer, GiveUp, Numbered, AgesDiffer, OwnAnswer, Back
  <1>4. EntryIsOwn' /\ NewCall' /\ Reachable'
    BY DEF GiveUp, Goto, EntryIsOwn, NewCall, Reachable, TypeOK
  <1> QED BY <1>2, <1>3, <1>4

\* Cleaning up removes no entry but the own one.
LEMMA CleanupInv ==
  ASSUME IInv, NEW c \in Callers, Cleanup(c) PROVE IInv'
  <1> USE DEF IInv
  <1>1. Active' = Active \ {c} /\ c \in Active
    BY DEF Cleanup, Goto, Active, TypeOK
  <1>2. TypeOK'
    BY DEF Cleanup, Goto, TypeOK, Frames
  <1>3. Numbered' /\ AgesDiffer' /\ BeatIsAnswer' /\ OwnAnswer'
    BY <1>1 DEF BeatIsAnswer, Cleanup, Numbered, AgesDiffer, OwnAnswer, Back
  <1>4. EntryIsOwn' /\ NewCall'
    BY DEF Cleanup, Goto, EntryIsOwn, NewCall, TypeOK
  <1>5. Reachable'
    <2> SUFFICES ASSUME NEW d \in Callers, pc'[d] \in {"write", "wait"}, got'[d] = "none"
                 PROVE demux'[id'[d]] = d
      BY DEF Reachable
    <2>1. d # c /\ d \in Active
      BY DEF Cleanup, Goto, TypeOK, Active
    <2>2. id[d] # id[c]
      BY <2>1, <1>1, IdsDiffer
    <2> QED BY <2>1, <2>2 DEF Cleanup, Goto, Reachable, TypeOK
  <1> QED BY <1>2, <1>3, <1>4, <1>5

-----------------------------------------------------------------------------
\* A send under id i wakes only the call registered there.
LEMMA SendInv ==
  ASSUME IInv, NEW i \in 0..IDs - 1, NEW what \in {"own", "other"}, Send(i, what),
         UNCHANGED <<nextID, pc, id, age>>, wire' \subseteq wire,
         beat' \in BOOLEAN, beat' => beat,
         what = "other" /\ demux[i] # NoCaller => i = 0 /\ AnswersKeepalive
  PROVE  IInv'
  <1> USE DEF IInv
  <1>1. Active' = Active
    BY DEF Active
  <1>2. TypeOK'
    BY DEF Send, TypeOK, Frames
  <1>3. Numbered' /\ AgesDiffer' /\ BeatIsAnswer'
    BY <1>1 DEF BeatIsAnswer, Numbered, AgesDiffer, Back
  <1>4. \A c \in Callers : c # demux[i] => got'[c] = got[c]
    BY DEF Send
  <1>5. demux[i] \in Callers =>
          got'[demux[i]] = what /\ id[demux[i]] = i
          /\ pc[demux[i]] \in {"write", "wait", "clean"}
    BY CallersAssumption DEF Send, EntryIsOwn
  <1>6. EntryIsOwn'
    <2> SUFFICES ASSUME NEW j \in 0..IDs - 1, demux'[j] # NoCaller
                 PROVE /\ pc'[demux'[j]] \in {"write", "wait", "clean"}
                       /\ id'[demux'[j]] = j /\ got'[demux'[j]] = "none"
      BY DEF EntryIsOwn
    <2>1. j # i /\ demux'[j] = demux[j] /\ demux[j] \in Callers
      BY DEF Send, TypeOK
    <2>2. demux[j] # demux[i]
      BY <2>1, <1>5 DEF EntryIsOwn
    <2> QED BY <2>1, <2>2, <1>4 DEF EntryIsOwn
  <1>7. NewCall'
    BY <1>4, <1>5 DEF NewCall
  <1>8. Reachable'
    BY <1>4, <1>5 DEF Reachable, Send, TypeOK
  <1>9. OwnAnswer'
    <2> SUFFICES ASSUME NEW c \in Active, got'[c] = "other"
                 PROVE id[c] = 0 /\ AnswersKeepalive
      BY <1>1 DEF OwnAnswer
    <2>1. CASE c # demux[i]
      BY <2>1, <1>4 DEF OwnAnswer, Active
    <2>2. CASE c = demux[i]
      BY <2>2, <1>5, CallersAssumption DEF Active
    <2> QED BY <2>1, <2>2
  <1> QED BY <1>2, <1>3, <1>6, <1>7, <1>8, <1>9

\* An answer meets the entry of its own call, or none.
LEMMA DeliverInv ==
  ASSUME IInv, NEW f \in wire, Deliver(f) PROVE IInv'
  <1> USE DEF IInv
  <1>1. f.id \in 0..IDs - 1 /\ f.age \in 0..Window
    BY DEF TypeOK, Frames
  <1>2. demux[f.id] \in Callers => age[demux[f.id]] = f.age
    <2> SUFFICES ASSUME demux[f.id] \in Callers PROVE age[demux[f.id]] = f.age
      OBVIOUS
    <2>1. demux[f.id] \in Active /\ id[demux[f.id]] = f.id
      BY <1>1, CallersAssumption DEF EntryIsOwn, Active
    <2>2. Back(age[demux[f.id]]) = Back(f.age)
      BY <2>1 DEF Numbered
    <2> QED BY <1>1, <2>1, <2>2, BackInjective DEF TypeOK, Active
  <1> DEFINE what == IF demux[f.id] \in Callers /\ age[demux[f.id]] = f.age
                     THEN "own" ELSE "other"
  <1>3. what = "other" => demux[f.id] = NoCaller
    BY <1>1, <1>2 DEF TypeOK
  <1>4. Send(f.id, what) /\ UNCHANGED <<nextID, pc, id, age>>
        /\ wire' \subseteq wire /\ beat' \in BOOLEAN /\ beat' = beat
    BY DEF Deliver, TypeOK
  <1>5. what \in {"own", "other"}
    OBVIOUS
  <1> HIDE DEF what
  <1> QED BY <1>1, <1>3, <1>4, <1>5, SendInv

\* failAll leaves no entry.
LEMMA FailAllInv ==
  ASSUME IInv, FailAll PROVE IInv'
  <1> USE DEF IInv
  <1>1. Active' = Active
    BY DEF FailAll, Active
  <1>2. TypeOK'
    BY DEF FailAll, TypeOK, Frames
  <1>3. Numbered' /\ AgesDiffer' /\ BeatIsAnswer'
    BY <1>1 DEF BeatIsAnswer, FailAll, Numbered, AgesDiffer, Back
  <1>4. EntryIsOwn' /\ NewCall'
    BY CallersAssumption DEF FailAll, EntryIsOwn, NewCall
  <1>5. Reachable'
    BY DEF FailAll, Reachable, TypeOK
  <1>6. OwnAnswer'
    BY <1>1 DEF FailAll, OwnAnswer, Active
  <1> QED BY <1>2, <1>3, <1>4, <1>5, <1>6

\* Losing frames and sending keepalives take nothing from a call.
LEMMA OtherInv ==
  ASSUME IInv, (\E f \in wire : Lose(f)) \/ Keepalive \/ UNCHANGED vars
  PROVE  IInv'
  <1> USE DEF IInv
  <1>1. UNCHANGED <<nextID, demux, pc, id, age, got>> /\ wire' \subseteq wire
        /\ beat' \in BOOLEAN /\ Active' = Active
    BY DEF Lose, Keepalive, vars, TypeOK, Active
  <1>2. TypeOK'
    BY <1>1 DEF TypeOK, Frames
  <1>3. Numbered' /\ AgesDiffer' /\ EntryIsOwn'
    BY <1>1 DEF Numbered, AgesDiffer, EntryIsOwn, Back
  <1>4. NewCall' /\ Reachable' /\ OwnAnswer'
    BY <1>1 DEF NewCall, Reachable, OwnAnswer
  <1>5. BeatIsAnswer'
    BY DEF Lose, Keepalive, vars, BeatIsAnswer
  <1> QED BY <1>2, <1>3, <1>4, <1>5

\* Every action preserves the invariant.
LEMMA StepInv == IInv /\ [Next]_vars => IInv'
  <1> SUFFICES ASSUME IInv, [Next]_vars PROVE IInv'
    OBVIOUS
  <1>1. CASE \E c \in Callers :
               \/ NextID(c) \/ Register(c) \/ Write(c)
               \/ Receive(c) \/ GiveUp(c) \/ Cleanup(c)
    BY <1>1, NextIDInv, RegisterInv, WriteInv, ReceiveInv, GiveUpInv, CleanupInv
  <1>2. CASE \E f \in wire : Deliver(f)
    BY <1>2, DeliverInv
  <1>3. CASE DeliverBeat
    <2>1. AnswersKeepalive /\ 0 \in 0..IDs - 1
      BY <1>3, WindowAssumption DEF DeliverBeat, IInv, BeatIsAnswer
    <2>2. /\ Send(0, "other") /\ UNCHANGED <<nextID, pc, id, age>>
          /\ wire' \subseteq wire /\ beat' = FALSE
      BY <1>3 DEF DeliverBeat
    <2> QED BY <2>1, <2>2, SendInv
  <1>4. CASE FailAll
    BY <1>4, FailAllInv
  <1>5. CASE (\E f \in wire : Lose(f)) \/ Keepalive \/ UNCHANGED vars
    BY <1>5, OtherInv
  <1> QED BY <1>1, <1>2, <1>3, <1>4, <1>5 DEF Next

\* The invariant holds in every reachable state.
LEMMA Invariance == Spec => []IInv
  BY InitInv, StepInv, PTL DEF Spec

-----------------------------------------------------------------------------
\* Type correctness, and the ages within the window.
THEOREM TypeCorrect == Spec => []TypeOK
  <1>1. IInv => TypeOK
    BY DEF IInv
  <1> QED BY <1>1, Invariance, PTL

\* For every number of callers and of ids: no call gets the answer of another
\* (OwnAnswer).
THEOREM AnswersMeetTheirCalls == Spec => []OwnAnswer
  <1>1. IInv => OwnAnswer
    BY DEF IInv
  <1> QED BY <1>1, Invariance, PTL

\* For every number of callers and of ids: no call loses its entry to another
\* (Reachable).
THEOREM WaitingCallsAreFound == Spec => []Reachable
  <1>1. IInv => Reachable
    BY DEF IInv
  <1> QED BY <1>1, Invariance, PTL
===============================================================================
