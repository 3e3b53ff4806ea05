---------------------------------- MODULE Ids ----------------------------------
(***************************************************************************)
(* The request ids of the handler over a life of any length: nextID is a   *)
(* uint32 that wraps around, Execute registers a channel under the id and  *)
(* removes what it finds there, and readLoop hands an answer to whoever    *)
(* is registered under the id it carries (internal/client/handler.go).     *)
(*                                                                         *)
(* Callers call Execute again and again.  A call, and a frame of it, is    *)
(* known by its age: how many ids were handed out since its own.  Ages are *)
(* not in the program; they tell calls with the same id apart.             *)
(***************************************************************************)
EXTENDS Integers

CONSTANTS
  Callers,           \* goroutines that use the client
  NoCaller,          \* nobody: an absent entry of demux
  IDs,               \* how many ids there are: 2^32 in the program
  Window,            \* ids handed out while a call or a frame of it is alive
  AnswersKeepalive   \* whether the router answers the keepalive

ASSUME CallersAssumption == NoCaller \notin Callers
ASSUME WindowAssumption ==
  IDs \in Nat \ {0} /\ Window \in Nat /\ Window < IDs
ASSUME KeepaliveAssumption == AnswersKeepalive \in BOOLEAN

VARIABLES
  nextID, demux,
  pc,    \* pc[c]: where caller c is in Execute, "idle" outside
  id,    \* id[c]: the id of its call
  age,   \* age[c]: the age of its call
  got,   \* got[c]: what was sent on the channel of its call
  wire,  \* requests and answers of connections, as [id, age]
  beat   \* an answer to a keepalive, whose id is 0, is on the way

vars == <<nextID, demux, pc, id, age, got, wire, beat>>

Active == {c \in Callers : pc[c] # "idle"}

Init ==
  /\ nextID = 0 /\ demux = [i \in 0..IDs - 1 |-> NoCaller]
  /\ pc = [c \in Callers |-> "idle"] /\ id = [c \in Callers |-> 0]
  /\ age = [c \in Callers |-> 0] /\ got = [c \in Callers |-> "none"]
  /\ wire = {} /\ beat = FALSE

Goto(c, label) == pc' = [pc EXCEPT ![c] = label]

-----------------------------------------------------------------------------
(* Execute                                                                 *)

\* A fault: the counter does not wrap around.
SuccessorUnbounded(i) == i + 1

\* The next uint32.
Successor(i) == IF i = IDs - 1 THEN 0 ELSE i + 1

\* A fault: the counter is loaded and stored, and another call loads it in
\* between.
NextIDTorn(c) ==
  /\ pc[c] = "idle" /\ Goto(c, "lock")
  /\ \A d \in Active : age[d] < Window
  /\ \A f \in wire : f.age < Window
  /\ nextID' \in {nextID, Successor(nextID)}
  /\ id' = [id EXCEPT ![c] = Successor(nextID)]
  /\ age' = [d \in Callers |-> IF d \in Active THEN age[d] + 1 ELSE 0]
  /\ wire' = {[id |-> f.id, age |-> f.age + 1] : f \in wire}
  /\ got' = [got EXCEPT ![c] = "none"]
  /\ UNCHANGED <<demux, beat>>

\* NextID, while fewer than Window ids were handed out since any that is still
\* in use: a call lasts no longer than its timeout, an answer no longer than
\* the router takes, and 2^32 calls take hours.
NextID(c) ==
  /\ pc[c] = "idle" /\ Goto(c, "lock")
  /\ \A d \in Active : age[d] < Window
  /\ \A f \in wire : f.age < Window
  /\ nextID' = Successor(nextID)
  /\ id' = [id EXCEPT ![c] = nextID']
  /\ age' = [d \in Callers |-> IF d \in Active THEN age[d] + 1 ELSE 0]
  /\ wire' = {[id |-> f.id, age |-> f.age + 1] : f \in wire}
  /\ got' = [got EXCEPT ![c] = "none"]
  /\ UNCHANGED <<demux, beat>>

\* The entry is made, whatever stands there.
Register(c) ==
  /\ pc[c] = "lock" /\ Goto(c, "write")
  /\ demux' = [demux EXCEPT ![id[c]] = c]
  /\ UNCHANGED <<nextID, id, age, got, wire, beat>>

Write(c) ==
  /\ pc[c] = "write"
  /\ \/ Goto(c, "wait") /\ wire' = wire \cup {[id |-> id[c], age |-> age[c]]}
     \/ Goto(c, "clean") /\ UNCHANGED wire
  /\ UNCHANGED <<nextID, demux, id, age, got, beat>>

\* The call returns what is on its channel.
Receive(c) ==
  /\ pc[c] = "wait" /\ Goto(c, "idle")
  /\ got[c] # "none"
  /\ UNCHANGED <<nextID, demux, id, age, got, wire, beat>>

\* The context of the caller ends, or the timer fires.
GiveUp(c) ==
  /\ pc[c] = "wait" /\ Goto(c, "clean")
  /\ UNCHANGED <<nextID, demux, id, age, got, wire, beat>>

\* A fault: the entry of the newest call is removed.
CleanupNewest(c) ==
  /\ pc[c] = "clean" /\ Goto(c, "idle")
  /\ demux' = [demux EXCEPT ![nextID] = NoCaller]
  /\ UNCHANGED <<nextID, id, age, got, wire, beat>>

\* The entry under the id is removed, whoever made it.
Cleanup(c) ==
  /\ pc[c] = "clean" /\ Goto(c, "idle")
  /\ demux' = [demux EXCEPT ![id[c]] = NoCaller]
  /\ UNCHANGED <<nextID, id, age, got, wire, beat>>

-----------------------------------------------------------------------------
(* readLoop                                                                *)

\* What the caller registered under id i, if any, finds on its channel.
Send(i, what) ==
  /\ demux' = [demux EXCEPT ![i] = NoCaller]
  /\ got' = [c \in Callers |-> IF c = demux[i] THEN what ELSE got[c]]

\* An answer is handed to the call registered under its id, its own or not.
Deliver(f) ==
  /\ f \in wire /\ wire' = wire \ {f}
  /\ Send(f.id, IF demux[f.id] \in Callers /\ age[demux[f.id]] = f.age
                THEN "own" ELSE "other")
  /\ UNCHANGED <<nextID, pc, id, age, beat>>

\* And so is what answers a keepalive.
DeliverBeat ==
  /\ beat /\ beat' = FALSE
  /\ Send(0, "other")
  /\ UNCHANGED <<nextID, pc, id, age, wire>>

\* failAll: the zero RawResult for everyone.
FailAll ==
  /\ got' = [c \in Callers |->
       IF \E i \in 0..IDs - 1 : demux[i] = c THEN "empty" ELSE got[c]]
  /\ demux' = [i \in 0..IDs - 1 |-> NoCaller]
  /\ UNCHANGED <<nextID, pc, id, age, wire, beat>>

-----------------------------------------------------------------------------
(* The connections and the router                                          *)

\* A frame is lost, with its connection or in the router.
Lose(f) ==
  /\ f \in wire /\ wire' = wire \ {f}
  /\ UNCHANGED <<nextID, demux, pc, id, age, got, beat>>

Keepalive ==
  /\ AnswersKeepalive /\ ~beat /\ beat' = TRUE
  /\ UNCHANGED <<nextID, demux, pc, id, age, got, wire>>

Next ==
  \/ \E c \in Callers :
       \/ NextID(c) \/ Register(c) \/ Write(c)
       \/ Receive(c) \/ GiveUp(c) \/ Cleanup(c)
  \/ \E f \in wire : Deliver(f) \/ Lose(f)
  \/ DeliverBeat \/ FailAll \/ Keepalive

Spec == Init /\ [][Next]_vars

-----------------------------------------------------------------------------
Frames == [id : 0..IDs - 1, age : 0..Window]

\* Every variable has its type; a call and a frame are never older than the
\* window, which keeps the ages within the ids (NextID).
TypeOK ==
  /\ nextID \in 0..IDs - 1
  /\ demux \in [0..IDs - 1 -> Callers \cup {NoCaller}]
  /\ pc \in [Callers -> {"idle", "lock", "write", "wait", "clean"}]
  /\ id \in [Callers -> 0..IDs - 1]
  /\ age \in [Callers -> 0..Window]
  /\ got \in [Callers -> {"none", "own", "other", "empty"}]
  /\ wire \subseteq Frames
  /\ beat \in BOOLEAN

\* However often the ids have wrapped around, no call gets the answer of
\* another: the one call in 2^32 with the id of the keepalive is alone in
\* getting what is not its own, if the router answers keepalives (nextID,
\* demux, keepaliveLoop).
OwnAnswer ==
  \A c \in Active : got[c] = "other" => id[c] = 0 /\ AnswersKeepalive

\* However often the ids have wrapped around, a call that waits is found under
\* its id: no other call has taken its entry or removed it (Execute, cleanup).
Reachable ==
  \A c \in Callers :
    pc[c] \in {"write", "wait"} /\ got[c] = "none" => demux[id[c]] = c
=============================================================================
