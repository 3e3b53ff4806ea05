--------------------------------- MODULE Rpc ---------------------------------
(***************************************************************************)
(* What the handler promises to the command layer: a call of Execute runs  *)
(* its request on the router at most once, returns once, and              *)
(*   - returns an answer only when its own request ran,                    *)
(*   - returns "refused" (closed handler, failed write) only when its      *)
(*     request never runs, so that the caller may safely repeat it,        *)
(*   - returns a damaged answer, with a nil error, only when its own       *)
(*     request ran: bytes of something else are in the place of some of    *)
(*     the answer's,                                                       *)
(*   - otherwise fails, or returns a void result with a nil error, and the *)
(*     caller cannot tell: the request may have run, may never run, or may *)
(*     still run after the call returned.                                  *)
(***************************************************************************)
EXTENDS Naturals

CONSTANT Calls

VARIABLES
  status,  \* status[c]: "idle", "pending", or how the call returned
  runs     \* runs[c]: how many times the router executed the request of c

vars == <<status, runs>>

\* How a call can return.
Results == {"answered", "damaged", "refused", "failed", "void"}

Init ==
  /\ status = [c \in Calls |-> "idle"]
  /\ runs = [c \in Calls |-> 0]

Invoke(c) ==
  /\ status[c] = "idle"
  /\ status' = [status EXCEPT ![c] = "pending"]
  /\ UNCHANGED runs

\* The router executes the request, perhaps after the call gave up.
Run(c) ==
  /\ status[c] \notin {"idle", "refused"}
  /\ runs[c] = 0
  /\ runs' = [runs EXCEPT ![c] = 1]
  /\ UNCHANGED status

Return(c, how) ==
  /\ status[c] = "pending"
  /\ how \in {"answered", "damaged"} => runs[c] = 1
  /\ how = "refused"  => runs[c] = 0
  /\ status' = [status EXCEPT ![c] = how]
  /\ UNCHANGED runs

Next == \E c \in Calls :
  \/ Invoke(c)
  \/ Run(c)
  \/ \E how \in Results : Return(c, how)

Spec == Init /\ [][Next]_vars
=============================================================================
