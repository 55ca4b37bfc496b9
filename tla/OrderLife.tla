------------------------------ MODULE OrderLife ------------------------------
(***************************************************************************)
(* What internal/execution promises about an order once it has an id:      *)
(* it is open until it is filled, canceled or rejected, it executes at     *)
(* most its size, it is refused only before it executed anything, and it   *)
(* ends once.  Nothing here says when, at what price or in which queue.    *)
(***************************************************************************)
EXTENDS Integers

CONSTANT Ids

VARIABLES status,   \* none | open | filled | canceled | rejected
          size,     \* contracts ordered
          done      \* contracts executed

vars == <<status, size, done>>

Init ==
    /\ status = [i \in Ids |-> "none"]
    /\ size = [i \in Ids |-> 0]
    /\ done = [i \in Ids |-> 0]

Accept(i) ==
    /\ status[i] = "none" /\ status'[i] = "open"
    /\ size'[i] > 0
    /\ done'[i] = 0

Execute(i) ==
    /\ status[i] = "open"
    /\ done'[i] > done[i] /\ done'[i] <= size[i]
    /\ status'[i] = IF done'[i] = size[i] THEN "filled" ELSE "open"
    /\ size'[i] = size[i]

Withdraw(i) ==
    /\ status[i] = "open" /\ status'[i] = "canceled"
    /\ done[i] < size[i]
    /\ size'[i] = size[i] /\ done'[i] = done[i]

Refuse(i) ==
    /\ status[i] = "open" /\ status'[i] = "rejected"
    /\ done[i] = 0
    /\ size'[i] = size[i] /\ done'[i] = 0

Keep(i) == status'[i] = status[i] /\ size'[i] = size[i] /\ done'[i] = done[i]

\* One call of the venue may move several orders.
Next == \A i \in Ids :
    Accept(i) \/ Execute(i) \/ Withdraw(i) \/ Refuse(i) \/ Keep(i)

Spec == Init /\ [][Next]_vars
=============================================================================
