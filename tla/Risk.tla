-------------------------------- MODULE Risk --------------------------------
(***************************************************************************)
(* internal/execution.Risk: the gate in front of Enqueue (risk.go).  A     *)
(* limit of zero is off.                                                   *)
(***************************************************************************)
EXTENDS Integers, Sequences, Picking

CONSTANTS
    MaxQty,         \* contracts per order
    MaxAbsPosition, \* |position + signed order|
    MaxDayLoss,     \* cents
    MaxRate,        \* Limits.MaxOrders: accepted submits per window
    Window          \* Limits.WindowNs

ASSUME RiskAssumption ==
    /\ MaxQty \in Nat /\ MaxAbsPosition \in Nat /\ MaxDayLoss \in Nat
    /\ MaxRate \in Nat /\ Window \in Nat
    /\ MaxRate > 0 => Window > 0

VARIABLES
    killed,     \* the kill switch
    stamps      \* clock of every accepted submit still in the window

riskVars == <<killed, stamps>>

RiskInit == killed = FALSE /\ stamps = <<>>

Kill == killed' = TRUE /\ UNCHANGED stamps
Arm  == killed' = FALSE /\ UNCHANGED stamps

Size(q) == IF q < 0 THEN -q ELSE q
SignedQty(o) == IF o.side = "ask" THEN -o.qty ELSE o.qty

\* A cut that cannot flip the sign of the position.
ReducesTowardFlat(o, pos) ==
    /\ pos # 0
    /\ o.side = (IF pos > 0 THEN "ask" ELSE "bid")
    /\ o.qty <= Size(pos)

Refused(o, pos, dayPnL) ==
    \/ killed
    \/ MaxQty > 0 /\ o.qty > MaxQty
    \/ MaxAbsPosition > 0 /\ Size(pos + SignedQty(o)) > MaxAbsPosition
    \/ MaxDayLoss > 0 /\ dayPnL <= -MaxDayLoss /\ ~ReducesTowardFlat(o, pos)

Pruned_Early(t) == Pick(stamps, {k \in DOMAIN stamps : stamps[k] > t - Window})
Pruned(t) == Pick(stamps, {k \in DOMAIN stamps : stamps[k] >= t - Window})

Allow(o, pos, dayPnL, t) ==
    /\ ~Refused(o, pos, dayPnL)
    /\ MaxRate > 0 => Len(Pruned(t)) < MaxRate
    /\ stamps' = IF MaxRate > 0 THEN Append(Pruned(t), t) ELSE stamps
    /\ UNCHANGED killed

\* A refusal by the rate has pruned the stamps already.
Deny(o, pos, dayPnL, t) ==
    /\ \/ Refused(o, pos, dayPnL) /\ UNCHANGED stamps
       \/ /\ ~Refused(o, pos, dayPnL)
          /\ MaxRate > 0 /\ Len(Pruned(t)) >= MaxRate
          /\ stamps' = Pruned(t)
    /\ UNCHANGED killed
=============================================================================
