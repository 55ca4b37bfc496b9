----------------------------- MODULE EventStore -----------------------------
(***************************************************************************)
(* internal/portfolio.Store: the append-only log and what a restarted      *)
(* process reads out of it (eventstore.go).  Its seq numbers are the       *)
(* positions in the log.  It is saved (WriteTo, Load) only while no Run is *)
(* in progress, by the runner that owns the file.                          *)
(***************************************************************************)
EXTENDS Integers, Sequences, SequencesExt, FiniteSets, FiniteSetsExt, Picking

VARIABLE log

StoreInit == log = <<>>

OrderRecord(ts, i, o, st) == [kind |-> "order", ts |-> ts, id |-> i, order |-> o, status |-> st]
FillRecord(ts, i, f)      == [kind |-> "fill", ts |-> ts, id |-> i, fill |-> f]
PositionRecord(ts, p)     == [kind |-> "position", ts |-> ts, id |-> 0, pos |-> p]

AppendOrder(ts, i, o, st) == log' = Append(log, OrderRecord(ts, i, o, st))
\* recordFill: the fill, then the position it led to.
AppendFill(ts, i, f, p) == log' = log \o <<FillRecord(ts, i, f), PositionRecord(ts, p)>>

OfKind(k) == Pick(log, {n \in DOMAIN log : log[n].kind = k})
LoggedFills == LET rs == OfKind("fill") IN [k \in DOMAIN rs |-> rs[k].fill]

Logged(i, k, sts) == \E n \in DOMAIN log :
    log[n].id = i /\ log[n].kind = k /\ (k = "order" => log[n].status \in sts)

WorkingOrders_IgnoresFills ==
    {i \in {log[n].id : n \in DOMAIN log} :
        Logged(i, "order", {"accepted"}) /\ ~Logged(i, "order", {"canceled", "rejected"})}

\* Accepts no fill, cancel or reject has been logged for.
WorkingOrders ==
    {i \in {log[n].id : n \in DOMAIN log} :
        /\ Logged(i, "order", {"accepted"})
        /\ ~Logged(i, "order", {"canceled", "rejected"})
        /\ ~Logged(i, "fill", {})}

LastID == Max({0} \cup {log[n].id : n \in DOMAIN log})
LastTs == IF log = <<>> THEN 0 ELSE Last(log).ts
=============================================================================
