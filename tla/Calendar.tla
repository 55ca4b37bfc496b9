------------------------------ MODULE Calendar ------------------------------
(***************************************************************************)
(* internal/session: which trading date and session an instant belongs to, *)
(* and the instants where that changes.                                    *)
(*                                                                         *)
(* Time is in quarters of an hour, local to the exchange: every clock time *)
(* of the schedule is a whole one, and no trading date has a change of     *)
(* daylight saving between its first and its last open.  What holds at a   *)
(* quarter holds until the next, so "At - 1ns" is the quarter before At.   *)
(* Day d is d * Day .. d * Day + Day - 1, and day 0 a Sunday.              *)
(***************************************************************************)
EXTENDS Picking

CONSTANTS
    Holidays,   \* days of equityIndexOverrides that are closed
    EarlyDays,  \* ... that close at 12:15
    MonthEnds   \* ... listed as the last trading day of a month

Day == 96
NoDate == 0     \* the zero Time
At(h, m) == 4 * h + (m \div 15)

Closed == [closed |-> TRUE]
Template(ethClose, rthClose, halt) ==
    [closed |-> FALSE, ethOpen |-> At(17, 0) - Day, ethClose |-> ethClose,
     rthOpen |-> At(8, 30), rthClose |-> rthClose, halt |-> halt]
Regular == Template(At(16, 0), At(15, 0), {})
EarlyClose1215 == Template(At(12, 15), At(12, 15), {})
MonthEndSettlement == Template(At(16, 0), At(16, 0), At(15, 15)..(At(15, 30) - 1))

Weekly == [w \in 0..6 |-> IF w \in {0, 6} THEN Closed ELSE Regular]
\* An early close replaces a holiday; a month end gives way to both.
Overrides == [d \in Holidays \cup EarlyDays \cup MonthEnds |->
    IF d \in EarlyDays THEN EarlyClose1215
    ELSE IF d \in Holidays THEN Closed ELSE MonthEndSettlement]

\* The template's clock times on day d.
On(d, template) ==
    LET on(c) == d * Day + c
    IN IF template.closed THEN Closed
       ELSE [closed |-> FALSE,
             ethOpen |-> on(template.ethOpen), ethClose |-> on(template.ethClose),
             rthOpen |-> on(template.rthOpen), rthClose |-> on(template.rthClose),
             halt |-> {on(c) : c \in template.halt}]
HoursFor(d) == On(d, IF d \in DOMAIN Overrides THEN Overrides[d] ELSE Weekly[d % 7])

\* The session at t of a trading date with hours h.
SessionAt(h, t) ==
    IF h.closed \/ (~h.closed /\ t \in h.halt) THEN "Closed"
    ELSE IF h.rthOpen <= t /\ t < h.rthClose THEN "RTH"
    ELSE IF h.ethOpen <= t /\ t < h.ethClose THEN "ETH" ELSE "Closed"

\* The date of today, or the next, whose session is open.
FirstOpen(a, b) == IF a[2] # "Closed" THEN a
                   ELSE IF b[2] # "Closed" THEN b ELSE <<NoDate, "Closed">>
Classify(t) ==
    LET label(d) == <<d, SessionAt(HoursFor(d), t)>>
    IN FirstOpen(label(t \div Day), label((t \div Day) + 1))

\* The instants of the schedule of trading date d.
Cuts_NoHalt(d) ==
    LET h == HoursFor(d)
    IN IF h.closed THEN {} ELSE {h.ethOpen, h.rthOpen, h.rthClose, h.ethClose}
Cuts(d) ==
    LET h == HoursFor(d)
    IN IF h.closed THEN {}
       ELSE {h.ethOpen, h.rthOpen, h.rthClose, h.ethClose}
            \cup (IF h.halt = {} THEN {} ELSE {Min(h.halt), Max(h.halt) + 1})

\* Boundary.At of every transition in [from, to); no reader of a Boundary in
\* the program looks at its other fields.
Boundaries(from, to) ==
    LET days == (from \div Day) - 2 .. (to \div Day) + 2
        edges == {at \in UNION {Cuts(d) : d \in days} :
                    from <= at /\ at < to /\ Classify(at - 1) # Classify(at)}
    IN Ascending(edges)

\* session.Set: the empty set is every open session.
InSet(set, sess) == sess # "Closed" /\ (set = {} \/ sess \in set)
=============================================================================
