------------------------------- MODULE Runtime -------------------------------
(***************************************************************************)
(* internal/strategy: Run and its cascade over a simulated venue, with the *)
(* books, the event store and the risk gate behind Context, and a process  *)
(* that may end and start again from its store.                            *)
(*                                                                         *)
(* The program is one goroutine; pc is where it is.  A strategy is any     *)
(* code that, from a callback, submits and cancels in any order and then   *)
(* returns or fails.                                                       *)
(***************************************************************************)
EXTENDS Venue, Position, EventStore, Risk

CONSTANTS
    Fee,            \* Fees.perContract, cents
    MaxCascade,     \* maxCascade
    MaxEvents,      \* bound: market events over all sessions
    MaxSessions,    \* bound: runs of the program over one store
    StoreSnapshot   \* TRUE: the snapshot a restart reconciles with is what the
                    \* store believes; FALSE: what the venue reports

ASSUME RuntimeAssumption ==
    /\ Fee \in Nat /\ MaxEvents \in Nat
    /\ MaxCascade \in Nat \ {0} /\ MaxSessions \in Nat \ {0}
    /\ StoreSnapshot \in BOOLEAN

VARIABLES
    pc,         \* where Run is
    ret,        \* what apply returns to
    iter,       \* loop counter of cascade or drain
    refill,     \* anyFill of the events being applied
    ev,         \* the event Next returned
    ns,         \* Runtime.ns, the strategy's clock
    books,      \* Runtime.pos and Runtime.blotter
    reconciled, \* Runtime.reconciled
    events,     \* market events read so far
    session,    \* which run of the program this is
    exchange    \* what the venue of the last session would report

\* History.
VARIABLES
    submitAt,   \* ns when the order was submitted
    late        \* ids submitted from the callbacks of the final flush

control == <<pc, ret, iter, refill, ev, ns, books, reconciled, events,
             session, exchange, submitAt, late>>
rvars == <<venueVars, log, riskVars, control>>

NoEvent == [kind |-> "none"]
RInit ==
    /\ VInit /\ StoreInit /\ RiskInit
    /\ pc = "boot" /\ ret = "start" /\ iter = 0 /\ refill = FALSE
    /\ ev = NoEvent /\ ns = 0 /\ books = EmptyBooks
    /\ reconciled = FALSE /\ events = 0 /\ session = 1
    /\ exchange = [working |-> {}, lastID |-> 0]
    /\ submitAt = [i \in Ids |-> 0] /\ late = {}

Callbacks == {"start", "event", "order", "stop"}
GoTo(p) == pc' = p
-----------------------------------------------------------------------------
(* Context: what a strategy may call. *)

Submit(o) ==
    /\ pc \in Callbacks
    /\ Allow(o, books.pos.qty, books.pos.realized, ns)
    /\ VEnqueue(o)
    /\ AppendOrder(ns, nextID', o, "accepted")
    /\ submitAt' = [submitAt EXCEPT ![nextID'] = ns]
    /\ late' = IF ret = "flush" THEN late \cup {nextID'} ELSE late
    /\ UNCHANGED <<pc, ret, iter, refill, ev, ns, books, reconciled, events,
                   session, exchange>>

\* The gate refuses, or passes an order the venue's validate then refuses.
SubmitRefused(o) ==
    /\ pc \in Callbacks
    /\ \/ Deny(o, books.pos.qty, books.pos.realized, ns)
       \/ Allow(o, books.pos.qty, books.pos.realized, ns) /\ ~Valid(o)
    /\ UNCHANGED <<venueVars, log, control>>

CancelOrder_Unlogged(i) ==
    /\ pc \in Callbacks
    /\ VCancel(i)
    /\ UNCHANGED <<log, riskVars, control>>

CancelOrder(i) ==
    /\ pc \in Callbacks
    /\ VCancel(i)
    /\ AppendOrder(ns, i, NoOrder, "canceled")
    /\ UNCHANGED <<riskVars, control>>

Operator == /\ Kill \/ Arm
            /\ UNCHANGED <<venueVars, log, control>>
-----------------------------------------------------------------------------
(* Run. *)

\* ErrReconcileRequired keeps Run from starting.
Start ==
    /\ pc \in {"boot", "restored"} /\ (session > 1 => reconciled)
    /\ GoTo("start")
    /\ UNCHANGED <<venueVars, log, riskVars, ret, iter, refill, ev, ns, books,
                   reconciled, events, session, exchange, submitAt, late>>

\* A callback returns.
Return ==
    /\ pc \in Callbacks
    /\ pc' = CASE pc \in {"start", "stop"} -> "drain"
               [] pc = "event" -> "settle"
               [] pc = "order" -> "apply"
    /\ IF pc \in {"start", "stop"} THEN ret' = pc /\ iter' = 0
                                   ELSE UNCHANGED <<ret, iter>>
    /\ UNCHANGED <<venueVars, log, riskVars, refill, ev, ns, books, reconciled,
                   events, session, exchange, submitAt, late>>

\* A callback, or the source, returns an error: Run returns it at once.
Fail ==
    /\ pc \in Callbacks \cup {"next"}
    /\ GoTo("failed")
    /\ UNCHANGED <<venueVars, log, riskVars, ret, iter, refill, ev, ns, books,
                   reconciled, events, session, exchange, submitAt, late>>

\* drain: settle until nothing comes back, at most MaxCascade times.
Drain ==
    /\ pc = "drain"
    /\ \/ /\ iter < MaxCascade
          /\ VSettle(ns)
          /\ iter' = iter + 1
          /\ pc' = IF batch' # <<>> THEN "apply"
                   ELSE IF ret = "start" THEN "next" ELSE "flush"
       \/ /\ iter = MaxCascade
          /\ GoTo("failed")
          /\ UNCHANGED <<venueVars, iter>>
    /\ UNCHANGED <<log, riskVars, ret, refill, ev, ns, books, reconciled, events,
                   session, exchange, submitAt, late>>

MarketEvents(ts, bad) ==
    {[kind |-> "quote", q |-> q, ts |-> ts, bad |-> bad] : q \in Quotes}
    \cup {[kind |-> "trade", t |-> t, ts |-> ts, bad |-> bad] : t \in Trades}

\* Next and Observe: a stamp flagged as bad, or older than the clock, does not
\* move it.
Observe(e) ==
    /\ pc = "next" /\ events < MaxEvents
    /\ events' = events + 1
    /\ ev' = e
    /\ ns' = IF ~e.bad /\ e.ts > ns THEN e.ts ELSE ns
    /\ VSync(ns')
    /\ GoTo("match")
    /\ UNCHANGED <<log, riskVars, ret, iter, refill, books, reconciled, session,
                   exchange, submitAt, late>>

MatchResting ==
    /\ pc = "match"
    /\ IF ev.kind = "quote" THEN VQuote(ev.q, ev.ts) ELSE VTrade(ev.t, ev.ts)
    /\ ret' = "match" /\ iter' = 0
    /\ pc' = IF batch' = <<>> THEN "event" ELSE "apply"
    /\ UNCHANGED <<log, riskVars, refill, ev, ns, books, reconciled, events,
                   session, exchange, submitAt, late>>

\* The settle half of a turn of cascade.
SettleCascade ==
    /\ pc = "settle"
    /\ VSettle(ns)
    /\ ret' = "cascade"
    /\ refill' = (\E k \in DOMAIN batch' : batch'[k].status = "filled")
    /\ pc' = IF batch' = <<>> THEN "next" ELSE "apply"
    /\ UNCHANGED <<log, riskVars, iter, ev, ns, books, reconciled, events,
                   session, exchange, submitAt, late>>

Eof ==
    /\ pc = "next"
    /\ GoTo("stop")
    /\ UNCHANGED <<venueVars, log, riskVars, ret, iter, refill, ev, ns, books,
                   reconciled, events, session, exchange, submitAt, late>>

FlushTail ==
    /\ pc = "flush"
    /\ VFlush
    /\ ret' = "flush" /\ GoTo("apply")
    /\ UNCHANGED <<log, riskVars, iter, refill, ev, ns, books, reconciled, events,
                   session, exchange, submitAt, late>>

FillOf(e) == [side |-> order[e.id].side, px |-> e.px, qty |-> e.qty, fee |-> Fee * e.qty]

\* One event of apply: a fill goes through the books and into the store, a
\* reject into the store, and OnOrder is called.
ApplyEvent ==
    /\ pc = "apply" /\ batch # <<>>
    /\ LET e == Head(batch) IN
        /\ books' = IF e.status = "filled" THEN Book(books, FillOf(e)) ELSE books
        /\ IF e.status = "filled"
           THEN AppendFill(IF e.ts = 0 THEN ns ELSE e.ts, e.id, FillOf(e), books'.pos)
           ELSE AppendOrder(ns, e.id, order[e.id], "rejected")
    /\ batch' = Tail(batch)
    /\ GoTo("order")
    /\ UNCHANGED <<vars, outbox, got, riskVars, ret, iter, refill, ev, ns,
                   reconciled, events, session, exchange, submitAt, late>>

Applied_Unlimited ==
    /\ pc = "apply" /\ batch = <<>>
    /\ iter' = IF ret = "cascade" THEN iter + 1 ELSE iter
    /\ pc' = CASE ret \in {"start", "stop"} -> "drain"
               [] ret = "match" -> "event"
               [] ret = "flush" -> "done"
               [] OTHER -> IF refill THEN "event" ELSE "next"
    /\ UNCHANGED <<venueVars, log, riskVars, ret, refill, ev, ns, books,
                   reconciled, events, session, exchange, submitAt, late>>

\* apply returns to its caller.
Applied ==
    /\ pc = "apply" /\ batch = <<>>
    /\ iter' = IF ret = "cascade" THEN iter + 1 ELSE iter
    /\ pc' = CASE ret \in {"start", "stop"} -> "drain"
               [] ret = "match" -> "event"
               [] ret = "flush" -> "done"
               [] ret = "cascade" /\ ~refill -> "next"
               [] ret = "cascade" /\ refill /\ iter' < MaxCascade -> "event"
               [] OTHER -> "failed"
    /\ UNCHANGED <<venueVars, log, riskVars, ret, refill, ev, ns, books,
                   reconciled, events, session, exchange, submitAt, late>>
-----------------------------------------------------------------------------
(* A new process over the saved store. *)

\* The process is gone with its venue; the log stays, and so does what the
\* venue would answer: Working and LastID of reconcile.go.
Restart ==
    /\ pc \in {"done", "failed"} /\ session < MaxSessions
    /\ exchange' = [working |-> Live, lastID |-> nextID]
    /\ nextID' = 0 /\ now' = 0 /\ hasQ' = FALSE /\ quote' = NoQuote
    /\ place' = [i \in Ids |-> IF i \in Live THEN "canceled" ELSE place[i]]
    /\ raw' = {} /\ outbox' = <<>> /\ batch' = <<>>
    /\ flushed' = FALSE
    /\ UNCHANGED <<order, ready, resting, executed, atPx, paid, claim, since, got>>
    /\ killed' = FALSE /\ stamps' = <<>>
    /\ pc' = "boot" /\ ret' = "start" /\ iter' = 0 /\ refill' = FALSE
    /\ ev' = NoEvent /\ ns' = 0 /\ books' = EmptyBooks /\ reconciled' = FALSE
    /\ session' = session + 1
    /\ UNCHANGED <<log, events, submitAt, late>>

Restore_Checkpoint ==
    /\ pc = "boot" /\ session > 1
    /\ books' = [EmptyBooks EXCEPT !.pos = IF OfKind("position") = <<>> THEN Flat
                                           ELSE Last(OfKind("position")).pos]
    /\ ns' = IF LastTs > ns THEN LastTs ELSE ns
    /\ GoTo("restored")
    /\ UNCHANGED <<venueVars, log, riskVars, ret, iter, refill, ev, reconciled,
                   events, session, exchange, submitAt, late>>

\* Restore: the books from the logged fills, the clock from the last record.
Restore ==
    /\ pc = "boot" /\ session > 1
    /\ books' = BooksAfter(LoggedFills)
    /\ ns' = IF LastTs > ns THEN LastTs ELSE ns
    /\ GoTo("restored")
    /\ UNCHANGED <<venueVars, log, riskVars, ret, iter, refill, ev, reconciled,
                   events, session, exchange, submitAt, late>>

Reconcile_ForgetsLastID ==
    /\ pc = "restored" /\ ~reconciled
    /\ VAdopt(WorkingOrders, order, 0)
    /\ reconciled' = TRUE
    /\ UNCHANGED <<log, riskVars, pc, ret, iter, refill, ev, ns, books, events,
                   session, exchange, submitAt, late>>

\* Reconcile: keep plus adopt is the snapshot's working set; ghosts go.
Keep(local, snap)  == local \cap snap
Adds(local, snap)  == snap \ local
Reconcile ==
    /\ pc = "restored" /\ ~reconciled
    /\ LET snap == IF StoreSnapshot THEN [working |-> WorkingOrders, lastID |-> LastID]
                   ELSE exchange
           live == Keep(WorkingOrders, snap.working) \cup Adds(WorkingOrders, snap.working)
       IN VAdopt(live, order, snap.lastID)
    /\ reconciled' = TRUE
    /\ UNCHANGED <<log, riskVars, pc, ret, iter, refill, ev, ns, books, events,
                   session, exchange, submitAt, late>>

-----------------------------------------------------------------------------
FeedEvents == (UNION {MarketEvents(ts, FALSE) : ts \in ns..MaxTs})
              \cup (IF BadStamps THEN UNION {MarketEvents(ts, TRUE) : ts \in 0..MaxTs}
                                 ELSE {})

\* What Run does by itself, whatever the strategy wants.
Step ==
    \/ Start
    \/ Return
    \/ Drain
    \/ \E e \in FeedEvents : Observe(e)
    \/ MatchResting
    \/ SettleCascade
    \/ Eof
    \/ FlushTail
    \/ ApplyEvent
    \/ Applied

RNext ==
    \/ Step
    \/ \E o \in Requests : Submit(o) \/ SubmitRefused(o)
    \/ \E i \in Ids : CancelOrder(i)
    \/ Fail
    \/ Operator
    \/ Restart \/ Restore \/ Reconcile

RSpec == RInit /\ [][RNext]_rvars

-----------------------------------------------------------------------------
(* Properties. *)

LoggedQty(i) ==
    Total([n \in DOMAIN log |->
             IF log[n].kind = "fill" /\ log[n].id = i THEN log[n].fill.qty ELSE 0])

Accepts == Pick(log, {n \in DOMAIN log : log[n].kind = "order" /\ log[n].status = "accepted"})

\* The store misses nothing the venue executed: every contract is in the log, in
\* the events being applied, or in the outbox, through cascades, cancels of
\* partially filled orders, the flush, and callbacks that fail half way.
LogComplete ==
    session = 1 => \A i \in Ids :
        executed[i] = LoggedQty(i) + FilledQty(batch, i) + FilledQty(Evs(outbox), i)

\* Whenever a strategy runs, in this process or after a restart, the books it
\* reads are those the log replays to, and so is the last position checkpoint
\* (Restore, Store.Replay, LastPosition).
BooksFromLog ==
    pc \notin {"boot"} =>
        /\ books = BooksAfter(LoggedFills)
        /\ LET ps == OfKind("position") IN ps # <<>> => Last(ps).pos = books.pos

\* Adopt's lastID: an id is accepted once, in whatever session, and nothing is
\* logged of an id before its accept.
IdsNeverReused ==
    /\ \A j, k \in DOMAIN Accepts : j # k => Accepts[j].id # Accepts[k].id
    /\ \A n \in DOMAIN log : log[n].id # 0 =>
          \E m \in 1..n : log[m].kind = "order" /\ log[m].status = "accepted"
                        /\ log[m].id = log[n].id

\* eventstore.go:144, WorkingOrders: what the store believes is working still is
\* at the venue, or the event that ended it is on its way.
StoreNotStale ==
    session = 1 => \A i \in WorkingOrders :
        \/ i \in Live
        \/ \E k \in DOMAIN batch : batch[k].id = i
        \/ \E k \in DOMAIN outbox : outbox[k].ev.id = i

\* latency.go:11-15 end to end: a fill reaches the strategy no earlier than entry
\* and response delay after the submit, on the strategy's own clock.
RoundTrip ==
    session = 1 /\ pc = "apply" /\ ret # "flush" =>
        \A k \in DOMAIN batch : batch[k].status = "filled" =>
            submitAt[batch[k].id] + Entry + Response <= ns

\* What Run leaves behind at the end of the tape: only orders a callback of the
\* flush itself submitted are still unsettled, and no event is undelivered.
ResolvedAtEnd ==
    pc = "done" => /\ outbox = <<>> /\ batch = <<>>
                   /\ In("delayed") \cup In("inbox") \subseteq late

\* risk.go:24: any window holds at most MaxRate accepted submits.
RateCap ==
    MaxRate > 0 /\ session = 1 => \A k \in DOMAIN Accepts :
        Cardinality({j \in 1..k : Accepts[j].ts >= Accepts[k].ts - Window}) <= MaxRate

\* An order never fills for more than its size, across restarts.
NeverOverfilled == \A i \in Ids : LoggedQty(i) <= order[i].qty

\* The control of Run, with any strategy and any venue (strategy.go:52-127): each
\* step of a run is one of RunLoop or leaves its control alone, so whatever the
\* strategy, the books, the store and the risk gate do, cascade and drain take
\* their turns, and no more of them, and apply finishes each batch once.
Loop == INSTANCE RunLoop WITH
            pc    <- IF pc = "restored" THEN "boot" ELSE pc,
            left  <- Len(batch),
            Sizes <- Nat
ImplementsLoop == Loop!LoopMoves
============================================================================
