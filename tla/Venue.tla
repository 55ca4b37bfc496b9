-------------------------------- MODULE Venue --------------------------------
(***************************************************************************)
(* internal/execution.Venue as its caller sees it: the matching of         *)
(* Matching.tla, with every event it produces held for the response delay  *)
(* before a later call hands it back (latency.go, holdOrEmit, deliverDue). *)
(***************************************************************************)
EXTENDS Matching, Sequences, SequencesExt, Picking

CONSTANT Response   \* Latency.Response

ASSUME VenueAssumption == Response \in Nat

VARIABLES
    outbox,     \* delayedEvents: [ev, ready], oldest first
    batch       \* the OrderEvents the last call handed back

VARIABLE got    \* history: contracts of fills handed back, per order

venueVars == <<vars, outbox, batch, got>>

VInit == Init /\ outbox = <<>> /\ batch = <<>> /\ got = [i \in Ids |-> 0]

\* The events of a call in the order its loops append them: pass, then id.
Before(a, b) == a.pass < b.pass \/ (a.pass = b.pass /\ a.id < b.id)
InOrder(events) ==
    CHOOSE s \in [1..Cardinality(events) -> events] :
        \A j, k \in DOMAIN s : j < k => Before(s[j], s[k])

Evs(held) == [k \in DOMAIN held |-> held[k].ev]
DueOf(held, ts) == {k \in DOMAIN held : held[k].ready <= ts}

QtyOfOrder(evs, i) == [k \in DOMAIN evs |-> IF evs[k].id = i THEN evs[k].qty ELSE 0]
FilledQty(evs, i) == Total(QtyOfOrder(evs, i))
Count == got' = [i \in Ids |-> got[i] + FilledQty(batch', i)]

HoldOrEmit_DropsRest(ts) ==
    LET held == outbox \o [k \in DOMAIN InOrder(raw') |->
                             [ev |-> InOrder(raw')[k], ready |-> ts + Response]]
    IN  /\ batch' = Evs(Pick(held, DueOf(held, ts)))
        /\ outbox' = <<>>
        /\ Count
HoldOrEmit_NewestFirst(ts) ==
    LET held == [k \in DOMAIN InOrder(raw') |->
                   [ev |-> InOrder(raw')[k], ready |-> ts + Response]] \o outbox
    IN  /\ batch' = Evs(Pick(held, DueOf(held, ts)))
        /\ outbox' = Pick(held, DOMAIN held \ DueOf(held, ts))
        /\ Count

\* holdOrEmit: with a response delay this call's events join the outbox; either
\* way what is due by ts leaves it, after this call's own events.
HoldOrEmit(ts) ==
    LET fresh == InOrder(raw')
        held  == IF Response = 0 THEN outbox
                 ELSE outbox \o [k \in DOMAIN fresh |-> [ev |-> fresh[k], ready |-> ts + Response]]
        emit  == IF Response = 0 THEN fresh ELSE <<>>
    IN  /\ batch' = emit \o Evs(Pick(held, DueOf(held, ts)))
        /\ outbox' = Pick(held, DOMAIN held \ DueOf(held, ts))
        /\ Count

NoReply == UNCHANGED <<outbox, batch, got>>

VEnqueue(o)        == Enqueue(o) /\ NoReply
VCancel(i)         == Cancel(i) /\ NoReply
VSync(ts)          == Sync(ts) /\ NoReply
VAdopt(S, ords, n) == Adopt(S, ords, n) /\ NoReply

VSettle(ts)   == Settle(ts) /\ HoldOrEmit(ts)
VQuote(q, ts) == Quote(q, ts) /\ HoldOrEmit(ts)
VTrade(t, ts) == Trade(t, ts) /\ HoldOrEmit(ts)

VFlush_LosesOutbox ==
    /\ Flush
    /\ batch' = InOrder(raw')
    /\ outbox' = <<>>
    /\ Count

\* Flush: the settled tail, then everything still in the outbox.
VFlush ==
    /\ Flush
    /\ batch' = InOrder(raw') \o Evs(outbox)
    /\ outbox' = <<>>
    /\ Count

VNext ==
    \/ \E o \in Requests : VEnqueue(o)
    \/ \E i \in Ids : VCancel(i)
    \/ \E ts \in Stamps : VSync(ts) \/ VSettle(ts)
    \/ \E q \in Quotes, ts \in Stamps : VQuote(q, ts)
    \/ \E t \in Trades, ts \in Stamps : VTrade(t, ts)
    \/ VFlush

VSpec == VInit /\ [][VNext]_venueVars

-----------------------------------------------------------------------------
(* Properties. *)

\* Every contract executed is handed back once: neither the in-place filter of
\* deliverDue nor Flush loses or repeats a fill, cancels notwithstanding.
HandedBackOnce ==
    \A i \in Ids : executed[i] = got[i] + FilledQty(Evs(outbox), i)

\* Fills of one order arrive in the order they happened, flush included, as long
\* as the feed's stamps are in order.
PerOrderInOrder ==
    ~BadStamps =>
        /\ \A j, k \in DOMAIN batch :
              j < k /\ batch[j].id = batch[k].id => batch[j].ts <= batch[k].ts
        /\ \A j \in DOMAIN batch, k \in DOMAIN outbox :
              batch[j].id = outbox[k].ev.id => batch[j].ts <= outbox[k].ev.ts
=============================================================================
