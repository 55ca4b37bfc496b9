---------------------------- MODULE RuntimeProofs ----------------------------
(***************************************************************************)
(* Proofs for every value of the constants: about Venue.tla, the matching  *)
(* and the way back of its answers, and then about Runtime.tla, what a run *)
(* of a strategy over it may rely on, in the first process and after a     *)
(* restart.                                                                *)
(***************************************************************************)
EXTENDS Runtime, MatchingProofs, OperatorProofs

-----------------------------------------------------------------------------
(* The venue by itself.                                                    *)

\* What the venue promises of its matching holds under VSpec too: a step of the
\* venue is one of Matching, or leaves Matching alone.
LEMMA StepIsMatching == [VNext]_venueVars => [Next]_vars
<1> SUFFICES ASSUME [VNext]_venueVars PROVE [Next]_vars
  OBVIOUS
<1>1. ASSUME NEW o \in Requests, VEnqueue(o) PROVE Next
  BY <1>1 DEF VEnqueue, Next
<1>2. ASSUME NEW i \in Ids, VCancel(i) PROVE Next
  BY <1>2 DEF VCancel, Next
<1>3. ASSUME NEW ts \in Stamps, VSync(ts) \/ VSettle(ts) PROVE Next
  BY <1>3 DEF VSync, VSettle, Next
<1>4. ASSUME NEW q \in Quotes, NEW ts \in Stamps, VQuote(q, ts) PROVE Next
  BY <1>4 DEF VQuote, Next
<1>5. ASSUME NEW t \in Trades, NEW ts \in Stamps, VTrade(t, ts) PROVE Next
  BY <1>5 DEF VTrade, Next
<1>6. ASSUME VFlush PROVE Next
  BY <1>6 DEF VFlush, Next
<1>7. ASSUME UNCHANGED venueVars PROVE UNCHANGED vars
  BY <1>7 DEF venueVars
<1> QED BY <1>1, <1>2, <1>3, <1>4, <1>5, <1>6, <1>7 DEF VNext

LEMMA VenueMatches == VSpec => Spec
<1>1. VInit => Init
  BY DEF VInit
<1> QED BY <1>1, StepIsMatching, PTL DEF VSpec, Spec

\* Every promise of the matching is a promise of the venue.
THEOREM VenueKeeps ==
    /\ VSpec => [](TypeOK /\ Conservation /\ LimitRespected /\ PessimisticQueue)
    /\ VSpec => [](EntryHonoured /\ JoinedAtTouch)
    /\ VSpec => PrintShared
    /\ VSpec => ImplementsLife
<1>1. VSpec => [](TypeOK /\ Conservation /\ LimitRespected /\ PessimisticQueue)
  BY VenueMatches, TypeCorrect, ConservationHolds, LimitHolds, PessimisticHolds, PTL
<1>2. VSpec => [](EntryHonoured /\ JoinedAtTouch)
  BY VenueMatches, EntryHolds, JoinedHolds, PTL
<1>3. VSpec => PrintShared
  BY VenueMatches, PrintSharedHolds
<1>4. VSpec => ImplementsLife
  BY VenueMatches, Implementation
<1> QED BY <1>1, <1>2, <1>3, <1>4

-----------------------------------------------------------------------------
(* The order a call lists its events in. *)

LEMMA EventFacts ==
    \A e \in Event : /\ e.id \in Ids /\ e.px \in Int /\ e.qty \in Nat
                     /\ e.ts \in 0..MaxTs /\ e.ts \in Nat
                     /\ e.status \in {"filled", "rejected"}
<1>1. \A t \in 0..MaxTs : t \in Nat
  BY MatchingAssumption
<1> QED BY <1>1 DEF Event

Keyed(E) == \A e, f \in E : e.id = f.id => e = f

Key(e) == e.pass * (MaxOrders + 1) + e.id

LEMMA KeyFacts ==
    ASSUME NEW e \in Event, NEW f \in Event
    PROVE  /\ Key(e) \in 1..(3 * MaxOrders + 2) /\ Key(f) \in 1..(3 * MaxOrders + 2)
           /\ Before(e, f) <=> Key(e) < Key(f)
           /\ Key(e) = Key(f) => e.id = f.id
<1>1. /\ MaxOrders \in Nat
      /\ e.id \in Int /\ 1 <= e.id /\ e.id <= MaxOrders /\ e.pass \in {1, 2}
      /\ f.id \in Int /\ 1 <= f.id /\ f.id <= MaxOrders /\ f.pass \in {1, 2}
  BY MatchingAssumption DEF Event, Ids
<1>2. Key(e) = IF e.pass = 1 THEN MaxOrders + 1 + e.id ELSE 2 * MaxOrders + 2 + e.id
  BY <1>1 DEF Key
<1>3. Key(f) = IF f.pass = 1 THEN MaxOrders + 1 + f.id ELSE 2 * MaxOrders + 2 + f.id
  BY <1>1 DEF Key
<1>4. Key(e) \in 1..(3 * MaxOrders + 2) /\ Key(f) \in 1..(3 * MaxOrders + 2)
  BY <1>1, <1>2, <1>3
<1>5. Before(e, f) <=> Key(e) < Key(f)
  BY <1>1, <1>2, <1>3 DEF Before
<1>6. Key(e) = Key(f) => e.id = f.id
  BY <1>1, <1>2, <1>3
<1> QED BY <1>4, <1>5, <1>6

\* It lists them all, none twice.
LEMMA InOrderFacts ==
    ASSUME NEW E, E \subseteq Event, Keyed(E)
    PROVE  /\ InOrder(E) \in Seq(E) /\ InOrder(E) \in Seq(Event)
           /\ \A e \in E : \E k \in DOMAIN InOrder(E) : InOrder(E)[k] = e
           /\ \A j, k \in DOMAIN InOrder(E) : j # k => InOrder(E)[j].id # InOrder(E)[k].id
<1> DEFINE m == 3 * MaxOrders + 2
           K == {Key(e) : e \in E}
           c == Cardinality(E)
<1>1. m \in Nat
  BY MatchingAssumption
<1>2. /\ K \subseteq 1..m
      /\ \A e, f \in E : Key(e) = Key(f) => e = f
      /\ \A e, f \in E : Before(e, f) <=> Key(e) < Key(f)
  BY KeyFacts DEF Keyed
<1>3. IsFiniteSet(K) /\ Cardinality(K) \in Nat
  BY <1>1, <1>2, UpToFacts
<1> DEFINE g == [e \in E |-> Key(e)]
<1>4. g \in Bijection(E, K)
  BY <1>2 DEF Bijection, Injection, Surjection, IsInjective
<1>5. IsFiniteSet(E) /\ c = Cardinality(K) /\ c \in Nat
  <2>1. g \in Injection(E, K) /\ g \in Surjection(E, K)
    BY <1>4 DEF Bijection
  <2> HIDE DEF g, K
  <2>2. IsFiniteSet(E) /\ (Cardinality(E) = Cardinality(K) <=> g \in Surjection(E, K))
    BY <1>3, <2>1, FS_Injection
  <2> QED BY <1>3, <2>1, <2>2
<1> DEFINE by(k) == CHOOSE e \in E : Key(e) = k
           s == [n \in 1..c |-> by(Nth(K, n))]
<1>6. \A k \in K : by(k) \in E /\ Key(by(k)) = k
  OBVIOUS
<1>7. /\ \A n \in 1..c : Nth(K, n) \in K
      /\ \A n, o \in 1..c : n < o => Nth(K, n) < Nth(K, o)
  <2> HIDE DEF K, m
  <2> QED BY <1>1, <1>2, <1>5, NthFacts
<1>8. /\ s \in [1..c -> E]
      /\ \A j, k \in DOMAIN s : j < k => Before(s[j], s[k])
  <2> HIDE DEF by, K, c
  <2>1. \A n \in 1..c : s[n] \in E /\ Key(s[n]) = Nth(K, n)
    BY <1>6, <1>7
  <2>2. s \in [1..c -> E]
    BY <2>1
  <2>3. DOMAIN s = 1..c
    OBVIOUS
  <2> HIDE DEF s
  <2> QED BY <1>2, <1>7, <2>1, <2>2, <2>3
<1> DEFINE r == InOrder(E)
<1>9. r \in [1..c -> E] /\ \A j, k \in DOMAIN r : j < k => Before(r[j], r[k])
  <2> DEFINE P(t) == t \in [1..c -> E] /\ \A j, k \in DOMAIN t : j < k => Before(t[j], t[k])
  <2>1. P(s)
    BY <1>8
  <2>2. r = CHOOSE t \in [1..c -> E] : \A j, k \in DOMAIN t : j < k => Before(t[j], t[k])
    BY DEF InOrder
  <2> HIDE DEF s, r, c
  <2> QED BY <2>1, <2>2
<1> HIDE DEF r, s, K, g
<1>10. \A j, k \in DOMAIN r : j # k => r[j].id # r[k].id
  <2> SUFFICES ASSUME NEW j \in 1..c, NEW k \in 1..c, j < k PROVE r[j].id # r[k].id
    BY <1>5, <1>9
  <2>1. r[j] \in E /\ r[k] \in E /\ Before(r[j], r[k])
    BY <1>9
  <2>2. Key(r[j]) < Key(r[k]) /\ Key(r[j]) \in Int
    BY <1>2, <2>1, KeyFacts
  <2>3. r[j].id = r[k].id => r[j] = r[k]
    BY <2>1 DEF Keyed
  <2> QED BY <2>2, <2>3
<1>11. r \in Surjection(1..c, E)
  <2>1. r \in Injection(1..c, E)
    BY <1>9, <1>10 DEF Injection, IsInjective
  <2>2. IsFiniteSet(1..c) /\ Cardinality(1..c) = c
    BY <1>5, FS_Interval
  <2> QED BY <1>5, <2>1, <2>2, FS_Injection
<1>12. \A e \in E : \E k \in DOMAIN r : r[k] = e
  BY <1>9, <1>11 DEF Surjection
<1>13. r \in Seq(E) /\ r \in Seq(Event)
  BY <1>5, <1>9
<1> QED BY <1>10, <1>12, <1>13 DEF r

-----------------------------------------------------------------------------
(* What a matching step answers. *)

Entering == {"none", "delayed", "inbox"}

\* One event per order, and the events say what was executed.
Tells ==
    /\ Keyed(raw')
    /\ \A e \in raw' : executed'[e.id] = executed[e.id] + e.qty
    /\ \A i \in Ids : (\A e \in raw' : e.id # i) => executed'[i] = executed[i]
\* An event is stamped ts or is the first of its order; an order that has been
\* answered never waits to enter again.
Stamped(ts) ==
    /\ \A e \in raw' : /\ e.ts \in {0, ts}
                       /\ e.ts = ts \/ place[e.id] \in Entering
                       /\ place'[e.id] \notin Entering
    /\ \A i \in Ids : place[i] \notin Entering => place'[i] \notin Entering

LEMMA SettleAnswers ==
    ASSUME Base, Base', NEW D \in SUBSET Ids, NEW ts, SettleInbox(D, ts),
           \A i \in D : place[i] \in {"inbox", "delayed"}
    PROVE  Tells /\ Stamped(ts) /\ \A e \in raw' : place[e.id] \in Entering
<1> DEFINE fills == {i \in D : hasQ /\ Crosses(order[i], quote)}
           lost  == {i \in D : ~hasQ}
           rests == {i \in D : hasQ /\ ~Crosses(order[i], quote)}
<1>1. raw' = {Filled(i, FarPx(order[i], quote), order[i].qty, ts, 1) : i \in fills}
             \cup {Rejected(i) : i \in lost}
  BY DEF SettleInbox, SettleOutcome
<1>2. \A i \in Ids : executed'[i] = IF i \in fills THEN order[i].qty ELSE executed[i]
  BY DEF SettleInbox, SettleOutcome
<1>3. \A i \in Ids : /\ i \in fills => place'[i] = "filled"
                     /\ i \in lost => place'[i] = "rejected"
                     /\ i \in rests => place'[i] = "working"
                     /\ i \notin D => place'[i] = place[i]
  <2>1. \A i \in Ids : place'[i] = CASE i \in fills -> "filled"
                                     [] i \in rests -> "working"
                                     [] i \in lost  -> "rejected"
                                     [] OTHER       -> place[i]
    BY DEF SettleInbox, SettleOutcome, Rests
  <2>2. fills \cap rests = {} /\ fills \cap lost = {} /\ rests \cap lost = {}
        /\ fills \subseteq D /\ lost \subseteq D /\ rests \subseteq D
    OBVIOUS
  <2> HIDE DEF fills, lost, rests
  <2> QED BY <2>1, <2>2
<1>4. \A i \in D : executed[i] = 0 /\ order[i].qty \in Nat
  BY DEF Base, Conservation, TypeOK, OrderRec
<1>5. fills \cap lost = {} /\ fills \cup lost \subseteq D /\ D = fills \cup lost \cup rests
  OBVIOUS
<1> HIDE DEF fills, lost, rests
<1>6. ASSUME NEW e \in raw'
      PROVE  \/ /\ e.id \in fills /\ e.ts = ts /\ e.qty = order[e.id].qty
                /\ e = Filled(e.id, FarPx(order[e.id], quote), order[e.id].qty, ts, 1)
             \/ e.id \in lost /\ e.ts = 0 /\ e.qty = 0 /\ e = Rejected(e.id)
  BY <1>1 DEF Filled, Rejected
<1>7. Keyed(raw')
  BY <1>5, <1>6 DEF Keyed
<1>8. \A e \in raw' : executed'[e.id] = executed[e.id] + e.qty
  BY <1>2, <1>4, <1>5, <1>6
<1>9. ASSUME NEW i \in Ids, \A e \in raw' : e.id # i PROVE executed'[i] = executed[i]
  <2>1. i \notin fills
    <3>1. i \in fills => Filled(i, FarPx(order[i], quote), order[i].qty, ts, 1) \in raw'
      BY <1>1
    <3>2. Filled(i, FarPx(order[i], quote), order[i].qty, ts, 1).id = i
      BY DEF Filled
    <3> QED BY <3>1, <3>2, <1>9
  <2> QED BY <1>2, <2>1
<1>10. Stamped(ts)
  <2>1. \A e \in raw' : /\ e.ts \in {0, ts}
                        /\ e.ts = ts \/ place[e.id] \in Entering
                        /\ place'[e.id] \notin Entering
    BY <1>3, <1>5, <1>6 DEF Entering
  <2>2. \A i \in Ids : place[i] \notin Entering => place'[i] \notin Entering
    BY <1>3 DEF Entering
  <2> QED BY <2>1, <2>2 DEF Stamped
<1>11. \A e \in raw' : place[e.id] \in Entering
  BY <1>5, <1>6 DEF Entering
<1> QED BY <1>7, <1>8, <1>9, <1>10, <1>11 DEF Tells

LEMMA TradeAnswers ==
    ASSUME Base, NEW t \in Trades, NEW ts \in Stamps, Trade(t, ts)
    PROVE  Tells /\ Stamped(ts)
<1>1. PICK left \in Passes(t) : OnTrade(t, ts, left)
  BY DEF Trade
<1> DEFINE taken == Taken(t, left)
           hit   == {i \in Ids : taken[i] > 0}
<1>2. \A i \in Ids : taken[i] \in 0..remaining[i] /\ (place[i] # "working" => taken[i] = 0)
                     /\ executed[i] \in Nat /\ remaining[i] \in Nat
  BY TakenBounds DEF Base, TypeOK
<1>3. /\ raw' = {Filled(i, t.px, taken[i], ts, IF i \in Through(t) THEN 1 ELSE 2) : i \in hit}
      /\ \A i \in Ids : executed'[i] = executed[i] + taken[i]
      /\ \A i \in Ids : place'[i] \in {"filled", place[i]}
  BY <1>1 DEF OnTrade
<1>4. \A i \in Ids : i \notin hit => taken[i] = 0
  BY <1>2
<1>5. \A i \in hit : i \in Ids /\ place[i] = "working"
  BY <1>2
<1> HIDE DEF hit, taken
<1>6. ASSUME NEW e \in raw'
      PROVE  /\ e.id \in hit /\ e.ts = ts /\ e.qty = taken[e.id]
             /\ e = Filled(e.id, t.px, taken[e.id], ts, IF e.id \in Through(t) THEN 1 ELSE 2)
  BY <1>3 DEF Filled
<1>7. Keyed(raw')
  BY <1>6 DEF Keyed
<1>8. \A e \in raw' : executed'[e.id] = executed[e.id] + e.qty
  BY <1>3, <1>5, <1>6
<1>9. ASSUME NEW i \in Ids, \A e \in raw' : e.id # i PROVE executed'[i] = executed[i]
  <2> DEFINE e == Filled(i, t.px, taken[i], ts, IF i \in Through(t) THEN 1 ELSE 2)
  <2>1. i \notin hit
    <3>1. i \in hit => e \in raw'
      BY <1>3
    <3>2. e.id = i
      BY DEF Filled
    <3> QED BY <3>1, <3>2, <1>9
  <2> QED BY <1>2, <1>3, <1>4, <2>1
<1>10. Stamped(ts)
  <2>1. \A e \in raw' : e.ts = ts /\ place'[e.id] \notin Entering
    BY <1>3, <1>5, <1>6 DEF Entering
  <2>2. \A i \in Ids : place[i] \notin Entering => place'[i] \notin Entering
    BY <1>3 DEF Entering
  <2> QED BY <2>1, <2>2 DEF Stamped
<1> QED BY <1>7, <1>8, <1>9, <1>10 DEF Tells

LEMMA QuoteAnswers ==
    ASSUME NEW q, NEW ts, Quote(q, ts)
    PROVE  Tells /\ Stamped(ts)
  BY DEF Quote, Tells, Stamped, Keyed

LEMMA SettleStepAnswers ==
    ASSUME Base, NEW ts \in Stamps, Settle(ts)
    PROVE  Tells /\ Stamped(ts)
<1> DEFINE D == In("inbox") \cup Due(ts)
<1>1. SettleInbox(D, ts) /\ Base'
  BY NextBase DEF Settle, Next
<1>2. D \in SUBSET Ids /\ \A i \in D : place[i] \in {"inbox", "delayed"}
  BY DEF In, Due
<1> HIDE DEF D
<1> QED BY <1>1, <1>2, SettleAnswers

LEMMA FlushAnswers ==
    ASSUME Base, Flush
    PROVE  Tells /\ Stamped(now) /\ \A e \in raw' : place[e.id] \in Entering
<1> DEFINE D == In("inbox") \cup In("delayed")
<1>1. SettleInbox(D, now) /\ Base'
  BY NextBase DEF Flush, Next
<1>2. D \in SUBSET Ids /\ \A i \in D : place[i] \in {"inbox", "delayed"}
  BY DEF In
<1> HIDE DEF D
<1> QED BY <1>1, <1>2, SettleAnswers

-----------------------------------------------------------------------------
(* Contracts in a list of events. *)

HeldRec == [ev: Event, ready: Nat]

LEMMA QtyTypes ==
    ASSUME NEW evs \in Seq(Event), NEW i
    PROVE  /\ QtyOfOrder(evs, i) \in Seq(Int) /\ QtyOfOrder(evs, i) \in Seq(Nat)
           /\ DOMAIN QtyOfOrder(evs, i) = DOMAIN evs
           /\ FilledQty(evs, i) \in Nat
<1> DEFINE w == QtyOfOrder(evs, i)
<1>1. \A k \in DOMAIN evs : evs[k].qty \in Nat
  <2>1. \A k \in DOMAIN evs : evs[k] \in Event
    OBVIOUS
  <2>2. \A e \in Event : e.qty \in Nat
    BY DEF Event
  <2> QED BY <2>1, <2>2
<1>2. w \in Seq(Nat) /\ w \in Seq(Int) /\ DOMAIN w = DOMAIN evs
  <2>1. w = [k \in 1..Len(evs) |-> IF evs[k].id = i THEN evs[k].qty ELSE 0]
    BY DEF QtyOfOrder
  <2>2. \A k \in 1..Len(evs) : (IF evs[k].id = i THEN evs[k].qty ELSE 0) \in Nat
    BY <1>1
  <2>3. Len(evs) \in Nat
    OBVIOUS
  <2> HIDE DEF w
  <2> QED BY <2>1, <2>2, <2>3
<1> HIDE DEF w
<1>3. Total(w) \in Nat
  BY <1>2, TotalBounds
<1> QED BY <1>2, <1>3 DEF w, FilledQty

LEMMA QtyEmpty == \A i : FilledQty(<<>>, i) = 0
<1>1. ASSUME NEW i PROVE QtyOfOrder(<<>>, i) = <<>>
  BY DEF QtyOfOrder
<1> QED BY <1>1, TotalEmpty DEF FilledQty

LEMMA QtyConcat ==
    ASSUME NEW u \in Seq(Event), NEW v \in Seq(Event), NEW i
    PROVE  FilledQty(u \o v, i) = FilledQty(u, i) + FilledQty(v, i)
<1> DEFINE a == QtyOfOrder(u, i)
           b == QtyOfOrder(v, i)
           c == QtyOfOrder(u \o v, i)
<1>1. a \in Seq(Int) /\ b \in Seq(Int)
  BY QtyTypes
<1>2. c = a \o b
  <2>1. /\ u \o v \in Seq(Event) /\ Len(u \o v) = Len(u) + Len(v)
        /\ \A k \in 1..(Len(u) + Len(v)) :
              (u \o v)[k] = IF k <= Len(u) THEN u[k] ELSE v[k - Len(u)]
    BY ConcatProperties
  <2> DEFINE x == u \o v
             n == Len(u)
             m == Len(v)
  <2>2. c \in Seq(Int) /\ Len(c) = n + m /\ Len(a) = n /\ Len(b) = m
    <3>1. c \in Seq(Int) /\ DOMAIN c = DOMAIN x /\ DOMAIN a = DOMAIN u /\ DOMAIN b = DOMAIN v
      <4> HIDE DEF c, a, b
      <4>1. c \in Seq(Int) /\ DOMAIN c = DOMAIN x
        BY <2>1, QtyTypes DEF c
      <4>2. DOMAIN a = DOMAIN u /\ DOMAIN b = DOMAIN v
        BY QtyTypes DEF a, b
      <4> QED BY <4>1, <4>2
    <3> HIDE DEF c, x, a, b
    <3> QED BY <1>1, <2>1, <3>1 DEF x
  <2>3. /\ \A k \in 1..(n + m) : c[k] = IF x[k].id = i THEN x[k].qty ELSE 0
        /\ \A k \in 1..n : a[k] = IF u[k].id = i THEN u[k].qty ELSE 0
        /\ \A k \in 1..m : b[k] = IF v[k].id = i THEN v[k].qty ELSE 0
    BY <2>1 DEF QtyOfOrder
  <2>4. n \in Nat /\ m \in Nat
    OBVIOUS
  <2>5. /\ a \o b \in Seq(Int) /\ Len(a \o b) = n + m
        /\ \A k \in 1..(n + m) : (a \o b)[k] = IF k <= n THEN a[k] ELSE b[k - n]
    <3> HIDE DEF a, b, c, n, m
    <3>1. /\ a \o b \in Seq(Int) /\ Len(a \o b) = Len(a) + Len(b)
          /\ \A k \in 1..(Len(a) + Len(b)) :
                (a \o b)[k] = IF k <= Len(a) THEN a[k] ELSE b[k - Len(a)]
      BY <1>1, ConcatProperties
    <3>2. Len(a) = n /\ Len(b) = m
      BY <2>2
    <3> QED BY <3>1, <3>2
  <2>6. \A k \in 1..(n + m) : x[k] = IF k <= n THEN u[k] ELSE v[k - n]
    BY <2>1
  <2> HIDE DEF a, b, c, x, n, m
  <2>7. ASSUME NEW k \in 1..(n + m) PROVE c[k] = (a \o b)[k]
    <3>1. CASE k <= n
      <4>1. k \in 1..n
        BY <2>4, <3>1
      <4> QED BY <4>1, <3>1, <2>3, <2>5, <2>6
    <3>2. CASE ~(k <= n)
      <4>1. k - n \in 1..m
        BY <2>4, <3>2
      <4> QED BY <4>1, <3>2, <2>3, <2>5, <2>6
    <3> QED BY <3>1, <3>2
  <2> QED BY <2>2, <2>5, <2>7, SeqEqual
<1> HIDE DEF a, b, c
<1>3. Total(a \o b) = Total(a) + Total(b)
  BY <1>1, TotalConcat
<1> QED BY <1>2, <1>3 DEF FilledQty, a, b, c

LEMMA EvsTypes ==
    ASSUME NEW held \in Seq(HeldRec)
    PROVE  /\ Evs(held) \in Seq(Event) /\ DOMAIN Evs(held) = DOMAIN held
           /\ \A k \in DOMAIN held : held[k] \in HeldRec /\ Evs(held)[k] = held[k].ev
<1>1. \A k \in 1..Len(held) : held[k] \in HeldRec /\ held[k].ev \in Event
  <2>1. \A k \in 1..Len(held) : held[k] \in HeldRec
    OBVIOUS
  <2>2. \A h \in HeldRec : h.ev \in Event
    BY DEF HeldRec
  <2> QED BY <2>1, <2>2
<1>2. Evs(held) = [k \in 1..Len(held) |-> held[k].ev] /\ Len(held) \in Nat
  BY DEF Evs
<1> QED BY <1>1, <1>2

LEMMA EvsConcat ==
    ASSUME NEW u \in Seq(HeldRec), NEW v \in Seq(HeldRec)
    PROVE  Evs(u \o v) = Evs(u) \o Evs(v)
<1> DEFINE x == u \o v
           n == Len(u)
           m == Len(v)
           a == Evs(u)
           b == Evs(v)
           c == Evs(x)
<1>1. /\ x \in Seq(HeldRec) /\ Len(x) = n + m
      /\ \A k \in 1..(n + m) : x[k] = IF k <= n THEN u[k] ELSE v[k - n]
      /\ n \in Nat /\ m \in Nat
  BY ConcatProperties
<1> HIDE DEF x
<1>2. /\ a \in Seq(Event) /\ b \in Seq(Event) /\ c \in Seq(Event)
      /\ DOMAIN a = 1..n /\ DOMAIN b = 1..m /\ DOMAIN c = 1..(n + m)
      /\ \A k \in 1..n : a[k] = u[k].ev
      /\ \A k \in 1..m : b[k] = v[k].ev
      /\ \A k \in 1..(n + m) : c[k] = x[k].ev
  <2>1. DOMAIN u = 1..n /\ DOMAIN v = 1..m /\ DOMAIN x = 1..(n + m)
    BY <1>1
  <2> QED BY <1>1, <2>1, EvsTypes
<1> HIDE DEF a, b, c, n, m
<1>3. Len(a) = n /\ Len(b) = m /\ Len(c) = n + m
  BY <1>1, <1>2
<1>4. /\ a \o b \in Seq(Event) /\ Len(a \o b) = n + m
      /\ \A k \in 1..(n + m) : (a \o b)[k] = IF k <= n THEN a[k] ELSE b[k - n]
  BY <1>2, <1>3, ConcatProperties
<1>5. ASSUME NEW k \in 1..(n + m) PROVE c[k] = (a \o b)[k]
  <2>1. CASE k <= n
    <3>1. k \in 1..n
      BY <1>1, <2>1
    <3> QED BY <3>1, <2>1, <1>1, <1>2, <1>4
  <2>2. CASE ~(k <= n)
    <3>1. k - n \in 1..m
      BY <1>1, <2>2
    <3> QED BY <3>1, <2>2, <1>1, <1>2, <1>4
  <2> QED BY <2>1, <2>2
<1>6. c = a \o b
  BY <1>2, <1>3, <1>4, <1>5, SeqEqual
<1> QED BY <1>6 DEF a, b, c, x

LEMMA QtySplit ==
    ASSUME NEW held \in Seq(HeldRec), NEW D, D \subseteq DOMAIN held, NEW i
    PROVE  FilledQty(Evs(Pick(held, D)), i) + FilledQty(Evs(Pick(held, DOMAIN held \ D)), i)
              = FilledQty(Evs(held), i)
<1> DEFINE w == QtyOfOrder(Evs(held), i)
<1>1. w \in Seq(Int) /\ DOMAIN w = DOMAIN held
  BY EvsTypes, QtyTypes
<1>2. ASSUME NEW P, P \subseteq DOMAIN held
      PROVE  QtyOfOrder(Evs(Pick(held, P)), i) = Pick(w, P)
  <2> DEFINE c == Cardinality(P)
  <2>1. \A n \in 1..c : Nth(P, n) \in DOMAIN held
    <3>1. P \subseteq 1..Len(held) /\ Len(held) \in Nat
      BY <1>2
    <3> QED BY <3>1, <1>2, NthFacts
  <2>2. Pick(held, P) = [n \in 1..c |-> held[Nth(P, n)]] /\ Pick(w, P) = [n \in 1..c |-> w[Nth(P, n)]]
    BY DEF Pick
  <2>3. \A k \in DOMAIN held : w[k] = IF held[k].ev.id = i THEN held[k].ev.qty ELSE 0
    BY DEF QtyOfOrder, Evs
  <2>4. QtyOfOrder(Evs(Pick(held, P)), i) =
            [n \in 1..c |-> IF held[Nth(P, n)].ev.id = i THEN held[Nth(P, n)].ev.qty ELSE 0]
    BY <2>2 DEF QtyOfOrder, Evs
  <2> HIDE DEF c, w
  <2> QED BY <2>1, <2>2, <2>3, <2>4
<1> HIDE DEF w
<1>3. Total(Pick(w, D)) + Total(Pick(w, DOMAIN w \ D)) = Total(w)
  BY <1>1, TotalSplit
<1>4. DOMAIN held \ D \subseteq DOMAIN held
  OBVIOUS
<1>5. /\ QtyOfOrder(Evs(Pick(held, D)), i) = Pick(w, D)
      /\ QtyOfOrder(Evs(Pick(held, DOMAIN held \ D)), i) = Pick(w, DOMAIN held \ D)
  BY <1>2, <1>4
<1> QED BY <1>1, <1>3, <1>5 DEF FilledQty, w

LEMMA QtyInOrder ==
    ASSUME NEW E, E \subseteq Event, Keyed(E), NEW i
    PROVE  /\ \A e \in E : e.id = i => FilledQty(InOrder(E), i) = e.qty
           /\ (\A e \in E : e.id # i) => FilledQty(InOrder(E), i) = 0
<1> DEFINE r == InOrder(E)
           w == QtyOfOrder(r, i)
<1>1. /\ r \in Seq(E) /\ r \in Seq(Event)
      /\ \A e \in E : \E k \in DOMAIN r : r[k] = e
      /\ \A j, k \in DOMAIN r : j # k => r[j].id # r[k].id
  BY InOrderFacts
<1>2. /\ w \in Seq(Int) /\ DOMAIN w = DOMAIN r
      /\ \A k \in DOMAIN r : w[k] = IF r[k].id = i THEN r[k].qty ELSE 0
  <2> HIDE DEF r
  <2>1. w \in Seq(Int) /\ DOMAIN w = DOMAIN r
    BY <1>1, QtyTypes
  <2> QED BY <2>1 DEF QtyOfOrder
<1> HIDE DEF r, w
<1>3. ASSUME NEW e \in E, e.id = i PROVE Total(w) = e.qty
  <2>1. PICK j \in DOMAIN r : r[j] = e
    BY <1>1
  <2>2. \A k \in DOMAIN w : k # j => w[k] = 0
    BY <1>1, <1>2, <1>3, <2>1
  <2>3. Total(w) = w[j]
    BY <1>2, <2>2, TotalOnly
  <2> QED BY <1>2, <1>3, <2>1, <2>3
<1>4. ASSUME \A e \in E : e.id # i PROVE Total(w) = 0
  <2>1. \A k \in DOMAIN w : w[k] = 0
    BY <1>1, <1>2, <1>4
  <2> QED BY <1>2, <2>1, TotalZero
<1> QED BY <1>3, <1>4 DEF FilledQty, w, r

\* The answers of a step, listed, are what it executed.
LEMMA ToldQty ==
    ASSUME TypeOK, TypeOK', Tells, NEW i \in Ids
    PROVE  executed'[i] = executed[i] + FilledQty(InOrder(raw'), i)
<1>1. raw' \subseteq Event /\ executed[i] \in Nat
  BY DEF TypeOK
<1>2. CASE \E e \in raw' : e.id = i
  <2>1. PICK e \in raw' : e.id = i
    BY <1>2
  <2>2. FilledQty(InOrder(raw'), i) = e.qty
    BY <1>1, <2>1, QtyInOrder DEF Tells
  <2> QED BY <2>1, <2>2 DEF Tells
<1>3. CASE \A e \in raw' : e.id # i
  <2>1. FilledQty(InOrder(raw'), i) = 0
    BY <1>1, <1>3, QtyInOrder DEF Tells
  <2> QED BY <1>1, <1>3, <2>1 DEF Tells
<1> QED BY <1>2, <1>3

-----------------------------------------------------------------------------
(* What a call holds and hands back. *)

Delayed(ts) == [k \in DOMAIN InOrder(raw') |-> [ev |-> InOrder(raw')[k], ready |-> ts + Response]]

LEMMA DelayedTypes ==
    ASSUME raw' \subseteq Event, Keyed(raw'), NEW ts \in Nat
    PROVE  Delayed(ts) \in Seq(HeldRec) /\ Evs(Delayed(ts)) = InOrder(raw')
<1> DEFINE r == InOrder(raw')
<1>1. r \in Seq(Event)
  BY InOrderFacts
<1>2. Delayed(ts) = [k \in 1..Len(r) |-> [ev |-> r[k], ready |-> ts + Response]] /\ Len(r) \in Nat
  BY <1>1 DEF Delayed
<1> HIDE DEF r
<1>3. ts + Response \in Nat
  BY VenueAssumption
<1>4. \A k \in 1..Len(r) : [ev |-> r[k], ready |-> ts + Response] \in HeldRec
  BY <1>1, <1>3 DEF HeldRec
<1>5. Delayed(ts) \in Seq(HeldRec)
  BY <1>2, <1>4
<1>6. Evs(Delayed(ts)) = r
  BY <1>1, <1>2 DEF Evs
<1> QED BY <1>5, <1>6 DEF r

LEMMA HoldOrEmitFacts ==
    ASSUME outbox \in Seq(HeldRec), raw' \subseteq Event, Keyed(raw'), NEW ts \in Nat, HoldOrEmit(ts)
    PROVE  /\ batch' \in Seq(Event) /\ outbox' \in Seq(HeldRec)
           /\ \A i \in Ids : FilledQty(batch', i) + FilledQty(Evs(outbox'), i)
                                = FilledQty(Evs(outbox), i) + FilledQty(InOrder(raw'), i)
<1> DEFINE fresh == InOrder(raw')
           held  == IF Response = 0 THEN outbox ELSE outbox \o Delayed(ts)
           emit  == IF Response = 0 THEN fresh ELSE <<>>
           D     == DueOf(held, ts)
           C     == DOMAIN held \ D
<1>1. /\ batch' = emit \o Evs(Pick(held, D))
      /\ outbox' = Pick(held, C)
  BY DEF HoldOrEmit, Delayed
<1>2. fresh \in Seq(Event) /\ Delayed(ts) \in Seq(HeldRec) /\ Evs(Delayed(ts)) = fresh
  BY InOrderFacts, DelayedTypes
<1>3. held \in Seq(HeldRec) /\ emit \in Seq(Event)
  <2> HIDE DEF fresh
  <2>1. outbox \o Delayed(ts) \in Seq(HeldRec)
    BY <1>2
  <2> QED BY <1>2, <2>1
<1>4. D \subseteq DOMAIN held /\ C \subseteq DOMAIN held
  BY DEF DueOf
<1>5. \A i \in Ids : FilledQty(Evs(held), i) + FilledQty(emit, i)
                        = FilledQty(Evs(outbox), i) + FilledQty(fresh, i)
  <2> TAKE i \in Ids
  <2> HIDE DEF fresh
  <2>1. Evs(outbox) \in Seq(Event) /\ FilledQty(Evs(outbox), i) \in Nat /\ FilledQty(fresh, i) \in Nat
    BY <1>2, EvsTypes, QtyTypes
  <2>2. CASE Response = 0
    BY <2>2, <2>1
  <2>3. CASE Response # 0
    <3>1. Evs(outbox \o Delayed(ts)) = Evs(outbox) \o fresh
      BY <1>2, EvsConcat
    <3>2. FilledQty(Evs(outbox) \o fresh, i) = FilledQty(Evs(outbox), i) + FilledQty(fresh, i)
      BY <1>2, <2>1, QtyConcat
    <3>3. held = outbox \o Delayed(ts) /\ emit = <<>>
      BY <2>3
    <3>4. FilledQty(emit, i) = 0
      BY <3>3, QtyEmpty
    <3> HIDE DEF held, emit
    <3>5. FilledQty(Evs(held), i) = FilledQty(Evs(outbox), i) + FilledQty(fresh, i)
      BY <3>1, <3>2, <3>3
    <3> QED BY <2>1, <3>4, <3>5
  <2> QED BY <2>2, <2>3
<1> HIDE DEF held, emit, D, C, fresh
<1>6. Pick(held, D) \in Seq(HeldRec) /\ Pick(held, C) \in Seq(HeldRec)
  BY <1>3, <1>4, PickFacts
<1>7. Evs(Pick(held, D)) \in Seq(Event) /\ Evs(Pick(held, C)) \in Seq(Event)
  BY <1>6, EvsTypes
<1>8. batch' \in Seq(Event) /\ outbox' \in Seq(HeldRec)
  BY <1>1, <1>3, <1>6, <1>7
<1>9. ASSUME NEW i \in Ids
      PROVE  FilledQty(batch', i) + FilledQty(Evs(outbox'), i)
                = FilledQty(Evs(outbox), i) + FilledQty(fresh, i)
  <2>1. FilledQty(batch', i) = FilledQty(emit, i) + FilledQty(Evs(Pick(held, D)), i)
    BY <1>1, <1>3, <1>7, QtyConcat
  <2>2. FilledQty(Evs(Pick(held, D)), i) + FilledQty(Evs(Pick(held, C)), i) = FilledQty(Evs(held), i)
    BY <1>3, <1>4, QtySplit DEF C
  <2>3. /\ FilledQty(emit, i) \in Nat /\ FilledQty(Evs(Pick(held, D)), i) \in Nat
        /\ FilledQty(Evs(Pick(held, C)), i) \in Nat
    BY <1>3, <1>7, QtyTypes
  <2>4. FilledQty(Evs(held), i) + FilledQty(emit, i) = FilledQty(Evs(outbox), i) + FilledQty(fresh, i)
    BY <1>5
  <2> QED BY <1>1, <2>1, <2>2, <2>3, <2>4
<1> QED BY <1>8, <1>9 DEF fresh

-----------------------------------------------------------------------------
(* Every contract is handed back once. *)

ReplyTypes ==
    /\ outbox \in Seq(HeldRec)
    /\ batch \in Seq(Event)
    /\ got \in [Ids -> Nat]

HandInv == ReplyTypes /\ HandedBackOnce

LEMMA InitHand == VInit => HandInv
<1> SUFFICES ASSUME VInit PROVE HandInv
  OBVIOUS
<1>1. /\ outbox = <<>> /\ batch = <<>> /\ got = [i \in Ids |-> 0]
      /\ executed = [i \in Ids |-> 0]
  BY DEF VInit, Init
<1>2. ReplyTypes
  BY <1>1 DEF ReplyTypes
<1>3. Evs(outbox) = <<>>
  BY <1>1 DEF Evs
<1>4. ASSUME NEW i \in Ids PROVE executed[i] = got[i] + FilledQty(Evs(outbox), i)
  BY <1>1, <1>3, QtyEmpty
<1> QED BY <1>2, <1>4 DEF HandInv, HandedBackOnce

\* A call that answers, through the outbox or not.
LEMMA AnswerHand ==
    ASSUME HandInv, TypeOK, TypeOK', Tells, NEW ts \in Nat, HoldOrEmit(ts)
    PROVE  HandInv'
<1>1. outbox \in Seq(HeldRec) /\ raw' \subseteq Event /\ Keyed(raw') /\ got \in [Ids -> Nat]
  BY DEF HandInv, ReplyTypes, TypeOK, Tells
<1>2. /\ batch' \in Seq(Event) /\ outbox' \in Seq(HeldRec)
      /\ \A i \in Ids : FilledQty(batch', i) + FilledQty(Evs(outbox'), i)
                           = FilledQty(Evs(outbox), i) + FilledQty(InOrder(raw'), i)
  BY <1>1, HoldOrEmitFacts
<1>3. got' = [i \in Ids |-> got[i] + FilledQty(batch', i)]
  BY DEF HoldOrEmit, Count
<1>4. \A i \in Ids : /\ FilledQty(batch', i) \in Nat /\ FilledQty(Evs(outbox'), i) \in Nat
                     /\ FilledQty(Evs(outbox), i) \in Nat /\ FilledQty(InOrder(raw'), i) \in Nat
  <2>1. Evs(outbox) \in Seq(Event) /\ Evs(outbox') \in Seq(Event) /\ InOrder(raw') \in Seq(Event)
    BY <1>1, <1>2, EvsTypes, InOrderFacts
  <2> QED BY <1>2, <2>1, QtyTypes
<1>5. got' \in [Ids -> Nat]
  BY <1>1, <1>3, <1>4
<1>6. ASSUME NEW i \in Ids PROVE executed'[i] = got'[i] + FilledQty(Evs(outbox'), i)
  <2>1. executed'[i] = executed[i] + FilledQty(InOrder(raw'), i)
    BY ToldQty
  <2>2. executed[i] = got[i] + FilledQty(Evs(outbox), i) /\ executed[i] \in Nat /\ got[i] \in Nat
    BY <1>1 DEF HandInv, HandedBackOnce, TypeOK
  <2>3. got'[i] = got[i] + FilledQty(batch', i)
    BY <1>3
  <2>4. FilledQty(batch', i) + FilledQty(Evs(outbox'), i)
           = FilledQty(Evs(outbox), i) + FilledQty(InOrder(raw'), i)
    BY <1>2
  <2> QED BY <1>4, <2>1, <2>2, <2>3, <2>4
<1>7. ReplyTypes'
  BY <1>2, <1>5 DEF ReplyTypes
<1> QED BY <1>6, <1>7 DEF HandInv, HandedBackOnce

LEMMA FlushHand ==
    ASSUME HandInv, TypeOK, TypeOK', Tells, VFlush
    PROVE  HandInv'
<1> DEFINE fresh == InOrder(raw')
           held  == Evs(outbox)
<1>1. fresh \in Seq(Event) /\ held \in Seq(Event) /\ got \in [Ids -> Nat]
  BY InOrderFacts, EvsTypes DEF HandInv, ReplyTypes, TypeOK, Tells
<1>2. batch' = fresh \o held /\ outbox' = <<>> /\ got' = [i \in Ids |-> got[i] + FilledQty(batch', i)]
  BY DEF VFlush, Count
<1>3. batch' \in Seq(Event) /\ outbox' \in Seq(HeldRec)
  BY <1>1, <1>2
<1>4. Evs(outbox') = <<>>
  BY <1>2 DEF Evs
<1> HIDE DEF fresh, held
<1>5. \A i \in Ids : FilledQty(batch', i) = FilledQty(fresh, i) + FilledQty(held, i)
  BY <1>1, <1>2, QtyConcat
<1>6. \A i \in Ids : /\ FilledQty(batch', i) \in Nat /\ FilledQty(fresh, i) \in Nat
                     /\ FilledQty(held, i) \in Nat /\ FilledQty(Evs(outbox'), i) = 0
  BY <1>1, <1>3, <1>4, QtyTypes, QtyEmpty
<1>7. got' \in [Ids -> Nat]
  BY <1>1, <1>2, <1>6
<1>8. ASSUME NEW i \in Ids PROVE executed'[i] = got'[i] + FilledQty(Evs(outbox'), i)
  <2>1. executed'[i] = executed[i] + FilledQty(fresh, i)
    BY ToldQty DEF fresh
  <2>2. executed[i] = got[i] + FilledQty(held, i) /\ executed[i] \in Nat /\ got[i] \in Nat
    BY <1>1 DEF HandInv, HandedBackOnce, TypeOK, held
  <2>3. got'[i] = got[i] + FilledQty(batch', i)
    BY <1>2
  <2> QED BY <1>5, <1>6, <2>1, <2>2, <2>3
<1>9. ReplyTypes'
  BY <1>3, <1>7 DEF ReplyTypes
<1> QED BY <1>8, <1>9 DEF HandInv, HandedBackOnce

LEMMA QuietHand ==
    ASSUME HandInv, NoReply, UNCHANGED executed
    PROVE  HandInv'
  BY DEF HandInv, ReplyTypes, HandedBackOnce, NoReply

LEMMA NextHand == HandInv /\ Base /\ [VNext]_venueVars => HandInv'
<1> SUFFICES ASSUME HandInv, Base, [VNext]_venueVars PROVE HandInv'
  OBVIOUS
<1>1. TypeOK /\ TypeOK'
  BY StepIsMatching, NextBase DEF Base
<1>2. ASSUME NEW o \in Requests, VEnqueue(o) PROVE HandInv'
  BY <1>2, QuietHand DEF VEnqueue, Enqueue, history
<1>3. ASSUME NEW i \in Ids, VCancel(i) PROVE HandInv'
  BY <1>3, QuietHand DEF VCancel, Cancel, history
<1>4. ASSUME NEW ts \in Stamps, VSync(ts) PROVE HandInv'
  BY <1>4, QuietHand DEF VSync, Sync, history
<1>5. \A ts \in Stamps : ts \in Nat
  BY <1>1, LaterIsTime
<1>6. ASSUME NEW ts \in Stamps, VSettle(ts) PROVE HandInv'
  BY <1>1, <1>5, <1>6, SettleStepAnswers, AnswerHand DEF VSettle
<1>7. ASSUME NEW q \in Quotes, NEW ts \in Stamps, VQuote(q, ts) PROVE HandInv'
  BY <1>1, <1>5, <1>7, QuoteAnswers, AnswerHand DEF VQuote
<1>8. ASSUME NEW t \in Trades, NEW ts \in Stamps, VTrade(t, ts) PROVE HandInv'
  BY <1>1, <1>5, <1>8, TradeAnswers, AnswerHand DEF VTrade
<1>9. ASSUME VFlush PROVE HandInv'
  <2>1. Flush
    BY <1>9 DEF VFlush
  <2> QED BY <1>1, <1>9, <2>1, FlushAnswers, FlushHand
<1>10. ASSUME UNCHANGED venueVars PROVE HandInv'
  BY <1>10, QuietHand DEF venueVars, vars, history, NoReply
<1> QED BY <1>2, <1>3, <1>4, <1>6, <1>7, <1>8, <1>9, <1>10 DEF VNext

\* Every contract the matching executes reaches the caller exactly once, for any
\* delay, orders, quotes, prints and stamps.
THEOREM HandedBackHolds == VSpec => []HandedBackOnce
<1>1. VSpec => []Base
  BY VenueMatches, BaseHolds, PTL
<1>2. HandInv => HandedBackOnce
  BY DEF HandInv
<1> QED BY InitHand, NextHand, <1>1, <1>2, PTL DEF VSpec

-----------------------------------------------------------------------------
(* The answers of one order arrive in the order they happened. *)

\* What a list of held events keeps: nothing in it is of an order still to
\* enter, it is sorted by the time it is due, and so, per order, by its stamps.
Answered(held) == \A k \in DOMAIN held : place[held[k].ev.id] \notin Entering
Sorted(held, t) ==
    /\ \A k \in DOMAIN held : held[k].ev.ts <= t /\ held[k].ready <= t + Response
    /\ \A j, k \in DOMAIN held : j < k => held[j].ready <= held[k].ready
    /\ \A j, k \in DOMAIN held :
          j < k /\ held[j].ev.id = held[k].ev.id => held[j].ev.ts <= held[k].ev.ts

OutInv ==
    /\ Response = 0 => outbox = <<>>
    /\ Answered(outbox)
    /\ ~BadStamps => Sorted(outbox, now)

OrderInv == ReplyTypes /\ OutInv /\ PerOrderInOrder

LEMMA InitOrder == VInit => OrderInv
<1> SUFFICES ASSUME VInit PROVE OrderInv
  OBVIOUS
<1>1. /\ outbox = <<>> /\ batch = <<>> /\ DOMAIN outbox = {} /\ DOMAIN batch = {}
  BY DEF VInit
<1>2. OutInv
  BY <1>1 DEF OutInv, Answered, Sorted
<1>3. PerOrderInOrder
  BY <1>1 DEF PerOrderInOrder
<1> QED BY <1>2, <1>3, InitHand DEF OrderInv, HandInv

LEMMA QuietOrder ==
    ASSUME OrderInv, NoReply, now \in Nat, now' \in Nat, now <= now',
           \A i \in Ids : place[i] \notin Entering => place'[i] \notin Entering
    PROVE  OrderInv'
<1>1. outbox' = outbox /\ batch' = batch /\ got' = got /\ outbox \in Seq(HeldRec)
  BY DEF NoReply, OrderInv, ReplyTypes
<1>2. \A k \in DOMAIN outbox : /\ outbox[k].ev.id \in Ids
                               /\ outbox[k].ev.ts \in Nat /\ outbox[k].ready \in Nat
  BY <1>1, EvsTypes, EventFacts DEF HeldRec
<1>3. Answered(outbox)'
  BY <1>1, <1>2 DEF OrderInv, OutInv, Answered
<1>4. ~BadStamps => \A k \in DOMAIN outbox : outbox[k].ev.ts <= now' /\ outbox[k].ready <= now' + Response
  BY <1>2, VenueAssumption DEF OrderInv, OutInv, Sorted
<1>5. ~BadStamps => Sorted(outbox, now)'
  BY <1>1, <1>4 DEF OrderInv, OutInv, Sorted
<1>6. OutInv'
  BY <1>1, <1>3, <1>5 DEF OrderInv, OutInv
<1>7. PerOrderInOrder'
  BY <1>1 DEF OrderInv, PerOrderInOrder
<1>8. ReplyTypes'
  BY <1>1 DEF OrderInv, ReplyTypes
<1> QED BY <1>6, <1>7, <1>8 DEF OrderInv

\* What held keeps when this call's events join it.
LEMMA JoinSorted ==
    ASSUME OrderInv, TypeOK, TypeOK', Tells, NEW ts \in Nat, Stamped(ts), now <= ts, ~BadStamps
    PROVE  Sorted(outbox \o Delayed(ts), ts)
<1> DEFINE r == InOrder(raw')
           d == Delayed(ts)
           n == Len(outbox)
           h == outbox \o d
<1>1. /\ outbox \in Seq(HeldRec) /\ raw' \subseteq Event /\ Keyed(raw')
      /\ now \in Nat /\ Response \in Nat
  BY VenueAssumption DEF OrderInv, ReplyTypes, TypeOK, Tells
<1>2. /\ r \in Seq(raw')
      /\ \A j, k \in DOMAIN r : j # k => r[j].id # r[k].id
  BY <1>1, InOrderFacts
<1>3. d \in Seq(HeldRec) /\ DOMAIN d = DOMAIN r
      /\ \A k \in DOMAIN d : d[k].ev = r[k] /\ d[k].ready = ts + Response
  BY <1>1, DelayedTypes DEF Delayed
<1>4. \A k \in DOMAIN d : /\ d[k].ev \in raw' /\ d[k].ev \in Event
                          /\ d[k].ev.ts \in Nat /\ d[k].ev.id \in Ids
  <2>1. \A k \in DOMAIN r : r[k] \in raw'
    BY <1>2
  <2>2. \A e \in raw' : e \in Event /\ e.ts \in Nat /\ e.id \in Ids
    BY <1>1 DEF Event
  <2> HIDE DEF r, d
  <2> QED BY <1>3, <2>1, <2>2
<1>5. /\ \A k \in DOMAIN outbox : /\ outbox[k].ev.ts <= now /\ outbox[k].ready <= now + Response
                                  /\ place[outbox[k].ev.id] \notin Entering
      /\ \A j, k \in DOMAIN outbox : j < k => outbox[j].ready <= outbox[k].ready
      /\ \A j, k \in DOMAIN outbox :
            j < k /\ outbox[j].ev.id = outbox[k].ev.id => outbox[j].ev.ts <= outbox[k].ev.ts
  BY DEF OrderInv, OutInv, Sorted, Answered
<1>6. \A k \in DOMAIN outbox : outbox[k].ev.ts \in Nat /\ outbox[k].ready \in Nat
  BY <1>1, EvsTypes, EventFacts DEF HeldRec
<1>7. \A k \in DOMAIN d : d[k].ev.ts \in {0, ts} /\ (d[k].ev.ts = ts \/ place[d[k].ev.id] \in Entering)
  <2>1. \A e \in raw' : e.ts \in {0, ts} /\ (e.ts = ts \/ place[e.id] \in Entering)
    BY DEF Stamped
  <2> HIDE DEF d
  <2> QED BY <1>4, <2>1
<1>8. \A j, k \in DOMAIN d : j # k => d[j].ev.id # d[k].ev.id
  <2> HIDE DEF d, r
  <2> QED BY <1>2, <1>3
<1> HIDE DEF r, d
<1>9. /\ DOMAIN h = 1..(n + Len(d)) /\ n \in Nat /\ Len(d) \in Nat
      /\ DOMAIN outbox = 1..n /\ DOMAIN d = 1..Len(d)
      /\ \A k \in DOMAIN h : h[k] = IF k <= n THEN outbox[k] ELSE d[k - n]
  <2>1. /\ h \in Seq(HeldRec) /\ Len(h) = n + Len(d)
        /\ \A k \in 1..(n + Len(d)) : h[k] = IF k <= n THEN outbox[k] ELSE d[k - n]
    BY <1>1, <1>3, ConcatProperties
  <2> HIDE DEF h
  <2> QED BY <1>1, <1>3, <2>1
<1> DEFINE m == Len(d)
<1> HIDE DEF h, n, m
<1>10. ASSUME NEW k \in DOMAIN h
       PROVE  \/ k \in DOMAIN outbox /\ k <= n /\ h[k] = outbox[k]
              \/ k - n \in DOMAIN d /\ k > n /\ h[k] = d[k - n]
  <2>1. CASE k <= n
    <3>1. k \in DOMAIN outbox
      BY <1>9, <2>1
    <3> QED BY <1>9, <2>1, <3>1
  <2>2. CASE ~(k <= n)
    <3>1. k - n \in DOMAIN d /\ k > n
      BY <1>9, <2>2 DEF m
    <3> QED BY <1>9, <2>2, <3>1
  <2> QED BY <2>1, <2>2
<1>11. ASSUME NEW k \in DOMAIN h PROVE h[k].ev.ts <= ts /\ h[k].ready <= ts + Response
  <2>1. CASE k \in DOMAIN outbox /\ h[k] = outbox[k]
    <3>1. outbox[k].ev.ts <= now /\ outbox[k].ready <= now + Response
          /\ outbox[k].ev.ts \in Nat /\ outbox[k].ready \in Nat
      BY <2>1, <1>5, <1>6
    <3> QED BY <2>1, <3>1, <1>1
  <2>2. CASE k - n \in DOMAIN d /\ h[k] = d[k - n]
    <3>1. d[k - n].ev.ts \in {0, ts} /\ d[k - n].ready = ts + Response
      BY <2>2, <1>3, <1>7
    <3> QED BY <2>2, <3>1, <1>1
  <2> QED BY <1>10, <2>1, <2>2
<1>12. ASSUME NEW j \in DOMAIN h, NEW k \in DOMAIN h, j < k
       PROVE  /\ h[j].ready <= h[k].ready
              /\ h[j].ev.id = h[k].ev.id => h[j].ev.ts <= h[k].ev.ts
  <2>1. CASE k \in DOMAIN outbox /\ k <= n /\ h[k] = outbox[k]
    <3>1. j \in DOMAIN outbox /\ h[j] = outbox[j]
      BY <1>9, <1>10, <1>12, <2>1
    <3> QED BY <1>5, <1>12, <2>1, <3>1
  <2>2. CASE k - n \in DOMAIN d /\ k > n /\ h[k] = d[k - n]
    <3>1. CASE j \in DOMAIN outbox /\ h[j] = outbox[j]
      <4>1. outbox[j].ev.ts <= now /\ outbox[j].ready <= now + Response
            /\ outbox[j].ev.ts \in Nat /\ outbox[j].ready \in Nat
            /\ place[outbox[j].ev.id] \notin Entering
        BY <3>1, <1>5, <1>6
      <4>2. d[k - n].ready = ts + Response
            /\ (d[k - n].ev.ts = ts \/ place[d[k - n].ev.id] \in Entering)
        BY <2>2, <1>3, <1>7
      <4>3. h[j].ready <= h[k].ready
        BY <2>2, <3>1, <4>1, <4>2, <1>1
      <4>4. h[j].ev.id = h[k].ev.id => h[j].ev.ts <= h[k].ev.ts
        BY <2>2, <3>1, <4>1, <4>2, <1>1
      <4> QED BY <4>3, <4>4
    <3>2. CASE j - n \in DOMAIN d /\ h[j] = d[j - n]
      <4>1. j - n # k - n
        BY <1>9, <1>12
      <4>2. d[j - n].ready = ts + Response /\ d[k - n].ready = ts + Response
            /\ d[j - n].ev.id # d[k - n].ev.id
        BY <2>2, <3>2, <4>1, <1>3, <1>8
      <4> QED BY <2>2, <3>2, <4>2, <1>1
    <3> QED BY <1>10, <3>1, <3>2
  <2> QED BY <1>10, <2>1, <2>2
<1>13. Sorted(h, ts)
  BY <1>11, <1>12 DEF Sorted
<1> QED BY <1>13 DEF h, d

\* A part of a sorted list, picked, is sorted.
LEMMA PickSorted ==
    ASSUME NEW held \in Seq(HeldRec), NEW P, P \subseteq DOMAIN held, NEW t, Sorted(held, t)
    PROVE  Sorted(Pick(held, P), t)
<1> DEFINE r == Pick(held, P)
<1>1. PICK e \in [DOMAIN r -> P] :
         /\ \A n, o \in DOMAIN e : n < o => e[n] < e[o]
         /\ \A k \in P : \E n \in DOMAIN e : e[n] = k
         /\ \A n \in DOMAIN e : r[n] = held[e[n]]
  BY SMTT(30), PickFacts
<1> HIDE DEF r
<1>2. \A n \in DOMAIN r : e[n] \in DOMAIN held /\ r[n] = held[e[n]]
  BY <1>1
<1>3. \A n, o \in DOMAIN r : n < o => e[n] < e[o]
  BY <1>1
<1>4. Sorted(r, t)
  BY <1>2, <1>3 DEF Sorted
<1> QED BY <1>4 DEF r

\* What a call hands back is older, order for order, than what it keeps.
LEMMA DueFirst ==
    ASSUME NEW held \in Seq(HeldRec), NEW t, Sorted(held, t), NEW ts \in Nat,
           NEW j \in DueOf(held, ts), NEW k \in DOMAIN held \ DueOf(held, ts)
    PROVE  held[j].ev.id = held[k].ev.id => held[j].ev.ts <= held[k].ev.ts
<1>1. j \in DOMAIN held /\ k \in DOMAIN held /\ j \in Int /\ k \in Int
      /\ held[j].ready <= ts /\ ~(held[k].ready <= ts)
  BY DEF DueOf
<1>2. held[j].ready \in Nat /\ held[k].ready \in Nat
  BY <1>1, EvsTypes DEF HeldRec
<1>3. ~(k < j) /\ k # j
  BY <1>1, <1>2 DEF Sorted
<1> QED BY <1>1, <1>3 DEF Sorted

LEMMA AnswerOrder ==
    ASSUME OrderInv, HandInv, TypeOK, TypeOK', Tells, NEW ts \in Nat, Stamped(ts), HoldOrEmit(ts),
           ~BadStamps => now <= ts /\ now' = ts
    PROVE  OrderInv'
<1> DEFINE fresh == InOrder(raw')
           held  == IF Response = 0 THEN outbox ELSE outbox \o Delayed(ts)
           emit  == IF Response = 0 THEN fresh ELSE <<>>
           D     == DueOf(held, ts)
           C     == DOMAIN held \ D
<1>1. /\ batch' = emit \o Evs(Pick(held, D))
      /\ outbox' = Pick(held, C)
  BY DEF HoldOrEmit, Delayed
<1>2. /\ outbox \in Seq(HeldRec) /\ raw' \subseteq Event /\ Keyed(raw')
      /\ fresh \in Seq(Event) /\ Delayed(ts) \in Seq(HeldRec) /\ Evs(Delayed(ts)) = fresh
      /\ fresh \in Seq(raw')
      /\ \A j, k \in DOMAIN fresh : j # k => fresh[j].id # fresh[k].id
  BY InOrderFacts, DelayedTypes DEF OrderInv, ReplyTypes, TypeOK, Tells
<1>3. held \in Seq(HeldRec)
  <2>1. outbox \o Delayed(ts) \in Seq(HeldRec)
    BY <1>2
  <2> QED BY <1>2, <2>1
<1>4. D \subseteq DOMAIN held /\ C \subseteq DOMAIN held
  BY DEF DueOf
<1>5. Response = 0 => held = <<>>
  BY DEF OrderInv, OutInv
<1>6. Response # 0 /\ ~BadStamps => Sorted(held, ts)
  BY JoinSorted
<1>7. ASSUME NEW k \in DOMAIN held PROVE place'[held[k].ev.id] \notin Entering
  <2>1. \A h \in DOMAIN outbox : place'[outbox[h].ev.id] \notin Entering
    <3>1. \A h \in DOMAIN outbox : outbox[h].ev.id \in Ids /\ place[outbox[h].ev.id] \notin Entering
      BY <1>2, EvsTypes DEF HeldRec, Event, OrderInv, OutInv, Answered
    <3> QED BY <3>1 DEF Stamped
  <2>2. CASE Response = 0
    BY <1>5, <2>2
  <2>3. CASE Response # 0
    <3> DEFINE d == Delayed(ts)
               n == Len(outbox)
    <3>1. held = outbox \o d
      BY <2>3
    <3>2. /\ DOMAIN held = 1..(n + Len(d)) /\ DOMAIN outbox = 1..n /\ DOMAIN d = 1..Len(d)
          /\ n \in Nat /\ Len(d) \in Nat
          /\ held[k] = IF k <= n THEN outbox[k] ELSE d[k - n]
      <4>1. /\ outbox \o d \in Seq(HeldRec) /\ Len(outbox \o d) = n + Len(d)
            /\ \A i \in 1..(n + Len(d)) : (outbox \o d)[i] = IF i <= n THEN outbox[i] ELSE d[i - n]
        BY <1>2, ConcatProperties
      <4> HIDE DEF held, d
      <4>2. k \in DOMAIN (outbox \o d)
        BY <3>1
      <4> QED BY <1>2, <3>1, <4>1, <4>2 DEF d
    <3>3. \A h \in DOMAIN d : place'[d[h].ev.id] \notin Entering
      <4>1. \A h \in DOMAIN fresh : fresh[h] \in raw'
        BY <1>2
      <4>2. DOMAIN d = DOMAIN fresh /\ \A h \in DOMAIN d : d[h].ev = fresh[h]
        BY DEF Delayed
      <4> HIDE DEF d, fresh
      <4> QED BY <4>1, <4>2 DEF Stamped
    <3> HIDE DEF d, n, held
    <3>4. CASE k <= n
      <4>1. k \in DOMAIN outbox
        BY <3>2, <3>4
      <4> QED BY <3>2, <3>4, <4>1, <2>1
    <3>5. CASE ~(k <= n)
      <4>1. k - n \in DOMAIN d
        BY <3>2, <3>5
      <4> QED BY <3>2, <3>5, <4>1, <3>3
    <3> QED BY <3>4, <3>5
  <2> QED BY <2>2, <2>3
<1> HIDE DEF held, fresh
<1>8. /\ Pick(held, D) \in Seq(HeldRec) /\ Pick(held, C) \in Seq(HeldRec)
      /\ \E e \in [DOMAIN Pick(held, D) -> D] :
            \A n \in DOMAIN Pick(held, D) : Pick(held, D)[n] = held[e[n]]
      /\ \E e \in [DOMAIN Pick(held, C) -> C] :
            \A n \in DOMAIN Pick(held, C) : Pick(held, C)[n] = held[e[n]]
  <2> HIDE DEF D, C
  <2>1. Pick(held, D) \in Seq(HeldRec) /\ Pick(held, C) \in Seq(HeldRec)
    BY <1>3, <1>4, PickFacts
  <2>2. \E e \in [DOMAIN Pick(held, D) -> D] :
           \A n \in DOMAIN Pick(held, D) : Pick(held, D)[n] = held[e[n]]
    BY <1>3, <1>4, PickFacts
  <2>3. \E e \in [DOMAIN Pick(held, C) -> C] :
           \A n \in DOMAIN Pick(held, C) : Pick(held, C)[n] = held[e[n]]
    BY <1>3, <1>4, PickFacts
  <2> QED BY <2>1, <2>2, <2>3
<1>9. Answered(outbox)'
  <2>1. PICK e \in [DOMAIN Pick(held, C) -> C] :
           \A n \in DOMAIN Pick(held, C) : Pick(held, C)[n] = held[e[n]]
    BY <1>8
  <2> HIDE DEF C, D
  <2>2. \A n \in DOMAIN outbox' : e[n] \in DOMAIN held /\ outbox'[n] = held[e[n]]
    BY <1>1, <1>4, <2>1
  <2> QED BY <1>7, <2>2 DEF Answered
<1>10. Response = 0 => outbox' = <<>> /\ batch' = fresh
  <2> SUFFICES ASSUME Response = 0 PROVE outbox' = <<>> /\ batch' = fresh
    OBVIOUS
  <2>1. D = {} /\ C = {}
    BY <1>4, <1>5
  <2>2. Pick(held, {}) = <<>>
    <3>1. Cardinality({}) = 0
      BY FS_EmptySet
    <3> QED BY <3>1 DEF Pick
  <2>3. Evs(<<>>) = <<>>
    BY DEF Evs
  <2> HIDE DEF D, C
  <2> QED BY <1>1, <1>2, <2>1, <2>2, <2>3
<1>11. ~BadStamps => Sorted(outbox, now)'
  <2> SUFFICES ASSUME ~BadStamps PROVE Sorted(outbox, now)'
    OBVIOUS
  <2>1. CASE Response = 0
    <3>1. DOMAIN outbox' = {}
      BY <1>10, <2>1
    <3> QED BY <3>1 DEF Sorted
  <2>2. CASE Response # 0
    <3>1. Sorted(Pick(held, C), ts)
      BY <1>3, <1>4, <1>6, <2>2, PickSorted
    <3>2. Sorted(outbox', ts) /\ now' = ts
      BY <1>1, <3>1
    <3> QED BY <3>2 DEF Sorted
  <2> QED BY <2>1, <2>2
<1>12. OutInv'
  BY <1>9, <1>10, <1>11 DEF OutInv
<1>13. PerOrderInOrder'
  <2> SUFFICES ASSUME ~BadStamps
               PROVE  /\ \A j, k \in DOMAIN batch' :
                            j < k /\ batch'[j].id = batch'[k].id => batch'[j].ts <= batch'[k].ts
                      /\ \A j \in DOMAIN batch', k \in DOMAIN outbox' :
                            batch'[j].id = outbox'[k].ev.id => batch'[j].ts <= outbox'[k].ev.ts
    BY DEF PerOrderInOrder
  <2>1. CASE Response = 0
    <3>1. batch' = fresh /\ DOMAIN outbox' = {}
      BY <1>10, <2>1
    <3>2. \A j, k \in DOMAIN fresh : j < k => fresh[j].id # fresh[k].id
      <4>1. \A j, k \in DOMAIN fresh : j < k => j # k
        BY <1>2
      <4> QED BY <4>1, <1>2
    <3> QED BY <3>1, <3>2
  <2>2. CASE Response # 0
    <3> DEFINE b == Pick(held, D)
               o == Pick(held, C)
    <3>1. batch' = Evs(b) /\ outbox' = o
      <4>1. Evs(b) \in Seq(Event) /\ emit = <<>>
        BY <1>8, <2>2, EvsTypes
      <4> HIDE DEF b, o, emit
      <4>2. emit \o Evs(b) = Evs(b)
        BY <4>1
      <4> QED BY <1>1, <4>2 DEF b, o
    <3>2. Sorted(held, ts) /\ Sorted(b, ts)
      BY <1>3, <1>4, <1>6, <2>2, PickSorted
    <3>3. DOMAIN Evs(b) = DOMAIN b /\ \A k \in DOMAIN b : Evs(b)[k] = b[k].ev
      BY DEF Evs
    <3>4. PICK eb \in [DOMAIN b -> D] : \A n \in DOMAIN b : b[n] = held[eb[n]]
      BY <1>8
    <3>5. PICK eo \in [DOMAIN o -> C] : \A n \in DOMAIN o : o[n] = held[eo[n]]
      BY <1>8
    <3> HIDE DEF b, o
    <3>6. \A j, k \in DOMAIN batch' :
             j < k /\ batch'[j].id = batch'[k].id => batch'[j].ts <= batch'[k].ts
      BY <3>1, <3>2, <3>3 DEF Sorted
    <3>7. ASSUME NEW j \in DOMAIN b, NEW k \in DOMAIN o, b[j].ev.id = o[k].ev.id
          PROVE  b[j].ev.ts <= o[k].ev.ts
      <4>1. eb[j] \in D /\ eo[k] \in C /\ b[j] = held[eb[j]] /\ o[k] = held[eo[k]]
        BY <3>4, <3>5
      <4> QED BY <1>3, <3>2, <3>7, <4>1, DueFirst
    <3> QED BY <3>1, <3>3, <3>6, <3>7
  <2> QED BY <2>1, <2>2
<1>14. ReplyTypes'
  BY AnswerHand DEF HandInv
<1> QED BY <1>12, <1>13, <1>14 DEF OrderInv

LEMMA FlushOrder ==
    ASSUME OrderInv, HandInv, TypeOK, TypeOK', Tells, Stamped(now), VFlush,
           \A e \in raw' : place[e.id] \in Entering
    PROVE  OrderInv'
<1> DEFINE fresh == InOrder(raw')
           held  == Evs(outbox)
           n     == Len(fresh)
<1>1. batch' = fresh \o held /\ outbox' = <<>> /\ DOMAIN outbox' = {}
  BY DEF VFlush
<1>2. /\ outbox \in Seq(HeldRec) /\ raw' \subseteq Event
      /\ fresh \in Seq(Event) /\ fresh \in Seq(raw')
      /\ \A j, k \in DOMAIN fresh : j # k => fresh[j].id # fresh[k].id
  BY InOrderFacts DEF OrderInv, ReplyTypes, TypeOK, Tells
<1>3. /\ held \in Seq(Event) /\ DOMAIN held = DOMAIN outbox
      /\ \A k \in DOMAIN held : held[k] = outbox[k].ev
  BY <1>2, EvsTypes
<1>4. \A k \in DOMAIN held : place[held[k].id] \notin Entering
  BY <1>3 DEF OrderInv, OutInv, Answered
<1>5. \A k \in DOMAIN fresh : place[fresh[k].id] \in Entering
  <2>1. \A k \in DOMAIN fresh : fresh[k] \in raw'
    BY <1>2
  <2> HIDE DEF fresh
  <2> QED BY <2>1
<1>6. OutInv'
  BY <1>1 DEF OutInv, Answered, Sorted
<1> HIDE DEF fresh, held
<1>7. ASSUME NEW j \in DOMAIN batch', NEW k \in DOMAIN batch', j < k, ~BadStamps,
             batch'[j].id = batch'[k].id
      PROVE  batch'[j].ts <= batch'[k].ts
  <2>1. /\ DOMAIN batch' = 1..(n + Len(held)) /\ n \in Nat /\ Len(held) \in Nat
        /\ DOMAIN fresh = 1..n /\ DOMAIN held = 1..Len(held)
        /\ \A i \in 1..(n + Len(held)) : batch'[i] = IF i <= n THEN fresh[i] ELSE held[i - n]
    <3>1. /\ batch' \in Seq(Event) /\ Len(batch') = n + Len(held)
          /\ \A i \in 1..(n + Len(held)) : batch'[i] = IF i <= n THEN fresh[i] ELSE held[i - n]
      BY <1>1, <1>2, <1>3, ConcatProperties
    <3>2. DOMAIN batch' = 1..(n + Len(held))
      BY <3>1
    <3>3. DOMAIN fresh = 1..n /\ n \in Nat
      BY <1>2
    <3>4. DOMAIN held = 1..Len(held) /\ Len(held) \in Nat
      BY <1>3
    <3> QED BY <3>1, <3>2, <3>3, <3>4
  <2> HIDE DEF n
  <2>2. CASE k <= n
    <3>1. j \in DOMAIN fresh /\ k \in DOMAIN fresh /\ j # k /\ j <= n
      BY <1>7, <2>1, <2>2
    <3> QED BY <1>2, <1>7, <2>1, <2>2, <3>1
  <2>3. CASE j <= n /\ ~(k <= n)
    <3>1. j \in DOMAIN fresh /\ k - n \in DOMAIN held
      BY <2>1, <2>3
    <3> QED BY <1>4, <1>5, <1>7, <2>1, <2>3, <3>1
  <2>4. CASE ~(j <= n)
    <3>1. j - n \in DOMAIN held /\ k - n \in DOMAIN held /\ j - n < k - n /\ ~(k <= n)
      BY <1>7, <2>1, <2>4
    <3>2. batch'[j] = held[j - n] /\ batch'[k] = held[k - n]
      BY <2>1, <2>4, <3>1
    <3>3. \A i, h \in DOMAIN held : i < h /\ held[i].id = held[h].id => held[i].ts <= held[h].ts
      BY <1>3, <1>7 DEF OrderInv, OutInv, Sorted
    <3> QED BY <1>7, <3>1, <3>2, <3>3
  <2> QED BY <1>7, <2>1, <2>2, <2>3, <2>4
<1>8. PerOrderInOrder'
  BY <1>1, <1>7 DEF PerOrderInOrder
<1>9. ReplyTypes'
  BY FlushHand DEF HandInv
<1> QED BY <1>6, <1>8, <1>9 DEF OrderInv

LEMMA NextOrder == OrderInv /\ HandInv /\ Base /\ [VNext]_venueVars => OrderInv'
<1> SUFFICES ASSUME OrderInv, HandInv, Base, [VNext]_venueVars PROVE OrderInv'
  OBVIOUS
<1>1. TypeOK /\ TypeOK' /\ FreshIds
  BY StepIsMatching, NextBase DEF Base
<1>2. now \in Nat /\ now' \in Nat
  BY <1>1 DEF TypeOK
<1>3. \A ts \in Stamps : ts \in Nat /\ now <= Later(ts) /\ (~BadStamps => now <= ts /\ Later(ts) = ts)
  <2>1. \A ts \in Stamps : ts \in Nat /\ now <= Later(ts)
    BY <1>1, LaterIsTime
  <2>2. \A ts \in Stamps : ~BadStamps => now <= ts
    BY <1>2, MatchingAssumption DEF Stamps
  <2> QED BY <1>2, <2>1, <2>2 DEF Later
<1>4. ASSUME NEW o \in Requests, VEnqueue(o) PROVE OrderInv'
  <2>1. \A i \in Ids : place[i] \notin Entering => place'[i] \notin Entering
    <3>1. nextID + 1 \in Ids => place[nextID + 1] = "none"
      BY <1>1 DEF FreshIds, TypeOK
    <3>2. place' = [place EXCEPT ![nextID + 1] = IF Entry = 0 THEN "inbox" ELSE "delayed"]
      BY <1>4 DEF VEnqueue, Enqueue
    <3> QED BY <1>1, <3>1, <3>2 DEF TypeOK, Entering
  <2> QED BY <1>2, <1>4, <2>1, QuietOrder DEF VEnqueue, Enqueue
<1>5. ASSUME NEW i \in Ids, VCancel(i) PROVE OrderInv'
  <2>1. \A j \in Ids : place[j] \notin Entering => place'[j] \notin Entering
    BY <1>1, <1>5 DEF VCancel, Cancel, Entering, TypeOK
  <2> QED BY <1>2, <1>5, <2>1, QuietOrder DEF VCancel, Cancel
<1>6. ASSUME NEW ts \in Stamps, VSync(ts) PROVE OrderInv'
  BY <1>2, <1>3, <1>6, QuietOrder DEF VSync, Sync
<1>7. ASSUME NEW ts \in Stamps, VSettle(ts) PROVE OrderInv'
  <2>1. Settle(ts) /\ HoldOrEmit(ts) /\ now' = Later(ts)
    BY <1>7 DEF VSettle, Settle
  <2> QED BY <1>1, <1>3, <2>1, SettleStepAnswers, AnswerOrder
<1>8. ASSUME NEW q \in Quotes, NEW ts \in Stamps, VQuote(q, ts) PROVE OrderInv'
  <2>1. Quote(q, ts) /\ HoldOrEmit(ts) /\ now' = Later(ts)
    BY <1>8 DEF VQuote, Quote
  <2> QED BY <1>1, <1>3, <2>1, QuoteAnswers, AnswerOrder
<1>9. ASSUME NEW t \in Trades, NEW ts \in Stamps, VTrade(t, ts) PROVE OrderInv'
  <2>1. Trade(t, ts) /\ HoldOrEmit(ts) /\ now' = Later(ts)
    BY <1>9, TradeFixed DEF VTrade
  <2> QED BY <1>1, <1>3, <2>1, TradeAnswers, AnswerOrder
<1>10. ASSUME VFlush PROVE OrderInv'
  <2>1. Flush
    BY <1>10 DEF VFlush
  <2> QED BY <1>1, <1>10, <2>1, FlushAnswers, FlushOrder
<1>11. ASSUME UNCHANGED venueVars PROVE OrderInv'
  <2>1. NoReply /\ now' = now /\ place' = place
    BY <1>11 DEF venueVars, vars, NoReply
  <2> QED BY <1>2, <2>1, QuietOrder
<1> QED BY <1>4, <1>5, <1>6, <1>7, <1>8, <1>9, <1>10, <1>11 DEF VNext

\* With stamps in order, no delay reorders the fills of one order.
THEOREM PerOrderHolds == VSpec => []PerOrderInOrder
<1>1. VSpec => []Base
  BY VenueMatches, BaseHolds, PTL
<1>2. VSpec => []HandInv
  BY InitHand, NextHand, <1>1, PTL DEF VSpec
<1>3. OrderInv => PerOrderInOrder
  BY DEF OrderInv
<1> QED BY InitOrder, NextOrder, <1>1, <1>2, <1>3, PTL DEF VSpec

-----------------------------------------------------------------------------
(* The run.  What a call of the venue answers, in whatever session: more   *)
(* is said above of the first one, where no order has been adopted.        *)

\* Contracts an order may still execute.
Unfilled(i) == IF place[i] = "working" THEN remaining[i]
               ELSE IF place[i] \in {"delayed", "inbox"} THEN order[i].qty ELSE 0

Answers ==
    /\ Keyed(raw')
    /\ order' = order /\ nextID' = nextID
    /\ \A e \in raw' : /\ place[e.id] \in Held
                       /\ e.status = "rejected" => e.qty = 0
                       /\ e.status = "filled" => place'[e.id] \in {"working", "filled"}
                       /\ Unfilled(e.id)' + e.qty <= Unfilled(e.id)
    /\ \A i \in Ids : /\ (\A e \in raw' : e.id # i) => Unfilled(i)' <= Unfilled(i)
                      /\ place[i] \notin Held => place'[i] = place[i]
                      /\ place[i] \in Held /\ place'[i] \notin Held => \E e \in raw' : e.id = i

LEMMA UnfilledIsNat ==
    ASSUME TypeOK
    PROVE  \A i \in Ids : /\ Unfilled(i) \in Nat /\ order[i].qty \in Nat /\ remaining[i] \in Nat
                          /\ place[i] \notin Held => Unfilled(i) = 0
  BY DEF TypeOK, Unfilled, OrderRec, Held

LEMMA SettlingAnswers ==
    ASSUME TypeOK, TypeOK', NEW D \in SUBSET Ids, NEW ts, SettleInbox(D, ts),
           \A i \in D : place[i] \in {"inbox", "delayed"}
    PROVE  Answers
<1> DEFINE fills == {i \in D : hasQ /\ Crosses(order[i], quote)}
           lost  == {i \in D : ~hasQ}
           rests == {i \in D : hasQ /\ ~Crosses(order[i], quote)}
<1>1. raw' = {Filled(i, FarPx(order[i], quote), order[i].qty, ts, 1) : i \in fills}
             \cup {Rejected(i) : i \in lost}
  BY DEF SettleInbox, SettleOutcome
<1>2. \A i \in Ids : /\ i \in fills => place'[i] = "filled"
                     /\ i \in lost => place'[i] = "rejected"
                     /\ i \in rests => place'[i] = "working" /\ remaining'[i] = order[i].qty
                     /\ i \notin D => place'[i] = place[i] /\ remaining'[i] = remaining[i]
  <2>1. \A i \in Ids : i \notin D => place'[i] = place[i] /\ remaining'[i] = remaining[i]
    BY NotSettled
  <2>2. \A i \in D : /\ i \in fills => place'[i] = "filled"
                     /\ i \in lost => place'[i] = "rejected"
                     /\ i \in rests => place'[i] = "working" /\ remaining'[i] = order[i].qty
    BY Settled
  <2> HIDE DEF fills, lost, rests
  <2>3. fills \subseteq D /\ lost \subseteq D /\ rests \subseteq D
    BY DEF fills, lost, rests
  <2> QED BY <2>1, <2>2, <2>3
<1>3. order' = order /\ nextID' = nextID
  BY DEF SettleInbox, SettleOutcome
<1>4. fills \cap lost = {} /\ fills \cup lost \subseteq D /\ D = fills \cup lost \cup rests
  OBVIOUS
<1> HIDE DEF fills, lost, rests
<1>5. ASSUME NEW e \in raw'
      PROVE  \/ /\ e.id \in fills /\ e.qty = order[e.id].qty /\ e.status = "filled"
                /\ e = Filled(e.id, FarPx(order[e.id], quote), order[e.id].qty, ts, 1)
             \/ e.id \in lost /\ e.qty = 0 /\ e.status = "rejected" /\ e = Rejected(e.id)
  BY <1>1 DEF Filled, Rejected
<1>6. Keyed(raw')
  BY <1>4, <1>5 DEF Keyed
<1>7. \A i \in Ids : /\ Unfilled(i)' <= Unfilled(i) /\ Unfilled(i) \in Nat
                     /\ i \in fills \/ i \in lost => Unfilled(i)' = 0
                     /\ i \in D => Unfilled(i) = order[i].qty
  <2> TAKE i \in Ids
  <2>1. order[i].qty \in Nat /\ remaining[i] \in Nat /\ Unfilled(i) \in Nat
    BY UnfilledIsNat
  <2>2. i \in D => Unfilled(i) = order[i].qty
    BY DEF Unfilled
  <2>3. i \in fills \/ i \in lost => Unfilled(i)' = 0
    BY <1>2 DEF Unfilled
  <2>4. i \in rests => Unfilled(i)' = order[i].qty
    BY <1>2 DEF Unfilled
  <2>5. i \notin D => Unfilled(i)' = Unfilled(i)
    BY <1>2, <1>3 DEF Unfilled
  <2> QED BY <1>4, <2>1, <2>2, <2>3, <2>4, <2>5
<1>8. ASSUME NEW e \in raw'
      PROVE  /\ place[e.id] \in Held
             /\ e.status = "rejected" => e.qty = 0
             /\ e.status = "filled" => place'[e.id] \in {"working", "filled"}
             /\ Unfilled(e.id)' + e.qty <= Unfilled(e.id)
  <2>1. e.id \in D /\ e.id \in Ids
    BY <1>4, <1>5
  <2>2. place[e.id] \in Held
    BY <2>1 DEF Held
  <2>3. CASE e.id \in fills
    <3>1. e.qty = order[e.id].qty /\ e.status = "filled"
      BY <1>4, <1>5, <2>3
    <3>2. Unfilled(e.id)' = 0 /\ Unfilled(e.id) = order[e.id].qty /\ Unfilled(e.id) \in Nat
      BY <1>7, <2>1, <2>3
    <3> QED BY <1>2, <2>1, <2>2, <2>3, <3>1, <3>2
  <2>4. CASE e.id \in lost
    <3>1. e.qty = 0 /\ e.status = "rejected"
      BY <1>4, <1>5, <2>4
    <3>2. Unfilled(e.id)' = 0 /\ Unfilled(e.id) \in Nat
      BY <1>7, <2>1, <2>4
    <3> QED BY <2>2, <3>1, <3>2
  <2> QED BY <1>5, <2>3, <2>4
<1>9. ASSUME NEW i \in Ids
      PROVE  /\ place[i] \notin Held => place'[i] = place[i]
             /\ place[i] \in Held /\ place'[i] \notin Held => \E e \in raw' : e.id = i
  <2>1. place[i] \notin Held => i \notin D
    BY DEF Held
  <2>2. i \notin D \/ i \in rests => place[i] \notin Held \/ place'[i] \in Held
    BY <1>2 DEF Held
  <2>3. i \in fills \/ i \in lost => \E e \in raw' : e.id = i
    <3>1. i \in fills => Filled(i, FarPx(order[i], quote), order[i].qty, ts, 1) \in raw'
      BY <1>1
    <3>2. i \in lost => Rejected(i) \in raw'
      BY <1>1
    <3>3. Filled(i, FarPx(order[i], quote), order[i].qty, ts, 1).id = i /\ Rejected(i).id = i
      BY DEF Filled, Rejected
    <3> QED BY <3>1, <3>2, <3>3
  <2> QED BY <1>2, <1>4, <2>1, <2>2, <2>3
<1> QED BY <1>3, <1>6, <1>7, <1>8, <1>9 DEF Answers

LEMMA TradingAnswers ==
    ASSUME TypeOK, NEW t \in Trades, NEW ts \in Stamps, Trade(t, ts)
    PROVE  Answers
<1>1. PICK left \in Passes(t) : OnTrade(t, ts, left)
  BY DEF Trade
<1> DEFINE taken == Taken(t, left)
           hit   == {i \in Ids : taken[i] > 0}
           E(i)  == Filled(i, t.px, taken[i], ts, IF i \in Through(t) THEN 1 ELSE 2)
<1>2. \A i \in Ids : taken[i] \in 0..remaining[i] /\ (place[i] # "working" => taken[i] = 0)
                     /\ remaining[i] \in Nat /\ order[i].qty \in Nat
  BY TakenBounds, UnfilledIsNat
<1>3. /\ raw' = {E(i) : i \in hit}
      /\ \A i \in Ids : place'[i] = IF taken[i] > 0 /\ taken[i] = remaining[i] THEN "filled" ELSE place[i]
      /\ \A i \in Ids : remaining'[i] = remaining[i] - taken[i]
      /\ order' = order /\ nextID' = nextID
  BY <1>1 DEF OnTrade
<1>4. \A i \in Ids : i \notin hit => taken[i] = 0
  BY <1>2
<1>5. \A i \in hit : i \in Ids /\ place[i] = "working" /\ taken[i] > 0
  BY <1>2
<1>6. \A i \in hit : E(i).id = i /\ E(i).status = "filled" /\ E(i).qty = taken[i]
  BY DEF Filled
<1> HIDE DEF hit, taken, E
<1>7. ASSUME NEW e \in raw' PROVE e.id \in hit /\ e = E(e.id)
  BY <1>3, <1>6
<1>8. Keyed(raw')
  BY <1>7 DEF Keyed
<1>9. \A i \in Ids : Unfilled(i)' + taken[i] <= Unfilled(i) /\ taken[i] \in Nat /\ Unfilled(i) \in Nat
                     /\ Unfilled(i)' \in Int
  <2> TAKE i \in Ids
  <2>1. taken[i] \in Int /\ 0 <= taken[i] /\ taken[i] <= remaining[i] /\ remaining[i] \in Nat
    BY <1>2
  <2>2. CASE place[i] = "working"
    <3>1. Unfilled(i) = remaining[i]
      BY <2>2 DEF Unfilled
    <3>2. CASE place'[i] = "working"
      <4>1. Unfilled(i)' = remaining[i] - taken[i]
        BY <1>3, <3>2 DEF Unfilled
      <4> QED BY <2>1, <3>1, <4>1
    <3>3. CASE place'[i] = "filled"
      <4>1. Unfilled(i)' = 0
        BY <3>3 DEF Unfilled
      <4> QED BY <2>1, <3>1, <4>1
    <3> QED BY <1>3, <2>2, <3>2, <3>3
  <2>3. CASE place[i] # "working"
    <3>1. taken[i] = 0 /\ place'[i] = place[i]
      BY <1>2, <1>3, <2>3
    <3>2. Unfilled(i)' = Unfilled(i) /\ Unfilled(i) \in Nat
      BY <1>2, <1>3, <2>3, <3>1 DEF Unfilled
    <3> QED BY <3>1, <3>2
  <2> QED BY <2>2, <2>3
<1>10. ASSUME NEW e \in raw'
       PROVE  /\ place[e.id] \in Held
              /\ e.status = "rejected" => e.qty = 0
              /\ e.status = "filled" => place'[e.id] \in {"working", "filled"}
              /\ Unfilled(e.id)' + e.qty <= Unfilled(e.id)
  <2>1. e.id \in hit /\ e.id \in Ids /\ e.status = "filled" /\ e.qty = taken[e.id]
    BY <1>5, <1>6, <1>7
  <2>2. place[e.id] = "working" /\ place'[e.id] \in {"working", "filled"}
    BY <1>3, <1>5, <2>1
  <2> QED BY <1>9, <2>1, <2>2 DEF Held
<1>11. ASSUME NEW i \in Ids
       PROVE  /\ Unfilled(i)' <= Unfilled(i)
              /\ place[i] \notin Held => place'[i] = place[i]
              /\ place[i] \in Held /\ place'[i] \notin Held => \E e \in raw' : e.id = i
  <2>1. Unfilled(i)' <= Unfilled(i)
    BY <1>9
  <2>2. place[i] \notin Held => place'[i] = place[i]
    BY <1>2, <1>3 DEF Held
  <2>3. i \in hit => E(i) \in raw' /\ E(i).id = i
    BY <1>3, <1>6
  <2>4. i \notin hit => place'[i] = place[i]
    BY <1>3, <1>4
  <2> QED BY <2>1, <2>2, <2>3, <2>4
<1> QED BY <1>3, <1>8, <1>10, <1>11 DEF Answers

LEMMA QuotingAnswers ==
    ASSUME TypeOK, NEW q, NEW ts, Quote(q, ts)
    PROVE  Answers
<1>1. /\ raw' = {} /\ order' = order /\ nextID' = nextID
      /\ place' = place /\ remaining' = remaining
  BY DEF Quote
<1>2. \A i \in Ids : Unfilled(i)' = Unfilled(i) /\ Unfilled(i) \in Nat
  BY <1>1, UnfilledIsNat DEF Unfilled
<1> QED BY <1>1, <1>2 DEF Answers, Keyed

-----------------------------------------------------------------------------
(* What becomes of the answers: handed back at once or later, none lost.   *)

InFlight == Elements(batch) \cup {h.ev : h \in Elements(outbox)}

Carried(ts) ==
    /\ \A e \in Elements(batch') :
          \/ e \in raw' /\ Response = 0
          \/ \E h \in Elements(outbox) : e = h.ev /\ h.ready <= ts
    /\ \A h \in Elements(outbox') :
          h \in Elements(outbox) \/ (h.ev \in raw' /\ h.ready = ts + Response)
    /\ \A e \in raw' : e \in InFlight'
    /\ \A h \in Elements(outbox) : h.ev \in InFlight'

LEMMA ElementsInOrder ==
    ASSUME NEW E, E \subseteq Event, Keyed(E)
    PROVE  Elements(InOrder(E)) = E
<1> DEFINE r == InOrder(E)
<1>1. r \in Seq(E) /\ \A e \in E : \E k \in DOMAIN r : r[k] = e
  BY InOrderFacts
<1> HIDE DEF r
<1>2. Elements(r) \subseteq E
  BY <1>1, ElementsType
<1> QED BY <1>1, <1>2 DEF Elements, r

LEMMA ElementsEvs ==
    ASSUME NEW held \in Seq(HeldRec)
    PROVE  Elements(Evs(held)) = {h.ev : h \in Elements(held)}
<1>1. DOMAIN Evs(held) = DOMAIN held /\ \A k \in DOMAIN held : Evs(held)[k] = held[k].ev
  BY EvsTypes
<1> DEFINE v == Evs(held)
<1> HIDE DEF v
<1> QED BY <1>1 DEF Elements, v

LEMMA HoldCarries ==
    ASSUME outbox \in Seq(HeldRec), raw' \subseteq Event, Keyed(raw'), NEW ts \in Nat, HoldOrEmit(ts)
    PROVE  Carried(ts)
<1> DEFINE fresh == InOrder(raw')
           d     == Delayed(ts)
           held  == IF Response = 0 THEN outbox ELSE outbox \o d
           emit  == IF Response = 0 THEN fresh ELSE <<>>
           D     == DueOf(held, ts)
           C     == DOMAIN held \ D
           due   == Pick(held, D)
           rest  == Pick(held, C)
<1>1. batch' = emit \o Evs(due) /\ outbox' = rest
  BY DEF HoldOrEmit, Delayed
<1>2. fresh \in Seq(Event) /\ d \in Seq(HeldRec) /\ Elements(fresh) = raw'
  BY InOrderFacts, DelayedTypes, ElementsInOrder
<1>3. Elements(d) = {[ev |-> e, ready |-> ts + Response] : e \in raw'}
  <2>1. DOMAIN d = DOMAIN fresh
        /\ \A k \in DOMAIN fresh : d[k] = [ev |-> fresh[k], ready |-> ts + Response]
    BY DEF Delayed
  <2> HIDE DEF fresh, d
  <2> QED BY <1>2, <2>1 DEF Elements
<1>4. Response \in Nat
  BY VenueAssumption
<1> HIDE DEF fresh, d
<1>5. held \in Seq(HeldRec)
      /\ Elements(held) = IF Response = 0 THEN Elements(outbox) ELSE Elements(outbox) \cup Elements(d)
  <2> DEFINE x == outbox \o d
  <2>1. x \in Seq(HeldRec) /\ Elements(x) = Elements(outbox) \cup Elements(d)
    BY <1>2, ElementsConcat
  <2> HIDE DEF x
  <2>2. held = IF Response = 0 THEN outbox ELSE x
    BY DEF x
  <2> HIDE DEF held
  <2> QED BY <2>1, <2>2
<1>6. emit \in Seq(Event) /\ Elements(emit) = IF Response = 0 THEN raw' ELSE {}
  <2>1. <<>> \in Seq(Event) /\ Elements(<<>>) = {}
    BY ElementsEmpty
  <2> QED BY <1>2, <2>1
<1> HIDE DEF held
<1>7. D \subseteq DOMAIN held /\ C \subseteq DOMAIN held /\ D \cup C = DOMAIN held
      /\ \A k \in D : held[k].ready <= ts
  BY DEF DueOf
<1> HIDE DEF D, C
<1>8. due \in Seq(HeldRec) /\ Elements(due) = {held[k] : k \in D}
  <2>1. held \in Seq(HeldRec) /\ D \subseteq DOMAIN held
    BY <1>5, <1>7
  <2>2. due \in Seq(HeldRec)
    BY <2>1, PickFacts
  <2>3. Elements(due) = {held[k] : k \in D}
    BY <2>1, ElementsPick
  <2> QED BY <2>2, <2>3
<1>9. rest \in Seq(HeldRec) /\ Elements(rest) = {held[k] : k \in C}
  <2>1. held \in Seq(HeldRec) /\ C \subseteq DOMAIN held
    BY <1>5, <1>7
  <2>2. rest \in Seq(HeldRec)
    BY <2>1, PickFacts
  <2>3. Elements(rest) = {held[k] : k \in C}
    BY <2>1, ElementsPick
  <2> QED BY <2>2, <2>3
<1>10. /\ Elements(held) = Elements(due) \cup Elements(rest)
       /\ \A h \in Elements(due) : h.ready <= ts
  <2> HIDE DEF due, rest
  <2> QED BY <1>7, <1>8, <1>9 DEF Elements
<1> HIDE DEF due, rest
<1>11. Elements(batch') = Elements(emit) \cup {h.ev : h \in Elements(due)}
  <2>1. Evs(due) \in Seq(Event) /\ Elements(Evs(due)) = {h.ev : h \in Elements(due)}
    BY <1>8, EvsTypes, ElementsEvs
  <2> DEFINE v == Evs(due)
  <2>2. v \in Seq(Event) /\ emit \in Seq(Event) /\ batch' = emit \o v
    BY <1>1, <1>6, <2>1
  <2> HIDE DEF emit, v
  <2>3. Elements(emit \o v) = Elements(emit) \cup Elements(v)
    BY <2>2, ElementsConcat
  <2> QED BY <2>1, <2>2, <2>3 DEF v
<1> HIDE DEF emit
<1>12. ASSUME NEW e \in Elements(batch')
       PROVE  \/ e \in raw' /\ Response = 0
              \/ \E h \in Elements(outbox) : e = h.ev /\ h.ready <= ts
  <2>1. CASE e \in Elements(emit)
    BY <1>6, <2>1
  <2>2. CASE \E h \in Elements(due) : e = h.ev
    <3>1. PICK h \in Elements(due) : e = h.ev
      BY <2>2
    <3>2. h.ready <= ts /\ h \in Elements(held)
      BY <1>10
    <3>3. h \in Elements(outbox)
      <4>1. Response # 0 => h \notin Elements(d)
        BY <1>3, <1>4, <3>2
      <4> QED BY <1>5, <3>2, <4>1
    <3> QED BY <3>1, <3>2, <3>3
  <2> QED BY <1>11, <2>1, <2>2
<1>13. ASSUME NEW h \in Elements(outbox')
       PROVE  h \in Elements(outbox) \/ (h.ev \in raw' /\ h.ready = ts + Response)
  BY <1>1, <1>3, <1>5, <1>10
<1>14. ASSUME NEW h \in Elements(held) PROVE h.ev \in InFlight'
  BY <1>1, <1>10, <1>11 DEF InFlight
<1>15. ASSUME NEW e \in raw' PROVE e \in InFlight'
  <2>1. CASE Response = 0
    BY <1>6, <1>11, <2>1 DEF InFlight
  <2>2. CASE Response # 0
    <3> DEFINE h == [ev |-> e, ready |-> ts + Response]
    <3>1. h \in Elements(held) /\ h.ev = e
      BY <1>3, <1>5, <2>2
    <3> HIDE DEF h
    <3> QED BY <1>14, <3>1
  <2> QED BY <2>1, <2>2
<1>16. ASSUME NEW h \in Elements(outbox) PROVE h.ev \in InFlight'
  BY <1>5, <1>14
<1> QED BY <1>12, <1>13, <1>15, <1>16 DEF Carried

LEMMA FlushCarries ==
    ASSUME outbox \in Seq(HeldRec), raw' \subseteq Event, Keyed(raw'), VFlush
    PROVE  /\ Elements(batch') = raw' \cup {h.ev : h \in Elements(outbox)}
           /\ outbox' = <<>> /\ Elements(outbox') = {}
<1> DEFINE fresh == InOrder(raw')
           held  == Evs(outbox)
<1>1. batch' = fresh \o held /\ outbox' = <<>>
  BY DEF VFlush
<1>2. fresh \in Seq(Event) /\ Elements(fresh) = raw'
  BY InOrderFacts, ElementsInOrder
<1>3. held \in Seq(Event) /\ Elements(held) = {h.ev : h \in Elements(outbox)}
  BY EvsTypes, ElementsEvs
<1> HIDE DEF fresh, held
<1> QED BY <1>1, <1>2, <1>3, ElementsConcat, ElementsEmpty

-----------------------------------------------------------------------------
(* The log, and what is read back from it.                                 *)

OrderLog == [kind: {"order"}, ts: 0..MaxTs, id: Ids, order: OrderRec,
             status: {"accepted", "canceled", "rejected"}]
FillLog == [kind: {"fill"}, ts: 0..MaxTs, id: Ids, fill: FillRec]
PositionLog == [kind: {"position"}, ts: 0..MaxTs, id: {0}, pos: PosRec]
LogRec == OrderLog \cup FillLog \cup PositionLog

OfKindIn(k) == {r \in LogRec : r.kind = k}
AcceptsIn == {r \in LogRec : r.kind = "order" /\ r.status = "accepted"}

LEMMA LogRecFacts ==
    ASSUME NEW r \in LogRec
    PROVE  /\ r.ts \in 0..MaxTs /\ r.id \in 0..MaxOrders
           /\ r.kind \in {"order", "fill", "position"}
           /\ r.kind = "order" => r.id \in Ids /\ r.order \in OrderRec
                                  /\ r.status \in {"accepted", "canceled", "rejected"}
           /\ r.kind = "fill" => r.id \in Ids /\ r.fill \in FillRec
           /\ r.kind = "position" => r.id = 0 /\ r.pos \in PosRec
<1>1. \A i \in Ids : i \in 0..MaxOrders
  BY MatchingAssumption DEF Ids
<1>2. 0 \in 0..MaxOrders
  BY MatchingAssumption
<1>3. CASE r \in OrderLog
  BY <1>1, <1>3 DEF OrderLog
<1>4. CASE r \in FillLog
  BY <1>1, <1>4 DEF FillLog
<1>5. CASE r \in PositionLog
  BY <1>2, <1>5 DEF PositionLog
<1> QED BY <1>3, <1>4, <1>5 DEF LogRec

LEMMA LogElements ==
    ASSUME log \in Seq(LogRec)
    PROVE  \A n \in DOMAIN log : log[n] \in LogRec
  OBVIOUS

LEMMA OfKindIsKept ==
    ASSUME log \in Seq(LogRec)
    PROVE  /\ \A k : OfKind(k) = Kept(log, OfKindIn(k))
           /\ Accepts = Kept(log, AcceptsIn)
<1>1. ASSUME NEW k PROVE {n \in DOMAIN log : log[n].kind = k} = {n \in DOMAIN log : log[n] \in OfKindIn(k)}
  BY LogElements DEF OfKindIn
<1>2. {n \in DOMAIN log : log[n].kind = "order" /\ log[n].status = "accepted"}
         = {n \in DOMAIN log : log[n] \in AcceptsIn}
  BY LogElements DEF AcceptsIn
<1> QED BY <1>1, <1>2 DEF OfKind, Accepts, Kept

LEMMA OfKindFacts ==
    ASSUME log \in Seq(LogRec)
    PROVE  /\ OfKind("fill") \in Seq(LogRec) /\ OfKind("position") \in Seq(LogRec)
           /\ \A n \in DOMAIN OfKind("fill") : OfKind("fill")[n].fill \in FillRec
           /\ \A n \in DOMAIN OfKind("position") : OfKind("position")[n].pos \in PosRec
           /\ LoggedFills \in Seq(FillRec)
<1> DEFINE f == Kept(log, OfKindIn("fill"))
           p == Kept(log, OfKindIn("position"))
<1>1. OfKind("fill") = f /\ OfKind("position") = p
  BY OfKindIsKept
<1>2. f \in Seq(LogRec) /\ \A n \in DOMAIN f : f[n] \in OfKindIn("fill")
  BY KeptFacts
<1>3. p \in Seq(LogRec) /\ \A n \in DOMAIN p : p[n] \in OfKindIn("position")
  BY KeptFacts
<1> HIDE DEF f, p
<1>4. \A n \in DOMAIN f : f[n].fill \in FillRec
  BY <1>2, LogRecFacts DEF OfKindIn
<1>5. \A n \in DOMAIN p : p[n].pos \in PosRec
  BY <1>3, LogRecFacts DEF OfKindIn
<1>6. LoggedFills = [n \in DOMAIN f |-> f[n].fill]
  BY <1>1 DEF LoggedFills
<1>7. DOMAIN f = 1..Len(f) /\ Len(f) \in Nat
  BY <1>2
<1>8. LoggedFills \in Seq(FillRec)
  BY <1>4, <1>6, <1>7
<1> QED BY <1>1, <1>2, <1>3, <1>4, <1>5, <1>8

LEMMA LastIDFacts ==
    ASSUME log \in Seq(LogRec)
    PROVE  LastID \in 0..MaxOrders /\ \A n \in DOMAIN log : log[n].id <= LastID
<1> DEFINE s == {0} \cup {log[n].id : n \in DOMAIN log}
<1>1. \A n \in DOMAIN log : log[n].id \in 0..MaxOrders
  BY LogElements, LogRecFacts
<1>2. MaxOrders \in Nat
  BY MatchingAssumption
<1>3. s \subseteq 0..MaxOrders /\ s # {}
  BY <1>1, <1>2
<1>4. LastID = Max(s) /\ \A n \in DOMAIN log : log[n].id \in s
  BY DEF LastID
<1> HIDE DEF s
<1>5. Max(s) \in s /\ \A y \in s : y <= Max(s)
  BY <1>2, <1>3, LargestFacts
<1> QED BY <1>3, <1>4, <1>5

LEMMA LastTsFacts ==
    ASSUME log \in Seq(LogRec)
    PROVE  LastTs \in 0..MaxTs
<1>1. CASE log = <<>>
  BY <1>1, MatchingAssumption DEF LastTs
<1>2. CASE log # <<>>
  <2>1. Last(log) \in LogRec
    BY <1>2 DEF Last
  <2> QED BY <1>2, <2>1, LogRecFacts DEF LastTs
<1> QED BY <1>1, <1>2

LEMMA WorkingFacts ==
    ASSUME log \in Seq(LogRec)
    PROVE  WorkingOrders \subseteq Ids
<1>1. ASSUME NEW i \in WorkingOrders PROVE i \in Ids
  <2>1. PICK n \in DOMAIN log : log[n].id = i /\ log[n].kind = "order"
    BY DEF WorkingOrders, Logged
  <2> QED BY <2>1, LogElements, LogRecFacts
<1> QED BY <1>1

-----------------------------------------------------------------------------
(* One record more.                                                        *)

FillsOf(w) == LET rs == Kept(w, OfKindIn("fill")) IN [k \in DOMAIN rs |-> rs[k].fill]
Amount(r, i) == IF r.kind = "fill" /\ r.id = i THEN r.fill.qty ELSE 0
Amounts(w, i) == [n \in DOMAIN w |-> Amount(w[n], i)]

LEMMA RecordTypes ==
    ASSUME NEW ts \in 0..MaxTs, NEW i \in Ids
    PROVE  /\ \A o \in OrderRec, st \in {"accepted", "canceled", "rejected"} :
                 OrderRecord(ts, i, o, st) \in LogRec
           /\ \A f \in FillRec : FillRecord(ts, i, f) \in LogRec
           /\ \A p \in PosRec : PositionRecord(ts, p) \in LogRec
  BY DEF OrderRecord, FillRecord, PositionRecord, LogRec, OrderLog, FillLog, PositionLog

LEMMA AmountTypes ==
    ASSUME NEW w \in Seq(LogRec), NEW i
    PROVE  /\ \A r \in LogRec : Amount(r, i) \in Nat
           /\ Amounts(w, i) \in Seq(Int) /\ Amounts(w, i) \in Seq(Nat)
           /\ Len(Amounts(w, i)) = Len(w)
           /\ Total(Amounts(w, i)) \in Nat
<1>1. ASSUME NEW r \in LogRec PROVE Amount(r, i) \in Nat
  <2>1. r.kind = "fill" => r.fill.qty \in Nat
    BY LogRecFacts, SignedFacts
  <2> QED BY <2>1 DEF Amount
<1> DEFINE a == Amounts(w, i)
<1>2. a = [n \in 1..Len(w) |-> Amount(w[n], i)] /\ Len(w) \in Nat
  BY DEF Amounts
<1>3. \A n \in 1..Len(w) : Amount(w[n], i) \in Nat
  <2>1. \A n \in 1..Len(w) : w[n] \in LogRec
    OBVIOUS
  <2> QED BY <1>1, <2>1
<1> HIDE DEF a
<1>4. a \in Seq(Nat) /\ a \in Seq(Int) /\ Len(a) = Len(w)
  BY <1>2, <1>3
<1>5. Total(a) \in Nat
  BY <1>4, TotalBounds
<1> QED BY <1>1, <1>4, <1>5 DEF a

LEMMA AmountsAppend ==
    ASSUME NEW w \in Seq(LogRec), NEW r \in LogRec, NEW i
    PROVE  Total(Amounts(Append(w, r), i)) = Total(Amounts(w, i)) + Amount(r, i)
<1> DEFINE a == Amounts(w, i)
           x == Append(w, r)
           b == Amounts(x, i)
           m == Len(w)
<1>1. a \in Seq(Int) /\ Len(a) = m /\ Amount(r, i) \in Int /\ m \in Nat /\ DOMAIN a = 1..m
  <2>1. a \in Seq(Int) /\ Len(a) = m /\ Amount(r, i) \in Int
    BY AmountTypes
  <2> HIDE DEF a
  <2> QED BY <2>1
<1>2. DOMAIN x = 1..(m + 1) /\ \A n \in 1..(m + 1) : x[n] = IF n = m + 1 THEN r ELSE w[n]
  BY AppendDef
<1>3. b = [n \in 1..(m + 1) |-> IF n = m + 1 THEN Amount(r, i) ELSE a[n]]
  <2>1. b = [n \in DOMAIN x |-> Amount(x[n], i)]
    BY DEF Amounts
  <2>2. \A n \in 1..m : a[n] = Amount(w[n], i)
    BY DEF Amounts
  <2>3. \A n \in 1..(m + 1) : Amount(x[n], i) = IF n = m + 1 THEN Amount(r, i) ELSE a[n]
    <3> HIDE DEF a, x, b
    <3> QED BY <1>1, <1>2, <2>2
  <2> HIDE DEF a, b, x, m
  <2> QED BY <1>2, <2>1, <2>3
<1>4. b = Append(a, Amount(r, i))
  <2> HIDE DEF a, b, m, x
  <2>1. Append(a, Amount(r, i)) = [n \in 1..(Len(a) + 1) |-> IF n = Len(a) + 1 THEN Amount(r, i) ELSE a[n]]
    BY <1>1, AppendDef
  <2> QED BY <1>1, <1>3, <2>1
<1> HIDE DEF a, b
<1>5. Total(Append(a, Amount(r, i))) = Total(a) + Amount(r, i)
  BY <1>1, TotalAppend
<1> QED BY <1>4, <1>5 DEF a, b

LEMMA FillsOfAppend ==
    ASSUME NEW w \in Seq(LogRec), NEW r \in LogRec
    PROVE  FillsOf(Append(w, r)) = IF r.kind = "fill" THEN Append(FillsOf(w), r.fill) ELSE FillsOf(w)
<1> DEFINE k == Kept(w, OfKindIn("fill"))
           l == Kept(Append(w, r), OfKindIn("fill"))
           m == Len(k)
<1>1. l = IF r.kind = "fill" THEN Append(k, r) ELSE k
  <2>1. r \in OfKindIn("fill") <=> r.kind = "fill"
    BY DEF OfKindIn
  <2>2. l = IF r \in OfKindIn("fill") THEN Append(k, r) ELSE k
    BY KeptAppend
  <2> HIDE DEF k, l
  <2> QED BY <2>1, <2>2
<1>2. k \in Seq(LogRec) /\ \A n \in DOMAIN k : k[n] \in OfKindIn("fill")
  BY KeptFacts
<1>3. FillsOf(w) = [n \in DOMAIN k |-> k[n].fill] /\ FillsOf(Append(w, r)) = [n \in DOMAIN l |-> l[n].fill]
  BY DEF FillsOf
<1> HIDE DEF k, l
<1>4. m \in Nat /\ DOMAIN k = 1..m
  BY <1>2
<1>5. CASE r.kind = "fill"
  <2>1. \A n \in DOMAIN k : k[n].fill \in FillRec
    BY <1>2, LogRecFacts DEF OfKindIn
  <2>2. FillsOf(w) \in Seq(FillRec) /\ Len(FillsOf(w)) = m
    <3> DEFINE f == FillsOf(w)
    <3>1. f = [n \in 1..m |-> k[n].fill]
      BY <1>3, <1>4
    <3> HIDE DEF f, m
    <3> QED BY <1>4, <2>1, <3>1 DEF f
  <2>3. /\ DOMAIN l = 1..(m + 1)
        /\ \A n \in 1..(m + 1) : l[n] = IF n = m + 1 THEN r ELSE k[n]
    <3>1. l = [n \in 1..(m + 1) |-> IF n = m + 1 THEN r ELSE k[n]]
      BY <1>1, <1>2, <1>5, AppendDef
    <3> HIDE DEF m
    <3> QED BY <3>1
  <2>4. Append(FillsOf(w), r.fill) = [n \in 1..(m + 1) |-> IF n = m + 1 THEN r.fill ELSE FillsOf(w)[n]]
    BY <2>2, AppendDef
  <2> HIDE DEF m
  <2>5. FillsOf(Append(w, r)) = [n \in 1..(m + 1) |-> l[n].fill]
    BY <1>3, <2>3
  <2>6. \A n \in 1..(m + 1) : n # m + 1 => FillsOf(w)[n] = k[n].fill
    <3>1. \A n \in 1..(m + 1) : n # m + 1 => n \in 1..m
      BY <1>4
    <3> QED BY <1>3, <1>4, <3>1
  <2>7. \A n \in 1..(m + 1) : l[n].fill = IF n = m + 1 THEN r.fill ELSE FillsOf(w)[n]
    BY <2>3, <2>6
  <2> QED BY <1>5, <2>4, <2>5, <2>7
<1>6. CASE r.kind # "fill"
  BY <1>1, <1>3, <1>6
<1> QED BY <1>5, <1>6

\* The readers of the log are these.
LEMMA Readers ==
    ASSUME log \in Seq(LogRec)
    PROVE  /\ LoggedFills = FillsOf(log) /\ OfKind("position") = Kept(log, OfKindIn("position"))
           /\ Accepts = Kept(log, AcceptsIn)
           /\ \A i : LoggedQty(i) = Total(Amounts(log, i)) /\ LoggedQty(i) \in Nat
<1>1. LoggedFills = FillsOf(log) /\ OfKind("position") = Kept(log, OfKindIn("position"))
      /\ Accepts = Kept(log, AcceptsIn)
  BY OfKindIsKept DEF LoggedFills, FillsOf
<1>2. ASSUME NEW i PROVE LoggedQty(i) = Total(Amounts(log, i)) /\ LoggedQty(i) \in Nat
  <2>1. LoggedQty(i) = Total(Amounts(log, i))
    BY DEF LoggedQty, Amounts, Amount
  <2> QED BY <2>1, AmountTypes
<1> QED BY <1>1, <1>2

LEMMA ReadersNext ==
    ASSUME log' \in Seq(LogRec)
    PROVE  /\ LoggedFills' = FillsOf(log') /\ OfKind("position")' = Kept(log', OfKindIn("position"))
           /\ Accepts' = Kept(log', AcceptsIn)
           /\ \A i : LoggedQty(i)' = Total(Amounts(log', i))
<1>1. \A n \in DOMAIN log' : log'[n] \in LogRec
  OBVIOUS
<1>2. ASSUME NEW k PROVE {n \in DOMAIN log' : log'[n].kind = k} = {n \in DOMAIN log' : log'[n] \in OfKindIn(k)}
  BY <1>1 DEF OfKindIn
<1>3. {n \in DOMAIN log' : log'[n].kind = "order" /\ log'[n].status = "accepted"}
         = {n \in DOMAIN log' : log'[n] \in AcceptsIn}
  BY <1>1 DEF AcceptsIn
<1>4. LoggedFills' = FillsOf(log')
  BY <1>2 DEF LoggedFills, FillsOf, OfKind, Kept
<1>5. OfKind("position")' = Kept(log', OfKindIn("position")) /\ Accepts' = Kept(log', AcceptsIn)
  BY <1>2, <1>3 DEF OfKind, Accepts, Kept
<1>6. ASSUME NEW i PROVE LoggedQty(i)' = Total(Amounts(log', i))
  BY DEF LoggedQty, Amounts, Amount
<1> QED BY <1>4, <1>5, <1>6

LEMMA Logged1 ==
    ASSUME log \in Seq(LogRec), NEW r \in LogRec, log' = Append(log, r)
    PROVE  /\ log' \in Seq(LogRec)
           /\ DOMAIN log' = 1..(Len(log) + 1)
           /\ \A n \in 1..(Len(log) + 1) : log'[n] = IF n = Len(log) + 1 THEN r ELSE log[n]
           /\ Elements(log') = Elements(log) \cup {r}
<1>1. log' \in Seq(LogRec) /\ Elements(log') = Elements(log) \cup {r}
  BY ElementsAppend
<1>2. log' = [n \in 1..(Len(log) + 1) |-> IF n = Len(log) + 1 THEN r ELSE log[n]]
  BY AppendDef
<1> DEFINE m == Len(log)
<1> HIDE DEF m
<1>3. log' = [n \in 1..(m + 1) |-> IF n = m + 1 THEN r ELSE log[n]]
  BY <1>2 DEF m
<1>4. DOMAIN log' = 1..(m + 1) /\ \A n \in 1..(m + 1) : log'[n] = IF n = m + 1 THEN r ELSE log[n]
  BY <1>3
<1> QED BY <1>1, <1>4 DEF m

LEMMA OrderLogged ==
    ASSUME log \in Seq(LogRec), NEW ts \in 0..MaxTs, NEW i \in Ids, NEW o \in OrderRec,
           NEW st \in {"accepted", "canceled", "rejected"}, AppendOrder(ts, i, o, st)
    PROVE  /\ log' = Append(log, OrderRecord(ts, i, o, st)) /\ OrderRecord(ts, i, o, st) \in LogRec
           /\ log' \in Seq(LogRec)
           /\ LoggedFills' = LoggedFills /\ OfKind("position")' = OfKind("position")
           /\ Accepts' = IF st = "accepted" THEN Append(Accepts, OrderRecord(ts, i, o, st)) ELSE Accepts
           /\ \A j : LoggedQty(j)' = LoggedQty(j)
<1> DEFINE r == OrderRecord(ts, i, o, st)
<1>1. r \in LogRec /\ log' = Append(log, r) /\ log' \in Seq(LogRec)
  BY RecordTypes DEF AppendOrder
<1>2. r.kind = "order" /\ r.status = st
  BY DEF OrderRecord
<1> HIDE DEF r
<1>3. LoggedFills' = LoggedFills
  BY <1>1, <1>2, FillsOfAppend, Readers, ReadersNext
<1>4. r \notin OfKindIn("position") /\ (r \in AcceptsIn <=> st = "accepted")
  BY <1>1, <1>2 DEF OfKindIn, AcceptsIn
<1>5. OfKind("position")' = OfKind("position")
  BY <1>1, <1>4, KeptAppend, Readers, ReadersNext
<1>6. Accepts' = IF st = "accepted" THEN Append(Accepts, r) ELSE Accepts
  <2>1. Kept(log', AcceptsIn) = IF r \in AcceptsIn THEN Append(Kept(log, AcceptsIn), r)
                                                   ELSE Kept(log, AcceptsIn)
    BY <1>1, KeptAppend
  <2> QED BY <1>1, <1>4, <2>1, Readers, ReadersNext
<1>7. ASSUME NEW j PROVE LoggedQty(j)' = LoggedQty(j)
  <2>1. Amount(r, j) = 0
    BY <1>2 DEF Amount
  <2>2. Total(Amounts(log', j)) = Total(Amounts(log, j)) + Amount(r, j)
    BY <1>1, AmountsAppend
  <2>3. LoggedQty(j)' = Total(Amounts(log', j)) /\ LoggedQty(j) = Total(Amounts(log, j)) /\ LoggedQty(j) \in Nat
    BY <1>1, Readers, ReadersNext
  <2> QED BY <2>1, <2>2, <2>3
<1> QED BY <1>1, <1>3, <1>5, <1>6, <1>7 DEF r

LEMMA FillLogged ==
    ASSUME log \in Seq(LogRec), NEW ts \in 0..MaxTs, NEW i \in Ids, NEW f \in FillRec,
           NEW p \in PosRec, AppendFill(ts, i, f, p)
    PROVE  /\ log' = Append(Append(log, FillRecord(ts, i, f)), PositionRecord(ts, p))
           /\ FillRecord(ts, i, f) \in LogRec /\ PositionRecord(ts, p) \in LogRec
           /\ log' \in Seq(LogRec)
           /\ LoggedFills' = Append(LoggedFills, f)
           /\ OfKind("position")' = Append(OfKind("position"), PositionRecord(ts, p))
           /\ Accepts' = Accepts
           /\ \A j : LoggedQty(j)' = LoggedQty(j) + (IF j = i THEN f.qty ELSE 0)
<1> DEFINE r == FillRecord(ts, i, f)
           s == PositionRecord(ts, p)
           w == Append(log, r)
<1>1. r \in LogRec /\ s \in LogRec /\ w \in Seq(LogRec)
  BY RecordTypes
<1>2. r.kind = "fill" /\ r.id = i /\ r.fill = f /\ s.kind = "position" /\ s.pos = p
  BY DEF FillRecord, PositionRecord
<1>3. log' = Append(w, s)
  <2>1. log' = log \o <<r, s>>
    BY DEF AppendFill
  <2> HIDE DEF r, s
  <2>2. log \o <<r, s>> = Append(Append(log, r), s)
    BY <1>1
  <2> QED BY <2>1, <2>2
<1>4. log' \in Seq(LogRec)
  BY <1>1, <1>3
<1>5. log' = Append(Append(log, r), s)
  BY <1>3
<1> HIDE DEF r, s
<1>6. /\ r \notin OfKindIn("position") /\ s \in OfKindIn("position")
      /\ r \notin AcceptsIn /\ s \notin AcceptsIn
  BY <1>1, <1>2 DEF OfKindIn, AcceptsIn
<1>7. FillsOf(w) = Append(FillsOf(log), f)
  BY <1>1, <1>2, FillsOfAppend
<1>8. /\ Kept(w, OfKindIn("position")) = Kept(log, OfKindIn("position"))
      /\ Kept(w, AcceptsIn) = Kept(log, AcceptsIn)
  BY <1>1, <1>6, KeptAppend
<1>9. ASSUME NEW j PROVE Total(Amounts(w, j)) = Total(Amounts(log, j)) + Amount(r, j)
  BY <1>1, AmountsAppend
<1> HIDE DEF w
<1>10. LoggedFills' = Append(LoggedFills, f)
  <2>1. FillsOf(log') = FillsOf(w)
    BY <1>1, <1>2, <1>3, FillsOfAppend
  <2> QED BY <1>4, <1>7, <2>1, Readers, ReadersNext
<1>11. OfKind("position")' = Append(OfKind("position"), s)
  <2>1. Kept(log', OfKindIn("position")) = Append(Kept(w, OfKindIn("position")), s)
    BY <1>1, <1>3, <1>6, KeptAppend
  <2> QED BY <1>4, <1>8, <2>1, Readers, ReadersNext
<1>12. Accepts' = Accepts
  <2>1. Kept(log', AcceptsIn) = Kept(w, AcceptsIn)
    BY <1>1, <1>3, <1>6, KeptAppend
  <2> QED BY <1>4, <1>8, <2>1, Readers, ReadersNext
<1>13. ASSUME NEW j PROVE LoggedQty(j)' = LoggedQty(j) + (IF j = i THEN f.qty ELSE 0)
  <2>1. Total(Amounts(log', j)) = Total(Amounts(w, j)) + Amount(s, j)
    BY <1>1, <1>3, AmountsAppend
  <2>2. Amount(s, j) = 0 /\ Amount(r, j) = IF j = i THEN f.qty ELSE 0
    BY <1>2 DEF Amount
  <2>3. /\ LoggedQty(j)' = Total(Amounts(log', j)) /\ LoggedQty(j) = Total(Amounts(log, j))
        /\ LoggedQty(j) \in Nat
    BY <1>4, Readers, ReadersNext
  <2>4. f.qty \in Nat
    BY SignedFacts
  <2> QED BY <1>9, <2>1, <2>2, <2>3, <2>4
<1> QED BY <1>1, <1>4, <1>5, <1>10, <1>11, <1>12, <1>13 DEF r, s

-----------------------------------------------------------------------------
(* Where a run can be: the part of the inductive invariant that all of the *)
(* invariants below use.                                                   *)

Where == Callbacks \cup {"boot", "restored", "drain", "next", "match", "settle",
                         "flush", "apply", "done", "failed"}
MarketEv == [kind: {"quote"}, q: Quotes, ts: 0..MaxTs, bad: BOOLEAN]
            \cup [kind: {"trade"}, t: Trades, ts: 0..MaxTs, bad: BOOLEAN]

RunTypes ==
    /\ pc \in Where /\ ret \in {"start", "stop", "match", "cascade", "flush"}
    /\ ns \in 0..MaxTs /\ session \in Nat \ {0} /\ reconciled \in BOOLEAN
    /\ ev \in MarketEv \cup {NoEvent}
    /\ log \in Seq(LogRec) /\ books \in BooksRec
    /\ exchange \in [working: SUBSET Ids, lastID: 0..MaxOrders]
    /\ submitAt \in [Ids -> Nat] /\ late \subseteq Ids

\* What is being applied, and which process this is, by where Run is.
Control ==
    /\ batch # <<>> => pc \in {"apply", "order", "failed"}
    /\ pc \in {"boot", "restored"} /\ ~reconciled => Live = {}
    /\ pc \in {"boot", "restored"} => batch = <<>> /\ outbox = <<>>
    /\ pc = "boot" => ~reconciled
    /\ pc = "restored" => session > 1
    /\ pc \notin {"boot", "restored"} /\ session > 1 => reconciled
    /\ session = 1 /\ pc = "boot" => log = <<>>
    /\ ret = "flush" => pc \in {"apply", "order", "done", "failed"}
    /\ pc = "done" => ret = "flush" /\ batch = <<>>
    /\ flushed <=> ret = "flush"
    /\ pc = "match" => ev \in MarketEv

\* The venue's clock and the strategy's.
InStep ==
    ~BadStamps => /\ now <= ns
                  /\ pc = "match" => ev.ts = now
                  /\ session = 1 => now = ns

Core == TypeOK /\ ReplyTypes /\ RunTypes /\ Control /\ InStep

Beside == UNCHANGED <<log, ns, books, reconciled, session, exchange, submitAt, late>>
Called(ts) == \/ VSettle(ts)
              \/ \E q \in Quotes : VQuote(q, ts)
              \/ \E t \in Trades : VTrade(t, ts)
CallStep == \E ts \in Stamps : /\ Called(ts) /\ Beside
                               /\ batch = <<>> /\ ~flushed
                               /\ ~BadStamps => ts <= ns /\ (session = 1 => ts = ns)

LEMMA NowIsStamp ==
    ASSUME Core
    PROVE  /\ ns \in Stamps /\ ns \in Nat /\ now \in Nat
           /\ pc = "match" => /\ ev.ts \in Stamps
                              /\ ~BadStamps => ev.ts <= ns /\ (session = 1 => ev.ts = ns)
<1>1. ns \in 0..MaxTs /\ now \in 0..MaxTs /\ MaxTs \in Nat /\ BadStamps \in BOOLEAN
  BY MatchingAssumption DEF Core, RunTypes, TypeOK
<1>2. pc = "match" => ev.ts \in 0..MaxTs
  BY DEF Core, Control, MarketEv
<1> QED BY <1>1, <1>2 DEF Core, InStep, Stamps

\* Every step is one of these, for the venue, the log and the books.
LEMMA Kinds ==
    ASSUME Core, [RNext]_rvars
    PROVE  \/ UNCHANGED venueVars /\ Beside
           \/ \E o \in Requests : Submit(o)
           \/ \E i \in Ids : CancelOrder(i)
           \/ \E e \in FeedEvents : Observe(e)
           \/ CallStep
           \/ FlushTail /\ batch = <<>>
           \/ ApplyEvent
           \/ Restart
           \/ Restore
           \/ Reconcile
<1> DEFINE Same == UNCHANGED venueVars /\ Beside
<1>1. CASE Start \/ Return \/ Eof \/ Applied \/ Fail
  <2>1. Same
    BY <1>1 DEF Start, Return, Eof, Applied, Fail, Beside
  <2> QED BY <2>1
<1>2. CASE Operator \/ \E o \in Requests : SubmitRefused(o)
  <2>1. Same
    BY <1>2 DEF Operator, SubmitRefused, Beside, control
  <2> QED BY <2>1
<1>3. CASE UNCHANGED rvars
  <2>1. Same
    BY <1>3 DEF rvars, control, Beside
  <2> QED BY <2>1
<1>4. CASE Drain
  <2>1. CASE iter < MaxCascade /\ VSettle(ns)
    <3>1. batch = <<>> /\ ~flushed
      BY <1>4 DEF Drain, Core, Control
    <3>2. Beside
      BY <1>4 DEF Drain, Beside
    <3>3. Called(ns) /\ ns \in Stamps /\ ns <= ns
      BY <2>1, NowIsStamp DEF Called
    <3>4. CallStep
      BY <3>1, <3>2, <3>3 DEF CallStep
    <3> QED BY <3>4
  <2>2. CASE UNCHANGED <<venueVars, iter>>
    <3>1. Same
      BY <1>4, <2>2 DEF Drain, Beside
    <3> QED BY <3>1
  <2> QED BY <1>4, <2>1, <2>2 DEF Drain
<1>5. CASE MatchResting
  <2>1. batch = <<>> /\ ~flushed /\ pc = "match" /\ ev \in MarketEv
    BY <1>5 DEF MatchResting, Core, Control
  <2>2. Beside
    BY <1>5 DEF MatchResting, Beside
  <2>3. ev.ts \in Stamps /\ (~BadStamps => ev.ts <= ns /\ (session = 1 => ev.ts = ns))
    BY <2>1, NowIsStamp
  <2>4. Called(ev.ts)
    <3>1. CASE ev \in [kind: {"quote"}, q: Quotes, ts: 0..MaxTs, bad: BOOLEAN]
      <4>1. ev.kind = "quote" /\ ev.q \in Quotes
        BY <3>1
      <4> QED BY <1>5, <4>1 DEF MatchResting, Called
    <3>2. CASE ev \in [kind: {"trade"}, t: Trades, ts: 0..MaxTs, bad: BOOLEAN]
      <4>1. ev.kind = "trade" /\ ev.t \in Trades
        BY <3>2
      <4> QED BY <1>5, <4>1 DEF MatchResting, Called
    <3> QED BY <2>1, <3>1, <3>2 DEF MarketEv
  <2>5. CallStep
    BY <2>1, <2>2, <2>3, <2>4 DEF CallStep
  <2> QED BY <2>5
<1>6. CASE SettleCascade
  <2>1. batch = <<>> /\ ~flushed
    BY <1>6 DEF SettleCascade, Core, Control
  <2>2. Beside
    BY <1>6 DEF SettleCascade, Beside
  <2>3. Called(ns) /\ ns \in Stamps /\ ns <= ns
    BY <1>6, NowIsStamp DEF SettleCascade, Called
  <2>4. CallStep
    BY <2>1, <2>2, <2>3 DEF CallStep
  <2> QED BY <2>4
<1>7. CASE FlushTail
  <2>1. batch = <<>>
    BY <1>7 DEF FlushTail, Core, Control
  <2> QED BY <1>7, <2>1
<1> HIDE DEF Same
<1> QED BY <1>1, <1>2, <1>3, <1>4, <1>5, <1>6, <1>7 DEF RNext, Step

-----------------------------------------------------------------------------
(* The core is inductive. *)

LEMMA Requested ==
    ASSUME Core, NEW o \in Requests, Submit(o)
    PROVE  /\ nextID' = nextID + 1 /\ nextID' \in Ids /\ nextID \in Nat /\ o \in OrderRec /\ Valid(o)
           /\ order' = [order EXCEPT ![nextID'] = o]
           /\ place'[nextID'] \in {"inbox", "delayed"}
           /\ \A i \in Ids : i # nextID' => place'[i] = place[i]
           /\ log' = Append(log, OrderRecord(ns, nextID', o, "accepted"))
           /\ OrderRecord(ns, nextID', o, "accepted") \in LogRec
           /\ log' \in Seq(LogRec)
           /\ LoggedFills' = LoggedFills /\ OfKind("position")' = OfKind("position")
           /\ Accepts' = Append(Accepts, OrderRecord(ns, nextID', o, "accepted"))
           /\ \A j : LoggedQty(j)' = LoggedQty(j)
<1>1. nextID \in 0..MaxOrders /\ MaxOrders \in Nat /\ place \in [Ids -> Places] /\ order \in [Ids -> OrderRec]
      /\ ns \in 0..MaxTs /\ log \in Seq(LogRec)
  BY MatchingAssumption DEF Core, TypeOK, RunTypes
<1>2. /\ Valid(o) /\ nextID < MaxOrders /\ nextID' = nextID + 1
      /\ order' = [order EXCEPT ![nextID + 1] = o]
      /\ place' = [place EXCEPT ![nextID + 1] = IF Entry = 0 THEN "inbox" ELSE "delayed"]
      /\ AppendOrder(ns, nextID', o, "accepted")
  BY DEF Submit, VEnqueue, Enqueue
<1>3. nextID + 1 \in Ids /\ nextID \in Nat
  BY <1>1, <1>2 DEF Ids
<1>4. o \in OrderRec
  BY <1>2, MatchingAssumption DEF RequestRec, OrderRec, Valid
<1>5. PICK i \in Ids : i = nextID'
  BY <1>2, <1>3
<1>6. AppendOrder(ns, i, o, "accepted")
  BY <1>2, <1>5
<1>7. /\ log' = Append(log, OrderRecord(ns, i, o, "accepted")) /\ OrderRecord(ns, i, o, "accepted") \in LogRec
      /\ log' \in Seq(LogRec)
      /\ LoggedFills' = LoggedFills /\ OfKind("position")' = OfKind("position")
      /\ Accepts' = Append(Accepts, OrderRecord(ns, i, o, "accepted"))
      /\ \A j : LoggedQty(j)' = LoggedQty(j)
  BY <1>1, <1>4, <1>6, OrderLogged
<1> QED BY <1>1, <1>2, <1>3, <1>4, <1>5, <1>7

LEMMA Canceled ==
    ASSUME Core, NEW i \in Ids, CancelOrder(i)
    PROVE  /\ log' = Append(log, OrderRecord(ns, i, NoOrder, "canceled"))
           /\ OrderRecord(ns, i, NoOrder, "canceled") \in LogRec
           /\ log' \in Seq(LogRec)
           /\ LoggedFills' = LoggedFills /\ OfKind("position")' = OfKind("position")
           /\ Accepts' = Accepts
           /\ \A j : LoggedQty(j)' = LoggedQty(j)
<1>1. NoOrder \in OrderRec
  BY DEF NoOrder, OrderRec, Sides
<1>2. AppendOrder(ns, i, NoOrder, "canceled") /\ log \in Seq(LogRec) /\ ns \in 0..MaxTs
  BY DEF CancelOrder, Core, RunTypes
<1> QED BY <1>1, <1>2, OrderLogged

LEMMA AppliedReject ==
    ASSUME Core, ApplyEvent, Head(batch).status # "filled"
    PROVE  LET e == Head(batch) IN
           /\ e \in Event /\ e.status = "rejected" /\ books' = books
           /\ log' = Append(log, OrderRecord(ns, e.id, order[e.id], "rejected"))
           /\ OrderRecord(ns, e.id, order[e.id], "rejected") \in LogRec
           /\ log' \in Seq(LogRec)
           /\ LoggedFills' = LoggedFills /\ OfKind("position")' = OfKind("position")
           /\ Accepts' = Accepts
           /\ \A j : LoggedQty(j)' = LoggedQty(j)
<1> DEFINE e == Head(batch)
<1>1. batch \in Seq(Event) /\ batch # <<>>
  BY DEF ApplyEvent, Core, ReplyTypes
<1>2. e \in Event
  BY <1>1, ElementsTail
<1>3. books' = books /\ AppendOrder(ns, e.id, order[e.id], "rejected")
  BY DEF ApplyEvent
<1> HIDE DEF e
<1>4. e.id \in Ids /\ e.status \in {"filled", "rejected"}
  BY <1>2, EventFacts
<1>5. order[e.id] \in OrderRec /\ log \in Seq(LogRec) /\ ns \in 0..MaxTs
  BY <1>4 DEF Core, RunTypes, TypeOK
<1>6. PICK i \in Ids, o \in OrderRec : i = e.id /\ o = order[e.id]
  BY <1>4, <1>5
<1>7. AppendOrder(ns, i, o, "rejected")
  BY <1>3, <1>6
<1>8. /\ log' = Append(log, OrderRecord(ns, i, o, "rejected"))
      /\ OrderRecord(ns, i, o, "rejected") \in LogRec
      /\ log' \in Seq(LogRec)
      /\ LoggedFills' = LoggedFills /\ OfKind("position")' = OfKind("position")
      /\ Accepts' = Accepts
      /\ \A j : LoggedQty(j)' = LoggedQty(j)
  BY <1>5, <1>7, OrderLogged
<1> QED BY <1>2, <1>3, <1>4, <1>6, <1>8 DEF e

LEMMA AppliedFill ==
    ASSUME Core, ApplyEvent, Head(batch).status = "filled"
    PROVE  LET e == Head(batch)
               f == FillOf(Head(batch))
           IN  \E ts \in 0..MaxTs :
           /\ e \in Event /\ f \in FillRec /\ f.qty = e.qty
           /\ books' = Book(books, f) /\ books' \in BooksRec
           /\ log' = Append(Append(log, FillRecord(ts, e.id, f)), PositionRecord(ts, books'.pos))
           /\ FillRecord(ts, e.id, f) \in LogRec /\ PositionRecord(ts, books'.pos) \in LogRec
           /\ log' \in Seq(LogRec)
           /\ LoggedFills' = Append(LoggedFills, f)
           /\ OfKind("position")' = Append(OfKind("position"), PositionRecord(ts, books'.pos))
           /\ Accepts' = Accepts
           /\ \A j : LoggedQty(j)' = LoggedQty(j) + (IF j = e.id THEN e.qty ELSE 0)
<1> DEFINE e == Head(batch)
           f == FillOf(Head(batch))
           t == IF e.ts = 0 THEN ns ELSE e.ts
<1>1. batch \in Seq(Event) /\ batch # <<>>
  BY DEF ApplyEvent, Core, ReplyTypes
<1>2. e \in Event
  BY <1>1, ElementsTail
<1>3. books' = Book(books, f) /\ AppendFill(t, e.id, f, books'.pos)
  BY DEF ApplyEvent
<1>4. f = [side |-> order[e.id].side, px |-> e.px, qty |-> e.qty, fee |-> Fee * e.qty]
  BY DEF FillOf
<1> HIDE DEF e, f
<1>5. e.id \in Ids /\ e.qty \in Nat /\ e.px \in Int /\ e.ts \in 0..MaxTs
  BY <1>2, EventFacts
<1>6. order[e.id] \in OrderRec /\ log \in Seq(LogRec) /\ ns \in 0..MaxTs /\ books \in BooksRec
  BY <1>5 DEF Core, RunTypes, TypeOK
<1>7. order[e.id].side \in {"bid", "ask"} /\ Fee * e.qty \in Nat
  <2>1. Fee \in Nat
    BY RuntimeAssumption
  <2>2. order[e.id].side \in {"bid", "ask"}
    BY <1>6 DEF OrderRec, Sides
  <2> QED BY <1>5, <2>1, <2>2
<1>8. f \in FillRec /\ f.qty = e.qty
  BY <1>4, <1>5, <1>7 DEF FillRec
<1>9. t \in 0..MaxTs
  BY <1>5, <1>6
<1>10. books' \in BooksRec
  BY <1>3, <1>6, <1>8, BookFacts
<1>11. books'.pos \in PosRec
  BY <1>10 DEF BooksRec
<1> HIDE DEF t
<1>12. PICK i \in Ids, p \in PosRec : i = e.id /\ p = books'.pos
  BY <1>5, <1>11
<1>13. AppendFill(t, i, f, p)
  BY <1>3, <1>12
<1>14. /\ log' = Append(Append(log, FillRecord(t, i, f)), PositionRecord(t, p))
       /\ FillRecord(t, i, f) \in LogRec /\ PositionRecord(t, p) \in LogRec
       /\ log' \in Seq(LogRec)
       /\ LoggedFills' = Append(LoggedFills, f)
       /\ OfKind("position")' = Append(OfKind("position"), PositionRecord(t, p))
       /\ Accepts' = Accepts
       /\ \A j : LoggedQty(j)' = LoggedQty(j) + (IF j = i THEN f.qty ELSE 0)
  BY <1>6, <1>8, <1>9, <1>13, FillLogged
<1> QED BY <1>2, <1>3, <1>8, <1>9, <1>10, <1>12, <1>14 DEF e, f

\* What Called(ts) does, whichever call it is.
LEMMA CalledFacts ==
    ASSUME Core, NEW ts \in Stamps, Called(ts)
    PROVE  /\ TypeOK' /\ ReplyTypes' /\ Answers /\ Carried(ts) /\ HoldOrEmit(ts)
           /\ raw' \subseteq Event /\ ts \in Nat /\ flushed' = flushed
           /\ now' = Later(ts)
           /\ \A i \in Ids : FilledQty(batch', i) + FilledQty(Evs(outbox'), i)
                                = FilledQty(Evs(outbox), i) + FilledQty(InOrder(raw'), i)
<1>0. TypeOK /\ ReplyTypes
  BY DEF Core
<1>1. TypeOK' /\ Answers /\ HoldOrEmit(ts) /\ flushed' = flushed /\ now' = Later(ts)
  <2>1. CASE VSettle(ts)
    <3>1. Settle(ts) /\ HoldOrEmit(ts)
      BY <2>1 DEF VSettle
    <3>2. TypeOK'
      BY <1>0, <3>1, SettleType
    <3>3. SettleInbox(In("inbox") \cup Due(ts), ts) /\ flushed' = flushed /\ now' = Later(ts)
      BY <3>1 DEF Settle
    <3>4. (In("inbox") \cup Due(ts)) \in SUBSET Ids
          /\ \A i \in In("inbox") \cup Due(ts) : place[i] \in {"inbox", "delayed"}
      BY DEF In, Due
    <3>5. Answers
      BY <1>0, <3>2, <3>3, <3>4, SettlingAnswers
    <3> QED BY <3>1, <3>2, <3>3, <3>5
  <2>2. CASE \E q \in Quotes : VQuote(q, ts)
    <3>1. PICK q \in Quotes : Quote(q, ts) /\ HoldOrEmit(ts)
      BY <2>2 DEF VQuote
    <3>2. flushed' = flushed /\ now' = Later(ts)
      BY <3>1 DEF Quote
    <3> QED BY <1>0, <3>1, <3>2, QuoteType, QuotingAnswers
  <2>3. CASE \E t \in Trades : VTrade(t, ts)
    <3>1. PICK t \in Trades : Trade(t, ts) /\ HoldOrEmit(ts)
      BY <2>3 DEF VTrade
    <3>2. flushed' = flushed /\ now' = Later(ts)
      BY <3>1, TradeFixed
    <3> QED BY <1>0, <3>1, <3>2, TradeType, TradingAnswers
  <2> QED BY <2>1, <2>2, <2>3 DEF Called
<1>2. raw' \subseteq Event /\ Keyed(raw') /\ outbox \in Seq(HeldRec) /\ ts \in Nat
  <2>1. ts \in Nat
    BY <1>0, LaterIsTime
  <2>2. raw' \subseteq Event
    BY <1>1 DEF TypeOK
  <2> QED BY <1>0, <1>1, <2>1, <2>2 DEF ReplyTypes, Answers
<1>3. /\ batch' \in Seq(Event) /\ outbox' \in Seq(HeldRec)
      /\ \A i \in Ids : FilledQty(batch', i) + FilledQty(Evs(outbox'), i)
                           = FilledQty(Evs(outbox), i) + FilledQty(InOrder(raw'), i)
  BY <1>1, <1>2, HoldOrEmitFacts
<1>4. Carried(ts)
  BY <1>1, <1>2, HoldCarries
<1>5. got' \in [Ids -> Nat]
  <2>1. got' = [i \in Ids |-> got[i] + FilledQty(batch', i)]
    BY <1>1 DEF HoldOrEmit, Count
  <2>2. \A i \in Ids : FilledQty(batch', i) \in Nat /\ got[i] \in Nat
    BY <1>0, <1>3, QtyTypes DEF ReplyTypes
  <2>3. \A i \in Ids : got[i] + FilledQty(batch', i) \in Nat
    BY <2>2
  <2> QED BY <2>1, <2>3
<1> QED BY <1>1, <1>2, <1>3, <1>4, <1>5 DEF ReplyTypes

LEMMA FlushedFacts ==
    ASSUME Core, FlushTail
    PROVE  /\ TypeOK' /\ ReplyTypes' /\ Answers
           /\ raw' \subseteq Event /\ flushed' /\ now' = now
           /\ Elements(batch') = raw' \cup {h.ev : h \in Elements(outbox)}
           /\ outbox' = <<>> /\ Elements(outbox') = {}
           /\ \A i \in Ids : FilledQty(batch', i) = FilledQty(Evs(outbox), i) + FilledQty(InOrder(raw'), i)
<1>0. TypeOK /\ ReplyTypes
  BY DEF Core
<1>1. VFlush /\ Flush
  BY DEF FlushTail, VFlush
<1>2. TypeOK'
  BY <1>0, <1>1, FlushType
<1>3. SettleInbox(In("inbox") \cup In("delayed"), now) /\ flushed' /\ now' = now
  BY <1>1 DEF Flush
<1>4. (In("inbox") \cup In("delayed")) \in SUBSET Ids
      /\ \A i \in In("inbox") \cup In("delayed") : place[i] \in {"inbox", "delayed"}
  BY DEF In
<1>5. Answers
  BY <1>0, <1>2, <1>3, <1>4, SettlingAnswers
<1>6. raw' \subseteq Event /\ Keyed(raw') /\ outbox \in Seq(HeldRec)
  BY <1>0, <1>2, <1>5 DEF ReplyTypes, Answers, TypeOK
<1>7. /\ Elements(batch') = raw' \cup {h.ev : h \in Elements(outbox)}
      /\ outbox' = <<>> /\ Elements(outbox') = {}
  BY <1>1, <1>6, FlushCarries
<1>8. /\ batch' \in Seq(Event)
      /\ \A i \in Ids : FilledQty(batch', i) = FilledQty(Evs(outbox), i) + FilledQty(InOrder(raw'), i)
  <2> DEFINE u == InOrder(raw')
             v == Evs(outbox)
  <2>1. u \in Seq(Event) /\ v \in Seq(Event) /\ batch' = u \o v
    BY <1>1, <1>6, InOrderFacts, EvsTypes DEF VFlush
  <2>2. ASSUME NEW i \in Ids PROVE FilledQty(u \o v, i) = FilledQty(v, i) + FilledQty(u, i)
    <3> HIDE DEF u, v
    <3>1. FilledQty(u \o v, i) = FilledQty(u, i) + FilledQty(v, i)
      BY <2>1, QtyConcat
    <3>2. FilledQty(u, i) \in Nat /\ FilledQty(v, i) \in Nat
      BY <2>1, QtyTypes
    <3> QED BY <3>1, <3>2
  <2> HIDE DEF u, v
  <2>3. u \o v \in Seq(Event)
    BY <2>1
  <2> QED BY <2>1, <2>2, <2>3 DEF u, v
<1>9. got' \in [Ids -> Nat]
  <2>1. got' = [i \in Ids |-> got[i] + FilledQty(batch', i)]
    BY <1>1 DEF VFlush, Count
  <2>2. \A i \in Ids : FilledQty(batch', i) \in Nat /\ got[i] \in Nat
    BY <1>0, <1>8, QtyTypes DEF ReplyTypes
  <2>3. \A i \in Ids : got[i] + FilledQty(batch', i) \in Nat
    BY <2>2
  <2> QED BY <2>1, <2>3
<1> QED BY <1>2, <1>3, <1>5, <1>6, <1>7, <1>8, <1>9 DEF ReplyTypes

\* Where Observe leaves the strategy's clock: at a stamp the venue accepts.
LEMMA Observed ==
    ASSUME Core, NEW e \in FeedEvents, Observe(e)
    PROVE  /\ ns' \in Stamps /\ ns' \in 0..MaxTs /\ ns <= ns' /\ e \in MarketEv /\ Sync(ns') /\ NoReply
           /\ ~BadStamps => ns' = e.ts /\ now' = ns'
           /\ session = 1 /\ ~BadStamps => now <= ns'
<1>1. ns \in 0..MaxTs /\ now \in 0..MaxTs /\ MaxTs \in Nat /\ BadStamps \in BOOLEAN
  BY MatchingAssumption DEF Core, RunTypes, TypeOK
<1>2. e \in MarketEv /\ e.ts \in 0..MaxTs /\ e.bad \in BOOLEAN /\ (~BadStamps => e.ts >= ns /\ ~e.bad)
  <2>1. ASSUME NEW ts \in 0..MaxTs, NEW bad \in BOOLEAN, NEW x \in MarketEvents(ts, bad)
        PROVE  x \in MarketEv /\ x.ts = ts /\ x.bad = bad
    BY <2>1 DEF MarketEvents, MarketEv
  <2>2. CASE \E ts \in ns..MaxTs : e \in MarketEvents(ts, FALSE)
    <3>1. PICK ts \in ns..MaxTs : e \in MarketEvents(ts, FALSE)
      BY <2>2
    <3>2. ts \in 0..MaxTs /\ ts >= ns
      BY <1>1, <3>1
    <3> QED BY <2>1, <3>1, <3>2
  <2>3. CASE BadStamps /\ \E ts \in 0..MaxTs : e \in MarketEvents(ts, TRUE)
    BY <2>1, <2>3
  <2>4. \/ e \in UNION {MarketEvents(ts, FALSE) : ts \in ns..MaxTs}
        \/ BadStamps /\ e \in UNION {MarketEvents(ts, TRUE) : ts \in 0..MaxTs}
    <3> DEFINE good == UNION {MarketEvents(ts, FALSE) : ts \in ns..MaxTs}
               wrong == UNION {MarketEvents(ts, TRUE) : ts \in 0..MaxTs}
    <3>1. e \in good \cup (IF BadStamps THEN wrong ELSE {})
      BY DEF FeedEvents
    <3> HIDE DEF good, wrong
    <3>2. CASE BadStamps = TRUE
      <4>1. e \in good \cup wrong
        BY <3>1, <3>2
      <4> QED BY <3>2, <4>1 DEF good, wrong
    <3>3. CASE BadStamps = FALSE
      <4>1. e \in good
        BY <3>1, <3>3
      <4> QED BY <4>1 DEF good
    <3> QED BY <1>1, <3>2, <3>3
  <2>5. (\E ts \in ns..MaxTs : e \in MarketEvents(ts, FALSE))
        \/ (BadStamps /\ \E ts \in 0..MaxTs : e \in MarketEvents(ts, TRUE))
    BY Zenon, <2>4
  <2> QED BY <2>2, <2>3, <2>5
<1>3. ns' = IF ~e.bad /\ e.ts > ns THEN e.ts ELSE ns
  BY DEF Observe
<1>4. ns' \in 0..MaxTs /\ ns <= ns' /\ (~BadStamps => ns' = e.ts)
  BY <1>1, <1>2, <1>3
<1>5. Sync(ns') /\ NoReply /\ now' = Later(ns')
  BY DEF Observe, VSync, Sync
<1>6. ~BadStamps => now <= ns
  BY DEF Core, InStep
<1>7. ns' \in Stamps /\ (~BadStamps => now <= ns')
  BY <1>1, <1>4, <1>6 DEF Stamps
<1>8. ~BadStamps => now' = ns'
  BY <1>1, <1>4, <1>5, <1>7 DEF Later
<1> QED BY <1>2, <1>4, <1>5, <1>7, <1>8

\* What Reconcile hands to Adopt.
Snap == IF StoreSnapshot THEN [working |-> WorkingOrders, lastID |-> LastID] ELSE exchange
LEMMA Reconciled ==
    ASSUME Core, Reconcile
    PROVE  /\ Snap.working \in SUBSET Ids /\ Snap.lastID \in 0..MaxOrders
           /\ Adopt(Snap.working, order, Snap.lastID) /\ NoReply
<1>1. Snap.working \in SUBSET Ids /\ Snap.lastID \in 0..MaxOrders
  BY LastIDFacts, WorkingFacts DEF Core, RunTypes, Snap
<1>2. Keep(WorkingOrders, Snap.working) \cup Adds(WorkingOrders, Snap.working) = Snap.working
  BY DEF Keep, Adds
<1>3. VAdopt(Keep(WorkingOrders, Snap.working) \cup Adds(WorkingOrders, Snap.working), order, Snap.lastID)
  BY DEF Reconcile, Snap
<1> QED BY <1>1, <1>2, <1>3 DEF VAdopt

LEMMA NextTypes == Core /\ [RNext]_rvars => TypeOK' /\ ReplyTypes'
<1> SUFFICES ASSUME Core, [RNext]_rvars
             PROVE  TypeOK' /\ ReplyTypes'
  OBVIOUS
<1>0. TypeOK /\ ReplyTypes
  BY DEF Core
<1>1. CASE UNCHANGED venueVars
  <2>1. vars' = vars /\ outbox' = outbox /\ batch' = batch /\ got' = got
    BY <1>1 DEF venueVars
  <2>2. TypeOK'
    BY <1>0, <2>1, NextType
  <2> QED BY <1>0, <2>1, <2>2 DEF ReplyTypes
<1>2. ASSUME NEW o \in Requests, Submit(o) PROVE TypeOK' /\ ReplyTypes'
  <2>1. Enqueue(o) /\ NoReply
    BY <1>2 DEF Submit, VEnqueue
  <2> QED BY <1>0, <2>1, EnqueueType DEF NoReply, ReplyTypes
<1>3. ASSUME NEW i \in Ids, CancelOrder(i) PROVE TypeOK' /\ ReplyTypes'
  <2>1. Cancel(i) /\ NoReply
    BY <1>3 DEF CancelOrder, VCancel
  <2> QED BY <1>0, <2>1, CancelType DEF NoReply, ReplyTypes
<1>4. ASSUME NEW e \in FeedEvents, Observe(e) PROVE TypeOK' /\ ReplyTypes'
  <2>1. ns' \in Stamps /\ Sync(ns') /\ NoReply
    BY <1>4, Observed
  <2>2. PICK ts \in Stamps : Sync(ts)
    BY <2>1
  <2> QED BY <1>0, <2>1, <2>2, SyncType DEF NoReply, ReplyTypes
<1>5. CASE CallStep
  <2>1. PICK ts \in Stamps : Called(ts)
    BY <1>5 DEF CallStep
  <2> QED BY <2>1, CalledFacts
<1>6. CASE FlushTail
  BY <1>6, FlushedFacts
<1>7. CASE ApplyEvent
  <2>1. vars' = vars /\ outbox' = outbox /\ got' = got /\ batch' = Tail(batch) /\ batch # <<>>
    BY <1>7 DEF ApplyEvent
  <2>2. TypeOK'
    BY <1>0, <2>1, NextType
  <2>3. batch' \in Seq(Event)
    BY <1>0, <2>1, ElementsTail DEF ReplyTypes
  <2> QED BY <1>0, <2>1, <2>2, <2>3 DEF ReplyTypes
<1>8. CASE Restart
  <2>1. /\ nextID' = 0 /\ now' = 0 /\ hasQ' = FALSE /\ quote' = NoQuote
        /\ place' = [i \in Ids |-> IF i \in Live THEN "canceled" ELSE place[i]]
        /\ raw' = {} /\ outbox' = <<>> /\ batch' = <<>> /\ flushed' = FALSE
        /\ UNCHANGED <<order, ready, resting, executed, atPx, paid, claim, since, got>>
    BY <1>8 DEF Restart
  <2>2. MaxOrders \in Nat /\ MaxTs \in Nat
    BY MatchingAssumption
  <2>3. nextID' \in 0..MaxOrders /\ now' \in 0..MaxTs /\ quote' \in QuoteRec /\ raw' \subseteq Event
    BY <2>1, <2>2 DEF NoQuote, QuoteRec
  <2>4. place' \in [Ids -> Places]
    BY <1>0, <2>1 DEF TypeOK, Places, Ended
  <2>5. TypeOK'
    BY <1>0, <2>1, <2>3, <2>4 DEF TypeOK, resting
  <2> QED BY <1>0, <2>1, <2>5 DEF ReplyTypes
<1>9. CASE Restore
  BY <1>1, <1>9 DEF Restore
<1>10. CASE Reconcile
  <2>1. Snap.working \in SUBSET Ids /\ Snap.lastID \in 0..MaxOrders
        /\ Adopt(Snap.working, order, Snap.lastID) /\ NoReply
    BY <1>10, Reconciled
  <2>2. \A i \in Snap.working : order[i] \in OrderRec
    BY <1>0, <2>1 DEF TypeOK
  <2>3. PICK S \in SUBSET Ids, n \in 0..MaxOrders, ords \in {order} :
           S = Snap.working /\ n = Snap.lastID /\ ords = order
    BY <2>1
  <2>4. Adopt(S, ords, n) /\ \A i \in S : ords[i] \in OrderRec
    BY <2>1, <2>2, <2>3
  <2>5. TypeOK'
    BY <1>0, <2>4, AdoptsType
  <2> QED BY <1>0, <2>1, <2>5 DEF NoReply, ReplyTypes
<1> QED BY <1>1, <1>2, <1>3, <1>4, <1>5, <1>6, <1>7, <1>8, <1>9, <1>10, Kinds

LEMMA NextRunTypes == Core /\ [RNext]_rvars => RunTypes'
<1> SUFFICES ASSUME Core, [RNext]_rvars
             PROVE  RunTypes'
  OBVIOUS
<1>0. RunTypes /\ TypeOK
  BY DEF Core
<1> DEFINE Places2 == /\ pc' \in Where /\ ret' \in {"start", "stop", "match", "cascade", "flush"}
                      /\ ev' \in MarketEv \cup {NoEvent}
           Kept2 == /\ ns' \in 0..MaxTs /\ session' \in Nat \ {0} /\ reconciled' \in BOOLEAN
                    /\ log' \in Seq(LogRec) /\ books' \in BooksRec
                    /\ exchange' \in [working: SUBSET Ids, lastID: 0..MaxOrders]
                    /\ submitAt' \in [Ids -> Nat] /\ late' \subseteq Ids
<1>1. Places2
  <2>1. CASE Start \/ Fail \/ Eof \/ FlushTail \/ ApplyEvent \/ Restore
    BY <1>0, <2>1 DEF Start, Fail, Eof, FlushTail, ApplyEvent, Restore, RunTypes, GoTo, Where, Callbacks
  <2>2. CASE Return
    BY <1>0, <2>2 DEF Return, RunTypes, Where, Callbacks
  <2>3. CASE Drain
    BY <1>0, <2>3 DEF Drain, RunTypes, Where, Callbacks, GoTo
  <2>4. CASE MatchResting
    BY <1>0, <2>4 DEF MatchResting, RunTypes, Where, Callbacks
  <2>5. CASE SettleCascade
    BY <1>0, <2>5 DEF SettleCascade, RunTypes, Where, Callbacks
  <2>6. CASE Applied
    BY <1>0, <2>6 DEF Applied, RunTypes, Where, Callbacks
  <2>7. CASE Restart \/ Reconcile
    BY <1>0, <2>7 DEF Restart, Reconcile, RunTypes, Where, Callbacks
  <2>8. CASE Operator \/ UNCHANGED rvars \/ \E o \in Requests : Submit(o) \/ SubmitRefused(o)
    <3>1. pc' = pc /\ ret' = ret /\ ev' = ev
      BY <2>8 DEF Operator, SubmitRefused, Submit, rvars, control
    <3> QED BY <1>0, <3>1 DEF RunTypes
  <2>9. CASE \E i \in Ids : CancelOrder(i)
    <3>1. pc' = pc /\ ret' = ret /\ ev' = ev
      BY <2>9 DEF CancelOrder, control
    <3> QED BY <1>0, <3>1 DEF RunTypes
  <2>10. CASE \E e \in FeedEvents : Observe(e)
    <3>1. PICK e \in FeedEvents : Observe(e)
      BY <2>10
    <3>2. pc' = "match" /\ ret' = ret /\ ev' = e /\ e \in MarketEv
      BY <3>1, Observed DEF Observe, GoTo
    <3> QED BY <1>0, <3>2 DEF RunTypes, Where
  <2> HIDE DEF Places2
  <2> QED BY <2>1, <2>2, <2>3, <2>4, <2>5, <2>6, <2>7, <2>8, <2>9, <2>10 DEF RNext, Step
<1>2. Kept2
  <2>1. CASE Beside
    BY <1>0, <2>1 DEF Beside, RunTypes
  <2>2. ASSUME NEW o \in Requests, Submit(o) PROVE Kept2
    <3>1. log' \in Seq(LogRec) /\ nextID' \in Ids
      BY <2>2, Requested
    <3>2. UNCHANGED <<ns, books, reconciled, session, exchange>>
          /\ submitAt' = [submitAt EXCEPT ![nextID'] = ns]
          /\ late' = IF ret = "flush" THEN late \cup {nextID'} ELSE late
      BY <2>2 DEF Submit
    <3>3. ns \in Nat
      BY <1>0, MatchingAssumption DEF RunTypes
    <3> QED BY <1>0, <3>1, <3>2, <3>3 DEF RunTypes
  <2>3. ASSUME NEW i \in Ids, CancelOrder(i) PROVE Kept2
    <3>1. log' \in Seq(LogRec)
      BY <2>3, Canceled
    <3>2. UNCHANGED <<ns, books, reconciled, session, exchange, submitAt, late>>
      BY <2>3 DEF CancelOrder, control
    <3> QED BY <1>0, <3>1, <3>2 DEF RunTypes
  <2>4. ASSUME NEW e \in FeedEvents, Observe(e) PROVE Kept2
    <3>1. ns' \in 0..MaxTs
      BY <2>4, Observed
    <3>2. UNCHANGED <<log, books, reconciled, session, exchange, submitAt, late>>
      BY <2>4 DEF Observe
    <3> QED BY <1>0, <3>1, <3>2 DEF RunTypes
  <2>5. CASE FlushTail
    BY <1>0, <2>5 DEF FlushTail, RunTypes
  <2>6. CASE ApplyEvent
    <3>1. UNCHANGED <<ns, reconciled, session, exchange, submitAt, late>>
      BY <2>6 DEF ApplyEvent
    <3>2. log' \in Seq(LogRec) /\ books' \in BooksRec
      <4>1. CASE Head(batch).status = "filled"
        BY <2>6, <4>1, AppliedFill
      <4>2. CASE Head(batch).status # "filled"
        BY <1>0, <2>6, <4>2, AppliedReject DEF RunTypes
      <4> QED BY <4>1, <4>2
    <3> QED BY <1>0, <3>1, <3>2 DEF RunTypes
  <2>7. CASE Restart
    <3>1. /\ exchange' = [working |-> Live, lastID |-> nextID] /\ ns' = 0 /\ books' = EmptyBooks
          /\ reconciled' = FALSE /\ session' = session + 1
          /\ UNCHANGED <<log, submitAt, late>>
      BY <2>7 DEF Restart
    <3>2. Live \subseteq Ids /\ nextID \in 0..MaxOrders /\ 0 \in 0..MaxTs
      BY <1>0, MatchingAssumption DEF Live, In, TypeOK
    <3>3. EmptyBooks \in BooksRec
      BY EmptyBooksFacts
    <3>4. exchange' \in [working: SUBSET Ids, lastID: 0..MaxOrders] /\ session' \in Nat \ {0}
      BY <1>0, <3>1, <3>2 DEF RunTypes
    <3> QED BY <1>0, <3>1, <3>2, <3>3, <3>4 DEF RunTypes
  <2>8. CASE Restore
    <3>1. /\ books' = BooksAfter(LoggedFills) /\ ns' = IF LastTs > ns THEN LastTs ELSE ns
          /\ UNCHANGED <<log, reconciled, session, exchange, submitAt, late>>
      BY <2>8 DEF Restore
    <3>2. LoggedFills \in Seq(FillRec) /\ LastTs \in 0..MaxTs
      BY <1>0, OfKindFacts, LastTsFacts DEF RunTypes
    <3>3. BooksAfter(LoggedFills) \in BooksRec
      BY <3>2, BooksByPrefixes, BooksAreRun
    <3> QED BY <1>0, <3>1, <3>2, <3>3 DEF RunTypes
  <2>9. CASE Reconcile
    <3>1. reconciled' = TRUE /\ UNCHANGED <<log, ns, books, session, exchange, submitAt, late>>
      BY <2>9 DEF Reconcile
    <3> QED BY <1>0, <3>1 DEF RunTypes
  <2>10. CallStep => Beside
    BY DEF CallStep
  <2> HIDE DEF Kept2
  <2> QED BY <2>1, <2>2, <2>3, <2>4, <2>5, <2>6, <2>7, <2>8, <2>9, <2>10, Kinds
<1> QED BY <1>1, <1>2 DEF RunTypes

LEMMA NextControl == Core /\ [RNext]_rvars => Control'
<1> SUFFICES ASSUME Core, [RNext]_rvars
             PROVE  Control'
  OBVIOUS
<1>0. Control /\ RunTypes /\ TypeOK
  BY DEF Core
<1>2. CASE Start \/ Fail \/ Eof
  <2>1. UNCHANGED <<batch, outbox, reconciled, session, log, ret, flushed, ev, place>>
    BY <1>2 DEF Start, Fail, Eof, venueVars, vars, history
  <2>2. CASE Start
    <3>1. pc' = "start" /\ pc \in {"boot", "restored"} /\ (session > 1 => reconciled)
      BY <2>2 DEF Start, GoTo
    <3> QED BY <1>0, <2>1, <3>1 DEF Control, Callbacks
  <2>3. CASE Fail
    <3>1. pc' = "failed" /\ pc \in Callbacks \cup {"next"}
      BY <2>3 DEF Fail, GoTo
    <3> QED BY <1>0, <2>1, <3>1 DEF Control, Callbacks
  <2>4. CASE Eof
    <3>1. pc' = "stop" /\ pc = "next"
      BY <2>4 DEF Eof, GoTo
    <3> QED BY <1>0, <2>1, <3>1 DEF Control
  <2> QED BY <1>2, <2>2, <2>3, <2>4
<1>3. CASE Return
  <2>1. UNCHANGED <<batch, outbox, reconciled, session, log, flushed, ev, place>>
    BY <1>3 DEF Return, venueVars, vars, history
  <2>2. /\ pc \in Callbacks
        /\ pc' = CASE pc \in {"start", "stop"} -> "drain"
                   [] pc = "event" -> "settle"
                   [] pc = "order" -> "apply"
        /\ ret' = IF pc \in {"start", "stop"} THEN pc ELSE ret
    BY <1>3 DEF Return
  <2>3. \/ pc \in {"start", "stop"} /\ pc' = "drain" /\ ret' = pc
        \/ pc = "event" /\ pc' = "settle" /\ ret' = ret
        \/ pc = "order" /\ pc' = "apply" /\ ret' = ret
    BY <2>2 DEF Callbacks
  <2> QED BY <1>0, <2>1, <2>3 DEF Control
<1>4. CASE Drain
  <2>1. UNCHANGED <<log, ret, reconciled, session, ev>> /\ pc = "drain"
    BY <1>4 DEF Drain
  <2>2. CASE iter < MaxCascade /\ VSettle(ns)
    <3>1. pc' = IF batch' # <<>> THEN "apply" ELSE IF ret = "start" THEN "next" ELSE "flush"
      BY <1>4, <2>2, RuntimeAssumption DEF Drain
    <3>2. flushed' = flushed
      BY <2>2 DEF VSettle, Settle
    <3> QED BY <1>0, <2>1, <3>1, <3>2 DEF Control
  <2>3. CASE UNCHANGED <<venueVars, iter>> /\ iter = MaxCascade /\ pc' = "failed"
    <3>1. UNCHANGED <<batch, outbox, flushed, place>>
      BY <2>3 DEF venueVars, vars, history
    <3> QED BY <1>0, <2>1, <2>3, <3>1 DEF Control
  <2> QED BY <1>4, <2>2, <2>3 DEF Drain, GoTo
<1>5. CASE MatchResting
  <2>1. /\ UNCHANGED <<log, reconciled, session, ev>> /\ pc = "match" /\ ret' = "match"
        /\ pc' = IF batch' = <<>> THEN "event" ELSE "apply"
    BY <1>5 DEF MatchResting
  <2>2. flushed' = flushed
    <3>1. CASE ev.kind = "quote"
      BY <1>5, <3>1 DEF MatchResting, VQuote, Quote
    <3>2. CASE ev.kind # "quote"
      BY <1>5, <3>2 DEF MatchResting, VTrade, Trade, OnTrade
    <3> QED BY <3>1, <3>2
  <2> QED BY <1>0, <2>1, <2>2 DEF Control
<1>6. CASE SettleCascade
  <2>1. /\ UNCHANGED <<log, reconciled, session, ev>> /\ pc = "settle" /\ ret' = "cascade"
        /\ pc' = IF batch' = <<>> THEN "next" ELSE "apply"
        /\ flushed' = flushed
    BY <1>6 DEF SettleCascade, VSettle, Settle
  <2> QED BY <1>0, <2>1 DEF Control
<1>7. CASE FlushTail
  <2>1. /\ UNCHANGED <<log, reconciled, session, ev>> /\ pc = "flush" /\ ret' = "flush" /\ pc' = "apply"
    BY <1>7 DEF FlushTail, GoTo
  <2>2. flushed'
    BY <1>7, FlushedFacts
  <2> QED BY <1>0, <2>1, <2>2 DEF Control
<1>8. CASE ApplyEvent
  <2>1. /\ UNCHANGED <<ret, reconciled, session, ev, flushed>> /\ pc = "apply" /\ pc' = "order"
    BY <1>8 DEF ApplyEvent, GoTo, vars, history
  <2> QED BY <1>0, <2>1 DEF Control
<1>9. CASE Applied
  <2>1. /\ UNCHANGED <<batch, outbox, ret, reconciled, session, log, flushed, ev, place>>
        /\ pc = "apply" /\ batch = <<>>
        /\ pc' = CASE ret \in {"start", "stop"} -> "drain"
                   [] ret = "match" -> "event"
                   [] ret = "flush" -> "done"
                   [] ret = "cascade" /\ ~refill -> "next"
                   [] ret = "cascade" /\ refill /\ iter' < MaxCascade -> "event"
                   [] OTHER -> "failed"
    BY <1>9 DEF Applied, venueVars, vars, history
  <2>2. \/ ret = "flush" /\ pc' = "done"
        \/ ret # "flush" /\ pc' \in {"drain", "event", "next", "failed"}
    BY <2>1
  <2> QED BY <1>0, <2>1, <2>2 DEF Control
<1>10. CASE Restart
  <2>1. /\ batch' = <<>> /\ outbox' = <<>> /\ flushed' = FALSE /\ pc' = "boot" /\ ret' = "start"
        /\ ev' = NoEvent /\ reconciled' = FALSE /\ session' = session + 1
        /\ place' = [i \in Ids |-> IF i \in Live THEN "canceled" ELSE place[i]]
    BY <1>10 DEF Restart
  <2>2. \A i \in Ids : place'[i] \notin {"delayed", "inbox", "working"}
    BY <2>1 DEF Live, In
  <2>3. Live' = {}
    BY <2>2 DEF Live, In
  <2>4. session \in Nat \ {0}
    BY <1>0 DEF RunTypes
  <2> QED BY <1>0, <2>1, <2>3, <2>4 DEF Control
<1>11. CASE Restore
  <2>1. UNCHANGED <<batch, outbox, ret, reconciled, session, log, flushed, ev, place>>
    BY <1>11 DEF Restore, venueVars, vars, history
  <2>2. pc = "boot" /\ session > 1 /\ pc' = "restored"
    BY <1>11 DEF Restore, GoTo
  <2> QED BY <1>0, <2>1, <2>2 DEF Control, Live, In
<1>12. CASE Reconcile
  <2>1. NoReply /\ Adopt(Snap.working, order, Snap.lastID)
    BY <1>12, Reconciled
  <2>2. /\ UNCHANGED <<batch, outbox, ret, session, log, flushed, ev>>
        /\ pc = "restored" /\ pc' = pc /\ reconciled' = TRUE
    BY <1>12, <2>1 DEF Reconcile, Adopt, AdoptOutcome, NoReply
  <2> QED BY <1>0, <2>2 DEF Control
<1>13. CASE Operator \/ UNCHANGED rvars \/ \E o \in Requests : SubmitRefused(o)
  <2>1. UNCHANGED <<batch, outbox, pc, ret, reconciled, session, log, flushed, ev, place>>
    BY <1>13 DEF Operator, SubmitRefused, rvars, control, venueVars, vars, history
  <2> QED BY <1>0, <2>1 DEF Control, Live, In
<1>14. ASSUME NEW o \in Requests, Submit(o) PROVE Control'
  <2>1. UNCHANGED <<batch, outbox, pc, ret, reconciled, session, flushed, ev>> /\ pc \in Callbacks
    BY <1>14 DEF Submit, VEnqueue, Enqueue, NoReply, history
  <2> QED BY <1>0, <2>1 DEF Control, Callbacks
<1>15. ASSUME NEW i \in Ids, CancelOrder(i) PROVE Control'
  <2>1. UNCHANGED <<batch, outbox, pc, ret, reconciled, session, flushed, ev>> /\ pc \in Callbacks
    BY <1>15 DEF CancelOrder, VCancel, Cancel, NoReply, history, control
  <2> QED BY <1>0, <2>1 DEF Control, Callbacks
<1>16. ASSUME NEW e \in FeedEvents, Observe(e) PROVE Control'
  <2>1. /\ UNCHANGED <<batch, outbox, ret, reconciled, session, flushed, log>>
        /\ pc = "next" /\ pc' = "match" /\ ev' = e /\ e \in MarketEv
    BY <1>16, Observed DEF Observe, VSync, Sync, NoReply, history, GoTo
  <2> QED BY <1>0, <2>1 DEF Control
<1> QED BY <1>2, <1>3, <1>4, <1>5, <1>6, <1>7, <1>8, <1>9, <1>10, <1>11, <1>12, <1>13, <1>14,
           <1>15, <1>16 DEF RNext, Step

LEMMA NextInStep == Core /\ [RNext]_rvars => InStep'
<1> SUFFICES ASSUME Core, [RNext]_rvars
             PROVE  InStep'
  OBVIOUS
<1>0. InStep /\ RunTypes /\ TypeOK
  BY DEF Core
<1>1. now \in Nat /\ ns \in Nat /\ now \in 0..MaxTs /\ BadStamps \in BOOLEAN /\ MaxTs \in Nat
  BY <1>0, MatchingAssumption DEF RunTypes, TypeOK
\* Only Observe leads to pc = "match".
<1>2. (\E e \in FeedEvents : Observe(e)) \/ pc' # "match" \/ (pc' = pc /\ UNCHANGED <<now, ns, ev, session>>)
  <2>1. CASE Start \/ Fail \/ Eof \/ FlushTail \/ ApplyEvent \/ Restore
    BY <2>1 DEF Start, Fail, Eof, FlushTail, ApplyEvent, Restore, GoTo
  <2>2. CASE Return
    <3>1. pc \in Callbacks /\ pc' = CASE pc \in {"start", "stop"} -> "drain"
                                      [] pc = "event" -> "settle"
                                      [] pc = "order" -> "apply"
      BY <2>2 DEF Return
    <3> QED BY <3>1 DEF Callbacks
  <2>3. CASE Drain
    <3>1. pc' \in {"failed", "apply", "next", "flush"}
      BY <2>3 DEF Drain, GoTo
    <3> QED BY <3>1
  <2>4. CASE MatchResting
    BY <2>4 DEF MatchResting
  <2>5. CASE SettleCascade
    BY <2>5 DEF SettleCascade
  <2>6. CASE Applied
    <3>1. pc' = CASE ret \in {"start", "stop"} -> "drain"
                  [] ret = "match" -> "event"
                  [] ret = "flush" -> "done"
                  [] ret = "cascade" /\ ~refill -> "next"
                  [] ret = "cascade" /\ refill /\ iter' < MaxCascade -> "event"
                  [] OTHER -> "failed"
      BY <2>6 DEF Applied
    <3> QED BY <3>1
  <2>7. CASE Restart \/ Reconcile
    BY <2>7 DEF Restart, Reconcile
  <2>8. CASE Operator \/ UNCHANGED rvars \/ \E o \in Requests : Submit(o) \/ SubmitRefused(o)
    BY <2>8 DEF Operator, SubmitRefused, Submit, VEnqueue, Enqueue, rvars, control, venueVars, vars
  <2>9. CASE \E i \in Ids : CancelOrder(i)
    BY <2>9 DEF CancelOrder, VCancel, Cancel, control
  <2> QED BY <2>1, <2>2, <2>3, <2>4, <2>5, <2>6, <2>7, <2>8, <2>9 DEF RNext, Step
<1>3. CASE UNCHANGED <<now, ns, session>> /\ ~\E e \in FeedEvents : Observe(e)
  BY <1>0, <1>2, <1>3 DEF InStep
<1>4. ASSUME NEW e \in FeedEvents, Observe(e) PROVE InStep'
  <2>1. ~BadStamps => ns' = e.ts /\ now' = ns' /\ ev' = e
    BY <1>4, Observed DEF Observe
  <2>2. ns' \in 0..MaxTs
    BY <1>4, Observed
  <2> QED BY <2>1, <2>2 DEF InStep
<1>5. CASE CallStep
  <2>1. PICK ts \in Stamps : Called(ts) /\ Beside /\ (~BadStamps => ts <= ns /\ (session = 1 => ts = ns))
    BY <1>5 DEF CallStep
  <2>2. now' = Later(ts) /\ ts \in Nat
    BY <2>1, CalledFacts
  <2>3. UNCHANGED <<ns, session>>
    BY <2>1 DEF Beside
  <2>4. ~BadStamps => now' <= ns /\ (session = 1 => now' = ns)
    BY <1>0, <1>1, <2>1, <2>2 DEF InStep, Later
  <2>5. pc' # "match" \/ (pc' = pc /\ UNCHANGED <<now, ns, ev, session>>) \/ \E e \in FeedEvents : Observe(e)
    BY <1>2
  <2> QED BY <1>0, <1>4, <2>3, <2>4, <2>5 DEF InStep
<1>6. CASE UNCHANGED venueVars /\ Beside
  <2>1. UNCHANGED <<now, ns, session>>
    BY <1>6 DEF Beside, venueVars, vars
  <2> QED BY <1>3, <1>4, <2>1
<1>7. ASSUME NEW o \in Requests, Submit(o) PROVE InStep'
  <2>1. UNCHANGED <<now, ns, session>>
    BY <1>7 DEF Submit, VEnqueue, Enqueue
  <2> QED BY <1>3, <1>4, <2>1
<1>8. ASSUME NEW i \in Ids, CancelOrder(i) PROVE InStep'
  <2>1. UNCHANGED <<now, ns, session>>
    BY <1>8 DEF CancelOrder, VCancel, Cancel, control
  <2> QED BY <1>3, <1>4, <2>1
<1>9. CASE FlushTail
  <2>1. UNCHANGED <<now, ns, session>>
    BY <1>9 DEF FlushTail, VFlush, Flush
  <2> QED BY <1>3, <1>4, <2>1
<1>10. CASE ApplyEvent
  <2>1. UNCHANGED <<now, ns, session>>
    BY <1>10 DEF ApplyEvent, vars
  <2> QED BY <1>3, <1>4, <2>1
<1>11. CASE Restart
  <2>1. now' = 0 /\ ns' = 0 /\ pc' = "boot"
    BY <1>11 DEF Restart
  <2> QED BY <2>1 DEF InStep
<1>12. CASE Restore
  <2>1. now' = now /\ session' = session /\ session > 1 /\ pc' = "restored"
        /\ ns' = IF LastTs > ns THEN LastTs ELSE ns
    BY <1>12 DEF Restore, venueVars, vars, GoTo
  <2>2. LastTs \in 0..MaxTs
    BY <1>0, LastTsFacts DEF RunTypes
  <2> QED BY <1>0, <1>1, <2>1, <2>2 DEF InStep
<1>13. CASE Reconcile
  <2>1. NoReply /\ Adopt(Snap.working, order, Snap.lastID)
    BY <1>13, Reconciled
  <2>2. UNCHANGED <<now, ns, session>>
    BY <1>13, <2>1 DEF Reconcile, Adopt, AdoptOutcome
  <2> QED BY <1>3, <1>4, <2>2
<1> QED BY <1>4, <1>5, <1>6, <1>7, <1>8, <1>9, <1>10, <1>11, <1>12, <1>13, Kinds

LEMMA InitCore == RInit => Core
<1> SUFFICES ASSUME RInit
             PROVE  Core
  OBVIOUS
<1>1. VInit /\ Init /\ log = <<>>
  BY DEF RInit, VInit, StoreInit
<1>2. TypeOK
  BY <1>1, InitType
<1>3. ReplyTypes
  BY <1>1, InitHand DEF HandInv
<1>4. MaxTs \in Nat /\ MaxOrders \in Nat
  BY MatchingAssumption
<1>5. RunTypes
  <2>1. log \in Seq(LogRec) /\ books \in BooksRec
    BY <1>1, EmptyBooksFacts DEF RInit
  <2>2. exchange \in [working: SUBSET Ids, lastID: 0..MaxOrders]
    BY <1>4 DEF RInit
  <2>3. /\ pc \in Where /\ ret \in {"start", "stop", "match", "cascade", "flush"}
        /\ ns \in 0..MaxTs /\ session \in Nat \ {0} /\ reconciled \in BOOLEAN
        /\ late \subseteq Ids
    <3>1. /\ pc = "boot" /\ ret = "start" /\ ns = 0 /\ session = 1
          /\ reconciled = FALSE /\ late = {}
      BY DEF RInit
    <3>2. pc \in Where
      BY <3>1 DEF Where
    <3>3. ret \in {"start", "stop", "match", "cascade", "flush"}
      BY <3>1
    <3>4. ns \in 0..MaxTs /\ session \in Nat \ {0}
      BY <1>4, <3>1
    <3>5. reconciled \in BOOLEAN /\ late \subseteq Ids
      BY <3>1
    <3> QED BY <3>2, <3>3, <3>4, <3>5
  <2>4. ev \in MarketEv \cup {NoEvent} /\ submitAt \in [Ids -> Nat]
    BY DEF RInit
  <2> QED BY <2>1, <2>2, <2>3, <2>4 DEF RunTypes
<1>6. Control
  <2>1. Live = {}
    BY <1>1 DEF Init, Live, In
  <2>2. flushed = FALSE /\ ret # "flush" /\ batch = <<>> /\ outbox = <<>>
    BY <1>1 DEF VInit, Init, RInit
  <2> QED BY <1>1, <2>1, <2>2 DEF RInit, Control
<1>7. InStep
  BY <1>1, <1>4 DEF RInit, InStep, Init
<1> QED BY <1>2, <1>3, <1>5, <1>6, <1>7 DEF Core

LEMMA NextCore == Core /\ [RNext]_rvars => Core'
  BY NextTypes, NextRunTypes, NextControl, NextInStep DEF Core

\* The types of everything a run keeps, and where each of its phases leaves the
\* events it applies: in every process, restarts included.
THEOREM CoreHolds == RSpec => []Core
  BY InitCore, NextCore, PTL DEF RSpec

-----------------------------------------------------------------------------
(* The control of a run is RunLoop's.                                      *)

LEMMA LenFacts ==
    ASSUME NEW s \in Seq(Event)
    PROVE  /\ Len(s) \in Nat /\ (s = <<>> <=> Len(s) = 0)
           /\ s # <<>> => Len(Tail(s)) = Len(s) - 1
  OBVIOUS

LEMMA NextLoop == Core /\ Core' /\ [RNext]_rvars => [Loop!LoopNext]_(Loop!loopVars)
<1> SUFFICES ASSUME Core, Core', [RNext]_rvars PROVE [Loop!LoopNext]_(Loop!loopVars)
  OBVIOUS
<1> DEFINE n == Len(batch)
           m == Len(batch')
           Left == n \in Nat /\ m \in Nat /\ (batch = <<>> <=> n = 0) /\ (batch' = <<>> <=> m = 0)
           Still == UNCHANGED <<ret, iter, refill, events>>
           Same == (pc = "restored" \/ pc = "boot" <=> pc' = "restored" \/ pc' = "boot")
                   /\ (pc = pc' \/ pc \in {"boot", "restored"})
<1>1. /\ Left /\ (batch # <<>> => Len(Tail(batch)) = n - 1)
      /\ pc \in {"boot", "restored"} => n = 0
  <2>1. batch \in Seq(Event) /\ batch' \in Seq(Event)
    BY DEF Core, ReplyTypes
  <2>2. pc \in {"boot", "restored"} => batch = <<>>
    BY DEF Core, Control
  <2> QED BY <2>1, <2>2, LenFacts
<1>2. ASSUME Same, Still, n = m PROVE UNCHANGED Loop!loopVars
  BY <1>2 DEF Loop!loopVars
<1>3. CASE Start
  <2>1. Loop!Begin
    BY <1>3 DEF Start, GoTo, Loop!Begin, venueVars
  <2> QED BY <2>1 DEF Loop!LoopNext, Loop!LoopStep
<1>4. CASE Return
  <2>1. Loop!ComesBack
    BY <1>4 DEF Return, Loop!ComesBack, Loop!Inside, Callbacks, venueVars
  <2> QED BY <2>1 DEF Loop!LoopNext, Loop!LoopStep
<1>5. CASE Fail
  <2>1. Loop!Breaks
    BY <1>5 DEF Fail, GoTo, Loop!Breaks, Loop!Inside, Callbacks, venueVars
  <2> QED BY <2>1 DEF Loop!LoopNext
<1>6. CASE Drain
  <2>1. CASE iter < MaxCascade
    <3>1. Loop!DrainTurn
      <4>1. /\ pc = "drain"
            /\ batch' # <<>> => pc' = "apply"
            /\ batch' = <<>> => pc' = IF ret = "start" THEN "next" ELSE "flush"
            /\ iter' = iter + 1 /\ UNCHANGED <<ret, refill, events>>
        BY <1>6, <2>1, RuntimeAssumption DEF Drain
      <4> QED BY <1>1, <2>1, <4>1 DEF Loop!DrainTurn, Loop!Ask
    <3> QED BY <3>1 DEF Loop!LoopNext, Loop!LoopStep
  <2>2. CASE ~(iter < MaxCascade)
    <3>1. Loop!DrainExceeded
      BY <1>6, <2>2 DEF Drain, GoTo, Loop!DrainExceeded, venueVars
    <3> QED BY <3>1 DEF Loop!LoopNext, Loop!LoopStep
  <2> QED BY <2>1, <2>2
<1>7. ASSUME NEW e \in FeedEvents, Observe(e) PROVE Loop!LoopNext
  <2>1. Loop!Reads
    BY <1>7 DEF Observe, GoTo, VSync, NoReply, Loop!Reads
  <2> QED BY <2>1 DEF Loop!LoopNext, Loop!LoopStep
<1>8. CASE MatchResting
  <2>1. Loop!Match
    BY <1>1, <1>8 DEF MatchResting, Loop!Match, Loop!Ask
  <2> QED BY <2>1 DEF Loop!LoopNext, Loop!LoopStep
<1>9. CASE SettleCascade
  <2>1. refill' => batch' # <<>>
    <3>1. DOMAIN <<>> = {}
      OBVIOUS
    <3>2. refill' => DOMAIN batch' # {}
      BY <1>9 DEF SettleCascade
    <3> QED BY <3>1, <3>2
  <2>2. refill' \in BOOLEAN
    BY <1>9 DEF SettleCascade
  <2>3. Loop!Settles
    BY <1>1, <1>9, <2>1, <2>2 DEF SettleCascade, Loop!Settles, Loop!Ask
  <2> QED BY <2>3 DEF Loop!LoopNext, Loop!LoopStep
<1>10. CASE Eof
  <2>1. Loop!TapeEnds
    BY <1>10 DEF Eof, GoTo, Loop!TapeEnds, venueVars
  <2> QED BY <2>1 DEF Loop!LoopNext, Loop!LoopStep
<1>11. CASE FlushTail
  <2>1. Loop!Flushes
    BY <1>1, <1>11 DEF FlushTail, GoTo, Loop!Flushes, Loop!Ask
  <2> QED BY <2>1 DEF Loop!LoopNext, Loop!LoopStep
<1>12. CASE ApplyEvent
  <2>1. Loop!ApplyOne
    BY <1>1, <1>12 DEF ApplyEvent, GoTo, Loop!ApplyOne
  <2> QED BY <2>1 DEF Loop!LoopNext, Loop!LoopStep
<1>13. CASE Applied
  <2>1. Loop!TurnOver
    BY <1>1, <1>13 DEF Applied, Loop!TurnOver, venueVars
  <2> QED BY <2>1 DEF Loop!LoopNext, Loop!LoopStep
<1>14. CASE Restart
  <2>1. Loop!BootAgain
    BY <1>1, <1>14 DEF Restart, Loop!BootAgain
  <2> QED BY <2>1 DEF Loop!LoopNext
<1>15. CASE Restore
  BY <1>2, <1>15 DEF Restore, GoTo, venueVars
<1>16. CASE Reconcile
  BY <1>2, <1>16 DEF Reconcile, VAdopt, NoReply
<1>17. ASSUME NEW o \in Requests, Submit(o) \/ SubmitRefused(o)
       PROVE  UNCHANGED Loop!loopVars
  BY <1>2, <1>17 DEF Submit, SubmitRefused, VEnqueue, NoReply, venueVars, control
<1>18. ASSUME NEW i \in Ids, CancelOrder(i) PROVE UNCHANGED Loop!loopVars
  BY <1>2, <1>18 DEF CancelOrder, VCancel, NoReply, control
<1>19. CASE Operator
  BY <1>2, <1>19 DEF Operator, venueVars, control
<1>20. CASE UNCHANGED rvars
  BY <1>2, <1>20 DEF rvars, venueVars, control
<1> QED BY <1>3, <1>4, <1>5, <1>6, <1>7, <1>8, <1>9, <1>10, <1>11, <1>12, <1>13, <1>14,
           <1>15, <1>16, <1>17, <1>18, <1>19, <1>20 DEF RNext, Step

\* ImplementsLoop: whatever the strategy and the venue do, a run takes no turn of
\* cascade, drain or apply that RunLoop does not take (strategy.go, Run).
THEOREM LoopImplementation == RSpec => ImplementsLoop
<1>1. RInit => Loop!LoopInit
  BY LenFacts DEF RInit, VInit, Loop!LoopInit
<1> QED BY <1>1, InitCore, NextCore, NextLoop, PTL DEF RSpec, ImplementsLoop, Loop!LoopMoves

-----------------------------------------------------------------------------
(* The end of a run.                                                       *)

EndInv == ret = "flush" => outbox = <<>> /\ In("delayed") \cup In("inbox") \subseteq late

\* Nothing but the flush starts the final apply.
LEMMA FlushBegins ==
    ASSUME Core, [RNext]_rvars, ret' = "flush"
    PROVE  FlushTail \/ ret = "flush"
<1>0. pc \in Where
  BY DEF Core, RunTypes
<1>1. CASE Start \/ Fail \/ Eof \/ ApplyEvent \/ Restore \/ Restart \/ Reconcile \/ Drain \/ Applied
  BY <1>1 DEF Start, Fail, Eof, ApplyEvent, Restore, Restart, Reconcile, Drain, Applied
<1>2. CASE Return
  BY <1>2 DEF Return
<1>3. CASE MatchResting \/ SettleCascade
  BY <1>3 DEF MatchResting, SettleCascade
<1>4. CASE Operator \/ UNCHANGED rvars \/ \E o \in Requests : Submit(o) \/ SubmitRefused(o)
  BY <1>4 DEF Operator, SubmitRefused, Submit, rvars, control
<1>5. CASE \E i \in Ids : CancelOrder(i)
  BY <1>5 DEF CancelOrder, control
<1>6. CASE \E e \in FeedEvents : Observe(e)
  BY <1>6 DEF Observe
<1> QED BY <1>1, <1>2, <1>3, <1>4, <1>5, <1>6 DEF RNext, Step

LEMMA NextEnd == Core /\ EndInv /\ [RNext]_rvars => EndInv'
<1> SUFFICES ASSUME Core, EndInv, [RNext]_rvars, ret' = "flush"
             PROVE  /\ outbox' = <<>>
                    /\ \A i \in Ids : place'[i] \in {"delayed", "inbox"} => i \in late'
  BY DEF EndInv, In
<1> DEFINE Goal == /\ outbox' = <<>>
                   /\ \A i \in Ids : place'[i] \in {"delayed", "inbox"} => i \in late'
<1>0. TypeOK /\ Control /\ Core'
  BY NextCore DEF Core
<1>1. CASE FlushTail
  <2>1. outbox' = <<>>
    BY <1>1, FlushedFacts
  <2> DEFINE D == In("inbox") \cup In("delayed")
  <2>2. SettleInbox(D, now) /\ D \in SUBSET Ids
    BY <1>1 DEF FlushTail, VFlush, Flush, In
  <2>3. \A i \in Ids : place[i] \in {"delayed", "inbox"} => i \in D
    BY DEF In
  <2> HIDE DEF D
  <2>4. ASSUME NEW i \in Ids PROVE place'[i] \notin {"delayed", "inbox"}
    <3>1. CASE i \in D
      BY <1>0, <2>2, <3>1, Settled
    <3>2. CASE i \notin D
      BY <1>0, <2>2, <2>3, <3>2, NotSettled
    <3> QED BY <3>1, <3>2
  <2> QED BY <2>1, <2>4
<1>2. CASE ret = "flush"
  <2>1. /\ outbox = <<>> /\ pc \in {"apply", "order", "done", "failed"} /\ flushed
        /\ \A i \in Ids : place[i] \in {"delayed", "inbox"} => i \in late
    BY <1>0, <1>2 DEF EndInv, In, Control
  <2>2. CASE UNCHANGED venueVars /\ Beside
    BY <2>1, <2>2 DEF venueVars, vars, Beside
  <2>3. ASSUME NEW o \in Requests, Submit(o) PROVE Goal
    <3>1. late' = late \cup {nextID'} /\ outbox' = outbox
      BY <1>2, <2>3 DEF Submit, VEnqueue, NoReply
    <3>2. \A i \in Ids : i # nextID' => place'[i] = place[i]
      BY <2>3, Requested
    <3> QED BY <2>1, <3>1, <3>2
  <2>4. ASSUME NEW i \in Ids, CancelOrder(i) PROVE Goal
    <3>1. late' = late /\ outbox' = outbox /\ place' = [place EXCEPT ![i] = "canceled"]
      BY <2>4 DEF CancelOrder, control, VCancel, Cancel, NoReply
    <3>2. place \in [Ids -> Places]
      BY <1>0 DEF TypeOK
    <3> QED BY <2>1, <3>1, <3>2
  <2>5. ASSUME NEW e \in FeedEvents, Observe(e) PROVE Goal
    BY <2>1, <2>5 DEF Observe
  <2>6. CASE CallStep
    BY <2>1, <2>6 DEF CallStep
  <2>7. CASE ApplyEvent
    BY <2>1, <2>7 DEF ApplyEvent, vars
  <2>8. CASE Restart \/ Restore \/ Reconcile
    BY <2>1, <2>8 DEF Restart, Restore, Reconcile
  <2> QED BY <1>1, <2>2, <2>3, <2>4, <2>5, <2>6, <2>7, <2>8, Kinds
<1> QED BY <1>1, <1>2, FlushBegins

\* ResolvedAtEnd: when Run has returned, no event is undelivered and only orders
\* that a callback of the final flush submitted are unsettled (strategy.go, Run).
THEOREM ResolvedHolds == RSpec => []ResolvedAtEnd
<1>1. RInit => EndInv
  BY DEF RInit, EndInv
<1>2. Core /\ EndInv => ResolvedAtEnd
  BY DEF Core, Control, EndInv, ResolvedAtEnd
<1> QED BY <1>1, <1>2, InitCore, NextCore, NextEnd, PTL DEF RSpec

-----------------------------------------------------------------------------
(* The books and the log.                                                  *)

BooksInv ==
    LET ps == OfKind("position") IN
    /\ session = 1 \/ pc # "boot" => books = BooksAfter(LoggedFills)
    /\ ps # <<>> => Last(ps).pos = BooksAfter(LoggedFills).pos

LEMMA InitBooks == RInit => BooksInv
<1> SUFFICES ASSUME RInit PROVE BooksInv
  OBVIOUS
<1>1. log = <<>> /\ books = EmptyBooks /\ log \in Seq(LogRec)
  BY DEF RInit, StoreInit
<1>2. LoggedFills = <<>> /\ OfKind("position") = <<>>
  <2>1. Kept(<<>>, OfKindIn("fill")) = <<>> /\ Kept(<<>>, OfKindIn("position")) = <<>>
    BY KeptEmpty
  <2>2. FillsOf(<<>>) = <<>>
    BY <2>1 DEF FillsOf
  <2> QED BY <1>1, <2>1, <2>2, Readers
<1> QED BY <1>1, <1>2, BooksAfterNone DEF BooksInv

\* A later process leaves its start by Restore only.
LEMMA BootsByRestore ==
    ASSUME Core, [RNext]_rvars, pc = "boot", pc' # "boot"
    PROVE  session = 1 \/ Restore
<1>0. Control /\ session \in Nat \ {0}
  BY DEF Core, RunTypes
<1>1. CASE Start
  BY <1>0, <1>1 DEF Start, Control
<1>2. CASE Return \/ Fail \/ Drain \/ Eof \/ FlushTail \/ ApplyEvent \/ Applied
  BY <1>2 DEF Return, Fail, Drain, Eof, FlushTail, ApplyEvent, Applied, Callbacks
<1>3. CASE MatchResting \/ SettleCascade \/ Restart \/ Reconcile
  BY <1>3 DEF MatchResting, SettleCascade, Restart, Reconcile
<1>4. CASE Operator \/ UNCHANGED rvars \/ \E o \in Requests : Submit(o) \/ SubmitRefused(o)
  BY <1>4 DEF Operator, SubmitRefused, Submit, rvars, control
<1>5. CASE \E i \in Ids : CancelOrder(i)
  BY <1>5 DEF CancelOrder, control
<1>6. CASE \E e \in FeedEvents : Observe(e)
  BY <1>6 DEF Observe
<1> QED BY <1>1, <1>2, <1>3, <1>4, <1>5, <1>6 DEF RNext, Step

LEMMA NextBooks == Core /\ BooksInv /\ [RNext]_rvars => BooksInv'
<1> SUFFICES ASSUME Core, BooksInv, [RNext]_rvars
             PROVE  BooksInv'
  OBVIOUS
<1> DEFINE Read == LoggedFills' = LoggedFills /\ OfKind("position")' = OfKind("position")
<1>0. Control /\ RunTypes /\ LoggedFills \in Seq(FillRec) /\ OfKind("position") \in Seq(LogRec)
      /\ session \in Nat \ {0}
  BY OfKindFacts DEF Core, RunTypes
<1>1. ASSUME Read, books' = books, session' = session
      PROVE  BooksInv'
  <2>1. CASE Restore
    <3>1. books' = BooksAfter(LoggedFills)
      BY <2>1 DEF Restore
    <3> QED BY <1>1, <3>1 DEF BooksInv
  <2>2. CASE ~Restore
    <3>1. session = 1 \/ pc' # "boot" => session = 1 \/ pc # "boot"
      BY <2>2, BootsByRestore
    <3> QED BY <1>1, <3>1 DEF BooksInv
  <2> QED BY <2>1, <2>2
<1>2. CASE log' = log
  <2>1. Read
    BY <1>0, <1>2, Readers, ReadersNext DEF RunTypes
  <2>2. CASE UNCHANGED <<books, session>>
    BY <1>1, <2>1, <2>2
  <2>3. CASE Restore
    BY <2>1, <2>3 DEF Restore, BooksInv
  <2>4. CASE Restart
    <3>1. session' # 1 /\ pc' = "boot"
      BY <1>0, <2>4 DEF Restart
    <3> QED BY <2>1, <3>1 DEF BooksInv
  <2>5. UNCHANGED <<books, session>> \/ Restore \/ Restart
    <3>1. CASE ApplyEvent
      <4>1. CASE Head(batch).status = "filled"
        <5>1. LoggedFills' = Append(LoggedFills, FillOf(Head(batch)))
          BY <3>1, <4>1, AppliedFill
        <5>2. Len(LoggedFills') = Len(LoggedFills) + 1 /\ Len(LoggedFills) \in Nat
          BY <1>0, <5>1
        <5> QED BY <2>1, <5>2
      <4>2. CASE Head(batch).status # "filled"
        BY <3>1, <4>2, AppliedReject DEF ApplyEvent
      <4> QED BY <4>1, <4>2
    <3>2. CASE CallStep \/ FlushTail \/ Reconcile \/ Beside
      BY <3>2 DEF CallStep, FlushTail, Reconcile, Beside
    <3>3. CASE \E o \in Requests : Submit(o)
      BY <3>3 DEF Submit
    <3>4. CASE \E i \in Ids : CancelOrder(i)
      BY <3>4 DEF CancelOrder, control
    <3>5. CASE \E e \in FeedEvents : Observe(e)
      BY <3>5 DEF Observe
    <3> QED BY <3>1, <3>2, <3>3, <3>4, <3>5, Kinds
  <2> QED BY <2>2, <2>3, <2>4, <2>5
<1>3. ASSUME NEW o \in Requests, Submit(o) PROVE BooksInv'
  <2>1. Read
    BY <1>3, Requested
  <2>2. UNCHANGED <<books, session>>
    BY <1>3 DEF Submit
  <2> QED BY <1>1, <2>1, <2>2
<1>4. ASSUME NEW i \in Ids, CancelOrder(i) PROVE BooksInv'
  <2>1. Read
    BY <1>4, Canceled
  <2>2. UNCHANGED <<books, session>>
    BY <1>4 DEF CancelOrder, control
  <2> QED BY <1>1, <2>1, <2>2
<1>5. CASE ApplyEvent /\ Head(batch).status # "filled"
  <2>1. Read /\ books' = books
    BY <1>5, AppliedReject
  <2>2. session' = session
    BY <1>5 DEF ApplyEvent
  <2> QED BY <1>1, <2>1, <2>2
<1>6. CASE ApplyEvent /\ Head(batch).status = "filled"
  <2> DEFINE f == FillOf(Head(batch))
  <2>1. PICK ts \in 0..MaxTs :
           /\ f \in FillRec /\ books' = Book(books, f)
           /\ LoggedFills' = Append(LoggedFills, f)
           /\ OfKind("position")' = Append(OfKind("position"), PositionRecord(ts, books'.pos))
           /\ PositionRecord(ts, books'.pos) \in LogRec
    BY <1>6, AppliedFill
  <2> HIDE DEF f
  <2>2. books = BooksAfter(LoggedFills)
    BY <1>6 DEF ApplyEvent, BooksInv
  <2>3. books' = BooksAfter(LoggedFills')
    BY <1>0, <2>1, <2>2, BooksAfterAppend
  <2> DEFINE p == PositionRecord(ts, books'.pos)
             q == OfKind("position")
  <2>4. p.pos = books'.pos
    BY DEF PositionRecord
  <2>5. Last(Append(q, p)) = p
    <3> HIDE DEF p, q
    <3>1. q \in Seq(LogRec) /\ p \in LogRec
      BY <1>0, <2>1 DEF p, q
    <3>2. Len(Append(q, p)) = Len(q) + 1 /\ Append(q, p)[Len(q) + 1] = p
      BY <3>1
    <3> QED BY <3>2 DEF Last
  <2>6. Last(OfKind("position")').pos = books'.pos
    BY <2>1, <2>4, <2>5
  <2> HIDE DEF p, q
  <2> QED BY <2>3, <2>6 DEF BooksInv
<1>7. log' = log \/ (\E o \in Requests : Submit(o)) \/ (\E i \in Ids : CancelOrder(i)) \/ ApplyEvent
  <2>1. CASE CallStep \/ FlushTail \/ Reconcile \/ Beside \/ Restart \/ Restore
    BY <2>1 DEF CallStep, FlushTail, Reconcile, Beside, Restart, Restore
  <2>2. CASE \E e \in FeedEvents : Observe(e)
    BY <2>2 DEF Observe
  <2> QED BY <2>1, <2>2, Kinds
<1> QED BY <1>2, <1>3, <1>4, <1>5, <1>6, <1>7

\* BooksFromLog: whenever a strategy runs, in the first process or a later one,
\* the books it reads are those its log replays to, whatever was filled, in
\* whatever order, and however often the process started again.
THEOREM BooksHold == RSpec => []BooksFromLog
<1>1. BooksInv => BooksFromLog
  BY DEF BooksInv, BooksFromLog
<1> QED BY <1>1, InitCore, NextCore, InitBooks, NextBooks, PTL DEF RSpec

-----------------------------------------------------------------------------
(* The events in flight, whatever the step.                                *)

Carry == \A e \in InFlight : e.status = "rejected" => e.qty = 0

LEMMA InFlightTypes ==
    ASSUME ReplyTypes
    PROVE  /\ InFlight \subseteq Event
           /\ batch # <<>> => Head(batch) \in InFlight
<1>1. batch \in Seq(Event) /\ outbox \in Seq(HeldRec)
  BY DEF ReplyTypes
<1>2. Elements(batch) \subseteq Event /\ Elements(outbox) \subseteq HeldRec
  BY <1>1, ElementsType
<1>3. \A h \in HeldRec : h.ev \in Event
  BY DEF HeldRec
<1>4. batch # <<>> => Head(batch) \in Elements(batch)
  BY <1>1, ElementsTail
<1> QED BY <1>2, <1>3, <1>4 DEF InFlight

\* An event in flight was, or the call that was made answered it; and one that
\* was stays until it is applied or its process ends.
LEMMA InFlightNext ==
    ASSUME Core, [RNext]_rvars
    PROVE  /\ InFlight' \subseteq InFlight \/ (InFlight' \subseteq InFlight \cup raw' /\ Answers)
           /\ InFlight \subseteq InFlight' \/ Restart
              \/ (ApplyEvent /\ InFlight \subseteq InFlight' \cup {Head(batch)})
           /\ CallStep \/ FlushTail => raw' \subseteq InFlight' /\ Answers
<1>0. ReplyTypes
  BY DEF Core
<1>1. ASSUME NoReply PROVE InFlight' = InFlight
  <2>1. batch' = batch /\ outbox' = outbox
    BY <1>1 DEF NoReply
  <2> QED BY <2>1 DEF InFlight
<1>2. CASE CallStep
  <2>1. PICK ts \in Stamps : Called(ts) /\ batch = <<>>
    BY <1>2 DEF CallStep
  <2>2. Carried(ts) /\ Answers
    BY <2>1, CalledFacts
  <2>3. Elements(batch) = {}
    BY <2>1, ElementsEmpty
  <2>4. InFlight' \subseteq InFlight \cup raw'
    BY <2>2 DEF Carried, InFlight
  <2>5. InFlight \subseteq InFlight' /\ raw' \subseteq InFlight'
    BY <2>2, <2>3 DEF Carried, InFlight
  <2> QED BY <2>2, <2>4, <2>5
<1>3. CASE FlushTail /\ batch = <<>>
  <2>1. /\ Elements(batch') = raw' \cup {h.ev : h \in Elements(outbox)}
        /\ Elements(outbox') = {} /\ Answers
    BY <1>3, FlushedFacts
  <2>2. Elements(batch) = {}
    BY <1>3, ElementsEmpty
  <2>3. InFlight' = raw' \cup {h.ev : h \in Elements(outbox)}
    BY <2>1 DEF InFlight
  <2>4. InFlight = {h.ev : h \in Elements(outbox)}
    BY <2>2 DEF InFlight
  <2> QED BY <2>1, <2>3, <2>4
<1>4. CASE ApplyEvent
  <2>1. batch' = Tail(batch) /\ outbox' = outbox /\ batch # <<>> /\ pc = "apply" /\ pc' = "order"
    BY <1>4 DEF ApplyEvent, GoTo
  <2>2. Elements(batch) = {Head(batch)} \cup Elements(Tail(batch))
    BY <1>0, <2>1, ElementsTail DEF ReplyTypes
  <2>3. InFlight' = Elements(Tail(batch)) \cup {h.ev : h \in Elements(outbox)}
    BY <2>1 DEF InFlight
  <2>4. ~CallStep /\ ~FlushTail
    BY <2>1 DEF CallStep, FlushTail
  <2> QED BY <1>4, <2>2, <2>3, <2>4 DEF InFlight
<1>5. CASE Restart
  <2>1. batch' = <<>> /\ outbox' = <<>>
    BY <1>5 DEF Restart
  <2>2. InFlight' = {}
    BY <2>1, ElementsEmpty DEF InFlight
  <2>3. CallStep => FALSE
    <3>1. session' = session + 1 /\ session \in Nat
      BY <1>5 DEF Restart, Core, RunTypes
    <3> QED BY <3>1 DEF CallStep, Beside
  <2>4. ~FlushTail
    BY <1>5 DEF Restart, FlushTail
  <2> QED BY <1>5, <2>2, <2>3, <2>4
<1>6. CASE NoReply /\ ~CallStep /\ ~FlushTail
  BY <1>1, <1>6
<1>7. UNCHANGED venueVars /\ Beside => NoReply
  BY DEF NoReply, venueVars
<1>8. (\E o \in Requests : Submit(o)) => NoReply
  BY DEF Submit, VEnqueue
<1>9. (\E i \in Ids : CancelOrder(i)) => NoReply
  BY DEF CancelOrder, VCancel
<1>10. (\E e \in FeedEvents : Observe(e)) => NoReply
  BY DEF Observe, VSync
<1>11. Restore => NoReply
  BY DEF Restore, NoReply, venueVars
<1>12. Reconcile => NoReply
  BY Reconciled
<1>13. FlushTail => batch = <<>>
  BY DEF FlushTail, Core, Control
<1> QED BY <1>2, <1>3, <1>4, <1>5, <1>6, <1>7, <1>8, <1>9, <1>10, <1>11, <1>12, <1>13, Kinds

LEMMA NextCarry == Core /\ Carry /\ [RNext]_rvars => Carry'
<1> SUFFICES ASSUME Core, Carry, [RNext]_rvars, NEW e \in InFlight', e.status = "rejected"
             PROVE  e.qty = 0
  BY DEF Carry
<1>1. e \in InFlight \/ (e \in raw' /\ Answers)
  BY InFlightNext
<1> QED BY <1>1 DEF Carry, Answers

LEMMA InitCarry == RInit => Carry
<1> SUFFICES ASSUME RInit PROVE InFlight = {}
  BY DEF Carry
<1>1. batch = <<>> /\ outbox = <<>>
  BY DEF RInit, VInit, Init
<1> QED BY <1>1, ElementsEmpty DEF InFlight

-----------------------------------------------------------------------------
(* Ids.                                                                    *)

\* The log has accepted order i.
Known(i) == \E r \in Elements(log) : r \in AcceptsIn /\ r.id = i

IdInv ==
    /\ session = 1 \/ reconciled => \A r \in Elements(log) : r.id <= nextID
    /\ session > 1 /\ ~reconciled => /\ \A r \in Elements(log) : r.id <= exchange.lastID
                                     /\ \A i \in exchange.working : Known(i)
    /\ \A i \in Ids : place[i] \in Held => Known(i)
    /\ \A e \in InFlight : Known(e.id)

LEMMA KnownKept ==
    ASSUME log' = log \/ \E r : Elements(log') = Elements(log) \cup {r}
                      \/ \E s, t : Elements(log') = Elements(log) \cup {s, t}
    PROVE  \A i : Known(i) => Known(i)'
  BY DEF Known

\* What a record adds to the log, by its step.
LEMMA LogGrows ==
    ASSUME Core, [RNext]_rvars
    PROVE  \/ log' = log /\ ~ApplyEvent
           \/ \E o \in Requests : Submit(o) /\ Elements(log') = Elements(log) \cup {OrderRecord(ns, nextID', o, "accepted")}
           \/ \E i \in Ids : CancelOrder(i) /\ Elements(log') = Elements(log) \cup {OrderRecord(ns, i, NoOrder, "canceled")}
           \/ ApplyEvent /\ Head(batch).status = "rejected"
              /\ \E o \in OrderRec : Elements(log') = Elements(log) \cup {OrderRecord(ns, Head(batch).id, o, "rejected")}
           \/ ApplyEvent /\ Head(batch).status = "filled"
              /\ \E ts \in 0..MaxTs, f \in FillRec, p \in PosRec :
                    Elements(log') = Elements(log) \cup {FillRecord(ts, Head(batch).id, f), PositionRecord(ts, p)}
<1>0. log \in Seq(LogRec) /\ TypeOK /\ ReplyTypes
  BY DEF Core, RunTypes
<1>1. ASSUME NEW o \in Requests, Submit(o)
      PROVE  Elements(log') = Elements(log) \cup {OrderRecord(ns, nextID', o, "accepted")}
  <2> DEFINE r == OrderRecord(ns, nextID', o, "accepted")
  <2>1. log' = Append(log, r) /\ r \in LogRec
    BY <1>1, Requested
  <2> HIDE DEF r
  <2> QED BY <1>0, <2>1, ElementsAppend DEF r
<1>2. ASSUME NEW i \in Ids, CancelOrder(i)
      PROVE  Elements(log') = Elements(log) \cup {OrderRecord(ns, i, NoOrder, "canceled")}
  <2> DEFINE r == OrderRecord(ns, i, NoOrder, "canceled")
  <2>1. log' = Append(log, r) /\ r \in LogRec
    BY <1>2, Canceled
  <2> HIDE DEF r
  <2> QED BY <1>0, <2>1, ElementsAppend DEF r
<1>3. ASSUME ApplyEvent, Head(batch).status # "filled"
      PROVE  /\ Head(batch).status = "rejected"
             /\ \E o \in OrderRec :
                   Elements(log') = Elements(log) \cup {OrderRecord(ns, Head(batch).id, o, "rejected")}
  <2> DEFINE e == Head(batch)
             r == OrderRecord(ns, e.id, order[e.id], "rejected")
  <2>1. log' = Append(log, r) /\ r \in LogRec /\ e \in Event /\ e.status = "rejected"
    BY <1>3, AppliedReject
  <2>2. order[e.id] \in OrderRec
    BY <1>0, <2>1, EventFacts DEF TypeOK
  <2>3. Elements(log') = Elements(log) \cup {r}
    <3> HIDE DEF r
    <3> QED BY <1>0, <2>1, ElementsAppend
  <2> QED BY <2>1, <2>2, <2>3
<1>4. ASSUME ApplyEvent, Head(batch).status = "filled"
      PROVE  \E ts \in 0..MaxTs, f \in FillRec, p \in PosRec :
                Elements(log') = Elements(log) \cup {FillRecord(ts, Head(batch).id, f), PositionRecord(ts, p)}
  <2>1. PICK ts \in 0..MaxTs :
           /\ FillOf(Head(batch)) \in FillRec /\ books' \in BooksRec
           /\ log' = Append(Append(log, FillRecord(ts, Head(batch).id, FillOf(Head(batch)))),
                            PositionRecord(ts, books'.pos))
           /\ FillRecord(ts, Head(batch).id, FillOf(Head(batch))) \in LogRec
           /\ PositionRecord(ts, books'.pos) \in LogRec
    BY <1>4, AppliedFill
  <2> DEFINE r == FillRecord(ts, Head(batch).id, FillOf(Head(batch)))
             s == PositionRecord(ts, books'.pos)
             w == Append(log, r)
  <2>2. Elements(log') = Elements(log) \cup {r, s}
    <3>1. r \in LogRec /\ s \in LogRec /\ log' = Append(w, s)
      BY <2>1
    <3> HIDE DEF r, s
    <3>2. w \in Seq(LogRec) /\ Elements(w) = Elements(log) \cup {r}
      BY <1>0, <3>1, ElementsAppend
    <3> HIDE DEF w
    <3>3. Elements(log') = Elements(w) \cup {s}
      BY <3>1, <3>2, ElementsAppend
    <3> QED BY <3>2, <3>3
  <2>3. books'.pos \in PosRec
    BY <2>1 DEF BooksRec
  <2> HIDE DEF r, s
  <2> QED BY <2>1, <2>2, <2>3 DEF r, s
<1>5. CASE UNCHANGED venueVars /\ Beside
  <2>1. log' = log /\ batch' = batch
    BY <1>5 DEF Beside, venueVars
  <2>2. ApplyEvent => FALSE
    <3>1. ASSUME ApplyEvent PROVE FALSE
      <4>1. batch' = Tail(batch) /\ batch # <<>>
        BY <3>1 DEF ApplyEvent
      <4> QED BY <1>0, <2>1, <4>1 DEF ReplyTypes
    <3> QED BY <3>1
  <2> QED BY <2>1, <2>2
<1>6. CASE CallStep \/ FlushTail \/ Restart \/ Restore \/ Reconcile \/ \E e \in FeedEvents : Observe(e)
  <2>1. log' = log
    BY <1>6 DEF CallStep, Beside, FlushTail, Restart, Restore, Reconcile, Observe
  <2>2. ApplyEvent => pc = "apply" /\ batch # <<>> /\ pc' = "order"
    BY DEF ApplyEvent, GoTo
  <2>3. CallStep => batch = <<>>
    BY DEF CallStep
  <2>4. FlushTail \/ Restart \/ Restore \/ Reconcile \/ (\E e \in FeedEvents : Observe(e)) => pc # "apply"
    BY DEF FlushTail, Restart, Restore, Reconcile, Observe
  <2> QED BY <1>6, <2>1, <2>2, <2>3, <2>4
<1> QED BY <1>1, <1>2, <1>3, <1>4, <1>5, <1>6, Kinds

LEMMA RecordIds ==
    ASSUME NEW ts, NEW i
    PROVE  /\ \A o, st : OrderRecord(ts, i, o, st).id = i /\ OrderRecord(ts, i, o, st).kind = "order"
                         /\ OrderRecord(ts, i, o, st).status = st
           /\ \A f : FillRecord(ts, i, f).id = i /\ FillRecord(ts, i, f).kind = "fill"
           /\ \A p : PositionRecord(ts, p).id = 0 /\ PositionRecord(ts, p).kind = "position"
  BY DEF OrderRecord, FillRecord, PositionRecord

LEMMA LiveIsHeld == \A i \in Ids : i \in Live <=> place[i] \in Held
  BY DEF Live, In, Held

LEMMA LiveIsHeldNext == \A i \in Ids : i \in Live' <=> place'[i] \in Held
  BY DEF Live, In, Held

\* A process that has begun knows its last id; what any step leaves of it.
LEMMA IdBounds ==
    ASSUME Core, IdInv, [RNext]_rvars
    PROVE  /\ session' = 1 \/ reconciled' => \A r \in Elements(log') : r.id <= nextID'
           /\ session' > 1 /\ ~reconciled' => \A r \in Elements(log') : r.id <= exchange'.lastID
<1> DEFINE Goal == /\ session' = 1 \/ reconciled' => \A r \in Elements(log') : r.id <= nextID'
                   /\ session' > 1 /\ ~reconciled' => \A r \in Elements(log') : r.id <= exchange'.lastID
<1>0. /\ Control /\ RunTypes /\ TypeOK /\ ReplyTypes /\ nextID \in Nat /\ session \in Nat \ {0}
      /\ log \in Seq(LogRec) /\ Elements(log) \subseteq LogRec
  <2>1. nextID \in Nat
    BY MatchingAssumption DEF Core, TypeOK
  <2> QED BY <2>1, ElementsType DEF Core, RunTypes
<1>1. ASSUME log' = log, nextID' = nextID, UNCHANGED <<session, reconciled, exchange>> PROVE Goal
  BY <1>1 DEF IdInv
<1>2. ASSUME NEW i, Known(i), session = 1 \/ reconciled PROVE i <= nextID
  BY <1>2 DEF IdInv, Known
<1>3. pc \in Callbacks \cup {"apply", "done", "failed"} => session = 1 \/ reconciled
  BY <1>0 DEF Control, Callbacks, RunTypes
<1>4. ASSUME UNCHANGED <<session, reconciled, exchange>>, session = 1 \/ reconciled, nextID' >= nextID, nextID' \in Nat,
             \A r \in Elements(log') : r \in Elements(log) \/ r.id \in 0..nextID'
      PROVE  Goal
  <2>1. \A r \in Elements(log) : r.id \in Nat /\ r.id <= nextID
    BY <1>0, <1>4, LogRecFacts DEF IdInv
  <2>2. ASSUME NEW r \in Elements(log') PROVE r.id <= nextID'
    BY <1>0, <1>4, <2>1
  <2>3. session' = 1 \/ reconciled'
    BY <1>4
  <2> QED BY <1>0, <1>4, <2>2, <2>3
<1>5. ASSUME NEW o \in Requests, Submit(o),
             Elements(log') = Elements(log) \cup {OrderRecord(ns, nextID', o, "accepted")}
      PROVE  Goal
  <2>1. UNCHANGED <<session, reconciled, exchange>> /\ pc \in Callbacks
    BY <1>5 DEF Submit
  <2>2. nextID' = nextID + 1
    BY <1>5, Requested
  <2> QED BY <1>0, <1>3, <1>4, <1>5, <2>1, <2>2, RecordIds
<1>6. ASSUME NEW i \in Ids, CancelOrder(i),
             Elements(log') = Elements(log) \cup {OrderRecord(ns, i, NoOrder, "canceled")}
      PROVE  Goal
  <2>1. UNCHANGED <<session, reconciled, exchange, nextID>> /\ pc \in Callbacks /\ i \in Live
    BY <1>6 DEF CancelOrder, control, VCancel, Cancel
  <2>2. i <= nextID
    BY <1>2, <1>3, <2>1, LiveIsHeld DEF IdInv
  <2>3. i \in 0..nextID
    BY <1>0, <2>2, MatchingAssumption DEF Ids
  <2> QED BY <1>0, <1>3, <1>4, <1>6, <2>1, <2>3, RecordIds
<1>7. ASSUME ApplyEvent,
             \/ \E o \in OrderRec : Elements(log') = Elements(log) \cup {OrderRecord(ns, Head(batch).id, o, "rejected")}
             \/ \E ts \in 0..MaxTs, f \in FillRec, p \in PosRec :
                   Elements(log') = Elements(log) \cup {FillRecord(ts, Head(batch).id, f), PositionRecord(ts, p)}
      PROVE  Goal
  <2>1. UNCHANGED <<session, reconciled, exchange, nextID>> /\ pc = "apply" /\ batch # <<>>
    BY <1>7 DEF ApplyEvent, vars
  <2>2. Head(batch) \in InFlight /\ Head(batch) \in Event
    BY <1>0, <2>1, InFlightTypes
  <2>3. Head(batch).id <= nextID
    BY <1>2, <1>3, <2>1, <2>2 DEF IdInv
  <2>4. Head(batch).id \in 0..nextID /\ 0 \in 0..nextID
    BY <1>0, <2>2, <2>3, EventFacts, MatchingAssumption DEF Ids
  <2>5. \A r \in Elements(log') : r \in Elements(log) \/ r.id \in 0..nextID
    BY <1>7, <2>4, RecordIds
  <2> QED BY <1>0, <1>3, <1>4, <2>1, <2>5
<1>8. CASE log' = log
  <2>1. CASE UNCHANGED venueVars /\ Beside
    BY <1>1, <1>8, <2>1 DEF venueVars, vars, Beside
  <2>2. CASE CallStep
    <3>1. nextID' = nextID
      BY <2>2, InFlightNext DEF Answers
    <3> QED BY <1>1, <1>8, <2>2, <3>1 DEF CallStep, Beside
  <2>3. CASE FlushTail
    <3>1. nextID' = nextID
      BY <2>3, InFlightNext DEF Answers
    <3> QED BY <1>1, <1>8, <2>3, <3>1 DEF FlushTail
  <2>4. CASE \E e \in FeedEvents : Observe(e)
    BY <1>1, <1>8, <2>4 DEF Observe, VSync, Sync
  <2>5. CASE Restart
    <3>1. /\ session' = session + 1 /\ ~reconciled' /\ exchange'.lastID = nextID
          /\ pc \in {"done", "failed"}
      BY <2>5 DEF Restart
    <3> QED BY <1>0, <1>3, <1>8, <3>1 DEF IdInv
  <2>6. CASE Restore
    BY <1>1, <1>8, <2>6 DEF Restore, venueVars, vars
  <2>7. CASE Reconcile
    <3>1. Adopt(Snap.working, order, Snap.lastID) /\ Snap.lastID \in 0..MaxOrders
      BY <2>7, Reconciled
    <3>2. pc = "restored" /\ ~reconciled /\ reconciled' /\ session > 1
      BY <1>0, <2>7 DEF Reconcile, Control
    <3>3. Snap.lastID <= nextID' /\ nextID' \in Nat
      <4>1. nextID' \in 0..MaxOrders
        BY NextTypes DEF TypeOK
      <4> QED BY <3>1, <4>1, MatchingAssumption DEF Adopt, AdoptOutcome
    <3>4. \A r \in Elements(log) : r.id <= Snap.lastID /\ r.id \in Nat
      <4>1. \A r \in Elements(log) : r.id <= LastID
        BY <1>0, LastIDFacts DEF Elements
      <4>2. \A r \in Elements(log) : r.id \in Nat
        BY <1>0, LogRecFacts
      <4>3. \A r \in Elements(log) : r.id <= exchange.lastID
        BY <3>2 DEF IdInv
      <4> QED BY <4>1, <4>2, <4>3 DEF Snap
    <3>5. Snap.lastID \in Nat
      BY <3>1
    <3>6. \A r \in Elements(log) : r.id <= nextID'
      BY <3>3, <3>4, <3>5
    <3> QED BY <1>8, <3>2, <3>6
  <2>8. CASE (\E o \in Requests : Submit(o)) \/ (\E i \in Ids : CancelOrder(i)) \/ ApplyEvent
    <3>1. ASSUME NEW r, log' = Append(log, r) PROVE FALSE
      <4>1. Len(log') = Len(log) + 1 /\ Len(log) \in Nat
        BY <1>0, <3>1
      <4> QED BY <1>8, <4>1
    <3>2. ~(\E o \in Requests : Submit(o)) /\ ~(\E i \in Ids : CancelOrder(i))
      BY <3>1, Requested, Canceled
    <3> QED BY <1>5, <1>6, <1>7, <2>8, <3>2, LogGrows
  <2> QED BY <2>1, <2>2, <2>3, <2>4, <2>5, <2>6, <2>7, <2>8, Kinds
<1> QED BY <1>5, <1>6, <1>7, <1>8, LogGrows

LEMMA NextIds == Core /\ IdInv /\ [RNext]_rvars => IdInv'
<1> SUFFICES ASSUME Core, IdInv, [RNext]_rvars
             PROVE  IdInv'
  OBVIOUS
<1>0. Control /\ RunTypes /\ TypeOK /\ ReplyTypes /\ session \in Nat \ {0} /\ log \in Seq(LogRec)
  BY DEF Core, RunTypes
<1>1. /\ session' = 1 \/ reconciled' => \A r \in Elements(log') : r.id <= nextID'
      /\ session' > 1 /\ ~reconciled' => \A r \in Elements(log') : r.id <= exchange'.lastID
  BY IdBounds
<1>2. \A i : Known(i) => Known(i)'
  BY LogGrows, KnownKept
<1>3. ASSUME NEW e \in InFlight' PROVE Known(e.id)'
  <2>1. CASE e \in InFlight
    BY <1>2, <2>1 DEF IdInv
  <2>2. CASE e \in raw' /\ Answers
    <3>1. place[e.id] \in Held /\ e.id \in Ids
      <4>1. raw' \subseteq Event
        BY NextTypes DEF TypeOK
      <4> QED BY <2>2, <4>1, EventFacts DEF Answers
    <3> QED BY <1>2, <3>1 DEF IdInv
  <2> QED BY <2>1, <2>2, InFlightNext
<1>4. ASSUME NEW i \in Ids, place'[i] \in Held PROVE Known(i)'
  <2>1. ASSUME place[i] \in Held PROVE Known(i)'
    BY <1>2, <2>1 DEF IdInv
  <2>2. CASE UNCHANGED venueVars \/ ApplyEvent \/ Restore
    BY <1>4, <2>1, <2>2 DEF venueVars, vars, ApplyEvent, Restore
  <2>3. CASE CallStep \/ FlushTail
    BY <1>4, <2>1, <2>3, InFlightNext DEF Answers
  <2>4. ASSUME NEW o \in Requests, Submit(o) PROVE Known(i)'
    <3>1. CASE i = nextID'
      <4> DEFINE r == OrderRecord(ns, nextID', o, "accepted")
      <4>1. log' = Append(log, r) /\ r \in LogRec
        BY <2>4, Requested
      <4>2. r.kind = "order" /\ r.status = "accepted" /\ r.id = i
        BY <3>1, RecordIds
      <4> HIDE DEF r
      <4>3. r \in Elements(log') /\ r \in AcceptsIn
        BY <1>0, <4>1, <4>2, ElementsAppend DEF AcceptsIn
      <4> QED BY <4>2, <4>3 DEF Known
    <3>2. CASE i # nextID'
      BY <1>4, <2>1, <2>4, <3>2, Requested
    <3> QED BY <3>1, <3>2
  <2>5. ASSUME NEW j \in Ids, CancelOrder(j) PROVE Known(i)'
    <3>1. place' = [place EXCEPT ![j] = "canceled"] /\ place \in [Ids -> Places]
      BY <1>0, <2>5 DEF CancelOrder, VCancel, Cancel, TypeOK
    <3> QED BY <1>4, <2>1, <3>1 DEF Held
  <2>6. ASSUME NEW e \in FeedEvents, Observe(e) PROVE Known(i)'
    BY <1>4, <2>1, <2>6 DEF Observe, VSync, Sync
  <2>7. CASE Restart
    <3>1. place' = [j \in Ids |-> IF j \in Live THEN "canceled" ELSE place[j]]
      BY <2>7 DEF Restart
    <3> QED BY <1>4, <2>1, <3>1 DEF Held
  <2>8. CASE Reconcile
    <3>1. Adopt(Snap.working, order, Snap.lastID)
      BY <2>8, Reconciled
    <3>2. pc = "restored" /\ ~reconciled /\ session > 1
      BY <1>0, <2>8 DEF Reconcile, Control
    <3>3. i \in Snap.working
      <4>1. place' = [j \in Ids |-> CASE j \in Limits(Snap.working, order) -> "working"
                                      [] j \in Snap.working \ Limits(Snap.working, order) -> "inbox"
                                      [] j \in Live \ Snap.working -> "canceled"
                                      [] OTHER -> place[j]]
        BY <3>1 DEF Adopt, AdoptOutcome
      <4>2. i \notin Snap.working => place'[i] = IF i \in Live THEN "canceled" ELSE place[i]
        BY <4>1 DEF Limits
      <4> QED BY <1>4, <4>2, LiveIsHeld DEF Held
    <3>4. Known(i)
      <4>1. CASE StoreSnapshot
        <5>1. i \in WorkingOrders
          BY <3>3, <4>1 DEF Snap
        <5>2. PICK n \in DOMAIN log : log[n].id = i /\ log[n].kind = "order" /\ log[n].status \in {"accepted"}
          BY <5>1 DEF WorkingOrders, Logged
        <5>3. log[n] \in AcceptsIn /\ log[n] \in Elements(log)
          BY <1>0, <5>2, LogElements DEF AcceptsIn, Elements
        <5> QED BY <5>2, <5>3 DEF Known
      <4>2. CASE ~StoreSnapshot
        BY <3>2, <3>3, <4>2 DEF Snap, IdInv
      <4> QED BY <4>1, <4>2
    <3> QED BY <1>2, <3>4
  <2> QED BY <2>2, <2>3, <2>4, <2>5, <2>6, <2>7, <2>8, Kinds
<1>5. ASSUME session' > 1, ~reconciled', NEW i \in exchange'.working PROVE Known(i)'
  <2>1. CASE Restart
    <3>1. exchange'.working = Live
      BY <2>1 DEF Restart
    <3>2. i \in Ids /\ place[i] \in Held
      BY <1>5, <3>1, LiveIsHeld DEF Live, In
    <3> QED BY <1>2, <3>2 DEF IdInv
  <2>2. CASE Reconcile
    BY <1>5, <2>2 DEF Reconcile
  <2>3. UNCHANGED <<session, reconciled, exchange>> \/ Restart \/ Reconcile
    <3>1. CASE CallStep \/ Beside \/ FlushTail \/ ApplyEvent \/ Restore
      BY <3>1 DEF CallStep, Beside, FlushTail, ApplyEvent, Restore
    <3>2. CASE \E o \in Requests : Submit(o)
      BY <3>2 DEF Submit
    <3>3. CASE \E j \in Ids : CancelOrder(j)
      BY <3>3 DEF CancelOrder, control
    <3>4. CASE \E e \in FeedEvents : Observe(e)
      BY <3>4 DEF Observe
    <3> QED BY <3>1, <3>2, <3>3, <3>4, Kinds
  <2> QED BY <1>2, <1>5, <2>1, <2>2, <2>3 DEF IdInv
<1> QED BY <1>1, <1>3, <1>4, <1>5 DEF IdInv

LEMMA InitIds == RInit => IdInv
<1> SUFFICES ASSUME RInit PROVE IdInv
  OBVIOUS
<1>1. log = <<>> /\ batch = <<>> /\ outbox = <<>> /\ session = 1
      /\ \A i \in Ids : place[i] = "none"
  BY DEF RInit, StoreInit, VInit, Init
<1>2. Elements(log) = {} /\ InFlight = {}
  BY <1>1, ElementsEmpty DEF InFlight
<1> QED BY <1>1, <1>2 DEF IdInv, Held

\* Every record of w is about an order that w has accepted before.
Backed(w) == \A n \in DOMAIN w : w[n].id # 0 =>
                \E m \in 1..n : w[m].kind = "order" /\ w[m].status = "accepted" /\ w[m].id = w[n].id

LEMMA BackedAppend ==
    ASSUME NEW w \in Seq(LogRec), NEW r \in LogRec, Backed(w),
           \/ r.id = 0
           \/ r \in AcceptsIn
           \/ \E s \in Elements(w) : s \in AcceptsIn /\ s.id = r.id
    PROVE  Backed(Append(w, r))
<1> DEFINE v == Append(w, r)
           l == Len(w)
<1>1. l \in Nat /\ DOMAIN w = 1..l /\ DOMAIN v = 1..(l + 1)
      /\ \A n \in 1..(l + 1) : v[n] = IF n = l + 1 THEN r ELSE w[n]
  BY AppendDef
<1> HIDE DEF v, l
<1>2. ASSUME NEW n \in 1..(l + 1), v[n].id # 0
      PROVE  \E m \in 1..n : v[m].kind = "order" /\ v[m].status = "accepted" /\ v[m].id = v[n].id
  <2>1. CASE n # l + 1
    <3>1. n \in 1..l /\ v[n] = w[n]
      BY <1>1, <2>1
    <3>2. PICK m \in 1..n : w[m].kind = "order" /\ w[m].status = "accepted" /\ w[m].id = w[n].id
      BY <1>1, <1>2, <3>1 DEF Backed
    <3>3. v[m] = w[m]
      BY <1>1, <3>1
    <3> QED BY <3>1, <3>2, <3>3
  <2>2. CASE n = l + 1 /\ r \in AcceptsIn
    <3>1. v[n] = r /\ n \in 1..n
      BY <1>1, <2>2
    <3> QED BY <2>2, <3>1 DEF AcceptsIn
  <2>3. CASE n = l + 1 /\ \E s \in Elements(w) : s \in AcceptsIn /\ s.id = r.id
    <3>1. PICK m \in DOMAIN w : w[m] \in AcceptsIn /\ w[m].id = r.id
      BY <2>3 DEF Elements
    <3>2. v[m] = w[m] /\ m \in 1..n /\ v[n] = r
      BY <1>1, <2>3, <3>1
    <3> QED BY <3>1, <3>2 DEF AcceptsIn
  <2> QED BY <1>1, <1>2, <2>1, <2>2, <2>3
<1>3. Backed(v)
  BY <1>1, <1>2 DEF Backed
<1> QED BY <1>3 DEF v

Distinct(w) == \A j, k \in DOMAIN w : j # k => w[j].id # w[k].id

LEMMA DistinctAppend ==
    ASSUME NEW w \in Seq(LogRec), NEW r \in LogRec, Distinct(w), \A n \in DOMAIN w : w[n].id # r.id
    PROVE  Distinct(Append(w, r))
<1> DEFINE v == Append(w, r)
           l == Len(w)
<1>1. l \in Nat /\ DOMAIN w = 1..l /\ DOMAIN v = 1..(l + 1)
      /\ \A n \in 1..(l + 1) : v[n] = IF n = l + 1 THEN r ELSE w[n]
  BY AppendDef
<1> HIDE DEF v, l
<1>2. \A n \in 1..(l + 1) : n # l + 1 => n \in 1..l
  BY <1>1
<1>3. Distinct(v)
  BY <1>1, <1>2 DEF Distinct
<1> QED BY <1>3 DEF v

LEMMA ReusedMeans ==
    ASSUME log \in Seq(LogRec)
    PROVE  IdsNeverReused <=> Distinct(Accepts) /\ Backed(log)
  BY DEF IdsNeverReused, Distinct, Backed

LEMMA NextNeverReused == Core /\ IdInv /\ IdsNeverReused /\ [RNext]_rvars => IdsNeverReused'
<1> SUFFICES ASSUME Core, IdInv, IdsNeverReused, [RNext]_rvars
             PROVE  Distinct(Accepts') /\ Backed(log')
  BY DEF IdsNeverReused, Distinct, Backed
<1>0. Control /\ RunTypes /\ TypeOK /\ ReplyTypes /\ log \in Seq(LogRec)
  BY DEF Core, RunTypes
<1>1. Accepts = Kept(log, AcceptsIn) /\ Accepts \in Seq(LogRec)
      /\ \A n \in DOMAIN Accepts : Accepts[n] \in Elements(log)
  <2>1. Accepts = Kept(log, AcceptsIn)
    BY <1>0, Readers
  <2>2. Kept(log, AcceptsIn) \in Seq(LogRec)
    BY <1>0, KeptFacts
  <2>3. Elements(Kept(log, AcceptsIn)) = Elements(log) \cap AcceptsIn
    BY <1>0, ElementsKept
  <2> QED BY <2>1, <2>2, <2>3 DEF Elements
<1>2. Distinct(Accepts) /\ Backed(log)
  BY <1>0, ReusedMeans
<1>3. CASE log' = log
  <2>1. Accepts' = Accepts
    BY <1>0, <1>3, Readers, ReadersNext
  <2> QED BY <1>2, <1>3, <2>1
<1>4. ASSUME NEW o \in Requests, Submit(o) PROVE Distinct(Accepts') /\ Backed(log')
  <2> DEFINE r == OrderRecord(ns, nextID', o, "accepted")
  <2>1. log' = Append(log, r) /\ r \in LogRec /\ Accepts' = Append(Accepts, r)
        /\ nextID' = nextID + 1 /\ nextID \in Nat
    BY <1>4, Requested
  <2>2. r.kind = "order" /\ r.status = "accepted" /\ r.id = nextID'
    BY RecordIds
  <2> HIDE DEF r
  <2>3. r \in AcceptsIn
    BY <2>1, <2>2 DEF AcceptsIn
  <2>4. session = 1 \/ reconciled
    BY <1>0, <1>4 DEF Submit, Control, Callbacks, RunTypes
  <2>5. \A n \in DOMAIN Accepts : Accepts[n].id # r.id
    <3>1. \A s \in Elements(log) : s \in LogRec /\ s.id <= nextID
      BY <1>0, <2>4, ElementsType DEF IdInv
    <3>2. \A s \in Elements(log) : s.id \in Nat
      BY <3>1, LogRecFacts
    <3> QED BY <1>1, <2>1, <2>2, <3>1, <3>2
  <2>6. Distinct(Append(Accepts, r))
    BY <1>1, <1>2, <2>1, <2>5, DistinctAppend
  <2>7. Backed(Append(log, r))
    BY <1>0, <1>2, <2>1, <2>3, BackedAppend
  <2> QED BY <2>1, <2>6, <2>7
<1>5. ASSUME NEW i \in Ids, CancelOrder(i) PROVE Distinct(Accepts') /\ Backed(log')
  <2> DEFINE r == OrderRecord(ns, i, NoOrder, "canceled")
  <2>1. log' = Append(log, r) /\ r \in LogRec /\ Accepts' = Accepts
    BY <1>5, Canceled
  <2>2. r.id = i
    BY RecordIds
  <2> HIDE DEF r
  <2>3. Known(i)
    <3>1. i \in Live
      BY <1>5 DEF CancelOrder, VCancel, Cancel
    <3> QED BY <3>1, LiveIsHeld DEF IdInv
  <2>4. Backed(Append(log, r))
    BY <1>0, <1>2, <2>1, <2>2, <2>3, BackedAppend DEF Known
  <2> QED BY <1>2, <2>1, <2>4
<1>6. ASSUME ApplyEvent PROVE Known(Head(batch).id)
  <2>1. Head(batch) \in InFlight
    BY <1>0, <1>6, InFlightTypes DEF ApplyEvent
  <2> QED BY <2>1 DEF IdInv
<1>7. CASE ApplyEvent /\ Head(batch).status # "filled"
  <2> DEFINE r == OrderRecord(ns, Head(batch).id, order[Head(batch).id], "rejected")
  <2>1. log' = Append(log, r) /\ r \in LogRec /\ Accepts' = Accepts
    BY <1>7, AppliedReject
  <2>2. r.id = Head(batch).id
    BY RecordIds
  <2> HIDE DEF r
  <2>3. Backed(Append(log, r))
    BY <1>0, <1>2, <1>6, <1>7, <2>1, <2>2, BackedAppend DEF Known
  <2> QED BY <1>2, <2>1, <2>3
<1>8. CASE ApplyEvent /\ Head(batch).status = "filled"
  <2>1. PICK ts \in 0..MaxTs :
           /\ log' = Append(Append(log, FillRecord(ts, Head(batch).id, FillOf(Head(batch)))),
                            PositionRecord(ts, books'.pos))
           /\ FillRecord(ts, Head(batch).id, FillOf(Head(batch))) \in LogRec
           /\ PositionRecord(ts, books'.pos) \in LogRec /\ Accepts' = Accepts
    BY <1>8, AppliedFill
  <2> DEFINE r == FillRecord(ts, Head(batch).id, FillOf(Head(batch)))
             s == PositionRecord(ts, books'.pos)
             w == Append(log, r)
  <2>2. r \in LogRec /\ s \in LogRec /\ log' = Append(w, s) /\ r.id = Head(batch).id /\ s.id = 0
    BY <2>1, RecordIds
  <2> HIDE DEF r, s
  <2>3. Backed(w) /\ w \in Seq(LogRec)
    BY <1>0, <1>2, <1>6, <1>8, <2>2, BackedAppend DEF Known
  <2> HIDE DEF w
  <2>4. Backed(Append(w, s))
    BY <2>2, <2>3, BackedAppend
  <2> QED BY <1>2, <2>1, <2>2, <2>4
<1> QED BY <1>3, <1>4, <1>5, <1>7, <1>8, LogGrows

\* IdsNeverReused: over all processes that share a store an id is accepted once,
\* and nothing is logged of an order before its accept, whichever snapshot the
\* restarts reconcile with (reconcile.go, Adopt's lastID).
THEOREM IdsHold == RSpec => []IdsNeverReused
<1>1. ASSUME RInit PROVE IdsNeverReused
  <2>1. log = <<>> /\ log \in Seq(LogRec)
    BY <1>1 DEF RInit, StoreInit
  <2>2. Accepts = <<>>
    BY <2>1, Readers, KeptEmpty
  <2> QED BY <2>1, <2>2 DEF IdsNeverReused
<1> QED BY <1>1, InitCore, NextCore, InitIds, NextIds, NextNeverReused, PTL DEF RSpec

-----------------------------------------------------------------------------
(* Where the contracts are.                                                *)

LEMMA QtyNone ==
    ASSUME NEW evs \in Seq(Event), NEW i, \A e \in Elements(evs) : e.id # i
    PROVE  FilledQty(evs, i) = 0
<1> DEFINE q == QtyOfOrder(evs, i)
<1>1. q \in Seq(Int) /\ DOMAIN q = DOMAIN evs
  BY QtyTypes
<1>2. \A k \in DOMAIN evs : q[k] = 0
  BY DEF QtyOfOrder, Elements
<1>3. FilledQty(evs, i) = Total(q)
  BY DEF FilledQty
<1> HIDE DEF q
<1> QED BY <1>1, <1>2, <1>3, TotalZero

LEMMA QtyHead ==
    ASSUME NEW evs \in Seq(Event), evs # <<>>, NEW i
    PROVE  /\ FilledQty(evs, i) = (IF Head(evs).id = i THEN Head(evs).qty ELSE 0) + FilledQty(Tail(evs), i)
           /\ FilledQty(Tail(evs), i) \in Nat /\ Head(evs).qty \in Nat
<1> DEFINE e == Head(evs)
           u == <<Head(evs)>>
           v == Tail(evs)
<1>1. e \in Event /\ v \in Seq(Event) /\ evs = u \o v
  BY ElementsTail
<1>2. u \in Seq(Event) /\ u[1] = e /\ DOMAIN u = {1}
  <2>1. DOMAIN u = 1..1
    OBVIOUS
  <2> QED BY <1>1, <2>1
<1>3. FilledQty(u, i) = IF e.id = i THEN e.qty ELSE 0
  <2> DEFINE q == QtyOfOrder(u, i)
  <2>1. q \in Seq(Int) /\ DOMAIN q = DOMAIN u
    BY <1>2, QtyTypes
  <2>2. q[1] = IF e.id = i THEN e.qty ELSE 0
    BY <1>2 DEF QtyOfOrder
  <2>3. FilledQty(u, i) = Total(q)
    BY DEF FilledQty
  <2> HIDE DEF q, u, e
  <2>4. Total(q) = q[1]
    <3>1. 1 \in DOMAIN q /\ \A k \in DOMAIN q : k # 1 => q[k] = 0
      BY <1>2, <2>1
    <3> QED BY <2>1, <3>1, TotalOnly
  <2> QED BY <2>2, <2>3, <2>4
<1>4. e.qty \in Nat
  BY <1>1, EventFacts
<1> HIDE DEF e, u, v
<1>5. FilledQty(evs, i) = FilledQty(u, i) + FilledQty(v, i)
  BY <1>1, <1>2, QtyConcat
<1>6. FilledQty(v, i) \in Nat
  BY <1>1, QtyTypes
<1> QED BY <1>3, <1>4, <1>5, <1>6 DEF e, u, v

LEMMA LoggedNone ==
    ASSUME log \in Seq(LogRec), NEW i, \A r \in Elements(log) : r.kind = "fill" => r.id # i
    PROVE  LoggedQty(i) = 0
<1> DEFINE a == Amounts(log, i)
<1>1. a \in Seq(Int) /\ LoggedQty(i) = Total(a)
  BY AmountTypes, Readers
<1>2. DOMAIN a = DOMAIN log /\ \A n \in DOMAIN log : a[n] = 0
  BY DEF Amounts, Amount, Elements
<1> HIDE DEF a
<1> QED BY <1>1, <1>2, TotalZero

\* Contracts of order i that are in the log, being applied or under way.
Accounted(i) == LoggedQty(i) + FilledQty(batch, i) + FilledQty(Evs(outbox), i)

LEMMA QtyFacts ==
    ASSUME Core, NEW i
    PROVE  /\ LoggedQty(i) \in Nat /\ FilledQty(batch, i) \in Nat /\ FilledQty(Evs(outbox), i) \in Nat
           /\ Accounted(i) \in Nat
<1>1. log \in Seq(LogRec) /\ batch \in Seq(Event) /\ outbox \in Seq(HeldRec)
  BY DEF Core, RunTypes, ReplyTypes
<1>2. LoggedQty(i) \in Nat
  BY <1>1, Readers
<1>3. FilledQty(batch, i) \in Nat
  BY <1>1, QtyTypes
<1>4. FilledQty(Evs(outbox), i) \in Nat
  BY <1>1, EvsTypes, QtyTypes
<1> QED BY <1>2, <1>3, <1>4 DEF Accounted

LEMMA NextAccounted ==
    ASSUME Core, Carry, [RNext]_rvars, NEW i \in Ids
    PROVE  /\ CallStep \/ FlushTail => Accounted(i)' = Accounted(i) + FilledQty(InOrder(raw'), i)
           /\ Restart => Accounted(i)' <= Accounted(i)
           /\ ~CallStep /\ ~FlushTail /\ ~Restart => Accounted(i)' = Accounted(i)
<1>0. /\ log \in Seq(LogRec) /\ ReplyTypes /\ log' \in Seq(LogRec) /\ Control
      /\ LoggedQty(i) \in Nat /\ FilledQty(batch, i) \in Nat /\ FilledQty(Evs(outbox), i) \in Nat
  BY QtyFacts, NextCore DEF Core, RunTypes
<1>1. log' = log => LoggedQty(i)' = LoggedQty(i)
  BY <1>0, Readers, ReadersNext
<1>2. FilledQty(<<>>, i) = 0
  BY QtyEmpty
<1>3. ASSUME CallStep PROVE Accounted(i)' = Accounted(i) + FilledQty(InOrder(raw'), i)
  <2>1. PICK ts \in Stamps : Called(ts) /\ batch = <<>> /\ log' = log
    BY <1>3 DEF CallStep, Beside
  <2>2. FilledQty(batch', i) + FilledQty(Evs(outbox'), i)
           = FilledQty(Evs(outbox), i) + FilledQty(InOrder(raw'), i)
        /\ raw' \subseteq Event /\ Answers
    BY <2>1, CalledFacts
  <2>3. FilledQty(InOrder(raw'), i) \in Nat
    BY <2>2, InOrderFacts, QtyTypes DEF Answers
  <2>4. FilledQty(batch', i) \in Nat /\ FilledQty(Evs(outbox'), i) \in Nat
    BY NextTypes, EvsTypes, QtyTypes DEF ReplyTypes
  <2>5. FilledQty(batch, i) = 0 /\ LoggedQty(i)' = LoggedQty(i)
    BY <1>1, <1>2, <2>1
  <2>6. FilledQty(batch', i) + FilledQty(Evs(outbox'), i)
           = FilledQty(Evs(outbox), i) + FilledQty(InOrder(raw'), i)
    BY <2>2
  <2> QED BY <1>0, <2>3, <2>4, <2>5, <2>6 DEF Accounted
<1>4. ASSUME FlushTail PROVE Accounted(i)' = Accounted(i) + FilledQty(InOrder(raw'), i)
  <2>1. log' = log /\ batch = <<>>
    BY <1>0, <1>4 DEF FlushTail, Control
  <2>2. FilledQty(batch', i) = FilledQty(Evs(outbox), i) + FilledQty(InOrder(raw'), i)
        /\ raw' \subseteq Event /\ Answers /\ outbox' = <<>>
    BY <1>4, FlushedFacts
  <2>3. FilledQty(InOrder(raw'), i) \in Nat
    BY <2>2, InOrderFacts, QtyTypes DEF Answers
  <2>4. FilledQty(Evs(outbox'), i) = 0
    <3>1. Evs(outbox') = <<>>
      BY <2>2 DEF Evs
    <3> QED BY <1>2, <3>1
  <2>5. FilledQty(batch, i) = 0 /\ LoggedQty(i)' = LoggedQty(i)
    BY <1>1, <1>2, <2>1
  <2>6. FilledQty(batch', i) = FilledQty(Evs(outbox), i) + FilledQty(InOrder(raw'), i)
    BY <2>2
  <2> QED BY <1>0, <2>3, <2>4, <2>5, <2>6 DEF Accounted
<1>5. ASSUME Restart PROVE Accounted(i)' <= Accounted(i)
  <2>1. log' = log /\ batch' = <<>> /\ outbox' = <<>>
    BY <1>5 DEF Restart
  <2>2. Evs(outbox') = <<>>
    BY <2>1 DEF Evs
  <2> QED BY <1>0, <1>1, <1>2, <2>1, <2>2 DEF Accounted
<1>6. ASSUME ApplyEvent PROVE Accounted(i)' = Accounted(i)
  <2>1. batch' = Tail(batch) /\ outbox' = outbox /\ batch # <<>> /\ batch \in Seq(Event)
    BY <1>0, <1>6 DEF ApplyEvent, ReplyTypes
  <2>2. /\ FilledQty(batch, i) = (IF Head(batch).id = i THEN Head(batch).qty ELSE 0) + FilledQty(Tail(batch), i)
        /\ FilledQty(Tail(batch), i) \in Nat /\ Head(batch).qty \in Nat
    BY <2>1, QtyHead
  <2>3. CASE Head(batch).status = "filled"
    <3>1. LoggedQty(i)' = LoggedQty(i) + (IF i = Head(batch).id THEN Head(batch).qty ELSE 0)
      BY <1>6, <2>3, AppliedFill
    <3> QED BY SMTT(30), <1>0, <2>1, <2>2, <3>1 DEF Accounted
  <2>4. CASE Head(batch).status # "filled"
    <3>1. LoggedQty(i)' = LoggedQty(i) /\ Head(batch).status = "rejected"
      BY <1>6, <2>4, AppliedReject
    <3>2. Head(batch).qty = 0
      BY <1>0, <2>1, <3>1, InFlightTypes DEF Carry
    <3> QED BY <1>0, <2>1, <2>2, <3>1, <3>2 DEF Accounted
  <2> QED BY <2>3, <2>4
<1>7. ASSUME NoReply, LoggedQty(i)' = LoggedQty(i) PROVE Accounted(i)' = Accounted(i)
  BY <1>7 DEF NoReply, Accounted
<1>8. ASSUME NEW o \in Requests, Submit(o) PROVE Accounted(i)' = Accounted(i)
  BY <1>7, <1>8, Requested DEF Submit, VEnqueue
<1>9. ASSUME NEW j \in Ids, CancelOrder(j) PROVE Accounted(i)' = Accounted(i)
  BY <1>7, <1>9, Canceled DEF CancelOrder, VCancel
<1>10. (\E e \in FeedEvents : Observe(e)) => Accounted(i)' = Accounted(i)
  BY <1>1, <1>7 DEF Observe, VSync
<1>11. Restore \/ (UNCHANGED venueVars /\ Beside) => Accounted(i)' = Accounted(i)
  BY <1>1, <1>7 DEF Restore, Beside, venueVars, NoReply
<1>12. Reconcile => Accounted(i)' = Accounted(i)
  BY <1>1, <1>7, Reconciled DEF Reconcile
<1> QED BY <1>3, <1>4, <1>5, <1>6, <1>8, <1>9, <1>10, <1>11, <1>12, Kinds

\* What is accounted for and what may still execute fit the order: in the first
\* process, and in all of them when the store is what they reconcile with.
FillInv == StoreSnapshot \/ session = 1 => \A i \in Ids : Accounted(i) + Unfilled(i) <= order[i].qty

LEMMA FreshOrder ==
    ASSUME Core, IdInv, NEW o \in Requests, Submit(o)
    PROVE  Accounted(nextID') = 0
<1>0. /\ log \in Seq(LogRec) /\ batch \in Seq(Event) /\ outbox \in Seq(HeldRec)
      /\ Control /\ RunTypes /\ nextID' = nextID + 1 /\ nextID \in Nat
  BY Requested DEF Core, RunTypes, ReplyTypes
<1> DEFINE i == nextID'
<1>1. session = 1 \/ reconciled
  BY <1>0 DEF Submit, Control, Callbacks, RunTypes
<1>2. \A r \in Elements(log) : r.id # i
  <2>1. \A r \in Elements(log) : r.id <= nextID /\ r.id \in Nat
    BY <1>0, <1>1, ElementsType, LogRecFacts DEF IdInv
  <2> QED BY <1>0, <2>1
<1>3. \A e \in InFlight : e.id # i
  BY <1>2 DEF IdInv, Known
<1> HIDE DEF i
<1>4. LoggedQty(i) = 0
  BY <1>0, <1>2, LoggedNone
<1>5. FilledQty(batch, i) = 0
  BY <1>0, <1>3, QtyNone DEF InFlight
<1>6. FilledQty(Evs(outbox), i) = 0
  <2>1. Evs(outbox) \in Seq(Event) /\ Elements(Evs(outbox)) = {h.ev : h \in Elements(outbox)}
    BY <1>0, EvsTypes, ElementsEvs
  <2>2. \A e \in Elements(Evs(outbox)) : e.id # i
    BY <1>3, <2>1 DEF InFlight
  <2> QED BY <2>1, <2>2, QtyNone
<1> QED BY <1>4, <1>5, <1>6 DEF Accounted, i

LEMMA NextFill == Core /\ Carry /\ IdInv /\ FillInv /\ [RNext]_rvars => FillInv'
<1> SUFFICES ASSUME Core, Carry, IdInv, FillInv, [RNext]_rvars,
                    StoreSnapshot \/ session' = 1, NEW i \in Ids
             PROVE  Accounted(i)' + Unfilled(i)' <= order'[i].qty
  BY DEF FillInv
<1> DEFINE Goal == Accounted(i)' + Unfilled(i)' <= order'[i].qty
<1>0. /\ Control /\ RunTypes /\ TypeOK /\ ReplyTypes /\ Core' /\ session \in Nat \ {0}
  BY NextCore DEF Core, RunTypes
<1>1. /\ Accounted(i) \in Nat /\ Unfilled(i) \in Nat /\ order[i].qty \in Nat
      /\ Unfilled(i)' \in Nat /\ order'[i].qty \in Nat /\ Accounted(i)' \in Nat
  <2>1. Accounted(i) \in Nat /\ Unfilled(i) \in Nat /\ order[i].qty \in Nat
    BY <1>0, QtyFacts, UnfilledIsNat
  <2>2. ASSUME Core' PROVE Accounted(i)' \in Nat
    <3>1. log' \in Seq(LogRec) /\ batch' \in Seq(Event) /\ outbox' \in Seq(HeldRec)
      BY <2>2 DEF Core, RunTypes, ReplyTypes
    <3>2. LoggedQty(i)' \in Nat
      BY <3>1, ReadersNext, AmountTypes
    <3>3. FilledQty(batch', i) \in Nat /\ FilledQty(Evs(outbox'), i) \in Nat
      BY <3>1, EvsTypes, QtyTypes
    <3> QED BY <3>2, <3>3 DEF Accounted
  <2>3. Unfilled(i)' \in Nat /\ order'[i].qty \in Nat
    BY <1>0 DEF Core, TypeOK, Unfilled, OrderRec
  <2> QED BY <1>0, <2>1, <2>2, <2>3
<1>2. ASSUME Accounted(i)' <= Accounted(i), Unfilled(i)' <= Unfilled(i), order' = order, session' = session
      PROVE  Goal
  <2>1. Accounted(i) + Unfilled(i) <= order[i].qty
    BY <1>2 DEF FillInv
  <2> QED BY <1>1, <1>2, <2>1
<1>3. ~CallStep /\ ~FlushTail /\ ~Restart => Accounted(i)' <= Accounted(i)
  BY <1>1, NextAccounted
<1>4. CASE CallStep \/ FlushTail
  <2>1. Accounted(i)' = Accounted(i) + FilledQty(InOrder(raw'), i)
    BY <1>4, NextAccounted
  <2>2. Answers /\ raw' \subseteq Event
    BY <1>0, <1>4, InFlightNext DEF Core, TypeOK
  <2>3. order' = order /\ session' = session
    BY <1>4, <2>2 DEF Answers, CallStep, Beside, FlushTail
  <2>4. Accounted(i) + Unfilled(i) <= order[i].qty
    BY <2>3 DEF FillInv
  <2>5. CASE \E e \in raw' : e.id = i
    <3>1. PICK e \in raw' : e.id = i
      BY <2>5
    <3>2. Unfilled(i)' + e.qty <= Unfilled(i)
      BY <2>2, <3>1 DEF Answers
    <3>3. FilledQty(InOrder(raw'), i) = e.qty /\ e.qty \in Nat
      BY <2>2, <3>1, QtyInOrder, EventFacts DEF Answers
    <3> QED BY <1>1, <2>1, <2>3, <2>4, <3>2, <3>3
  <2>6. CASE \A e \in raw' : e.id # i
    <3>1. Unfilled(i)' <= Unfilled(i)
      BY <2>2, <2>6 DEF Answers
    <3>2. FilledQty(InOrder(raw'), i) = 0
      BY <2>2, <2>6, QtyInOrder DEF Answers
    <3> QED BY <1>1, <2>1, <2>3, <2>4, <3>1, <3>2
  <2> QED BY <2>5, <2>6
<1>5. CASE ~CallStep /\ ~FlushTail
  <2>1. ASSUME UNCHANGED <<order, session, place, remaining>>, ~Restart PROVE Goal
    <3>1. Unfilled(i)' = Unfilled(i)
      BY <2>1 DEF Unfilled
    <3> QED BY <1>1, <1>2, <1>3, <1>5, <2>1, <3>1
  <2>2. CASE Restart
    <3>1. Accounted(i)' <= Accounted(i)
      BY <2>2, NextAccounted
    <3>2. /\ place' = [j \in Ids |-> IF j \in Live THEN "canceled" ELSE place[j]]
          /\ order' = order /\ session' = session + 1
      BY <2>2 DEF Restart
    <3>3. place'[i] \notin Held
      BY <3>2, LiveIsHeld DEF Held
    <3>4. Unfilled(i)' = 0
      BY <3>3 DEF Unfilled, Held
    <3>5. Accounted(i) + Unfilled(i) <= order[i].qty
      BY <1>0, <3>2 DEF FillInv
    <3> QED BY <1>1, <3>1, <3>2, <3>4, <3>5
  <2>3. CASE UNCHANGED venueVars /\ Beside
    <3>1. ~Restart
      BY <1>0, <2>3 DEF Restart, Beside
    <3> QED BY <2>1, <2>3, <3>1 DEF venueVars, vars, resting, Beside
  <2>4. CASE ApplyEvent
    <3>1. ~Restart
      BY <2>4 DEF Restart, ApplyEvent
    <3> QED BY <2>1, <2>4, <3>1 DEF ApplyEvent, vars, resting
  <2>5. CASE Restore
    <3>1. ~Restart
      BY <2>5 DEF Restart, Restore
    <3> QED BY <2>1, <2>5, <3>1 DEF Restore, venueVars, vars, resting
  <2>6. ASSUME NEW e \in FeedEvents, Observe(e) PROVE Goal
    <3>1. ~Restart
      BY <2>6 DEF Restart, Observe
    <3> QED BY <2>1, <2>6, <3>1 DEF Observe, VSync, Sync, resting
  <2>7. ASSUME NEW j \in Ids, CancelOrder(j) PROVE Goal
    <3>1. place' = [place EXCEPT ![j] = "canceled"] /\ UNCHANGED <<order, session, remaining>> /\ pc \in Callbacks
      BY <2>7 DEF CancelOrder, control, VCancel, Cancel, resting
    <3>2. Unfilled(i)' <= Unfilled(i)
      <4>1. CASE i = j
        <5>1. Unfilled(i)' = 0
          BY <1>0, <3>1, <4>1 DEF Unfilled, TypeOK
        <5> QED BY <1>1, <5>1
      <4>2. CASE i # j
        <5>1. Unfilled(i)' = Unfilled(i)
          BY <1>0, <3>1, <4>2 DEF Unfilled, TypeOK
        <5> QED BY <1>1, <5>1
      <4> QED BY <4>1, <4>2
    <3>3. ~Restart
      BY <3>1 DEF Restart, Callbacks
    <3> QED BY <1>2, <1>3, <1>5, <3>1, <3>2, <3>3
  <2>8. ASSUME NEW o \in Requests, Submit(o) PROVE Goal
    <3>1. /\ nextID' \in Ids /\ order' = [order EXCEPT ![nextID'] = o]
          /\ place'[nextID'] \in {"inbox", "delayed"}
          /\ i # nextID' => place'[i] = place[i]
      BY <2>8, Requested
    <3>2. session' = session /\ remaining' = remaining /\ pc \in Callbacks
      BY <2>8 DEF Submit, VEnqueue, Enqueue, resting
    <3>3. Accounted(i)' <= Accounted(i)
      BY <1>3, <1>5, <3>2 DEF Restart, Callbacks
    <3>4. CASE i = nextID'
      <4>1. Accounted(i) = 0
        BY <2>8, <3>4, FreshOrder
      <4>2. Unfilled(i)' = order'[i].qty
        BY <3>1, <3>4 DEF Unfilled
      <4> QED BY <1>1, <3>3, <4>1, <4>2
    <3>5. CASE i # nextID'
      <4>1. order'[i] = order[i]
        BY <1>0, <3>1, <3>5 DEF TypeOK
      <4>2. Unfilled(i)' = Unfilled(i)
        BY <3>1, <3>2, <3>5, <4>1 DEF Unfilled
      <4>3. Accounted(i) + Unfilled(i) <= order[i].qty
        BY <3>2 DEF FillInv
      <4> QED BY <1>1, <3>3, <4>1, <4>2, <4>3
    <3> QED BY <3>4, <3>5
  <2>9. CASE Reconcile
    <3>1. Adopt(Snap.working, order, Snap.lastID)
      BY <2>9, Reconciled
    <3>2. pc = "restored" /\ ~reconciled /\ session > 1 /\ session' = session /\ StoreSnapshot
      BY <1>0, <2>9 DEF Reconcile, Control
    <3>3. batch = <<>> /\ outbox = <<>> /\ Live = {}
      BY <1>0, <3>2 DEF Control
    <3>4. order'[i] = order[i]
      BY <1>0, <3>1 DEF Adopt, AdoptOutcome, TypeOK
    <3>5. Accounted(i)' <= Accounted(i)
      BY <1>3, <1>5, <3>2 DEF Restart
    <3>6. CASE i \in Snap.working
      <4>1. ~Logged(i, "fill", {})
        BY <3>2, <3>6 DEF Snap, WorkingOrders
      <4>2. \A r \in Elements(log) : r.kind = "fill" => r.id # i
        BY <4>1 DEF Logged, Elements
      <4>3. LoggedQty(i) = 0
        BY <1>0, <4>2, LoggedNone DEF RunTypes
      <4>4. FilledQty(<<>>, i) = 0
        BY QtyEmpty
      <4>5. Evs(outbox) = <<>>
        BY <3>3 DEF Evs
      <4>6. Accounted(i) = 0
        BY <3>3, <4>3, <4>4, <4>5 DEF Accounted
      <4>7. Unfilled(i)' <= order'[i].qty
        <5>1. place'[i] = IF i \in Limits(Snap.working, order) THEN "working" ELSE "inbox"
          BY <3>1, <3>6 DEF Adopt, AdoptOutcome
        <5>2. i \in Limits(Snap.working, order) => remaining'[i] = order[i].qty
          BY <3>1 DEF Adopt, Rest
        <5>3. Unfilled(i)' = order'[i].qty
          BY <3>4, <5>1, <5>2 DEF Unfilled
        <5> QED BY <1>1, <5>3
      <4> QED BY <1>1, <3>5, <4>6, <4>7
    <3>7. CASE i \notin Snap.working
      <4>1. place'[i] = place[i]
        BY <3>1, <3>3, <3>7 DEF Adopt, AdoptOutcome, Limits
      <4>2. place[i] \notin Held
        BY <3>3, LiveIsHeld
      <4>3. Unfilled(i)' = 0
        BY <4>1, <4>2 DEF Unfilled, Held
      <4>4. Accounted(i) + Unfilled(i) <= order[i].qty
        BY <3>2 DEF FillInv
      <4> QED BY <1>1, <3>4, <3>5, <4>3, <4>4
    <3> QED BY <3>6, <3>7
  <2> QED BY <1>5, <2>2, <2>3, <2>4, <2>5, <2>6, <2>7, <2>8, <2>9, Kinds
<1> QED BY <1>4, <1>5

\* NeverOverfilled: the fills logged of an order never exceed its size, in the
\* first process, and across restarts that reconcile with the store's own working
\* set.  With the venue's snapshot it is false: Adopt rests what is left of a
\* partially filled order at its full size (reconcile.go, Adopt).
THEOREM OverfillHolds == RSpec => [](StoreSnapshot \/ session = 1 => NeverOverfilled)
<1>1. ASSUME RInit PROVE FillInv
  <2>1. log = <<>> /\ batch = <<>> /\ outbox = <<>> /\ log \in Seq(LogRec)
        /\ \A i \in Ids : place[i] = "none" /\ order[i] = NoOrder
    BY <1>1 DEF RInit, StoreInit, VInit, Init
  <2>2. ASSUME NEW i \in Ids PROVE Accounted(i) = 0 /\ Unfilled(i) = 0 /\ order[i].qty = 0
    <3>1. LoggedQty(i) = 0
      BY <2>1, LoggedNone, ElementsEmpty
    <3>2. FilledQty(<<>>, i) = 0 /\ Evs(outbox) = <<>>
      BY <2>1, QtyEmpty DEF Evs
    <3>3. Accounted(i) = 0
      BY <2>1, <3>1, <3>2 DEF Accounted
    <3> QED BY <2>1, <3>3 DEF Unfilled, NoOrder
  <2> QED BY <2>2 DEF FillInv
<1>2. Core /\ FillInv => (StoreSnapshot \/ session = 1 => NeverOverfilled)
  <2> SUFFICES ASSUME Core, FillInv, StoreSnapshot \/ session = 1, NEW i \in Ids
               PROVE  LoggedQty(i) <= order[i].qty
    BY DEF NeverOverfilled
  <2>1. Accounted(i) + Unfilled(i) <= order[i].qty
    BY DEF FillInv
  <2>2. Unfilled(i) \in Nat /\ order[i].qty \in Nat
    BY UnfilledIsNat DEF Core
  <2>3. LoggedQty(i) \in Nat /\ FilledQty(batch, i) \in Nat /\ FilledQty(Evs(outbox), i) \in Nat
    BY QtyFacts
  <2> QED BY <2>1, <2>2, <2>3 DEF Accounted
<1> QED BY <1>1, <1>2, InitCore, NextCore, InitCarry, NextCarry, InitIds, NextIds, NextFill, PTL DEF RSpec

-----------------------------------------------------------------------------
(* The first process: nothing has been adopted, and the venue does what    *)
(* is said of it by itself.                                                *)

FirstInv == session = 1 => Base /\ LimitRespected /\ EntryHonoured /\ JoinedAtTouch /\ QueueInv

LEMMA FirstSteps ==
    ASSUME Core, [RNext]_rvars, session' = 1
    PROVE  session = 1 /\ [Next]_vars /\ ~Restart /\ ~Restore /\ ~Reconcile
<1>0. Control /\ RunTypes /\ TypeOK /\ session \in Nat \ {0}
  BY DEF Core, RunTypes
<1>1. ~Restart
  BY <1>0 DEF Restart
<1>2. session = 1
  <2>1. CASE CallStep \/ Beside \/ FlushTail \/ ApplyEvent \/ Restore \/ Reconcile
    BY <2>1 DEF CallStep, Beside, FlushTail, ApplyEvent, Restore, Reconcile
  <2>2. CASE \E o \in Requests : Submit(o)
    BY <2>2 DEF Submit
  <2>3. CASE \E j \in Ids : CancelOrder(j)
    BY <2>3 DEF CancelOrder, control
  <2>4. CASE \E e \in FeedEvents : Observe(e)
    BY <2>4 DEF Observe
  <2> QED BY <1>1, <2>1, <2>2, <2>3, <2>4, Kinds
<1>3. ~Restore /\ ~Reconcile
  BY <1>0, <1>2 DEF Restore, Reconcile, Control
<1>4. ASSUME (UNCHANGED venueVars /\ Beside) \/ ApplyEvent PROVE UNCHANGED vars
  BY <1>4 DEF venueVars, ApplyEvent
<1>5. ASSUME NEW o \in Requests, Submit(o) PROVE Next
  BY <1>5 DEF Submit, VEnqueue, Next
<1>6. ASSUME NEW i \in Ids, CancelOrder(i) PROVE Next
  BY <1>6 DEF CancelOrder, VCancel, Next
<1>7. ASSUME NEW e \in FeedEvents, Observe(e) PROVE Next
  <2>1. ns' \in Stamps /\ Sync(ns')
    BY <1>7, Observed
  <2> QED BY <2>1 DEF Next
<1>8. ASSUME CallStep PROVE Next
  <2>1. PICK ts \in Stamps : Called(ts)
    BY <1>8 DEF CallStep
  <2>2. Settle(ts) \/ (\E q \in Quotes : Quote(q, ts)) \/ (\E t \in Trades : Trade(t, ts))
    BY <2>1 DEF Called, VSettle, VQuote, VTrade
  <2> QED BY <2>2 DEF Next
<1>9. ASSUME FlushTail PROVE Next
  BY <1>9 DEF FlushTail, VFlush, Next
<1>10. [Next]_vars
  BY <1>1, <1>3, <1>4, <1>5, <1>6, <1>7, <1>8, <1>9, Kinds
<1> QED BY <1>1, <1>2, <1>3, <1>10

LEMMA NextFirst == Core /\ FirstInv /\ [RNext]_rvars => FirstInv'
<1> SUFFICES ASSUME Core, FirstInv, [RNext]_rvars, session' = 1
             PROVE  Base' /\ LimitRespected' /\ EntryHonoured' /\ JoinedAtTouch' /\ QueueInv'
  BY DEF FirstInv
<1>1. [Next]_vars /\ Base /\ LimitRespected /\ EntryHonoured /\ JoinedAtTouch /\ QueueInv
  BY FirstSteps DEF FirstInv
<1> QED BY <1>1, NextBase, NextLimit, NextEntry, NextJoined, NextQueue

LEMMA InitFirst == RInit => FirstInv
<1> SUFFICES ASSUME RInit PROVE FirstInv
  OBVIOUS
<1>1. Init
  BY DEF RInit, VInit
<1>2. Base
  BY <1>1, InitBase
<1>3. LimitRespected /\ EntryHonoured /\ JoinedAtTouch /\ QueueInv
  BY <1>1 DEF Init, LimitRespected, EntryHonoured, JoinedAtTouch, QueueInv
<1> QED BY <1>2, <1>3 DEF FirstInv

\* The venue a strategy trades on keeps what it promises its caller, whatever the
\* strategy, the cascades, the flush and failing callbacks make of it.
THEOREM VenueInRunKeeps ==
    RSpec => [](session = 1 => Conservation /\ LimitRespected /\ EntryHonoured /\ JoinedAtTouch
                               /\ PessimisticQueue)
<1>1. FirstInv => (session = 1 => Conservation /\ LimitRespected /\ EntryHonoured /\ JoinedAtTouch
                                  /\ PessimisticQueue)
  BY QueueMeans DEF FirstInv, Base
<1> QED BY <1>1, InitCore, NextCore, InitFirst, NextFirst, PTL DEF RSpec

\* What a call answers in the first process.
LEMMA FirstTells ==
    ASSUME Core, FirstInv, [RNext]_rvars, session' = 1, CallStep \/ FlushTail
    PROVE  Tells
<1>1. session = 1 /\ Base
  BY FirstSteps DEF FirstInv
<1>2. CASE CallStep
  <2>1. PICK ts \in Stamps : Called(ts)
    BY <1>2 DEF CallStep
  <2>2. CASE VSettle(ts)
    BY <1>1, <2>2, SettleStepAnswers DEF VSettle
  <2>3. CASE \E q \in Quotes : VQuote(q, ts)
    BY <2>3, QuoteAnswers DEF VQuote
  <2>4. CASE \E t \in Trades : VTrade(t, ts)
    BY <1>1, <2>4, TradeAnswers DEF VTrade
  <2> QED BY <2>1, <2>2, <2>3, <2>4 DEF Called
<1>3. CASE FlushTail
  BY <1>1, <1>3, FlushAnswers DEF FlushTail, VFlush
<1> QED BY <1>2, <1>3

\* The store misses nothing.
LogInv == session = 1 => \A i \in Ids : executed[i] = Accounted(i)

LEMMA NextLog == Core /\ Carry /\ FirstInv /\ LogInv /\ [RNext]_rvars => LogInv'
<1> SUFFICES ASSUME Core, Carry, FirstInv, LogInv, [RNext]_rvars, session' = 1, NEW i \in Ids
             PROVE  executed'[i] = Accounted(i)'
  BY DEF LogInv
<1>1. session = 1 /\ ~Restart /\ ~Restore /\ ~Reconcile
  BY FirstSteps
<1>2. executed[i] = Accounted(i)
  BY <1>1 DEF LogInv
<1>3. CASE CallStep \/ FlushTail
  <2>1. Tells
    BY <1>3, FirstTells
  <2>2. TypeOK /\ TypeOK'
    BY NextTypes DEF Core
  <2>3. executed'[i] = executed[i] + FilledQty(InOrder(raw'), i)
    BY <2>1, <2>2, ToldQty
  <2>4. Accounted(i)' = Accounted(i) + FilledQty(InOrder(raw'), i)
    BY <1>3, NextAccounted
  <2> QED BY <1>2, <2>3, <2>4
<1>4. CASE ~CallStep /\ ~FlushTail
  <2>1. Accounted(i)' = Accounted(i)
    BY <1>1, <1>4, NextAccounted
  <2>2. executed' = executed
    <3>1. CASE (UNCHANGED venueVars /\ Beside) \/ ApplyEvent
      BY <3>1 DEF venueVars, ApplyEvent, vars, history
    <3>2. CASE \E o \in Requests : Submit(o)
      BY <3>2 DEF Submit, VEnqueue, Enqueue, history
    <3>3. CASE \E j \in Ids : CancelOrder(j)
      BY <3>3 DEF CancelOrder, VCancel, Cancel, history
    <3>4. CASE \E e \in FeedEvents : Observe(e)
      BY <3>4 DEF Observe, VSync, Sync, history
    <3> QED BY <1>1, <1>4, <3>1, <3>2, <3>3, <3>4, Kinds
  <2> QED BY <1>2, <2>1, <2>2
<1> QED BY <1>3, <1>4

\* LogComplete: every contract the venue executed is in the log, in the events
\* being applied or under way to them: no cascade, cancel, flush or failing
\* callback loses one on its way into the store (strategy.go, apply).
THEOREM LogHolds == RSpec => []LogComplete
<1>1. ASSUME RInit PROVE LogInv
  <2>1. log = <<>> /\ batch = <<>> /\ outbox = <<>> /\ log \in Seq(LogRec)
        /\ \A i \in Ids : executed[i] = 0
    BY <1>1 DEF RInit, StoreInit, VInit, Init
  <2>2. ASSUME NEW i \in Ids PROVE Accounted(i) = 0
    <3>1. LoggedQty(i) = 0
      BY <2>1, LoggedNone, ElementsEmpty
    <3>2. FilledQty(<<>>, i) = 0 /\ Evs(outbox) = <<>>
      BY <2>1, QtyEmpty DEF Evs
    <3> QED BY <2>1, <3>1, <3>2 DEF Accounted
  <2> QED BY <2>1, <2>2 DEF LogInv
<1>2. LogInv => LogComplete
  BY DEF LogInv, LogComplete, Accounted
<1> QED BY <1>1, <1>2, InitCore, NextCore, InitCarry, NextCarry, InitFirst, NextFirst, NextLog, PTL DEF RSpec
\* WorkingOrders misses nothing: an order the store believes working is at the
\* venue, or the event that ends it is under way.
Open(i) == i \in Live \/ \E e \in InFlight : e.id = i
StaleInv == session = 1 => \A i \in WorkingOrders : Open(i)

LEMMA WorkingMeans ==
    ASSUME NEW i
    PROVE  i \in WorkingOrders <=>
              /\ \E r \in Elements(log) : r.id = i /\ r.kind = "order" /\ r.status = "accepted"
              /\ \A r \in Elements(log) : r.id = i =>
                    /\ r.kind # "fill"
                    /\ r.kind = "order" => r.status \notin {"canceled", "rejected"}
  BY DEF WorkingOrders, Logged, Elements

LEMMA WorkingMeansNext ==
    ASSUME NEW i
    PROVE  i \in WorkingOrders' <=>
              /\ \E r \in Elements(log') : r.id = i /\ r.kind = "order" /\ r.status = "accepted"
              /\ \A r \in Elements(log') : r.id = i =>
                    /\ r.kind # "fill"
                    /\ r.kind = "order" => r.status \notin {"canceled", "rejected"}
  BY DEF WorkingOrders, Logged, Elements

LEMMA NextStale == Core /\ StaleInv /\ [RNext]_rvars => StaleInv'
<1> SUFFICES ASSUME Core, StaleInv, [RNext]_rvars, session' = 1, NEW i \in WorkingOrders'
             PROVE  Open(i)'
  BY DEF StaleInv
<1>1. session = 1 /\ ~Restart /\ ~Restore /\ ~Reconcile
  BY FirstSteps
<1>2. i \in WorkingOrders => Open(i)
  BY <1>1 DEF StaleInv
<1>3. i \in Ids
  <2>1. log' \in Seq(LogRec)
    BY NextRunTypes DEF RunTypes
  <2>2. PICK r \in Elements(log') : r.id = i /\ r.kind = "order"
    BY WorkingMeansNext
  <2>3. r \in LogRec
    BY <2>1, ElementsType
  <2> QED BY <2>2, <2>3, LogRecFacts
<1>4. \/ InFlight \subseteq InFlight'
      \/ ApplyEvent /\ InFlight \subseteq InFlight' \cup {Head(batch)}
  BY <1>1, InFlightNext
<1>5. CASE log' = log /\ ~ApplyEvent
  <2>1. i \in WorkingOrders
    BY <1>5, WorkingMeans, WorkingMeansNext
  <2>2. CASE i \notin Live
    BY <1>2, <1>4, <1>5, <2>1, <2>2 DEF Open
  <2>3. CASE i \in Live
    <3>1. place[i] \in Held
      BY <1>3, <2>3, LiveIsHeld
    <3>2. CASE CallStep \/ FlushTail
      <4>1. raw' \subseteq InFlight' /\ Answers
        BY <3>2, InFlightNext
      <4>2. place'[i] \in Held \/ \E e \in raw' : e.id = i
        BY <1>3, <3>1, <4>1 DEF Answers
      <4> QED BY <1>3, <4>1, <4>2, LiveIsHeldNext DEF Open
    <3>3. CASE ~CallStep /\ ~FlushTail
      <4>1. CASE UNCHANGED venueVars /\ Beside
        BY <1>3, <3>1, <4>1, LiveIsHeldNext DEF venueVars, vars, Open
      <4>2. CASE \E e \in FeedEvents : Observe(e)
        <5>1. place' = place
          BY <4>2 DEF Observe, VSync, Sync
        <5> QED BY <1>3, <3>1, <5>1, LiveIsHeldNext DEF Open
      <4>3. CASE \E o \in Requests : Submit(o)
        <5>1. PICK o \in Requests : Submit(o)
          BY <4>3
        <5>2. place'[i] \in Held
          BY <1>3, <3>1, <5>1, Requested DEF Held
        <5> QED BY <1>3, <5>2, LiveIsHeldNext DEF Open
      <4>4. CASE \E j \in Ids : CancelOrder(j)
        <5>1. PICK j \in Ids : CancelOrder(j)
          BY <4>4
        <5>2. log' = Append(log, OrderRecord(ns, j, NoOrder, "canceled")) /\ log \in Seq(LogRec)
          BY <5>1, Canceled DEF Core, RunTypes
        <5>3. Len(log') = Len(log) + 1 /\ Len(log) \in Nat
          BY <5>2
        <5> QED BY <1>5, <5>3
      <4> QED BY <1>1, <1>5, <3>3, <4>1, <4>2, <4>3, <4>4, Kinds
    <3> QED BY <3>2, <3>3
  <2> QED BY <2>2, <2>3
<1>6. CASE \E o \in Requests : /\ Submit(o)
                               /\ Elements(log') = Elements(log) \cup {OrderRecord(ns, nextID', o, "accepted")}
  <2>1. PICK o \in Requests : /\ Submit(o)
                              /\ Elements(log') = Elements(log) \cup {OrderRecord(ns, nextID', o, "accepted")}
    BY <1>6
  <2>2. place'[nextID'] \in Held /\ \A j \in Ids : j # nextID' => place'[j] = place[j]
    BY <2>1, Requested DEF Held
  <2>3. OrderRecord(ns, nextID', o, "accepted").id = nextID'
    BY RecordIds
  <2>4. i # nextID' => i \in WorkingOrders
    BY <2>1, <2>3, WorkingMeans, WorkingMeansNext
  <2>5. ~ApplyEvent
    BY <2>1 DEF Submit, ApplyEvent, Callbacks
  <2> QED BY <1>2, <1>3, <1>4, <2>2, <2>4, <2>5, LiveIsHeld, LiveIsHeldNext DEF Open
<1>7. CASE \E j \in Ids : /\ CancelOrder(j)
                          /\ Elements(log') = Elements(log) \cup {OrderRecord(ns, j, NoOrder, "canceled")}
  <2>1. PICK j \in Ids : /\ CancelOrder(j)
                         /\ Elements(log') = Elements(log) \cup {OrderRecord(ns, j, NoOrder, "canceled")}
    BY <1>7
  <2> DEFINE r == OrderRecord(ns, j, NoOrder, "canceled")
  <2>2. r.id = j /\ r.kind = "order" /\ r.status = "canceled"
    BY RecordIds
  <2>3. r \in Elements(log') /\ \A s \in Elements(log') : s # r => s \in Elements(log)
    BY <2>1
  <2> HIDE DEF r
  <2>4. i # j
    BY <2>2, <2>3, WorkingMeansNext
  <2>5. i \in WorkingOrders
    <3>1. Elements(log) \subseteq Elements(log')
      BY <2>1
    <3> QED BY <2>2, <2>3, <2>4, <3>1, WorkingMeans, WorkingMeansNext
  <2>6. place'[i] = place[i] /\ ~ApplyEvent
    BY <1>3, <2>1, <2>4 DEF CancelOrder, VCancel, Cancel, ApplyEvent, Callbacks, Core, TypeOK
  <2> QED BY <1>2, <1>3, <1>4, <2>5, <2>6, LiveIsHeld, LiveIsHeldNext DEF Open
<1>8. ASSUME ApplyEvent, Elements(log) \subseteq Elements(log'),
             \E r \in Elements(log') : /\ r.id = Head(batch).id
                                       /\ \/ r.kind = "fill"
                                          \/ r.kind = "order" /\ r.status = "rejected",
             \A r \in Elements(log') : r \in Elements(log) \/ r.id \in {Head(batch).id, 0}
      PROVE  Open(i)'
  <2>1. i # Head(batch).id
    BY <1>8, WorkingMeansNext
  <2>2. i \in WorkingOrders
    <3>1. i # 0
      BY <1>3 DEF Ids
    <3> QED BY <1>8, <2>1, <3>1, WorkingMeans, WorkingMeansNext
  <2>3. place' = place
    BY <1>8 DEF ApplyEvent, vars
  <2> QED BY <1>2, <1>3, <1>4, <2>1, <2>2, <2>3, LiveIsHeld, LiveIsHeldNext DEF Open
<1>9. CASE ApplyEvent /\ Head(batch).status = "rejected"
           /\ \E o \in OrderRec : Elements(log') = Elements(log) \cup {OrderRecord(ns, Head(batch).id, o, "rejected")}
  <2>1. PICK o \in OrderRec : Elements(log') = Elements(log) \cup {OrderRecord(ns, Head(batch).id, o, "rejected")}
    BY <1>9
  <2> DEFINE r == OrderRecord(ns, Head(batch).id, o, "rejected")
  <2>2. r.id = Head(batch).id /\ r.kind = "order" /\ r.status = "rejected"
    BY RecordIds
  <2>3. Elements(log') = Elements(log) \cup {r}
    BY <2>1
  <2> HIDE DEF r
  <2> QED BY <1>8, <1>9, <2>2, <2>3
<1>10. CASE ApplyEvent /\ Head(batch).status = "filled"
           /\ \E ts \in 0..MaxTs, f \in FillRec, p \in PosRec :
                 Elements(log') = Elements(log) \cup {FillRecord(ts, Head(batch).id, f), PositionRecord(ts, p)}
  <2>1. PICK ts \in 0..MaxTs, f \in FillRec, p \in PosRec :
           Elements(log') = Elements(log) \cup {FillRecord(ts, Head(batch).id, f), PositionRecord(ts, p)}
    BY <1>10
  <2> DEFINE r == FillRecord(ts, Head(batch).id, f)
             s == PositionRecord(ts, p)
  <2>2. r.id = Head(batch).id /\ r.kind = "fill" /\ s.id = 0
    BY RecordIds
  <2>3. Elements(log') = Elements(log) \cup {r, s}
    BY <2>1
  <2> HIDE DEF r, s
  <2> QED BY <1>8, <1>10, <2>2, <2>3
<1> QED BY <1>5, <1>6, <1>7, <1>9, <1>10, LogGrows

\* StoreNotStale: what the store believes is working still is at the venue, or the
\* event that ended it is on its way (eventstore.go, WorkingOrders).
THEOREM NotStaleHolds == RSpec => []StoreNotStale
<1>1. ASSUME RInit PROVE StaleInv
  <2>1. Elements(log) = {}
    BY <1>1, ElementsEmpty DEF RInit, StoreInit
  <2> QED BY <2>1, WorkingMeans DEF StaleInv
<1>2. StaleInv => StoreNotStale
  <2> SUFFICES ASSUME StaleInv, session = 1, NEW i \in WorkingOrders, i \notin Live
               PROVE  \/ \E k \in DOMAIN batch : batch[k].id = i
                      \/ \E k \in DOMAIN outbox : outbox[k].ev.id = i
    BY DEF StoreNotStale
  <2>1. PICK e \in InFlight : e.id = i
    BY DEF StaleInv, Open
  <2> QED BY <2>1 DEF InFlight, Elements
<1> QED BY <1>1, <1>2, InitCore, NextCore, NextStale, PTL DEF RSpec
-----------------------------------------------------------------------------
(* The way there and back of an order: what the strategy's clock has to    *)
(* reach before it hears of a fill.                                        *)

Arrives(i) == submitAt[i] + Entry + Response
TripInv ==
    session = 1 /\ ~BadStamps =>
        /\ \A i \in Ids : place[i] # "none" => ready[i] = submitAt[i] + Entry
        /\ \A h \in Elements(outbox) : h.ev.status = "filled" => Arrives(h.ev.id) <= h.ready
        /\ ~flushed => \A e \in Elements(batch) : e.status = "filled" => Arrives(e.id) <= ns

\* The submit of an order whose events are under way is long past.
LEMMA NotSubmittedNow ==
    ASSUME Core, IdInv, session = 1, NEW o \in Requests, Submit(o)
    PROVE  \A e \in InFlight : e.id # nextID'
<1> SUFFICES ASSUME NEW e \in InFlight PROVE e.id # nextID'
  OBVIOUS
<1>1. PICK r \in Elements(log) : r.id = e.id
  BY DEF IdInv, Known
<1>2. r.id <= nextID
  BY DEF IdInv
<1>3. r.id \in Int
  <2>1. e \in Event
    BY InFlightTypes DEF Core
  <2> QED BY <1>1, <2>1, EventFacts DEF Ids
<1>4. nextID' = nextID + 1 /\ nextID \in Nat
  BY Requested
<1> QED BY <1>1, <1>2, <1>3, <1>4

\* What a fill of this call had to wait for.
LEMMA FillWaited ==
    ASSUME Core, FirstInv, TripInv, [RNext]_rvars, session' = 1, ~BadStamps,
           NEW ts \in Stamps, Called(ts), Beside, ~flushed, ts = ns,
           NEW e \in raw', e.status = "filled"
    PROVE  submitAt[e.id] + Entry <= ts
<1>1. Answers /\ raw' \subseteq Event /\ now' = Later(ts) /\ flushed' = flushed /\ ts \in Nat
  BY CalledFacts
<1>2. e.id \in Ids
  BY <1>1, EventFacts
<1>3. EntryHonoured' /\ session = 1
  BY NextFirst, FirstSteps DEF FirstInv
<1>4. place[e.id] \in Held /\ place'[e.id] \in {"working", "filled"}
  BY <1>1 DEF Answers
<1>5. ready'[e.id] <= now'
  BY <1>1, <1>2, <1>3, <1>4 DEF EntryHonoured
<1>6. now' = ts
  <2>1. now <= ns /\ now \in Nat
    BY NowIsStamp DEF Core, InStep
  <2> QED BY <1>1, <2>1 DEF Later
<1>7. ready' = ready
  <2>1. CASE VSettle(ts)
    BY <2>1 DEF VSettle, Settle, SettleInbox, SettleOutcome
  <2>2. CASE \E q \in Quotes : VQuote(q, ts)
    BY <2>2 DEF VQuote, Quote
  <2>3. CASE \E t \in Trades : VTrade(t, ts)
    BY <2>3 DEF VTrade, Trade, OnTrade
  <2> QED BY <2>1, <2>2, <2>3 DEF Called
<1>8. ready[e.id] = submitAt[e.id] + Entry
  BY <1>2, <1>3, <1>4 DEF TripInv, Held
<1> QED BY <1>5, <1>6, <1>7, <1>8

LEMMA ReadyKept ==
    ASSUME Core, [RNext]_rvars, session' = 1, ~BadStamps, TripInv, NEW i \in Ids, place'[i] # "none"
    PROVE  ready'[i] = submitAt'[i] + Entry
<1>1. session = 1 /\ ~Restart /\ ~Restore /\ ~Reconcile
  BY FirstSteps
<1>2. place[i] # "none" => ready[i] = submitAt[i] + Entry
  BY <1>1 DEF TripInv
<1>3. TypeOK /\ submitAt \in [Ids -> Nat]
  BY DEF Core, RunTypes
<1>4. CASE (UNCHANGED venueVars /\ Beside) \/ ApplyEvent
  BY <1>2, <1>4 DEF venueVars, vars, Beside, ApplyEvent
<1>5. CASE \E o \in Requests : Submit(o)
  <2>1. PICK o \in Requests : Submit(o)
    BY <1>5
  <2>2. /\ ready' = [ready EXCEPT ![nextID'] = now + Entry]
        /\ submitAt' = [submitAt EXCEPT ![nextID'] = ns]
    BY <2>1 DEF Submit, VEnqueue, Enqueue
  <2>3. nextID' \in Ids /\ \A j \in Ids : j # nextID' => place'[j] = place[j]
    BY <2>1, Requested
  <2>4. now = ns
    BY <1>1 DEF Core, InStep
  <2> QED BY <1>2, <1>3, <2>2, <2>3, <2>4 DEF TypeOK
<1>6. CASE \E j \in Ids : CancelOrder(j)
  <2>1. PICK j \in Ids : CancelOrder(j)
    BY <1>6
  <2>2. ready' = ready /\ submitAt' = submitAt /\ j \in Live /\ place' = [place EXCEPT ![j] = "canceled"]
    BY <2>1 DEF CancelOrder, VCancel, Cancel, control
  <2>3. place[j] \in Held
    BY <2>2, LiveIsHeld
  <2> QED BY <1>2, <1>3, <2>2, <2>3 DEF Held, TypeOK
<1>7. CASE \E e \in FeedEvents : Observe(e)
  BY <1>2, <1>7 DEF Observe, VSync, Sync
<1>8. CASE CallStep \/ FlushTail
  <2>1. Answers
    BY <1>8, InFlightNext
  <2>2. place[i] # "none"
    BY <2>1 DEF Answers, Held
  <2>3. submitAt' = submitAt
    BY <1>8 DEF CallStep, Beside, FlushTail
  <2>4. ready' = ready
    <3>1. CASE FlushTail
      BY <3>1 DEF FlushTail, VFlush, Flush, SettleInbox, SettleOutcome
    <3>2. CASE CallStep
      <4>1. PICK ts \in Stamps : Called(ts)
        BY <3>2 DEF CallStep
      <4>2. CASE VSettle(ts)
        BY <4>2 DEF VSettle, Settle, SettleInbox, SettleOutcome
      <4>3. CASE \E q \in Quotes : VQuote(q, ts)
        BY <4>3 DEF VQuote, Quote
      <4>4. CASE \E t \in Trades : VTrade(t, ts)
        BY <4>4 DEF VTrade, Trade, OnTrade
      <4> QED BY <4>1, <4>2, <4>3, <4>4 DEF Called
    <3> QED BY <1>8, <3>1, <3>2
  <2> QED BY <1>2, <2>2, <2>3, <2>4
<1> QED BY <1>1, <1>4, <1>5, <1>6, <1>7, <1>8, Kinds

LEMMA NextTrip == Core /\ IdInv /\ FirstInv /\ TripInv /\ [RNext]_rvars => TripInv'
<1> SUFFICES ASSUME Core, IdInv, FirstInv, TripInv, [RNext]_rvars, session' = 1, ~BadStamps
             PROVE  /\ \A h \in Elements(outbox') : h.ev.status = "filled" => Arrives(h.ev.id)' <= h.ready
                    /\ ~flushed' => \A e \in Elements(batch') : e.status = "filled" => Arrives(e.id)' <= ns'
  BY ReadyKept DEF TripInv
<1>1. session = 1 /\ ~Restart /\ ~Restore /\ ~Reconcile
  BY FirstSteps
<1>2. /\ \A h \in Elements(outbox) : h.ev.status = "filled" => Arrives(h.ev.id) <= h.ready
      /\ ~flushed => \A e \in Elements(batch) : e.status = "filled" => Arrives(e.id) <= ns
  BY <1>1 DEF TripInv
<1>3. ns \in Nat /\ submitAt \in [Ids -> Nat] /\ batch \in Seq(Event) /\ outbox \in Seq(HeldRec)
      /\ InFlight \subseteq Event /\ Entry \in Nat /\ Response \in Nat
  BY NowIsStamp, InFlightTypes, MatchingAssumption, VenueAssumption DEF Core, RunTypes, ReplyTypes
<1>4. ASSUME batch' = batch, outbox' = outbox, flushed' = flushed, ns' \in Nat, ns <= ns',
             \A e \in InFlight : submitAt'[e.id] = submitAt[e.id]
      PROVE  /\ \A h \in Elements(outbox') : h.ev.status = "filled" => Arrives(h.ev.id)' <= h.ready
             /\ ~flushed' => \A e \in Elements(batch') : e.status = "filled" => Arrives(e.id)' <= ns'
  <2>1. ASSUME NEW h \in Elements(outbox'), h.ev.status = "filled" PROVE Arrives(h.ev.id)' <= h.ready
    <3>1. h \in Elements(outbox) /\ h.ev \in InFlight
      BY <1>4, <2>1 DEF InFlight
    <3> QED BY <1>2, <1>4, <2>1, <3>1 DEF Arrives
  <2>2. ASSUME ~flushed', NEW e \in Elements(batch'), e.status = "filled" PROVE Arrives(e.id)' <= ns'
    <3>1. e \in Elements(batch) /\ e \in InFlight /\ Arrives(e.id) <= ns
      BY <1>2, <1>4, <2>2 DEF InFlight
    <3>2. submitAt[e.id] \in Nat
      BY <1>3, <3>1, EventFacts
    <3> QED BY <1>3, <1>4, <3>1, <3>2 DEF Arrives
  <2> QED BY <2>1, <2>2
<1>5. CASE UNCHANGED venueVars /\ Beside
  BY <1>3, <1>4, <1>5 DEF venueVars, vars, history, Beside
<1>6. CASE \E o \in Requests : Submit(o)
  <2>1. PICK o \in Requests : Submit(o)
    BY <1>6
  <2>2. \A e \in InFlight : e.id # nextID' /\ e.id \in Ids
    BY <1>1, <1>3, <2>1, NotSubmittedNow, EventFacts
  <2>3. submitAt' = [submitAt EXCEPT ![nextID'] = ns] /\ ns' = ns
        /\ batch' = batch /\ outbox' = outbox /\ flushed' = flushed
    BY <2>1 DEF Submit, VEnqueue, Enqueue, NoReply, history
  <2>4. \A e \in InFlight : submitAt'[e.id] = submitAt[e.id]
    BY <1>3, <2>2, <2>3
  <2> QED BY <1>3, <1>4, <2>3, <2>4
<1>7. CASE \E j \in Ids : CancelOrder(j)
  BY <1>3, <1>4, <1>7 DEF CancelOrder, VCancel, Cancel, NoReply, history, control
<1>8. CASE \E e \in FeedEvents : Observe(e)
  <2>1. PICK e \in FeedEvents : Observe(e)
    BY <1>8
  <2>2. ns' \in Nat /\ ns <= ns'
    BY <2>1, Observed, MatchingAssumption
  <2>3. batch' = batch /\ outbox' = outbox /\ flushed' = flushed /\ submitAt' = submitAt
    BY <2>1 DEF Observe, VSync, Sync, NoReply, history
  <2> QED BY <1>4, <2>2, <2>3
<1>9. CASE ApplyEvent
  <2>1. batch # <<>> /\ batch' = Tail(batch) /\ outbox' = outbox /\ flushed' = flushed
        /\ ns' = ns /\ submitAt' = submitAt
    BY <1>9 DEF ApplyEvent, vars, history
  <2>2. Elements(batch') \subseteq Elements(batch)
    BY <1>3, <2>1, ElementsTail
  <2> QED BY <1>2, <2>1, <2>2 DEF Arrives
<1>10. CASE FlushTail
  <2>1. Elements(outbox') = {} /\ flushed'
    BY <1>10, FlushedFacts
  <2> QED BY <2>1
<1>11. CASE CallStep
  <2>1. PICK ts \in Stamps : Called(ts) /\ Beside /\ ~flushed /\ ts = ns
    BY <1>1, <1>11 DEF CallStep
  <2>2. Carried(ts) /\ raw' \subseteq Event /\ ts \in Nat /\ ns' = ns /\ submitAt' = submitAt
    BY <2>1, CalledFacts DEF Beside
  <2>3. \A e \in raw' : e.status = "filled" => submitAt[e.id] + Entry <= ts
    BY <2>1, FillWaited
  <2>4. ASSUME NEW h \in Elements(outbox'), h.ev.status = "filled" PROVE Arrives(h.ev.id)' <= h.ready
    <3>1. CASE h \in Elements(outbox)
      BY <1>2, <2>2, <2>4, <3>1 DEF Arrives
    <3>2. CASE h.ev \in raw' /\ h.ready = ts + Response
      <4>1. submitAt[h.ev.id] \in Nat
        BY <1>3, <2>2, <3>2, EventFacts
      <4>2. submitAt[h.ev.id] + Entry <= ts
        BY <2>3, <2>4, <3>2
      <4> QED BY <1>3, <2>2, <3>2, <4>1, <4>2 DEF Arrives
    <3> QED BY <2>2, <3>1, <3>2 DEF Carried
  <2>5. ASSUME NEW e \in Elements(batch'), e.status = "filled" PROVE Arrives(e.id)' <= ns'
    <3>1. CASE e \in raw' /\ Response = 0
      <4>1. submitAt[e.id] \in Nat
        BY <1>3, <2>2, <3>1, EventFacts
      <4>2. submitAt[e.id] + Entry <= ts
        BY <2>3, <2>5, <3>1
      <4> QED BY <1>3, <2>1, <2>2, <3>1, <4>1, <4>2 DEF Arrives
    <3>2. CASE \E h \in Elements(outbox) : e = h.ev /\ h.ready <= ts
      <4>1. PICK h \in Elements(outbox) : e = h.ev /\ h.ready <= ts
        BY <3>2
      <4>2. Arrives(e.id) <= h.ready
        BY <1>2, <2>5, <4>1
      <4>3. h \in HeldRec
        BY <1>3, <4>1, ElementsType
      <4>4. h.ready \in Nat /\ e.id \in Ids
        BY <4>1, <4>3, EventFacts DEF HeldRec
      <4>5. submitAt[e.id] \in Nat
        BY <1>3, <4>4
      <4> QED BY <1>3, <2>1, <2>2, <4>1, <4>2, <4>4, <4>5 DEF Arrives
    <3> QED BY <2>2, <3>1, <3>2 DEF Carried
  <2> QED BY <2>4, <2>5
<1> QED BY <1>1, <1>5, <1>6, <1>7, <1>8, <1>9, <1>10, <1>11, Kinds

\* RoundTrip: with receive stamps in order, a strategy hears of a fill no earlier
\* than the entry and the response delay after its submit, whatever loop of
\* cascade or drain hands the fill over (latency.go, deliverDue; strategy.go).
THEOREM RoundTripHolds == RSpec => [](~BadStamps => RoundTrip)
<1>1. ASSUME RInit PROVE TripInv
  <2>1. \A i \in Ids : place[i] = "none"
    BY <1>1 DEF RInit, VInit, Init
  <2>2. Elements(outbox) = {} /\ Elements(batch) = {}
    BY <1>1, ElementsEmpty DEF RInit, VInit
  <2> QED BY <2>1, <2>2 DEF TripInv
<1>2. Core /\ TripInv => (~BadStamps => RoundTrip)
  <2> SUFFICES ASSUME Core, TripInv, ~BadStamps, session = 1, ret # "flush",
                      NEW k \in DOMAIN batch, batch[k].status = "filled"
               PROVE  submitAt[batch[k].id] + Entry + Response <= ns
    BY DEF RoundTrip
  <2>1. ~flushed
    BY DEF Core, Control
  <2>2. batch[k] \in Elements(batch)
    BY DEF Elements
  <2> QED BY <2>1, <2>2 DEF TripInv, Arrives
<1> QED BY <1>1, <1>2, InitCore, NextCore, InitIds, NextIds, InitFirst, NextFirst, NextTrip, PTL DEF RSpec
-----------------------------------------------------------------------------
(* The rate limit: the gate keeps stamps of its own and prunes them, and   *)
(* must still bound what the log shows of every window.                    *)

AtLeast(x) == {v \in Nat : v >= x}
SinceIn(x) == {r \in LogRec : r.ts >= x}
Capped(w) == \A k \in DOMAIN w :
    Cardinality({j \in 1..k : w[j].ts >= w[k].ts - Window}) <= MaxRate

\* Every accept the current window can still reach has its stamp.
RateInv ==
    session = 1 /\ MaxRate > 0 =>
        /\ stamps \in Seq(Nat)
        /\ \A x \in Int : x >= ns - Window =>
              Len(Kept(Accepts, SinceIn(x))) <= Len(Kept(stamps, AtLeast(x)))
        /\ Capped(Accepts)

LEMMA StillInWindow ==
    ASSUME NEW m \in Nat, NEW n \in Nat, m <= n, NEW w \in Nat, NEW x \in Int, x >= n - w
    PROVE  x >= m - w
  OBVIOUS

LEMMA KeptLen ==
    ASSUME NEW S, NEW s \in Seq(S), NEW G
    PROVE  Len(Kept(s, G)) \in Nat /\ Kept(s, G) \in Seq(S)
<1>1. Kept(s, G) \in Seq(S)
  BY KeptFacts
<1> QED BY <1>1

LEMMA CappedAppend ==
    ASSUME NEW w \in Seq(LogRec), NEW r \in LogRec, Capped(w), MaxRate > 0,
           Len(Kept(w, SinceIn(r.ts - Window))) < MaxRate
    PROVE  Capped(Append(w, r))
<1> DEFINE v == Append(w, r)
           G == SinceIn(r.ts - Window)
<1>1. MaxRate \in Nat /\ Window \in Nat /\ r.ts \in Nat
  BY RiskAssumption, LogRecFacts, MatchingAssumption
<1>2. /\ v \in Seq(LogRec) /\ Len(v) = Len(w) + 1 /\ Len(w) \in Nat
      /\ \A n \in 1..Len(w) : v[n] = w[n]
      /\ v[Len(w) + 1] = r
      /\ DOMAIN w = 1..Len(w) /\ DOMAIN v = 1..(Len(w) + 1)
  OBVIOUS
<1>3. Kept(v, G) = Append(Kept(w, G), r)
  <2>1. r \in G
    BY <1>1 DEF SinceIn
  <2> HIDE DEF G
  <2> QED BY <2>1, KeptAppend
<1>4. Len(Kept(v, G)) = Len(Kept(w, G)) + 1 /\ Len(Kept(w, G)) \in Nat
  <2> HIDE DEF G, v
  <2>1. Kept(w, G) \in Seq(LogRec)
    BY KeptLen
  <2> QED BY <1>3, <2>1
<1>5. Len(Kept(v, G)) = Cardinality({n \in DOMAIN v : v[n] \in G})
  <2> HIDE DEF G, v
  <2> QED BY SMTT(30), <1>2, KeptFacts
<1>6. {n \in DOMAIN v : v[n] \in G} = {n \in 1..(Len(w) + 1) : v[n].ts >= r.ts - Window}
  <2> HIDE DEF v
  <2>1. \A n \in DOMAIN v : v[n] \in LogRec
    BY <1>2
  <2> QED BY <1>2, <2>1 DEF SinceIn
<1> HIDE DEF v, G
<1>7. ASSUME NEW k \in DOMAIN v
      PROVE  Cardinality({j \in 1..k : v[j].ts >= v[k].ts - Window}) <= MaxRate
  <2>1. CASE k = Len(w) + 1
    <3>1. Len(Kept(w, G)) < MaxRate
      BY DEF G
    <3>2. Cardinality({j \in 1..k : v[j].ts >= v[k].ts - Window}) = Len(Kept(v, G))
      BY <1>2, <1>5, <1>6, <2>1
    <3> QED BY <1>1, <1>4, <3>1, <3>2
  <2>2. CASE k # Len(w) + 1
    <3>1. k \in 1..Len(w) /\ \A j \in 1..k : v[j] = w[j]
      BY <1>2, <2>2
    <3>2. {j \in 1..k : v[j].ts >= v[k].ts - Window} = {j \in 1..k : w[j].ts >= w[k].ts - Window}
      BY <3>1
    <3> QED BY <1>2, <3>1, <3>2 DEF Capped
  <2> QED BY <2>1, <2>2
<1> QED BY <1>7 DEF Capped, v

\* The gate's own list, in the words of the lemmas on sequences.
LEMMA PrunedIsKept ==
    ASSUME stamps \in Seq(Nat), NEW t \in Nat
    PROVE  /\ Pruned(t) = Kept(stamps, AtLeast(t - Window)) /\ Pruned(t) \in Seq(Nat)
           /\ \A x \in Int : x >= t - Window => Kept(Pruned(t), AtLeast(x)) = Kept(stamps, AtLeast(x))
<1>1. Window \in Nat
  BY RiskAssumption
<1>2. \A n \in DOMAIN stamps : stamps[n] \in Nat
  OBVIOUS
<1>3. {k \in DOMAIN stamps : stamps[k] >= t - Window} = {n \in DOMAIN stamps : stamps[n] \in AtLeast(t - Window)}
  BY <1>2 DEF AtLeast
<1>4. Pruned(t) = Kept(stamps, AtLeast(t - Window))
  BY <1>3 DEF Pruned, Kept
<1>5. ASSUME NEW x \in Int, x >= t - Window
      PROVE  Kept(Pruned(t), AtLeast(x)) = Kept(stamps, AtLeast(x))
  <2>1. AtLeast(t - Window) \cap AtLeast(x) = AtLeast(x)
    BY <1>1, <1>5 DEF AtLeast
  <2>2. Kept(Kept(stamps, AtLeast(t - Window)), AtLeast(x)) = Kept(stamps, AtLeast(t - Window) \cap AtLeast(x))
    BY KeptTwice
  <2> QED BY <1>4, <2>1, <2>2
<1>6. Kept(stamps, AtLeast(t - Window)) \in Seq(Nat)
  BY KeptLen
<1> QED BY <1>4, <1>5, <1>6

\* What becomes of the stamps when the gate lets an order pass, or not.
LEMMA GateStamps ==
    ASSUME Core, RateInv, session = 1, MaxRate > 0
    PROVE  /\ \A o, p, l : Allow(o, p, l, ns) =>
                 /\ stamps' \in Seq(Nat) /\ Len(Kept(stamps, AtLeast(ns - Window))) < MaxRate
                 /\ \A x \in Int : x >= ns - Window =>
                       Len(Kept(stamps', AtLeast(x))) =
                          Len(Kept(stamps, AtLeast(x))) + (IF ns >= x THEN 1 ELSE 0)
           /\ \A o, p, l : Deny(o, p, l, ns) =>
                 /\ stamps' \in Seq(Nat)
                 /\ \A x \in Int : x >= ns - Window =>
                       Len(Kept(stamps', AtLeast(x))) = Len(Kept(stamps, AtLeast(x)))
<1>1. stamps \in Seq(Nat) /\ ns \in Nat
  BY NowIsStamp DEF RateInv
<1>2. /\ Pruned(ns) = Kept(stamps, AtLeast(ns - Window)) /\ Pruned(ns) \in Seq(Nat)
      /\ \A x \in Int : x >= ns - Window => Kept(Pruned(ns), AtLeast(x)) = Kept(stamps, AtLeast(x))
  BY <1>1, PrunedIsKept
<1>3. ASSUME NEW o, NEW p, NEW l, Allow(o, p, l, ns)
      PROVE  /\ stamps' \in Seq(Nat) /\ Len(Kept(stamps, AtLeast(ns - Window))) < MaxRate
             /\ \A x \in Int : x >= ns - Window =>
                   Len(Kept(stamps', AtLeast(x))) =
                      Len(Kept(stamps, AtLeast(x))) + (IF ns >= x THEN 1 ELSE 0)
  <2>1. stamps' = Append(Pruned(ns), ns) /\ Len(Pruned(ns)) < MaxRate
    BY <1>3 DEF Allow
  <2>2. stamps' \in Seq(Nat)
    BY <1>1, <1>2, <2>1
  <2>3. ASSUME NEW x \in Int, x >= ns - Window
        PROVE  Len(Kept(stamps', AtLeast(x))) =
                  Len(Kept(stamps, AtLeast(x))) + (IF ns >= x THEN 1 ELSE 0)
    <3>1. Kept(stamps', AtLeast(x)) = IF ns \in AtLeast(x) THEN Append(Kept(Pruned(ns), AtLeast(x)), ns)
                                                           ELSE Kept(Pruned(ns), AtLeast(x))
      <4> DEFINE w == Pruned(ns)
      <4>1. w \in Seq(Nat)
        BY <1>2
      <4> HIDE DEF w
      <4>2. Kept(Append(w, ns), AtLeast(x)) = IF ns \in AtLeast(x) THEN Append(Kept(w, AtLeast(x)), ns)
                                                                   ELSE Kept(w, AtLeast(x))
        BY <1>1, <4>1, KeptAppend
      <4> QED BY <2>1, <4>2 DEF w
    <3>2. Kept(Pruned(ns), AtLeast(x)) = Kept(stamps, AtLeast(x))
      BY <1>2, <2>3
    <3>3. Kept(stamps, AtLeast(x)) \in Seq(Nat) /\ Len(Kept(stamps, AtLeast(x))) \in Nat
      BY <1>1, KeptLen
    <3>4. ns \in AtLeast(x) <=> ns >= x
      BY <1>1 DEF AtLeast
    <3> QED BY <1>1, <3>1, <3>2, <3>3, <3>4
  <2> QED BY <1>2, <2>1, <2>2, <2>3
<1>4. ASSUME NEW o, NEW p, NEW l, Deny(o, p, l, ns)
      PROVE  /\ stamps' \in Seq(Nat)
             /\ \A x \in Int : x >= ns - Window =>
                   Len(Kept(stamps', AtLeast(x))) = Len(Kept(stamps, AtLeast(x)))
  <2>1. stamps' = stamps \/ stamps' = Pruned(ns)
    BY <1>4 DEF Deny
  <2> QED BY <1>1, <1>2, <2>1
<1> QED BY <1>3, <1>4

LEMMA StampsMove ==
    ASSUME [RNext]_rvars
    PROVE  \/ stamps' = stamps
           \/ \E o \in Requests : Submit(o) \/ SubmitRefused(o)
           \/ Restart
<1>1. CASE Step
  <2>1. riskVars' = riskVars
    BY <1>1 DEF Step, Start, Return, Drain, Observe, MatchResting, SettleCascade, Eof, FlushTail,
                ApplyEvent, Applied
  <2> QED BY <2>1 DEF riskVars
<1>2. CASE (\E i \in Ids : CancelOrder(i)) \/ Fail \/ Operator \/ Restore \/ Reconcile
  BY <1>2 DEF CancelOrder, Fail, Operator, Kill, Arm, Restore, Reconcile, riskVars
<1>3. CASE UNCHANGED rvars
  BY <1>3 DEF rvars, riskVars
<1> QED BY <1>1, <1>2, <1>3 DEF RNext

LEMMA AcceptsMove ==
    ASSUME Core, [RNext]_rvars
    PROVE  Accepts' = Accepts \/ \E o \in Requests : Submit(o)
<1>1. log' = log => Accepts' = Accepts
  BY DEF Accepts
<1>2. CASE \E i \in Ids : CancelOrder(i)
  BY <1>2, Canceled
<1>3. CASE ApplyEvent
  <2>1. CASE Head(batch).status = "filled"
    BY <1>3, <2>1, AppliedFill
  <2>2. CASE Head(batch).status # "filled"
    BY <1>3, <2>2, AppliedReject
  <2> QED BY <2>1, <2>2
<1>4. CASE (UNCHANGED venueVars /\ Beside) \/ CallStep
  BY <1>1, <1>4 DEF Beside, CallStep
<1>5. CASE (\E e \in FeedEvents : Observe(e)) \/ FlushTail \/ Restart \/ Restore \/ Reconcile
  BY <1>1, <1>5 DEF Observe, FlushTail, Restart, Restore, Reconcile
<1> QED BY <1>2, <1>3, <1>4, <1>5, Kinds

LEMMA ClockMoves ==
    ASSUME Core, [RNext]_rvars, session' = 1
    PROVE  ns' \in Nat /\ ns \in Nat /\ ns <= ns'
<1>1. ns \in Nat /\ ~Restart /\ ~Restore /\ ~Reconcile
  BY NowIsStamp, FirstSteps
<1>2. CASE \E e \in FeedEvents : Observe(e)
  BY <1>1, <1>2, Observed, MatchingAssumption
<1>3. CASE ~\E e \in FeedEvents : Observe(e)
  <2>1. ns' = ns
    <3>1. CASE (UNCHANGED venueVars /\ Beside) \/ CallStep
      BY <3>1 DEF Beside, CallStep
    <3>2. CASE (\E o \in Requests : Submit(o)) \/ (\E i \in Ids : CancelOrder(i)) \/ FlushTail \/ ApplyEvent
      BY <3>2 DEF Submit, CancelOrder, control, FlushTail, ApplyEvent
    <3> QED BY <1>1, <1>3, <3>1, <3>2, Kinds
  <2> QED BY <1>1, <2>1
<1> QED BY <1>2, <1>3

LEMMA NextRate == Core /\ RateInv /\ [RNext]_rvars => RateInv'
<1> SUFFICES ASSUME Core, RateInv, [RNext]_rvars, session' = 1, MaxRate > 0
             PROVE  /\ stamps' \in Seq(Nat)
                    /\ \A x \in Int : x >= ns' - Window =>
                          Len(Kept(Accepts', SinceIn(x))) <= Len(Kept(stamps', AtLeast(x)))
                    /\ Capped(Accepts')
  BY DEF RateInv, Capped
<1>1. session = 1 /\ ~Restart
  BY FirstSteps
<1>2. /\ stamps \in Seq(Nat) /\ Capped(Accepts)
      /\ \A x \in Int : x >= ns - Window =>
            Len(Kept(Accepts, SinceIn(x))) <= Len(Kept(stamps, AtLeast(x)))
  BY <1>1 DEF RateInv
<1>3. ns' \in Nat /\ ns \in Nat /\ ns <= ns' /\ Window \in Nat /\ MaxRate \in Nat
  BY ClockMoves, RiskAssumption
<1>4. Accepts \in Seq(LogRec)
  <2>1. log \in Seq(LogRec)
    BY DEF Core, RunTypes
  <2>2. Accepts = Kept(log, AcceptsIn)
    BY <2>1, Readers
  <2> QED BY <2>1, <2>2, KeptLen
<1>5. \A x \in Int : Len(Kept(Accepts, SinceIn(x))) \in Nat /\ Len(Kept(stamps, AtLeast(x))) \in Nat
  BY <1>2, <1>4, KeptLen
<1>6. CASE stamps' = stamps /\ Accepts' = Accepts
  <2> SUFFICES ASSUME NEW x \in Int, x >= ns' - Window
               PROVE  Len(Kept(Accepts, SinceIn(x))) <= Len(Kept(stamps, AtLeast(x)))
    BY <1>2, <1>6
  <2>1. x >= ns - Window
    BY <1>3, StillInWindow
  <2> QED BY <1>2, <2>1
<1>7. CASE \E o \in Requests : SubmitRefused(o)
  <2>1. PICK o \in Requests : SubmitRefused(o)
    BY <1>7
  <2>2. Deny(o, books.pos.qty, books.pos.realized, ns) \/ Allow(o, books.pos.qty, books.pos.realized, ns)
    BY <2>1 DEF SubmitRefused
  <2>3. ns' = ns /\ Accepts' = Accepts
    BY <2>1 DEF SubmitRefused, control, Accepts
  <2>4. stamps' \in Seq(Nat)
        /\ \A x \in Int : x >= ns - Window =>
              \E n \in {0, 1} : Len(Kept(stamps', AtLeast(x))) = Len(Kept(stamps, AtLeast(x))) + n
    <3>1. CASE Deny(o, books.pos.qty, books.pos.realized, ns)
      <4>1. /\ stamps' \in Seq(Nat)
            /\ \A x \in Int : x >= ns - Window => Len(Kept(stamps', AtLeast(x))) = Len(Kept(stamps, AtLeast(x)))
        BY <1>1, <3>1, GateStamps
      <4>2. \A x \in Int : Len(Kept(stamps, AtLeast(x))) = Len(Kept(stamps, AtLeast(x))) + 0
        <5>1. ASSUME NEW b \in Nat PROVE b = b + 0
          OBVIOUS
        <5> QED BY <1>5, <5>1
      <4> QED BY <4>1, <4>2
    <3>2. CASE Allow(o, books.pos.qty, books.pos.realized, ns)
      <4>1. \A x \in Int : x >= ns - Window =>
               Len(Kept(stamps', AtLeast(x))) = Len(Kept(stamps, AtLeast(x))) + (IF ns >= x THEN 1 ELSE 0)
        BY <1>1, <3>2, GateStamps
      <4>2. stamps' \in Seq(Nat)
        BY <1>1, <3>2, GateStamps
      <4> QED BY <4>1, <4>2
    <3> QED BY <2>2, <3>1, <3>2
  <2>5. ASSUME NEW x \in Int, x >= ns' - Window
        PROVE  Len(Kept(Accepts', SinceIn(x))) <= Len(Kept(stamps', AtLeast(x)))
    <3> DEFINE a == Len(Kept(Accepts, SinceIn(x)))
               b == Len(Kept(stamps, AtLeast(x)))
               c == Len(Kept(stamps', AtLeast(x)))
    <3>1. x >= ns - Window
      BY <2>3, <2>5
    <3>2. a \in Nat /\ b \in Nat /\ a <= b
      BY <1>2, <1>5, <3>1
    <3>3. \E n \in {0, 1} : c = b + n
      BY <2>4, <3>1
    <3> HIDE DEF a, b, c
    <3>4. a <= c
      BY <3>2, <3>3
    <3> QED BY <2>3, <3>4 DEF a, c
  <2> QED BY <1>2, <2>3, <2>4, <2>5
<1>8. CASE \E o \in Requests : Submit(o)
  <2>1. PICK o \in Requests : Submit(o)
    BY <1>8
  <2> DEFINE r == OrderRecord(ns, nextID', o, "accepted")
  <2>2. Accepts' = Append(Accepts, r) /\ r \in LogRec /\ r.ts = ns
    BY <2>1, Requested DEF OrderRecord
  <2> HIDE DEF r
  <2>3. Allow(o, books.pos.qty, books.pos.realized, ns) /\ ns' = ns
    BY <2>1 DEF Submit
  <2>4. /\ stamps' \in Seq(Nat) /\ Len(Kept(stamps, AtLeast(ns - Window))) < MaxRate
        /\ \A x \in Int : x >= ns - Window =>
              Len(Kept(stamps', AtLeast(x))) = Len(Kept(stamps, AtLeast(x))) + (IF ns >= x THEN 1 ELSE 0)
    BY <1>1, <2>3, GateStamps
  <2>5. Capped(Accepts')
    <3>1. Len(Kept(Accepts, SinceIn(r.ts - Window))) <= Len(Kept(stamps, AtLeast(ns - Window)))
      BY <1>2, <1>3, <2>2
    <3>2. Len(Kept(Accepts, SinceIn(r.ts - Window))) < MaxRate
      <4>1. r.ts - Window \in Int
        BY <1>3, <2>2
      <4> QED BY <1>3, <1>5, <2>2, <2>4, <3>1, <4>1
    <3> QED BY <1>2, <1>4, <2>2, <3>2, CappedAppend
  <2>6. ASSUME NEW x \in Int, x >= ns' - Window
        PROVE  Len(Kept(Accepts', SinceIn(x))) <= Len(Kept(stamps', AtLeast(x)))
    <3>1. Kept(Accepts', SinceIn(x)) = IF r \in SinceIn(x) THEN Append(Kept(Accepts, SinceIn(x)), r)
                                                           ELSE Kept(Accepts, SinceIn(x))
      BY <1>4, <2>2, KeptAppend
    <3>2. r \in SinceIn(x) <=> ns >= x
      BY <2>2 DEF SinceIn
    <3>3. Kept(Accepts, SinceIn(x)) \in Seq(LogRec)
      BY <1>4, KeptLen
    <3>4. Len(Kept(Accepts', SinceIn(x))) = Len(Kept(Accepts, SinceIn(x))) + (IF ns >= x THEN 1 ELSE 0)
      BY <2>2, <3>1, <3>2, <3>3
    <3> DEFINE a == Len(Kept(Accepts, SinceIn(x)))
               b == Len(Kept(stamps, AtLeast(x)))
               c == Len(Kept(stamps', AtLeast(x)))
               d == Len(Kept(Accepts', SinceIn(x)))
    <3>5. x >= ns - Window
      BY <2>3, <2>6
    <3>6. a \in Nat /\ b \in Nat /\ a <= b
      BY <1>2, <1>5, <3>5
    <3>7. c = b + (IF ns >= x THEN 1 ELSE 0)
      BY <2>4, <3>5
    <3>8. d = a + (IF ns >= x THEN 1 ELSE 0)
      BY <3>4
    <3> HIDE DEF a, b, c, d
    <3>9. d <= c
      BY <3>6, <3>7, <3>8
    <3> QED BY <3>9 DEF c, d
  <2> QED BY <2>4, <2>5, <2>6
<1> QED BY <1>1, <1>6, <1>7, <1>8, StampsMove, AcceptsMove

\* RateCap: any window of the log holds at most MaxRate accepted submits: neither
\* a refusal, which prunes the stamps, nor an order the venue refuses after the
\* gate has counted it lets one through too many (risk.go, Allow and prune).
THEOREM RateHolds == RSpec => []RateCap
<1>1. ASSUME RInit PROVE RateInv
  <2>1. stamps = <<>> /\ log = <<>>
    BY <1>1 DEF RInit, RiskInit, StoreInit
  <2>2. Accepts = <<>>
    BY <2>1, Readers, KeptEmpty
  <2>3. Kept(<<>>, {}) = <<>> /\ \A G : Len(Kept(<<>>, G)) = 0
    BY KeptEmpty
  <2>4. stamps \in Seq(Nat) /\ Capped(<<>>)
    BY <2>1 DEF Capped
  <2>5. \A x : Len(Kept(Accepts, SinceIn(x))) = 0 /\ Len(Kept(stamps, AtLeast(x))) = 0
    BY <2>1, <2>2, <2>3
  <2> QED BY <2>2, <2>4, <2>5 DEF RateInv
<1>2. RateInv => RateCap
  BY DEF RateInv, RateCap, Capped
<1> QED BY <1>1, <1>2, InitCore, NextCore, NextRate, PTL DEF RSpec
=============================================================================
