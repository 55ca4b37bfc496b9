---------------------------- MODULE L3VenueProofs ----------------------------
(***************************************************************************)
(* Proofs about L3Book.tla and L3Venue.tla: the order-by-order book, and    *)
(* the ghosts that count what is in front of them in it.                   *)
(***************************************************************************)
EXTENDS L3Venue, MatchingProofs

-----------------------------------------------------------------------------
(* The book. *)

Resting == [side : {"bid", "ask"}, px : Int, qty : Nat \ {0}]
PlaceOf(o) == <<o.side, o.px>>
StandAt(b, l) == {id \in DOMAIN b.byID : PlaceOf(b.byID[id]) = l}

\* The two halves agree: the queue of a level has the orders of that level and
\* no other, each once.
BookOK(b) ==
    /\ b = [byID |-> b.byID, level |-> b.level]
    /\ IsFiniteSet(DOMAIN b.byID) /\ DOMAIN b.byID \subseteq Nat
    /\ b.byID \in [DOMAIN b.byID -> Resting]
    /\ b.level \in [Levels -> Seq(Nat)]
    /\ \A id \in DOMAIN b.byID : PlaceOf(b.byID[id]) \in Levels
    /\ \A l \in Levels : Elements(b.level[l]) = StandAt(b, l) /\ EachOnce(b.level[l])

LEMMA EmptyBookFacts == BookOK(EmptyBook)
<1>1. /\ EmptyBook.byID = <<>> /\ DOMAIN EmptyBook.byID = {}
      /\ EmptyBook = [byID |-> EmptyBook.byID, level |-> EmptyBook.level]
      /\ EmptyBook.level = [l \in Levels |-> <<>>]
  BY DEF EmptyBook
<1>2. IsFiniteSet({})
  BY FS_EmptySet
<1>3. EmptyBook.byID \in [{} -> Resting]
  <2>1. <<>> \in [{} -> Resting]
    OBVIOUS
  <2> QED BY <1>1, <2>1
<1>4. \A l \in Levels : EmptyBook.level[l] = <<>> /\ StandAt(EmptyBook, l) = {}
  BY <1>1 DEF StandAt
<1>5. EachOnce(<<>>)
  BY DEF EachOnce
<1>6. EmptyBook.level \in [Levels -> Seq(Nat)]
  BY <1>1
<1> QED BY <1>1, <1>2, <1>3, <1>4, <1>5, <1>6, ElementsEmpty DEF BookOK

Except(id) == Nat \ {id}

LEMMA DropFacts ==
    ASSUME NEW b, BookOK(b), NEW id
    PROVE  /\ BookOK(Drop(b, id))
           /\ DOMAIN Drop(b, id).byID = DOMAIN b.byID \ {id}
           /\ \A x \in DOMAIN b.byID \ {id} : Drop(b, id).byID[x] = b.byID[x]
           /\ \A l \in Levels : Drop(b, id).level[l] = Kept(b.level[l], Except(id))
<1>0. /\ b = [byID |-> b.byID, level |-> b.level]
      /\ IsFiniteSet(DOMAIN b.byID) /\ DOMAIN b.byID \subseteq Nat
      /\ b.byID \in [DOMAIN b.byID -> Resting]
      /\ b.level \in [Levels -> Seq(Nat)]
      /\ \A x \in DOMAIN b.byID : PlaceOf(b.byID[x]) \in Levels
      /\ \A l \in Levels : Elements(b.level[l]) = StandAt(b, l) /\ EachOnce(b.level[l])
  BY DEF BookOK
<1>1. ASSUME NEW l \in Levels, id \notin StandAt(b, l)
      PROVE  Kept(b.level[l], Except(id)) = b.level[l]
  <2>1. b.level[l] \in Seq(Nat) /\ Elements(b.level[l]) = StandAt(b, l)
    BY <1>0
  <2>2. Elements(b.level[l]) \subseteq Except(id)
    BY <1>0, <1>1, <2>1 DEF StandAt, Except
  <2> QED BY <2>1, <2>2, KeptAll
<1>2. CASE id \notin DOMAIN b.byID
  <2>1. Drop(b, id) = b
    BY <1>2 DEF Drop
  <2>2. \A l \in Levels : id \notin StandAt(b, l)
    BY <1>2 DEF StandAt
  <2> QED BY <1>1, <1>2, <2>1, <2>2
<1>3. CASE id \in DOMAIN b.byID
  <2> DEFINE at == <<b.byID[id].side, b.byID[id].px>>
             c == Drop(b, id)
             m == [b.level EXCEPT ![at] = Pick(@, {k \in DOMAIN @ : @[k] # id})]
  <2>1. /\ c = [byID |-> Restrict(b.byID, DOMAIN b.byID \ {id}), level |-> m]
        /\ at \in Levels /\ at = PlaceOf(b.byID[id])
    BY <1>0, <1>3 DEF Drop, PlaceOf
  <2>2. c.byID = [x \in DOMAIN b.byID \ {id} |-> b.byID[x]] /\ c.level = m
        /\ c = [byID |-> c.byID, level |-> c.level]
    BY SMTT(30), <2>1 DEF Restrict
  <2>3. m[at] = Kept(b.level[at], Except(id))
    <3>1. m[at] = Pick(b.level[at], {k \in DOMAIN b.level[at] : b.level[at][k] # id})
      BY <1>0, <2>1
    <3>2. b.level[at] \in Seq(Nat)
      BY <1>0, <2>1
    <3>3. \A k \in DOMAIN b.level[at] : b.level[at][k] # id <=> b.level[at][k] \in Except(id)
      BY <3>2 DEF Except
    <3>4. {k \in DOMAIN b.level[at] : b.level[at][k] # id}
             = {k \in DOMAIN b.level[at] : b.level[at][k] \in Except(id)}
      BY <3>3
    <3> QED BY <3>1, <3>4 DEF Kept
  <2>4. ASSUME NEW l \in Levels PROVE c.level[l] = Kept(b.level[l], Except(id))
    <3>1. CASE l = at
      BY ZenonT(30), <2>2, <2>3, <3>1
    <3>2. CASE l # at
      <4>1. id \notin StandAt(b, l)
        BY <2>1, <3>2 DEF StandAt
      <4>2. m[l] = b.level[l]
        BY <1>0, <3>2
      <4> QED BY <1>1, <2>2, <4>1, <4>2
    <3> QED BY SMTT(30), <3>1, <3>2
  <2>5. m \in [Levels -> Seq(Nat)]
    <3>1. DOMAIN m = Levels /\ m = [l \in Levels |-> m[l]]
      BY <1>0
    <3>2. ASSUME NEW l \in Levels PROVE m[l] \in Seq(Nat)
      <4>1. b.level[l] \in Seq(Nat) /\ m[l] = Kept(b.level[l], Except(id))
        BY <1>0, <2>2, <2>4
      <4>2. Kept(b.level[l], Except(id)) \in Seq(Nat)
        BY <4>1, KeptFacts
      <4> QED BY <4>1, <4>2
    <3> HIDE DEF m
    <3> QED BY <3>1, <3>2
  <2> HIDE DEF m, c
  <2>6. /\ DOMAIN c.byID = DOMAIN b.byID \ {id}
        /\ \A x \in DOMAIN b.byID \ {id} : c.byID[x] = b.byID[x]
    BY <2>2
  <2>7. IsFiniteSet(DOMAIN c.byID)
    BY <1>0, <2>6, FS_Subset
  <2>8. c.byID \in [DOMAIN c.byID -> Resting]
    BY <1>0, <2>2, <2>6
  <2>9. ASSUME NEW l \in Levels
        PROVE  Elements(c.level[l]) = StandAt(c, l) /\ EachOnce(c.level[l])
    <3>1. b.level[l] \in Seq(Nat) /\ Elements(b.level[l]) = StandAt(b, l) /\ EachOnce(b.level[l])
      BY <1>0
    <3>2. Elements(c.level[l]) = Elements(b.level[l]) \cap Except(id)
      BY <2>4, <3>1, ElementsKept
    <3>3. EachOnce(c.level[l])
      BY <2>4, <3>1, KeptOrder
    <3>4. StandAt(b, l) \cap Except(id) = StandAt(c, l)
      BY <1>0, <2>6 DEF StandAt, Except
    <3> QED BY <3>1, <3>2, <3>3, <3>4
  <2>10. BookOK(c)
    BY <1>0, <2>2, <2>5, <2>6, <2>7, <2>8, <2>9 DEF BookOK
  <2> QED BY <2>4, <2>6, <2>10 DEF c
<1> QED BY <1>2, <1>3

\* What a row leaves of a queue, but for the order it may put at the back.
LEMMA AddFacts ==
    ASSUME NEW b, BookOK(b), NEW r \in Rows, ~(r.id = 0 \/ r.qty <= 0)
    PROVE  /\ BookOK(Add(b, r))
           /\ DOMAIN Add(b, r).byID = DOMAIN b.byID \cup {r.id}
           /\ Add(b, r).byID[r.id] = [side |-> r.side, px |-> r.px, qty |-> r.qty]
           /\ \A x \in DOMAIN b.byID \ {r.id} : Add(b, r).byID[x] = b.byID[x]
           /\ \A l \in Levels : Add(b, r).level[l] =
                 IF l = PlaceOf(r) THEN Append(Kept(b.level[l], Except(r.id)), r.id)
                                   ELSE Kept(b.level[l], Except(r.id))
<1> DEFINE id == r.id
           at == PlaceOf(r)
           o == [side |-> r.side, px |-> r.px, qty |-> r.qty]
           c == Drop(b, id)
           a == Add(b, r)
<1>1. r \in RowRec /\ id \in Nat /\ at \in Levels /\ o \in Resting /\ PlaceOf(o) = at
  BY RowsAssumption DEF RowRec, Resting, Levels, PlaceOf
<1>2. /\ BookOK(c) /\ DOMAIN c.byID = DOMAIN b.byID \ {id}
      /\ \A x \in DOMAIN b.byID \ {id} : c.byID[x] = b.byID[x]
      /\ \A l \in Levels : c.level[l] = Kept(b.level[l], Except(id))
  BY DropFacts
<1>3. a = [byID |-> [x \in DOMAIN c.byID \cup {id} |-> IF x = id THEN o ELSE c.byID[x]],
           level |-> [c.level EXCEPT ![at] = Append(@, id)]]
  BY DEF Add, PlaceOf
<1> HIDE DEF a, c, at, id, o
<1>4. /\ IsFiniteSet(DOMAIN c.byID) /\ DOMAIN c.byID \subseteq Nat
      /\ c.byID \in [DOMAIN c.byID -> Resting] /\ c.level \in [Levels -> Seq(Nat)]
      /\ \A x \in DOMAIN c.byID : PlaceOf(c.byID[x]) \in Levels
      /\ \A l \in Levels : Elements(c.level[l]) = StandAt(c, l) /\ EachOnce(c.level[l])
  BY <1>2 DEF BookOK
<1>5. a.byID = [x \in DOMAIN c.byID \cup {id} |-> IF x = id THEN o ELSE c.byID[x]]
  BY <1>3
<1>6. /\ a.level = [c.level EXCEPT ![at] = Append(@, id)]
      /\ a = [byID |-> a.byID, level |-> a.level]
  BY <1>3
<1>7. /\ DOMAIN a.byID = DOMAIN b.byID \cup {id}
      /\ a.byID[id] = o
      /\ \A x \in DOMAIN b.byID \ {id} : a.byID[x] = b.byID[x]
  BY <1>2, <1>5
<1>8. IsFiniteSet(DOMAIN a.byID)
  <2>1. IsFiniteSet(DOMAIN c.byID \cup {id})
    BY <1>4, FS_AddElement
  <2> QED BY <1>5, <2>1
<1>9. DOMAIN a.byID \subseteq Nat /\ a.byID \in [DOMAIN a.byID -> Resting]
  BY <1>1, <1>4, <1>5
<1>10. a.level \in [Levels -> Seq(Nat)]
  <2>1. ASSUME NEW l \in Levels PROVE Append(c.level[l], id) \in Seq(Nat)
    BY <1>1, <1>4
  <2> QED BY <1>4, <1>6, <2>1
<1>11. \A x \in DOMAIN a.byID : PlaceOf(a.byID[x]) \in Levels
  BY <1>1, <1>4, <1>5
<1>12. \A l \in Levels : a.level[l] = IF l = at THEN Append(c.level[l], id) ELSE c.level[l]
  BY <1>4, <1>6
<1>13. ASSUME NEW l \in Levels
       PROVE  Elements(a.level[l]) = StandAt(a, l) /\ EachOnce(a.level[l])
  <2>1. c.level[l] \in Seq(Nat) /\ Elements(c.level[l]) = StandAt(c, l) /\ EachOnce(c.level[l])
    BY <1>4
  <2>2. id \notin StandAt(c, l)
    BY <1>2 DEF StandAt
  <2>3. CASE l = at
    <3>1. a.level[l] = Append(c.level[l], id)
      BY <1>12, <2>3
    <3>2. Elements(a.level[l]) = StandAt(c, l) \cup {id} /\ EachOnce(a.level[l])
      BY <1>1, <2>1, <2>2, <3>1, ElementsAppend, AppendKeepsOrder
    <3>3. StandAt(a, l) = StandAt(c, l) \cup {id}
      BY <1>1, <1>2, <1>5, <2>3 DEF StandAt
    <3> QED BY <3>2, <3>3
  <2>4. CASE l # at
    <3>1. a.level[l] = c.level[l]
      BY <1>12, <2>4
    <3>2. StandAt(a, l) = StandAt(c, l)
      BY <1>1, <1>2, <1>5, <2>4 DEF StandAt
    <3> QED BY <2>1, <3>1, <3>2
  <2> QED BY <2>3, <2>4
<1>14. BookOK(a)
  BY <1>6, <1>8, <1>9, <1>10, <1>11, <1>13 DEF BookOK
<1>15. \A l \in Levels : a.level[l] = IF l = at THEN Append(Kept(b.level[l], Except(id)), id)
                                                ELSE Kept(b.level[l], Except(id))
  BY <1>2, <1>12
<1> QED BY <1>7, <1>14, <1>15 DEF a, at, id, o

\* The row's order is out of the queue it was in, and at the back of its own if
\* it is live.
Moves(b, c, r) ==
    /\ DOMAIN c.byID \ {r.id} = DOMAIN b.byID \ {r.id}
    /\ \A x \in DOMAIN c.byID \ {r.id} : c.byID[x] = b.byID[x]
    /\ r.id \in DOMAIN c.byID =>
          /\ r.action # "cancel" /\ r.qty > 0
          /\ c.byID[r.id] = [side |-> r.side, px |-> r.px, qty |-> r.qty]
    /\ r.action = "modify" /\ r.id \in DOMAIN b.byID => r.qty <= 0 \/ LosesPlace(b.byID[r.id], r)
    /\ \A l \in Levels : c.level[l] =
          IF r.id \in DOMAIN c.byID /\ l = PlaceOf(r)
          THEN Append(Kept(b.level[l], Except(r.id)), r.id)
          ELSE Kept(b.level[l], Except(r.id))

\* It has a smaller size where it stands.
Shrinks(b, c, r) ==
    /\ DOMAIN c.byID = DOMAIN b.byID /\ c.level = b.level
    /\ r.id \in DOMAIN b.byID /\ r.qty > 0 /\ ~LosesPlace(b.byID[r.id], r)
    /\ \A x \in DOMAIN b.byID \ {r.id} : c.byID[x] = b.byID[x]
    /\ c.byID[r.id] = [side |-> r.side, px |-> r.px, qty |-> r.qty]

RowStep(b, c, r) ==
    \/ r.action = "clear" /\ c = EmptyBook
    \/ r.action # "clear" /\ Moves(b, c, r)
    \/ r.action = "modify" /\ Shrinks(b, c, r)
    \/ r.action = "add" /\ r.id \in DOMAIN b.byID /\ c = b

LEMMA StandsStill ==
    ASSUME NEW b, BookOK(b), NEW id, id \notin DOMAIN b.byID, NEW l \in Levels
    PROVE  Kept(b.level[l], Except(id)) = b.level[l]
<1>1. Drop(b, id) = b
  BY DEF Drop
<1> QED BY <1>1, DropFacts

LEMMA AddMoves ==
    ASSUME NEW b, BookOK(b), NEW r \in Rows, r.action \in {"add", "modify"},
           r.action = "modify" => r.id \notin DOMAIN b.byID
    PROVE  BookOK(Add(b, r)) /\ RowStep(b, Add(b, r), r)
<1>1. r \in RowRec
  BY RowsAssumption
<1>2. CASE r.id = 0 \/ r.qty <= 0
  <2>1. Add(b, r) = b
    BY <1>2 DEF Add
  <2>2. CASE r.id \in DOMAIN b.byID
    BY <2>1, <2>2 DEF RowStep
  <2>3. CASE r.id \notin DOMAIN b.byID
    <3>1. Moves(b, b, r)
      BY <2>3, StandsStill DEF Moves
    <3> QED BY <2>1, <3>1 DEF RowStep
  <2> QED BY <2>2, <2>3
<1>3. CASE ~(r.id = 0 \/ r.qty <= 0)
  <2>1. /\ BookOK(Add(b, r))
        /\ DOMAIN Add(b, r).byID = DOMAIN b.byID \cup {r.id}
        /\ Add(b, r).byID[r.id] = [side |-> r.side, px |-> r.px, qty |-> r.qty]
        /\ \A x \in DOMAIN b.byID \ {r.id} : Add(b, r).byID[x] = b.byID[x]
        /\ \A l \in Levels : Add(b, r).level[l] =
              IF l = PlaceOf(r) THEN Append(Kept(b.level[l], Except(r.id)), r.id)
                                ELSE Kept(b.level[l], Except(r.id))
    BY <1>3, AddFacts
  <2>2. r.qty > 0
    BY <1>1, <1>3 DEF RowRec
  <2>3. Moves(b, Add(b, r), r)
    BY <2>1, <2>2 DEF Moves
  <2> QED BY <2>1, <2>3 DEF RowStep
<1> QED BY <1>2, <1>3

LEMMA DropMoves ==
    ASSUME NEW b, BookOK(b), NEW r \in Rows, r.action \in {"cancel", "modify"},
           r.action = "modify" => r.qty <= 0
    PROVE  BookOK(Drop(b, r.id)) /\ RowStep(b, Drop(b, r.id), r)
<1>1. /\ BookOK(Drop(b, r.id))
      /\ DOMAIN Drop(b, r.id).byID = DOMAIN b.byID \ {r.id}
      /\ \A x \in DOMAIN b.byID \ {r.id} : Drop(b, r.id).byID[x] = b.byID[x]
      /\ \A l \in Levels : Drop(b, r.id).level[l] = Kept(b.level[l], Except(r.id))
  BY DropFacts
<1>2. Moves(b, Drop(b, r.id), r)
  BY <1>1 DEF Moves
<1> QED BY <1>1, <1>2 DEF RowStep

\* modify of an order that counts as a new one.
LEMMA LosesMoves ==
    ASSUME NEW b, BookOK(b), NEW r \in Rows, r.action = "modify",
           r.id \in DOMAIN b.byID, r.qty > 0, LosesPlace(b.byID[r.id], r)
    PROVE  LET c == Add(Drop(b, r.id), r) IN BookOK(c) /\ RowStep(b, c, r)
<1> DEFINE d == Drop(b, r.id)
           c == Add(d, r)
<1>1. /\ BookOK(d)
      /\ DOMAIN d.byID = DOMAIN b.byID \ {r.id}
      /\ \A x \in DOMAIN b.byID \ {r.id} : d.byID[x] = b.byID[x]
      /\ \A l \in Levels : d.level[l] = Kept(b.level[l], Except(r.id))
  BY DropFacts
<1>2. \A l \in Levels : Kept(d.level[l], Except(r.id)) = Kept(b.level[l], Except(r.id))
  <2> TAKE l \in Levels
  <2>1. r.id \notin DOMAIN d.byID
    BY <1>1
  <2>2. Kept(d.level[l], Except(r.id)) = d.level[l]
    BY <1>1, <2>1, StandsStill
  <2> QED BY <1>1, <2>2
<1> HIDE DEF d
<1>3. BookOK(c) /\ RowStep(d, c, r)
  BY <1>1, AddMoves
<1> HIDE DEF c
<1>4. Moves(d, c, r)
  BY <1>1, <1>3 DEF RowStep, Shrinks
<1>5. Moves(b, c, r)
  BY <1>1, <1>2, <1>4 DEF Moves
<1>6. RowStep(b, c, r)
  BY <1>5 DEF RowStep
<1> QED BY <1>3, <1>6 DEF c, d

LEMMA ShrinkFacts ==
    ASSUME NEW b, BookOK(b), NEW r \in Rows, r.action = "modify",
           r.id \in DOMAIN b.byID, r.qty > 0, ~LosesPlace(b.byID[r.id], r)
    PROVE  LET c == [b EXCEPT !.byID[r.id].qty = r.qty] IN BookOK(c) /\ RowStep(b, c, r)
<1> DEFINE id == r.id
           c == [b EXCEPT !.byID[id].qty = r.qty]
<1>0. /\ b = [byID |-> b.byID, level |-> b.level]
      /\ IsFiniteSet(DOMAIN b.byID) /\ DOMAIN b.byID \subseteq Nat
      /\ b.byID \in [DOMAIN b.byID -> Resting]
      /\ b.level \in [Levels -> Seq(Nat)]
      /\ \A x \in DOMAIN b.byID : PlaceOf(b.byID[x]) \in Levels
      /\ \A l \in Levels : Elements(b.level[l]) = StandAt(b, l) /\ EachOnce(b.level[l])
  BY DEF BookOK
<1>1. r \in RowRec /\ b.byID[id] \in Resting
  BY <1>0, RowsAssumption
<1>2. b.byID[id].px = r.px /\ b.byID[id].side = r.side
  BY DEF LosesPlace
<1>3. /\ c.byID = [b.byID EXCEPT ![id] = [side |-> r.side, px |-> r.px, qty |-> r.qty]]
      /\ c.level = b.level /\ c = [byID |-> c.byID, level |-> c.level]
  <2>1. c = [byID |-> [b.byID EXCEPT ![id].qty = r.qty], level |-> b.level]
    <3> DEFINE m == [b.byID EXCEPT ![id].qty = r.qty]
    <3>1. c = [b EXCEPT !.byID = m]
      OBVIOUS
    <3> HIDE DEF m, c
    <3>2. ASSUME NEW f, NEW g PROVE [[byID |-> f, level |-> g] EXCEPT !.byID = m]
                                       = [byID |-> m, level |-> g]
      OBVIOUS
    <3>3. c = [byID |-> m, level |-> b.level]
      BY <1>0, <3>1, <3>2
    <3> QED BY <3>3 DEF m
  <2>2. [b.byID[id] EXCEPT !.qty = r.qty] = [side |-> r.side, px |-> r.px, qty |-> r.qty]
    BY <1>1, <1>2 DEF Resting
  <2>3. [b.byID EXCEPT ![id].qty = r.qty]
           = [b.byID EXCEPT ![id] = [side |-> r.side, px |-> r.px, qty |-> r.qty]]
    BY <2>2
  <2> QED BY <2>1, <2>3
<1> HIDE DEF c
<1>4. [side |-> r.side, px |-> r.px, qty |-> r.qty] \in Resting
  BY <1>1 DEF RowRec, Resting
<1>5. /\ DOMAIN c.byID = DOMAIN b.byID
      /\ c.byID[id] = [side |-> r.side, px |-> r.px, qty |-> r.qty]
      /\ \A x \in DOMAIN b.byID \ {id} : c.byID[x] = b.byID[x]
      /\ c.byID \in [DOMAIN c.byID -> Resting]
  BY <1>0, <1>3, <1>4
<1>6. PlaceOf(c.byID[id]) = PlaceOf(b.byID[id])
  BY <1>2, <1>5 DEF PlaceOf
<1>7. \A x \in DOMAIN b.byID : PlaceOf(c.byID[x]) = PlaceOf(b.byID[x])
  BY <1>5, <1>6
<1>8. \A l \in Levels : StandAt(c, l) = StandAt(b, l)
  BY <1>5, <1>7 DEF StandAt
<1>9. BookOK(c)
  BY <1>0, <1>3, <1>5, <1>7, <1>8 DEF BookOK
<1>10. Shrinks(b, c, r)
  BY <1>3, <1>5 DEF Shrinks
<1> QED BY <1>9, <1>10 DEF RowStep, c

LEMMA RowFacts ==
    ASSUME NEW b, BookOK(b), NEW r \in Rows
    PROVE  BookOK(ApplyRow(b, r)) /\ RowStep(b, ApplyRow(b, r), r)
<1>1. r \in RowRec /\ r.action \in {"add", "cancel", "modify", "clear"} /\ r.qty \in Int
  BY RowsAssumption DEF RowRec
<1>2. CASE r.action = "clear"
  BY <1>2, EmptyBookFacts DEF ApplyRow, RowStep
<1>3. CASE r.action = "add"
  BY <1>3, AddMoves DEF ApplyRow
<1>4. CASE r.action = "cancel"
  BY <1>4, DropMoves DEF ApplyRow
<1>5. CASE r.action = "modify"
  <2>1. ApplyRow(b, r) = Modify(b, r)
    BY <1>5 DEF ApplyRow
  <2>2. CASE r.id \notin DOMAIN b.byID
    BY <1>5, <2>1, <2>2, AddMoves DEF Modify
  <2>3. CASE r.id \in DOMAIN b.byID /\ r.qty <= 0
    BY <1>5, <2>1, <2>3, DropMoves DEF Modify
  <2>4. CASE r.id \in DOMAIN b.byID /\ ~(r.qty <= 0) /\ LosesPlace(b.byID[r.id], r)
    <3>1. Modify(b, r) = Add(Drop(b, r.id), r) /\ r.qty > 0
      BY <1>1, <2>4 DEF Modify
    <3> QED BY <1>5, <2>1, <2>4, <3>1, LosesMoves
  <2>5. CASE r.id \in DOMAIN b.byID /\ ~(r.qty <= 0) /\ ~LosesPlace(b.byID[r.id], r)
    <3>1. Modify(b, r) = [b EXCEPT !.byID[r.id].qty = r.qty] /\ r.qty > 0
      BY <1>1, <2>5 DEF Modify
    <3> QED BY <1>5, <2>1, <2>5, <3>1, ShrinkFacts
  <2> QED BY <2>2, <2>3, <2>4, <2>5
<1> QED BY <1>1, <1>2, <1>3, <1>4, <1>5

\* Only a row changes the book.
LEMMA BookSteps ==
    ASSUME [LNext]_l3vars
    PROVE  book' = book \/ \E r \in Rows, ts \in Stamps : BookRow(r, ts)
<1>1. CASE \E o \in Requests : LEnqueue(o)
  BY <1>1 DEF LEnqueue
<1>2. CASE \E i \in Ids : LCancel(i)
  BY <1>2 DEF LCancel
<1>3. CASE \E ts \in Stamps : LSettle(ts)
  BY <1>3 DEF LSettle, SettleL3
<1>4. CASE \E t \in Trades, ts \in Stamps : LTrade(t, ts)
  BY <1>4 DEF LTrade
<1>5. CASE LFlush \/ LAdoptFirst \/ UNCHANGED l3vars
  BY <1>5 DEF LFlush, SettleL3, LAdoptFirst, l3vars
<1> QED BY <1>1, <1>2, <1>3, <1>4, <1>5 DEF LNext

BookInv == BookOK(book)

LEMMA NextBook == BookInv /\ [LNext]_l3vars => BookInv'
<1> SUFFICES ASSUME BookOK(book), [LNext]_l3vars PROVE BookOK(book')
  BY DEF BookInv
<1>1. CASE book' = book
  BY <1>1
<1>2. CASE \E r \in Rows, ts \in Stamps : BookRow(r, ts)
  <2>1. PICK r \in Rows : book' = ApplyRow(book, r)
    BY <1>2 DEF BookRow
  <2> QED BY <2>1, RowFacts
<1> QED BY <1>1, <1>2, BookSteps

LEMMA BookHolds == LSpec => []BookInv
<1>1. LInit => BookInv
  BY EmptyBookFacts DEF LInit, BookInit, BookInv
<1> QED BY <1>1, NextBook, PTL DEF LSpec

\* The two halves of the book agree, for any rows: also a re-add of a live id.
THEOREM BookIndexedHolds == LSpec => []BookIndexed
<1>1. BookInv => BookIndexed
  <2> SUFFICES ASSUME BookOK(book) PROVE BookIndexed
    BY DEF BookInv
  <2>1. /\ book.level \in [Levels -> Seq(Nat)]
        /\ \A l \in Levels : /\ Elements(book.level[l]) = StandAt(book, l)
                             /\ EachOnce(book.level[l])
    BY DEF BookOK
  <2>2. ASSUME NEW l \in Levels PROVE Range(book.level[l]) \subseteq DOMAIN book.byID
    BY <2>1 DEF Elements, StandAt, Range
  <2>3. ASSUME NEW id \in DOMAIN book.byID, NEW l \in Levels
        PROVE  Cardinality({k \in DOMAIN book.level[l] : book.level[l][k] = id}) =
                  (IF l = <<book.byID[id].side, book.byID[id].px>> THEN 1 ELSE 0)
    <3> DEFINE s == book.level[l]
               K == {k \in DOMAIN s : s[k] = id}
    <3>1. Elements(s) = StandAt(book, l) /\ EachOnce(s)
      BY <2>1
    <3>2. CASE l = <<book.byID[id].side, book.byID[id].px>>
      <4>1. id \in Elements(s)
        BY <3>1, <3>2 DEF StandAt, PlaceOf
      <4>2. PICK k \in DOMAIN s : s[k] = id
        BY <4>1 DEF Elements
      <4>3. K = {k}
        BY <3>1, <4>2 DEF EachOnce
      <4>4. Cardinality({k}) = 1
        BY FS_Singleton
      <4> QED BY <3>2, <4>3, <4>4
    <3>3. CASE l # <<book.byID[id].side, book.byID[id].px>>
      <4>1. id \notin Elements(s)
        BY <3>1, <3>3 DEF StandAt, PlaceOf
      <4>2. K = {}
        BY <4>1 DEF Elements
      <4>3. Cardinality({}) = 0
        BY FS_EmptySet
      <4> QED BY <3>3, <4>2, <4>3
    <3> QED BY <3>2, <3>3
  <2> QED BY <2>2, <2>3 DEF BookIndexed
<1> QED BY <1>1, BookHolds, PTL

\* An order keeps its place through every row that does not take it from it.
LEMMA PlaceStep ==
    ASSUME NEW b, BookOK(b), NEW c, NEW r \in RowRec, RowStep(b, c, r),
           r.action = "add" => r.id \notin DOMAIN b.byID,
           NEW l \in Levels, NEW x, NEW y,
           Precedes(b.level[l], x, y), x \in Elements(c.level[l]), y \in Elements(c.level[l]),
           BookOK(c), c.byID[x].qty <= b.byID[x].qty
    PROVE  Precedes(c.level[l], x, y)
<1> DEFINE s == b.level[l]
           id == r.id
<1>1. /\ s \in Seq(Nat) /\ Elements(s) = StandAt(b, l)
      /\ Elements(c.level[l]) = StandAt(c, l)
  BY DEF BookOK
<1>2. x \in Elements(s) /\ y \in Elements(s)
  BY DEF Precedes, Elements
<1>3. x \in DOMAIN b.byID /\ x \in DOMAIN c.byID /\ y \in DOMAIN b.byID
      /\ PlaceOf(b.byID[x]) = l /\ PlaceOf(c.byID[x]) = l
  BY <1>1, <1>2 DEF StandAt
<1>4. CASE c = EmptyBook
  <2>1. DOMAIN c.byID = {}
    BY <1>4 DEF EmptyBook
  <2> QED BY <1>3, <2>1
<1>5. CASE c.level = b.level
  BY <1>5
<1>6. CASE r.action # "clear" /\ Moves(b, c, r)
  <2> DEFINE q == Kept(s, Except(id))
  <2>1. c.level[l] = IF id \in DOMAIN c.byID /\ l = PlaceOf(r) THEN Append(q, id) ELSE q
    BY <1>6 DEF Moves
  <2>2. q \in Seq(Nat)
    BY <1>1, KeptFacts
  <2>3. Elements(q) = Elements(s) \cap Except(id)
    BY <1>1, ElementsKept
  <2>4. x \in Nat /\ y \in Nat
    BY <1>1, <1>2, ElementsType
  <2>5. id \notin Elements(q)
    BY <2>3 DEF Except
  <2>6. \A u, v \in Except(id) : Precedes(s, u, v) => Precedes(q, u, v)
    BY <1>1, KeptOrder
  <2>7. x # id
    <3> SUFFICES ASSUME x = id PROVE FALSE
      OBVIOUS
    <3>1. /\ c.byID[id] = [side |-> r.side, px |-> r.px, qty |-> r.qty]
          /\ r.action # "cancel" /\ r.qty > 0
          /\ r.action = "modify" => r.qty <= 0 \/ LosesPlace(b.byID[id], r)
      BY <1>3, <1>6 DEF Moves
    <3>2. r.qty \in Int /\ b.byID[id].qty \in Int
      <4>1. c.byID[id] \in Resting /\ b.byID[id] \in Resting
        BY <1>3 DEF BookOK
      <4> QED BY <3>1, <4>1 DEF Resting
    <3>3. b.byID[id].px = r.px /\ b.byID[id].side = r.side
      BY <1>3, <3>1 DEF PlaceOf
    <3>4. r.qty <= b.byID[id].qty
      BY <3>1
    <3>5. ~LosesPlace(b.byID[id], r)
      BY <3>2, <3>3, <3>4 DEF LosesPlace
    <3>6. r.action # "modify" /\ r.action # "add"
      BY <1>3, <3>1, <3>2, <3>5
    <3> QED BY <1>6, <3>1, <3>6 DEF RowRec
  <2> HIDE DEF q, id, s
  <2>8. CASE y # id
    <3>1. Precedes(q, x, y)
      BY <2>4, <2>6, <2>7, <2>8 DEF Except, s
    <3>2. \A u, v : Precedes(q, u, v) => Precedes(Append(q, id), u, v)
      <4>1. id \in Nat
        BY DEF RowRec, id
      <4> QED BY <2>2, <2>5, <4>1, AppendKeepsOrder
    <3> QED BY <2>1, <3>1, <3>2
  <2>9. CASE y = id
    <3>1. c.level[l] = Append(q, id) /\ id \in Nat
      BY <2>1, <2>4, <2>5, <2>9
    <3>2. x \in Elements(q)
      BY <1>2, <2>3, <2>4, <2>7 DEF Except
    <3>3. Precedes(Append(q, id), x, id)
      BY <2>2, <2>5, <3>1, <3>2, AppendKeepsOrder
    <3> QED BY <2>9, <3>1, <3>3
  <2> QED BY <2>8, <2>9
<1> QED BY <1>4, <1>5, <1>6 DEF RowStep, Shrinks

\* A gapless feed adds no id that is live.
THEOREM PlaceKeptHolds == ~ReAdds => (LSpec => PlaceKept)
<1> SUFFICES ASSUME ~ReAdds PROVE LSpec => PlaceKept
  OBVIOUS
<1> DEFINE Kept1 == \A l \in Levels : \A x, y \in Range(book.level[l]) :
                       /\ InFront(book, l, x, y)
                       /\ {x, y} \subseteq Range(book'.level[l])
                       /\ book'.byID[x].qty <= book.byID[x].qty
                       => InFront(book', l, x, y)
<1>1. BookInv /\ [LNext]_l3vars => [Kept1]_book
  <2> SUFFICES ASSUME BookInv, [LNext]_l3vars PROVE [Kept1]_book
    OBVIOUS
  <2>1. CASE book' = book
    BY <2>1
  <2>2. CASE \E r \in Rows, ts \in Stamps : BookRow(r, ts)
    <3>1. PICK r \in Rows : /\ book' = ApplyRow(book, r)
                            /\ r.action = "add" => r.id \notin DOMAIN book.byID
      BY <2>2 DEF BookRow
    <3>2. BookOK(book) /\ BookOK(book') /\ RowStep(book, book', r) /\ r \in RowRec
      BY <3>1, RowFacts, RowsAssumption DEF BookInv
    <3>3. \A s, x : x \in Range(s) <=> x \in Elements(s)
      BY DEF Range, Elements
    <3>4. \A b, l, x, y : InFront(b, l, x, y) <=> Precedes(b.level[l], x, y)
      BY DEF InFront, Precedes
    <3>5. ASSUME NEW l \in Levels, NEW x, NEW y,
                 Precedes(book.level[l], x, y), x \in Elements(book'.level[l]),
                 y \in Elements(book'.level[l]), book'.byID[x].qty <= book.byID[x].qty
          PROVE  Precedes(book'.level[l], x, y)
      BY <3>1, <3>2, <3>5, PlaceStep
    <3>6. Kept1
      BY <3>3, <3>4, <3>5
    <3> QED BY <3>6
  <2> QED BY <2>1, <2>2, BookSteps
<1> QED BY <1>1, BookHolds, PTL DEF LSpec, PlaceKept

-----------------------------------------------------------------------------
(* The ghosts. *)

\* Orders of the book as a ghost lists them.
Shown(b, ids) == [k \in DOMAIN ids |-> [id |-> ids[k], qty |-> b.byID[ids[k]].qty]]
OldIds(b, l, B) == Kept(b.level[l], Nat \ B)
OlderOf(b, l, B) ==
    LET q == FIFO(b, l) IN Pick(q, {k \in DOMAIN q : q[k].id \notin B})

LEMMA ShownPicks ==
    ASSUME NEW b, NEW ids \in Seq(Nat), NEW P, P \subseteq DOMAIN ids
    PROVE  Pick(Shown(b, ids), P) = Shown(b, Pick(ids, P))
<1> DEFINE F == [x \in Nat |-> [id |-> x, qty |-> b.byID[x].qty]]
<1>1. \A k \in DOMAIN ids : ids[k] \in Nat
  OBVIOUS
<1>2. Shown(b, ids) = [k \in DOMAIN ids |-> F[ids[k]]]
  BY <1>1 DEF Shown
<1>3. Pick([k \in DOMAIN ids |-> F[ids[k]]], P) = [n \in DOMAIN Pick(ids, P) |-> F[Pick(ids, P)[n]]]
  <2> HIDE DEF F
  <2> QED BY PickMaps
<1>4. Pick(ids, P) \in Seq(Nat)
  BY PickFacts
<1>5. \A n \in DOMAIN Pick(ids, P) : Pick(ids, P)[n] \in Nat
  BY <1>4
<1> QED BY <1>2, <1>3, <1>5 DEF Shown

LEMMA OlderShown ==
    ASSUME NEW b, BookOK(b), NEW l, NEW B
    PROVE  /\ l \in Levels => OlderOf(b, l, B) = Shown(b, OldIds(b, l, B))
           /\ l \notin Levels => OlderOf(b, l, B) = Shown(b, <<>>)
<1>1. CASE l \in Levels
  <2> DEFINE s == b.level[l]
             P == {k \in DOMAIN s : s[k] \in Nat \ B}
  <2>1. s \in Seq(Nat)
    BY <1>1 DEF BookOK
  <2>2. FIFO(b, l) = Shown(b, s)
    BY <1>1 DEF FIFO, Shown
  <2>3. {k \in DOMAIN Shown(b, s) : Shown(b, s)[k].id \notin B} = P
    BY <2>1 DEF Shown
  <2>4. Pick(Shown(b, s), P) = Shown(b, Pick(s, P))
    <3>1. P \subseteq DOMAIN s
      OBVIOUS
    <3> HIDE DEF P, s
    <3> QED BY <2>1, <3>1, ShownPicks
  <2>5. Pick(s, P) = OldIds(b, l, B)
    BY DEF OldIds, Kept
  <2> HIDE DEF P, s
  <2> QED BY <1>1, <2>2, <2>3, <2>4, <2>5 DEF OlderOf
<1>2. CASE l \notin Levels
  <2>1. FIFO(b, l) = <<>>
    BY <1>2 DEF FIFO
  <2>2. \A f : Pick(<<>>, {k \in DOMAIN <<>> : <<>>[k].id \notin B}) = <<>>
    <3>1. {k \in DOMAIN <<>> : <<>>[k].id \notin B} = {}
      OBVIOUS
    <3>2. Kept(<<>>, {}) = <<>>
      BY KeptEmpty
    <3>3. {n \in DOMAIN <<>> : <<>>[n] \in {}} = {}
      OBVIOUS
    <3> QED BY <3>1, <3>2, <3>3 DEF Kept
  <2>3. Shown(b, <<>>) = <<>>
    BY DEF Shown
  <2> QED BY <1>2, <2>1, <2>2, <2>3 DEF OlderOf
<1> QED BY <1>1, <1>2

LEMMA CutShown ==
    ASSUME NEW b, NEW ids \in Seq(Nat), NEW id, NEW n \in Int
    PROVE  /\ n <= 0 => CutAhead(Shown(b, ids), id, n) = Shown(b, Kept(ids, Except(id)))
           /\ n > 0 => CutAhead(Shown(b, ids), id, n) =
                 [k \in DOMAIN ids |-> IF ids[k] = id THEN [id |-> id, qty |-> n]
                                                      ELSE Shown(b, ids)[k]]
           /\ id \notin Elements(ids) => /\ CutAhead(Shown(b, ids), id, n) = Shown(b, ids)
                                         /\ Kept(ids, Except(id)) = ids
<1> DEFINE q == Shown(b, ids)
           P == {k \in DOMAIN q : q[k].id # id \/ n > 0}
           ks == Pick(ids, P)
<1>1. /\ DOMAIN q = DOMAIN ids /\ \A k \in DOMAIN ids : q[k].id = ids[k] /\ ids[k] \in Nat
  BY DEF Shown
<1>2. P \subseteq DOMAIN ids
  BY <1>1
<1>3. CutAhead(q, id, n) = [k \in DOMAIN Shown(b, ks) |->
           IF Shown(b, ks)[k].id = id THEN [id |-> id, qty |-> n] ELSE Shown(b, ks)[k]]
  <2>1. Pick(q, P) = Shown(b, ks)
    <3> HIDE DEF P
    <3> QED BY <1>2, ShownPicks
  <2> HIDE DEF ks
  <2> QED BY <2>1 DEF CutAhead
<1>4. CutAhead(q, id, n) =
         [k \in DOMAIN ks |-> IF ks[k] = id THEN [id |-> id, qty |-> n] ELSE Shown(b, ks)[k]]
  <2> HIDE DEF ks, q
  <2> QED BY <1>3 DEF Shown
<1>5. ASSUME n <= 0 PROVE ks = Kept(ids, Except(id))
  <2>1. P = {k \in DOMAIN ids : ids[k] \in Except(id)}
    BY <1>1, <1>5 DEF Except
  <2> QED BY <2>1 DEF Kept
<1>6. ASSUME n > 0 \/ id \notin Elements(ids) PROVE ks = ids
  <2>1. P = {k \in DOMAIN ids : ids[k] \in Nat}
    BY <1>1, <1>6 DEF Elements
  <2>2. ks = Kept(ids, Nat)
    BY <2>1 DEF Kept
  <2>3. Elements(ids) \subseteq Nat
    BY ElementsType
  <2>4. Kept(ids, Nat) = ids
    BY <2>3, KeptAll
  <2> QED BY <2>2, <2>4
<1>7. ASSUME id \notin Elements(ids) PROVE Kept(ids, Except(id)) = ids
  <2>1. Elements(ids) \subseteq Except(id)
    BY <1>7, ElementsType DEF Except
  <2> QED BY <2>1, KeptAll
<1> HIDE DEF ks, P
<1>8. ASSUME n <= 0 PROVE CutAhead(q, id, n) = Shown(b, Kept(ids, Except(id)))
  <2> DEFINE ys == Kept(ids, Except(id))
  <2>1. CutAhead(q, id, n) = [k \in DOMAIN ys |-> IF ys[k] = id THEN [id |-> id, qty |-> n]
                                                                ELSE Shown(b, ys)[k]]
    BY <1>4, <1>5, <1>8
  <2>2. \A k \in DOMAIN ys : ys[k] # id
    <3>1. \A k \in DOMAIN Kept(ids, Except(id)) : Kept(ids, Except(id))[k] \in Except(id)
      BY KeptFacts
    <3> QED BY <3>1 DEF Except
  <2>3. DOMAIN Shown(b, ys) = DOMAIN ys /\ Shown(b, ys) = [k \in DOMAIN ys |-> Shown(b, ys)[k]]
    BY DEF Shown
  <2> HIDE DEF ys
  <2>4. CutAhead(q, id, n) = Shown(b, ys)
    BY <2>1, <2>2, <2>3
  <2> QED BY <2>4 DEF ys
<1>9. ASSUME n > 0
      PROVE  CutAhead(q, id, n) =
                [k \in DOMAIN ids |-> IF ids[k] = id THEN [id |-> id, qty |-> n] ELSE q[k]]
  BY <1>4, <1>6, <1>9
<1>10. ASSUME id \notin Elements(ids) PROVE CutAhead(q, id, n) = q
  <2>1. CutAhead(q, id, n) =
           [k \in DOMAIN ids |-> IF ids[k] = id THEN [id |-> id, qty |-> n] ELSE q[k]]
    BY <1>4, <1>6, <1>10
  <2>2. \A k \in DOMAIN ids : ids[k] # id
    BY <1>10 DEF Elements
  <2>3. q = [k \in DOMAIN ids |-> q[k]]
    BY DEF Shown
  <2> HIDE DEF q
  <2> QED BY <2>1, <2>2, <2>3
<1> QED BY <1>7, <1>8, <1>9, <1>10

LEMMA OldIdsFacts ==
    ASSUME NEW b, BookOK(b), NEW l \in Levels, NEW B
    PROVE  /\ OldIds(b, l, B) \in Seq(Nat)
           /\ Elements(OldIds(b, l, B)) = StandAt(b, l) \ B
<1>1. b.level[l] \in Seq(Nat) /\ Elements(b.level[l]) = StandAt(b, l)
  BY DEF BookOK
<1>2. Elements(b.level[l]) \subseteq Nat
  BY <1>1, ElementsType
<1>3. Elements(OldIds(b, l, B)) = StandAt(b, l) \cap (Nat \ B) /\ OldIds(b, l, B) \in Seq(Nat)
  <2>1. Elements(Kept(b.level[l], Nat \ B)) = Elements(b.level[l]) \cap (Nat \ B)
    BY <1>1, ElementsKept
  <2>2. Kept(b.level[l], Nat \ B) \in Seq(Nat)
    BY <1>1, KeptFacts
  <2> QED BY <1>1, <2>1, <2>2 DEF OldIds
<1> QED BY <1>1, <1>2, <1>3

LEMMA SameShown ==
    ASSUME NEW b, NEW c, NEW ids \in Seq(Nat),
           \A x \in Elements(ids) : c.byID[x] = b.byID[x]
    PROVE  Shown(c, ids) = Shown(b, ids)
<1>1. \A k \in DOMAIN ids : ids[k] \in Elements(ids)
  BY DEF Elements
<1> QED BY <1>1 DEF Shown

\* What a row leaves of the older part of a level.
LEMMA OlderMoves ==
    ASSUME NEW b, BookOK(b), NEW c, BookOK(c), NEW r \in RowRec, Moves(b, c, r),
           NEW l \in Levels, NEW B
    PROVE  OldIds(c, l, (B \cap DOMAIN c.byID) \cup NewPlace(b, c, r))
              = Kept(OldIds(b, l, B), Except(r.id))
<1> DEFINE id == r.id
           s == b.level[l]
           C == (B \cap DOMAIN c.byID) \cup NewPlace(b, c, r)
           q == Kept(s, Except(id))
<1>1. s \in Seq(Nat) /\ Elements(s) = StandAt(b, l) /\ id \in Nat
  BY DEF BookOK, RowRec
<1>2. q \in Seq(Nat)
  BY <1>1, KeptFacts
<1>3. ASSUME id \in DOMAIN c.byID PROVE id \in C
  <2>1. /\ r.qty > 0 /\ c.byID[id] = [side |-> r.side, px |-> r.px, qty |-> r.qty]
        /\ r.action = "modify" /\ id \in DOMAIN b.byID => r.qty <= 0 \/ LosesPlace(b.byID[id], r)
    BY <1>3 DEF Moves
  <2>2. LosesPlace(b.byID[id], r) => LosesPlace(b.byID[id], c.byID[id])
    BY <2>1 DEF LosesPlace
  <2>3. ~(r.qty <= 0)
    BY <2>1 DEF RowRec
  <2>4. id \in NewPlace(b, c, r)
    BY <1>3, <2>1, <2>2, <2>3 DEF NewPlace
  <2> QED BY <2>4
<1>4. \A x \in StandAt(b, l) \ {id} : x \in C <=> x \in B
  BY DEF StandAt, Moves, NewPlace
<1> HIDE DEF C
<1>5. Kept(c.level[l], Nat \ C) = Kept(q, Nat \ C)
  <2>1. CASE id \in DOMAIN c.byID /\ l = PlaceOf(r)
    <3>1. c.level[l] = Append(q, id)
      BY <2>1 DEF Moves
    <3>2. Kept(Append(q, id), Nat \ C) = IF id \in Nat \ C THEN Append(Kept(q, Nat \ C), id)
                                                        ELSE Kept(q, Nat \ C)
      <4> DEFINE G == Nat \ C
      <4>1. Kept(Append(q, id), G) = IF id \in G THEN Append(Kept(q, G), id) ELSE Kept(q, G)
        <5> HIDE DEF G, q, id
        <5> QED BY <1>1, <1>2, KeptAppend
      <4> QED BY <4>1
    <3> QED BY <1>3, <2>1, <3>1, <3>2
  <2>2. CASE ~(id \in DOMAIN c.byID /\ l = PlaceOf(r))
    BY <2>2 DEF Moves
  <2> QED BY <2>1, <2>2
<1>6. Kept(q, Nat \ C) = Kept(s, Except(id) \cap (Nat \ C))
  BY <1>1, KeptTwice
<1>7. Kept(Kept(s, Nat \ B), Except(id)) = Kept(s, (Nat \ B) \cap Except(id))
  BY <1>1, KeptTwice
<1>8. Kept(s, Except(id) \cap (Nat \ C)) = Kept(s, (Nat \ B) \cap Except(id))
  <2>1. (Except(id) \cap (Nat \ C)) \cap Elements(s) = ((Nat \ B) \cap Except(id)) \cap Elements(s)
    BY <1>1, <1>4 DEF Except
  <2> QED BY <1>1, <2>1, KeptSame
<1> QED BY <1>5, <1>6, <1>7, <1>8 DEF OldIds, C

\* A row does to a ghost's list what it does to the older part of its level.
LEMMA GhostFollows ==
    ASSUME BookOK(book), NEW r \in Rows, NEW i, NEW B,
           aheadIDs[i] = OlderOf(book, Level(order[i]), B),
           r.action = "add" => r.id \notin DOMAIN book.byID
    PROVE  LET c == ApplyRow(book, r)
           IN  OnBook(i, r) = OlderOf(c, Level(order[i]),
                                      (B \cap DOMAIN c.byID) \cup NewPlace(book, c, r))
<1> DEFINE b == book
           c == ApplyRow(book, r)
           l == Level(order[i])
           id == r.id
           C == (B \cap DOMAIN c.byID) \cup NewPlace(b, c, r)
           ids == IF l \in Levels THEN OldIds(b, l, B) ELSE <<>>
           old == {k \in DOMAIN aheadIDs[i] : aheadIDs[i][k].id = r.id}
           lost == \/ r.px # order[i].px \/ r.side # order[i].side
                   \/ \E k \in old : r.qty > aheadIDs[i][k].qty
<1>1. BookOK(c) /\ RowStep(b, c, r) /\ r \in RowRec
  BY RowFacts, RowsAssumption
<1>2. l \in Levels \/ l \notin Levels
  OBVIOUS
<1>3. aheadIDs[i] = Shown(b, ids)
  BY <1>2, OlderShown
<1>4. /\ ids \in Seq(Nat)
      /\ l \in Levels => Elements(ids) = StandAt(b, l) \ B
      /\ l \notin Levels => ids = <<>> /\ Elements(ids) = {}
  <2>1. CASE l \in Levels
    BY <2>1, OldIdsFacts
  <2>2. CASE l \notin Levels
    BY <2>2, ElementsEmpty
  <2> QED BY <2>1, <2>2
<1>5. l \in Levels => OlderOf(c, l, C) = Shown(c, OldIds(c, l, C))
  <2> HIDE DEF C, c, l
  <2> QED BY <1>1, OlderShown
<1>6. l \notin Levels => OlderOf(c, l, C) = Shown(c, <<>>)
  <2> HIDE DEF C, c, l
  <2> QED BY <1>1, OlderShown
<1>7. /\ r.action = "clear" => OnBook(i, r) = <<>>
      /\ r.action = "cancel" => OnBook(i, r) = CutAhead(Shown(b, ids), id, 0)
      /\ r.action = "modify" => OnBook(i, r) = CutAhead(Shown(b, ids), id, IF lost THEN 0 ELSE r.qty)
      /\ r.action = "add" => OnBook(i, r) = Shown(b, ids)
  BY <1>3 DEF OnBook
<1>8. \A d : Shown(d, <<>>) = <<>>
  BY DEF Shown
<1>9. r.qty \in Int /\ r.action \in {"add", "cancel", "modify", "clear"}
  BY <1>1 DEF RowRec
<1> HIDE DEF c, C, ids
<1>10. /\ \A n \in Int : n <= 0 => CutAhead(Shown(b, ids), id, n) = Shown(b, Kept(ids, Except(id)))
       /\ \A n \in Int : n > 0 => CutAhead(Shown(b, ids), id, n) =
                 [k \in DOMAIN ids |-> IF ids[k] = id THEN [id |-> id, qty |-> n]
                                                      ELSE Shown(b, ids)[k]]
       /\ id \notin Elements(ids) => /\ \A n \in Int : CutAhead(Shown(b, ids), id, n) = Shown(b, ids)
                                     /\ Kept(ids, Except(id)) = ids
  BY <1>4, CutShown
<1>11. DOMAIN Shown(b, ids) = DOMAIN ids
       /\ \A k \in DOMAIN ids : Shown(b, ids)[k] = [id |-> ids[k], qty |-> b.byID[ids[k]].qty]
  BY DEF Shown
<1>12. CASE r.action = "clear"
  <2>1. c = EmptyBook
    BY <1>12 DEF ApplyRow, c
  <2>2. CASE l \in Levels
    <3>1. c.level[l] = <<>>
      BY <2>1, <2>2 DEF EmptyBook
    <3>2. OldIds(c, l, C) = <<>>
      BY <3>1, KeptEmpty DEF OldIds
    <3> QED BY <1>5, <1>7, <1>8, <1>12, <2>2, <3>2 DEF c, C
  <2>3. CASE l \notin Levels
    BY <1>6, <1>7, <1>8, <1>12, <2>3 DEF c, C
  <2> QED BY <2>2, <2>3
<1>13. CASE r.action # "clear" /\ l \notin Levels
  <2>1. OnBook(i, r) = Shown(b, ids)
    <3>1. id \notin Elements(ids)
      BY <1>4, <1>13
    <3>2. (IF lost THEN 0 ELSE r.qty) \in Int
      BY <1>9
    <3> HIDE DEF lost
    <3> QED BY <1>7, <1>9, <1>10, <1>13, <3>1, <3>2
  <2> QED BY <1>4, <1>6, <1>8, <1>13, <2>1 DEF c, C
<1>14. CASE r.action # "clear" /\ l \in Levels /\ Moves(b, c, r)
  <2> DEFINE ks == Kept(ids, Except(id))
  <2>1. OldIds(c, l, C) = ks
    <3>1. OldIds(c, l, (B \cap DOMAIN c.byID) \cup NewPlace(b, c, r))
              = Kept(OldIds(b, l, B), Except(r.id))
      <4> HIDE DEF l
      <4> QED BY <1>1, <1>14, OlderMoves
    <3> QED BY <1>14, <3>1 DEF C, ids
  <2>2. ks \in Seq(Nat)
    BY <1>4, KeptFacts
  <2>3. Elements(ks) = Elements(ids) \cap Except(id)
    BY <1>4, ElementsKept
  <2>4. \A x \in Elements(ks) : c.byID[x] = b.byID[x]
    BY <1>4, <1>14, <2>3 DEF Moves, StandAt, Except
  <2> HIDE DEF ks
  <2>5. Shown(c, ks) = Shown(b, ks)
    BY <2>2, <2>4, SameShown
  <2>6. OlderOf(c, l, C) = Shown(b, ks)
    BY <1>5, <1>14, <2>1, <2>5
  <2>7. OnBook(i, r) = Shown(b, ks)
    <3>1. CASE r.action = "cancel"
      <4>1. CutAhead(Shown(b, ids), id, 0) = Shown(b, ks)
        BY <1>10 DEF ks
      <4> QED BY <1>7, <3>1, <4>1
    <3>2. CASE r.action = "add"
      <4>1. id \notin Elements(ids)
        BY <1>4, <1>14, <3>2 DEF StandAt
      <4> QED BY <1>7, <1>10, <3>2, <4>1 DEF ks
    <3>3. CASE r.action = "modify" /\ id \notin Elements(ids)
      <4>1. (IF lost THEN 0 ELSE r.qty) \in Int
        BY <1>9
      <4> HIDE DEF lost
      <4> QED BY <1>7, <1>10, <3>3, <4>1 DEF ks
    <3>4. CASE r.action = "modify" /\ id \in Elements(ids)
      <4>1. id \in StandAt(b, l)
        BY <1>4, <1>14, <3>4
      <4>2. id \in DOMAIN b.byID /\ b.byID[id].side = order[i].side /\ b.byID[id].px = order[i].px
        BY <4>1 DEF StandAt, PlaceOf, Level
      <4>3. r.qty <= 0 \/ LosesPlace(b.byID[id], r)
        BY <1>14, <3>4, <4>2 DEF Moves
      <4>4. PICK k \in DOMAIN ids : ids[k] = id
        BY <3>4 DEF Elements
      <4>5. aheadIDs[i][k].qty = b.byID[id].qty /\ k \in old
        BY <1>3, <1>11, <4>4
      <4>6. LosesPlace(b.byID[id], r) => lost
        BY <4>2, <4>5 DEF LosesPlace
      <4>7. (IF lost THEN 0 ELSE r.qty) \in Int /\ (IF lost THEN 0 ELSE r.qty) <= 0
        <5> HIDE DEF lost
        <5> QED BY <1>9, <4>3, <4>6
      <4> HIDE DEF lost
      <4>8. CutAhead(Shown(b, ids), id, IF lost THEN 0 ELSE r.qty) = Shown(b, ks)
        BY <1>10, <4>7 DEF ks
      <4> QED BY <1>7, <3>4, <4>8
    <3> QED BY <1>9, <1>14, <3>1, <3>2, <3>3, <3>4
  <2> QED BY <2>6, <2>7 DEF c, C
<1>15. CASE r.action = "modify" /\ l \in Levels /\ Shrinks(b, c, r)
  <2>1. /\ DOMAIN c.byID = DOMAIN b.byID /\ c.level = b.level
        /\ id \in DOMAIN b.byID /\ r.qty > 0 /\ ~LosesPlace(b.byID[id], r)
        /\ \A x \in DOMAIN b.byID \ {id} : c.byID[x] = b.byID[x]
        /\ c.byID[id] = [side |-> r.side, px |-> r.px, qty |-> r.qty]
    BY <1>15 DEF Shrinks
  <2>2. NewPlace(b, c, r) = {}
    <3>1. ~LosesPlace(b.byID[id], c.byID[id])
      BY <2>1 DEF LosesPlace
    <3> QED BY <1>15, <2>1, <3>1 DEF NewPlace
  <2>3. OldIds(c, l, C) = ids
    <3>1. b.level[l] \in Seq(Nat) /\ Elements(b.level[l]) = StandAt(b, l)
      BY <1>15 DEF BookOK
    <3>2. (Nat \ C) \cap Elements(b.level[l]) = (Nat \ B) \cap Elements(b.level[l])
      BY <2>1, <2>2, <3>1 DEF C, StandAt
    <3>3. Kept(b.level[l], Nat \ C) = Kept(b.level[l], Nat \ B)
      BY <3>1, <3>2, KeptSame
    <3> QED BY <1>15, <2>1, <3>3 DEF OldIds, ids
  <2>4. OlderOf(c, l, C) = Shown(c, ids)
    BY <1>5, <1>15, <2>3
  <2>5. CASE id \notin Elements(ids)
    <3>1. \A x \in Elements(ids) : c.byID[x] = b.byID[x]
      BY <1>4, <1>15, <2>1, <2>5 DEF StandAt
    <3>2. Shown(c, ids) = Shown(b, ids)
      BY <1>4, <3>1, SameShown
    <3>3. (IF lost THEN 0 ELSE r.qty) \in Int
      BY <1>9
    <3> HIDE DEF lost
    <3>4. OnBook(i, r) = Shown(b, ids)
      BY <1>7, <1>10, <1>15, <2>5, <3>3
    <3> QED BY <2>4, <3>2, <3>4 DEF c, C
  <2>6. CASE id \in Elements(ids)
    <3>1. id \in StandAt(b, l)
      BY <1>4, <1>15, <2>6
    <3>2. b.byID[id].side = order[i].side /\ b.byID[id].px = order[i].px
      BY <3>1 DEF StandAt, PlaceOf, Level
    <3>3. ~lost
      BY <1>3, <1>11, <2>1, <3>2 DEF LosesPlace
    <3> HIDE DEF lost
    <3>4. OnBook(i, r) = [k \in DOMAIN ids |-> IF ids[k] = id THEN [id |-> id, qty |-> r.qty]
                                                      ELSE Shown(b, ids)[k]]
      BY <1>7, <1>9, <1>10, <1>15, <2>1, <3>3
    <3>5. ASSUME NEW k \in DOMAIN ids
          PROVE  (IF ids[k] = id THEN [id |-> id, qty |-> r.qty] ELSE Shown(b, ids)[k])
                    = [id |-> ids[k], qty |-> c.byID[ids[k]].qty]
      <4>1. ids[k] \in DOMAIN b.byID
        BY <1>4, <1>15 DEF Elements, StandAt
      <4> QED BY <1>11, <2>1, <4>1
    <3>6. OnBook(i, r) = Shown(c, ids)
      BY <3>4, <3>5 DEF Shown
    <3> QED BY <2>4, <3>6 DEF c, C
  <2> QED BY <2>5, <2>6
<1> QED BY <1>1, <1>12, <1>13, <1>14, <1>15 DEF RowStep

-----------------------------------------------------------------------------
(* A print eats the list from its head. *)

Sized == [id : Nat, qty : Nat \ {0}]
UpToHere(q, k) == Total([j \in 1..k |-> q[j].qty])
\* What is left of each order, whether it is kept or not.
Rump(q, n) ==
    [k \in DOMAIN q |-> [id |-> q[k].id, qty |-> Min2(q[k].qty, UpToHere(q, k) - n)]]
Reached(q, n) == {k \in DOMAIN q : UpToHere(q, k) > n}

LEMMA ConsumeIs == \A q, n : Consume(q, n) = Pick(Rump(q, n), Reached(q, n))
BY DEF Consume, Rump, Reached, UpToHere

LEMMA CountedFacts ==
    ASSUME NEW q \in Seq(Sized)
    PROVE  /\ DOMAIN q = 1..Len(q) /\ Len(q) \in Nat
           /\ \A k \in 1..Len(q) :
                 /\ q[k] \in Sized /\ q[k].id \in Nat
                 /\ q[k].qty \in Nat /\ q[k].qty \in Int /\ q[k].qty > 0
                 /\ q[k] = [id |-> q[k].id, qty |-> q[k].qty]
<1>1. DOMAIN q = 1..Len(q) /\ Len(q) \in Nat /\ \A k \in 1..Len(q) : q[k] \in Sized
  OBVIOUS
<1>2. ASSUME NEW x \in Sized
      PROVE  /\ x.id \in Nat /\ x.qty \in Nat /\ x.qty \in Int /\ x.qty > 0
             /\ x = [id |-> x.id, qty |-> x.qty]
  <2>1. x \in [id : Nat, qty : Nat \ {0}]
    BY DEF Sized
  <2> QED BY <2>1
<1> QED BY <1>1, <1>2

LEMMA QtyFacts ==
    /\ QtyOf(<<>>) = 0
    /\ \A q \in Seq(Sized) : QtyOf(q) \in Nat
    /\ \A q \in Seq(Sized), x \in Sized : QtyOf(Append(q, x)) = QtyOf(q) + x.qty
<1>1. QtyOf(<<>>) = 0
  <2>1. [k \in DOMAIN <<>> |-> <<>>[k].qty] = <<>>
    OBVIOUS
  <2> QED BY <2>1, TotalEmpty DEF QtyOf
<1>2. ASSUME NEW q \in Seq(Sized) PROVE [k \in DOMAIN q |-> q[k].qty] \in Seq(Nat)
  <2>1. \A k \in 1..Len(q) : q[k].qty \in Nat
    BY CountedFacts
  <2>2. DOMAIN q = 1..Len(q) /\ Len(q) \in Nat
    OBVIOUS
  <2>3. [k \in 1..Len(q) |-> q[k].qty] \in [1..Len(q) -> Nat]
    BY <2>1
  <2> QED BY <2>2, <2>3
<1>3. ASSUME NEW q \in Seq(Sized) PROVE QtyOf(q) \in Nat
  BY <1>2, TotalBounds DEF QtyOf
<1>4. ASSUME NEW q \in Seq(Sized), NEW x \in Sized
      PROVE  QtyOf(Append(q, x)) = QtyOf(q) + x.qty
  <2> DEFINE w == [k \in DOMAIN q |-> q[k].qty]
             a == Append(q, x)
  <2>1. w \in Seq(Nat) /\ w \in Seq(Int) /\ Len(w) = Len(q) /\ x.qty \in Int
    BY <1>2 DEF Sized
  <2>2. Append(w, x.qty) = [n \in 1..(Len(w) + 1) |-> IF n = Len(w) + 1 THEN x.qty ELSE w[n]]
    BY <2>1, AppendDef
  <2>3. /\ DOMAIN a = 1..(Len(q) + 1)
        /\ \A k \in 1..(Len(q) + 1) : a[k].qty = IF k = Len(q) + 1 THEN x.qty ELSE w[k]
    OBVIOUS
  <2>4. [k \in DOMAIN a |-> a[k].qty] = Append(w, x.qty)
    BY <2>1, <2>2, <2>3
  <2>5. Total(Append(w, x.qty)) = Total(w) + x.qty
    BY <2>1, TotalAppend
  <2> QED BY <2>4, <2>5 DEF QtyOf
<1> QED BY <1>1, <1>3, <1>4

LEMMA UpToHereFacts ==
    ASSUME NEW q \in Seq(Sized)
    PROVE  /\ \A k \in DOMAIN q : UpToHere(q, k) \in Nat /\ q[k].qty <= UpToHere(q, k)
           /\ UpToHere(q, Len(q)) = QtyOf(q)
<1>1. DOMAIN q = 1..Len(q)
  OBVIOUS
<1>2. ASSUME NEW k \in DOMAIN q
      PROVE  UpToHere(q, k) \in Nat /\ q[k].qty <= UpToHere(q, k)
  <2> DEFINE w == [j \in 1..k |-> q[j].qty]
  <2>0. k \in Nat /\ k > 0 /\ \A j \in 1..k : j \in 1..Len(q)
    BY <1>1, CountedFacts
  <2>1. \A j \in 1..k : q[j].qty \in Nat
    BY <2>0, CountedFacts
  <2>2. w \in Seq(Nat) /\ k \in DOMAIN w /\ w[k] = q[k].qty
    BY <2>0, <2>1
  <2> HIDE DEF w
  <2>3. Total(w) \in Nat /\ w[k] <= Total(w)
    BY <2>2, TotalBounds
  <2> QED BY <2>2, <2>3 DEF UpToHere, w
<1> QED BY <1>1, <1>2 DEF UpToHere, QtyOf

LEMMA ConsumeAppend ==
    ASSUME NEW q \in Seq(Sized), NEW x \in Sized, NEW n \in Nat
    PROVE  LET all == QtyOf(q) + x.qty
           IN  Consume(Append(q, x), n) =
                  IF all > n
                  THEN Append(Consume(q, n), [id |-> x.id, qty |-> Min2(x.qty, all - n)])
                  ELSE Consume(q, n)
<1> DEFINE a == Append(q, x)
           m == Len(q) + 1
           all == QtyOf(q) + x.qty
           y == [id |-> x.id, qty |-> Min2(x.qty, all - n)]
           T == [id : Nat, qty : Int]
<1>1. /\ a \in Seq(Sized) /\ Len(a) = m /\ m \in Nat /\ DOMAIN a = 1..m
      /\ DOMAIN q = 1..Len(q) /\ a[m] = x
      /\ \A k \in DOMAIN q : a[k] = q[k]
  OBVIOUS
<1>2. QtyOf(a) = all /\ QtyOf(q) \in Nat /\ all \in Nat
  BY QtyFacts DEF Sized
<1>3. ASSUME NEW k \in DOMAIN q PROVE UpToHere(a, k) = UpToHere(q, k)
  <2>1. \A j \in 1..k : a[j] = q[j]
    BY <1>1
  <2>2. [j \in 1..k |-> a[j].qty] = [j \in 1..k |-> q[j].qty]
    BY <2>1
  <2> QED BY <2>2 DEF UpToHere
<1>4. UpToHere(a, m) = all
  BY <1>1, <1>2, UpToHereFacts
<1>5. \A k \in DOMAIN q : UpToHere(q, k) \in Nat
  BY UpToHereFacts
<1>6. Rump(q, n) \in Seq(T) /\ Len(Rump(q, n)) = Len(q) /\ DOMAIN Rump(q, n) = 1..Len(q)
  <2>1. ASSUME NEW k \in 1..Len(q)
        PROVE  [id |-> q[k].id, qty |-> Min2(q[k].qty, UpToHere(q, k) - n)] \in T
    <3>1. q[k].id \in Nat /\ q[k].qty \in Nat
      BY CountedFacts
    <3>2. UpToHere(q, k) \in Nat
      BY <1>1, <1>5
    <3>3. Min2(q[k].qty, UpToHere(q, k) - n) \in Int
      BY <3>1, <3>2 DEF Min2
    <3> QED BY <3>1, <3>3
  <2>2. Rump(q, n) \in [1..Len(q) -> T] /\ DOMAIN Rump(q, n) = 1..Len(q)
    BY <1>1, <2>1 DEF Rump
  <2>3. Len(q) \in Nat
    OBVIOUS
  <2> HIDE DEF T
  <2>4. \A f \in [1..Len(q) -> T] : f \in Seq(T) /\ Len(f) = Len(q)
    BY <2>3
  <2> QED BY <2>2, <2>4
<1>7. y \in T
  BY <1>2 DEF Min2, Sized
<1> HIDE DEF a, all
<1>8. Rump(a, n) = Append(Rump(q, n), y)
  <2> DEFINE u == Rump(q, n)
  <2>1. Append(u, y) = [k \in 1..(Len(u) + 1) |-> IF k = Len(u) + 1 THEN y ELSE u[k]]
    <3> HIDE DEF u, y
    <3> QED BY <1>6, AppendDef DEF u
  <2>2. \A k \in 1..m : k # m => k \in DOMAIN q
    BY <1>1
  <2>3. \A k \in 1..m : [id |-> a[k].id, qty |-> Min2(a[k].qty, UpToHere(a, k) - n)]
                           = IF k = m THEN y ELSE u[k]
    BY <1>1, <1>3, <1>4, <2>2 DEF Rump
  <2>4. Rump(a, n) = [k \in 1..m |-> [id |-> a[k].id, qty |-> Min2(a[k].qty, UpToHere(a, k) - n)]]
    BY <1>1 DEF Rump
  <2>5. Append(u, y) = [k \in 1..m |-> IF k = m THEN y ELSE u[k]]
    BY <1>6, <2>1
  <2> HIDE DEF u, y
  <2> QED BY <2>3, <2>4, <2>5 DEF u, y
<1>9. Reached(a, n) = IF all > n THEN Reached(q, n) \cup {m} ELSE Reached(q, n)
  BY <1>1, <1>3, <1>4 DEF Reached
<1>10. Reached(q, n) \subseteq DOMAIN Rump(q, n)
  BY <1>1, <1>6 DEF Reached
<1> HIDE DEF y, T
<1>11. CASE all > n
  <2>1. Pick(Append(Rump(q, n), y), Reached(q, n) \cup {Len(Rump(q, n)) + 1})
           = Append(Pick(Rump(q, n), Reached(q, n)), y)
    BY <1>6, <1>7, <1>10, PickTakes
  <2> QED BY <1>6, <1>8, <1>9, <1>11, <2>1, ConsumeIs DEF a, all, y
<1>12. CASE ~(all > n)
  <2>1. \A k \in DOMAIN Rump(q, n) : Rump(a, n)[k] = Rump(q, n)[k]
    BY <1>6, <1>7, <1>8
  <2>2. Pick(Rump(a, n), Reached(q, n)) = Pick(Rump(q, n), Reached(q, n))
    BY <1>6, <1>10, <2>1, PickSkips
  <2> QED BY <1>9, <1>12, <2>2, ConsumeIs DEF a, all
<1> QED BY <1>11, <1>12

\* consumeAheadFIFO takes n contracts off the front, as many as there are.
LEMMA ConsumeFacts ==
    \A q \in Seq(Sized) : \A n \in Nat :
        /\ Consume(q, n) \in Seq(Sized)
        /\ QtyOf(Consume(q, n)) = QtyOf(q) - Min2(QtyOf(q), n)
<1> DEFINE S == {q \in Seq(Sized) : \A n \in Nat :
                    /\ Consume(q, n) \in Seq(Sized)
                    /\ QtyOf(Consume(q, n)) = QtyOf(q) - Min2(QtyOf(q), n)}
<1>1. <<>> \in S
  <2> SUFFICES ASSUME NEW n \in Nat
               PROVE  /\ Consume(<<>>, n) \in Seq(Sized)
                      /\ QtyOf(Consume(<<>>, n)) = QtyOf(<<>>) - Min2(QtyOf(<<>>), n)
    OBVIOUS
  <2>1. Rump(<<>>, n) = <<>> /\ Reached(<<>>, n) = {}
    BY DEF Rump, Reached
  <2>2. Kept(<<>>, {}) = <<>> /\ {k \in DOMAIN <<>> : <<>>[k] \in {}} = {}
    BY KeptEmpty
  <2>3. Consume(<<>>, n) = <<>>
    BY <2>1, <2>2, ConsumeIs DEF Kept
  <2>4. <<>> \in Seq(Sized) /\ Min2(0, n) = 0
    BY DEF Min2
  <2>5. QtyOf(<<>>) = 0
    BY QtyFacts
  <2>6. QtyOf(<<>>) - Min2(QtyOf(<<>>), n) = 0
    BY <2>4, <2>5
  <2> QED BY <2>3, <2>4, <2>5, <2>6
<1>2. ASSUME NEW q \in Seq(Sized), NEW x \in Sized, q \in S PROVE Append(q, x) \in S
  <2> SUFFICES ASSUME NEW n \in Nat
               PROVE  /\ Consume(Append(q, x), n) \in Seq(Sized)
                      /\ QtyOf(Consume(Append(q, x), n))
                            = QtyOf(Append(q, x)) - Min2(QtyOf(Append(q, x)), n)
    OBVIOUS
  <2> DEFINE all == QtyOf(q) + x.qty
             c == Consume(q, n)
             y == [id |-> x.id, qty |-> Min2(x.qty, all - n)]
  <2>1. c \in Seq(Sized) /\ QtyOf(c) = QtyOf(q) - Min2(QtyOf(q), n)
    BY <1>2
  <2>2. QtyOf(q) \in Nat /\ QtyOf(Append(q, x)) = all /\ x.qty \in Nat \ {0} /\ x.id \in Nat
    BY QtyFacts DEF Sized
  <2>3. CASE all > n
    <3>1. Consume(Append(q, x), n) = Append(c, y)
      BY <2>3, ConsumeAppend
    <3>2. y \in Sized /\ y.qty = Min2(x.qty, all - n)
      BY <2>2, <2>3 DEF Sized, Min2
    <3> HIDE DEF c, y
    <3>3. QtyOf(Append(c, y)) = QtyOf(c) + y.qty /\ Append(c, y) \in Seq(Sized)
      BY <2>1, <3>2, QtyFacts
    <3>4. QtyOf(c) + Min2(x.qty, all - n) = all - Min2(all, n)
      BY <2>1, <2>2, <2>3 DEF Min2
    <3> QED BY <2>2, <3>1, <3>2, <3>3, <3>4 DEF c, y
  <2>4. CASE ~(all > n)
    <3>1. Consume(Append(q, x), n) = c
      BY <2>4, ConsumeAppend
    <3>2. QtyOf(q) - Min2(QtyOf(q), n) = all - Min2(all, n)
      BY <2>2, <2>4 DEF Min2
    <3> QED BY <2>1, <2>2, <3>1, <3>2
  <2> QED BY <2>3, <2>4
<1> HIDE DEF S
<1>3. \A q \in Seq(Sized) : q \in S
  BY <1>1, <1>2, SeqInduction
<1> QED BY <1>3 DEF S

\* A print that has nothing left when it gets here takes nothing.
LEMMA ConsumeNothing ==
    ASSUME NEW q \in Seq(Sized)
    PROVE  Consume(q, 0) = q
<1>1. /\ DOMAIN q = 1..Len(q)
      /\ \A k \in DOMAIN q : q[k] \in Sized /\ q[k] = [id |-> q[k].id, qty |-> q[k].qty]
  BY CountedFacts
<1>2. \A k \in DOMAIN q : UpToHere(q, k) \in Nat /\ q[k].qty <= UpToHere(q, k)
  BY UpToHereFacts
<1>3. \A k \in DOMAIN q : q[k].qty \in Nat /\ q[k].qty > 0
  BY CountedFacts
<1>4. \A k \in DOMAIN q : Min2(q[k].qty, UpToHere(q, k) - 0) = q[k].qty
  BY <1>2, <1>3 DEF Min2
<1>5. Rump(q, 0) = [k \in DOMAIN q |-> q[k]]
  BY <1>1, <1>4 DEF Rump
<1>6. Reached(q, 0) = DOMAIN q
  <2>1. \A k \in DOMAIN q : UpToHere(q, k) > 0
    BY <1>2, <1>3
  <2> QED BY <2>1 DEF Reached
<1>7. {k \in DOMAIN q : q[k] \in Sized} = DOMAIN q
  BY <1>1
<1>8. Kept(q, Sized) = q
  BY <1>1, KeptAll DEF Elements
<1>9. q = [k \in DOMAIN q |-> q[k]]
  OBVIOUS
<1> QED BY <1>5, <1>6, <1>7, <1>8, <1>9, ConsumeIs DEF Kept

-----------------------------------------------------------------------------
(* What the book shows, and the types of the ghosts. *)

LEMMA ShownType ==
    ASSUME NEW b, BookOK(b), NEW ids \in Seq(Nat), Elements(ids) \subseteq DOMAIN b.byID
    PROVE  Shown(b, ids) \in Seq(Sized)
<1>1. ASSUME NEW k \in DOMAIN ids
      PROVE  [id |-> ids[k], qty |-> b.byID[ids[k]].qty] \in Sized
  <2>1. ids[k] \in Nat /\ ids[k] \in DOMAIN b.byID
    BY DEF Elements
  <2>2. b.byID[ids[k]] \in Resting
    BY <2>1 DEF BookOK
  <2> QED BY <2>1, <2>2 DEF Resting, Sized
<1>2. DOMAIN ids = 1..Len(ids) /\ Len(ids) \in Nat
  OBVIOUS
<1>3. Shown(b, ids) \in [1..Len(ids) -> Sized]
  BY <1>1, <1>2 DEF Shown
<1> QED BY <1>2, <1>3

LEMMA FIFOFacts ==
    ASSUME NEW b, BookOK(b), NEW l
    PROVE  /\ FIFO(b, l) \in Seq(Sized)
           /\ QtyOf(FIFO(b, l)) \in Nat
           /\ OlderOf(b, l, {}) = FIFO(b, l)
<1>1. FIFO(b, l) \in Seq(Sized)
  <2>1. CASE l \in Levels
    <3>1. FIFO(b, l) = Shown(b, b.level[l])
      BY <2>1 DEF FIFO, Shown
    <3>2. b.level[l] \in Seq(Nat) /\ Elements(b.level[l]) \subseteq DOMAIN b.byID
      BY <2>1 DEF BookOK, StandAt
    <3> QED BY <3>1, <3>2, ShownType
  <2>2. CASE l \notin Levels
    BY <2>2 DEF FIFO
  <2> QED BY <2>1, <2>2
<1> DEFINE q == FIFO(b, l)
<1>2. OlderOf(b, l, {}) = q
  <2>1. {k \in DOMAIN q : q[k].id \notin {}} = {k \in DOMAIN q : q[k] \in Sized}
    BY <1>1, CountedFacts
  <2>2. OlderOf(b, l, {}) = Kept(q, Sized)
    BY <2>1 DEF OlderOf, Kept
  <2>3. Elements(q) \subseteq Sized
    BY <1>1, ElementsType
  <2> HIDE DEF q
  <2> QED BY <1>1, <2>2, <2>3, KeptAll DEF q
<1> QED BY <1>1, <1>2, QtyFacts

LEMMA TouchType ==
    ASSUME NEW b, BookOK(b)
    PROVE  Touch(b) \in QuoteRec
<1>1. ASSUME NEW side PROVE BestPx(b, side) \in Int
  <2> DEFINE ps == PricesOf(b, side)
             D == DOMAIN b.byID
             all == {b.byID[x].px : x \in D}
             f == [x \in D |-> b.byID[x].px]
  <2>1. IsFiniteSet(all)
    <3>1. f \in Surjection(D, all)
      BY DEF Surjection
    <3>2. IsFiniteSet(D)
      BY DEF BookOK
    <3> HIDE DEF all, f, D
    <3> QED BY <3>1, <3>2, FS_Surjection
  <2>2. all \subseteq Int
    BY DEF BookOK, Resting
  <2>3. ps \subseteq all
    <3> SUFFICES ASSUME NEW l \in Levels, b.level[l] # <<>> PROVE l[2] \in all
      BY DEF PricesOf
    <3>1. b.level[l] \in Seq(Nat) /\ Elements(b.level[l]) = StandAt(b, l)
      BY DEF BookOK
    <3>2. Elements(b.level[l]) # {}
      BY <3>1, ElementsType
    <3>3. PICK x \in DOMAIN b.byID : PlaceOf(b.byID[x]) = l
      BY <3>1, <3>2 DEF StandAt
    <3>4. b.byID[x].px = l[2]
      BY <3>3 DEF PlaceOf
    <3> QED BY <3>4
  <2> HIDE DEF all, ps
  <2>4. IsFiniteSet(ps) /\ ps \subseteq Int
    BY <2>1, <2>2, <2>3, FS_Subset
  <2>5. ps # {} => Max(ps) \in ps /\ Min(ps) \in ps
    BY <2>4, Extremes
  <2> QED BY <2>4, <2>5 DEF BestPx, ps
<1>2. ASSUME NEW l PROVE QtyOf(FIFO(b, l)) \in Nat
  BY FIFOFacts
<1> QED BY <1>1, <1>2 DEF Touch, QuoteRec

LEMMA CutType ==
    ASSUME NEW q \in Seq(Sized), NEW id, NEW n \in Int
    PROVE  CutAhead(q, id, n) \in Seq(Sized)
<1> DEFINE P == {k \in DOMAIN q : q[k].id # id \/ n > 0}
           kept == Pick(q, P)
<1>1. /\ kept \in Seq(Sized)
      /\ \E e \in [DOMAIN kept -> P] : \A k \in DOMAIN kept : kept[k] = q[e[k]]
  <2>1. P \subseteq DOMAIN q
    OBVIOUS
  <2> HIDE DEF P
  <2> QED BY <2>1, PickFacts
<1>2. PICK e \in [DOMAIN kept -> P] : \A k \in DOMAIN kept : kept[k] = q[e[k]]
  BY <1>1
<1>3. CutAhead(q, id, n) =
         [k \in DOMAIN kept |-> IF kept[k].id = id THEN [id |-> id, qty |-> n] ELSE kept[k]]
  BY DEF CutAhead
<1>4. ASSUME NEW k \in DOMAIN kept
      PROVE  (IF kept[k].id = id THEN [id |-> id, qty |-> n] ELSE kept[k]) \in Sized
  <2>1. kept[k].id = id => n > 0
    <3>1. e[k] \in P /\ kept[k] = q[e[k]]
      BY <1>2
    <3> QED BY <3>1
  <2> HIDE DEF kept
  <2>2. kept[k] \in Sized /\ kept[k].id \in Nat
    BY <1>1, CountedFacts
  <2> QED BY <2>1, <2>2 DEF Sized
<1> HIDE DEF kept
<1>5. DOMAIN kept = 1..Len(kept) /\ Len(kept) \in Nat
  BY <1>1
<1>6. CutAhead(q, id, n) \in [1..Len(kept) -> Sized]
  BY <1>3, <1>4, <1>5
<1> QED BY <1>5, <1>6

LEMMA OnBookType ==
    ASSUME NEW i, aheadIDs[i] \in Seq(Sized), NEW r \in Rows
    PROVE  OnBook(i, r) \in Seq(Sized)
<1>1. r.qty \in Int /\ r \in RowRec
  BY RowsAssumption DEF RowRec
<1> DEFINE lost == \/ r.px # order[i].px \/ r.side # order[i].side
                   \/ \E k \in {k \in DOMAIN aheadIDs[i] : aheadIDs[i][k].id = r.id} :
                         r.qty > aheadIDs[i][k].qty
           n == IF lost THEN 0 ELSE r.qty
<1>2. n \in Int
  <2> HIDE DEF lost
  <2> QED BY <1>1
<1>3. /\ r.action = "clear" => OnBook(i, r) = <<>>
      /\ r.action = "cancel" => OnBook(i, r) = CutAhead(aheadIDs[i], r.id, 0)
      /\ r.action = "modify" => OnBook(i, r) = CutAhead(aheadIDs[i], r.id, n)
      /\ r.action = "add" => OnBook(i, r) = aheadIDs[i]
  BY DEF OnBook
<1> HIDE DEF n
<1>4. \A m \in Int : CutAhead(aheadIDs[i], r.id, m) \in Seq(Sized)
  BY CutType
<1>5. r.action \in {"add", "cancel", "modify", "clear"}
  BY <1>1 DEF RowRec
<1>6. <<>> \in Seq(Sized) /\ aheadIDs[i] \in Seq(Sized)
  OBVIOUS
<1>7. CutAhead(aheadIDs[i], r.id, 0) \in Seq(Sized) /\ CutAhead(aheadIDs[i], r.id, n) \in Seq(Sized)
  BY <1>2, <1>4
<1> QED BY <1>3, <1>5, <1>6, <1>7

-----------------------------------------------------------------------------
(* The venue around the ghosts. *)

\* What a working order lists is what it counts.  Until a print has hit it, it
\* lists the older part of its level.
ListType == aheadIDs \in [Ids -> Seq(Sized)]
Counts == \A i \in In("working") : ahead[i] = QtyOf(aheadIDs[i])
Follows == \A i \in In("working") : since[i] = 0 =>
              aheadIDs[i] = OlderOf(book, Level(order[i]), behind[i])
NoneBehind == \A i \in Ids : place[i] # "working" => behind[i] = {}
UnhitUnfilled == \A i \in Ids : atPx[i] > 0 => since[i] > 0

LBase == Base /\ BookInv /\ ListType
GhostInv == Counts /\ NoneBehind /\ UnhitUnfilled

LEMMA RestL3Type ==
    ASSUME LBase, NEW S, NEW ords, \A i \in S : ords[i] \in OrderRec, RestL3(S, ords)
    PROVE  /\ remaining' \in [Ids -> Nat] /\ ahead' \in [Ids -> Nat]
           /\ joined' \in [Ids -> BOOLEAN] /\ claim' \in [Ids -> Nat]
           /\ ListType' /\ RestsWhole(S, ords)
<1>1. /\ aheadIDs \in [Ids -> Seq(Sized)] /\ TypeOK /\ BookOK(book)
      /\ \A i \in S : ords[i].qty \in Nat
  BY DEF LBase, Base, ListType, BookInv, OrderRec
<1>2. \A l : FIFO(book, l) \in Seq(Sized)
  BY <1>1, FIFOFacts
<1>3. aheadIDs' \in [Ids -> Seq(Sized)]
  BY <1>1, <1>2 DEF RestL3
<1>4. \A i \in Ids : QtyOf(aheadIDs'[i]) \in Nat
  BY <1>3, QtyFacts
<1>5. ahead' \in [Ids -> Nat]
  BY <1>1, <1>4 DEF RestL3, TypeOK
<1>6. remaining' \in [Ids -> Nat] /\ joined' \in [Ids -> BOOLEAN]
  BY <1>1 DEF RestL3, TypeOK
<1>7. claim' \in [Ids -> Nat]
  BY <1>1, <1>5 DEF RestL3, TypeOK
<1> QED BY <1>3, <1>5, <1>6, <1>7 DEF ListType, RestL3, RestsWhole

LEMMA SettleL3Base ==
    ASSUME LBase, NEW D \in SUBSET Ids, NEW ts \in 0..MaxTs, SettleL3(D, ts),
           \A i \in D : place[i] \in {"inbox", "delayed"},
           now' \in 0..MaxTs, flushed' \in BOOLEAN
    PROVE  LBase'
<1>1. /\ SettleOutcome(D, ts) /\ RestL3(Rests(D), order) /\ book' = book
      /\ TypeOK /\ Base /\ BookOK(book)
  BY DEF SettleL3, LBase, Base, BookInv
<1>2. \A i \in Rests(D) : order[i] \in OrderRec
  BY <1>1 DEF TypeOK, Rests
<1>3. /\ remaining' \in [Ids -> Nat] /\ ahead' \in [Ids -> Nat]
      /\ joined' \in [Ids -> BOOLEAN] /\ claim' \in [Ids -> Nat]
      /\ ListType' /\ RestsWhole(Rests(D), order)
  BY <1>1, <1>2, RestL3Type
<1>4. TypeOK'
  BY <1>1, <1>3, OutcomeType
<1>5. Base'
  BY <1>1, <1>3, <1>4, OutcomeBase
<1> QED BY <1>1, <1>3, <1>5 DEF LBase, BookInv

LEMMA LAdoptBase ==
    ASSUME LBase, LAdoptFirst
    PROVE  LBase'
<1>1. /\ nextID = 0 /\ TypeOK /\ Base /\ BookOK(book) /\ book' = book
  BY DEF LAdoptFirst, LBase, Base, BookInv
<1>2. PICK ords \in Snapshots, lastID \in 0..MaxOrders :
         /\ AdoptOutcome(DOMAIN ords, ords, lastID)
         /\ RestL3(Limits(DOMAIN ords, ords), ords)
  BY DEF LAdoptFirst
<1> DEFINE S == DOMAIN ords
<1>3. S \in SUBSET Ids /\ ords \in [S -> Requests]
  BY DEF Snapshots
<1>4. \A i \in S : ords[i] \in OrderRec
  BY <1>2, <1>3, MatchingAssumption DEF AdoptOutcome, Limits, Valid, RequestRec, OrderRec
<1>5. \A i \in Limits(S, ords) : ords[i] \in OrderRec
  BY <1>4 DEF Limits
<1>6. /\ remaining' \in [Ids -> Nat] /\ ahead' \in [Ids -> Nat]
      /\ joined' \in [Ids -> BOOLEAN] /\ claim' \in [Ids -> Nat]
      /\ ListType' /\ RestsWhole(Limits(S, ords), ords)
  BY <1>2, <1>5, RestL3Type
<1>7. TypeOK'
  <2> HIDE DEF S
  <2>1. AdoptOutcome(S, ords, lastID)
    BY <1>2 DEF S
  <2> QED BY <1>1, <1>3, <1>4, <1>6, <2>1, AdoptOutcomeType
<1>8. Base'
  BY <1>1, <1>2, <1>3, <1>6, <1>7, AdoptOutcomeBase
<1> QED BY <1>1, <1>6, <1>8 DEF LBase, BookInv

LEMMA BookRowBase ==
    ASSUME LBase, NEW r \in Rows, NEW ts \in Stamps, BookRow(r, ts)
    PROVE  LBase'
<1>1. TypeOK /\ Base /\ BookOK(book) /\ aheadIDs \in [Ids -> Seq(Sized)]
  BY DEF LBase, Base, BookInv, ListType
<1>2. BookOK(book')
  BY <1>1, RowFacts DEF BookRow
<1>3. quote' \in QuoteRec
  BY <1>2, TouchType DEF BookRow
<1>4. \A i \in Ids : OnBook(i, r) \in Seq(Sized)
  <2> TAKE i \in Ids
  <2>1. aheadIDs[i] \in Seq(Sized)
    BY <1>1
  <2> QED BY <2>1, OnBookType
<1>5. aheadIDs' \in [Ids -> Seq(Sized)]
  BY <1>1, <1>4 DEF BookRow
<1>6. \A i \in Ids : QtyOf(aheadIDs'[i]) \in Nat
  BY <1>5, QtyFacts
<1>7. ahead' \in [Ids -> Nat]
  BY <1>1, <1>6 DEF BookRow, TypeOK
<1>8. now' \in 0..MaxTs /\ hasQ' \in BOOLEAN /\ raw' \subseteq Event
  BY <1>1, LaterIsTime DEF BookRow
<1>9. UNCHANGED <<nextID, order, place, ready, remaining, joined,
                  executed, atPx, paid, claim, since, flushed>>
  BY DEF BookRow, history
<1>10. TypeOK'
  BY <1>1, <1>3, <1>7, <1>8, <1>9 DEF TypeOK
<1>11. Base'
  BY <1>1, <1>9, <1>10 DEF Base, FreshIds, Untouched, LiveValid, Conservation, Live, In
<1> QED BY <1>2, <1>5, <1>11 DEF LBase, BookInv, ListType

LEMMA NextLBase == LBase /\ [LNext]_l3vars => LBase'
<1> SUFFICES ASSUME LBase, [LNext]_l3vars PROVE LBase'
  OBVIOUS
<1>1. /\ TypeOK /\ Base /\ BookInv /\ BookInv'
      /\ aheadIDs \in [Ids -> Seq(Sized)]
  BY NextBook DEF LBase, Base, ListType
<1>2. <<>> \in Seq(Sized)
  OBVIOUS
<1>3. ASSUME NEW o \in Requests, LEnqueue(o) PROVE LBase'
  BY <1>1, <1>3, EnqueueBase DEF LEnqueue, LBase, ListType
<1>4. ASSUME NEW i \in Ids, LCancel(i) PROVE LBase'
  <2>1. Base'
    BY <1>1, <1>4, CancelBase DEF LCancel
  <2>2. ListType'
    BY <1>1, <1>2, <1>4 DEF LCancel, Queues, ListType
  <2> QED BY <1>1, <2>1, <2>2 DEF LBase
<1>5. ASSUME NEW ts \in Stamps, LSettle(ts) PROVE LBase'
  <2> DEFINE D == In("inbox") \cup Due(ts)
  <2>1. D \in SUBSET Ids /\ \A i \in D : place[i] \in {"inbox", "delayed"}
    BY DEF In, Due
  <2>2. ts \in 0..MaxTs /\ now' \in 0..MaxTs /\ flushed' \in BOOLEAN /\ SettleL3(D, ts)
    BY <1>1, <1>5, LaterIsTime, StampsAreTimes DEF LSettle, TypeOK
  <2> HIDE DEF D
  <2> QED BY <2>1, <2>2, SettleL3Base
<1>6. ASSUME NEW r \in Rows, NEW ts \in Stamps, BookRow(r, ts) PROVE LBase'
  BY <1>6, BookRowBase
<1>7. ASSUME NEW t \in Trades, NEW ts \in Stamps, LTrade(t, ts) PROVE LBase'
  <2>1. PICK left \in Passes(t) :
           /\ OnTrade(t, ts, left)
           /\ aheadIDs' = Queues([i \in Ids |-> IF i \in Hits(t)
                                                THEN Consume(aheadIDs[i], left[i - 1])
                                                ELSE aheadIDs[i]])
    BY <1>7 DEF LTrade
  <2>2. Trade(t, ts)
    BY <2>1 DEF Trade
  <2>3. Base'
    BY <1>1, <2>2, TradeBase
  <2>4. \A i \in Ids : Consume(aheadIDs[i], left[i - 1]) \in Seq(Sized)
    BY <1>1, LeftIsNat, ConsumeFacts
  <2>5. ListType'
    BY <1>1, <1>2, <2>1, <2>4 DEF ListType, Queues
  <2> QED BY <1>1, <2>3, <2>5 DEF LBase
<1>8. CASE LFlush
  <2> DEFINE D == In("inbox") \cup In("delayed")
  <2>1. D \in SUBSET Ids /\ \A i \in D : place[i] \in {"inbox", "delayed"}
    BY DEF In
  <2>2. now \in 0..MaxTs /\ now' \in 0..MaxTs /\ flushed' \in BOOLEAN /\ SettleL3(D, now)
    BY <1>1, <1>8 DEF LFlush, TypeOK
  <2> HIDE DEF D
  <2> QED BY <2>1, <2>2, SettleL3Base
<1>9. CASE LAdoptFirst
  BY <1>9, LAdoptBase
<1>10. CASE UNCHANGED l3vars
  BY <1>1, <1>10 DEF l3vars, vars, resting, history, LBase, ListType,
     Base, TypeOK, FreshIds, Untouched, LiveValid, Conservation, Live, In
<1> QED BY <1>3, <1>4, <1>5, <1>6, <1>7, <1>8, <1>9, <1>10 DEF LNext

LEMMA LBaseHolds == LSpec => []LBase
<1>1. LInit => LBase
  <2> SUFFICES ASSUME LInit PROVE LBase
    OBVIOUS
  <2>1. Base
    BY InitBase DEF LInit
  <2>2. BookInv
    BY EmptyBookFacts DEF LInit, BookInit, BookInv
  <2>3. ListType
    BY DEF LInit, ListType
  <2> QED BY <2>1, <2>2, <2>3 DEF LBase
<1> QED BY <1>1, NextLBase, PTL DEF LSpec

\* Orders enter the queue behind everything the book shows.
LEMMA RestL3Ghost ==
    ASSUME LBase, GhostInv, NEW S, NEW ords, RestL3(S, ords),
           UNCHANGED <<book, behind, since, atPx>>,
           \A i \in Ids : place[i] = "working" => order'[i] = order[i],
           \A i \in S : place[i] # "working" /\ order'[i] = ords[i],
           \A i \in Ids : place'[i] = "working" => i \in S \/ place[i] = "working",
           \A i \in Ids : place[i] = "working" => place'[i] = "working" /\ i \notin S
    PROVE  GhostInv' /\ (Follows => Follows')
<1>1. BookOK(book) /\ aheadIDs \in [Ids -> Seq(Sized)] /\ TypeOK
  BY DEF LBase, Base, BookInv, ListType
<1>2. \A i \in Ids : /\ aheadIDs'[i] = IF i \in S THEN FIFO(book, Level(ords[i])) ELSE aheadIDs[i]
                     /\ ahead'[i] = IF i \in S THEN QtyOf(aheadIDs'[i]) ELSE ahead[i]
  BY DEF RestL3
<1>3. Counts'
  BY <1>2 DEF GhostInv, Counts, In
<1>4. NoneBehind'
  BY DEF GhostInv, NoneBehind
<1>5. UnhitUnfilled'
  BY DEF GhostInv, UnhitUnfilled
<1>6. ASSUME Follows PROVE Follows'
  <2> SUFFICES ASSUME NEW i \in Ids, place'[i] = "working", since[i] = 0
               PROVE  aheadIDs'[i] = OlderOf(book, Level(order'[i]), behind[i])
    BY DEF Follows, In
  <2>1. CASE i \in S
    <3>1. behind[i] = {} /\ order'[i] = ords[i]
      BY <2>1 DEF GhostInv, NoneBehind
    <3>2. OlderOf(book, Level(ords[i]), {}) = FIFO(book, Level(ords[i]))
      BY <1>1, FIFOFacts
    <3> QED BY <1>2, <2>1, <3>1, <3>2
  <2>2. CASE i \notin S
    BY <1>2, <1>6, <2>2 DEF Follows, In
  <2> QED BY <2>1, <2>2
<1> QED BY <1>3, <1>4, <1>5, <1>6 DEF GhostInv

LEMMA SettleL3Ghost ==
    ASSUME LBase, GhostInv, NEW D \in SUBSET Ids, NEW ts, SettleL3(D, ts),
           \A i \in D : place[i] \in {"inbox", "delayed"}
    PROVE  GhostInv' /\ (Follows => Follows')
<1>1. /\ SettleOutcome(D, ts) /\ RestL3(Rests(D), order)
      /\ UNCHANGED <<book, behind, since, atPx, order>>
  BY DEF SettleL3, SettleOutcome
<1>2. RestsWhole(Rests(D), order) /\ TypeOK
  BY <1>1 DEF RestL3, RestsWhole, LBase, Base
<1>3. \A i \in Ids : /\ i \notin D => place'[i] = place[i]
                     /\ i \in D /\ place'[i] = "working" => i \in Rests(D)
  BY <1>1, <1>2, Outcome DEF Rests
<1>4. \A i \in Rests(D) : place[i] # "working"
  BY DEF Rests
<1>5. \A i \in Ids : place[i] = "working" => i \notin D /\ i \notin Rests(D)
  BY DEF Rests
<1> QED BY <1>1, <1>3, <1>4, <1>5, RestL3Ghost

LEMMA LAdoptGhost ==
    ASSUME LBase, GhostInv, LAdoptFirst
    PROVE  GhostInv' /\ (Follows => Follows')
<1>1. nextID = 0 /\ TypeOK /\ FreshIds /\ UNCHANGED <<book, behind>>
  BY DEF LAdoptFirst, LBase, Base
<1>2. PICK ords \in Snapshots, lastID \in 0..MaxOrders :
         /\ AdoptOutcome(DOMAIN ords, ords, lastID)
         /\ RestL3(Limits(DOMAIN ords, ords), ords)
  BY DEF LAdoptFirst
<1> DEFINE S == DOMAIN ords
           L == Limits(S, ords)
<1>3. L \subseteq S /\ S \in SUBSET Ids
  BY DEF Snapshots, Limits
<1>4. \A i \in Ids : place[i] = "none"
  BY <1>1 DEF FreshIds, Ids
<1>5. /\ \A i \in S : order'[i] = ords[i]
      /\ UNCHANGED <<since, atPx>>
  BY <1>2, <1>3 DEF AdoptOutcome
<1>6. \A i \in Ids : place'[i] = "working" => i \in L
  BY <1>2, <1>4 DEF AdoptOutcome
<1> HIDE DEF L
<1>7. RestL3(L, ords)
  BY <1>2 DEF L
<1> HIDE DEF S
<1> QED BY <1>1, <1>3, <1>4, <1>5, <1>6, <1>7, RestL3Ghost

LEMMA BookRowGhost ==
    ASSUME LBase, GhostInv, NEW r \in Rows, NEW ts \in Stamps, BookRow(r, ts)
    PROVE  GhostInv' /\ (~ReAdds /\ Follows => Follows')
<1>1. BookOK(book) /\ TypeOK
  BY DEF LBase, Base, BookInv
<1>2. /\ UNCHANGED <<order, place, since, atPx>>
      /\ book' = ApplyRow(book, r)
      /\ r.action = "add" /\ ~ReAdds => r.id \notin DOMAIN book.byID
  BY DEF BookRow, history
<1>3. \A i \in Ids : place[i] = "working" =>
         /\ aheadIDs'[i] = OnBook(i, r)
         /\ ahead'[i] = QtyOf(aheadIDs'[i])
         /\ behind'[i] = (behind[i] \cap DOMAIN book'.byID) \cup NewPlace(book, book', r)
  BY DEF BookRow
<1>4. \A i \in Ids : place[i] # "working" => behind'[i] = {}
  BY DEF BookRow
<1>5. Counts' /\ NoneBehind' /\ UnhitUnfilled'
  BY <1>2, <1>3, <1>4 DEF GhostInv, Counts, NoneBehind, UnhitUnfilled, In
<1>6. ASSUME ~ReAdds, Follows PROVE Follows'
  <2> SUFFICES ASSUME NEW i \in Ids, place[i] = "working", since[i] = 0
               PROVE  aheadIDs'[i] = OlderOf(book', Level(order[i]), behind'[i])
    BY <1>2 DEF Follows, In
  <2>1. aheadIDs[i] = OlderOf(book, Level(order[i]), behind[i])
    BY <1>6 DEF Follows, In
  <2>2. r.action = "add" => r.id \notin DOMAIN book.byID
    BY <1>2, <1>6
  <2>3. OnBook(i, r) = OlderOf(ApplyRow(book, r), Level(order[i]),
            (behind[i] \cap DOMAIN ApplyRow(book, r).byID) \cup NewPlace(book, ApplyRow(book, r), r))
    BY <1>1, <2>1, <2>2, GhostFollows
  <2> QED BY <1>2, <1>3, <2>3
<1> QED BY <1>5, <1>6 DEF GhostInv

\* What one print does to the list and the count of a working order.
LEMMA LTradeGhost ==
    ASSUME LBase, GhostInv, NEW t \in Trades, NEW ts \in Stamps, LTrade(t, ts)
    PROVE  GhostInv' /\ (Follows => Follows')
<1>1. /\ BookOK(book) /\ TypeOK /\ aheadIDs \in [Ids -> Seq(Sized)]
      /\ book' = book
  BY DEF LBase, Base, BookInv, ListType, LTrade
<1>2. PICK left \in Passes(t) :
         /\ OnTrade(t, ts, left)
         /\ aheadIDs' = Queues([i \in Ids |-> IF i \in Hits(t)
                                              THEN Consume(aheadIDs[i], left[i - 1])
                                              ELSE aheadIDs[i]])
         /\ behind' = Trailing(behind)
  BY DEF LTrade
<1>3. order' = order
  BY <1>2 DEF OnTrade
<1>4. \A i \in Ids : /\ place'[i] = "working" => place[i] = "working"
                     /\ i \in Hits(t) =>
                           /\ ahead'[i] = ahead[i] - Min2(ahead[i], left[i - 1])
                           /\ atPx'[i] = atPx[i] + Take(i, left[i - 1])
                           /\ since'[i] = since[i] + t.qty
                     /\ i \notin Hits(t) =>
                           ahead'[i] = ahead[i] /\ atPx'[i] = atPx[i] /\ since'[i] = since[i]
  BY <1>1, <1>2, Traded
<1>5. \A i \in Ids : /\ left[i - 1] \in Nat /\ left[i - 1] <= t.qty /\ t.qty \in Nat
                     /\ since[i] \in Nat /\ ahead[i] \in Nat /\ atPx[i] \in Nat
                     /\ Take(i, left[i - 1]) \in 0..remaining[i]
                     /\ left[i - 1] <= ahead[i] => Take(i, left[i - 1]) = 0
  BY <1>1, LeftIsNat, QueueTypes, TakeBounds DEF TradeRec
<1>6. \A i \in Ids : place'[i] = "working" =>
         /\ aheadIDs'[i] = IF i \in Hits(t) THEN Consume(aheadIDs[i], left[i - 1]) ELSE aheadIDs[i]
         /\ behind'[i] = behind[i]
  BY <1>2 DEF Queues, Trailing
<1>7. Counts'
  <2> SUFFICES ASSUME NEW i \in Ids, place'[i] = "working"
               PROVE  ahead'[i] = QtyOf(aheadIDs'[i])
    BY DEF Counts, In
  <2>1. ahead[i] = QtyOf(aheadIDs[i]) /\ aheadIDs[i] \in Seq(Sized) /\ left[i - 1] \in Nat
    BY <1>1, <1>4, <1>5 DEF GhostInv, Counts, In
  <2>2. QtyOf(Consume(aheadIDs[i], left[i - 1]))
           = QtyOf(aheadIDs[i]) - Min2(QtyOf(aheadIDs[i]), left[i - 1])
    BY <2>1, ConsumeFacts
  <2> QED BY <1>4, <1>6, <2>1, <2>2
<1>8. NoneBehind'
  BY <1>2 DEF NoneBehind, Trailing
<1>9. UnhitUnfilled'
  <2> SUFFICES ASSUME NEW i \in Ids, atPx'[i] > 0 PROVE since'[i] > 0
    BY DEF UnhitUnfilled
  <2>1. atPx[i] > 0 => since[i] > 0
    BY DEF GhostInv, UnhitUnfilled
  <2>2. CASE i \in Hits(t)
    <3>1. Take(i, left[i - 1]) > 0 => t.qty > 0
      BY <1>5
    <3>2. remaining[i] \in Nat /\ Take(i, left[i - 1]) \in Nat
      BY <1>1, <1>5 DEF TypeOK
    <3> QED BY <1>4, <1>5, <2>1, <2>2, <3>1, <3>2
  <2>3. CASE i \notin Hits(t)
    BY <1>4, <2>1, <2>3
  <2> QED BY <2>2, <2>3
<1>10. ASSUME Follows PROVE Follows'
  <2> SUFFICES ASSUME NEW i \in Ids, place'[i] = "working", since'[i] = 0
               PROVE  aheadIDs'[i] = OlderOf(book, Level(order[i]), behind'[i])
    BY <1>1, <1>3 DEF Follows, In
  <2>1. since[i] = 0 /\ (i \in Hits(t) => left[i - 1] = 0)
    BY <1>4, <1>5
  <2>2. aheadIDs[i] = OlderOf(book, Level(order[i]), behind[i])
    BY <1>4, <1>10, <2>1 DEF Follows, In
  <2>3. aheadIDs[i] \in Seq(Sized)
    BY <1>1
  <2>4. Consume(aheadIDs[i], 0) = aheadIDs[i]
    BY <2>3, ConsumeNothing
  <2> QED BY <1>6, <2>1, <2>2, <2>4
<1> QED BY <1>7, <1>8, <1>9, <1>10 DEF GhostInv

LEMMA NextGhost ==
    LBase /\ GhostInv /\ [LNext]_l3vars => GhostInv' /\ (~ReAdds /\ Follows => Follows')
<1> SUFFICES ASSUME LBase, GhostInv, [LNext]_l3vars
             PROVE  GhostInv' /\ (~ReAdds /\ Follows => Follows')
  OBVIOUS
<1>1. TypeOK /\ FreshIds
  BY DEF LBase, Base
<1>2. ASSUME NEW o \in Requests, LEnqueue(o) PROVE GhostInv' /\ (Follows => Follows')
  <2> DEFINE n == nextID + 1
             p == IF Entry = 0 THEN "inbox" ELSE "delayed"
  <2>0. n \in Ids /\ place[n] = "none" /\ p # "working"
    BY <1>1, <1>2, MatchingAssumption DEF LEnqueue, Enqueue, TypeOK, FreshIds, Ids
  <2>1. /\ order' = [order EXCEPT ![n] = o]
        /\ place' = [place EXCEPT ![n] = p]
        /\ UNCHANGED <<ahead, atPx, since, book, aheadIDs, behind>>
    BY <1>2 DEF LEnqueue, Enqueue, resting, history
  <2> HIDE DEF n, p
  <2>2. \A i \in Ids : /\ place'[i] = "working" => place[i] = "working" /\ order'[i] = order[i]
                       /\ place[i] = "working" => place'[i] = "working"
    BY <1>1, <2>0, <2>1 DEF TypeOK
  <2> QED BY <2>1, <2>2 DEF GhostInv, Counts, NoneBehind, UnhitUnfilled, Follows, In
<1>3. ASSUME NEW c \in Ids, LCancel(c) PROVE GhostInv' /\ (Follows => Follows')
  <2>1. /\ place' = [place EXCEPT ![c] = "canceled"]
        /\ UNCHANGED <<order, ahead, atPx, since, book>>
        /\ aheadIDs' = Queues(aheadIDs) /\ behind' = Trailing(behind)
    BY <1>3 DEF LCancel, Cancel, resting, history
  <2>2. \A i \in Ids : place'[i] = "working" =>
           place[i] = "working" /\ aheadIDs'[i] = aheadIDs[i] /\ behind'[i] = behind[i]
    BY <1>1, <2>1 DEF TypeOK, Queues, Trailing
  <2>3. NoneBehind'
    BY <2>1 DEF NoneBehind, Trailing
  <2> QED BY <2>1, <2>2, <2>3 DEF GhostInv, Counts, UnhitUnfilled, Follows, In
<1>4. ASSUME NEW ts \in Stamps, LSettle(ts) PROVE GhostInv' /\ (Follows => Follows')
  <2> DEFINE D == In("inbox") \cup Due(ts)
  <2>1. D \in SUBSET Ids /\ \A i \in D : place[i] \in {"inbox", "delayed"}
    BY DEF In, Due
  <2>2. SettleL3(D, ts)
    BY <1>4 DEF LSettle
  <2> HIDE DEF D
  <2> QED BY <2>1, <2>2, SettleL3Ghost
<1>5. ASSUME NEW r \in Rows, NEW ts \in Stamps, BookRow(r, ts)
      PROVE  GhostInv' /\ (~ReAdds /\ Follows => Follows')
  BY <1>5, BookRowGhost
<1>6. ASSUME NEW t \in Trades, NEW ts \in Stamps, LTrade(t, ts)
      PROVE  GhostInv' /\ (Follows => Follows')
  BY <1>6, LTradeGhost
<1>7. ASSUME LFlush PROVE GhostInv' /\ (Follows => Follows')
  <2> DEFINE D == In("inbox") \cup In("delayed")
  <2>1. D \in SUBSET Ids /\ \A i \in D : place[i] \in {"inbox", "delayed"}
    BY DEF In
  <2>2. SettleL3(D, now)
    BY <1>7 DEF LFlush
  <2> HIDE DEF D
  <2> QED BY <2>1, <2>2, SettleL3Ghost
<1>8. ASSUME LAdoptFirst PROVE GhostInv' /\ (Follows => Follows')
  BY <1>8, LAdoptGhost
<1>9. CASE UNCHANGED l3vars
  BY <1>9 DEF l3vars, vars, resting, history,
     GhostInv, Counts, NoneBehind, UnhitUnfilled, Follows, In
<1> QED BY <1>2, <1>3, <1>4, <1>5, <1>6, <1>7, <1>8, <1>9 DEF LNext

LEMMA GhostHolds == LSpec => []GhostInv
<1>1. LInit => GhostInv
  BY DEF LInit, Init, GhostInv, Counts, NoneBehind, UnhitUnfilled, In
<1>2. LBase /\ GhostInv /\ [LNext]_l3vars => GhostInv'
  BY NextGhost
<1> QED BY <1>1, <1>2, LBaseHolds, PTL DEF LSpec

LEMMA FollowsHolds == ~ReAdds => (LSpec => []Follows)
<1> SUFFICES ASSUME ~ReAdds PROVE LSpec => []Follows
  OBVIOUS
<1>1. LInit => Follows
  BY DEF LInit, Init, Follows, In
<1>2. LBase /\ GhostInv /\ Follows /\ [LNext]_l3vars => Follows'
  BY NextGhost
<1> QED BY <1>1, <1>2, LBaseHolds, GhostHolds, PTL DEF LSpec

-----------------------------------------------------------------------------
(* After a print: what a ghost still lists stands in the book, before it. *)

\* The entry a of a list is an order of level l that is not one of B, and counts
\* no more of it than the book b shows.
Stood(b, l, B, a) == a.id \in StandAt(b, l) \ B /\ a.qty <= b.byID[a.id].qty
AllStood(b, l, B, q) == \A k \in DOMAIN q : Stood(b, l, B, q[k])

\* cutAhead keeps the entries of other ids, and of this id only a positive size.
LEMMA CutHas ==
    ASSUME NEW q \in Seq(Sized), NEW id, NEW n \in Int, NEW k \in DOMAIN CutAhead(q, id, n)
    PROVE  LET a == CutAhead(q, id, n)[k]
           IN  \E j \in DOMAIN q : \/ q[j].id # id /\ a = q[j]
                                   \/ q[j].id = id /\ n > 0 /\ a = [id |-> id, qty |-> n]
<1> DEFINE P == {m \in DOMAIN q : q[m].id # id \/ n > 0}
           kept == Pick(q, P)
<1>1. \E e \in [DOMAIN kept -> P] : \A m \in DOMAIN kept : kept[m] = q[e[m]]
  <2>1. P \subseteq DOMAIN q
    OBVIOUS
  <2> HIDE DEF P
  <2> QED BY <2>1, PickFacts
<1>2. PICK e \in [DOMAIN kept -> P] : \A m \in DOMAIN kept : kept[m] = q[e[m]]
  BY <1>1
<1>3. CutAhead(q, id, n) =
         [m \in DOMAIN kept |-> IF kept[m].id = id THEN [id |-> id, qty |-> n] ELSE kept[m]]
  BY DEF CutAhead
<1>4. k \in DOMAIN kept
  <2> HIDE DEF kept
  <2> QED BY <1>3
<1>5. e[k] \in P /\ kept[k] = q[e[k]]
  BY <1>2, <1>4
<1>6. CutAhead(q, id, n)[k] = IF kept[k].id = id THEN [id |-> id, qty |-> n] ELSE kept[k]
  <2> HIDE DEF kept
  <2> QED BY <1>3, <1>4
<1>7. e[k] \in DOMAIN q /\ (q[e[k]].id # id \/ n > 0)
  BY <1>5
<1> HIDE DEF kept, P
<1> QED BY <1>5, <1>6, <1>7

\* What is picked stands somewhere in the sequence.
LEMMA PickedFrom ==
    ASSUME NEW S, NEW s \in Seq(S), NEW P, P \subseteq DOMAIN s, NEW n \in DOMAIN Pick(s, P)
    PROVE  \E j \in P : Pick(s, P)[n] = s[j]
<1>1. Len(s) \in Nat /\ P \subseteq 1..Len(s)
  OBVIOUS
<1>2. Pick(s, P) = [m \in 1..Cardinality(P) |-> s[Nth(P, m)]]
  BY DEF Pick
<1>3. n \in 1..Cardinality(P) /\ Pick(s, P)[n] = s[Nth(P, n)]
  BY <1>2
<1>4. Nth(P, n) \in P
  BY <1>1, <1>3, NthFacts
<1> QED BY <1>3, <1>4

\* A print leaves of each order it reaches at most what was counted of it.
LEMMA ConsumeHas ==
    ASSUME NEW q \in Seq(Sized), NEW n \in Nat, NEW k \in DOMAIN Consume(q, n)
    PROVE  \E j \in DOMAIN q : /\ Consume(q, n)[k].id = q[j].id
                               /\ Consume(q, n)[k].qty <= q[j].qty
<1> DEFINE P == Reached(q, n)
           all == Rump(q, n)
<1>1. /\ DOMAIN q = 1..Len(q) /\ Len(q) \in Nat
      /\ \A m \in DOMAIN q : q[m].qty \in Int /\ UpToHere(q, m) \in Nat
  BY CountedFacts, UpToHereFacts
<1>2. \A m \in DOMAIN q : all[m] = [id |-> q[m].id, qty |-> Min2(q[m].qty, UpToHere(q, m) - n)]
  BY DEF Rump
<1>3. DOMAIN all = DOMAIN q
  BY DEF Rump
<1> DEFINE R == {all[m] : m \in DOMAIN q}
<1>4. all \in Seq(R)
  <2>1. \A m \in 1..Len(q) : all[m] \in R
    BY <1>1
  <2>2. all = [m \in 1..Len(q) |-> all[m]]
    BY <1>1 DEF Rump
  <2> HIDE DEF all, R
  <2> QED BY <1>1, <2>1, <2>2
<1>5. P \subseteq DOMAIN all
  BY <1>3 DEF Reached
<1>6. Consume(q, n) = Pick(all, P)
  BY ConsumeIs
<1> HIDE DEF P, all, R
<1>7. k \in DOMAIN Pick(all, P)
  BY <1>6
<1>8. PICK j \in P : Consume(q, n)[k] = all[j]
  <2>1. \E j \in P : Pick(all, P)[k] = all[j]
    BY <1>4, <1>5, <1>7, PickedFrom
  <2> QED BY <1>6, <2>1
<1>9. j \in DOMAIN q /\ Consume(q, n)[k].id = q[j].id
      /\ Consume(q, n)[k].qty = Min2(q[j].qty, UpToHere(q, j) - n)
  BY <1>2, <1>3, <1>5, <1>8
<1> QED BY <1>1, <1>9 DEF Min2

\* The whole level stands, with the sizes the book shows.
LEMMA LevelStands ==
    ASSUME NEW b, BookOK(b), NEW l
    PROVE  AllStood(b, l, {}, FIFO(b, l))
<1>1. CASE l \notin Levels
  BY <1>1 DEF FIFO, AllStood
<1>2. CASE l \in Levels
  <2>1. b.level[l] \in Seq(Nat) /\ Elements(b.level[l]) = StandAt(b, l)
    BY <1>2 DEF BookOK
  <2>2. FIFO(b, l) = [k \in DOMAIN b.level[l] |->
            [id |-> b.level[l][k], qty |-> b.byID[b.level[l][k]].qty]]
    BY <1>2 DEF FIFO
  <2> SUFFICES ASSUME NEW k \in DOMAIN FIFO(b, l)
               PROVE  Stood(b, l, {}, FIFO(b, l)[k])
    BY DEF AllStood
  <2>3. /\ k \in DOMAIN b.level[l]
        /\ FIFO(b, l)[k] = [id |-> b.level[l][k], qty |-> b.byID[b.level[l][k]].qty]
    BY <2>2
  <2>4. b.level[l][k] \in StandAt(b, l)
    BY <2>1, <2>3 DEF Elements
  <2>5. b.byID[b.level[l][k]].qty \in Nat
    BY <2>4 DEF StandAt, BookOK, Resting
  <2> QED BY <2>3, <2>4, <2>5 DEF Stood
<1> QED BY <1>1, <1>2

\* A row that takes an order's place, or its level, takes it off the list.
LEMMA RowStands ==
    ASSUME BookOK(book), NEW r \in Rows, NEW i, NEW B, aheadIDs[i] \in Seq(Sized),
           AllStood(book, Level(order[i]), B, aheadIDs[i]),
           r.action = "add" => r.id \notin DOMAIN book.byID
    PROVE  LET c == ApplyRow(book, r)
           IN  AllStood(c, Level(order[i]), (B \cap DOMAIN c.byID) \cup NewPlace(book, c, r),
                        OnBook(i, r))
<1> DEFINE b == book
           c == ApplyRow(book, r)
           l == Level(order[i])
           q == aheadIDs[i]
           C == (B \cap DOMAIN c.byID) \cup NewPlace(b, c, r)
           old == {k \in DOMAIN q : q[k].id = r.id}
           lost == \/ r.px # order[i].px \/ r.side # order[i].side
                   \/ \E k \in old : r.qty > q[k].qty
           n == IF lost THEN 0 ELSE r.qty
<1>1. BookOK(c) /\ RowStep(b, c, r) /\ r \in RowRec
  BY RowFacts, RowsAssumption
<1>2. /\ r.qty \in Int /\ r.action \in {"add", "cancel", "modify", "clear"}
      /\ n \in Int /\ (n > 0 => ~lost /\ n = r.qty)
  <2>1. r.qty \in Int /\ r.action \in {"add", "cancel", "modify", "clear"}
    BY <1>1 DEF RowRec
  <2> HIDE DEF lost
  <2> QED BY <2>1
<1>3. /\ r.action = "clear" => OnBook(i, r) = <<>>
      /\ r.action = "cancel" => OnBook(i, r) = CutAhead(q, r.id, 0)
      /\ r.action = "modify" => OnBook(i, r) = CutAhead(q, r.id, n)
      /\ r.action = "add" => OnBook(i, r) = q
  BY DEF OnBook
<1>4. \A k \in DOMAIN q : /\ q[k].id \in DOMAIN b.byID \ B /\ PlaceOf(b.byID[q[k].id]) = l
                          /\ q[k].qty <= b.byID[q[k].id].qty /\ q[k].qty \in Int
  BY CountedFacts DEF AllStood, Stood, StandAt
<1>5. NewPlace(b, c, r) \subseteq {r.id}
  BY DEF NewPlace
<1> HIDE DEF c, C, n
\* The orders the row does not name are where they were.
<1>6. ASSUME NEW k \in DOMAIN q, q[k].id # r.id, r.action # "clear"
      PROVE  Stood(c, l, C, q[k])
  <2>1. q[k].id \in DOMAIN c.byID /\ c.byID[q[k].id] = b.byID[q[k].id]
    BY <1>1, <1>4, <1>6 DEF RowStep, Moves, Shrinks
  <2>2. q[k].id \notin C
    BY <1>4, <1>5, <1>6 DEF C
  <2> QED BY <1>4, <2>1, <2>2 DEF Stood, StandAt
\* The order it names stays only if it keeps its place.
<1>7. ASSUME NEW k \in DOMAIN q, q[k].id = r.id, r.action = "modify", n > 0
      PROVE  Stood(c, l, C, [id |-> r.id, qty |-> n])
  <2>1. ~lost /\ n = r.qty /\ r.qty <= q[k].qty /\ r.px = order[i].px /\ r.side = order[i].side
    BY <1>2, <1>4, <1>7
  <2> HIDE DEF lost
  <2>2. r.id \in DOMAIN b.byID /\ PlaceOf(b.byID[r.id]) = l /\ r.qty <= b.byID[r.id].qty
    <3>1. b.byID[r.id].qty \in Int
      BY <1>4, <1>7 DEF BookOK, Resting
    <3> QED BY <1>2, <1>4, <1>7, <2>1, <3>1
  <2>3. ~LosesPlace(b.byID[r.id], r)
    <3>1. b.byID[r.id].qty \in Int
      BY <2>2 DEF BookOK, Resting
    <3> QED BY <1>2, <2>1, <2>2, <3>1 DEF LosesPlace, PlaceOf, Level
  <2>4. Shrinks(b, c, r)
    BY <1>1, <1>2, <1>7, <2>1, <2>2, <2>3 DEF RowStep, Moves
  <2>5. /\ r.id \in DOMAIN c.byID
        /\ c.byID[r.id] = [side |-> r.side, px |-> r.px, qty |-> r.qty]
    BY <2>4 DEF Shrinks
  <2>6. ~LosesPlace(b.byID[r.id], c.byID[r.id])
    BY <2>3, <2>5 DEF LosesPlace
  <2>7. r.id \notin C
    BY <1>4, <1>7, <2>2, <2>6 DEF C, NewPlace
  <2>8. PlaceOf(c.byID[r.id]) = l
    BY <2>1, <2>5 DEF PlaceOf, Level
  <2> QED BY <1>2, <2>1, <2>5, <2>7, <2>8 DEF Stood, StandAt
<1>8. ASSUME NEW m \in Int,
             \/ r.action = "cancel" /\ m = 0
             \/ r.action = "modify" /\ m = n
      PROVE  AllStood(c, l, C, CutAhead(q, r.id, m))
  <2> SUFFICES ASSUME NEW k \in DOMAIN CutAhead(q, r.id, m)
               PROVE  Stood(c, l, C, CutAhead(q, r.id, m)[k])
    BY DEF AllStood
  <2>1. PICK j \in DOMAIN q :
           \/ q[j].id # r.id /\ CutAhead(q, r.id, m)[k] = q[j]
           \/ q[j].id = r.id /\ m > 0 /\ CutAhead(q, r.id, m)[k] = [id |-> r.id, qty |-> m]
    BY CutHas
  <2> QED BY <1>6, <1>7, <1>8, <2>1
<1>9. CASE r.action = "add"
  <2>1. \A k \in DOMAIN q : q[k].id # r.id
    BY <1>4, <1>9
  <2> QED BY <1>3, <1>6, <1>9, <2>1 DEF AllStood, c, C
<1>10. CASE r.action = "clear"
  BY <1>3, <1>10 DEF AllStood
<1>11. CASE r.action = "cancel"
  <2>1. AllStood(c, l, C, CutAhead(q, r.id, 0))
    BY <1>8, <1>11
  <2>2. AllStood(c, l, C, OnBook(i, r))
    BY <1>3, <1>11, <2>1
  <2> QED BY <2>2 DEF c, C
<1>12. CASE r.action = "modify"
  <2>1. AllStood(c, l, C, CutAhead(q, r.id, n))
    BY <1>2, <1>8, <1>12
  <2>2. AllStood(c, l, C, OnBook(i, r))
    BY <1>3, <1>12, <2>1
  <2> QED BY <2>2 DEF c, C
<1> QED BY <1>2, <1>9, <1>10, <1>11, <1>12

Stands == \A i \in Ids : place[i] = "working" =>
             AllStood(book, Level(order[i]), behind[i], aheadIDs[i])

LEMMA RestL3Stands ==
    ASSUME LBase, GhostInv, Stands, NEW S, NEW ords, RestL3(S, ords),
           UNCHANGED <<book, behind>>,
           \A i \in Ids : place[i] = "working" => order'[i] = order[i],
           \A i \in S : place[i] # "working" /\ order'[i] = ords[i],
           \A i \in Ids : place'[i] = "working" => i \in S \/ place[i] = "working"
    PROVE  Stands'
<1> SUFFICES ASSUME NEW i \in Ids, place'[i] = "working"
             PROVE  AllStood(book, Level(order'[i]), behind[i], aheadIDs'[i])
  BY DEF Stands
<1>1. aheadIDs'[i] = IF i \in S THEN FIFO(book, Level(ords[i])) ELSE aheadIDs[i]
  BY DEF RestL3
<1>2. BookOK(book)
  BY DEF LBase, BookInv
<1>3. CASE i \in S
  <2>1. behind[i] = {} /\ order'[i] = ords[i]
    BY <1>3 DEF GhostInv, NoneBehind
  <2> QED BY <1>1, <1>2, <1>3, <2>1, LevelStands
<1>4. CASE i \notin S
  BY <1>1, <1>4 DEF Stands
<1> QED BY <1>3, <1>4

LEMMA SettleL3Stands ==
    ASSUME LBase, GhostInv, Stands, NEW D \in SUBSET Ids, NEW ts, SettleL3(D, ts),
           \A i \in D : place[i] \in {"inbox", "delayed"}
    PROVE  Stands'
<1>1. /\ SettleOutcome(D, ts) /\ RestL3(Rests(D), order)
      /\ UNCHANGED <<book, behind, order>>
  BY DEF SettleL3, SettleOutcome
<1>2. RestsWhole(Rests(D), order) /\ TypeOK
  BY <1>1 DEF RestL3, RestsWhole, LBase, Base
<1>3. \A i \in Ids : /\ i \notin D => place'[i] = place[i]
                     /\ i \in D /\ place'[i] = "working" => i \in Rests(D)
  BY <1>1, <1>2, Outcome DEF Rests
<1>4. \A i \in Rests(D) : place[i] # "working"
  BY DEF Rests
<1> QED BY <1>1, <1>3, <1>4, RestL3Stands

LEMMA LAdoptStands ==
    ASSUME LBase, GhostInv, Stands, LAdoptFirst
    PROVE  Stands'
<1>1. nextID = 0 /\ TypeOK /\ FreshIds /\ UNCHANGED <<book, behind>>
  BY DEF LAdoptFirst, LBase, Base
<1>2. PICK ords \in Snapshots, lastID \in 0..MaxOrders :
         /\ AdoptOutcome(DOMAIN ords, ords, lastID)
         /\ RestL3(Limits(DOMAIN ords, ords), ords)
  BY DEF LAdoptFirst
<1> DEFINE S == DOMAIN ords
           L == Limits(S, ords)
<1>3. L \subseteq S /\ S \in SUBSET Ids
  BY DEF Snapshots, Limits
<1>4. \A i \in Ids : place[i] = "none"
  BY <1>1 DEF FreshIds, Ids
<1>5. \A i \in S : order'[i] = ords[i]
  BY <1>2, <1>3 DEF AdoptOutcome
<1>6. \A i \in Ids : place'[i] = "working" => i \in L
  BY <1>2, <1>4 DEF AdoptOutcome
<1> HIDE DEF L
<1>7. RestL3(L, ords)
  BY <1>2 DEF L
<1> HIDE DEF S
<1> QED BY <1>1, <1>3, <1>4, <1>5, <1>6, <1>7, RestL3Stands

LEMMA BookRowStands ==
    ASSUME ~ReAdds, LBase, Stands, NEW r \in Rows, NEW ts \in Stamps, BookRow(r, ts)
    PROVE  Stands'
<1>1. BookOK(book) /\ aheadIDs \in [Ids -> Seq(Sized)]
  BY DEF LBase, BookInv, ListType
<1>2. /\ UNCHANGED <<order, place>>
      /\ book' = ApplyRow(book, r)
      /\ r.action = "add" => r.id \notin DOMAIN book.byID
  BY DEF BookRow
<1> SUFFICES ASSUME NEW i \in Ids, place[i] = "working"
             PROVE  AllStood(book', Level(order[i]), behind'[i], aheadIDs'[i])
  BY <1>2 DEF Stands
<1>3. /\ aheadIDs'[i] = OnBook(i, r)
      /\ behind'[i] = (behind[i] \cap DOMAIN book'.byID) \cup NewPlace(book, book', r)
  BY DEF BookRow
<1>4. aheadIDs[i] \in Seq(Sized) /\ AllStood(book, Level(order[i]), behind[i], aheadIDs[i])
  BY <1>1 DEF Stands
<1>5. AllStood(ApplyRow(book, r), Level(order[i]),
          (behind[i] \cap DOMAIN ApplyRow(book, r).byID) \cup NewPlace(book, ApplyRow(book, r), r),
          OnBook(i, r))
  BY <1>1, <1>2, <1>4, RowStands
<1> QED BY <1>2, <1>3, <1>5

LEMMA LTradeStands ==
    ASSUME LBase, Stands, NEW t \in Trades, NEW ts \in Stamps, LTrade(t, ts)
    PROVE  Stands'
<1>1. /\ BookOK(book) /\ TypeOK /\ aheadIDs \in [Ids -> Seq(Sized)]
      /\ book' = book
  BY DEF LBase, Base, BookInv, ListType, LTrade
<1>2. PICK left \in Passes(t) :
         /\ OnTrade(t, ts, left)
         /\ aheadIDs' = Queues([i \in Ids |-> IF i \in Hits(t)
                                              THEN Consume(aheadIDs[i], left[i - 1])
                                              ELSE aheadIDs[i]])
         /\ behind' = Trailing(behind)
  BY DEF LTrade
<1>3. order' = order
  BY <1>2 DEF OnTrade
<1> SUFFICES ASSUME NEW i \in Ids, place'[i] = "working"
             PROVE  AllStood(book, Level(order[i]), behind'[i], aheadIDs'[i])
  BY <1>1, <1>3 DEF Stands
<1>4. place[i] = "working"
  BY <1>1, <1>2, Traded
<1>5. /\ aheadIDs'[i] = IF i \in Hits(t) THEN Consume(aheadIDs[i], left[i - 1]) ELSE aheadIDs[i]
      /\ behind'[i] = behind[i]
  BY <1>2 DEF Queues, Trailing
<1>6. AllStood(book, Level(order[i]), behind[i], aheadIDs[i])
  BY <1>4 DEF Stands
<1>7. left[i - 1] \in Nat /\ aheadIDs[i] \in Seq(Sized)
  BY <1>1, <1>2, LeftIsNat, QueueTypes DEF TradeRec
<1>8. ASSUME NEW k \in DOMAIN Consume(aheadIDs[i], left[i - 1])
      PROVE  Stood(book, Level(order[i]), behind[i], Consume(aheadIDs[i], left[i - 1])[k])
  <2>1. PICK j \in DOMAIN aheadIDs[i] :
           /\ Consume(aheadIDs[i], left[i - 1])[k].id = aheadIDs[i][j].id
           /\ Consume(aheadIDs[i], left[i - 1])[k].qty <= aheadIDs[i][j].qty
    BY <1>7, ConsumeHas
  <2>2. Consume(aheadIDs[i], left[i - 1]) \in Seq(Sized)
    BY <1>7, ConsumeFacts
  <2>3. /\ Consume(aheadIDs[i], left[i - 1])[k].qty \in Int /\ aheadIDs[i][j].qty \in Int
    BY <1>7, <2>2, CountedFacts
  <2>4. Stood(book, Level(order[i]), behind[i], aheadIDs[i][j])
    BY <1>6 DEF AllStood
  <2>5. book.byID[aheadIDs[i][j].id].qty \in Int
    BY <1>1, <2>4 DEF Stood, StandAt, BookOK, Resting
  <2> QED BY <2>1, <2>3, <2>4, <2>5 DEF Stood
<1>9. AllStood(book, Level(order[i]), behind[i], Consume(aheadIDs[i], left[i - 1]))
  BY <1>8 DEF AllStood
<1> QED BY <1>5, <1>6, <1>9

LEMMA NextStands ==
    ~ReAdds /\ LBase /\ GhostInv /\ Stands /\ [LNext]_l3vars => Stands'
<1> SUFFICES ASSUME ~ReAdds, LBase, GhostInv, Stands, [LNext]_l3vars PROVE Stands'
  OBVIOUS
<1>1. TypeOK /\ FreshIds
  BY DEF LBase, Base
<1>2. ASSUME NEW o \in Requests, LEnqueue(o) PROVE Stands'
  <2> DEFINE n == nextID + 1
             p == IF Entry = 0 THEN "inbox" ELSE "delayed"
  <2>0. n \in Ids /\ place[n] = "none" /\ p # "working"
    BY <1>1, <1>2, MatchingAssumption DEF LEnqueue, Enqueue, TypeOK, FreshIds, Ids
  <2>1. /\ order' = [order EXCEPT ![n] = o]
        /\ place' = [place EXCEPT ![n] = p]
        /\ UNCHANGED <<book, aheadIDs, behind>>
    BY <1>2 DEF LEnqueue, Enqueue
  <2> HIDE DEF n, p
  <2>2. \A i \in Ids : place'[i] = "working" => place[i] = "working" /\ order'[i] = order[i]
    BY <1>1, <2>0, <2>1 DEF TypeOK
  <2> QED BY <2>1, <2>2 DEF Stands
<1>3. ASSUME NEW c \in Ids, LCancel(c) PROVE Stands'
  <2>1. /\ place' = [place EXCEPT ![c] = "canceled"]
        /\ UNCHANGED <<order, book>>
        /\ aheadIDs' = Queues(aheadIDs) /\ behind' = Trailing(behind)
    BY <1>3 DEF LCancel, Cancel
  <2>2. \A i \in Ids : place'[i] = "working" =>
           place[i] = "working" /\ aheadIDs'[i] = aheadIDs[i] /\ behind'[i] = behind[i]
    BY <1>1, <2>1 DEF TypeOK, Queues, Trailing
  <2> QED BY <2>1, <2>2 DEF Stands
<1>4. ASSUME NEW ts \in Stamps, LSettle(ts) PROVE Stands'
  <2> DEFINE D == In("inbox") \cup Due(ts)
  <2>1. D \in SUBSET Ids /\ \A i \in D : place[i] \in {"inbox", "delayed"}
    BY DEF In, Due
  <2>2. SettleL3(D, ts)
    BY <1>4 DEF LSettle
  <2> HIDE DEF D
  <2> QED BY <2>1, <2>2, SettleL3Stands
<1>5. ASSUME NEW r \in Rows, NEW ts \in Stamps, BookRow(r, ts) PROVE Stands'
  BY <1>5, BookRowStands
<1>6. ASSUME NEW t \in Trades, NEW ts \in Stamps, LTrade(t, ts) PROVE Stands'
  BY <1>6, LTradeStands
<1>7. ASSUME LFlush PROVE Stands'
  <2> DEFINE D == In("inbox") \cup In("delayed")
  <2>1. D \in SUBSET Ids /\ \A i \in D : place[i] \in {"inbox", "delayed"}
    BY DEF In
  <2>2. SettleL3(D, now)
    BY <1>7 DEF LFlush
  <2> HIDE DEF D
  <2> QED BY <2>1, <2>2, SettleL3Stands
<1>8. ASSUME LAdoptFirst PROVE Stands'
  BY <1>8, LAdoptStands
<1>9. CASE UNCHANGED l3vars
  BY <1>9 DEF l3vars, vars, Stands
<1> QED BY <1>2, <1>3, <1>4, <1>5, <1>6, <1>7, <1>8, <1>9 DEF LNext

LEMMA StandsHolds == ~ReAdds => (LSpec => []Stands)
<1> SUFFICES ASSUME ~ReAdds PROVE LSpec => []Stands
  OBVIOUS
<1>1. LInit => Stands
  BY DEF LInit, Init, Stands
<1>2. LBase /\ GhostInv /\ Stands /\ [LNext]_l3vars => Stands'
  BY NextStands
<1> QED BY <1>1, <1>2, LBaseHolds, GhostHolds, PTL DEF LSpec

LEMMA OlderIs == \A i : Older(i) = OlderOf(book, Level(order[i]), behind[i])
BY DEF Older, OlderOf

\* What stands at a level and is not one of B is in its older part.
LEMMA StoodOlder ==
    ASSUME NEW b, BookOK(b), NEW l, NEW B, NEW a, Stood(b, l, B, a)
    PROVE  \E o \in Range(OlderOf(b, l, B)) : o.id = a.id /\ a.qty <= o.qty
<1>1. a.id \in StandAt(b, l) \ B /\ a.qty <= b.byID[a.id].qty
  BY DEF Stood
<1>2. l \in Levels
  BY <1>1 DEF StandAt, BookOK
<1>3. /\ OlderOf(b, l, B) = Shown(b, OldIds(b, l, B))
      /\ a.id \in Elements(OldIds(b, l, B))
  BY <1>1, <1>2, OlderShown, OldIdsFacts
<1>4. PICK k \in DOMAIN OldIds(b, l, B) : OldIds(b, l, B)[k] = a.id
  BY <1>3 DEF Elements
<1>5. /\ k \in DOMAIN Shown(b, OldIds(b, l, B))
      /\ Shown(b, OldIds(b, l, B))[k] = [id |-> a.id, qty |-> b.byID[a.id].qty]
  BY <1>4 DEF Shown
<1>6. Shown(b, OldIds(b, l, B))[k] \in Range(Shown(b, OldIds(b, l, B)))
  BY <1>5 DEF Range
<1> QED BY <1>1, <1>3, <1>5, <1>6

\* queue.go:30-31, for any rows of a gapless feed: until a print hits it, what a
\* ghost counts in front of it is the older part of its level, order by order, and
\* from then on it counts no order that is gone, moved or came later, and none for
\* more than the book shows.
THEOREM GhostIsFifoHolds == ~ReAdds => (LSpec => []GhostIsFifo)
<1> SUFFICES ASSUME ~ReAdds PROVE LSpec => []GhostIsFifo
  OBVIOUS
<1>1. LBase /\ Follows /\ Stands => GhostIsFifo
  <2> SUFFICES ASSUME LBase, Follows, Stands, NEW i \in In("working")
               PROVE  /\ since[i] = 0 => aheadIDs[i] = Older(i)
                      /\ \A a \in Range(aheadIDs[i]) :
                            \E o \in Range(Older(i)) : o.id = a.id /\ a.qty <= o.qty
    BY DEF GhostIsFifo
  <2>1. since[i] = 0 => aheadIDs[i] = Older(i)
    BY OlderIs DEF Follows
  <2>2. ASSUME NEW a \in Range(aheadIDs[i])
        PROVE  \E o \in Range(Older(i)) : o.id = a.id /\ a.qty <= o.qty
    <3>1. BookOK(book) /\ Older(i) = OlderOf(book, Level(order[i]), behind[i])
      BY OlderIs DEF LBase, BookInv
    <3>2. PICK k \in DOMAIN aheadIDs[i] : a = aheadIDs[i][k]
      BY DEF Range
    <3>3. Stood(book, Level(order[i]), behind[i], a)
      BY <3>2 DEF Stands, AllStood, In
    <3>4. \E o \in Range(OlderOf(book, Level(order[i]), behind[i])) : o.id = a.id /\ a.qty <= o.qty
      BY <3>1, <3>3, StoodOlder
    <3> QED BY <3>1, <3>4
  <2> QED BY <2>1, <2>2
<1> QED BY <1>1, LBaseHolds, FollowsHolds, StandsHolds, PTL

\* No ghost fills ahead of an order that the book had before it.
THEOREM FirstPrintClearsHolds == ~ReAdds => (LSpec => FirstPrintClears)
<1> SUFFICES ASSUME ~ReAdds PROVE LSpec => FirstPrintClears
  OBVIOUS
<1> DEFINE Clears == \A i \in In("working") : since[i] = 0 /\ atPx'[i] > 0 =>
                        since'[i] >= QtyOf(Older(i)) + atPx'[i]
<1>1. LBase /\ GhostInv /\ Follows /\ [LNext]_l3vars => [Clears]_l3vars
  <2> SUFFICES ASSUME LBase, GhostInv, Follows, LNext PROVE Clears
    OBVIOUS
  <2> SUFFICES ASSUME NEW i \in In("working"), since[i] = 0, atPx'[i] > 0
               PROVE  since'[i] >= QtyOf(Older(i)) + atPx'[i]
    OBVIOUS
  <2>1. i \in Ids /\ TypeOK
    BY DEF In, LBase, Base
  <2>2. atPx[i] = 0
    BY <2>1 DEF GhostInv, UnhitUnfilled, TypeOK
  <2>3. QtyOf(Older(i)) = ahead[i]
    BY OlderIs DEF GhostInv, Counts, Follows
  <2>4. CASE \E t \in Trades, ts \in Stamps : LTrade(t, ts)
    <3>1. PICK t \in Trades, ts \in Stamps : LTrade(t, ts)
      BY <2>4
    <3>2. PICK left \in Passes(t) : OnTrade(t, ts, left)
      BY <3>1 DEF LTrade
    <3>3. /\ i \in Hits(t) => /\ atPx'[i] = atPx[i] + Take(i, left[i - 1])
                              /\ since'[i] = since[i] + t.qty
          /\ i \notin Hits(t) => atPx'[i] = atPx[i]
      BY <2>1, <3>1, <3>2, Traded
    <3>4. /\ left[i - 1] \in Nat /\ left[i - 1] <= t.qty /\ t.qty \in Nat /\ ahead[i] \in Nat
          /\ left[i - 1] <= ahead[i] => Take(i, left[i - 1]) = 0
          /\ left[i - 1] > ahead[i] => Take(i, left[i - 1]) <= left[i - 1] - ahead[i]
          /\ Take(i, left[i - 1]) \in 0..remaining[i] /\ remaining[i] \in Nat
      BY <2>1, LeftIsNat, QueueTypes, TakeBounds DEF TradeRec
    <3> QED BY <2>2, <2>3, <3>3, <3>4
  <2>5. CASE ~(\E t \in Trades, ts \in Stamps : LTrade(t, ts))
    <3>1. atPx' = atPx
      BY <2>5 DEF LNext, LEnqueue, Enqueue, LCancel, Cancel, LSettle, LFlush, SettleL3,
         SettleOutcome, LAdoptFirst, AdoptOutcome, BookRow, history
    <3> QED BY <2>2, <3>1
  <2> QED BY <2>4, <2>5
<1>2. LSpec => []Follows
  BY FollowsHolds
<1> QED BY <1>1, <1>2, LBaseHolds, GhostHolds, PTL DEF LSpec, FirstPrintClears

\* The venue under QueueL3 keeps its accounts as the aggregate one does.
THEOREM L3Conservation == LSpec => []Conservation
<1>1. LBase => Conservation
  BY DEF LBase, Base
<1> QED BY <1>1, LBaseHolds, PTL

\* ... and a limit executes at no worse than its price, at the touch that the
\* book shows when it settles, or on a print.
THEOREM L3LimitRespected == LSpec => []LimitRespected
<1>1. LBase /\ LimitRespected /\ [LNext]_l3vars => LimitRespected'
  <2> SUFFICES ASSUME LBase, LimitRespected, [LNext]_l3vars PROVE LimitRespected'
    OBVIOUS
  <2>1. Base /\ TypeOK /\ FreshIds /\ Untouched
    BY DEF LBase, Base
  <2>2. ASSUME NEW o \in Requests, LEnqueue(o) PROVE LimitRespected'
    <3> DEFINE n == nextID + 1
    <3>1. n \in Ids /\ place[n] = "none"
      BY <2>1, <2>2, MatchingAssumption DEF TypeOK, LEnqueue, Enqueue, Ids, FreshIds
    <3>2. paid' = paid /\ paid[n] = {} /\ \A i \in Ids \ {n} : order'[i] = order[i]
      BY <2>1, <2>2, <3>1 DEF TypeOK, Untouched, LEnqueue, Enqueue, history
    <3> QED BY <3>1, <3>2 DEF LimitRespected
  <2>3. ASSUME NEW i \in Ids, LCancel(i) PROVE LimitRespected'
    BY <2>3 DEF LimitRespected, LCancel, Cancel, history
  <2>4. ASSUME NEW D \in SUBSET Ids, NEW ts, SettleL3(D, ts) PROVE LimitRespected'
    <3>1. SettleOutcome(D, ts) /\ RestsWhole(Rests(D), order)
      BY <2>4 DEF SettleL3, RestL3, RestsWhole
    <3> QED BY <2>1, <3>1, OutcomeLimit
  <2>5. ASSUME NEW ts \in Stamps, LSettle(ts) PROVE LimitRespected'
    <3>1. In("inbox") \cup Due(ts) \in SUBSET Ids
      BY DEF In, Due
    <3> QED BY <2>4, <2>5, <3>1 DEF LSettle
  <2>6. ASSUME NEW r \in Rows, NEW ts \in Stamps, BookRow(r, ts) PROVE LimitRespected'
    BY <2>6 DEF LimitRespected, BookRow, history
  <2>7. ASSUME NEW t \in Trades, NEW ts \in Stamps, LTrade(t, ts) PROVE LimitRespected'
    <3>1. Trade(t, ts)
      BY <2>7 DEF LTrade, Trade
    <3> QED BY <2>1, <3>1, TradeLimit
  <2>8. CASE LFlush
    <3>1. In("inbox") \cup In("delayed") \in SUBSET Ids
      BY DEF In
    <3> QED BY <2>4, <2>8, <3>1 DEF LFlush
  <2>9. CASE LAdoptFirst
    <3>1. paid' = paid
      BY <2>9 DEF LAdoptFirst, AdoptOutcome
    <3>2. \A i \in Ids : paid[i] = {}
      BY <2>1, <2>9 DEF LAdoptFirst, TypeOK, FreshIds, Untouched, Ids
    <3> QED BY <3>1, <3>2 DEF LimitRespected
  <2>10. CASE UNCHANGED l3vars
    BY <2>10 DEF LimitRespected, l3vars, vars, history
  <2> QED BY <2>2, <2>3, <2>5, <2>6, <2>7, <2>8, <2>9, <2>10 DEF LNext
<1>2. LInit => LimitRespected
  BY DEF LInit, Init, LimitRespected
<1> QED BY <1>1, <1>2, LBaseHolds, PTL DEF LSpec

\* Under QueueL3 an order joins when it begins to rest.
RestsJoined == \A i \in Ids : place[i] = "working" => joined[i]

LEMMA SettleL3Joined ==
    ASSUME LBase, RestsJoined, NEW D \in SUBSET Ids, NEW ts, SettleL3(D, ts)
    PROVE  RestsJoined'
<1>1. \A i \in Ids : joined'[i] = (i \in Rests(D) \/ joined[i])
  BY DEF SettleL3, RestL3
<1>2. \A i \in Ids : place'[i] = "working" => i \in Rests(D) \/ place[i] = "working"
  BY DEF SettleL3, SettleOutcome
<1> QED BY <1>1, <1>2 DEF RestsJoined

LEMMA RestsJoinedHolds == LSpec => []RestsJoined
<1>1. LInit => RestsJoined
  BY DEF LInit, Init, RestsJoined
<1>2. LBase /\ RestsJoined /\ [LNext]_l3vars => RestsJoined'
  <2> SUFFICES ASSUME LBase, RestsJoined, [LNext]_l3vars PROVE RestsJoined'
    OBVIOUS
  <2>1. TypeOK /\ FreshIds
    BY DEF LBase, Base
  <2>2. ASSUME NEW o \in Requests, LEnqueue(o) PROVE RestsJoined'
    BY <2>1, <2>2 DEF LEnqueue, Enqueue, RestsJoined, TypeOK, resting
  <2>3. ASSUME NEW i \in Ids, LCancel(i) PROVE RestsJoined'
    BY <2>1, <2>3 DEF LCancel, Cancel, RestsJoined, TypeOK, resting
  <2>4. ASSUME NEW ts \in Stamps, LSettle(ts) PROVE RestsJoined'
    <3>1. In("inbox") \cup Due(ts) \in SUBSET Ids
      BY DEF In, Due
    <3> QED BY <2>4, <3>1, SettleL3Joined DEF LSettle
  <2>5. ASSUME NEW r \in Rows, NEW ts \in Stamps, BookRow(r, ts) PROVE RestsJoined'
    BY <2>5 DEF BookRow, RestsJoined
  <2>6. ASSUME NEW t \in Trades, NEW ts \in Stamps, LTrade(t, ts) PROVE RestsJoined'
    <3>1. PICK left \in Passes(t) : OnTrade(t, ts, left)
      BY <2>6 DEF LTrade
    <3>2. joined' = joined
      BY <3>1 DEF OnTrade
    <3>3. \A i \in Ids : place'[i] = place[i] \/ place'[i] = "filled"
      BY <2>1, <3>1, Traded
    <3> QED BY <3>2, <3>3 DEF RestsJoined
  <2>7. CASE LFlush
    <3>1. In("inbox") \cup In("delayed") \in SUBSET Ids
      BY DEF In
    <3> QED BY <2>7, <3>1, SettleL3Joined DEF LFlush
  <2>8. CASE LAdoptFirst
    <3>1. PICK ords \in Snapshots, lastID \in 0..MaxOrders :
             /\ AdoptOutcome(DOMAIN ords, ords, lastID)
             /\ RestL3(Limits(DOMAIN ords, ords), ords)
      BY <2>8 DEF LAdoptFirst
    <3>2. \A i \in Ids : place[i] = "none"
      BY <2>1, <2>8 DEF LAdoptFirst, TypeOK, FreshIds, Ids
    <3>3. \A i \in Ids : place'[i] = "working" => i \in Limits(DOMAIN ords, ords)
      BY <3>1, <3>2 DEF AdoptOutcome, Live, In
    <3>4. \A i \in Ids : i \in Limits(DOMAIN ords, ords) => joined'[i]
      BY <3>1 DEF RestL3
    <3> QED BY <3>3, <3>4 DEF RestsJoined
  <2>9. CASE UNCHANGED l3vars
    BY <2>9 DEF RestsJoined, l3vars, vars, resting
  <2> QED BY <2>2, <2>3, <2>4, <2>5, <2>6, <2>7, <2>8, <2>9 DEF LNext
<1> QED BY <1>1, <1>2, LBaseHolds, PTL DEF LSpec

\* Under QueueL3 too, own orders share a print, the oldest of a queue first.
THEOREM L3PrintShared == LSpec => PrintShared
<1> DEFINE Shared == \A i \in Ids : atPx'[i] > atPx[i] =>
                        /\ Total([j \in Ids |-> atPx'[j] - atPx[j]]) <= since'[i] - since[i]
                        /\ \A j \in Ids : j < i /\ SameQueue(j, i) => place'[j] # "working"
<1>1. LBase /\ RestsJoined /\ [LNext]_l3vars => [Shared]_vars
  <2> SUFFICES ASSUME LBase, RestsJoined, [LNext]_l3vars PROVE Shared
    OBVIOUS
  <2>0. Base /\ TypeOK
    BY DEF LBase, Base
  <2>1. CASE UNCHANGED atPx
    <3>1. \A i \in Ids : atPx[i] \in Nat /\ atPx'[i] = atPx[i]
      BY <2>0, <2>1 DEF TypeOK
    <3>2. \A i \in Ids : ~(atPx'[i] > atPx[i])
      BY <3>1
    <3> QED BY <3>2
  <2>2. ASSUME NEW t \in Trades, NEW ts \in Stamps, LTrade(t, ts) PROVE Shared
    <3>1. PICK left \in Passes(t) : OnTrade(t, ts, left)
      BY <2>2 DEF LTrade
    <3>2. Total([j \in Ids |-> atPx'[j] - atPx[j]]) <= t.qty
      BY <2>0, <3>1, SpentSoFar
    <3>3. ASSUME NEW i \in Ids, atPx'[i] > atPx[i] PROVE t.qty = since'[i] - since[i]
      <4>1. i \notin Hits(t) => atPx'[i] = atPx[i]
        BY <2>0, <3>1, Traded
      <4>2. atPx[i] \in Nat /\ since[i] \in Nat /\ t.qty \in Nat
        BY <2>0, MatchingAssumption DEF TypeOK, TradeRec
      <4>3. i \in Hits(t)
        BY <3>3, <4>1, <4>2
      <4>4. since'[i] = since[i] + t.qty
        BY <2>0, <3>1, <4>3, Traded
      <4> QED BY <4>2, <4>4
    <3>4. ASSUME NEW i \in Ids, atPx'[i] > atPx[i], NEW j \in Ids, j < i, SameQueue(j, i)
          PROVE  place'[j] # "working"
      <4>1. joined[j]
        BY <3>4 DEF RestsJoined, SameQueue
      <4> QED BY <2>0, <3>1, <3>4, <4>1, TradeOldest
    <3> DEFINE sum == Total([j \in Ids |-> atPx'[j] - atPx[j]])
    <3> HIDE DEF sum
    <3>5. \A i \in Ids : atPx'[i] > atPx[i] => sum <= since'[i] - since[i]
      BY <3>2, <3>3 DEF sum
    <3> QED BY <3>4, <3>5 DEF sum
  <2>3. (\A t \in Trades, ts \in Stamps : ~LTrade(t, ts)) => UNCHANGED atPx
    BY DEF LNext, l3vars, vars, history, LEnqueue, Enqueue, LCancel, Cancel, LSettle, LFlush,
           SettleL3, SettleOutcome, BookRow, LAdoptFirst, AdoptOutcome
  <2> QED BY <2>1, <2>2, <2>3
<1> QED BY <1>1, LBaseHolds, RestsJoinedHolds, PTL DEF LSpec, PrintShared

\* The order life cycle does not depend on the queue model: the venue implements
\* it over the order-by-order book as well.
THEOREM L3Implementation == LSpec => ImplementsLife
<1>1. LInit => Life!Init
  BY DEF LInit, Init, Life!Init, NoOrder
<1>2. LBase /\ [LNext]_l3vars => [Life!Next]_(Life!vars)
  <2> SUFFICES ASSUME LBase, [LNext]_l3vars, NEW i \in Ids PROVE LifeStep(i)
    BY DEF LifeStep, Life!Next
  <2>0. Base
    BY DEF LBase
  <2>1. ASSUME NEW o \in Requests, LEnqueue(o) PROVE LifeStep(i)
    BY <2>0, <2>1, EnqueueLife DEF LEnqueue
  <2>2. ASSUME NEW c \in Ids, LCancel(c) PROVE LifeStep(i)
    BY <2>0, <2>2, CancelLife DEF LCancel
  <2>3. ASSUME NEW D \in SUBSET Ids, NEW ts, SettleL3(D, ts),
               \A j \in D : place[j] \in {"inbox", "delayed"}
        PROVE  LifeStep(i)
    <3>1. SettleOutcome(D, ts) /\ RestsWhole(Rests(D), order)
      BY <2>3 DEF SettleL3, RestL3, RestsWhole
    <3> QED BY <2>0, <2>3, <3>1, OutcomeLife
  <2>4. ASSUME NEW ts \in Stamps, LSettle(ts) PROVE LifeStep(i)
    <3>1. /\ In("inbox") \cup Due(ts) \in SUBSET Ids
          /\ \A j \in In("inbox") \cup Due(ts) : place[j] \in {"inbox", "delayed"}
      BY DEF In, Due
    <3> QED BY <2>3, <2>4, <3>1 DEF LSettle
  <2>5. ASSUME NEW r \in Rows, NEW ts \in Stamps, BookRow(r, ts) PROVE LifeStep(i)
    BY <2>5, Keeps DEF BookRow, history
  <2>6. ASSUME NEW t \in Trades, NEW ts \in Stamps, LTrade(t, ts) PROVE LifeStep(i)
    <3>1. Trade(t, ts)
      BY <2>6 DEF LTrade, Trade
    <3> QED BY <2>0, <3>1, TradeLife
  <2>7. CASE LFlush
    <3>1. /\ In("inbox") \cup In("delayed") \in SUBSET Ids
          /\ \A j \in In("inbox") \cup In("delayed") : place[j] \in {"inbox", "delayed"}
      BY DEF In
    <3> QED BY <2>3, <2>7, <3>1 DEF LFlush
  <2>8. CASE LAdoptFirst
    <3>1. PICK ords \in Snapshots, lastID \in 0..MaxOrders :
             AdoptOutcome(DOMAIN ords, ords, lastID)
      BY <2>8 DEF LAdoptFirst
    <3>2. nextID = 0 /\ DOMAIN ords \in SUBSET Ids
      BY <2>8 DEF LAdoptFirst, Snapshots
    <3> QED BY <2>0, <3>1, <3>2, AdoptOutcomeLife
  <2>9. CASE UNCHANGED l3vars
    BY <2>9, Keeps DEF l3vars, vars, history
  <2> QED BY <2>1, <2>2, <2>4, <2>5, <2>6, <2>7, <2>8, <2>9 DEF LNext
<1> QED BY <1>1, <1>2, LBaseHolds, PTL DEF LSpec, ImplementsLife, Life!Spec
=============================================================================
