---------------------------- MODULE OperatorProofs ----------------------------
(***************************************************************************)
(* Facts about the operators several modules are built from.  Induction    *)
(* over the naturals and over sequences comes first: the library's         *)
(* theorems take an operator, here the property is a set S, and what is    *)
(* used is that finite sets are well founded under inclusion.  From it     *)
(* come Pick, the sum of a sequence, a fold from left to right, a sum over *)
(* a finite set, and a set laid out in order; last, what a fill does to    *)
(* the books of Position.tla.                                              *)
(***************************************************************************)
EXTENDS Picking, Position, SequencesExt, SequenceTheorems, FiniteSetTheorems,
        WellFoundedInduction, TLAPS

\* A non-empty set of naturals has a least element.
LEMMA LeastElement ==
  ASSUME NEW T, T \subseteq Nat, T # {}
  PROVE  \E x \in T : \A y \in T : x <= y
<1> DEFINE F == {1..n : n \in T}
<1>1. F \subseteq FiniteSubsetsOf(Nat)
  <2> SUFFICES ASSUME NEW n \in T PROVE 1..n \in FiniteSubsetsOf(Nat)
    OBVIOUS
  <2> QED BY FS_Interval DEF FiniteSubsetsOf
<1>2. PICK s \in F : \A t \in F : <<t, s>> \notin StrictSubsetOrdering(Nat)
  <2>1. IsWellFoundedOn(StrictSubsetOrdering(Nat), FiniteSubsetsOf(Nat))
    BY FS_StrictSubsetOrderingWellFounded
  <2>2. F # {}
    OBVIOUS
  <2> HIDE DEF F
  <2> QED BY <2>1, <2>2, <1>1, WFMin
<1>3. PICK x \in T : s = 1..x
  OBVIOUS
<1>4. ASSUME NEW y \in T, y < x PROVE FALSE
  <2>1. 1..y \subseteq 1..x /\ x \in 1..x /\ x \notin 1..y
    BY <1>4
  <2>2. <<1..y, s>> \in StrictSubsetOrdering(Nat)
    BY <2>1, <1>3 DEF StrictSubsetOrdering
  <2> QED BY <2>2, <1>2
<1> QED BY <1>4

\* Induction, the property being a set.
LEMMA Induction ==
  ASSUME NEW S, 0 \in S, \A n \in Nat : n \in S => n + 1 \in S
  PROVE  \A n \in Nat : n \in S
<1> DEFINE T == Nat \ S
<1>1. CASE T # {}
  <2>1. PICK x \in T : \A y \in T : x <= y
    BY <1>1, LeastElement
  <2>2. x - 1 \in Nat /\ x - 1 \notin T
    BY <2>1
  <2> QED BY <2>1, <2>2
<1> QED BY <1>1

\* Induction on sequences, by what Append adds.
LEMMA SeqInduction ==
  ASSUME NEW A, NEW S, <<>> \in S,
         \A s \in Seq(A), x \in A : s \in S => Append(s, x) \in S
  PROVE  \A s \in Seq(A) : s \in S
<1> DEFINE T == {n \in Nat : \A s \in Seq(A) : Len(s) = n => s \in S}
<1>1. 0 \in T
  <2> SUFFICES ASSUME NEW s \in Seq(A), Len(s) = 0 PROVE s \in S
    OBVIOUS
  <2>1. s = <<>>
    BY EmptySeq
  <2> QED BY <2>1
<1>2. ASSUME NEW n \in Nat, n \in T PROVE n + 1 \in T
  <2> SUFFICES ASSUME NEW t \in Seq(A), Len(t) = n + 1 PROVE t \in S
    OBVIOUS
  <2>1. t # <<>>
    BY EmptySeq
  <2>2. PICK s \in Seq(A), x \in A : t = Append(s, x)
    BY <2>1, SequenceEmptyOrAppend
  <2>3. Len(s) = n
    BY <2>2, AppendProperties, LenProperties
  <2>4. s \in S
    BY <1>2, <2>3
  <2> QED BY <2>2, <2>4
<1>3. \A n \in Nat : n \in T
  <2> HIDE DEF T
  <2> QED BY <1>1, <1>2, Induction
<1> QED BY <1>3, LenProperties

-----------------------------------------------------------------------------
(* Ranks of the elements of P, a set of positions up to m. *)

UpTo(P, k) == {j \in P : j <= k}

LEMMA PositionsFacts ==
  ASSUME NEW m \in Nat, NEW P, P \subseteq 1..m
  PROVE  \A k \in P : k \in Int /\ 1 <= k /\ k <= m
OBVIOUS

LEMMA UpToFacts ==
  ASSUME NEW m \in Nat, NEW P, P \subseteq 1..m
  PROVE  /\ IsFiniteSet(P) /\ Cardinality(P) \in Nat
         /\ \A k \in Int : /\ IsFiniteSet(UpTo(P, k))
                           /\ Cardinality(UpTo(P, k)) \in Nat
                           /\ Cardinality(UpTo(P, k)) <= Cardinality(P)
         /\ Cardinality(UpTo(P, 0)) = 0
         /\ Cardinality(UpTo(P, m)) = Cardinality(P)
<1>1. IsFiniteSet(P) /\ Cardinality(P) \in Nat
  <2>1. IsFiniteSet(1..m)
    BY FS_Interval
  <2> QED BY <2>1, FS_Subset, FS_CardinalityType
<1>2. ASSUME NEW k \in Int
      PROVE  /\ IsFiniteSet(UpTo(P, k))
             /\ Cardinality(UpTo(P, k)) \in Nat
             /\ Cardinality(UpTo(P, k)) <= Cardinality(P)
  BY <1>1, FS_Subset, FS_CardinalityType DEF UpTo
<1>3. UpTo(P, 0) = {} /\ UpTo(P, m) = P
  <2>1. \A k \in P : ~(k <= 0) /\ k <= m
    BY PositionsFacts
  <2> QED BY <2>1 DEF UpTo
<1> QED BY <1>1, <1>2, <1>3, FS_EmptySet

LEMMA UpToStep ==
  ASSUME NEW m \in Nat, NEW P, P \subseteq 1..m, NEW k \in Nat
  PROVE  Cardinality(UpTo(P, k + 1)) =
            IF k + 1 \in P THEN Cardinality(UpTo(P, k)) + 1 ELSE Cardinality(UpTo(P, k))
<1>a. \A i \in Int : IsFiniteSet(UpTo(P, i))
  BY UpToFacts
<1>1. IsFiniteSet(UpTo(P, k))
  BY <1>a
<1>2. CASE k + 1 \in P
  <2>1. \A j \in P : j <= k + 1 <=> j <= k \/ j = k + 1
    BY PositionsFacts
  <2>2. ~(k + 1 <= k)
    OBVIOUS
  <2>3. UpTo(P, k + 1) = UpTo(P, k) \cup {k + 1}
    BY <1>2, <2>1 DEF UpTo
  <2>4. k + 1 \notin UpTo(P, k)
    BY <2>2 DEF UpTo
  <2> QED BY <1>1, <1>2, <2>3, <2>4, FS_AddElement
<1>3. CASE k + 1 \notin P
  <2>1. \A j \in P : j <= k + 1 <=> j <= k
    BY <1>3, PositionsFacts
  <2>2. UpTo(P, k + 1) = UpTo(P, k)
    BY <2>1 DEF UpTo
  <2> QED BY <1>3, <2>2
<1> QED BY <1>2, <1>3

\* A larger position has no smaller rank, and in P itself a larger one.
LEMMA UpToMonotone ==
  ASSUME NEW m \in Nat, NEW P, P \subseteq 1..m, NEW j \in Int, NEW k \in Int
  PROVE  /\ j <= k => Cardinality(UpTo(P, j)) <= Cardinality(UpTo(P, k))
         /\ j < k /\ k \in P => Cardinality(UpTo(P, j)) < Cardinality(UpTo(P, k))
<1>1. IsFiniteSet(UpTo(P, k)) /\ IsFiniteSet(UpTo(P, j))
  BY UpToFacts
<1>2. j <= k => UpTo(P, j) \subseteq UpTo(P, k)
  <2>1. j <= k => \A i \in P : i <= j => i <= k
    BY PositionsFacts
  <2> QED BY <2>1 DEF UpTo
<1>3. k \in P /\ j < k => k \in UpTo(P, k) /\ k \notin UpTo(P, j) /\ j <= k
  BY DEF UpTo
<1>4. j < k => j <= k
  OBVIOUS
<1> QED BY <1>1, <1>2, <1>3, <1>4, FS_Subset, FS_CardinalityType

\* Nth enumerates P from its smallest element to its largest.
LEMMA NthFacts ==
  ASSUME NEW m \in Nat, NEW P, P \subseteq 1..m
  PROVE  /\ \A n \in 1..Cardinality(P) :
               Nth(P, n) \in P /\ Cardinality(UpTo(P, Nth(P, n))) = n
         /\ \A n, o \in 1..Cardinality(P) : n < o => Nth(P, n) < Nth(P, o)
         /\ \A k \in P : /\ Cardinality(UpTo(P, k)) \in 1..Cardinality(P)
                         /\ Nth(P, Cardinality(UpTo(P, k))) = k
<1> DEFINE c(k) == Cardinality(UpTo(P, k))
           n0 == Cardinality(P)
<1>a. n0 \in Nat /\ (\A k \in Int : c(k) \in Nat /\ c(k) <= n0) /\ c(0) = 0 /\ c(m) = n0
  BY UpToFacts
<1>b. \A k \in Nat : c(k + 1) = IF k + 1 \in P THEN c(k) + 1 ELSE c(k)
  BY UpToStep
<1>c. \A j, k \in Int : /\ j <= k => c(j) <= c(k)
                        /\ j < k /\ k \in P => c(j) < c(k)
  BY UpToMonotone
<1>d. \A k \in P : k \in Int /\ 1 <= k /\ k <= m
  BY PositionsFacts
<1>e. \A n : Nth(P, n) = CHOOSE k \in P : c(k) = n
  BY DEF Nth, UpTo
<1> HIDE DEF c, n0
<1>1. ASSUME NEW n \in 1..n0
      PROVE  Nth(P, n) \in P /\ c(Nth(P, n)) = n
  <2> DEFINE T == {k \in 0..m : c(k) >= n}
  <2>1. m \in T /\ 0 \notin T /\ T \subseteq Nat
    BY <1>a
  <2>2. PICK x \in T : \A y \in T : x <= y
    <3> HIDE DEF T
    <3> QED BY <2>1, LeastElement
  <2>3. x - 1 \in Nat /\ x - 1 \notin T /\ x - 1 \in 0..m
    BY <2>1, <2>2
  <2>4. c(x - 1) < n
    BY <2>3, <1>a
  <2>5. c(x) = IF x \in P THEN c(x - 1) + 1 ELSE c(x - 1)
    <3>1. x = (x - 1) + 1
      BY <2>1
    <3> QED BY <2>3, <3>1, <1>b
  <2>6. x \in P /\ c(x) = n
    BY <2>2, <2>3, <2>4, <2>5, <1>a
  <2> QED BY <2>6, <1>e
<1>2. ASSUME NEW n \in 1..n0, NEW o \in 1..n0, n < o
      PROVE  Nth(P, n) < Nth(P, o)
  <2>1. /\ Nth(P, n) \in Int /\ Nth(P, o) \in Int
        /\ c(Nth(P, n)) = n /\ c(Nth(P, o)) = o
    BY <1>1, <1>d
  <2> QED BY <2>1, <1>2, <1>a, <1>c
<1>3. ASSUME NEW k \in P
      PROVE  c(k) \in 1..n0 /\ Nth(P, c(k)) = k
  <2>1. c(0) < c(k)
    BY <1>c, <1>d
  <2>2. c(k) \in 1..n0
    BY <2>1, <1>a, <1>d
  <2>3. Nth(P, c(k)) \in P /\ c(Nth(P, c(k))) = c(k)
    BY <1>1, <2>2
  <2> DEFINE h == Nth(P, c(k))
  <2> HIDE DEF h
  <2>4. h \in P /\ c(h) = c(k)
    BY <2>3 DEF h
  <2>7. h \in Int /\ k \in Int /\ c(k) \in Int
    BY <2>2, <2>4, <1>d
  <2>5. ~(h < k) /\ ~(k < h)
    BY <2>4, <2>7, <1>c
  <2>6. h = k
    BY <2>5, <2>7
  <2> QED BY <2>2, <2>6 DEF h
<1> QED BY <1>1, <1>2, <1>3 DEF c, n0

-----------------------------------------------------------------------------
(* Pick. *)

\* What Pick keeps are the elements at P, each once and in their order.
LEMMA PickFacts ==
  ASSUME NEW S, NEW s \in Seq(S), NEW P, P \subseteq DOMAIN s
  PROVE  /\ Pick(s, P) \in Seq(S) /\ Len(Pick(s, P)) = Cardinality(P)
         /\ \E e \in [DOMAIN Pick(s, P) -> P] :
               /\ \A n, o \in DOMAIN e : n < o => e[n] < e[o]
               /\ \A k \in P : \E n \in DOMAIN e : e[n] = k
               /\ \A n \in DOMAIN e : Pick(s, P)[n] = s[e[n]]
<1> DEFINE m == Len(s)
           c == Cardinality(P)
<1>1. m \in Nat /\ DOMAIN s = 1..m /\ P \subseteq 1..m
  OBVIOUS
<1>2. c \in Nat
  BY <1>1, UpToFacts
<1>3. /\ \A n \in 1..c : Nth(P, n) \in P
      /\ \A n, o \in 1..c : n < o => Nth(P, n) < Nth(P, o)
      /\ \A k \in P : \E n \in 1..c : Nth(P, n) = k
  BY <1>1, NthFacts
<1>4. Pick(s, P) = [n \in 1..c |-> s[Nth(P, n)]]
  BY DEF Pick
<1> HIDE DEF c, m
<1>5. \A k \in P : s[k] \in S
  BY <1>1
<1>6. Pick(s, P) \in Seq(S) /\ Len(Pick(s, P)) = c /\ DOMAIN Pick(s, P) = 1..c
  BY <1>2, <1>3, <1>4, <1>5
<1> DEFINE e == [n \in 1..c |-> Nth(P, n)]
<1>7. /\ e \in [1..c -> P]
      /\ \A n, o \in DOMAIN e : n < o => e[n] < e[o]
      /\ \A k \in P : \E n \in DOMAIN e : e[n] = k
      /\ \A n \in DOMAIN e : Pick(s, P)[n] = s[e[n]]
  BY <1>3, <1>4
<1> HIDE DEF e
<1>8. c = Cardinality(P)
  BY DEF c
<1> QED BY <1>6, <1>7, <1>8

\* An element appended to s is kept or not, and changes nothing before it.
LEMMA PickSkips ==
  ASSUME NEW S, NEW s \in Seq(S), NEW t, NEW P, P \subseteq DOMAIN s,
         \A k \in DOMAIN s : t[k] = s[k]
  PROVE  Pick(t, P) = Pick(s, P)
<1>1. \A n \in 1..Cardinality(P) : Nth(P, n) \in P
  <2>1. Len(s) \in Nat /\ P \subseteq 1..Len(s)
    OBVIOUS
  <2> QED BY <2>1, NthFacts
<1>2. \A n \in 1..Cardinality(P) : t[Nth(P, n)] = s[Nth(P, n)]
  BY <1>1
<1> QED BY <1>2 DEF Pick

LEMMA AppendDef ==
  ASSUME NEW S, NEW s \in Seq(S), NEW x
  PROVE  Append(s, x) = [n \in 1..(Len(s) + 1) |-> IF n = Len(s) + 1 THEN x ELSE s[n]]
<1> DEFINE T == S \cup {x}
           a == Append(s, x)
<1>1. s \in Seq(T) /\ x \in T
  BY SeqMonotonic
<1>2. /\ a \in Seq(T) /\ Len(a) = Len(s) + 1
      /\ \A n \in 1..Len(s) : a[n] = s[n]
      /\ a[Len(s) + 1] = x
  BY <1>1, AppendProperties
<1> HIDE DEF a, T
<1>3. a \in [1..Len(a) -> T]
  BY <1>2, LenProperties
<1>4. Len(s) \in Nat
  OBVIOUS
<1>5. \A n \in 1..(Len(s) + 1) : a[n] = IF n = Len(s) + 1 THEN x ELSE s[n]
  BY <1>2, <1>4
<1>6. a = [n \in 1..(Len(s) + 1) |-> IF n = Len(s) + 1 THEN x ELSE s[n]]
  BY <1>2, <1>3, <1>5
<1> QED BY <1>6 DEF a

LEMMA PickTakes ==
  ASSUME NEW S, NEW s \in Seq(S), NEW x \in S, NEW P, P \subseteq DOMAIN s
  PROVE  Pick(Append(s, x), P \cup {Len(s) + 1}) = Append(Pick(s, P), x)
<1> DEFINE m == Len(s)
           Q == P \cup {m + 1}
<1>1. m \in Nat /\ P \subseteq 1..m /\ Q \subseteq 1..(m + 1) /\ m + 1 \notin P
  OBVIOUS
<1>2. IsFiniteSet(P) /\ Cardinality(P) \in Nat
  BY <1>1, UpToFacts
<1>3. Cardinality(Q) = Cardinality(P) + 1
  BY <1>1, <1>2, FS_AddElement
<1>4. \A k \in P : Cardinality(UpTo(Q, k)) = Cardinality(UpTo(P, k))
  <2> SUFFICES ASSUME NEW k \in P PROVE UpTo(Q, k) = UpTo(P, k)
    OBVIOUS
  <2>1. ~(m + 1 <= k)
    BY <1>1, PositionsFacts
  <2> QED BY <2>1 DEF UpTo
<1>5. UpTo(Q, m + 1) = Q
  <2>1. \A k \in Q : k <= m + 1
    BY <1>1, PositionsFacts
  <2> QED BY <2>1 DEF UpTo
<1>6. /\ \A n \in 1..Cardinality(P) : Nth(P, n) \in P /\ Cardinality(UpTo(P, Nth(P, n))) = n
      /\ \A k \in Q : Nth(Q, Cardinality(UpTo(Q, k))) = k
  <2>1. \A n \in 1..Cardinality(P) : Nth(P, n) \in P /\ Cardinality(UpTo(P, Nth(P, n))) = n
    BY <1>1, NthFacts
  <2> HIDE DEF Q
  <2>2. \A k \in Q : Nth(Q, Cardinality(UpTo(Q, k))) = k
    <3>1. m + 1 \in Nat
      BY <1>1
    <3> QED BY <1>1, <3>1, NthFacts
  <2> QED BY <2>1, <2>2
<1>7. \A n \in 1..Cardinality(P) : Nth(Q, n) = Nth(P, n)
  BY <1>4, <1>6
<1>8. Nth(Q, Cardinality(P) + 1) = m + 1
  BY <1>3, <1>5, <1>6
<1> DEFINE c == Cardinality(P)
           a == Append(s, x)
<1>9. \A n \in 1..c : a[Nth(Q, n)] = s[Nth(P, n)]
  <2>1. \A k \in P : a[k] = s[k]
    BY <1>1
  <2> HIDE DEF a
  <2> QED BY <1>6, <1>7, <2>1
<1>10. a[Nth(Q, c + 1)] = x
  BY <1>1, <1>8
<1>11. Pick(a, Q) = [n \in 1..(c + 1) |-> a[Nth(Q, n)]] /\ Pick(s, P) = [n \in 1..c |-> s[Nth(P, n)]]
  BY <1>3 DEF Pick
<1>12. Pick(s, P) \in Seq(S) /\ Len(Pick(s, P)) = c
  BY PickFacts
<1> HIDE DEF a, c, Q
<1>13. Append(Pick(s, P), x) = [n \in 1..(c + 1) |-> IF n = c + 1 THEN x ELSE Pick(s, P)[n]]
  BY <1>12, AppendDef
<1>14. c \in Nat
  BY <1>2 DEF c
<1>15. \A n \in 1..(c + 1) : a[Nth(Q, n)] = IF n = c + 1 THEN x ELSE Pick(s, P)[n]
  BY <1>9, <1>10, <1>11, <1>14
<1>16. Pick(a, Q) = Append(Pick(s, P), x)
  BY <1>11, <1>13, <1>15
<1> QED BY <1>16 DEF a, Q

-----------------------------------------------------------------------------
(* Folds.  FoldLeft folds over the subsets of the domain, the largest      *)
(* position last; the subsets that matter are the prefixes 1..k.           *)

LEMMA MaxOfPrefix ==
  ASSUME NEW k \in Nat, k > 0
  PROVE  Max(1..k) = k /\ (1..k) \ {k} = 1..(k - 1)
<1>1. Max(1..k) = k
  BY DEF Max
<1>2. (1..k) \ {k} = 1..(k - 1)
  OBVIOUS
<1> QED BY <1>1, <1>2

LEMMA LargestFacts ==
  ASSUME NEW n \in Nat, NEW s, s \subseteq 0..n, s # {}
  PROVE  Max(s) \in s /\ \A y \in s : y <= Max(s)
<1> DEFINE T == {n - k : k \in s}
<1>1. \A k \in s : k \in Int /\ 0 <= k /\ k <= n
  <2>1. \A k \in 0..n : k \in Int /\ 0 <= k /\ k <= n
    OBVIOUS
  <2> QED BY <2>1
<1>2. T \subseteq Nat /\ T # {}
  <2>1. \A k \in s : n - k \in Nat
    BY <1>1
  <2> QED BY <2>1
<1>3. PICK t \in T : \A y \in T : t <= y
  <2> HIDE DEF T
  <2> QED BY <1>2, LeastElement
<1>4. PICK x \in s : t = n - x
  OBVIOUS
<1>5. ASSUME NEW y \in s PROVE x >= y
  <2>1. t <= n - y
    BY <1>3
  <2> QED BY <2>1, <1>1, <1>4
<1>6. Max(s) \in s /\ \A y \in s : Max(s) >= y
  BY <1>5 DEF Max
<1> QED BY <1>1, <1>6

LEMMA MaxFacts ==
  ASSUME NEW n \in Nat, NEW s, s \subseteq 1..n, s # {}
  PROVE  Max(s) \in s /\ \A y \in s : y <= Max(s)
<1>1. s \subseteq 0..n
  <2>1. 1..n \subseteq 0..n
    OBVIOUS
  <2> QED BY <2>1
<1> QED BY <1>1, LargestFacts

\* The function a fold is defined by: st[i] is what element i does to the value,
\* V the values it can take.
IsFold(it, n, V, base, st) ==
    /\ it \in [SUBSET (1..n) -> V]
    /\ \A s \in SUBSET (1..n) :
          it[s] = IF s = {} THEN base ELSE st[Max(s)][it[s \ {Max(s)}]]

LEMMA FoldExists ==
  ASSUME NEW n \in Nat, NEW V, NEW base \in V, NEW st \in [1..n -> [V -> V]]
  PROVE  \E it : IsFold(it, n, V, base, st)
<1> DEFINE Has(m) == \E it : IsFold(it, m, V, base, st)
           S == {m \in Nat : m <= n => Has(m)}
<1>1. 0 \in S
  <2> DEFINE it == [s \in SUBSET (1..0) |-> base]
  <2>1. SUBSET (1..0) = {{}}
    OBVIOUS
  <2>2. IsFold(it, 0, V, base, st)
    BY <2>1 DEF IsFold
  <2> QED BY <2>2
<1>2. ASSUME NEW m \in Nat, m \in S PROVE m + 1 \in S
  <2> SUFFICES ASSUME m + 1 <= n PROVE Has(m + 1)
    <3> HIDE DEF Has
    <3> QED OBVIOUS
  <2>1. Has(m)
    <3> HIDE DEF Has
    <3> QED BY <1>2
  <2>2. PICK h : IsFold(h, m, V, base, st)
    BY <2>1
  <2> DEFINE k == m + 1
             it == [s \in SUBSET (1..k) |-> IF k \in s THEN st[k][h[s \ {k}]] ELSE h[s]]
  <2>3. /\ k \in 1..n /\ 1..m \subseteq 1..k
        /\ \A s \in SUBSET (1..k) : s \ {k} \in SUBSET (1..m)
        /\ \A s \in SUBSET (1..k) : k \notin s => s \in SUBSET (1..m)
    OBVIOUS
  <2>4. /\ \A s \in SUBSET (1..m) : h[s] \in V
        /\ \A s \in SUBSET (1..m) :
              h[s] = IF s = {} THEN base ELSE st[Max(s)][h[s \ {Max(s)}]]
    BY <2>2 DEF IsFold
  <2>5. ASSUME NEW s \in SUBSET (1..k) PROVE it[s] \in V
    <3>1. CASE k \in s
      <4>1. h[s \ {k}] \in V /\ st[k] \in [V -> V]
        BY <2>3, <2>4
      <4> QED BY <3>1, <4>1
    <3>2. CASE k \notin s
      BY <3>2, <2>3, <2>4
    <3> QED BY <3>1, <3>2
  <2>6. ASSUME NEW s \in SUBSET (1..k)
        PROVE  it[s] = IF s = {} THEN base ELSE st[Max(s)][it[s \ {Max(s)}]]
    <3>1. CASE k \in s
      <4>1. \A y \in s : k >= y
        OBVIOUS
      <4>2. \A x \in s : x >= k => x = k
        OBVIOUS
      <4>3. Max(s) = k
        BY <3>1, <4>1, <4>2 DEF Max
      <4>4. k \notin s \ {k} /\ s \ {k} \in SUBSET (1..k)
        OBVIOUS
      <4>5. it[s \ {k}] = h[s \ {k}]
        BY <4>4
      <4>6. it[s] = st[k][h[s \ {k}]]
        BY <3>1
      <4> QED BY <3>1, <4>3, <4>5, <4>6
    <3>2. CASE k \notin s
      <4>1. s \in SUBSET (1..m) /\ it[s] = h[s]
        BY <3>2, <2>3
      <4>2. s \ {Max(s)} \in SUBSET (1..k) /\ k \notin s \ {Max(s)}
        BY <3>2
      <4>3. it[s \ {Max(s)}] = h[s \ {Max(s)}]
        BY <4>2
      <4>4. h[s] = IF s = {} THEN base ELSE st[Max(s)][h[s \ {Max(s)}]]
        BY <2>4, <4>1
      <4> HIDE DEF it
      <4> QED BY <4>1, <4>3, <4>4
    <3> QED BY <3>1, <3>2
  <2>7. it = [s \in SUBSET (1..k) |-> it[s]]
    OBVIOUS
  <2>8. IsFold(it, k, V, base, st)
    <3> HIDE DEF it, k
    <3> QED BY <2>5, <2>6, <2>7 DEF IsFold
  <2> QED BY <2>8
<1>3. \A m \in Nat : m \in S
  <2> HIDE DEF S
  <2> QED BY <1>1, <1>2, Induction
<1>4. Has(n)
  <2> HIDE DEF Has
  <2> QED BY <1>3
<1> QED BY <1>4

-----------------------------------------------------------------------------
(* The sum of a sequence of integers. *)

\* p[k] is the sum of the first k elements of w.
IsSumOf(p, w) ==
    /\ p \in [0..Len(w) -> Int]
    /\ p[0] = 0
    /\ \A k \in 1..Len(w) : p[k] = p[k - 1] + w[k]

LEMMA TotalByPrefixes ==
  ASSUME NEW w \in Seq(Int)
  PROVE  \E p : IsSumOf(p, w) /\ Total(w) = p[Len(w)]
<1> DEFINE n == Len(w)
           st == [i \in 1..n |-> [v \in Int |-> v + w[i]]]
           Fix(it) == it = [s \in SUBSET DOMAIN w |->
                          IF s = {} THEN 0 ELSE LET x == Max(s) IN it[s \ {x}] + w[x]]
<1>1. n \in Nat /\ DOMAIN w = 1..n /\ \A k \in 1..n : w[k] \in Int
  OBVIOUS
<1>2. \E it : Fix(it)
  <2>1. st \in [1..n -> [Int -> Int]]
    BY <1>1
  <2>2. PICK it : IsFold(it, n, Int, 0, st)
    <3>1. 0 \in Int
      OBVIOUS
    <3> HIDE DEF st, n
    <3> QED BY <1>1, <2>1, <3>1, FoldExists, Zenon
  <2>3. ASSUME NEW s \in SUBSET (1..n)
        PROVE  it[s] = IF s = {} THEN 0 ELSE it[s \ {Max(s)}] + w[Max(s)]
    <3>1. s # {} => Max(s) \in 1..n
      BY <1>1, MaxFacts
    <3>2. s \ {Max(s)} \in SUBSET (1..n)
      OBVIOUS
    <3> QED BY <2>2, <3>1, <3>2 DEF IsFold
  <2>4. it = [s \in SUBSET (1..n) |-> it[s]]
    BY <2>2 DEF IsFold
  <2> QED BY <1>1, <2>3, <2>4
<1>3. Fix(CHOOSE it : Fix(it))
  <2> HIDE DEF Fix
  <2> QED BY <1>2, Zenon
<1> DEFINE it == CHOOSE it : Fix(it)
<1>4. Total(w) = it[DOMAIN w]
  BY DEF Total, FoldLeft, MapThenFoldSet
<1> DEFINE p == [k \in 0..n |-> it[1..k]]
<1>5. it = [s \in SUBSET DOMAIN w |-> IF s = {} THEN 0 ELSE LET x == Max(s) IN it[s \ {x}] + w[x]]
  BY <1>3
<1> HIDE DEF it
<1>6. \A k \in 0..n : p[k] = it[1..k]
  OBVIOUS
<1>7. p[0] = 0
  <2>1. 1..0 = {} /\ 1..0 \in SUBSET DOMAIN w
    OBVIOUS
  <2>2. it[1..0] = 0
    BY <2>1, <1>5
  <2> QED BY <2>2, <1>6, <1>1
<1>8. ASSUME NEW k \in 1..n PROVE p[k] = p[k - 1] + w[k]
  <2> HIDE DEF n
  <2>1. 1..k \in SUBSET DOMAIN w /\ 1..k # {}
    <3>1. 1..k \subseteq 1..n /\ k \in 1..k
      BY <1>1
    <3> QED BY <3>1, <1>1
  <2>2. Max(1..k) = k /\ (1..k) \ {k} = 1..(k - 1)
    BY <1>1, MaxOfPrefix
  <2>3. it[1..k] = it[(1..k) \ {Max(1..k)}] + w[Max(1..k)]
    BY <1>5, <2>1
  <2>4. it[1..k] = it[1..(k - 1)] + w[k]
    BY <2>2, <2>3
  <2> HIDE DEF p
  <2>5. k \in 0..n /\ k - 1 \in 0..n
    BY <1>1
  <2> QED BY <2>4, <2>5, <1>6
<1>9. \A k \in 0..n : p[k] \in Int
  <2> DEFINE S == {k \in Nat : k <= n => p[k] \in Int}
  <2> HIDE DEF p
  <2>1. 0 \in S
    BY <1>7
  <2>2. ASSUME NEW k \in Nat, k \in S PROVE k + 1 \in S
    <3> SUFFICES ASSUME k + 1 <= n PROVE p[k + 1] \in Int
      OBVIOUS
    <3>1. k + 1 \in 1..n /\ (k + 1) - 1 = k /\ p[k] \in Int
      BY <1>1, <2>2
    <3>2. p[k + 1] = p[(k + 1) - 1] + w[k + 1]
      BY <3>1, <1>8
    <3> QED BY <1>1, <3>1, <3>2
  <2>3. \A k \in Nat : k \in S
    <3> HIDE DEF S
    <3> QED BY <2>1, <2>2, Induction
  <2> QED BY <2>3, <1>1
<1>10. IsSumOf(p, w)
  BY <1>7, <1>8, <1>9 DEF IsSumOf
<1>11. Total(w) = p[n]
  BY <1>1, <1>4, <1>6
<1> QED BY <1>10, <1>11

\* The prefix sums are determined, and so any of them give the total.
LEMMA TotalIs ==
  ASSUME NEW w \in Seq(Int), NEW p, IsSumOf(p, w)
  PROVE  Total(w) = p[Len(w)] /\ Total(w) \in Int
<1> DEFINE n == Len(w)
<1>1. PICK q : IsSumOf(q, w) /\ Total(w) = q[n]
  BY TotalByPrefixes
<1>2. n \in Nat
  OBVIOUS
<1>3. /\ p[0] = q[0] /\ q \in [0..n -> Int]
      /\ \A k \in 1..n : p[k] = p[k - 1] + w[k] /\ q[k] = q[k - 1] + w[k]
  BY <1>1 DEF IsSumOf
<1> HIDE DEF n
<1> DEFINE S == {k \in Nat : k <= n => p[k] = q[k]}
<1>4. 0 \in S
  BY <1>3
<1>5. ASSUME NEW k \in Nat, k \in S PROVE k + 1 \in S
  <2> SUFFICES ASSUME k + 1 <= n PROVE p[k + 1] = q[k + 1]
    OBVIOUS
  <2>1. k + 1 \in 1..n /\ (k + 1) - 1 = k /\ p[k] = q[k]
    BY <1>2, <1>5
  <2>2. /\ p[k + 1] = p[(k + 1) - 1] + w[k + 1]
        /\ q[k + 1] = q[(k + 1) - 1] + w[k + 1]
    BY <2>1, <1>3
  <2> QED BY <2>1, <2>2
<1>6. \A k \in Nat : k \in S
  <2> HIDE DEF S
  <2> QED BY <1>4, <1>5, Induction
<1>7. p[n] = q[n] /\ q[n] \in Int
  BY <1>2, <1>3, <1>6
<1> QED BY <1>1, <1>7 DEF n

LEMMA TotalEmpty == Total(<<>>) = 0
<1> DEFINE p == [k \in 0..0 |-> 0]
<1>1. IsSumOf(p, <<>>)
  BY DEF IsSumOf
<1>2. <<>> \in Seq(Int) /\ Len(<<>>) = 0 /\ p[0] = 0
  OBVIOUS
<1> HIDE DEF p
<1>3. Total(<<>>) = p[Len(<<>>)]
  BY <1>1, <1>2, TotalIs
<1> QED BY <1>2, <1>3

LEMMA TotalType ==
  ASSUME NEW w \in Seq(Int)
  PROVE  Total(w) \in Int
BY TotalByPrefixes, TotalIs

LEMMA TotalAppend ==
  ASSUME NEW w \in Seq(Int), NEW x \in Int
  PROVE  Total(Append(w, x)) = Total(w) + x
<1> DEFINE n == Len(w)
           a == Append(w, x)
<1>1. PICK q : IsSumOf(q, w) /\ Total(w) = q[n]
  BY TotalByPrefixes
<1>2. /\ n \in Nat /\ a \in Seq(Int) /\ Len(a) = n + 1 /\ a[n + 1] = x
      /\ \A k \in 1..n : a[k] = w[k]
  BY AppendProperties
<1>3. /\ q[0] = 0 /\ q \in [0..n -> Int]
      /\ \A k \in 1..n : q[k] = q[k - 1] + w[k]
  BY <1>1 DEF IsSumOf
<1> HIDE DEF n, a
<1> DEFINE p == [k \in 0..(n + 1) |-> IF k = n + 1 THEN q[n] + x ELSE q[k]]
<1>4. \A k \in 0..n : p[k] = q[k]
  BY <1>2
<1>5. p[n + 1] = q[n] + x /\ p[0] = 0
  BY <1>2, <1>3
<1>6. p \in [0..(n + 1) -> Int]
  BY <1>2, <1>3
<1> HIDE DEF p
<1>7. ASSUME NEW k \in 1..(n + 1) PROVE p[k] = p[k - 1] + a[k]
  <2>1. CASE k = n + 1
    <3>1. k - 1 = n /\ n \in 0..n
      BY <2>1, <1>2
    <3> QED BY <2>1, <3>1, <1>2, <1>4, <1>5
  <2>2. CASE k # n + 1
    <3>1. k \in 1..n /\ k \in 0..n /\ k - 1 \in 0..n
      BY <2>2, <1>2
    <3> QED BY <3>1, <1>2, <1>3, <1>4
  <2> QED BY <2>1, <2>2
<1>8. IsSumOf(p, a)
  BY <1>2, <1>5, <1>6, <1>7 DEF IsSumOf
<1>9. Total(a) = p[n + 1]
  BY <1>2, <1>8, TotalIs
<1> QED BY <1>1, <1>5, <1>9 DEF n, a

LEMMA TotalConcat ==
  ASSUME NEW u \in Seq(Int), NEW v \in Seq(Int)
  PROVE  Total(u \o v) = Total(u) + Total(v)
<1> DEFINE S == {w \in Seq(Int) : Total(u \o w) = Total(u) + Total(w)}
<1>1. <<>> \in S
  BY EmptySeq, ConcatEmptySeq, TotalEmpty, TotalType
<1>2. ASSUME NEW w \in Seq(Int), NEW x \in Int, w \in S PROVE Append(w, x) \in S
  <2> DEFINE c == u \o w
             y == <<x>>
  <2>1. y \in Seq(Int) /\ c \in Seq(Int)
    BY ConcatProperties
  <2>2. Append(w, x) = w \o y /\ Append(w, x) \in Seq(Int)
    BY AppendIsConcat, AppendProperties
  <2>3. u \o (w \o y) = c \o y
    BY <2>1, ConcatAssociative
  <2>4. Total(Append(w, x)) = Total(w) + x
    BY TotalAppend
  <2>5. Total(c) = Total(u) + Total(w)
    BY <1>2
  <2> HIDE DEF c, S
  <2>6. Append(c, x) = c \o y
    BY <2>1, AppendIsConcat
  <2>7. Total(Append(c, x)) = Total(c) + x
    BY <2>1, TotalAppend
  <2>8. Total(u \o Append(w, x)) = Total(c) + x
    BY <2>2, <2>3, <2>6, <2>7
  <2>9. Total(u) \in Int /\ Total(w) \in Int
    BY TotalType
  <2>10. Total(u \o Append(w, x)) = Total(u) + Total(Append(w, x))
    BY <2>4, <2>5, <2>8, <2>9
  <2> QED BY <2>2, <2>10 DEF S
<1>3. \A w \in Seq(Int) : w \in S
  <2> HIDE DEF S
  <2> QED BY <1>1, <1>2, SeqInduction
<1> QED BY <1>3

\* A sequence that counts in one place only.
LEMMA TotalOnly ==
  ASSUME NEW w \in Seq(Int), NEW j \in DOMAIN w, \A k \in DOMAIN w : k # j => w[k] = 0
  PROVE  Total(w) = w[j]
<1> DEFINE n == Len(w)
           p == [k \in 0..n |-> IF k < j THEN 0 ELSE w[j]]
<1>1. n \in Nat /\ j \in 1..n /\ DOMAIN w = 1..n /\ w[j] \in Int
  OBVIOUS
<1>2. IsSumOf(p, w) /\ p[n] = w[j]
  <2> HIDE DEF n
  <2>1. p \in [0..n -> Int] /\ p[0] = 0 /\ p[n] = w[j]
    BY <1>1
  <2>2. ASSUME NEW k \in 1..n PROVE p[k] = p[k - 1] + w[k]
    <3>1. k \in 0..n /\ k - 1 \in 0..n
      BY <1>1
    <3>2. CASE k < j
      BY <3>1, <3>2, <1>1
    <3>3. CASE k = j
      BY <3>1, <3>3, <1>1
    <3>4. CASE k > j
      BY <3>1, <3>4, <1>1
    <3> QED BY <3>2, <3>3, <3>4, <1>1
  <2> HIDE DEF p
  <2> QED BY <2>1, <2>2 DEF IsSumOf, n
<1> HIDE DEF p
<1> QED BY <1>2, TotalIs

LEMMA TotalZero ==
  ASSUME NEW w \in Seq(Int), \A k \in DOMAIN w : w[k] = 0
  PROVE  Total(w) = 0
<1>1. CASE w = <<>>
  BY <1>1, TotalEmpty
<1>2. CASE w # <<>>
  <2>1. 1 \in DOMAIN w
    BY <1>2
  <2> QED BY <2>1, TotalOnly
<1> QED BY <1>1, <1>2

\* A sum of what is not negative is at least each of its parts.
LEMMA TotalBounds ==
  ASSUME NEW w \in Seq(Nat)
  PROVE  Total(w) \in Nat /\ \A j \in DOMAIN w : w[j] <= Total(w)
<1> DEFINE S == {v \in Seq(Nat) : Total(v) \in Nat /\ \A j \in DOMAIN v : v[j] <= Total(v)}
<1>1. <<>> \in S
  BY EmptySeq, TotalEmpty
<1>2. ASSUME NEW v \in Seq(Nat), NEW x \in Nat, v \in S PROVE Append(v, x) \in S
  <2> DEFINE a == Append(v, x)
  <2>1. a \in Seq(Nat) /\ Len(a) = Len(v) + 1 /\ a[Len(v) + 1] = x
        /\ \A j \in DOMAIN v : a[j] = v[j]
    BY AppendProperties, LenProperties
  <2>2. v \in Seq(Int)
    BY SeqMonotonic
  <2>3. Total(a) = Total(v) + x /\ Total(v) \in Nat /\ Len(v) \in Nat
    BY <1>2, <2>2, TotalAppend
  <2>4. DOMAIN a = DOMAIN v \cup {Len(v) + 1}
    BY <2>1
  <2> HIDE DEF a
  <2>5. ASSUME NEW j \in DOMAIN v PROVE a[j] <= Total(a)
    <3>1. v[j] <= Total(v) /\ v[j] \in Nat
      BY <1>2
    <3> QED BY <2>1, <2>3, <3>1
  <2>6. a[Len(v) + 1] <= Total(a)
    BY <2>1, <2>3
  <2>8. \A j \in DOMAIN a : a[j] <= Total(a)
    BY <2>4, <2>5, <2>6
  <2>9. Total(a) \in Nat
    BY <2>3
  <2>7. a \in S
    BY <2>1, <2>8, <2>9
  <2> QED BY <2>7 DEF a
<1>3. \A v \in Seq(Nat) : v \in S
  <2> HIDE DEF S
  <2> QED BY <1>1, <1>2, SeqInduction
<1> QED BY <1>3

\* What is picked and what is left behind add up.
LEMMA TotalSplit ==
  ASSUME NEW w \in Seq(Int), NEW P, P \subseteq DOMAIN w
  PROVE  Total(Pick(w, P)) + Total(Pick(w, DOMAIN w \ P)) = Total(w)
<1> DEFINE Splits(v) == \A Q \in SUBSET DOMAIN v :
                           Total(Pick(v, Q)) + Total(Pick(v, DOMAIN v \ Q)) = Total(v)
           S == {v \in Seq(Int) : Splits(v)}
<1>1. <<>> \in S
  <2>1. Pick(<<>>, {}) = <<>>
    <3>1. Cardinality({}) = 0
      BY FS_EmptySet
    <3> QED BY <3>1 DEF Pick
  <2>2. DOMAIN <<>> = {} /\ <<>> \in Seq(Int)
    OBVIOUS
  <2>3. ASSUME NEW Q \in SUBSET DOMAIN <<>>
        PROVE  Total(Pick(<<>>, Q)) + Total(Pick(<<>>, DOMAIN <<>> \ Q)) = Total(<<>>)
    <3>1. Q = {} /\ DOMAIN <<>> \ Q = {}
      BY <2>2
    <3>2. Pick(<<>>, Q) = <<>> /\ Pick(<<>>, DOMAIN <<>> \ Q) = <<>>
      BY <3>1, <2>1
    <3> QED BY <3>2, TotalEmpty
  <2> QED BY <2>2, <2>3
<1>2. ASSUME NEW v \in Seq(Int), NEW x \in Int, v \in S PROVE Append(v, x) \in S
  <2> DEFINE a == Append(v, x)
             m == Len(v) + 1
  <2>1. /\ a \in Seq(Int) /\ DOMAIN a = DOMAIN v \cup {m} /\ m \notin DOMAIN v
        /\ \A k \in DOMAIN v : a[k] = v[k]
    BY AppendProperties
  <2>2. ASSUME NEW Q, Q \subseteq DOMAIN v
        PROVE  /\ Pick(a, Q) = Pick(v, Q) /\ Pick(v, Q) \in Seq(Int)
               /\ Pick(a, Q \cup {m}) = Append(Pick(v, Q), x)
               /\ Total(Pick(a, Q)) = Total(Pick(v, Q))
               /\ Total(Pick(a, Q \cup {m})) = Total(Pick(v, Q)) + x
               /\ Total(Pick(v, Q)) \in Int
    <3>2. Pick(v, Q) \in Seq(Int)
      <4> HIDE DEF S
      <4> QED BY <2>2, PickFacts
    <3>3. Pick(a, Q \cup {m}) = Append(Pick(v, Q), x)
      <4> HIDE DEF S
      <4> QED BY <2>2, PickTakes
    <3>1. Pick(a, Q) = Pick(v, Q)
      <4>1. \A k \in DOMAIN v : a[k] = v[k]
        BY <2>1
      <4> HIDE DEF S, a
      <4> QED BY <2>2, <4>1, PickSkips
    <3>4. Total(Append(Pick(v, Q), x)) = Total(Pick(v, Q)) + x /\ Total(Pick(v, Q)) \in Int
      BY <3>2, TotalAppend, TotalType
    <3> QED BY <3>1, <3>2, <3>3, <3>4
  <2>3. Splits(v)
    BY <1>2
  <2>4. Total(a) = Total(v) + x
    BY TotalAppend
  <2> HIDE DEF a, m
  <2>5. ASSUME NEW Q \in SUBSET DOMAIN a
        PROVE  Total(Pick(a, Q)) + Total(Pick(a, DOMAIN a \ Q)) = Total(a)
    <3> DEFINE R == Q \ {m}
               C == DOMAIN v \ R
    <3>1. R \subseteq DOMAIN v /\ C \subseteq DOMAIN v
      BY <2>1
    <3>2. Total(Pick(v, R)) + Total(Pick(v, C)) = Total(v)
      BY <2>3, <3>1
    <3>3. CASE m \in Q
      <4>1. Q = R \cup {m} /\ DOMAIN a \ Q = C
        BY <3>3, <2>1
      <4> HIDE DEF R, C
      <4>2. /\ Total(Pick(a, R \cup {m})) = Total(Pick(v, R)) + x
            /\ Total(Pick(a, C)) = Total(Pick(v, C))
            /\ Total(Pick(v, R)) \in Int /\ Total(Pick(v, C)) \in Int
        BY <3>1, <2>2
      <4>3. Total(v) \in Int
        BY TotalType
      <4> HIDE DEF Splits, S
      <4>4. Total(Pick(a, Q)) + Total(Pick(a, DOMAIN a \ Q)) = Total(v) + x
        <5> DEFINE r == Total(Pick(v, R))
                   c == Total(Pick(v, C))
        <5>1. Total(Pick(a, Q)) = r + x /\ Total(Pick(a, DOMAIN a \ Q)) = c
          BY <4>1, <4>2
        <5>2. r \in Int /\ c \in Int /\ r + c = Total(v)
          BY <4>2, <3>2
        <5> HIDE DEF r, c
        <5> QED BY <5>1, <5>2
      <4> QED BY <4>4, <2>4
    <3>4. CASE m \notin Q
      <4>1. Q = R /\ DOMAIN a \ Q = C \cup {m}
        BY <3>4, <2>1
      <4> HIDE DEF R, C
      <4>2. /\ Total(Pick(a, R)) = Total(Pick(v, R))
            /\ Total(Pick(a, C \cup {m})) = Total(Pick(v, C)) + x
            /\ Total(Pick(v, R)) \in Int /\ Total(Pick(v, C)) \in Int
        BY <3>1, <2>2
      <4>3. Total(v) \in Int
        BY TotalType
      <4> HIDE DEF Splits, S
      <4>4. Total(Pick(a, Q)) + Total(Pick(a, DOMAIN a \ Q)) = Total(v) + x
        <5> DEFINE r == Total(Pick(v, R))
                   c == Total(Pick(v, C))
        <5>1. Total(Pick(a, Q)) = r /\ Total(Pick(a, DOMAIN a \ Q)) = c + x
          BY <4>1, <4>2
        <5>2. r \in Int /\ c \in Int /\ r + c = Total(v)
          BY <4>2, <3>2
        <5> HIDE DEF r, c
        <5> QED BY <5>1, <5>2
      <4> QED BY <4>4, <2>4
    <3> QED BY <3>3, <3>4
  <2> QED BY <2>1, <2>5 DEF a
<1>3. \A v \in Seq(Int) : v \in S
  <2> HIDE DEF S
  <2> QED BY <1>1, <1>2, SeqInduction
<1> QED BY <1>3

-----------------------------------------------------------------------------
(* A filter, its condition being a set. *)

Kept(s, G) == Pick(s, {n \in DOMAIN s : s[n] \in G})

LEMMA KeptFacts ==
  ASSUME NEW S, NEW s \in Seq(S), NEW G
  PROVE  /\ Kept(s, G) \in Seq(S)
         /\ Len(Kept(s, G)) = Cardinality({n \in DOMAIN s : s[n] \in G})
         /\ \A n \in DOMAIN Kept(s, G) : /\ Kept(s, G)[n] \in G
                                         /\ \E k \in DOMAIN s : Kept(s, G)[n] = s[k]
         /\ \A k \in DOMAIN s : s[k] \in G => \E n \in DOMAIN Kept(s, G) : Kept(s, G)[n] = s[k]
<1> DEFINE P == {n \in DOMAIN s : s[n] \in G}
           r == Pick(s, P)
<1>1. P \subseteq DOMAIN s
  OBVIOUS
<1>2. \A k \in P : k \in DOMAIN s /\ s[k] \in G
  OBVIOUS
<1>3. \A k \in DOMAIN s : s[k] \in G => k \in P
  OBVIOUS
<1> HIDE DEF P
<1>4. r \in Seq(S) /\ Len(r) = Cardinality(P)
  BY <1>1, PickFacts
<1>5. PICK e \in [DOMAIN r -> P] :
         /\ \A n, o \in DOMAIN e : n < o => e[n] < e[o]
         /\ \A k \in P : \E n \in DOMAIN e : e[n] = k
         /\ \A n \in DOMAIN e : r[n] = s[e[n]]
  BY <1>1, PickFacts
<1> HIDE DEF r
<1>6. \A n \in DOMAIN r : r[n] \in G /\ \E k \in DOMAIN s : r[n] = s[k]
  <2> TAKE n \in DOMAIN r
  <2>1. e[n] \in P /\ r[n] = s[e[n]]
    BY <1>5
  <2> QED BY <2>1, <1>2
<1>7. \A k \in DOMAIN s : s[k] \in G => \E n \in DOMAIN r : r[n] = s[k]
  <2> SUFFICES ASSUME NEW k \in DOMAIN s, s[k] \in G PROVE \E n \in DOMAIN r : r[n] = s[k]
    OBVIOUS
  <2>1. PICK n \in DOMAIN e : e[n] = k
    BY <1>3, <1>5
  <2> QED BY <2>1, <1>5
<1> QED BY <1>4, <1>6, <1>7 DEF Kept, r, P

LEMMA KeptEmpty == \A G : Kept(<<>>, G) = <<>>
<1> TAKE G
<1>1. {n \in DOMAIN <<>> : <<>>[n] \in G} = {} /\ Cardinality({}) = 0
  BY FS_EmptySet
<1> QED BY <1>1 DEF Kept, Pick

LEMMA KeptAppend ==
  ASSUME NEW S, NEW s \in Seq(S), NEW x \in S, NEW G
  PROVE  Kept(Append(s, x), G) = IF x \in G THEN Append(Kept(s, G), x) ELSE Kept(s, G)
<1> DEFINE a == Append(s, x)
           m == Len(s) + 1
           P == {n \in DOMAIN s : s[n] \in G}
           Q == {n \in DOMAIN a : a[n] \in G}
<1>1. /\ DOMAIN a = DOMAIN s \cup {m} /\ a[m] = x /\ m \notin DOMAIN s
      /\ \A n \in DOMAIN s : a[n] = s[n]
  BY AppendProperties
<1>2. P \subseteq DOMAIN s
  OBVIOUS
<1>3. Q = IF x \in G THEN P \cup {m} ELSE P
  <2> HIDE DEF a, m
  <2> QED BY <1>1
<1> HIDE DEF P, Q
<1>4. x \in G => Pick(a, Q) = Append(Pick(s, P), x)
  BY <1>2, <1>3, PickTakes
<1>5. x \notin G => Pick(a, Q) = Pick(s, P)
  <2>1. \A n \in DOMAIN s : a[n] = s[n]
    BY <1>1
  <2> HIDE DEF a
  <2> QED BY <1>2, <1>3, <2>1, PickSkips
<1> QED BY <1>4, <1>5 DEF Kept, P, Q

\* Filtering twice is filtering by both.
LEMMA KeptTwice ==
  ASSUME NEW S, NEW s \in Seq(S), NEW G, NEW H
  PROVE  Kept(Kept(s, G), H) = Kept(s, G \cap H)
<1> DEFINE T == {t \in Seq(S) : Kept(Kept(t, G), H) = Kept(t, G \cap H)}
<1>1. <<>> \in T
  BY KeptEmpty
<1>2. ASSUME NEW t \in Seq(S), NEW x \in S, t \in T PROVE Append(t, x) \in T
  <2>1. Append(t, x) \in Seq(S)
    OBVIOUS
  <2>2. Kept(Kept(t, G), H) = Kept(t, G \cap H)
    BY <1>2
  <2> HIDE DEF T
  <2>3. Kept(t, G) \in Seq(S)
    BY KeptFacts
  <2>4. Kept(Append(t, x), G) = IF x \in G THEN Append(Kept(t, G), x) ELSE Kept(t, G)
    BY KeptAppend
  <2>5. Kept(Append(t, x), G \cap H)
           = IF x \in G \cap H THEN Append(Kept(t, G \cap H), x) ELSE Kept(t, G \cap H)
    BY KeptAppend
  <2>6. Kept(Append(Kept(t, G), x), H)
           = IF x \in H THEN Append(Kept(Kept(t, G), H), x) ELSE Kept(Kept(t, G), H)
    BY <2>3, KeptAppend
  <2>7. Kept(Kept(Append(t, x), G), H) = Kept(Append(t, x), G \cap H)
    <3> DEFINE a == Kept(t, G)
               b == Kept(t, G \cap H)
               c == Kept(Append(t, x), G)
               d == Kept(Append(t, x), G \cap H)
    <3>1. x \in G \cap H <=> x \in G /\ x \in H
      OBVIOUS
    <3>2. CASE x \in G
      <4>1. c = Append(a, x)
        BY <2>4, <3>2
      <4>2. d = IF x \in H THEN Append(b, x) ELSE b
        BY <2>5, <3>1, <3>2
      <4>3. Kept(Append(a, x), H) = IF x \in H THEN Append(Kept(a, H), x) ELSE Kept(a, H)
        BY <2>6
      <4>4. Kept(a, H) = b
        BY <2>2
      <4> HIDE DEF a, b, c, d
      <4>5. Kept(c, H) = d
        BY <4>1, <4>2, <4>3, <4>4
      <4> QED BY <4>5 DEF c, d
    <3>3. CASE x \notin G
      <4>1. c = a
        BY <2>4, <3>3
      <4>2. d = b
        BY <2>5, <3>1, <3>3
      <4>3. Kept(a, H) = b
        BY <2>2
      <4> HIDE DEF a, b, c, d
      <4>4. Kept(c, H) = d
        BY <4>1, <4>2, <4>3
      <4> QED BY <4>4 DEF c, d
    <3> QED BY <3>2, <3>3
  <2> QED BY <2>1, <2>7 DEF T
<1>3. \A t \in Seq(S) : t \in T
  <2> HIDE DEF T
  <2> QED BY <1>1, <1>2, SeqInduction
<1> QED BY <1>3
-----------------------------------------------------------------------------
(* What a sequence consists of. *)

Elements(s) == {s[k] : k \in DOMAIN s}

LEMMA ElementsEmpty == Elements(<<>>) = {}
  BY DEF Elements

LEMMA ElementsType ==
  ASSUME NEW S, NEW s \in Seq(S)
  PROVE  Elements(s) \subseteq S /\ (Elements(s) = {} => s = <<>>)
<1>1. \A k \in DOMAIN s : s[k] \in S
  OBVIOUS
<1>2. Elements(s) = {} => DOMAIN s = {}
  BY DEF Elements
<1>3. DOMAIN s = 1..Len(s) /\ Len(s) \in Nat /\ (Len(s) = 0 => s = <<>>)
  OBVIOUS
<1>4. DOMAIN s = {} => Len(s) = 0
  <2>1. Len(s) # 0 => 1 \in DOMAIN s
    BY <1>3
  <2> QED BY <2>1
<1> QED BY <1>1, <1>2, <1>3, <1>4 DEF Elements

LEMMA ElementsConcat ==
  ASSUME NEW S, NEW u \in Seq(S), NEW v \in Seq(S)
  PROVE  Elements(u \o v) = Elements(u) \cup Elements(v)
<1> DEFINE x == u \o v
           n == Len(u)
           m == Len(v)
<1>1. /\ DOMAIN x = 1..(n + m) /\ DOMAIN u = 1..n /\ DOMAIN v = 1..m
      /\ \A k \in 1..(n + m) : x[k] = IF k <= n THEN u[k] ELSE v[k - n]
      /\ n \in Nat /\ m \in Nat
  <2>1. x \in Seq(S) /\ Len(x) = n + m /\ n \in Nat /\ m \in Nat
    BY ConcatProperties
  <2>2. DOMAIN x = 1..(n + m) /\ DOMAIN u = 1..n /\ DOMAIN v = 1..m
    BY <2>1
  <2>3. \A k \in 1..(n + m) : x[k] = IF k <= n THEN u[k] ELSE v[k - n]
    BY ConcatProperties
  <2> QED BY <2>1, <2>2, <2>3
<1> HIDE DEF x, n, m
<1>2. ASSUME NEW k \in DOMAIN x
      PROVE  (\E h \in DOMAIN u : x[k] = u[h]) \/ (\E h \in DOMAIN v : x[k] = v[h])
  <2>1. CASE k <= n
    <3>1. k \in DOMAIN u /\ x[k] = u[k]
      BY <1>1, <2>1
    <3> QED BY <3>1
  <2>2. CASE ~(k <= n)
    <3>1. k - n \in DOMAIN v /\ x[k] = v[k - n]
      BY <1>1, <2>2
    <3> QED BY <3>1
  <2> QED BY <2>1, <2>2
<1>3. ASSUME NEW h \in DOMAIN u PROVE \E k \in DOMAIN x : x[k] = u[h]
  <2>1. h \in DOMAIN x /\ x[h] = u[h]
    BY <1>1
  <2> QED BY <2>1
<1>4. ASSUME NEW h \in DOMAIN v PROVE \E k \in DOMAIN x : x[k] = v[h]
  <2>1. h + n \in DOMAIN x /\ ~(h + n <= n) /\ h + n - n = h
    BY <1>1
  <2>2. x[h + n] = v[h]
    BY <1>1, <2>1
  <2> QED BY <2>1, <2>2
<1>5. Elements(x) = Elements(u) \cup Elements(v)
  BY <1>2, <1>3, <1>4 DEF Elements
<1> QED BY <1>5 DEF x

LEMMA ElementsAppend ==
  ASSUME NEW S, NEW s \in Seq(S), NEW x \in S
  PROVE  Elements(Append(s, x)) = Elements(s) \cup {x}
<1> DEFINE a == Append(s, x)
           n == Len(s) + 1
<1>1. /\ DOMAIN a = DOMAIN s \cup {n} /\ a[n] = x /\ n \notin DOMAIN s
      /\ \A k \in DOMAIN s : a[k] = s[k]
  BY AppendProperties
<1> HIDE DEF a, n
<1> QED BY <1>1 DEF Elements, a

LEMMA ElementsTail ==
  ASSUME NEW S, NEW s \in Seq(S), s # <<>>
  PROVE  /\ Head(s) \in S /\ Tail(s) \in Seq(S) /\ s = <<Head(s)>> \o Tail(s)
         /\ Elements(s) = {Head(s)} \cup Elements(Tail(s))
<1> DEFINE t == Tail(s)
           n == Len(s)
<1>1. /\ n \in Nat /\ n > 0 /\ DOMAIN s = 1..n /\ t \in Seq(S) /\ Len(t) = n - 1
      /\ DOMAIN t = 1..(n - 1) /\ \A k \in 1..(n - 1) : t[k] = s[k + 1]
      /\ Head(s) = s[1] /\ Head(s) \in S
  OBVIOUS
<1>2. s = <<Head(s)>> \o t
  OBVIOUS
<1> HIDE DEF t, n
<1>3. 1 \in DOMAIN s
  BY <1>1
<1>4. \A k \in DOMAIN t : k + 1 \in DOMAIN s /\ t[k] = s[k + 1]
  BY <1>1
<1>5. ASSUME NEW h \in DOMAIN s, s[h] # Head(s) PROVE \E k \in DOMAIN t : t[k] = s[h]
  <2>1. h # 1 /\ h - 1 \in DOMAIN t /\ (h - 1) + 1 = h
    BY <1>1, <1>5
  <2>2. t[h - 1] = s[h]
    BY <1>4, <2>1
  <2> QED BY <2>1, <2>2
<1> QED BY <1>1, <1>2, <1>3, <1>4, <1>5 DEF t, Elements

LEMMA ElementsPick ==
  ASSUME NEW S, NEW s \in Seq(S), NEW P, P \subseteq DOMAIN s
  PROVE  Elements(Pick(s, P)) = {s[k] : k \in P}
<1> DEFINE r == Pick(s, P)
<1>1. PICK e \in [DOMAIN r -> P] :
         /\ \A n, o \in DOMAIN e : n < o => e[n] < e[o]
         /\ \A k \in P : \E n \in DOMAIN e : e[n] = k
         /\ \A n \in DOMAIN e : r[n] = s[e[n]]
  BY PickFacts
<1> HIDE DEF r
<1>2. \A n \in DOMAIN r : e[n] \in P /\ r[n] = s[e[n]]
  BY <1>1
<1>3. \A k \in P : \E n \in DOMAIN r : r[n] = s[k]
  <2> TAKE k \in P
  <2>1. PICK n \in DOMAIN e : e[n] = k
    BY <1>1
  <2> QED BY <1>1, <2>1
<1> QED BY <1>2, <1>3 DEF Elements, r

LEMMA ElementsKept ==
  ASSUME NEW S, NEW s \in Seq(S), NEW G
  PROVE  Elements(Kept(s, G)) = Elements(s) \cap G
<1> DEFINE P == {n \in DOMAIN s : s[n] \in G}
<1>1. P \subseteq DOMAIN s
  OBVIOUS
<1>2. Elements(Pick(s, P)) = {s[k] : k \in P}
  <2> HIDE DEF P
  <2> QED BY <1>1, ElementsPick
<1> QED BY <1>2 DEF Elements, Kept

LEMMA KeptSame ==
  ASSUME NEW S, NEW s \in Seq(S), NEW G, NEW H, G \cap Elements(s) = H \cap Elements(s)
  PROVE  Kept(s, G) = Kept(s, H)
<1>1. {n \in DOMAIN s : s[n] \in G} = {n \in DOMAIN s : s[n] \in H}
  BY DEF Elements
<1> QED BY <1>1 DEF Kept

LEMMA KeptAll ==
  ASSUME NEW S, NEW s \in Seq(S), NEW G, Elements(s) \subseteq G
  PROVE  Kept(s, G) = s
<1> DEFINE T == {t \in Seq(S) : Elements(t) \subseteq G => Kept(t, G) = t}
<1>1. <<>> \in T
  BY KeptEmpty
<1>2. ASSUME NEW t \in Seq(S), NEW x \in S, t \in T PROVE Append(t, x) \in T
  <2>1. Append(t, x) \in Seq(S)
    OBVIOUS
  <2>2. Elements(t) \subseteq G => Kept(t, G) = t
    BY <1>2
  <2> HIDE DEF T
  <2>3. Elements(Append(t, x)) = Elements(t) \cup {x}
    BY ElementsAppend
  <2>4. Kept(Append(t, x), G) = IF x \in G THEN Append(Kept(t, G), x) ELSE Kept(t, G)
    BY KeptAppend
  <2>5. Elements(Append(t, x)) \subseteq G => Kept(Append(t, x), G) = Append(t, x)
    BY <2>2, <2>3, <2>4
  <2> QED BY <2>1, <2>5 DEF T
<1>3. \A t \in Seq(S) : t \in T
  <2> HIDE DEF T
  <2> QED BY <1>1, <1>2, SeqInduction
<1> QED BY <1>3

\* No element stands twice.
EachOnce(s) == \A j, k \in DOMAIN s : s[j] = s[k] => j = k

\* x stands before y.
Precedes(s, x, y) == \E j, k \in DOMAIN s : j < k /\ s[j] = x /\ s[k] = y

LEMMA KeptOrder ==
  ASSUME NEW S, NEW s \in Seq(S), NEW G
  PROVE  /\ EachOnce(s) => EachOnce(Kept(s, G))
         /\ \A x, y \in G : Precedes(s, x, y) => Precedes(Kept(s, G), x, y)
<1> DEFINE P == {n \in DOMAIN s : s[n] \in G}
           r == Pick(s, P)
<1>1. P \subseteq DOMAIN s /\ Kept(s, G) = r
  BY DEF Kept
<1>2. \A n \in DOMAIN s : n \in Int
  OBVIOUS
<1> HIDE DEF P
<1>3. /\ r \in Seq(S)
      /\ \E e \in [DOMAIN r -> P] :
            /\ \A n, o \in DOMAIN e : n < o => e[n] < e[o]
            /\ \A k \in P : \E n \in DOMAIN e : e[n] = k
            /\ \A n \in DOMAIN e : r[n] = s[e[n]]
  BY <1>1, PickFacts
<1>4. PICK e \in [DOMAIN r -> P] :
         /\ \A n, o \in DOMAIN e : n < o => e[n] < e[o]
         /\ \A k \in P : \E n \in DOMAIN e : e[n] = k
         /\ \A n \in DOMAIN e : r[n] = s[e[n]]
  BY <1>3
<1>5. \A n \in DOMAIN r : n \in Int
  BY <1>3
<1> HIDE DEF r
<1>6. ASSUME EachOnce(s), NEW j \in DOMAIN r, NEW k \in DOMAIN r, r[j] = r[k] PROVE j = k
  <2>1. e[j] = e[k] /\ e[j] \in DOMAIN s /\ e[k] \in DOMAIN s
    BY <1>1, <1>4, <1>6 DEF EachOnce
  <2>2. e[j] \in Int /\ j \in Int /\ k \in Int
    BY <1>2, <1>5, <2>1
  <2>3. ~(j < k) /\ ~(k < j)
    BY <1>4, <2>1, <2>2
  <2> QED BY <2>2, <2>3
<1>7. ASSUME NEW x \in G, NEW y \in G, Precedes(s, x, y) PROVE Precedes(r, x, y)
  <2>1. PICK j \in DOMAIN s, k \in DOMAIN s : j < k /\ s[j] = x /\ s[k] = y
    BY <1>7 DEF Precedes
  <2>2. j \in P /\ k \in P
    BY <2>1 DEF P
  <2>3. PICK m \in DOMAIN r : e[m] = j
    BY <1>4, <2>2
  <2>4. PICK n \in DOMAIN r : e[n] = k
    BY <1>4, <2>2
  <2>5. j \in Int /\ k \in Int /\ m \in Int /\ n \in Int
    BY <1>2, <1>5
  <2>6. m # n /\ ~(n < m)
    BY <1>4, <2>1, <2>3, <2>4, <2>5
  <2>7. m < n /\ r[m] = x /\ r[n] = y
    BY <1>4, <2>1, <2>3, <2>4, <2>5, <2>6
  <2> QED BY <2>7 DEF Precedes
<1> QED BY <1>1, <1>6, <1>7 DEF EachOnce

LEMMA AppendKeepsOrder ==
  ASSUME NEW S, NEW s \in Seq(S), NEW z \in S, z \notin Elements(s)
  PROVE  /\ EachOnce(s) => EachOnce(Append(s, z))
         /\ \A x, y : Precedes(s, x, y) => Precedes(Append(s, z), x, y)
         /\ \A x \in Elements(s) : Precedes(Append(s, z), x, z)
<1> DEFINE a == Append(s, z)
           n == Len(s) + 1
<1>1. /\ DOMAIN a = DOMAIN s \cup {n} /\ a[n] = z /\ n \notin DOMAIN s
      /\ \A k \in DOMAIN s : a[k] = s[k] /\ k < n
  BY AppendProperties
<1>2. \A k \in DOMAIN s : s[k] # z
  BY DEF Elements
<1> HIDE DEF a, n
<1>3. EachOnce(s) => EachOnce(a)
  BY <1>1, <1>2 DEF EachOnce
<1>4. \A x, y : Precedes(s, x, y) => Precedes(a, x, y)
  BY <1>1 DEF Precedes
<1>5. \A x \in Elements(s) : Precedes(a, x, z)
  BY <1>1 DEF Precedes, Elements
<1> QED BY <1>3, <1>4, <1>5 DEF a

\* Choosing commutes with what is done to each element.
LEMMA PickMaps ==
  ASSUME NEW S, NEW s \in Seq(S), NEW F, NEW P, P \subseteq DOMAIN s
  PROVE  Pick([k \in DOMAIN s |-> F[s[k]]], P)
            = [n \in DOMAIN Pick(s, P) |-> F[Pick(s, P)[n]]]
<1>1. /\ P \subseteq 1..Len(s) /\ Len(s) \in Nat
  OBVIOUS
<1>2. \A n \in 1..Cardinality(P) : Nth(P, n) \in P
  BY <1>1, NthFacts
<1>3. DOMAIN Pick(s, P) = 1..Cardinality(P)
  BY DEF Pick
<1> QED BY <1>2, <1>3 DEF Pick

\* A finite set of integers has a largest and a smallest element.
LEMMA Extremes ==
  ASSUME NEW T, T \subseteq Int, IsFiniteSet(T), T # {}
  PROVE  /\ Max(T) \in T /\ \A y \in T : y <= Max(T)
         /\ Min(T) \in T /\ \A y \in T : Min(T) <= y
<1>1. PICK n \in Nat : \E f : f \in Surjection(1..n, T)
  BY FS_NatSurjection DEF ExistsSurjection
<1>a. PICK f : f \in Surjection(1..n, T)
  BY <1>1
<1>2. f \in [1..n -> T] /\ \A t \in T : \E k \in 1..n : f[k] = t
  BY <1>a DEF Surjection
<1>i. \A t \in T : t \in Int
  OBVIOUS
<1> DEFINE Has(m) == /\ \E x \in T : \A k \in 1..m : k <= n => f[k] <= x
                     /\ \E x \in T : \A k \in 1..m : k <= n => x <= f[k]
           S == {m \in Nat : Has(m)}
<1>3. 0 \in S
  <2>1. Has(0)
    <3>1. 1..0 = {} /\ \E x : x \in T
      OBVIOUS
    <3> QED BY <3>1
  <2> QED BY <2>1
<1>4. ASSUME NEW m \in Nat, m \in S PROVE m + 1 \in S
  <2>1. PICK x \in T : \A k \in 1..m : k <= n => f[k] <= x
    BY <1>4
  <2>2. PICK z \in T : \A k \in 1..m : k <= n => z <= f[k]
    BY <1>4
  <2>3. CASE m + 1 <= n
    <3>1. m + 1 \in 1..n /\ f[m + 1] \in T
      BY <1>2, <2>3
    <3>2. \E v \in T : \A k \in 1..(m + 1) : k <= n => f[k] <= v
      <4>1. CASE f[m + 1] <= x
        BY <2>1, <4>1
      <4>2. CASE ~(f[m + 1] <= x)
        <5>1. \A k \in 1..(m + 1) : k <= n => f[k] <= f[m + 1]
          <6> SUFFICES ASSUME NEW k \in 1..(m + 1), k <= n PROVE f[k] <= f[m + 1]
            OBVIOUS
          <6>1. f[k] \in Int /\ f[m + 1] \in Int /\ x \in Int
            <7>1. k \in 1..n
              OBVIOUS
            <7>2. f[k] \in T /\ f[m + 1] \in T
              BY <1>2, <3>1, <7>1
            <7> QED BY <1>i, <7>2
          <6>2. k <= m \/ k = m + 1
            OBVIOUS
          <6>3. CASE k <= m
            <7>1. f[k] <= x
              BY <2>1, <6>3
            <7> QED BY <4>2, <6>1, <7>1
          <6>4. CASE k = m + 1
            BY <6>1, <6>4
          <6> QED BY <6>2, <6>3, <6>4
        <5> QED BY <3>1, <5>1
      <4> QED BY <4>1, <4>2
    <3>3. \E v \in T : \A k \in 1..(m + 1) : k <= n => v <= f[k]
      <4>1. CASE z <= f[m + 1]
        BY <2>2, <4>1
      <4>2. CASE ~(z <= f[m + 1])
        <5>1. \A k \in 1..(m + 1) : k <= n => f[m + 1] <= f[k]
          <6> SUFFICES ASSUME NEW k \in 1..(m + 1), k <= n PROVE f[m + 1] <= f[k]
            OBVIOUS
          <6>1. f[k] \in Int /\ f[m + 1] \in Int /\ z \in Int
            <7>1. k \in 1..n
              OBVIOUS
            <7>2. f[k] \in T /\ f[m + 1] \in T
              BY <1>2, <3>1, <7>1
            <7> QED BY <1>i, <7>2
          <6>2. k <= m \/ k = m + 1
            OBVIOUS
          <6>3. CASE k <= m
            <7>1. z <= f[k]
              BY <2>2, <6>3
            <7> QED BY <4>2, <6>1, <7>1
          <6>4. CASE k = m + 1
            BY <6>1, <6>4
          <6> QED BY <6>2, <6>3, <6>4
        <5> QED BY <3>1, <5>1
      <4> QED BY <4>1, <4>2
    <3>4. Has(m + 1)
      BY <3>2, <3>3
    <3> HIDE DEF Has
    <3> QED BY <3>4
  <2>4. CASE ~(m + 1 <= n)
    BY <2>1, <2>2, <2>4
  <2> QED BY <2>3, <2>4
<1>5. n \in S
  <2> HIDE DEF S
  <2>1. \A m \in Nat : m \in S
    BY <1>3, <1>4, Induction
  <2> QED BY <2>1
<1>6. (\E x \in T : \A y \in T : y <= x) /\ (\E x \in T : \A y \in T : x <= y)
  BY <1>2, <1>5
<1>7. \A x, y \in T : (x >= y <=> y <= x)
  OBVIOUS
<1> QED BY <1>6, <1>7 DEF Max, Min

-----------------------------------------------------------------------------
(* A fold from left to right, as the run of a step function. *)

-----------------------------------------------------------------------------
(* Folds over a sequence, from left to right. *)

\* p[k] is what the first k elements of w make of base; F[a][x] is what
\* element x makes of a.
IsRun(p, F, base, w) ==
    /\ p = [k \in 0..Len(w) |-> p[k]]
    /\ p[0] = base
    /\ \A k \in 1..Len(w) : p[k] = F[p[k - 1]][w[k]]

\* F takes a value and an element to a value.
IsStep(F, A, V) == \A a \in V, x \in A : F[a][x] \in V

RunOf(F, base, w) == (CHOOSE p : IsRun(p, F, base, w))[Len(w)]

\* There is one run, and it starts, goes on and ends as the fold does.
LEMMA RunUnique ==
  ASSUME NEW A, NEW w \in Seq(A), NEW F, NEW base, NEW p, NEW q,
         IsRun(p, F, base, w), IsRun(q, F, base, w)
  PROVE  p = q
<1> DEFINE S == {k \in Nat : k <= Len(w) => p[k] = q[k]}
<1>1. Len(w) \in Nat
  OBVIOUS
<1>2. 0 \in S
  BY DEF IsRun
<1>3. ASSUME NEW k \in Nat, k \in S PROVE k + 1 \in S
  <2> SUFFICES ASSUME k + 1 <= Len(w) PROVE p[k + 1] = q[k + 1]
    OBVIOUS
  <2>1. k + 1 \in 1..Len(w) /\ (k + 1) - 1 = k /\ p[k] = q[k]
    BY <1>1, <1>3
  <2>2. p[k + 1] = F[p[k]][w[k + 1]] /\ q[k + 1] = F[q[k]][w[k + 1]]
    BY <2>1 DEF IsRun
  <2> QED BY <2>1, <2>2
<1>4. \A k \in Nat : k \in S
  <2> HIDE DEF S
  <2> QED BY <1>2, <1>3, Induction
<1>5. \A k \in 0..Len(w) : p[k] = q[k]
  BY <1>1, <1>4
<1>6. p = [k \in 0..Len(w) |-> p[k]] /\ q = [k \in 0..Len(w) |-> q[k]]
  BY DEF IsRun
<1> QED BY <1>5, <1>6, Zenon

LEMMA RunIs ==
  ASSUME NEW A, NEW w \in Seq(A), NEW F, NEW base, NEW p, IsRun(p, F, base, w)
  PROVE  RunOf(F, base, w) = p[Len(w)]
<1> DEFINE q == CHOOSE q : IsRun(q, F, base, w)
<1>1. IsRun(q, F, base, w)
  OBVIOUS
<1>2. q = p
  BY <1>1, RunUnique
<1> QED BY <1>2 DEF RunOf

LEMMA RunExists ==
  ASSUME NEW A, NEW V, NEW F, IsStep(F, A, V), NEW base \in V
  PROVE  \A w \in Seq(A) : \E p : IsRun(p, F, base, w) /\ p \in [0..Len(w) -> V]
<1> DEFINE Has(w) == \E p : IsRun(p, F, base, w) /\ p \in [0..Len(w) -> V]
           S == {w \in Seq(A) : Has(w)}
<1>1. <<>> \in S
  <2> DEFINE p == [k \in 0..0 |-> base]
  <2>1. Len(<<>>) = 0 /\ <<>> \in Seq(A) /\ 1..0 = {}
    OBVIOUS
  <2>2. IsRun(p, F, base, <<>>) /\ p \in [0..0 -> V]
    BY <2>1 DEF IsRun
  <2> QED BY <2>1, <2>2
<1>2. ASSUME NEW w \in Seq(A), NEW x \in A, w \in S PROVE Append(w, x) \in S
  <2> DEFINE n == Len(w)
             a == Append(w, x)
  <2>1. PICK q : IsRun(q, F, base, w) /\ q \in [0..n -> V]
    BY <1>2
  <2>2. /\ n \in Nat /\ a \in Seq(A) /\ Len(a) = n + 1 /\ a[n + 1] = x
        /\ \A k \in 1..n : a[k] = w[k]
    BY AppendProperties
  <2>3. /\ q[0] = base /\ \A k \in 0..n : q[k] \in V
        /\ \A k \in 1..n : q[k] = F[q[k - 1]][w[k]]
    BY <2>1, <2>2 DEF IsRun
  <2> HIDE DEF n, a
  <2> DEFINE p == [k \in 0..(n + 1) |-> IF k = n + 1 THEN F[q[n]][x] ELSE q[k]]
  <2>4. \A k \in 0..n : p[k] = q[k]
    BY <2>2
  <2>5. p[n + 1] = F[q[n]][x] /\ p[0] = base
    BY <2>2, <2>3
  <2>6. q[n] \in V /\ F[q[n]][x] \in V
    BY <2>2, <2>3 DEF IsStep
  <2>7. p \in [0..(n + 1) -> V] /\ p = [k \in 0..(n + 1) |-> p[k]]
    BY <2>2, <2>3, <2>6
  <2> HIDE DEF p
  <2>8. ASSUME NEW k \in 1..(n + 1) PROVE p[k] = F[p[k - 1]][a[k]]
    <3>1. CASE k = n + 1
      <4>1. k - 1 = n /\ n \in 0..n
        BY <3>1, <2>2
      <4> QED BY <3>1, <4>1, <2>2, <2>4, <2>5
    <3>2. CASE k # n + 1
      <4>1. k \in 1..n /\ k \in 0..n /\ k - 1 \in 0..n
        BY <3>2, <2>2
      <4> QED BY <4>1, <2>2, <2>3, <2>4
    <3> QED BY <3>1, <3>2
  <2>9. IsRun(p, F, base, a)
    BY <2>2, <2>5, <2>7, <2>8 DEF IsRun
  <2>10. a \in S
    BY <2>2, <2>7, <2>9
  <2> QED BY <2>10 DEF a
<1>3. \A w \in Seq(A) : w \in S
  <2> HIDE DEF S
  <2> QED BY <1>1, <1>2, SeqInduction
<1> QED BY <1>3

\* What a fold does, element by element.
LEMMA RunFacts ==
  ASSUME NEW A, NEW V, NEW F, IsStep(F, A, V), NEW base \in V
  PROVE  /\ RunOf(F, base, <<>>) = base
         /\ \A w \in Seq(A) : RunOf(F, base, w) \in V
         /\ \A w \in Seq(A), x \in A :
               RunOf(F, base, Append(w, x)) = F[RunOf(F, base, w)][x]
<1>1. RunOf(F, base, <<>>) = base
  <2>1. <<>> \in Seq(A) /\ Len(<<>>) = 0
    OBVIOUS
  <2>2. PICK p : IsRun(p, F, base, <<>>)
    BY <2>1, RunExists
  <2>3. RunOf(F, base, <<>>) = p[Len(<<>>)]
    BY <2>1, <2>2, RunIs
  <2>4. p[0] = base
    BY <2>2 DEF IsRun
  <2> QED BY <2>1, <2>3, <2>4
<1>2. ASSUME NEW w \in Seq(A) PROVE RunOf(F, base, w) \in V
  <2>1. PICK p : IsRun(p, F, base, w) /\ p \in [0..Len(w) -> V]
    BY RunExists
  <2>2. RunOf(F, base, w) = p[Len(w)]
    BY <2>1, RunIs
  <2>3. Len(w) \in 0..Len(w)
    OBVIOUS
  <2> QED BY <2>1, <2>2, <2>3
<1>3. ASSUME NEW w \in Seq(A), NEW x \in A
      PROVE  RunOf(F, base, Append(w, x)) = F[RunOf(F, base, w)][x]
  <2> DEFINE n == Len(w)
             a == Append(w, x)
  <2>1. /\ n \in Nat /\ a \in Seq(A) /\ Len(a) = n + 1 /\ a[n + 1] = x
        /\ \A k \in 1..n : a[k] = w[k]
    BY AppendProperties
  <2>2. PICK p : IsRun(p, F, base, a)
    BY <2>1, RunExists
  <2>3. RunOf(F, base, a) = p[n + 1]
    BY <2>1, <2>2, RunIs
  <2> DEFINE q == [k \in 0..n |-> p[k]]
  <2>4. /\ p[0] = base /\ \A k \in 1..(n + 1) : p[k] = F[p[k - 1]][a[k]]
    BY <2>1, <2>2 DEF IsRun
  <2> HIDE DEF n, a
  <2>5. IsRun(q, F, base, w)
    <3>1. \A k \in 0..n : q[k] = p[k]
      OBVIOUS
    <3>2. q = [k \in 0..n |-> q[k]]
      OBVIOUS
    <3> HIDE DEF q
    <3>3. q[0] = base
      BY <3>1, <2>1, <2>4
    <3>4. ASSUME NEW k \in 1..n PROVE q[k] = F[q[k - 1]][w[k]]
      <4>1. k \in 1..(n + 1) /\ k \in 0..n /\ k - 1 \in 0..n
        BY <2>1
      <4> QED BY <4>1, <3>1, <2>1, <2>4
    <3> QED BY <3>2, <3>3, <3>4 DEF IsRun, n
  <2>6. RunOf(F, base, w) = q[n]
    BY <2>5, RunIs DEF n
  <2>7. q[n] = p[n] /\ p[n + 1] = F[p[n]][x]
    <3>1. n \in 0..n /\ n + 1 \in 1..(n + 1) /\ (n + 1) - 1 = n
      BY <2>1
    <3> QED BY <3>1, <2>1, <2>4
  <2> QED BY <2>3, <2>6, <2>7 DEF a
<1> QED BY <1>1, <1>2, <1>3

\* it solves the equation FoldLeft is defined by.
Solves(it, F, V, base, w) ==
    /\ it = [s \in SUBSET DOMAIN w |-> it[s]]
    /\ it[{}] = base
    /\ \A s \in SUBSET DOMAIN w :
          /\ it[s] \in V
          /\ s # {} => it[s] = F[it[s \ {Max(s)}]][w[Max(s)]]

\* The function MapThenFoldSet defines is such a run.
LEMMA FoldSolution ==
  ASSUME NEW A, NEW V, NEW F, IsStep(F, A, V), NEW base \in V, NEW w \in Seq(A)
  PROVE  \E it : Solves(it, F, V, base, w)
<1> DEFINE n == Len(w)
           st == [i \in 1..n |-> [v \in V |-> F[v][w[i]]]]
<1>1. n \in Nat /\ DOMAIN w = 1..n /\ \A i \in 1..n : w[i] \in A
  OBVIOUS
<1>2. st \in [1..n -> [V -> V]]
  BY <1>1 DEF IsStep
<1>3. PICK it : IsFold(it, n, V, base, st)
  <2> HIDE DEF st, n
  <2> QED BY <1>1, <1>2, FoldExists
<1>4. ASSUME NEW s \in SUBSET (1..n), s # {}
      PROVE  it[s] = F[it[s \ {Max(s)}]][w[Max(s)]]
  <2>1. Max(s) \in 1..n /\ s \ {Max(s)} \in SUBSET (1..n)
    BY <1>1, <1>4, MaxFacts
  <2>2. it[s \ {Max(s)}] \in V
    BY <2>1, <1>3 DEF IsFold
  <2>3. it[s] = st[Max(s)][it[s \ {Max(s)}]]
    BY <1>3, <1>4 DEF IsFold
  <2> QED BY <2>1, <2>2, <2>3
<1>5. it \in [SUBSET (1..n) -> V] /\ it[{}] = base
  BY <1>3 DEF IsFold
<1>6. it = [s \in SUBSET (1..n) |-> it[s]]
  BY <1>5
<1> QED BY <1>1, <1>4, <1>5, <1>6 DEF Solves

\* ... and whatever follows it is the run.
StepsAlong(g, F, V, base, w) ==
    /\ g[{}] = base
    /\ \A s \in SUBSET DOMAIN w : s # {} /\ g[s \ {Max(s)}] \in V =>
            g[s] = F[g[s \ {Max(s)}]][w[Max(s)]]

\* So a fold whose step is F is the run of F.
LEMMA FoldIsRun ==
  ASSUME NEW A, NEW V, NEW F, IsStep(F, A, V), NEW base \in V, NEW w \in Seq(A),
         NEW g, StepsAlong(g, F, V, base, w)
  PROVE  g[DOMAIN w] = RunOf(F, base, w)
<1> DEFINE n == Len(w)
<1>1. n \in Nat /\ DOMAIN w = 1..n
  OBVIOUS
<1>2. PICK p : IsRun(p, F, base, w) /\ p \in [0..n -> V]
  BY RunExists
<1> DEFINE S == {k \in Nat : k <= n => g[1..k] = p[k]}
<1>3. 0 \in S
  <2>1. 1..0 = {}
    OBVIOUS
  <2> QED BY <2>1, <1>2 DEF IsRun, StepsAlong
<1>4. ASSUME NEW k \in Nat, k \in S PROVE k + 1 \in S
  <2> SUFFICES ASSUME k + 1 <= n PROVE g[1..(k + 1)] = p[k + 1]
    OBVIOUS
  <2>1. /\ k \in 0..n /\ k + 1 \in 1..n /\ (k + 1) - 1 = k /\ g[1..k] = p[k]
        /\ 1..(k + 1) \in SUBSET DOMAIN w /\ 1..(k + 1) # {}
    <3>1. k <= n /\ g[1..k] = p[k]
      BY <1>1, <1>4
    <3>2. k + 1 \in 1..(k + 1) /\ 1..(k + 1) \subseteq 1..n
      BY <1>1
    <3> HIDE DEF n
    <3>3. 1..(k + 1) # {} /\ 1..(k + 1) \in SUBSET DOMAIN w
      BY <3>2, <1>1
    <3>4. k \in 0..n /\ k + 1 \in 1..n /\ (k + 1) - 1 = k
      BY <1>1
    <3> QED BY <3>1, <3>3, <3>4
  <2>2. Max(1..(k + 1)) = k + 1 /\ (1..(k + 1)) \ {k + 1} = 1..k
    <3>1. (k + 1) \in Nat /\ k + 1 > 0 /\ (k + 1) - 1 = k
      OBVIOUS
    <3> QED BY <3>1, MaxOfPrefix
  <2>3. p[k] \in V
    BY <1>2, <2>1
  <2>4. g[1..(k + 1)] = F[g[1..k]][w[k + 1]]
    BY <2>1, <2>2, <2>3 DEF StepsAlong
  <2>5. p[k + 1] = F[p[k]][w[k + 1]]
    BY <1>2, <2>1 DEF IsRun
  <2> QED BY <2>1, <2>4, <2>5
<1>5. \A k \in Nat : k \in S
  <2> HIDE DEF S
  <2> QED BY <1>3, <1>4, Induction
<1>6. g[1..n] = p[n]
  <2> HIDE DEF n
  <2> QED BY <1>1, <1>5
<1> QED BY <1>1, <1>2, <1>6, RunIs

-----------------------------------------------------------------------------
(* Sums over finite sets, and sets of numbers laid out in order. *)

\* Sums are added place by place.
LEMMA TotalPlus ==
  ASSUME NEW n \in Nat, NEW u \in [1..n -> Int], NEW v \in [1..n -> Int]
  PROVE  Total([k \in 1..n |-> u[k] + v[k]]) = Total(u) + Total(v)
<1> DEFINE w == [k \in 1..n |-> u[k] + v[k]]
<1>1. /\ u \in Seq(Int) /\ Len(u) = n /\ v \in Seq(Int) /\ Len(v) = n
      /\ w \in Seq(Int) /\ Len(w) = n /\ \A k \in 1..n : w[k] = u[k] + v[k]
  OBVIOUS
<1> HIDE DEF w
<1>2. PICK p : IsSumOf(p, u) /\ Total(u) = p[n]
  BY <1>1, TotalByPrefixes
<1>3. PICK q : IsSumOf(q, v) /\ Total(v) = q[n]
  BY <1>1, TotalByPrefixes
<1> DEFINE r == [k \in 0..n |-> p[k] + q[k]]
<1>4. IsSumOf(r, w)
  <2>1. /\ \A k \in 0..n : p[k] \in Int /\ q[k] \in Int /\ r[k] = p[k] + q[k]
        /\ p[0] = 0 /\ q[0] = 0
        /\ \A k \in 1..n : p[k] = p[k - 1] + u[k] /\ q[k] = q[k - 1] + v[k]
    BY <1>1, <1>2, <1>3 DEF IsSumOf
  <2>2. r \in [0..n -> Int]
    BY <2>1
  <2> HIDE DEF r
  <2>3. r[0] = 0
    BY <2>1
  <2>4. ASSUME NEW k \in 1..n PROVE r[k] = r[k - 1] + w[k]
    <3>1. k \in 0..n /\ k - 1 \in 0..n
      OBVIOUS
    <3>2. u[k] \in Int /\ v[k] \in Int
      OBVIOUS
    <3>3. /\ r[k] = p[k] + q[k] /\ r[k - 1] = p[k - 1] + q[k - 1]
          /\ p[k] = p[k - 1] + u[k] /\ q[k] = q[k - 1] + v[k] /\ w[k] = u[k] + v[k]
          /\ p[k - 1] \in Int /\ q[k - 1] \in Int
      BY <3>1, <2>1, <1>1
    <3> QED BY <3>2, <3>3
  <2> QED BY <2>2, <2>3, <2>4, <1>1 DEF IsSumOf
<1>5. Total(w) = r[n]
  BY <1>1, <1>4, TotalIs
<1>6. r[n] = p[n] + q[n]
  OBVIOUS
<1> QED BY <1>2, <1>3, <1>5, <1>6 DEF w

-----------------------------------------------------------------------------
(* Sums over a finite set. *)

\* h[S] is the sum of p[x] over x in S.
IsSumOver(h, D, p) ==
    /\ h \in [SUBSET D -> Int]
    /\ h[{}] = 0
    /\ \A S \in SUBSET D : \A x \in S : h[S] = p[x] + h[S \ {x}]

\* A sum over a finite set exists, and there is one.
LEMMA SumOverExists ==
  ASSUME NEW D, IsFiniteSet(D), NEW p \in [D -> Int]
  PROVE  \E h : IsSumOver(h, D, p)
<1>0. PICK n \in Nat : ExistsBijection(1..n, D)
  BY FS_NatBijection
<1>1. PICK f : f \in Bijection(1..n, D)
  BY <1>0 DEF ExistsBijection
<1>2. /\ f \in [1..n -> D] /\ \A j, k \in 1..n : f[j] = f[k] => j = k
      /\ \A x \in D : \E j \in 1..n : f[j] = x
  BY <1>1 DEF Bijection, Injection, Surjection, IsInjective
<1> DEFINE w(S) == [k \in 1..n |-> IF f[k] \in S THEN p[f[k]] ELSE 0]
           h == [S \in SUBSET D |-> Total(w(S))]
<1>3. ASSUME NEW S \in SUBSET D
      PROVE  w(S) \in [1..n -> Int] /\ w(S) \in Seq(Int)
  <2>1. \A k \in 1..n : f[k] \in D /\ p[f[k]] \in Int
    BY <1>2
  <2> QED BY <2>1
<1>4. h \in [SUBSET D -> Int]
  <2>1. \A S \in SUBSET D : Total(w(S)) \in Int
    <3> HIDE DEF w
    <3> QED BY <1>3, TotalType
  <2> QED BY <2>1
<1>5. h[{}] = 0
  <2>1. w({}) \in Seq(Int) /\ \A k \in DOMAIN w({}) : w({})[k] = 0
    BY <1>3
  <2>2. Total(w({})) = 0
    <3> HIDE DEF w
    <3> QED BY <2>1, TotalZero
  <2> QED BY <2>2
<1>6. ASSUME NEW S \in SUBSET D, NEW x \in S PROVE h[S] = p[x] + h[S \ {x}]
  <2>1. PICK j \in 1..n : f[j] = x
    BY <1>2
  <2> DEFINE o == [k \in 1..n |-> IF k = j THEN p[x] ELSE 0]
             R == S \ {x}
  <2>2. p[x] \in Int /\ R \in SUBSET D
    OBVIOUS
  <2>3. o \in [1..n -> Int] /\ o \in Seq(Int) /\ DOMAIN o = 1..n
    BY <2>2
  <2>4. \A k \in DOMAIN o : k # j => o[k] = 0
    BY <2>3
  <2>5. Total(o) = p[x]
    <3>1. o[j] = p[x]
      OBVIOUS
    <3> HIDE DEF o
    <3> QED BY <2>3, <2>4, <3>1, TotalOnly
  <2>6. w(S) = [k \in 1..n |-> o[k] + w(R)[k]]
    <3>1. ASSUME NEW k \in 1..n PROVE w(S)[k] = o[k] + w(R)[k]
      <4>1. CASE k = j
        <5>1. f[k] = x /\ f[k] \in S /\ f[k] \notin R
          BY <4>1, <2>1
        <5> QED BY <4>1, <5>1, <2>2
      <4>2. CASE k # j
        <5>1. f[k] # x
          BY <4>2, <2>1, <1>2
        <5>2. w(S)[k] = w(R)[k] /\ w(R)[k] \in Int /\ o[k] = 0
          BY <4>2, <5>1, <2>2, <1>3
        <5> HIDE DEF w, o
        <5> QED BY <5>2
      <4> QED BY <4>1, <4>2
    <3>2. w(S) = [k \in 1..n |-> w(S)[k]]
      OBVIOUS
    <3> HIDE DEF w, o, R
    <3> QED BY <3>1, <3>2
  <2>7. Total(w(S)) = Total(o) + Total(w(R))
    <3>1. w(R) \in [1..n -> Int]
      BY <2>2, <1>3
    <3> HIDE DEF w, o, R
    <3> QED BY <3>1, <2>3, <2>6, TotalPlus
  <2>8. h[S] = Total(w(S)) /\ h[R] = Total(w(R))
    BY <2>2
  <2> HIDE DEF w, h, o
  <2> QED BY <2>5, <2>7, <2>8
<1> HIDE DEF h
<1> QED BY <1>4, <1>5, <1>6 DEF IsSumOver

\* What adds the elements one by one, in any order, is that sum.
\* ... whatever the order in which they are added.
AddsUp(g, D, p) ==
    /\ g[{}] = 0
    /\ \A S \in SUBSET D : S # {} => \E x \in S : g[S] = g[S \ {x}] + p[x]

LEMMA SumOverUnique ==
  ASSUME NEW D, IsFiniteSet(D), NEW p \in [D -> Int], NEW h, IsSumOver(h, D, p),
         NEW g, AddsUp(g, D, p)
  PROVE  \A S \in SUBSET D : g[S] = h[S]
<1> DEFINE T == {n \in Nat : \A S \in SUBSET D : Cardinality(S) = n => g[S] = h[S]}
<1>1. 0 \in T
  <2> SUFFICES ASSUME NEW S \in SUBSET D, Cardinality(S) = 0 PROVE g[S] = h[S]
    OBVIOUS
  <2>1. S = {}
    BY FS_Subset, FS_EmptySet
  <2> QED BY <2>1 DEF IsSumOver, AddsUp
<1>2. ASSUME NEW n \in Nat, n \in T PROVE n + 1 \in T
  <2> SUFFICES ASSUME NEW S \in SUBSET D, Cardinality(S) = n + 1 PROVE g[S] = h[S]
    OBVIOUS
  <2>1. S # {}
    <3>1. S = {} => Cardinality(S) = 0
      BY FS_EmptySet
    <3> QED BY <3>1
  <2>2. PICK x \in S : g[S] = g[S \ {x}] + p[x]
    BY <2>1 DEF AddsUp
  <2>3. IsFiniteSet(S)
    BY FS_Subset
  <2>4. Cardinality(S \ {x}) = n /\ S \ {x} \in SUBSET D
    <3>1. Cardinality(S \ {x}) = Cardinality(S) - 1
      BY <2>3, FS_RemoveElement, Zenon
    <3> QED BY <3>1
  <2>5. g[S \ {x}] = h[S \ {x}]
    BY <2>4, <1>2
  <2>6. h[S] = p[x] + h[S \ {x}] /\ h[S \ {x}] \in Int /\ p[x] \in Int
    BY <2>4 DEF IsSumOver
  <2> QED BY <2>2, <2>5, <2>6
<1>3. \A n \in Nat : n \in T
  <2> HIDE DEF T
  <2> QED BY <1>1, <1>2, Induction
<1> SUFFICES ASSUME NEW S \in SUBSET D PROVE g[S] = h[S]
  OBVIOUS
<1>4. Cardinality(S) \in Nat
  BY FS_Subset, FS_CardinalityType
<1> QED BY <1>3, <1>4

-----------------------------------------------------------------------------
(* A finite set of integers in ascending order. *)

\* A finite set in ascending order.
LEMMA SortedFacts ==
  ASSUME NEW S, S \subseteq Int, IsFiniteSet(S)
  PROVE  /\ Ascending(S) \in Seq(Int) /\ Len(Ascending(S)) = Cardinality(S)
         /\ \A n \in DOMAIN Ascending(S) :
               Ascending(S)[n] \in S /\ Cardinality(UpTo(S, Ascending(S)[n])) = n
         /\ \A k \in S : /\ Cardinality(UpTo(S, k)) \in DOMAIN Ascending(S)
                         /\ Ascending(S)[Cardinality(UpTo(S, k))] = k
         /\ \A m, n \in DOMAIN Ascending(S) : m < n => Ascending(S)[m] < Ascending(S)[n]
<1> DEFINE N == Cardinality(S)
           c == [k \in S |-> Cardinality(UpTo(S, k))]
<1>1. N \in Nat
  BY FS_CardinalityType
<1>2. ASSUME NEW k \in S
      PROVE  IsFiniteSet(UpTo(S, k)) /\ c[k] \in 1..N
  <2>1. UpTo(S, k) \in SUBSET S /\ k \in UpTo(S, k)
    BY DEF UpTo
  <2>2. IsFiniteSet(UpTo(S, k)) /\ Cardinality(UpTo(S, k)) <= N
    BY <2>1, FS_Subset
  <2>3. Cardinality(UpTo(S, k)) \in Nat /\ Cardinality(UpTo(S, k)) # 0
    BY <2>1, <2>2, FS_CardinalityType, FS_EmptySet
  <2>4. c[k] = Cardinality(UpTo(S, k))
    OBVIOUS
  <2> HIDE DEF c, N
  <2> QED BY <1>1, <2>2, <2>3, <2>4
<1>3. ASSUME NEW j \in S, NEW k \in S, j < k PROVE c[j] < c[k]
  <2>1. UpTo(S, j) \in SUBSET UpTo(S, k) /\ k \in UpTo(S, k) /\ k \notin UpTo(S, j)
    <3>1. j \in Int /\ k \in Int
      OBVIOUS
    <3>2. ~(k <= j) /\ \A i \in S : i \in Int /\ (i <= j => i <= k)
      BY <3>1, <1>3
    <3>3. k <= k
      BY <3>1
    <3>4. /\ \A i : i \in UpTo(S, j) <=> i \in S /\ i <= j
          /\ \A i : i \in UpTo(S, k) <=> i \in S /\ i <= k
      BY DEF UpTo
    <3>5. \A i : i \in UpTo(S, j) => i \in UpTo(S, k)
      BY <3>2, <3>4
    <3> QED BY <3>2, <3>3, <3>4, <3>5
  <2>2. /\ Cardinality(UpTo(S, j)) <= Cardinality(UpTo(S, k))
        /\ Cardinality(UpTo(S, j)) # Cardinality(UpTo(S, k))
    BY <2>1, <1>2, FS_Subset
  <2>3. c[j] <= c[k] /\ c[j] # c[k]
    BY <2>2
  <2>4. c[j] \in 1..N /\ c[k] \in 1..N
    BY <1>2
  <2> HIDE DEF c, N
  <2> QED BY <1>1, <2>3, <2>4
<1>4. \A j, k \in S : c[j] = c[k] => j = k
  <2> SUFFICES ASSUME NEW j \in S, NEW k \in S, c[j] = c[k], j # k PROVE FALSE
    OBVIOUS
  <2>1. j < k \/ k < j
    OBVIOUS
  <2>2. c[j] < c[k] \/ c[k] < c[j]
    BY <2>1, <1>3
  <2>3. c[j] \in 1..N /\ c[k] \in 1..N
    BY <1>2
  <2> HIDE DEF c, N
  <2> QED BY <1>1, <2>2, <2>3
<1>5. \A n \in 1..N : \E k \in S : c[k] = n
  <2>1. c \in Injection(S, 1..N)
    BY <1>2, <1>4 DEF Injection, IsInjective
  <2>2. IsFiniteSet(1..N) /\ Cardinality(1..N) = N
    BY <1>1, FS_Interval
  <2>3. c \in Surjection(S, 1..N)
    <3> HIDE DEF c
    <3> QED BY <2>1, <2>2, FS_Injection
  <2> QED BY <2>3 DEF Surjection
<1>6. \A k \in Int : UpTo(S, k) = {j \in S : j <= k}
  BY DEF UpTo
<1>7. ASSUME NEW n \in 1..N PROVE Nth(S, n) \in S /\ c[Nth(S, n)] = n
  <2>1. \E k \in S : Cardinality({j \in S : j <= k}) = n
    BY <1>5, <1>6
  <2>2. Nth(S, n) \in S /\ Cardinality({j \in S : j <= Nth(S, n)}) = n
    BY <2>1 DEF Nth
  <2> QED BY <2>2, <1>6
<1>8. /\ Ascending(S) = [n \in 1..N |-> Nth(S, n)]
      /\ DOMAIN Ascending(S) = 1..N /\ \A n \in 1..N : Ascending(S)[n] = Nth(S, n)
  BY DEF Ascending
<1>9. Ascending(S) \in Seq(Int) /\ Len(Ascending(S)) = N
  <2>1. \A n \in 1..N : Nth(S, n) \in Int
    BY <1>7
  <2> HIDE DEF N
  <2> QED BY <1>1, <1>8, <2>1
<1>10. ASSUME NEW k \in S PROVE Nth(S, c[k]) = k
  <2>1. c[k] \in 1..N
    BY <1>2
  <2>2. Nth(S, c[k]) \in S /\ c[Nth(S, c[k])] = c[k]
    BY <2>1, <1>7
  <2> HIDE DEF c, N
  <2> QED BY <2>2, <1>4
<1>11. ASSUME NEW m \in 1..N, NEW n \in 1..N, m < n PROVE Nth(S, m) < Nth(S, n)
  <2>1. Nth(S, m) \in S /\ Nth(S, n) \in S /\ c[Nth(S, m)] = m /\ c[Nth(S, n)] = n
    BY <1>7
  <2>2. ~(c[Nth(S, n)] < c[Nth(S, m)]) /\ Nth(S, m) # Nth(S, n)
    <3> HIDE DEF c, N
    <3> QED BY <2>1, <1>1, <1>11
  <2>3. ~(Nth(S, n) < Nth(S, m))
    <3> HIDE DEF c, N
    <3> QED BY <2>1, <2>2, <1>3
  <2>4. Nth(S, m) \in Int /\ Nth(S, n) \in Int
    BY <2>1
  <2> QED BY <2>2, <2>3, <2>4
<1>12. \A k \in S : c[k] = Cardinality(UpTo(S, k))
  OBVIOUS
<1> HIDE DEF c, N
<1>13. Len(Ascending(S)) = Cardinality(S)
  BY <1>9 DEF N
<1>14. /\ \A n \in 1..N : Ascending(S)[n] \in S /\ Cardinality(UpTo(S, Ascending(S)[n])) = n
       /\ \A k \in S : /\ Cardinality(UpTo(S, k)) \in 1..N
                       /\ Ascending(S)[Cardinality(UpTo(S, k))] = k
  BY <1>2, <1>7, <1>8, <1>10, <1>12
<1>15. \A m, n \in 1..N : m < n => Ascending(S)[m] < Ascending(S)[n]
  BY <1>8, <1>11
<1> QED BY <1>8, <1>9, <1>13, <1>14, <1>15

-----------------------------------------------------------------------------
(* The books: what one fill does, and the books after a list of fills. *)

BooksRec == [pos: PosRec, openRealized: Int, trades: Seq(Int)]

\* A quotient of a fill's value is a price: Extend divides by a size that is
\* not zero, for what it adds has the sign of what was there.
LEMMA QuotientIsInt ==
  ASSUME NEW a \in Int, NEW b \in Nat, b > 0
  PROVE  Quotient(a, b) \in Int
<1>1. a \div b \in Int /\ (-a) \div b \in Int
  OBVIOUS
<1> QED BY <1>1 DEF Quotient

LEMMA SignedFacts ==
  ASSUME NEW f \in FillRec
  PROVE  /\ f.px \in Int /\ f.qty \in Nat /\ f.fee \in Nat
         /\ Signed(f) \in Int /\ AbsQty(Signed(f)) = f.qty
         /\ Signed(f) = f.qty \/ Signed(f) = -f.qty
<1>1. f.px \in Int /\ f.qty \in Nat /\ f.fee \in Nat
  BY DEF FillRec
<1> QED BY <1>1 DEF Signed, AbsQty

\* What one fill leaves of a position.
LEMMA ApplyFacts ==
  ASSUME NEW p \in PosRec, NEW f \in FillRec
  PROVE  /\ Apply(p, f) \in PosRec
         /\ f.qty = 0 => Apply(p, f) = p
         /\ f.qty > 0 /\ p.qty = 0 => Apply(p, f).qty # 0
         /\ f.qty > 0 /\ SameWay(p.qty, Signed(f)) => SameWay(p.qty, Apply(p, f).qty)
                                                   /\ AbsQty(Apply(p, f).qty) >= AbsQty(p.qty)
         /\ f.qty > 0 /\ p.qty # 0 /\ ~SameWay(p.qty, Signed(f)) =>
               ~SameWay(p.qty, Apply(p, f).qty)
<1>1. p.qty \in Int /\ p.avgPx \in Int /\ p.realized \in Int
  BY DEF PosRec
<1>2. /\ f.px \in Int /\ f.qty \in Nat /\ f.fee \in Nat /\ Signed(f) \in Int
      /\ Signed(f) = f.qty \/ Signed(f) = -f.qty
  BY SignedFacts
<1>3. CASE f.qty = 0
  BY <1>3 DEF Apply, SameWay
<1>4. CASE f.qty > 0 /\ (p.qty = 0 \/ SameWay(p.qty, Signed(f)))
  <2> DEFINE n == p.qty + Signed(f)
             v == p.avgPx * AbsQty(p.qty) + f.px * f.qty
  <2>1. n \in Int /\ n # 0 /\ AbsQty(n) \in Nat /\ AbsQty(n) > 0
    <3>1. n \in Int /\ n # 0
      BY <1>1, <1>2, <1>4 DEF SameWay
    <3> HIDE DEF n
    <3> QED BY <3>1 DEF AbsQty
  <2>2. v \in Int
    <3>1. AbsQty(p.qty) \in Int
      BY <1>1 DEF AbsQty
    <3>2. p.avgPx * AbsQty(p.qty) \in Int /\ f.px * f.qty \in Int
      BY <1>1, <1>2, <3>1
    <3> HIDE DEF v
    <3> QED BY <3>2 DEF v
  <2>3. Apply(p, f) = [qty |-> n, avgPx |-> Quotient(v, AbsQty(n)), realized |-> p.realized - f.fee]
    BY <1>2, <1>4 DEF Apply, Extend
  <2>4. SameWay(p.qty, Signed(f)) => SameWay(p.qty, n) /\ AbsQty(n) >= AbsQty(p.qty)
    BY <1>1, <1>2, <1>4 DEF SameWay, AbsQty
  <2> HIDE DEF n, v
  <2>5. Quotient(v, AbsQty(n)) \in Int
    BY <2>1, <2>2, QuotientIsInt
  <2>6. Apply(p, f) \in PosRec /\ Apply(p, f).qty = n
    BY <1>1, <1>2, <2>1, <2>3, <2>5 DEF PosRec
  <2> QED BY <1>4, <2>1, <2>4, <2>6
<1>5. CASE f.qty > 0 /\ p.qty # 0 /\ ~SameWay(p.qty, Signed(f))
  <2> DEFINE closed == IF f.qty > AbsQty(p.qty) THEN AbsQty(p.qty) ELSE f.qty
             ticks  == IF p.qty < 0 THEN p.avgPx - f.px ELSE f.px - p.avgPx
             remain == f.qty - closed
             n      == IF Signed(f) > 0 THEN remain ELSE -remain
  <2>1. Apply(p, f) = [qty |-> n, avgPx |-> IF remain = 0 THEN 0 ELSE f.px,
                       realized |-> p.realized - f.fee + ticks * closed * CentsPerTick]
    BY <1>2, <1>5 DEF Apply, Close
  <2>2. closed \in Int /\ ticks \in Int /\ remain \in Nat /\ n \in Int
    BY <1>1, <1>2 DEF AbsQty
  <2>3. ~SameWay(p.qty, n)
    BY <1>1, <1>2, <1>5 DEF SameWay, AbsQty
  <2> HIDE DEF closed, ticks, remain, n
  <2>4. ticks * closed * CentsPerTick \in Int
    <3>1. ticks * closed \in Int
      BY <2>2
    <3> DEFINE tc == ticks * closed
    <3> HIDE DEF tc
    <3>2. tc \in Int /\ CentsPerTick \in Nat
      BY <3>1, PositionAssumption DEF tc
    <3>3. tc * CentsPerTick \in Int
      BY <3>2
    <3> QED BY <3>3 DEF tc
  <2>5. Apply(p, f) \in PosRec /\ Apply(p, f).qty = n
    <3> DEFINE gain == ticks * closed * CentsPerTick
    <3> HIDE DEF gain
    <3>1. p.realized - f.fee + gain \in Int
      BY <1>1, <1>2, <2>4 DEF gain
    <3> QED BY <1>2, <2>1, <2>2, <3>1 DEF PosRec, gain
  <2> QED BY <1>5, <2>3, <2>5
<1> QED BY <1>2, <1>3, <1>4, <1>5

\* What the blotter has counted: with no position open, all of it.
Counted(b) == Total(b.trades) = IF b.pos.qty = 0 THEN b.pos.realized ELSE b.openRealized

LEMMA BookFacts ==
  ASSUME NEW b \in BooksRec, NEW f \in FillRec
  PROVE  Book(b, f) \in BooksRec /\ Book(b, f).pos = Apply(b.pos, f)
         /\ (Counted(b) => Counted(Book(b, f)))
<1> DEFINE after == Apply(b.pos, f)
           note == NoteTrade(b, after)
           was == b.pos.qty
           is  == after.qty
           total == after.realized - b.openRealized
<1>1. /\ b.pos \in PosRec /\ b.openRealized \in Int /\ b.trades \in Seq(Int)
      /\ b = [pos |-> b.pos, openRealized |-> b.openRealized, trades |-> b.trades]
  BY DEF BooksRec
<1>2. after \in PosRec
  BY <1>1, ApplyFacts
<1>3. was \in Int /\ is \in Int /\ after.realized \in Int /\ b.pos.realized \in Int /\ total \in Int
  BY <1>1, <1>2 DEF PosRec
<1>4. f.qty = 0 \/ f.qty > 0
  BY SignedFacts
<1>5. /\ f.qty = 0 => after = b.pos
      /\ f.qty > 0 /\ was = 0 => is # 0
      /\ f.qty > 0 /\ SameWay(was, Signed(f)) => SameWay(was, is) /\ AbsQty(is) >= AbsQty(was)
      /\ f.qty > 0 /\ was # 0 /\ ~SameWay(was, Signed(f)) => ~SameWay(was, is)
  BY <1>1, ApplyFacts
<1>6. Book(b, f) = [note EXCEPT !.pos = after]
  BY DEF Book
<1> HIDE DEF after, note
<1>7. CASE was = 0 /\ is # 0
  <2>1. note = [b EXCEPT !.openRealized = b.pos.realized]
    BY <1>7 DEF NoteTrade, note
  <2>2. Book(b, f) = [pos |-> after, openRealized |-> b.pos.realized, trades |-> b.trades]
    BY <1>1, <1>6, <2>1
  <2> QED BY <1>1, <1>2, <1>3, <1>7, <2>2 DEF BooksRec, Counted, after
<1>8. CASE was # 0 /\ is = 0
  <2>1. note = [b EXCEPT !.trades = Append(@, total)]
    BY <1>3, <1>8 DEF NoteTrade, note, SameWay
  <2>2. Book(b, f) = [pos |-> after, openRealized |-> b.openRealized, trades |-> Append(b.trades, total)]
    BY <1>1, <1>6, <2>1
  <2>3. Total(Append(b.trades, total)) = Total(b.trades) + total /\ Append(b.trades, total) \in Seq(Int)
    BY <1>1, <1>3, TotalAppend
  <2>4. Book(b, f) \in BooksRec
    BY <1>1, <1>2, <2>2, <2>3 DEF BooksRec
  <2>5. Counted(b) => Counted(Book(b, f))
    BY <1>1, <1>3, <1>8, <2>2, <2>3 DEF Counted
  <2> QED BY <2>2, <2>4, <2>5 DEF after
<1>9. CASE was # 0 /\ is # 0 /\ ~SameWay(was, is)
  <2>1. note = [b EXCEPT !.trades = Append(@, total), !.openRealized = after.realized]
    BY <1>9 DEF NoteTrade, note
  <2>2. Book(b, f) = [pos |-> after, openRealized |-> after.realized, trades |-> Append(b.trades, total)]
    BY <1>1, <1>6, <2>1
  <2>3. Total(Append(b.trades, total)) = Total(b.trades) + total /\ Append(b.trades, total) \in Seq(Int)
    BY <1>1, <1>3, TotalAppend
  <2>4. Book(b, f) \in BooksRec
    BY <1>1, <1>2, <1>3, <2>2, <2>3 DEF BooksRec
  <2>5. Counted(b) => Counted(Book(b, f))
    BY <1>1, <1>3, <1>9, <2>2, <2>3 DEF Counted
  <2> QED BY <2>2, <2>4, <2>5 DEF after
<1>10. CASE (was = 0 /\ is = 0) \/ (was # 0 /\ is # 0 /\ SameWay(was, is))
  <2>1. f.qty > 0 => ~(AbsQty(is) < AbsQty(was))
    <3>1. AbsQty(is) \in Int /\ AbsQty(was) \in Int
      BY <1>3 DEF AbsQty
    <3> QED BY <1>3, <1>5, <1>10, <3>1
  <2>2. f.qty = 0 => is = was
    BY <1>5
  <2>3. ~(AbsQty(is) < AbsQty(was))
    BY <1>3, <1>4, <2>1, <2>2 DEF AbsQty
  <2>4. note = b
    BY <1>3, <1>10, <2>3 DEF NoteTrade, note, SameWay
  <2>5. Book(b, f) = [pos |-> after, openRealized |-> b.openRealized, trades |-> b.trades]
    BY <1>1, <1>6, <2>4
  <2>6. was = 0 => after = b.pos
    BY <1>4, <1>5, <1>10
  <2> QED BY <1>1, <1>2, <1>10, <2>5, <2>6 DEF BooksRec, Counted, after
<1> QED BY <1>7, <1>8, <1>9, <1>10

LEMMA EmptyBooksFacts == EmptyBooks \in BooksRec /\ Counted(EmptyBooks)
<1>1. <<>> \in Seq(Int)
  OBVIOUS
<1>2. EmptyBooks \in BooksRec
  BY <1>1 DEF EmptyBooks, Flat, BooksRec, PosRec
<1>3. Counted(EmptyBooks)
  BY TotalEmpty DEF EmptyBooks, Flat, Counted
<1> QED BY <1>2, <1>3

-----------------------------------------------------------------------------
(* The books after a list of fills, fill by fill. *)

\* p[k] is the books after the first k of them.
IsRunOf(p, fills) ==
    /\ p \in [0..Len(fills) -> BooksRec]
    /\ p[0] = EmptyBooks
    /\ \A k \in 1..Len(fills) : p[k] = Book(p[k - 1], fills[k])

LEMMA BooksByPrefixes ==
  ASSUME NEW w \in Seq(FillRec)
  PROVE  \E p : IsRunOf(p, w) /\ BooksAfter(w) = p[Len(w)]
<1> DEFINE n == Len(w)
           st == [i \in 1..n |-> [v \in BooksRec |-> Book(v, w[i])]]
           Fix(it) == it = [s \in SUBSET DOMAIN w |->
                          IF s = {} THEN EmptyBooks ELSE LET x == Max(s) IN Book(it[s \ {x}], w[x])]
<1>1. n \in Nat /\ DOMAIN w = 1..n /\ \A k \in 1..n : w[k] \in FillRec
  OBVIOUS
<1>a. EmptyBooks \in BooksRec /\ \A b \in BooksRec, f \in FillRec : Book(b, f) \in BooksRec
  BY EmptyBooksFacts, BookFacts
<1>2. \E it : Fix(it)
  <2>1. st \in [1..n -> [BooksRec -> BooksRec]]
    BY <1>1, <1>a
  <2>2. PICK it : IsFold(it, n, BooksRec, EmptyBooks, st)
    <3> HIDE DEF st, n
    <3> QED BY <1>1, <1>a, <2>1, FoldExists, Zenon
  <2>3. ASSUME NEW s \in SUBSET (1..n)
        PROVE  it[s] = IF s = {} THEN EmptyBooks ELSE Book(it[s \ {Max(s)}], w[Max(s)])
    <3>1. s # {} => Max(s) \in 1..n
      BY <1>1, MaxFacts
    <3>2. s \ {Max(s)} \in SUBSET (1..n)
      OBVIOUS
    <3> QED BY <2>2, <3>1, <3>2 DEF IsFold
  <2>4. it = [s \in SUBSET (1..n) |-> it[s]]
    BY <2>2 DEF IsFold
  <2> QED BY <1>1, <2>3, <2>4
<1>3. Fix(CHOOSE it : Fix(it))
  <2> HIDE DEF Fix
  <2> QED BY <1>2, Zenon
<1> DEFINE it == CHOOSE it : Fix(it)
<1>4. BooksAfter(w) = it[DOMAIN w]
  BY DEF BooksAfter, FoldLeft, MapThenFoldSet
<1> DEFINE p == [k \in 0..n |-> it[1..k]]
<1>5. it = [s \in SUBSET DOMAIN w |->
              IF s = {} THEN EmptyBooks ELSE LET x == Max(s) IN Book(it[s \ {x}], w[x])]
  BY <1>3
<1> HIDE DEF it
<1>6. \A k \in 0..n : p[k] = it[1..k]
  OBVIOUS
<1>7. p[0] = EmptyBooks
  <2>1. 1..0 = {} /\ 1..0 \in SUBSET DOMAIN w
    OBVIOUS
  <2>2. it[1..0] = EmptyBooks
    BY <2>1, <1>5
  <2> QED BY <2>2, <1>6, <1>1
<1>8. ASSUME NEW k \in 1..n PROVE p[k] = Book(p[k - 1], w[k])
  <2> HIDE DEF n
  <2>1. 1..k \in SUBSET DOMAIN w /\ 1..k # {}
    <3>1. 1..k \subseteq 1..n /\ k \in 1..k
      BY <1>1
    <3> QED BY <3>1, <1>1
  <2>2. Max(1..k) = k /\ (1..k) \ {k} = 1..(k - 1)
    BY <1>1, MaxOfPrefix
  <2>3. it[1..k] = Book(it[(1..k) \ {Max(1..k)}], w[Max(1..k)])
    BY <1>5, <2>1
  <2>4. it[1..k] = Book(it[1..(k - 1)], w[k])
    BY <2>2, <2>3
  <2> HIDE DEF p
  <2>5. k \in 0..n /\ k - 1 \in 0..n
    BY <1>1
  <2> QED BY <2>4, <2>5, <1>6
<1>9. \A k \in 0..n : p[k] \in BooksRec
  <2> DEFINE S == {k \in Nat : k <= n => p[k] \in BooksRec}
  <2> HIDE DEF p
  <2>1. 0 \in S
    BY <1>7, <1>a
  <2>2. ASSUME NEW k \in Nat, k \in S PROVE k + 1 \in S
    <3> SUFFICES ASSUME k + 1 <= n PROVE p[k + 1] \in BooksRec
      OBVIOUS
    <3>1. k + 1 \in 1..n /\ (k + 1) - 1 = k /\ p[k] \in BooksRec
      BY <1>1, <2>2
    <3>2. p[k + 1] = Book(p[(k + 1) - 1], w[k + 1])
      BY <3>1, <1>8
    <3> QED BY <1>1, <1>a, <3>1, <3>2
  <2>3. \A k \in Nat : k \in S
    <3> HIDE DEF S
    <3> QED BY <2>1, <2>2, Induction
  <2> QED BY <2>3, <1>1
<1>10. IsRunOf(p, w)
  BY <1>7, <1>8, <1>9 DEF IsRunOf
<1>11. BooksAfter(w) = p[n]
  BY <1>1, <1>4, <1>6
<1> QED BY <1>10, <1>11

LEMMA BooksAreRun ==
  ASSUME NEW w \in Seq(FillRec), NEW p, IsRunOf(p, w)
  PROVE  BooksAfter(w) = p[Len(w)] /\ BooksAfter(w) \in BooksRec
<1> DEFINE n == Len(w)
<1>1. PICK q : IsRunOf(q, w) /\ BooksAfter(w) = q[n]
  BY BooksByPrefixes
<1>2. n \in Nat
  OBVIOUS
<1>3. /\ p[0] = q[0] /\ q \in [0..n -> BooksRec]
      /\ \A k \in 1..n : p[k] = Book(p[k - 1], w[k]) /\ q[k] = Book(q[k - 1], w[k])
  BY <1>1 DEF IsRunOf
<1> HIDE DEF n
<1> DEFINE S == {k \in Nat : k <= n => p[k] = q[k]}
<1>4. 0 \in S
  BY <1>3
<1>5. ASSUME NEW k \in Nat, k \in S PROVE k + 1 \in S
  <2> SUFFICES ASSUME k + 1 <= n PROVE p[k + 1] = q[k + 1]
    OBVIOUS
  <2>1. k + 1 \in 1..n /\ (k + 1) - 1 = k /\ p[k] = q[k]
    BY <1>2, <1>5
  <2>2. /\ p[k + 1] = Book(p[(k + 1) - 1], w[k + 1])
        /\ q[k + 1] = Book(q[(k + 1) - 1], w[k + 1])
    BY <2>1, <1>3
  <2> QED BY <2>1, <2>2
<1>6. \A k \in Nat : k \in S
  <2> HIDE DEF S
  <2> QED BY <1>4, <1>5, Induction
<1>7. p[n] = q[n] /\ q[n] \in BooksRec
  BY <1>2, <1>3, <1>6
<1> QED BY <1>1, <1>7 DEF n

LEMMA BooksAfterNone == BooksAfter(<<>>) = EmptyBooks
<1>1. PICK p : IsRunOf(p, <<>>) /\ BooksAfter(<<>>) = p[Len(<<>>)]
  <2>1. <<>> \in Seq(FillRec)
    OBVIOUS
  <2> QED BY <2>1, BooksByPrefixes
<1>2. Len(<<>>) = 0
  OBVIOUS
<1> QED BY <1>1, <1>2 DEF IsRunOf

\* One more fill: the books of the fills before it, taken through it.
LEMMA BooksAfterAppend ==
  ASSUME NEW w \in Seq(FillRec), NEW f \in FillRec
  PROVE  /\ BooksAfter(w) \in BooksRec
         /\ BooksAfter(Append(w, f)) = Book(BooksAfter(w), f)
<1> DEFINE n == Len(w)
           a == Append(w, f)
<1>1. PICK q : IsRunOf(q, w) /\ BooksAfter(w) = q[n]
  BY BooksByPrefixes
<1>2. /\ n \in Nat /\ a \in Seq(FillRec) /\ Len(a) = n + 1 /\ a[n + 1] = f
      /\ \A k \in 1..n : a[k] = w[k]
  BY AppendProperties
<1>3. /\ q[0] = EmptyBooks /\ q \in [0..n -> BooksRec]
      /\ \A k \in 1..n : q[k] = Book(q[k - 1], w[k])
  BY <1>1 DEF IsRunOf
<1> HIDE DEF n, a
<1>b. q[n] \in BooksRec /\ Book(q[n], f) \in BooksRec
  <2>1. q[n] \in BooksRec
    BY <1>2, <1>3
  <2> QED BY <2>1, BookFacts
<1> DEFINE p == [k \in 0..(n + 1) |-> IF k = n + 1 THEN Book(q[n], f) ELSE q[k]]
<1>4. \A k \in 0..n : p[k] = q[k]
  BY <1>2
<1>5. p[n + 1] = Book(q[n], f) /\ p[0] = EmptyBooks
  BY <1>2, <1>3
<1>6. p \in [0..(n + 1) -> BooksRec]
  BY <1>2, <1>3, <1>b
<1> HIDE DEF p
<1>7. ASSUME NEW k \in 1..(n + 1) PROVE p[k] = Book(p[k - 1], a[k])
  <2>1. CASE k = n + 1
    <3>1. k - 1 = n /\ n \in 0..n
      BY <2>1, <1>2
    <3> QED BY <2>1, <3>1, <1>2, <1>4, <1>5
  <2>2. CASE k # n + 1
    <3>1. k \in 1..n /\ k \in 0..n /\ k - 1 \in 0..n
      BY <2>2, <1>2
    <3> QED BY <3>1, <1>2, <1>3, <1>4
  <2> QED BY <2>1, <2>2
<1>8. IsRunOf(p, a)
  BY <1>2, <1>5, <1>6, <1>7 DEF IsRunOf
<1>9. BooksAfter(a) = p[n + 1]
  BY <1>2, <1>8, BooksAreRun
<1> QED BY <1>1, <1>5, <1>9, <1>b DEF n, a
=============================================================================
