------------------------- MODULE RelayInventoryProofs -------------------------
(***************************************************************************)
(* The branches that the packet runtime makes of any inventory: each visits *)
(* active drones only, none of them twice, and none is empty.              *)
(***************************************************************************)
EXTENDS RelayInventory, FiniteSetTheorems, SequenceTheorems, WellFoundedInduction, TLAPS

-----------------------------------------------------------------------------
(* Sorted sets and the positions of a sequence.                              *)

LEMMA LeastExists ==
  ASSUME NEW S \in SUBSET Nat, S # {}
  PROVE  \E i \in S : \A j \in S : i <= j
<1>1. \E i \in S : \A j \in S : <<j, i>> \notin OpToRel(<, Nat)
  BY WFMin, NatLessThanWellFounded
<1>2. \A i, j \in S : <<j, i>> \notin OpToRel(<, Nat) => i <= j
  BY DEF OpToRel
<1>. QED
  BY <1>1, <1>2

\* A function on 1..n is a sequence of length n.
LEMMA IsSequence ==
  ASSUME NEW n \in Nat, NEW S, NEW f \in [1..n -> S]
  PROVE  f \in Seq(S) /\ Len(f) = n /\ DOMAIN f = 1..n
  OBVIOUS

LEMMA FinitePositions ==
  ASSUME NEW n \in Nat, NEW S \in SUBSET (1..n)
  PROVE  IsFiniteSet(S) /\ Cardinality(S) \in Nat /\ Cardinality(S) <= n
<1>1. IsFiniteSet(1..n) /\ Cardinality(1..n) = n
  BY FS_Interval
<1>2. IsFiniteSet(S) /\ Cardinality(S) <= Cardinality(1..n)
  BY <1>1, FS_Subset
<1>. QED
  BY <1>1, <1>2, FS_CardinalityType

Increasing(seq, n) == \A i, j \in 1..n : i < j => seq[i] < seq[j]

\* Every set of positions can be put in order.
LEMMA OrderExists ==
  ASSUME NEW n \in Nat, NEW S \in SUBSET (1..n)
  PROVE  \E seq \in [1..Cardinality(S) -> S] : Increasing(seq, Cardinality(S))
<1>. DEFINE Orderly(m) == \A T \in SUBSET (1..m) :
                            \E seq \in [1..Cardinality(T) -> T] : Increasing(seq, Cardinality(T))
            bad == {m \in Nat : ~Orderly(m)}
<1>1. SUFFICES bad = {}
  BY <1>1
<1>2. SUFFICES ASSUME bad # {} PROVE FALSE
  OBVIOUS
<1>3. PICK m \in Nat : ~Orderly(m) /\ \A j \in Nat : ~Orderly(j) => m <= j
  <2>1. bad \in SUBSET Nat
    OBVIOUS
  <2>2. \E i \in bad : \A j \in bad : i <= j
    <3>. HIDE DEF bad
    <3>. QED
      BY <1>2, <2>1, LeastExists
  <2>. QED
    BY <2>2
<1>4. PICK T \in SUBSET (1..m) :
        ~ \E seq \in [1..Cardinality(T) -> T] : Increasing(seq, Cardinality(T))
  BY <1>3
<1>5. IsFiniteSet(T) /\ Cardinality(T) \in Nat
  BY FinitePositions
<1>6. T # {}
  <2>1. SUFFICES ASSUME T = {} PROVE FALSE
    OBVIOUS
  <2>2. Cardinality(T) = 0
    BY <2>1, FS_EmptySet
  <2>3. [i \in 1..0 |-> i] \in [1..0 -> T] /\ Increasing([i \in 1..0 |-> i], 0)
    BY DEF Increasing
  <2>. QED
    BY <1>4, <2>2, <2>3
<1>7. m # 0 /\ m - 1 \in Nat
  <2>1. PICK x \in T : TRUE
    BY <1>6
  <2>2. x \in 1..m
    OBVIOUS
  <2>3. m \in Nat
    OBVIOUS
  <2>. HIDE DEF Orderly
  <2>. QED
    BY <2>2, <2>3
<1>8. Orderly(m - 1)
  <2>. HIDE DEF Orderly
  <2>. QED
    BY <1>3, <1>7
<1>9. CASE m \notin T
  <2>1. T \in SUBSET (1..(m - 1))
    BY <1>3, <1>9
  <2>. QED
    BY <1>4, <1>8, <2>1
<1>10. CASE m \in T
  <2>. DEFINE U == T \ {m}
              k == Cardinality(U)
  <2>1. U \in SUBSET (1..(m - 1))
    BY <1>3
  <2>2. k \in Nat /\ Cardinality(T) = k + 1
    <3>1. k \in Nat
      BY <1>7, <2>1, FinitePositions
    <3>2. k = Cardinality(T) - 1
      BY <1>5, <1>10, FS_RemoveElement
    <3>. QED
      BY <1>5, <3>1, <3>2
  <2>3. PICK seq \in [1..k -> U] : Increasing(seq, k)
    BY <1>8, <2>1
  <2>. DEFINE longer == [i \in 1..(k + 1) |-> IF i = k + 1 THEN m ELSE seq[i]]
  <2>. HIDE DEF k
  <2>4. longer \in [1..(k + 1) -> T]
    BY <1>10, <2>2, <2>3
  <2>5. Increasing(longer, k + 1)
    <3>. SUFFICES ASSUME NEW i \in 1..(k + 1), NEW j \in 1..(k + 1), i < j
                  PROVE  longer[i] < longer[j]
      BY DEF Increasing
    <3>1. i \in 1..k /\ longer[i] = seq[i] /\ seq[i] \in U /\ seq[i] < m
      <4>1. i \in 1..k
        BY <2>2
      <4>2. seq[i] \in U
        BY <2>3, <4>1
      <4>3. seq[i] \in 1..(m - 1)
        BY <2>1, <4>2
      <4>4. longer[i] = seq[i]
        BY <2>2, <4>1
      <4>. QED
        BY <1>3, <4>1, <4>2, <4>3, <4>4
    <3>2. CASE j = k + 1
      BY <3>1, <3>2
    <3>3. CASE j # k + 1
      <4>1. j \in 1..k /\ longer[j] = seq[j]
        BY <2>2, <3>3
      <4>. QED
        BY <2>3, <3>1, <4>1 DEF Increasing
    <3>. QED
      BY <3>2, <3>3
  <2>. QED
    BY <1>4, <2>2, <2>4, <2>5
<1>. QED
  BY <1>9, <1>10

LEMMA InOrderFacts ==
  ASSUME NEW n \in Nat, NEW S \in SUBSET (1..n)
  PROVE  /\ InOrder(S) \in [1..Cardinality(S) -> S]
         /\ \A i, j \in 1..Cardinality(S) : i # j => InOrder(S)[i] # InOrder(S)[j]
         /\ Cardinality(S) \in Nat /\ Cardinality(S) <= n
<1>1. Cardinality(S) \in Nat /\ Cardinality(S) <= n
  BY FinitePositions
<1>2. \E seq \in [1..Cardinality(S) -> S] :
        \A i, j \in 1..Cardinality(S) : i < j => seq[i] < seq[j]
  BY OrderExists DEF Increasing
<1>3. /\ InOrder(S) \in [1..Cardinality(S) -> S]
      /\ \A i, j \in 1..Cardinality(S) : i < j => InOrder(S)[i] < InOrder(S)[j]
  BY <1>2 DEF InOrder
<1>4. ASSUME NEW i \in 1..Cardinality(S), NEW j \in 1..Cardinality(S), i # j
      PROVE  InOrder(S)[i] # InOrder(S)[j]
  <2>1. InOrder(S)[i] \in Nat /\ InOrder(S)[j] \in Nat
    <3>1. InOrder(S)[i] \in S /\ InOrder(S)[j] \in S
      BY <1>3
    <3>2. \A x \in S : x \in Nat
      OBVIOUS
    <3>. QED
      BY <3>1, <3>2
  <2>2. i < j \/ j < i
    BY <1>1, <1>4
  <2>. QED
    BY <1>3, <2>1, <2>2
<1>. QED
  BY <1>1, <1>3, <1>4

LEMMA KeptFacts ==
  ASSUME NEW T, NEW seq \in Seq(T), NEW P \in SUBSET DOMAIN seq
  PROVE  /\ Len(Kept(seq, P)) = Cardinality(P)
         /\ Cardinality(P) \in Nat /\ Cardinality(P) <= Len(seq)
         /\ \A i \in 1..Cardinality(P) : InOrder(P)[i] \in P /\ Kept(seq, P)[i] = seq[InOrder(P)[i]]
         /\ \A i, j \in 1..Cardinality(P) : i # j => InOrder(P)[i] # InOrder(P)[j]
<1>1. Len(seq) \in Nat /\ P \in SUBSET (1..Len(seq))
  OBVIOUS
<1>2. /\ InOrder(P) \in [1..Cardinality(P) -> P]
      /\ \A i, j \in 1..Cardinality(P) : i # j => InOrder(P)[i] # InOrder(P)[j]
      /\ Cardinality(P) \in Nat /\ Cardinality(P) <= Len(seq)
  BY <1>1, InOrderFacts
<1>3. Kept(seq, P) \in [1..Cardinality(P) -> T]
  <2>1. \A i \in 1..Cardinality(P) : InOrder(P)[i] \in 1..Len(seq)
    BY <1>1, <1>2
  <2>. QED
    BY <1>1, <1>2, <2>1 DEF Kept
<1>4. Len(Kept(seq, P)) = Cardinality(P)
  BY <1>2, <1>3, IsSequence
<1>5. \A i \in 1..Cardinality(P) : InOrder(P)[i] \in P /\ Kept(seq, P)[i] = seq[InOrder(P)[i]]
  BY <1>2 DEF Kept
<1>. QED
  BY <1>2, <1>4, <1>5

-----------------------------------------------------------------------------
(* Rows of a configuration, and rows dealt.                                  *)

\* No sequence without repetition is longer than the set it runs over.
LEMMA LengthBound ==
  ASSUME NEW A, IsFiniteSet(A), NEW n \in Nat, NEW f \in [1..n -> A],
         \A i, j \in 1..n : i # j => f[i] # f[j]
  PROVE  n <= Cardinality(A)
<1>1. f \in Injection(1..n, A)
  BY DEF Injection, IsInjective
<1>2. Cardinality(1..n) <= Cardinality(A)
  BY <1>1, FS_Injection
<1>3. Cardinality(1..n) = n
  BY FS_Interval
<1>. QED
  BY <1>2, <1>3

LEMMA KeptIn ==
  ASSUME NEW T, NEW seq \in Seq(T), NEW P \in SUBSET DOMAIN seq, NEW S, \A i \in P : seq[i] \in S
  PROVE  Kept(seq, P) \in Seq(S)
<1>. DEFINE n == Cardinality(P)
            o == InOrder(P)
<1>1. /\ n \in Nat /\ \A i \in 1..n : o[i] \in P
  BY KeptFacts
<1>2. Kept(seq, P) = [i \in 1..n |-> seq[o[i]]]
  BY DEF Kept
<1>. HIDE DEF n, o
<1>3. Kept(seq, P) \in [1..n -> S]
  BY <1>1, <1>2
<1>. QED
  BY <1>1, <1>3, IsSequence

\* A sequence without repetition.
Simple(seq) == \A i, j \in 1..Len(seq) : i # j => seq[i] # seq[j]

LEMMA DealtFacts ==
  ASSUME NEW T, NEW seq \in Seq(T), NEW n \in Nat, n # 0, NEW k \in 1..n
  PROVE  /\ DOMAIN Dealt(seq, n) = 1..n
         /\ Dealt(seq, n)[k] \in Seq(T)
         /\ Len(Dealt(seq, n)[k]) <= Len(seq)
         /\ k <= Len(seq) => Len(Dealt(seq, n)[k]) >= 1
         /\ Simple(seq) => Simple(Dealt(seq, n)[k])
<1>. DEFINE m == (Len(seq) - k) \div n + 1
            row == [i \in 1..m |-> seq[(i - 1) * n + k]]
<1>1. Dealt(seq, n)[k] = row /\ DOMAIN Dealt(seq, n) = 1..n
  BY DEF Dealt
<1>2. Len(seq) \in Nat
  OBVIOUS
<1>3. m \in Nat /\ (k <= Len(seq) => m >= 1)
  BY <1>2
<1>4. \A i \in 1..m : (i - 1) * n + k \in 1..Len(seq)
  BY <1>2
<1>5. \A i, j \in 1..m : (i - 1) * n + k = (j - 1) * n + k => i = j
  OBVIOUS
<1>6. m <= Len(seq)
  <2>1. CASE m = 0
    BY <1>2, <2>1
  <2>2. CASE m # 0
    <3>1. (m - 1) * n + k <= Len(seq)
      BY <1>3, <1>4, <2>2
    <3>2. m - 1 <= (m - 1) * n
      BY <1>3, <2>2
    <3>. QED
      BY <1>2, <1>3, <3>1, <3>2
  <2>. QED
    BY <2>1, <2>2
<1>. HIDE DEF m
<1>7. row \in [1..m -> T]
  BY <1>4
<1>8. row \in Seq(T) /\ Len(row) = m
  BY <1>3, <1>7, IsSequence
<1>9. Simple(seq) => Simple(row)
  <2>. SUFFICES ASSUME Simple(seq), NEW i \in 1..m, NEW j \in 1..m, i # j
                PROVE  row[i] # row[j]
    BY <1>8 DEF Simple
  <2>. DEFINE x == (i - 1) * n + k
              y == (j - 1) * n + k
  <2>1. x \in 1..Len(seq) /\ y \in 1..Len(seq) /\ x # y
    BY <1>4, <1>5
  <2>2. row[i] = seq[x] /\ row[j] = seq[y]
    OBVIOUS
  <2>. HIDE DEF x, y, row
  <2>. QED
    BY <2>1, <2>2 DEF Simple
<1>. HIDE DEF row
<1>. QED
  BY <1>1, <1>3, <1>6, <1>8, <1>9

LEMMA KeptSimple ==
  ASSUME NEW T, NEW seq \in Seq(T), NEW P \in SUBSET DOMAIN seq,
         \A i, j \in P : i # j => seq[i] # seq[j]
  PROVE  Simple(Kept(seq, P))
<1>. DEFINE n == Cardinality(P)
            o == InOrder(P)
<1>1. /\ Len(Kept(seq, P)) = n
      /\ \A i \in 1..n : o[i] \in P /\ Kept(seq, P)[i] = seq[o[i]]
      /\ \A i, j \in 1..n : i # j => o[i] # o[j]
  BY KeptFacts
<1>. HIDE DEF n, o
<1>. QED
  BY <1>1 DEF Simple

\* The rows of a sanitized configuration: each names some visible drone, none names a
\* drone twice, and no drone is in two rows.
LEMMA SanitizedFacts ==
  ASSUME NEW rows \in Seq(Seq(Int)), NEW visible
  PROVE  /\ Sanitized(rows, visible) \in Seq(Seq(visible))
         /\ \A k \in 1..Len(Sanitized(rows, visible)) :
              /\ Sanitized(rows, visible)[k] # <<>>
              /\ Simple(Sanitized(rows, visible)[k])
         /\ \A k, l \in 1..Len(Sanitized(rows, visible)) : k # l =>
              Range(Sanitized(rows, visible)[k]) \intersect Range(Sanitized(rows, visible)[l]) = {}
<1>. DEFINE P(k) == {i \in DOMAIN rows[k] :
                      /\ rows[k][i] \in visible
                      /\ \A j \in 1..(i - 1) : rows[k][j] # rows[k][i]
                      /\ \A j \in 1..(k - 1) : rows[k][i] \notin Range(rows[j])}
            clean == [k \in DOMAIN rows |-> Kept(rows[k], P(k))]
            Q == {k \in DOMAIN rows : Kept(rows[k], P(k)) # <<>>}
            R == Kept(clean, Q)
<1>1. Sanitized(rows, visible) = R
  BY DEF Sanitized
<1>2. ASSUME NEW k \in DOMAIN rows
      PROVE  /\ Kept(rows[k], P(k)) \in Seq(visible)
             /\ Simple(Kept(rows[k], P(k)))
             /\ Range(Kept(rows[k], P(k))) \subseteq {rows[k][i] : i \in P(k)}
  <2>. DEFINE row == rows[k]
              p == P(k)
  <2>1. row \in Seq(Int) /\ p \in SUBSET DOMAIN row
    OBVIOUS
  <2>2. \A i, j \in p : i # j => row[i] # row[j]
    <3>. SUFFICES ASSUME NEW i \in p, NEW j \in p, i # j
                  PROVE  row[i] # row[j]
      OBVIOUS
    <3>1. i \in Nat /\ j \in Nat /\ i >= 1 /\ j >= 1
      OBVIOUS
    <3>2. CASE i < j
      <4>1. i \in 1..(j - 1)
        BY <3>1, <3>2
      <4>. QED
        BY <4>1
    <3>3. CASE j < i
      <4>1. j \in 1..(i - 1)
        BY <3>1, <3>3
      <4>. QED
        BY <4>1
    <3>. QED
      BY <3>1, <3>2, <3>3
  <2>3. \A i \in p : row[i] \in visible /\ row[i] \in {row[j] : j \in p}
    OBVIOUS
  <2>. HIDE DEF p
  <2>4. Simple(Kept(row, p))
    BY <2>1, <2>2, KeptSimple
  <2>5. Range(Kept(row, p)) \subseteq {row[i] : i \in p}
    <3>. DEFINE S == {row[i] : i \in p}
    <3>1. \A i \in p : row[i] \in S
      OBVIOUS
    <3>. HIDE DEF S
    <3>2. Kept(row, p) \in Seq(S)
      BY <2>1, <3>1, KeptIn
    <3>3. Range(Kept(row, p)) \subseteq S
      BY <3>2 DEF Range
    <3>. QED
      BY <3>3 DEF S
  <2>6. Kept(row, p) \in Seq(visible)
    BY <2>1, <2>3, KeptIn
  <2>. QED
    BY <2>4, <2>5, <2>6 DEF p
<1>3. clean \in Seq(Seq(visible)) /\ DOMAIN clean = DOMAIN rows /\ Q \in SUBSET DOMAIN clean
      /\ \A k \in DOMAIN rows : clean[k] = Kept(rows[k], P(k))
  <2>1. DOMAIN rows = 1..Len(rows) /\ Len(rows) \in Nat
    OBVIOUS
  <2>2. clean \in [1..Len(rows) -> Seq(visible)]
    BY <1>2, <2>1
  <2>. QED
    BY <2>1, <2>2, IsSequence
<1>4. ASSUME NEW k \in DOMAIN rows, NEW l \in DOMAIN rows, k # l
      PROVE  Range(Kept(rows[k], P(k))) \intersect Range(Kept(rows[l], P(l))) = {}
  <2>1. ASSUME NEW a \in DOMAIN rows, NEW b \in DOMAIN rows, a < b
        PROVE  Range(Kept(rows[a], P(a))) \intersect Range(Kept(rows[b], P(b))) = {}
    <3>1. a \in 1..(b - 1)
      BY <2>1
    <3>2. \A x \in {rows[b][i] : i \in P(b)} : x \notin Range(rows[a])
      BY <3>1
    <3>3. \A x \in {rows[a][i] : i \in P(a)} : x \in Range(rows[a])
      BY DEF Range
    <3>. HIDE DEF P
    <3>. QED
      BY <1>2, <3>2, <3>3
  <2>2. k < l \/ l < k
    BY <1>4
  <2>. HIDE DEF P
  <2>. QED
    BY <2>1, <2>2
<1>. DEFINE n == Cardinality(Q)
            o == InOrder(Q)
<1>5. /\ Len(R) = n /\ n \in Nat
      /\ \A i \in 1..n : o[i] \in Q /\ R[i] = clean[o[i]]
      /\ \A i, j \in 1..n : i # j => o[i] # o[j]
  <2>. HIDE DEF clean, Q
  <2>. QED
    BY <1>3, KeptFacts
<1>6. \A i \in Q : clean[i] \in Seq(visible)
  <2>. HIDE DEF clean, Q
  <2>. QED
    BY <1>3
<1>7. R \in Seq(Seq(visible))
  <2>. HIDE DEF clean, Q
  <2>. QED
    BY <1>3, <1>6, KeptIn
<1>8. \A k \in 1..n : o[k] \in DOMAIN rows /\ R[k] = Kept(rows[o[k]], P(o[k])) /\ R[k] # <<>>
  <2>. HIDE DEF P, R, o, n
  <2>. QED
    BY <1>3, <1>5
<1>. HIDE DEF P, R, o, n
<1>9. \A k \in 1..n : R[k] # <<>> /\ Simple(R[k])
  BY <1>2, <1>8
<1>10. \A k, l \in 1..n : k # l => Range(R[k]) \intersect Range(R[l]) = {}
  <2>. SUFFICES ASSUME NEW k \in 1..n, NEW l \in 1..n, k # l
                PROVE  Range(R[k]) \intersect Range(R[l]) = {}
    OBVIOUS
  <2>1. o[k] \in DOMAIN rows /\ o[l] \in DOMAIN rows /\ o[k] # o[l]
    BY <1>5, <1>8
  <2>2. R[k] = Kept(rows[o[k]], P(o[k])) /\ R[l] = Kept(rows[o[l]], P(o[l]))
    BY <1>8
  <2>. QED
    BY <1>4, <2>1, <2>2
<1>. QED
  BY <1>1, <1>5, <1>7, <1>9, <1>10


LEMMA InOrderOnto ==
  ASSUME NEW n \in Nat, NEW S \in SUBSET (1..n)
  PROVE  /\ InOrder(S) \in Seq(S) /\ Len(InOrder(S)) = Cardinality(S)
         /\ Simple(InOrder(S)) /\ Range(InOrder(S)) = S
<1>. DEFINE c == Cardinality(S)
            f == InOrder(S)
<1>1. /\ f \in [1..c -> S] /\ c \in Nat
      /\ \A i, j \in 1..c : i # j => f[i] # f[j]
  BY InOrderFacts
<1>2. IsFiniteSet(S)
  BY FinitePositions
<1>. HIDE DEF f
<1>3. f \in Injection(1..c, S)
  BY <1>1 DEF Injection, IsInjective
<1>4. Cardinality(1..c) = c
  BY <1>1, FS_Interval
<1>5. f \in Surjection(1..c, S)
  BY <1>2, <1>3, <1>4, FS_Injection
<1>6. \A x \in S : \E i \in 1..c : f[i] = x
  BY <1>5 DEF Surjection
<1>. HIDE DEF c
<1>7. f \in Seq(S) /\ Len(f) = c /\ DOMAIN f = 1..c
  BY <1>1, IsSequence
<1>8. Range(f) = S
  <2>1. \A x \in Range(f) : x \in S
    BY <1>1, <1>7 DEF Range
  <2>2. \A x \in S : x \in Range(f)
    BY <1>6, <1>7 DEF Range
  <2>. QED
    BY <2>1, <2>2
<1>. QED
  BY <1>1, <1>7, <1>8 DEF Simple, f, c

\* Dealing puts every element on one row.
LEMMA DealtPartition ==
  ASSUME NEW T, NEW seq \in Seq(T), Simple(seq), NEW n \in Nat, n # 0
  PROVE  /\ \A k \in 1..n : Range(Dealt(seq, n)[k]) \subseteq Range(seq)
         /\ \A k, l \in 1..n : k # l =>
              Range(Dealt(seq, n)[k]) \intersect Range(Dealt(seq, n)[l]) = {}
         /\ \A x \in Range(seq) : \E k \in 1..n : x \in Range(Dealt(seq, n)[k])
<1>. DEFINE m(k) == (Len(seq) - k) \div n + 1
            at(k, i) == (i - 1) * n + k
            row(k) == Dealt(seq, n)[k]
<1>1. \A k \in 1..n : row(k) = [i \in 1..m(k) |-> seq[at(k, i)]]
  BY DEF Dealt
<1>2. Len(seq) \in Nat /\ DOMAIN seq = 1..Len(seq)
  OBVIOUS
<1>3. \A k \in 1..n : \A i \in 1..m(k) : at(k, i) \in 1..Len(seq)
  BY <1>2
<1>4. ASSUME NEW k \in 1..n, NEW x \in Range(row(k))
      PROVE  \E i \in 1..m(k) : x = seq[at(k, i)]
  <2>. HIDE DEF row, m, at
  <2>1. row(k) = [i \in 1..m(k) |-> seq[at(k, i)]]
    BY <1>1
  <2>2. DOMAIN row(k) = 1..m(k) /\ \A i \in 1..m(k) : row(k)[i] = seq[at(k, i)]
    BY <2>1
  <2>3. PICK i \in DOMAIN row(k) : x = row(k)[i]
    BY DEF Range
  <2>. QED
    BY <2>2, <2>3
<1>5. \A k \in 1..n : Range(row(k)) \subseteq Range(seq)
  <2>. HIDE DEF m, at, row
  <2>. QED
    BY <1>2, <1>3, <1>4 DEF Range
<1>6. ASSUME NEW k \in 1..n, NEW l \in 1..n, NEW i \in Int, NEW j \in Int, at(k, i) = at(l, j)
      PROVE  k = l
  <2>1. (i - j) * n = l - k
    BY <1>6
  <2>2. l - k < n /\ l - k > -n
    OBVIOUS
  <2>3. CASE i = j
    BY <2>1, <2>3
  <2>4. CASE i > j
    <3>1. (i - j) * n >= n
      BY <2>4
    <3>. QED
      BY <2>1, <2>2, <3>1
  <2>5. CASE i < j
    <3>1. (j - i) * n >= n
      BY <2>5
    <3>2. (i - j) * n = -((j - i) * n)
      OBVIOUS
    <3>. QED
      BY <2>1, <2>2, <3>1, <3>2
  <2>. QED
    BY <2>3, <2>4, <2>5
<1>7. \A k, l \in 1..n : k # l => Range(row(k)) \intersect Range(row(l)) = {}
  <2>. SUFFICES ASSUME NEW k \in 1..n, NEW l \in 1..n, k # l,
                       NEW x \in Range(row(k)), x \in Range(row(l))
                PROVE  FALSE
    OBVIOUS
  <2>1. PICK i \in 1..m(k) : x = seq[at(k, i)]
    BY <1>4
  <2>2. PICK j \in 1..m(l) : x = seq[at(l, j)]
    BY <1>4
  <2>3. at(k, i) \in 1..Len(seq) /\ at(l, j) \in 1..Len(seq) /\ i \in Int /\ j \in Int
    BY <1>3
  <2>4. at(k, i) # at(l, j)
    BY <1>6, <2>3
  <2>. HIDE DEF at, m
  <2>. QED
    BY <2>1, <2>2, <2>3, <2>4 DEF Simple
<1>8. ASSUME NEW x \in Range(seq)
      PROVE  \E k \in 1..n : x \in Range(row(k))
  <2>1. PICK p \in 1..Len(seq) : x = seq[p]
    BY DEF Range
  <2>. DEFINE q == (p - 1) \div n
              k == p - q * n
              i == q + 1
  <2>2. q \in Nat /\ k \in 1..n /\ p = at(k, i)
    OBVIOUS
  <2>3. i \in 1..m(k)
    <3>1. q * n <= Len(seq) - k
      BY <2>2
    <3>2. q <= (Len(seq) - k) \div n
      <4>. HIDE DEF q, k
      <4>. QED
        BY <1>2, <2>2, <3>1
    <3>. QED
      BY <1>2, <2>2, <3>2
  <2>. HIDE DEF q, k, i
  <2>4. row(k) = [b \in 1..m(k) |-> seq[at(k, b)]]
    BY <1>1, <2>2
  <2>. HIDE DEF row, at, m
  <2>5. x = row(k)[i] /\ i \in DOMAIN row(k)
    BY <2>1, <2>2, <2>3, <2>4
  <2>. QED
    BY <2>2, <2>5 DEF Range
<1>. QED
  BY <1>5, <1>7, <1>8


LEMMA ConcatSimple ==
  ASSUME NEW T, NEW a \in Seq(T), NEW b \in Seq(T), Simple(a), Simple(b),
         Range(a) \intersect Range(b) = {}
  PROVE  Simple(a \o b)
<1>. DEFINE m == Len(a)
            c == a \o b
<1>1. m \in Nat /\ Len(b) \in Nat /\ Len(c) = m + Len(b)
      /\ \A i \in 1..(m + Len(b)) : c[i] = IF i <= m THEN a[i] ELSE b[i - m]
  BY ConcatProperties
<1>2. /\ \A i \in 1..m : a[i] \in Range(a)
      /\ \A i \in 1..Len(b) : b[i] \in Range(b)
  BY DEF Range
<1>. HIDE DEF c
<1>3. SUFFICES ASSUME NEW i \in 1..Len(c), NEW j \in 1..Len(c), i # j
               PROVE  c[i] # c[j]
  BY DEF Simple, c
<1>4. CASE i <= m /\ j <= m
  BY <1>1, <1>3, <1>4 DEF Simple
<1>5. CASE i > m /\ j > m
  <2>1. i - m \in 1..Len(b) /\ j - m \in 1..Len(b) /\ i - m # j - m
    BY <1>1, <1>3, <1>5
  <2>2. c[i] = b[i - m] /\ c[j] = b[j - m]
    BY <1>1, <1>5
  <2>. QED
    BY <2>1, <2>2 DEF Simple
<1>6. ASSUME NEW x \in 1..Len(c), NEW y \in 1..Len(c), x <= m, y > m
      PROVE  c[x] # c[y]
  <2>1. x \in 1..m /\ y - m \in 1..Len(b)
    BY <1>1, <1>6
  <2>2. c[x] = a[x] /\ c[y] = b[y - m]
    BY <1>1, <1>6
  <2>. QED
    BY <1>2, <2>1, <2>2
<1>. QED
  BY <1>1, <1>4, <1>5, <1>6

-----------------------------------------------------------------------------
(* The branches of an inventory.                                             *)

RuntimeModes == {"chain", "parallel", "forest", "manual"}

\* The swarms the node can have: the roles and failures name drones of the inventory.
Inventories ==
  {s \in [count : Drones, failed : SUBSET Drones, standby : SUBSET Drones,
          integrated : SUBSET Drones, mode : RuntimeModes, branchCount : Nat \ {0},
          rows : Seq(Seq(Int))] :
     \A part \in {"failed", "standby", "integrated"} : s[part] \subseteq 1..s.count}

LEMMA ActiveFacts ==
  ASSUME NEW s \in Inventories
  PROVE  /\ Active(s) \in SUBSET (1..MaxDrones) /\ Active(s) \subseteq 1..s.count
         /\ IsFiniteSet(Active(s)) /\ Cardinality(Active(s)) \in Nat
         /\ Cardinality(Active(s)) <= MaxDrones
         /\ Active(s) # {} => Cardinality(Active(s)) >= 1
<1>1. s.count \in 1..MaxDrones
  BY DEF Inventories, Drones
<1>2. MaxDrones \in Nat
  BY MaxDronesAssumption
<1>3. Active(s) \subseteq 1..s.count
  BY DEF Active
<1>4. Active(s) \in SUBSET (1..MaxDrones)
  BY <1>1, <1>2, <1>3
<1>5. IsFiniteSet(Active(s)) /\ Cardinality(Active(s)) \in Nat /\ Cardinality(Active(s)) <= MaxDrones
  BY <1>2, <1>4, FinitePositions
<1>6. Active(s) # {} => Cardinality(Active(s)) # 0
  BY <1>5, FS_EmptySet
<1>. QED
  BY <1>3, <1>4, <1>5, <1>6

\* Rows that share out a set: each has some of its elements, and each element is once
\* on one row.
SharesOut(rows, A) ==
  /\ rows \in Seq(Seq(A))
  /\ \A k \in 1..Len(rows) : rows[k] # <<>> /\ Simple(rows[k])
  /\ \A k, l \in 1..Len(rows) : k # l => Range(rows[k]) \intersect Range(rows[l]) = {}
  /\ \A d \in A : \E k \in 1..Len(rows) : d \in Range(rows[k])

LEMMA OneRow ==
  ASSUME NEW n \in Nat, NEW A \in SUBSET (1..n), A # {}
  PROVE  SharesOut(<<InOrder(A)>>, A)
<1>. DEFINE o == InOrder(A)
<1>1. o \in Seq(A) /\ Simple(o) /\ Range(o) = A
  BY InOrderOnto
<1>. HIDE DEF o
<1>2. o # <<>>
  BY <1>1 DEF Range
<1>3. <<o>> \in Seq(Seq(A)) /\ Len(<<o>>) = 1 /\ <<o>>[1] = o
  BY <1>1
<1>4. SharesOut(<<o>>, A)
  BY <1>1, <1>2, <1>3 DEF SharesOut
<1>. QED
  BY <1>4 DEF o

LEMMA DealtRows ==
  ASSUME NEW m \in Nat, NEW A \in SUBSET (1..m),
         NEW n \in Nat, n # 0, n <= Cardinality(A)
  PROVE  SharesOut(Dealt(InOrder(A), n), A)
<1>. DEFINE o == InOrder(A)
            rows == Dealt(o, n)
<1>1. o \in Seq(A) /\ Simple(o) /\ Range(o) = A /\ Len(o) = Cardinality(A)
  BY InOrderOnto
<1>2. Cardinality(A) \in Nat
  BY FinitePositions
<1>. HIDE DEF o
<1>3. DOMAIN rows = 1..n
  BY DEF Dealt
<1>4. \A k \in 1..n : rows[k] \in Seq(A) /\ Len(rows[k]) >= 1 /\ Simple(rows[k])
  <2>. TAKE k \in 1..n
  <2>1. k <= Len(o)
    BY <1>1, <1>2
  <2>. QED
    BY <1>1, <2>1, DealtFacts
<1>5. rows \in [1..n -> Seq(A)]
  <2>1. rows = [k \in 1..n |-> rows[k]]
    BY DEF Dealt
  <2>. HIDE DEF rows
  <2>. QED
    BY <1>4, <2>1
<1>6. /\ \A k, l \in 1..n : k # l => Range(rows[k]) \intersect Range(rows[l]) = {}
      /\ \A x \in A : \E k \in 1..n : x \in Range(rows[k])
  BY <1>1, DealtPartition
<1>. HIDE DEF rows
<1>7. rows \in Seq(Seq(A)) /\ Len(rows) = n
  BY <1>5, IsSequence
<1>8. \A k \in 1..n : rows[k] # <<>>
  BY <1>4
<1>9. SharesOut(rows, A)
  BY <1>4, <1>6, <1>7, <1>8 DEF SharesOut
<1>. QED
  BY <1>9 DEF rows, o


\* Manual branches: the relays that no row names are dealt to the rows.
LEMMA ManualRows ==
  ASSUME NEW s \in Inventories, Active(s) # {}
  PROVE  SharesOut(ManualBranches(s), Active(s))
<1>. DEFINE A == Active(s)
            rows == Sanitized(s.rows, A)
            left == A \ UNION {Range(rows[k]) : k \in DOMAIN rows}
            rest == InOrder(left)
            n == Len(rows)
            branch(k) == rows[k] \o Dealt(rest, n)[k]
            branches == [k \in DOMAIN rows |-> branch(k)]
<1>1. ManualBranches(s) = IF rows = <<>> THEN <<rest>> ELSE branches
  BY DEF ManualBranches
<1>2. A \in SUBSET (1..MaxDrones) /\ MaxDrones \in Nat /\ left \in SUBSET (1..MaxDrones)
  BY ActiveFacts, MaxDronesAssumption
<1>3. /\ rows \in Seq(Seq(A))
      /\ \A k \in 1..n : rows[k] # <<>> /\ Simple(rows[k])
      /\ \A k, l \in 1..n : k # l => Range(rows[k]) \intersect Range(rows[l]) = {}
  <2>1. s.rows \in Seq(Seq(Int))
    BY DEF Inventories
  <2>. HIDE DEF A
  <2>. QED
    BY <2>1, SanitizedFacts
<1>4. n \in Nat /\ DOMAIN rows = 1..n
  BY <1>3
<1>5. rest \in Seq(left) /\ Simple(rest) /\ Range(rest) = left
  BY <1>2, InOrderOnto
<1>6. left \subseteq A /\ \A k \in 1..n : Range(rows[k]) \intersect left = {}
  BY <1>4
<1>7. \A d \in A : d \in left \/ \E k \in 1..n : d \in Range(rows[k])
  BY <1>4
<1>8. CASE rows = <<>>
  <2>1. left = A
    BY <1>8
  <2>2. SharesOut(<<InOrder(A)>>, A)
    BY <1>2, OneRow
  <2>. QED
    BY <1>1, <1>8, <2>1, <2>2
<1>9. CASE rows # <<>>
  <2>1. n # 0
    BY <1>3, <1>9
  <2>. HIDE DEF A, rows, left, rest, n
  <2>2. ASSUME NEW k \in 1..n
        PROVE  /\ Dealt(rest, n)[k] \in Seq(A) /\ Simple(Dealt(rest, n)[k])
               /\ Range(Dealt(rest, n)[k]) \subseteq left
    <3>1. Dealt(rest, n)[k] \in Seq(left) /\ Simple(Dealt(rest, n)[k])
      BY <1>4, <1>5, <2>1, DealtFacts
    <3>2. Range(Dealt(rest, n)[k]) \subseteq left
      BY <1>4, <1>5, <2>1, DealtPartition
    <3>. QED
      BY <1>6, <3>1, <3>2
  <2>3. /\ \A k, l \in 1..n : k # l =>
             Range(Dealt(rest, n)[k]) \intersect Range(Dealt(rest, n)[l]) = {}
        /\ \A x \in left : \E k \in 1..n : x \in Range(Dealt(rest, n)[k])
    BY <1>4, <1>5, <2>1, DealtPartition
  <2>4. \A k \in 1..n : rows[k] \in Seq(A)
    BY <1>3, <1>4
  <2>5. ASSUME NEW k \in 1..n
        PROVE  /\ branch(k) \in Seq(A) /\ branch(k) # <<>>
               /\ Range(branch(k)) = Range(rows[k]) \union Range(Dealt(rest, n)[k])
               /\ Simple(branch(k))
    <3>. DEFINE a == rows[k]
                b == Dealt(rest, n)[k]
    <3>1. a \in Seq(A) /\ b \in Seq(A) /\ Simple(a) /\ Simple(b) /\ a # <<>>
      BY <1>3, <2>2, <2>4
    <3>2. Range(a) \intersect Range(b) = {}
      BY <1>6, <2>2
    <3>. HIDE DEF a, b
    <3>3. a \o b \in Seq(A) /\ a \o b # <<>>
      BY <3>1
    <3>4. Range(a \o b) = Range(a) \union Range(b)
      BY <3>1, RangeConcatenation
    <3>5. Simple(a \o b)
      BY <3>1, <3>2, ConcatSimple
    <3>. QED
      BY <3>3, <3>4, <3>5 DEF a, b
  <2>6. branches \in Seq(Seq(A)) /\ Len(branches) = n /\ \A k \in 1..n : branches[k] = branch(k)
    <3>. HIDE DEF branch
    <3>1. branches \in [1..n -> Seq(A)]
      BY <1>4, <2>5
    <3>2. \A k \in 1..n : branches[k] = branch(k)
      BY <1>4
    <3>. HIDE DEF branches
    <3>. QED
      BY <1>4, <3>1, <3>2, IsSequence
  <2>. HIDE DEF branch, branches
  <2>7. ASSUME NEW k \in 1..n, NEW l \in 1..n, k # l
        PROVE  Range(branch(k)) \intersect Range(branch(l)) = {}
    <3>1. /\ Range(rows[k]) \intersect Range(rows[l]) = {}
          /\ Range(Dealt(rest, n)[k]) \intersect Range(Dealt(rest, n)[l]) = {}
      BY <1>3, <2>3, <2>7
    <3>2. /\ Range(rows[k]) \intersect Range(Dealt(rest, n)[l]) = {}
          /\ Range(rows[l]) \intersect Range(Dealt(rest, n)[k]) = {}
      BY <1>6, <2>2
    <3>. QED
      BY <2>5, <3>1, <3>2
  <2>8. ASSUME NEW d \in A
        PROVE  \E k \in 1..n : d \in Range(branch(k))
    <3>1. \E k \in 1..n : d \in Range(rows[k]) \/ d \in Range(Dealt(rest, n)[k])
      BY <1>7, <2>3
    <3>. QED
      BY <2>5, <3>1
  <2>9. SharesOut(branches, A)
    BY <2>5, <2>6, <2>7, <2>8 DEF SharesOut
  <2>. QED
    BY <1>1, <1>9, <2>9 DEF A
<1>. QED
  BY <1>8, <1>9

\* Whatever the configuration, the roles and the failures are (_active_branches): every
\* active drone is on exactly one branch, once, and no branch is empty.  So a relay
\* never serves two flows, a packet passes no relay twice on its way, and no active
\* relay is left without traffic; there are no branches only when no drone is active.
THEOREM EveryActiveDroneIsOnOneBranch ==
  ASSUME NEW s \in Inventories
  PROVE  SharesOut(Branches(s), Active(s))
<1>1. CASE Active(s) = {}
  <2>1. Branches(s) = <<>>
    BY <1>1 DEF Branches
  <2>. QED
    BY <1>1, <2>1 DEF SharesOut
<1>2. CASE Active(s) # {}
  <2>. DEFINE A == Active(s)
  <2>1. /\ A \in SUBSET (1..MaxDrones) /\ MaxDrones \in Nat
        /\ Cardinality(A) \in Nat /\ Cardinality(A) >= 1
    BY <1>2, ActiveFacts, MaxDronesAssumption
  <2>2. CASE s.mode = "manual" /\ s.rows # <<>>
    BY <1>2, <2>2, ManualRows DEF Branches
  <2>3. CASE ~(s.mode = "manual" /\ s.rows # <<>>) /\ s.mode = "chain"
    <3>1. Branches(s) = <<InOrder(A)>>
      BY <1>2, <2>3 DEF Branches
    <3>. QED
      BY <1>2, <2>1, <3>1, OneRow
  <2>4. CASE ~(s.mode = "manual" /\ s.rows # <<>>) /\ s.mode # "chain"
    <3>. DEFINE n == AtLeast1(AtMost(s.branchCount, Cardinality(A)))
    <3>1. Branches(s) = Dealt(InOrder(A), n)
      BY <1>2, <2>4 DEF Branches
    <3>2. s.branchCount \in Nat \ {0}
      BY DEF Inventories
    <3>. HIDE DEF A
    <3>3. n \in Nat /\ n # 0 /\ n <= Cardinality(A)
      BY <2>1, <3>2 DEF AtLeast1, AtMost
    <3>. HIDE DEF n
    <3>4. SharesOut(Dealt(InOrder(A), n), A)
      BY <2>1, <3>3, DealtRows
    <3>. QED
      BY <3>1, <3>4 DEF A
  <2>. QED
    BY <2>2, <2>3, <2>4
<1>. QED
  BY <1>1, <1>2
=============================================================================
