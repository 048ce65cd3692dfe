------------------------- MODULE EventStreamProofs -------------------------
(***************************************************************************)
(* Reading an answer, and what is stored of a visualization, for every     *)
(* body, every cut of it and every visualization.                          *)
(*                                                                         *)
(* ReadAsSent: buffer and wire, normalized together, are the rest of the   *)
(* normalized body from some place on (Ahead).  A chunk leaves the place   *)
(* where it is (CrlfAcrossCut), a frame moves it behind the next blank line *)
(* (NextFrame), the flush tells what is left (LastFrame).                  *)
(*                                                                         *)
(* LinksStaySound, StoredIsStable: what is shown is a visualization and its *)
(* normal form (ShownIsNormalized); the rest is about the operators of     *)
(* Normalization, one field after the other.  Lists that are filtered or   *)
(* sorted by rank are the only ones in their order (OrderedIsListed).      *)
(***************************************************************************)
EXTENDS EventStream, FiniteSetTheorems, SequenceTheorems, WellFoundedInduction,
        TLAPS

------------------------------------------------------------------------------
(* Ranks.                                                                    *)

\* What precedes what, as a strict total order.
Ordered(S, before) ==
  /\ before \in [S -> SUBSET S]
  /\ \A x \in S : x \notin before[x]
  /\ \A x, y \in S : x # y => x \in before[y] \/ y \in before[x]
  /\ \A x, y \in S : x \in before[y] => before[x] \subseteq before[y]

\* f lists S in that order.
Lists(f, n, S, before) ==
  /\ f \in [1..n -> S]
  /\ \A x \in S : \E r \in 1..n : f[r] = x
  /\ \A a, b \in 1..n : f[a] \in before[f[b]] <=> a < b

\* A finite interval that starts at 1 has as many members as its end.
LEMMA CountTo == ASSUME NEW n \in Nat PROVE IsFiniteSet(1..n) /\ Cardinality(1..n) = n
<1>1. 1 \in Int /\ n \in Int /\ (1 > n => n = 0) /\ n - 1 + 1 = n
  OBVIOUS
<1> QED
  BY <1>1, FS_Interval

\* What comes before the r-th member of a listing are the r - 1 listed earlier.
LEMMA RankOfListed ==
  ASSUME NEW S, NEW before \in [S -> SUBSET S], NEW n \in Nat, NEW f,
         Lists(f, n, S, before)
  PROVE  /\ IsFiniteSet(S)
         /\ Cardinality(S) = n
         /\ \A r \in 1..n : Cardinality(before[f[r]]) = r - 1
<1>1. /\ f \in [1..n -> S]
      /\ \A a, b \in 1..n : f[a] = f[b] => a = b
  BY DEF Lists
<1>2. f \in Bijection(1..n, S)
  BY <1>1 DEF Lists, Bijection, Injection, Surjection, IsInjective
<1>3. IsFiniteSet(S) /\ Cardinality(S) = n
  BY <1>2, CountTo, FS_Bijection DEF ExistsBijection
<1>4. ASSUME NEW r \in 1..n PROVE Cardinality(before[f[r]]) = r - 1
  <2>1. r - 1 \in Nat /\ \A a \in 1..(r - 1) : a \in 1..n /\ a < r
    OBVIOUS
  <2> DEFINE B == before[f[r]]
             g == [a \in 1..(r - 1) |-> f[a]]
  <2>2. B \subseteq S /\ \A a \in 1..n : f[a] \in B <=> a < r
    BY <1>1 DEF Lists
  <2>3. g \in [1..(r - 1) -> B]
    BY <2>1, <2>2
  <2>4. ASSUME NEW x \in B PROVE \E a \in 1..(r - 1) : g[a] = x
    <3>1. PICK a \in 1..n : f[a] = x
      BY <2>2, <2>4 DEF Lists
    <3>2. a \in 1..(r - 1)
      BY <2>2, <2>4, <3>1
    <3> QED
      BY <3>1, <3>2
  <2>5. g \in Bijection(1..(r - 1), B)
    <3>1. \A a, b \in 1..(r - 1) : g[a] = g[b] => a = b
      BY <1>1, <2>1
    <3> QED
      BY <2>3, <2>4, <3>1 DEF Bijection, Injection, Surjection, IsInjective
  <2> HIDE DEF g, B
  <2>6. Cardinality(B) = Cardinality(1..(r - 1))
    BY <2>1, <2>5, CountTo, FS_Bijection DEF ExistsBijection
  <2> QED
    BY <2>1, <2>6, CountTo DEF B
<1> QED
  BY <1>3, <1>4

\* The only member of rank r is the r-th of any listing.
LEMMA RankedIsListed ==
  ASSUME NEW S, NEW before \in [S -> SUBSET S], NEW n \in Nat, NEW f,
         Lists(f, n, S, before), NEW r \in 1..n, NEW x \in S,
         Cardinality(before[x]) = r - 1
  PROVE  x = f[r]
<1>1. PICK a \in 1..n : f[a] = x
  BY DEF Lists
<1>2. a - 1 = r - 1
  BY <1>1, RankOfListed
<1>3. a = r
  BY <1>2
<1> QED
  BY <1>1, <1>3

\* The member of rank r that InOrder takes is the r-th of any listing.
LEMMA ChosenIsListed ==
  ASSUME NEW K, NEW B \in [K -> SUBSET K], NEW n \in Nat, NEW f, Lists(f, n, K, B),
         NEW r \in 1..n
  PROVE  f[r] \in K /\ \A x \in K : Cardinality(B[x]) = r - 1 <=> x = f[r]
<1>1. f[r] \in K
  BY DEF Lists
<1>2. Cardinality(B[f[r]]) = r - 1
  BY <1>1, RankOfListed
<1>3. ASSUME NEW x \in K, Cardinality(B[x]) = r - 1 PROVE x = f[r]
  BY <1>3, RankedIsListed
<1> QED
  BY <1>1, <1>2, <1>3

\* A finite set can be listed in any strict total order.
LEMMA OrderedIsListed ==
  ASSUME NEW S, IsFiniteSet(S), NEW before, Ordered(S, before)
  PROVE  \E f : Lists(f, Cardinality(S), S, before)
<1> DEFINE n == Cardinality(S)
           rank == [x \in S |-> Cardinality(before[x]) + 1]
           f == [r \in 1..n |-> CHOOSE x \in S : rank[x] = r]
<1>1. n \in Nat
  BY FS_CardinalityType
<1>2. ASSUME NEW x \in S
      PROVE  /\ before[x] \in SUBSET S /\ IsFiniteSet(before[x])
             /\ Cardinality(before[x]) \in Nat /\ rank[x] \in 1..n
  <2>1. before[x] \in SUBSET S /\ x \notin before[x]
    BY DEF Ordered
  <2>2. IsFiniteSet(before[x])
    BY <2>1, FS_Subset
  <2>3. IsFiniteSet(before[x] \cup {x}) /\ Cardinality(before[x] \cup {x}) = Cardinality(before[x]) + 1
    BY <2>1, <2>2, FS_AddElement
  <2>4. before[x] \cup {x} \in SUBSET S
    BY <2>1
  <2>5. Cardinality(before[x]) + 1 <= n
    BY <2>3, <2>4, FS_Subset
  <2>6. Cardinality(before[x]) \in Nat
    BY <2>2, FS_CardinalityType
  <2> HIDE DEF n
  <2> QED
    BY <1>1, <2>1, <2>2, <2>5, <2>6
<1>3. ASSUME NEW x \in S, NEW y \in S, x \in before[y] PROVE rank[x] < rank[y]
  <2>1. before[x] \cup {x} \in SUBSET before[y] /\ x \notin before[x]
    BY <1>3 DEF Ordered
  <2>2. Cardinality(before[x] \cup {x}) = Cardinality(before[x]) + 1
    BY <1>2, <2>1, FS_AddElement
  <2>3. Cardinality(before[x]) + 1 <= Cardinality(before[y])
    BY <1>2, <2>1, <2>2, FS_Subset
  <2> QED
    BY <1>2, <2>3
<1>4. \A x, y \in S : rank[x] = rank[y] => x = y
  <2>1. \A x \in S : rank[x] \in Int
    BY <1>1, <1>2
  <2> HIDE DEF rank
  <2> QED
    BY <1>3, <2>1 DEF Ordered
<1>5. rank \in Injection(S, 1..n)
  BY <1>2, <1>4 DEF Injection, IsInjective
<1>6. rank \in Surjection(S, 1..n)
  <2>1. IsFiniteSet(1..n) /\ Cardinality(1..n) = n
    BY <1>1, CountTo
  <2> HIDE DEF rank
  <2> QED
    BY <1>5, <2>1, FS_Injection
<1> HIDE DEF rank
<1>7. \A r \in 1..n : f[r] \in S /\ rank[f[r]] = r
  BY <1>6 DEF Surjection
<1>8. \A x \in S : rank[x] \in 1..n /\ f[rank[x]] = x
  BY <1>2, <1>4, <1>7
<1> HIDE DEF f
<1>9. f \in [1..n -> S]
  BY <1>7 DEF f
<1>10. ASSUME NEW a \in 1..n, NEW b \in 1..n PROVE f[a] \in before[f[b]] <=> a < b
  <2> HIDE DEF n
  <2>1. a \in Nat /\ b \in Nat
    BY <1>1
  <2>2. f[a] \in before[f[b]] => a < b
    BY <1>3, <1>7
  <2>3. f[b] \in before[f[a]] => b < a
    BY <1>3, <1>7
  <2>4. a # b => f[a] # f[b]
    BY <1>7
  <2>5. a # b => f[a] \in before[f[b]] \/ f[b] \in before[f[a]]
    BY <1>7, <2>4 DEF Ordered
  <2> QED
    BY <2>1, <2>2, <2>3, <2>5
<1> QED
  BY <1>8, <1>9, <1>10 DEF Lists

------------------------------------------------------------------------------
(* Entries picked out of a list.                                             *)

Below(K) == [k \in K |-> {i \in K : i < k}]

\* f goes through the positions in K from the first to the last.
Through(f, n, K) ==
  /\ f \in [1..n -> K]
  /\ \A k \in K : \E r \in 1..n : f[r] = k
  /\ \A a, b \in 1..n : a < b => f[a] < f[b]

\* What f passes in seq.
Passed(seq, f, n) == [r \in 1..n |-> seq[f[r]]]

\* Positions come in the order of the numbers.
LEMMA PositionsOrdered ==
  ASSUME NEW K \in SUBSET Int
  PROVE  /\ Ordered(K, Below(K))
         /\ \A n \in Nat : \A f : Through(f, n, K) <=> Lists(f, n, K, Below(K))
<1>1. Below(K) \in [K -> SUBSET K]
  BY DEF Below
<1>2. \A x, y \in K : x \in Below(K)[y] <=> x < y
  BY DEF Below
<1>3. Ordered(K, Below(K))
  <2>1. ASSUME NEW x \in K, NEW y \in K, x \in Below(K)[y], NEW z \in Below(K)[x]
        PROVE  z \in Below(K)[y]
    <3>1. z \in K /\ z < x /\ x < y
      BY <1>1, <1>2, <2>1
    <3>2. x \in Int /\ y \in Int /\ z \in Int
      BY <3>1
    <3>3. z < y
      BY <3>1, <3>2
    <3> QED
      BY <1>2, <3>1, <3>3
  <2> QED
    BY <1>1, <1>2, <2>1 DEF Ordered
<1>4. ASSUME NEW n \in Nat, NEW f PROVE Through(f, n, K) <=> Lists(f, n, K, Below(K))
  <2>1. ASSUME f \in [1..n -> K]
        PROVE  (\A a, b \in 1..n : a < b => f[a] < f[b])
                 <=> (\A a, b \in 1..n : f[a] \in Below(K)[f[b]] <=> a < b)
    <3>1. \A a, b \in 1..n : f[a] \in Below(K)[f[b]] <=> f[a] < f[b]
      BY <1>2, <2>1
    <3>2. \A a \in 1..n : f[a] \in Int
      BY <2>1
    <3>3. ASSUME \A a, b \in 1..n : a < b => f[a] < f[b]
          PROVE  \A a, b \in 1..n : f[a] < f[b] <=> a < b
      BY <3>2, <3>3
    <3> QED
      BY <3>1, <3>3
  <2> QED
    BY <2>1 DEF Through, Lists
<1> QED
  BY <1>3, <1>4

\* A listing by the numbers is what is picked.
LEMMA PickedByRank ==
  ASSUME NEW K, NEW B \in [K -> SUBSET K], \A x, y \in K : y \in B[x] <=> y < x,
         NEW n \in Nat, NEW f, Lists(f, n, K, B), NEW seq
  PROVE  /\ IsFiniteSet(K) /\ Cardinality(K) = n
         /\ Picked(seq, K) = Passed(seq, f, n)
<1>1. IsFiniteSet(K) /\ Cardinality(K) = n
  BY RankOfListed
<1>2. ASSUME NEW r \in 1..n
      PROVE  (CHOOSE x \in K : Cardinality({y \in K : y < x}) = r - 1) = f[r]
  <2>1. f[r] \in K /\ \A x \in K : Cardinality(B[x]) = r - 1 <=> x = f[r]
    BY ChosenIsListed
  <2>2. \A x \in K : B[x] = {y \in K : y < x}
    OBVIOUS
  <2> QED
    BY <2>1, <2>2
<1> DEFINE at == [r \in 1..n |-> CHOOSE x \in K : Cardinality({y \in K : y < x}) = r - 1]
<1>3. Picked(seq, K) = [r \in DOMAIN at |-> seq[at[r]]]
  BY <1>1 DEF Picked, InOrder
<1>4. DOMAIN at = 1..n /\ \A r \in 1..n : at[r] = f[r]
  BY <1>2
<1> HIDE DEF at
<1> QED
  BY <1>1, <1>3, <1>4 DEF Passed

\* Whatever goes through the positions tells what is picked.
LEMMA PickedIs ==
  ASSUME NEW K, \A k \in K : k \in Int, NEW n \in Nat, NEW f, Through(f, n, K), NEW seq
  PROVE  /\ IsFiniteSet(K) /\ Cardinality(K) = n
         /\ Picked(seq, K) = Passed(seq, f, n)
<1>1. PICK B \in [K -> SUBSET K] : B = Below(K) /\ Lists(f, n, K, B)
  <2>1. K \in SUBSET Int
    OBVIOUS
  <2> QED
    BY <2>1, PositionsOrdered DEF Ordered
<1>2. \A x, y \in K : y \in B[x] <=> y < x
  BY <1>1 DEF Below
<1> QED
  BY <1>1, <1>2, PickedByRank

\* There is always something that goes through finitely many positions.
LEMMA PickedHas ==
  ASSUME NEW K \in SUBSET Int, IsFiniteSet(K), NEW seq
  PROVE  \E f : /\ Through(f, Cardinality(K), K)
                /\ Picked(seq, K) = Passed(seq, f, Cardinality(K))
<1>1. Cardinality(K) \in Nat
  BY FS_CardinalityType
<1>2. PICK f : Lists(f, Cardinality(K), K, Below(K))
  BY PositionsOrdered, OrderedIsListed
<1>3. Through(f, Cardinality(K), K)
  BY <1>1, <1>2, PositionsOrdered
<1> QED
  BY <1>1, <1>3, PickedIs

\* What is picked is a list of what stands at the positions.
LEMMA PickedList ==
  ASSUME NEW seq, NEW n \in Nat, NEW K \in SUBSET (1..n)
  PROVE  /\ IsList(Picked(seq, K))
         /\ Len(Picked(seq, K)) = Cardinality(K)
         /\ Cardinality(K) \in 0..n
         /\ ToSet(Picked(seq, K)) = {seq[k] : k \in K}
         /\ \A S : (\A k \in K : seq[k] \in S) => Picked(seq, K) \in Seq(S)
<1>1. K \in SUBSET Int /\ IsFiniteSet(K) /\ Cardinality(K) <= n
  <2>1. IsFiniteSet(1..n) /\ Cardinality(1..n) = n
    BY CountTo
  <2>2. IsFiniteSet(K) /\ Cardinality(K) <= Cardinality(1..n)
    BY <2>1, FS_Subset
  <2>3. 1..n \subseteq Int
    OBVIOUS
  <2> QED
    BY <2>1, <2>2, <2>3
<1>2. PICK f : /\ Through(f, Cardinality(K), K)
               /\ Picked(seq, K) = Passed(seq, f, Cardinality(K))
  BY <1>1, PickedHas
<1> DEFINE m == Cardinality(K)
<1>3. m \in Nat /\ m <= n
  BY <1>1, FS_CardinalityType
<1> HIDE DEF m
<1>4. /\ f \in [1..m -> K] /\ \A k \in K : \E r \in 1..m : f[r] = k
      /\ Picked(seq, K) = [r \in 1..m |-> seq[f[r]]]
  BY <1>2 DEF Through, Passed, m
<1>5. Len(Picked(seq, K)) = m /\ DOMAIN Picked(seq, K) = 1..m
  BY <1>3, <1>4
<1>6. ASSUME NEW S, \A k \in K : seq[k] \in S PROVE Picked(seq, K) \in Seq(S)
  <2>1. [r \in 1..m |-> seq[f[r]]] \in [1..m -> S]
    BY <1>4, <1>6
  <2> QED
    BY <1>3, <1>4, <2>1, SeqDef
<1>7. ToSet(Picked(seq, K)) = {seq[k] : k \in K}
  <2>1. \A r \in 1..m : Picked(seq, K)[r] = seq[f[r]] /\ f[r] \in K
    BY <1>4
  <2>2. ASSUME NEW x \in ToSet(Picked(seq, K)) PROVE x \in {seq[k] : k \in K}
    <3>1. PICK r \in 1..m : x = Picked(seq, K)[r]
      BY <1>5 DEF ToSet
    <3> QED
      BY <2>1, <3>1
  <2>3. \A k \in K : seq[k] \in ToSet(Picked(seq, K))
    BY <1>4, <1>5, <2>1 DEF ToSet
  <2> QED
    BY <2>2, <2>3
<1>8. IsList(Picked(seq, K))
  BY <1>3, <1>4, <1>5 DEF IsList
<1> QED
  BY <1>3, <1>5, <1>6, <1>7, <1>8 DEF m

\* Who picks everything changes nothing.
LEMMA PickedAll ==
  ASSUME NEW seq, IsList(seq) PROVE Picked(seq, 1..Len(seq)) = seq
<1> DEFINE n == Len(seq)
           f == [r \in 1..n |-> r]
<1>1. n \in Nat /\ seq = [r \in 1..n |-> seq[r]]
  BY DEF IsList
<1>2. Through(f, n, 1..n) /\ 1..n \in SUBSET Int
  BY <1>1 DEF Through
<1>3. Picked(seq, 1..n) = Passed(seq, f, n)
  <2> DEFINE K == 1..n
  <2>1. Through(f, n, K) /\ K \in SUBSET Int
    BY <1>2
  <2> HIDE DEF f, n, K
  <2>2. Picked(seq, K) = Passed(seq, f, n)
    BY <1>1, <2>1, PickedIs
  <2> QED
    BY <2>2 DEF K
<1>4. Passed(seq, f, n) = [r \in 1..n |-> seq[r]]
  BY DEF Passed
<1> QED
  BY <1>1, <1>3, <1>4

\* A list is a sequence of its entries.
LEMMA ListIsSeq ==
  ASSUME NEW seq, IsList(seq)
  PROVE  /\ Len(seq) \in Nat /\ DOMAIN seq = 1..Len(seq)
         /\ \A i \in 1..Len(seq) : seq[i] \in ToSet(seq)
         /\ \A x \in ToSet(seq) : \E i \in 1..Len(seq) : x = seq[i]
         /\ seq \in Seq(ToSet(seq))
<1> DEFINE n == Len(seq)
<1>1. n \in Nat /\ seq = [i \in 1..n |-> seq[i]]
  BY DEF IsList
<1> HIDE DEF n
<1>2. DOMAIN seq = 1..n
  BY <1>1
<1>3. \A i \in 1..n : seq[i] \in ToSet(seq)
  BY <1>2 DEF ToSet
<1>4. seq \in [1..n -> ToSet(seq)]
  BY <1>1, <1>3
<1>5. seq \in Seq(ToSet(seq))
  BY <1>1, <1>4, SeqDef
<1> QED
  BY <1>1, <1>2, <1>3, <1>5 DEF ToSet, n

\* A sequence is a list.
LEMMA SeqIsList ==
  ASSUME NEW S, NEW seq \in Seq(S) PROVE IsList(seq)
<1>1. Len(seq) \in Nat /\ seq \in [1..Len(seq) -> S]
  BY LenProperties
<1> QED
  BY <1>1 DEF IsList

------------------------------------------------------------------------------
(* Least and greatest.                                                       *)

LEMMA MinIs ==
  ASSUME NEW S, NEW a \in S, \A x \in S : x \in Int /\ a <= x PROVE Min(S) = a
<1>1. \A x \in S : a <= x
  OBVIOUS
<1>2. \E x \in S : \A y \in S : x <= y
  BY <1>1
<1>3. Min(S) \in S /\ \A y \in S : Min(S) <= y
  BY <1>2 DEF Min
<1>4. Min(S) <= a /\ a <= Min(S) /\ Min(S) \in Int /\ a \in Int
  BY <1>1, <1>3
<1> HIDE DEF Min
<1> QED
  BY <1>4

LEMMA MaxIs ==
  ASSUME NEW S, NEW a \in S, \A x \in S : x \in Int /\ a >= x PROVE Max(S) = a
<1>1. \A x \in S : a >= x
  OBVIOUS
<1>2. \E x \in S : \A y \in S : x >= y
  BY <1>1
<1>3. Max(S) \in S /\ \A y \in S : Max(S) >= y
  BY <1>2 DEF Max
<1>4. Max(S) <= a /\ a <= Max(S) /\ Max(S) \in Int /\ a \in Int
  BY <1>1, <1>3
<1> HIDE DEF Max
<1> QED
  BY <1>4

\* Of numbers there is a least.
LEMMA MinOf ==
  ASSUME NEW S, S # {}, \A x \in S : x \in Nat
  PROVE  Min(S) \in S /\ \A x \in S : Min(S) <= x
<1>1. S \subseteq Nat
  OBVIOUS
<1>2. \E x \in S : \A y \in S : ~(<<y, x>> \in OpToRel(<, Nat))
  BY <1>1, NatLessThanWellFounded, WFMin
<1>3. \A x, y \in S : ~(<<y, x>> \in OpToRel(<, Nat)) => x <= y
  BY DEF OpToRel
<1>4. \E x \in S : \A y \in S : x <= y
  BY <1>2, <1>3
<1> QED
  BY <1>4 DEF Min

LEMMA MinOfOne == ASSUME NEW a \in Int PROVE Min({a}) = a
<1>1. a \in {a} /\ \A x \in {a} : x \in Int /\ a <= x
  OBVIOUS
<1> QED
  BY <1>1, MinIs

LEMMA MinOfTwo ==
  ASSUME NEW a \in Int, NEW b \in Int
  PROVE  Min({a, b}) = IF a <= b THEN a ELSE b
<1>1. CASE a <= b
  <2>1. a \in {a, b} /\ \A x \in {a, b} : x \in Int /\ a <= x
    BY <1>1
  <2>2. Min({a, b}) = a
    BY <2>1, MinIs
  <2> QED
    BY <1>1, <2>2
<1>2. CASE ~(a <= b)
  <2>1. b \in {a, b} /\ \A x \in {a, b} : x \in Int /\ b <= x
    BY <1>2
  <2>2. Min({a, b}) = b
    BY <2>1, MinIs
  <2> QED
    BY <1>2, <2>2
<1> QED
  BY <1>1, <1>2

LEMMA MaxOfTwo ==
  ASSUME NEW a \in Int, NEW b \in Int
  PROVE  Max({a, b}) = IF a >= b THEN a ELSE b
<1>1. CASE a >= b
  <2>1. a \in {a, b} /\ \A x \in {a, b} : x \in Int /\ a >= x
    BY <1>1
  <2>2. Max({a, b}) = a
    BY <2>1, MaxIs
  <2> QED
    BY <1>1, <2>2
<1>2. CASE ~(a >= b)
  <2>1. b \in {a, b} /\ \A x \in {a, b} : x \in Int /\ b >= x
    BY <1>2
  <2>2. Max({a, b}) = b
    BY <2>1, MaxIs
  <2> QED
    BY <1>2, <2>2
<1> QED
  BY <1>1, <1>2

------------------------------------------------------------------------------
(* What is shown.                                                            *)

\* What is stored is what was sent, normalized.
ShownOK ==
  shown = <<>>
    \/ \E d \in VizSpecs :
         shown = <<[sent |-> d, stored |-> normalizeVisualization(d)]>>

\* Every step that stores normalizes first.
LEMMA ShownStep == ShownOK /\ [Next]_vars => ShownOK'
<1> SUFFICES ASSUME ShownOK, [Next]_vars PROVE ShownOK'
  OBVIOUS
<1>1. ASSUME NEW frame, Deliver(frame) PROVE ShownOK'
  <2>1. UNCHANGED shown
          \/ \E d \in VizSpecs :
               shown' = <<[sent |-> d, stored |-> normalizeVisualization(d)]>>
    BY <1>1 DEF Deliver
  <2> QED
    BY <2>1 DEF ShownOK
<1>2. UNCHANGED shown => ShownOK'
  BY DEF ShownOK
<1>3. ASSUME NEW n \in 1..Len(wire), Read(n) PROVE UNCHANGED shown
  BY <1>3 DEF Read
<1>4. CASE Split
  BY <1>1, <1>4 DEF Split
<1>5. CASE Flush
  BY <1>1, <1>5 DEF Flush
<1>6. CASE NoMore \/ Break \/ Abort \/ UNCHANGED vars
  BY <1>2, <1>6 DEF NoMore, Break, Abort, vars
<1> QED
  BY <1>2, <1>3, <1>4, <1>5, <1>6 DEF Next

\* What is shown was normalized as it was sent, whatever was sent and however
\* the body was cut (agentStream.ts:188).
THEOREM ShownIsNormalized == Spec => []ShownOK
<1>1. Init => ShownOK
  BY DEF Init, ShownOK
<1> QED
  BY <1>1, ShownStep, PTL DEF Spec

\* What a normalized visualization holds.
LEMMA StoredData ==
  ASSUME NEW d
  PROVE  LET stored == normalizeVisualization(d)
         IN  /\ stored.data = sanitizeData(d.data)
             /\ stored.scale = sanitizeScale(d.scale)
             /\ stored.theme = sanitizeTheme(d.theme)
             /\ stored.position = sanitizePosition(d.position)
             /\ stored.data.metrics = sanitizeMetrics(d.data.metrics)
             /\ stored.data.nodes = sanitizeNodes(d.data.nodes)
             /\ stored.data.links = sanitizeLinks(d.data.links, sanitizeNodes(d.data.nodes))
             /\ stored.data.points = sanitizePoints(d.data.points)
             /\ stored.data.routes = sanitizeRoutes(d.data.routes)
             /\ stored.data.series = sanitizeSeries(d.data.series)
             /\ stored.data.events = sanitizeEvents(d.data.events)
             /\ stored.data.map = sanitizeMapView(d.data.map)
  BY DEF normalizeVisualization, sanitizeData

------------------------------------------------------------------------------
(* Nodes and the links between them.                                         *)

\* Every node keeps its place and its label; one without gets one.
LEMMA NodesKept ==
  ASSUME NEW nodes, IsList(nodes)
  PROVE  /\ IsList(sanitizeNodes(nodes))
         /\ Len(sanitizeNodes(nodes)) = Len(nodes)
         /\ \A i \in 1..Len(nodes) :
              /\ nodes[i] \in {<<>>, sanitizeNodes(nodes)[i]}
              /\ sanitizeNodes(nodes)[i] # <<>>
<1> DEFINE new == sanitizeNodes(nodes)
           n == Len(nodes)
<1>1. n \in Nat /\ DOMAIN nodes = 1..n
  BY ListIsSeq
<1>2. \A i \in 1..n : <<"node", i - 1>> # <<>>
  OBVIOUS
<1>3. new = [i \in 1..n |-> IF nodes[i] = <<>> THEN <<"node", i - 1>> ELSE nodes[i]]
  BY <1>1 DEF sanitizeNodes, sanitizeLabel
<1> HIDE DEF new, n
<1>4. Len(new) = n /\ IsList(new)
  BY <1>1, <1>3 DEF IsList
<1> QED
  BY <1>2, <1>3, <1>4 DEF new, n

\* The links kept are those between two of the nodes.
LEMMA LinksAre ==
  ASSUME NEW links, IsList(links), NEW nodes
  PROVE  /\ IsList(sanitizeLinks(links, nodes))
         /\ \A pair : pair \in ToSet(sanitizeLinks(links, nodes))
                     <=> /\ pair \in ToSet(links)
                         /\ Len(pair) >= 2
                         /\ \A i \in 1..2 : pair[i] \in 0..Len(nodes) - 1
<1> DEFINE n == Len(links)
           InRange(pair) == Len(pair) >= 2 /\ \A i \in 1..2 : pair[i] \in 0..Len(nodes) - 1
           K == {k \in 1..n : InRange(links[k])}
<1>1. n \in Nat /\ DOMAIN links = 1..n /\ K \in SUBSET (1..n)
  BY ListIsSeq
<1>2. sanitizeLinks(links, nodes) = Picked(links, K)
  BY <1>1 DEF sanitizeLinks, Where
<1> HIDE DEF K
<1>3. IsList(Picked(links, K)) /\ ToSet(Picked(links, K)) = {links[k] : k \in K}
  BY <1>1, PickedList
<1>4. \A pair : pair \in {links[k] : k \in K} <=> pair \in ToSet(links) /\ InRange(pair)
  <2>1. \A i \in 1..n : links[i] \in ToSet(links)
    BY ListIsSeq
  <2>2. \A x \in ToSet(links) : \E i \in 1..n : x = links[i]
    BY ListIsSeq
  <2> QED
    BY <2>1, <2>2 DEF K
<1> QED
  BY <1>2, <1>3, <1>4

\* Links survive the normalization of the nodes they index into.
LEMMA LinksStay ==
  ASSUME NEW d \in VizSpecs, shown = <<[sent |-> d, stored |-> normalizeVisualization(d)]>>
  PROVE  LinksKept
<1> DEFINE sent == d.data
           stored == normalizeVisualization(d).data
           n == Len(sent.nodes)
           sound == {pair \in ToSet(sent.links) :
                       Len(pair) >= 2 /\ \A i \in 1..2 : pair[i] + 1 \in DOMAIN sent.nodes}
<1>1. IsList(sent.nodes) /\ sent.links \in Seq(Seq(Int))
  BY StreamAssumption DEF IsSpec
<1>2. n \in Nat /\ DOMAIN sent.nodes = 1..n /\ IsList(sent.links)
  BY <1>1, ListIsSeq, SeqIsList
<1>3. /\ stored.nodes = sanitizeNodes(sent.nodes)
      /\ stored.links = sanitizeLinks(sent.links, stored.nodes)
  BY StoredData
<1>4. /\ Len(stored.nodes) = n
      /\ \A i \in 1..n : sent.nodes[i] \in {<<>>, stored.nodes[i]}
  BY <1>1, <1>3, NodesKept
<1>5. \A pair \in ToSet(sent.links) : pair \in Seq(Int)
  <2> HIDE DEF sent
  <2>1. \A pair \in ToSet(sent.links) : \E i \in 1..Len(sent.links) : pair = sent.links[i]
    BY <1>2, ListIsSeq
  <2>2. \A i \in 1..Len(sent.links) : sent.links[i] \in Seq(Int)
    BY <1>1, ElementOfSeq
  <2> QED
    BY <2>1, <2>2
<1>6. ASSUME NEW pair
      PROVE  pair \in ToSet(stored.links) <=> pair \in sound
  <2>1. pair \in ToSet(stored.links)
          <=> /\ pair \in ToSet(sent.links)
              /\ Len(pair) >= 2
              /\ \A i \in 1..2 : pair[i] \in 0..n - 1
    <3> HIDE DEF sent, stored, n
    <3>1. pair \in ToSet(sanitizeLinks(sent.links, stored.nodes))
            <=> /\ pair \in ToSet(sent.links)
                /\ Len(pair) >= 2
                /\ \A i \in 1..2 : pair[i] \in 0..Len(stored.nodes) - 1
      BY <1>2, LinksAre
    <3> QED
      BY <1>3, <1>4, <3>1
  <2>2. ASSUME pair \in ToSet(sent.links), Len(pair) >= 2, NEW i \in 1..2
        PROVE  pair[i] \in 0..n - 1 <=> pair[i] + 1 \in 1..n
    <3>1. pair[i] \in Int
      BY <1>5, <2>2
    <3> HIDE DEF n
    <3> QED
      BY <1>2, <3>1
  <2> QED
    BY <1>2, <2>1, <2>2
<1>7. ToSet(stored.links) = sound
  BY <1>6
<1>8. ASSUME NEW pair \in sound, NEW i \in 1..2
      PROVE  sent.nodes[pair[i] + 1] \in {<<>>, stored.nodes[pair[i] + 1]}
  BY <1>2, <1>4
<1>9. ToSet(shown) = {[sent |-> d, stored |-> normalizeVisualization(d)]}
  BY DEF ToSet
<1> HIDE DEF sound
<1>10. \A s \in ToSet(shown) : s.sent.data = sent /\ s.stored.data = stored
  BY <1>9
<1> QED
  BY <1>7, <1>8, <1>10 DEF LinksKept, sound

------------------------------------------------------------------------------
(* Points and the routes between them.                                       *)

\* What is stored of the i-th point.
PointOf(p, i) ==
  [lat |-> Clamped(p.lat, -90, 90, <<0>>),
   lon |-> sanitizeLon(p.lon),
   id |-> sanitizeLabel(p.id, sanitizeLabel(p.label, <<"point", i - 1>>)),
   label |-> p.label]

ArePoints(points) ==
  /\ IsList(points)
  /\ \A p \in ToSet(points) :
       /\ p = [lat |-> p.lat, lon |-> p.lon, id |-> p.id, label |-> p.label]
       /\ {p.lat, p.lon} \subseteq Numbers

\* Every point keeps its place and gets a label, an id and coordinates.
LEMMA PointsAre ==
  ASSUME NEW points, ArePoints(points)
  PROVE  /\ IsList(sanitizePoints(points))
         /\ Len(sanitizePoints(points)) = Len(points)
         /\ \A i \in 1..Len(points) : sanitizePoints(points)[i] = PointOf(points[i], i)
<1> DEFINE new == sanitizePoints(points)
           n == Len(points)
<1>1. /\ n \in Nat /\ DOMAIN points = 1..n
      /\ \A i \in 1..n : points[i] \in ToSet(points)
  BY ListIsSeq DEF ArePoints
<1>2. ASSUME NEW i \in 1..n
      PROVE  [points[i] EXCEPT
                !.lat = Clamped(@, -90, 90, <<0>>),
                !.lon = sanitizeLon(@),
                !.id = sanitizeLabel(@, sanitizeLabel(points[i].label, <<"point", i - 1>>))]
               = PointOf(points[i], i)
  <2> DEFINE p == points[i]
  <2>1. p = [lat |-> p.lat, lon |-> p.lon, id |-> p.id, label |-> p.label]
    BY <1>1 DEF ArePoints
  <2> HIDE DEF p
  <2> DEFINE A == Clamped(p.lat, -90, 90, <<0>>)
             B == sanitizeLon(p.lon)
             C == sanitizeLabel(p.id, sanitizeLabel(p.label, <<"point", i - 1>>))
  <2> HIDE DEF A, B, C
  <2> DEFINE q == [p EXCEPT !.lat = A]
             r == [q EXCEPT !.lon = B]
  <2>2. q = [lat |-> A, lon |-> p.lon, id |-> p.id, label |-> p.label]
    BY <2>1
  <2> HIDE DEF q
  <2>3. r = [lat |-> A, lon |-> B, id |-> p.id, label |-> p.label]
    BY <2>2
  <2> HIDE DEF r
  <2>4. [r EXCEPT !.id = C] = [lat |-> A, lon |-> B, id |-> C, label |-> p.label]
    BY <2>3
  <2>5. [p EXCEPT !.lat = A, !.lon = B, !.id = C] = [r EXCEPT !.id = C]
    BY DEF q, r
  <2> QED
    BY <2>4, <2>5 DEF p, PointOf, A, B, C
<1>3. new = [i \in 1..n |-> PointOf(points[i], i)]
  BY <1>1, <1>2 DEF sanitizePoints
<1> HIDE DEF new, n
<1>4. Len(new) = n /\ IsList(new)
  BY <1>1, <1>3 DEF IsList
<1> QED
  BY <1>3, <1>4 DEF new, n

\* Drawing appends to the points.
LEMMA DrawnKeeps ==
  ASSUME NEW points, IsList(points), NEW located
  PROVE  /\ IsList(withOperator(points, located))
         /\ Len(points) <= Len(withOperator(points, located))
         /\ \A i \in 1..Len(points) : withOperator(points, located)[i] = points[i]
<1> DEFINE you == [id |-> <<"you">>, label |-> <<"YOU">>]
           T == ToSet(points) \cup {you}
<1>1. Len(points) \in Nat /\ points \in Seq(T)
  <2>1. points \in [1..Len(points) -> T] /\ Len(points) \in Nat
    BY ListIsSeq DEF IsList
  <2> QED
    BY <2>1, SeqDef
<1>2. you \in T
  OBVIOUS
<1> HIDE DEF T, you
<1>3. /\ Append(points, you) \in Seq(T)
      /\ Len(Append(points, you)) = Len(points) + 1
      /\ \A i \in 1..Len(points) : Append(points, you)[i] = points[i]
  BY <1>1, <1>2, AppendProperties
<1>4. IsList(Append(points, you))
  BY <1>3, SeqIsList
<1>5. withOperator(points, located) \in {points, Append(points, you)}
  BY DEF withOperator, you
<1>6. Len(points) <= Len(points) + 1 /\ Len(points) <= Len(points)
  BY <1>1
<1> QED
  BY <1>3, <1>4, <1>5, <1>6

\* A set of at most one element.
LEMMA OnlyOne ==
  ASSUME NEW S, IsFiniteSet(S), Cardinality(S) <= 1, NEW a \in S PROVE S = {a}
<1>1. Cardinality(S) \in Nat /\ Cardinality(S) # 0
  BY FS_CardinalityType, FS_EmptySet
<1>2. Cardinality(S) = 1
  BY <1>1
<1>3. \E x : S = {x}
  BY <1>2, FS_Singleton
<1> QED
  BY <1>3

\* What is below the divisor is its own remainder.
LEMMA SmallRest == ASSUME NEW a \in Nat, NEW n \in Nat, a < n PROVE a % n = a
  OBVIOUS

\* An end of a route that names one point drawn refers to what it referred to.
LEMMA EndStays ==
  ASSUME NEW sent, IsList(sent), NEW drawn, IsList(drawn), Len(sent) <= Len(drawn),
         \A i \in 1..Len(sent) : /\ drawn[i].label = sent[i].label
                                 /\ sent[i].id # <<>> => drawn[i].id = sent[i].id,
         NEW ref, ref # <<>>, Cardinality(Named(drawn, ref)) <= 1,
         resolveEndpoint(sent, ref) # 0
  PROVE  resolveEndpoint(drawn, ref) = resolveEndpoint(sent, ref)
<1> DEFINE n == Len(sent)
           m == Len(drawn)
           Having(points, field) == {i \in DOMAIN points : points[i][field] = ref}
           N == Named(drawn, ref)
<1>1. /\ n \in Nat /\ m \in Nat /\ n <= m
      /\ DOMAIN sent = 1..n /\ DOMAIN drawn = 1..m
      /\ \A i \in 1..n : i \in 1..m
  BY ListIsSeq
<1>2. \A points :
        resolveEndpoint(points, ref)
          = CASE ref[1] = "" -> IF ref[2] + 1 \in DOMAIN points THEN ref[2] + 1 ELSE 0
              [] ref[1] # "" /\ Having(points, "id") # {} -> Min(Having(points, "id"))
              [] OTHER -> Min(Having(points, "label") \cup {Len(points) + 1})
                            % (Len(points) + 1)
  BY DEF resolveEndpoint
<1>3. \A i \in 1..m : i \in N <=> drawn[i].id = ref \/ drawn[i].label = ref
  BY <1>1 DEF Named
<1>4. /\ Having(drawn, "id") \subseteq N /\ Having(drawn, "label") \subseteq N
      /\ \A i \in N : i \in 1..m
  BY <1>1, <1>3 DEF Named
<1>5. IsFiniteSet(N)
  <2>1. IsFiniteSet(1..m)
    BY <1>1, CountTo
  <2> QED
    BY <1>4, <2>1, FS_Subset
<1>6. \A x \in N : N = {x}
  BY <1>5, OnlyOne
<1> HIDE DEF N
<1>7. CASE ref[1] = ""
  BY <1>1, <1>2, <1>7
<1>8. CASE ref[1] # "" /\ Having(sent, "id") # {}
  <2> DEFINE a == Min(Having(sent, "id"))
  <2>1. a \in Having(sent, "id")
    <3>1. \A i \in Having(sent, "id") : i \in Nat
      BY <1>1
    <3> QED
      BY <1>8, <3>1, MinOf
  <2>2. a \in 1..n /\ sent[a].id = ref
    BY <1>1, <2>1
  <2> HIDE DEF a
  <2>3. a \in 1..m /\ drawn[a].id = ref
    BY <1>1, <2>2
  <2>4. Having(drawn, "id") = {a}
    BY <1>1, <1>3, <1>4, <1>6, <2>3
  <2>5. Min({a}) = a
    BY <1>1, <2>3, MinOfOne
  <2>6. resolveEndpoint(drawn, ref) = Min(Having(drawn, "id"))
    BY <1>2, <1>8, <2>4
  <2>7. resolveEndpoint(sent, ref) = Min(Having(sent, "id"))
    BY <1>2, <1>8
  <2> QED
    BY <2>4, <2>5, <2>6, <2>7 DEF a
<1>9. CASE ref[1] # "" /\ Having(sent, "id") = {}
  <2> DEFINE S == Having(sent, "label") \cup {n + 1}
             a == Min(S)
  <2>1. resolveEndpoint(sent, ref) = a % (n + 1)
    BY <1>2, <1>9
  <2>2. a \in S
    <3>1. \A i \in S : i \in Nat
      BY <1>1
    <3> QED
      BY <3>1, MinOf
  <2>3. a # n + 1
    <3>1. (n + 1) % (n + 1) = 0
      BY <1>1
    <3> QED
      BY <2>1, <3>1
  <2>4. a \in 1..n /\ sent[a].label = ref
    BY <1>1, <2>2, <2>3
  <2> HIDE DEF a
  <2>5. a \in 1..m /\ drawn[a].label = ref
    BY <1>1, <2>4
  <2>6. N = {a}
    BY <1>3, <1>6, <2>5
  <2>7. a % (n + 1) = a /\ a % (m + 1) = a
    <3> HIDE DEF n, m
    <3>1. a \in Nat /\ n + 1 \in Nat /\ m + 1 \in Nat /\ a < n + 1 /\ a < m + 1
      BY <1>1, <2>4, <2>5
    <3> QED
      BY <3>1, SmallRest
  <2>8. CASE Having(drawn, "id") # {}
    <3>1. Having(drawn, "id") = {a}
      BY <1>4, <2>6, <2>8
    <3>2. Min({a}) = a
      BY <1>1, <2>5, MinOfOne
    <3>3. resolveEndpoint(drawn, ref) = Min(Having(drawn, "id"))
      BY <1>2, <1>9, <2>8
    <3> QED
      BY <2>1, <2>7, <3>1, <3>2, <3>3
  <2>9. CASE Having(drawn, "id") = {}
    <3>1. Having(drawn, "label") = {a}
      BY <1>1, <1>4, <2>5, <2>6
    <3>2. Min({a, m + 1}) = a
      BY <1>1, <2>5, MinOfTwo
    <3>3. resolveEndpoint(drawn, ref) = Min(Having(drawn, "label") \cup {m + 1}) % (m + 1)
      BY <1>2, <1>9, <2>9
    <3>4. {a} \cup {m + 1} = {a, m + 1}
      OBVIOUS
    <3> QED
      BY <2>1, <2>7, <3>1, <3>2, <3>3, <3>4
  <2> QED
    BY <2>8, <2>9
<1> QED
  BY <1>7, <1>8, <1>9

\* Routes survive: sent, stored and drawn, one joins the same two points.
LEMMA RoutesStay ==
  ASSUME NEW d \in VizSpecs, shown = <<[sent |-> d, stored |-> normalizeVisualization(d)]>>
  PROVE  RoutesKept
<1> DEFINE sent == d.data
           stored == normalizeVisualization(d).data
<1>1. IsList(sent.routes) /\ ArePoints(sent.points)
  BY StreamAssumption DEF IsSpec, ArePoints
<1>2. /\ stored.points = sanitizePoints(sent.points)
      /\ stored.routes = sanitizeRoutes(sent.routes)
  BY StoredData
<1>3. ToSet(shown) = {[sent |-> d, stored |-> normalizeVisualization(d)]}
  BY DEF ToSet
<1>4. \A s \in ToSet(shown) : s.sent.data = sent /\ s.stored.data = stored
  BY <1>3
<1> HIDE DEF sent, stored
<1> DEFINE points == sent.points
           routes == stored.routes
<1> SUFFICES ASSUME NEW located \in BOOLEAN, NEW r \in ToSet(sent.routes),
                    \A ref \in {r.from, r.to} :
                      ref # <<>> /\ Cardinality(Named(withOperator(stored.points, located), ref)) <= 1,
                    resolveGlobeRoute(points, r) # <<>>
             PROVE  /\ resolveGlobeRoute(withOperator(stored.points, located), r)
                         = resolveGlobeRoute(points, r)
                    /\ r \in ToSet(routes)
                    /\ Len(routes) <= ROUTE_MAX
                         => r \in ToSet(resolved(withOperator(stored.points, located), routes))
  BY <1>4 DEF RoutesKept
<1> DEFINE drawn == withOperator(stored.points, located)
<1>5. /\ IsList(points) /\ IsList(stored.points) /\ Len(stored.points) = Len(points)
      /\ \A i \in 1..Len(points) : stored.points[i] = PointOf(points[i], i)
  BY <1>1, <1>2, PointsAre DEF ArePoints
<1>6. /\ IsList(drawn) /\ Len(points) <= Len(drawn)
      /\ \A i \in 1..Len(points) : drawn[i] = PointOf(points[i], i)
  BY <1>5, DrawnKeeps
<1>7. \A i \in 1..Len(points) : /\ drawn[i].label = points[i].label
                                /\ points[i].id # <<>> => drawn[i].id = points[i].id
  <2> HIDE DEF drawn, points
  <2> SUFFICES ASSUME NEW i \in 1..Len(points)
               PROVE  /\ drawn[i].label = points[i].label
                      /\ points[i].id # <<>> => drawn[i].id = points[i].id
    OBVIOUS
  <2>1. drawn[i] = PointOf(points[i], i)
    BY <1>6
  <2> QED
    BY <2>1 DEF PointOf, sanitizeLabel
<1> HIDE DEF drawn, points
<1>8. ASSUME NEW ref \in {r.from, r.to}
      PROVE  resolveEndpoint(drawn, ref) = resolveEndpoint(points, ref)
  <2>1. ref # <<>> /\ Cardinality(Named(drawn, ref)) <= 1
    BY DEF drawn
  <2>2. resolveEndpoint(points, ref) # 0
    BY DEF resolveGlobeRoute
  <2> QED
    BY <1>5, <1>6, <1>7, <2>1, <2>2, EndStays
<1>9. resolveGlobeRoute(drawn, r) = resolveGlobeRoute(points, r)
  BY <1>8 DEF resolveGlobeRoute
<1>10. IsList(routes) /\ r \in ToSet(routes)
  <2> DEFINE n == Len(sent.routes)
             K == {k \in 1..n : sent.routes[k].from # <<>> /\ sent.routes[k].to # <<>>}
  <2>1. n \in Nat /\ DOMAIN sent.routes = 1..n /\ K \in SUBSET (1..n)
    BY <1>1, ListIsSeq
  <2>2. routes = Picked(sent.routes, K)
    BY <1>2, <2>1 DEF sanitizeRoutes, Where
  <2>3. PICK k \in 1..n : r = sent.routes[k]
    BY <1>1, ListIsSeq
  <2>4. k \in K
    BY <2>3
  <2> HIDE DEF K, routes, n
  <2>5. IsList(routes) /\ ToSet(routes) = {sent.routes[j] : j \in K}
    BY <2>1, <2>2, PickedList
  <2> QED
    BY <2>3, <2>4, <2>5
<1> HIDE DEF routes
<1>11. ASSUME Len(routes) <= ROUTE_MAX
       PROVE  r \in ToSet(resolved(drawn, routes))
  <2> DEFINE n == Len(routes)
             K == {k \in 1..n : resolveGlobeRoute(drawn, routes[k]) # <<>>}
  <2>1. n \in Nat /\ DOMAIN routes = 1..n /\ K \in SUBSET (1..n)
    BY <1>10, ListIsSeq
  <2>2. Min({ROUTE_MAX, n}) = n
    <3> HIDE DEF n
    <3>1. n \in Int /\ 24 \in Int /\ n <= 24
      BY <1>11, <2>1 DEF n, ROUTE_MAX
    <3>2. Min({24, n}) = n
      BY <3>1, MinOfTwo
    <3> QED
      BY <3>2 DEF ROUTE_MAX
  <2>3. SubSeq(routes, 1, n) = routes
    <3>1. routes = [i \in 1..n |-> routes[i]] /\ routes \in Seq(ToSet(routes))
      BY <1>10, ListIsSeq DEF IsList
    <3> QED
      BY <2>1, <3>1, SubSeqFull
  <2>4. resolved(drawn, routes) = Picked(routes, K)
    BY <2>1, <2>2, <2>3 DEF resolved, Where
  <2>5. PICK k \in 1..n : r = routes[k]
    BY <1>10, ListIsSeq
  <2>6. k \in K
    BY <1>9, <2>5 DEF points
  <2> HIDE DEF K, n
  <2>7. ToSet(Picked(routes, K)) = {routes[j] : j \in K}
    BY <2>1, PickedList
  <2> QED
    BY <2>4, <2>5, <2>6, <2>7
<1> QED
  BY <1>9, <1>10, <1>11 DEF points, drawn

\* A link stored joins the nodes it joined, a route the points
\* (LinksJoinTheSameNodes).
THEOREM LinksStaySound == Spec => []LinksJoinTheSameNodes
<1>1. ShownOK => LinksJoinTheSameNodes
  <2>1. CASE shown = <<>>
    <3>1. ToSet(shown) = {}
      BY <2>1 DEF ToSet
    <3> QED
      BY <3>1 DEF LinksJoinTheSameNodes, LinksKept, RoutesKept
  <2> QED
    BY <2>1, LinksStay, RoutesStay DEF ShownOK, LinksJoinTheSameNodes
<1> QED
  BY <1>1, ShownIsNormalized, PTL

------------------------------------------------------------------------------
(* Labels.                                                                   *)

\* The label before its number.
LEMMA Numbered ==
  ASSUME NEW label, IsList(label), NEW k \in Int
  PROVE  /\ IsList(Append(label, k)) /\ Append(label, k) # <<>>
         /\ Append(label, k)[Len(label) + 1] = k
<1> DEFINE T == ToSet(label) \cup Int
<1>1. Len(label) \in Nat /\ label \in Seq(T) /\ k \in T
  <2>1. label \in [1..Len(label) -> T] /\ Len(label) \in Nat
    BY ListIsSeq DEF IsList
  <2> QED
    BY <2>1, SeqDef
<1> HIDE DEF T
<1>2. /\ Append(label, k) \in Seq(T)
      /\ Len(Append(label, k)) = Len(label) + 1
      /\ Append(label, k)[Len(label) + 1] = k
  BY <1>1, AppendProperties
<1>3. Len(Append(label, k)) # 0
  BY <1>1, <1>2
<1>4. Append(label, k) # <<>>
  BY <1>3
<1> QED
  BY <1>2, <1>4, SeqIsList

\* The number that is looked up is found: a used label has fewer successors in
\* use than are tried.
LEMMA FreshIsNew ==
  ASSUME NEW label, IsList(label), NEW used, IsFiniteSet(used)
  PROVE  /\ Fresh(label, used) \notin used
         /\ IsList(Fresh(label, used))
         /\ label # <<>> => Fresh(label, used) # <<>>
<1> DEFINE c == Cardinality(used)
           M == {k \in 2..c + 2 : Append(label, k) \notin used}
<1>1. c \in Nat
  BY FS_CardinalityType
<1>2. CASE label \notin used
  BY <1>2 DEF Fresh
<1>3. CASE label \in used
  <2>1. M # {}
    <3>1. SUFFICES ASSUME \A k \in 2..c + 2 : Append(label, k) \in used PROVE FALSE
      OBVIOUS
    <3> DEFINE f == [k \in 2..c + 2 |-> Append(label, k)]
    <3>2. f \in [2..c + 2 -> used]
      BY <3>1
    <3>3. IsFiniteSet(2..c + 2) /\ Cardinality(2..c + 2) = c + 1
      <4>1. 2 \in Int /\ c + 2 \in Int /\ ~(2 > c + 2) /\ (c + 2) - 2 + 1 = c + 1
        BY <1>1
      <4> QED
        BY <4>1, FS_Interval
    <3>4. Cardinality(used) < Cardinality(2..c + 2)
      <4> HIDE DEF f
      <4> QED
        BY <1>1, <3>3
    <3>5. \E j, k \in 2..c + 2 : j # k /\ f[j] = f[k]
      <4> DEFINE D == 2..c + 2
      <4>1. f \in [D -> used] /\ IsFiniteSet(D) /\ Cardinality(used) < Cardinality(D)
        BY <3>2, <3>3, <3>4
      <4> HIDE DEF f, D
      <4>2. \E j, k \in D : j # k /\ f[j] = f[k]
        BY <4>1, FS_PigeonHole
      <4> QED
        BY <4>2 DEF D
    <3>6. PICK j \in 2..c + 2, k \in 2..c + 2 : j # k /\ Append(label, j) = Append(label, k)
      BY <3>5
    <3>7. j \in Int /\ k \in Int
      BY <1>1
    <3> QED
      BY <3>6, <3>7, Numbered
  <2>2. \A k \in M : k \in Nat
    BY <1>1
  <2>3. Min(M) \in M
    BY <2>1, <2>2, MinOf
  <2>4. Fresh(label, used) = Append(label, Min(M))
    BY <1>3 DEF Fresh
  <2> DEFINE k == Min(M)
  <2>5. k \in Int /\ Append(label, k) \notin used
    BY <2>2, <2>3
  <2> HIDE DEF M, k
  <2> QED
    BY <2>4, <2>5, Numbered DEF k
<1> QED
  BY <1>2, <1>3

\* f numbers the first m labels.
NumbersFirst(labels, f, m) ==
  /\ f = [i \in 1..m |-> f[i]]
  /\ \A i \in 1..m : f[i] = Fresh(labels[i], {f[j] : j \in 1..i - 1})

\* One more label can be numbered.
LEMMA NumberedFurther ==
  ASSUME NEW labels, NEW m \in Nat, NEW g, NumbersFirst(labels, g, m)
  PROVE  \E f : NumbersFirst(labels, f, m + 1)
<1> DEFINE last == Fresh(labels[m + 1], {g[j] : j \in 1..m})
           f == [i \in 1..m + 1 |-> IF i <= m THEN g[i] ELSE last]
<1>1. ASSUME NEW i \in 1..m + 1
      PROVE  f[i] = Fresh(labels[i], {f[j] : j \in 1..i - 1})
  <2>1. i \in Nat /\ i <= m + 1 /\ \A j \in 1..i - 1 : j \in 1..m + 1 /\ j <= m
    OBVIOUS
  <2>2. {f[j] : j \in 1..i - 1} = {g[j] : j \in 1..i - 1}
    <3>1. \A j \in 1..i - 1 : f[j] = g[j]
      BY <2>1
    <3> HIDE DEF f
    <3> QED
      BY <3>1
  <2>3. CASE i <= m
    <3>1. i \in 1..m /\ f[i] = g[i]
      BY <2>3
    <3>2. g[i] = Fresh(labels[i], {g[j] : j \in 1..i - 1})
      BY <3>1 DEF NumbersFirst
    <3> QED
      BY <2>2, <3>1, <3>2
  <2>4. CASE ~(i <= m)
    <3>1. i = m + 1 /\ i - 1 = m
      BY <2>1, <2>4
    <3>2. f[i] = last
      BY <2>4
    <3> QED
      BY <2>2, <3>1, <3>2
  <2> QED
    BY <2>3, <2>4
<1>2. f = [i \in 1..m + 1 |-> f[i]]
  OBVIOUS
<1> HIDE DEF f
<1>3. NumbersFirst(labels, f, m + 1)
  BY <1>1, <1>2 DEF NumbersFirst
<1> QED
  BY <1>3

\* All of them can be numbered.
LEMMA AllNumbered ==
  ASSUME NEW labels, NEW n \in Nat PROVE \E f : NumbersFirst(labels, f, n)
<1> DEFINE Bad == {m \in Nat : ~\E f : NumbersFirst(labels, f, m)}
<1>1. SUFFICES Bad = {}
  OBVIOUS
<1>2. SUFFICES ASSUME Bad # {} PROVE FALSE
  OBVIOUS
<1> DEFINE m == Min(Bad)
<1>3. m \in Bad /\ \A k \in Bad : m <= k
  BY <1>2, MinOf
<1> HIDE DEF m
<1>4. NumbersFirst(labels, <<>>, 0)
  BY DEF NumbersFirst
<1>5. m \in Nat /\ m # 0
  BY <1>3, <1>4
<1>6. m - 1 \in Nat /\ ~(m <= m - 1) /\ m - 1 + 1 = m
  BY <1>5
<1>7. PICK g : NumbersFirst(labels, g, m - 1)
  BY <1>3, <1>6
<1>8. \E f : NumbersFirst(labels, f, m)
  BY <1>6, <1>7, NumberedFurther
<1> QED
  BY <1>3, <1>8

\* Each label is new among those before it.
LEMMA LabelsAre ==
  ASSUME NEW labels, IsList(labels)
  PROVE  NumbersFirst(labels, uniqueLabels(labels), Len(labels))
<1> DEFINE n == Len(labels)
           Eq(f) == f = [i \in DOMAIN labels |-> Fresh(labels[i], {f[j] : j \in 1..i - 1})]
<1>1. n \in Nat /\ DOMAIN labels = 1..n
  BY ListIsSeq
<1> HIDE DEF n
<1>2. PICK f : NumbersFirst(labels, f, n)
  BY <1>1, AllNumbered
<1> DEFINE g == [i \in 1..n |-> f[i]]
<1>3. Eq(g)
  <2>1. \A i \in 1..n : f[i] = Fresh(labels[i], {f[j] : j \in 1..i - 1})
    BY <1>2 DEF NumbersFirst
  <2>2. ASSUME NEW i \in 1..n PROVE {g[j] : j \in 1..i - 1} = {f[j] : j \in 1..i - 1}
    <3>1. \A j \in 1..i - 1 : g[j] = f[j]
      BY <1>1
    <3> HIDE DEF g
    <3> QED
      BY <3>1
  <2>3. \A i \in 1..n : g[i] = Fresh(labels[i], {g[j] : j \in 1..i - 1})
    BY <2>1, <2>2
  <2>4. g = [i \in 1..n |-> g[i]]
    OBVIOUS
  <2> HIDE DEF g
  <2> QED
    BY <1>1, <2>3, <2>4
<1> DEFINE u == CHOOSE h : Eq(h)
<1> HIDE DEF g
<1>4. Eq(u)
  <2> HIDE DEF Eq
  <2> QED
    BY <1>3
<1>5. uniqueLabels(labels) = u
  BY DEF uniqueLabels
<1> HIDE DEF u
<1>6. NumbersFirst(labels, u, n)
  BY <1>1, <1>4 DEF NumbersFirst
<1> QED
  BY <1>5, <1>6 DEF n

\* No label is used twice.
LEMMA LabelsDiffer ==
  ASSUME NEW labels, IsList(labels), \A i \in 1..Len(labels) : IsList(labels[i])
  PROVE  LET unique == uniqueLabels(labels)
         IN  /\ IsList(unique) /\ Len(unique) = Len(labels)
             /\ \A i \in 1..Len(labels) :
                  /\ IsList(unique[i])
                  /\ labels[i] # <<>> => unique[i] # <<>>
             /\ \A i, j \in 1..Len(labels) : unique[i] = unique[j] => i = j
<1> DEFINE n == Len(labels)
           u == uniqueLabels(labels)
           Used(i) == {u[j] : j \in 1..i - 1}
<1>1. n \in Nat
  BY ListIsSeq
<1>2. /\ u = [i \in 1..n |-> u[i]]
      /\ \A i \in 1..n : u[i] = Fresh(labels[i], Used(i))
  BY LabelsAre DEF NumbersFirst
<1> HIDE DEF n, u
<1>4. ASSUME NEW i \in 1..n
      PROVE  /\ u[i] \notin Used(i)
             /\ IsList(u[i])
             /\ labels[i] # <<>> => u[i] # <<>>
  <2>1. IsFiniteSet(Used(i))
    <3> DEFINE D == 1..i - 1
               h == [j \in D |-> u[j]]
    <3>1. IsFiniteSet(D)
      <4>1. i - 1 \in Nat
        BY <1>1
      <4> QED
        BY <4>1, CountTo
    <3>2. h \in Surjection(D, Used(i))
      BY DEF Surjection
    <3> HIDE DEF D, h, Used
    <3> QED
      BY <3>1, <3>2, FS_Surjection
  <2>2. IsList(labels[i])
    BY DEF n
  <2> HIDE DEF Used
  <2> QED
    BY <1>2, <2>1, <2>2, FreshIsNew
<1>5. \A i, j \in 1..n : i < j => u[i] # u[j]
  BY <1>1, <1>4
<1>6. ASSUME NEW i \in 1..n, NEW j \in 1..n, u[i] = u[j] PROVE i = j
  <2>1. i \in Int /\ j \in Int /\ ~(i < j) /\ ~(j < i)
    BY <1>1, <1>5, <1>6
  <2> QED
    BY <2>1
<1>7. IsList(u) /\ Len(u) = n
  BY <1>1, <1>2 DEF IsList
<1> QED
  BY <1>4, <1>6, <1>7 DEF n, u

\* Labels that differ are left alone.
LEMMA DifferentStay ==
  ASSUME NEW labels, IsList(labels),
         \A i, j \in 1..Len(labels) : labels[i] = labels[j] => i = j
  PROVE  uniqueLabels(labels) = labels
<1> DEFINE n == Len(labels)
           u == uniqueLabels(labels)
           Bad == {i \in 1..n : u[i] # labels[i]}
<1>1. n \in Nat /\ labels = [i \in 1..n |-> labels[i]]
  BY DEF IsList
<1>2. \A i \in 1..n : u[i] = Fresh(labels[i], {u[j] : j \in 1..i - 1})
  BY LabelsAre DEF NumbersFirst
<1>3. u = [i \in 1..n |-> u[i]]
  BY LabelsAre DEF NumbersFirst
<1>4. Bad = {}
  <2>1. SUFFICES ASSUME Bad # {} PROVE FALSE
    OBVIOUS
  <2> DEFINE m == Min(Bad)
  <2>2. m \in Bad /\ \A k \in Bad : m <= k
    <3>1. \A k \in Bad : k \in Nat
      BY <1>1
    <3> HIDE DEF Bad
    <3> QED
      BY <2>1, <3>1, MinOf
  <2> HIDE DEF m, u
  <2>3. m \in 1..n /\ u[m] # labels[m]
    BY <2>2
  <2>4. \A j \in 1..m - 1 : j \in 1..n /\ u[j] = labels[j] /\ j # m
    <3>1. \A j \in 1..m - 1 : j \in 1..n /\ ~(m <= j)
      BY <1>1, <2>3
    <3> QED
      BY <2>2, <3>1
  <2>5. labels[m] \notin {u[j] : j \in 1..m - 1}
    BY <2>3, <2>4 DEF n
  <2>6. u[m] = labels[m]
    BY <1>2, <2>3, <2>5 DEF Fresh
  <2> QED
    BY <2>3, <2>6
<1> QED
  BY <1>1, <1>3, <1>4

------------------------------------------------------------------------------
(* Series.                                                                   *)

\* A series as it is stored.
StoredSeries(s) ==
  s = [label |-> s.label, points |-> TRUE] /\ IsList(s.label) /\ s.label # <<>>

AreStoredSeries(series) ==
  /\ IsList(series)
  /\ \A i \in 1..Len(series) : StoredSeries(series[i])
  /\ \A i, j \in 1..Len(series) : series[i].label = series[j].label => i = j

\* A label with its number.
LEMMA PairIsList == ASSUME NEW a, NEW b PROVE IsList(<<a, b>>) /\ <<a, b>> # <<>>
  BY DEF IsList

\* The series that are stored have points, and labels of their own.
LEMMA SeriesAreStored ==
  ASSUME NEW series, IsList(series),
         \A s \in ToSet(series) :
           /\ s = [label |-> s.label, points |-> s.points]
           /\ IsList(s.label) /\ s.points \in BOOLEAN
  PROVE  AreStoredSeries(sanitizeSeries(series))
<1> DEFINE n == Len(series)
           new == [i \in 1..n |->
                     [series[i] EXCEPT !.label = sanitizeLabel(@, <<"SERIES", i - 1>>)]]
           K == {i \in 1..n : new[i].points}
           kept == Picked(new, K)
           m == Len(kept)
           labels == [i \in 1..m |-> kept[i].label]
           u == uniqueLabels(labels)
           stored == [i \in 1..m |-> [kept[i] EXCEPT !.label = u[i]]]
<1>1. n \in Nat /\ DOMAIN series = 1..n /\ \A i \in 1..n : series[i] \in ToSet(series)
  BY ListIsSeq
<1>2. ASSUME NEW i \in K PROVE StoredSeries(new[i])
  <2> DEFINE s == series[i]
             l == sanitizeLabel(s.label, <<"SERIES", i - 1>>)
  <2>1. /\ s = [label |-> s.label, points |-> s.points]
        /\ IsList(s.label) /\ s.points \in BOOLEAN
    BY <1>1
  <2>2. IsList(l) /\ l # <<>>
    BY <2>1, PairIsList DEF sanitizeLabel
  <2> HIDE DEF l
  <2>3. new[i] = [s EXCEPT !.label = l] /\ new[i].points
    BY DEF l
  <2> HIDE DEF s, new
  <2>4. [s EXCEPT !.label = l] = [label |-> l, points |-> s.points]
    BY <2>1
  <2>5. new[i].points = s.points /\ new[i].label = l
    BY <2>3, <2>4
  <2>6. s.points = TRUE
    BY <2>1, <2>3, <2>5
  <2> QED
    BY <2>2, <2>3, <2>4, <2>5, <2>6 DEF StoredSeries
<1>3. K \in SUBSET (1..n)
  OBVIOUS
<1>4. sanitizeSeries(series)
        = LET numbered == new
              k == Picked(numbered, {i \in 1..n : numbered[i].points})
              ls == uniqueLabels([i \in DOMAIN k |-> k[i].label])
          IN  [i \in DOMAIN k |-> [k[i] EXCEPT !.label = ls[i]]]
  BY <1>1 DEF sanitizeSeries, Where
<1> HIDE DEF n, new, K
<1>5. /\ IsList(kept) /\ m \in Nat /\ DOMAIN kept = 1..m
      /\ \A i \in 1..m : StoredSeries(kept[i])
  <2>1. IsList(kept) /\ ToSet(kept) = {new[k] : k \in K}
    BY <1>1, <1>3, PickedList
  <2>2. m \in Nat /\ DOMAIN kept = 1..m /\ \A i \in 1..m : kept[i] \in ToSet(kept)
    BY <2>1, ListIsSeq
  <2> QED
    BY <1>2, <2>1, <2>2
<1>6. sanitizeSeries(series) = stored
  BY <1>4, <1>5 DEF K
<1> HIDE DEF kept, m
<1>7. IsList(labels) /\ Len(labels) = m
  BY <1>5 DEF IsList
<1>8. \A i \in 1..m : IsList(labels[i]) /\ labels[i] # <<>>
  BY <1>5 DEF StoredSeries
<1> HIDE DEF labels
<1>9. /\ \A i \in 1..m : IsList(u[i]) /\ u[i] # <<>>
      /\ \A i, j \in 1..m : u[i] = u[j] => i = j
  BY <1>7, <1>8, LabelsDiffer
<1> HIDE DEF u
<1>10. ASSUME NEW i \in 1..m PROVE StoredSeries(stored[i]) /\ stored[i].label = u[i]
  <2>1. stored[i] = [kept[i] EXCEPT !.label = u[i]]
    OBVIOUS
  <2>2. kept[i] = [label |-> kept[i].label, points |-> TRUE]
    BY <1>5 DEF StoredSeries
  <2>3. [kept[i] EXCEPT !.label = u[i]] = [label |-> u[i], points |-> TRUE]
    <3> DEFINE k == kept[i]
               l == u[i]
    <3> HIDE DEF k, l
    <3>1. k = [label |-> k.label, points |-> k.points] /\ k.points = TRUE
      <4>1. k = [label |-> k.label, points |-> TRUE]
        BY <2>2 DEF k
      <4>2. k.points = TRUE
        BY <4>1
      <4> QED
        BY <4>1, <4>2
    <3>2. [k EXCEPT !.label = l] = [label |-> l, points |-> k.points]
      BY <3>1
    <3> QED
      BY <3>1, <3>2 DEF k, l
  <2> HIDE DEF stored
  <2>4. stored[i] = [label |-> u[i], points |-> TRUE]
    BY <2>1, <2>3
  <2> QED
    BY <1>9, <2>4 DEF StoredSeries
<1>11. IsList(stored) /\ Len(stored) = m
  BY <1>5 DEF IsList
<1> HIDE DEF stored
<1> QED
  BY <1>6, <1>9, <1>10, <1>11 DEF AreStoredSeries

\* Storing them again changes nothing.
LEMMA SeriesStay ==
  ASSUME NEW series, AreStoredSeries(series) PROVE sanitizeSeries(series) = series
<1> DEFINE n == Len(series)
           new == [i \in 1..n |->
                     [series[i] EXCEPT !.label = sanitizeLabel(@, <<"SERIES", i - 1>>)]]
           K == {i \in 1..n : series[i].points}
           labels == [i \in 1..n |-> series[i].label]
<1>1. /\ n \in Nat /\ DOMAIN series = 1..n /\ series = [i \in 1..n |-> series[i]]
      /\ IsList(series)
  BY ListIsSeq DEF AreStoredSeries, IsList
<1>2. ASSUME NEW i \in 1..n
      PROVE  /\ series[i] = [label |-> series[i].label, points |-> TRUE]
             /\ [series[i] EXCEPT !.label = sanitizeLabel(@, <<"SERIES", i - 1>>)] = series[i]
             /\ [series[i] EXCEPT !.label = series[i].label] = series[i]
             /\ series[i].points
  <2>1. series[i] = [label |-> series[i].label, points |-> TRUE] /\ series[i].label # <<>>
    BY DEF AreStoredSeries, StoredSeries
  <2>2. sanitizeLabel(series[i].label, <<"SERIES", i - 1>>) = series[i].label
    BY <2>1 DEF sanitizeLabel
  <2>3. [series[i] EXCEPT !.label = series[i].label] = series[i]
    BY <2>1
  <2> QED
    BY <2>1, <2>2, <2>3
<1>3. new = series
  BY <1>1, <1>2
<1>4. K = 1..n
  BY <1>2
<1> DEFINE k == Picked(new, {i \in 1..n : new[i].points})
           Named1(ls) == [i \in DOMAIN k |-> [k[i] EXCEPT !.label = ls[i]]]
<1>5. sanitizeSeries(series) = Named1(uniqueLabels([i \in DOMAIN k |-> k[i].label]))
  BY <1>1 DEF sanitizeSeries, Where
<1>6. k = series
  <2> HIDE DEF new
  <2>1. {i \in 1..n : new[i].points} = 1..n
    BY <1>3, <1>4
  <2> QED
    BY <1>1, <1>3, <2>1, PickedAll
<1>7. sanitizeSeries(series)
        = [i \in 1..n |-> [series[i] EXCEPT !.label = uniqueLabels(labels)[i]]]
  <2> HIDE DEF k
  <2>1. [i \in DOMAIN k |-> k[i].label] = labels
    BY <1>1, <1>6
  <2> HIDE DEF labels
  <2>2. sanitizeSeries(series) = Named1(uniqueLabels(labels))
    BY <1>5, <2>1
  <2> QED
    BY <1>1, <1>6, <2>2
<1>8. uniqueLabels(labels) = labels
  <2>1. IsList(labels) /\ Len(labels) = n
    BY <1>1 DEF IsList
  <2>2. \A i, j \in 1..n : labels[i] = labels[j] => i = j
    BY DEF AreStoredSeries
  <2> HIDE DEF labels, n
  <2> QED
    BY <2>1, <2>2, DifferentStay
<1>9. \A i \in 1..n : [series[i] EXCEPT !.label = labels[i]] = series[i]
  BY <1>2
<1> QED
  BY <1>1, <1>7, <1>8, <1>9

------------------------------------------------------------------------------
(* Numbers, metrics, nodes, links, points and routes as they are stored.     *)

\* A number that may be missing.
LEMMA NumbersAre ==
  ASSUME NEW x \in Numbers PROVE x = <<>> \/ (x # <<>> /\ x[1] \in Int /\ x = <<x[1]>>)
<1>1. x \in Seq(Int) /\ Len(x) <= 1 /\ Len(x) \in Nat
  BY DEF Numbers
<1>2. CASE Len(x) = 0
  <2>1. x = <<>>
    BY <1>1, <1>2, EmptySeq
  <2> QED
    BY <2>1, Zenon
<1>3. CASE Len(x) = 1
  <2>1. x \in [1..1 -> Int]
    BY <1>1, <1>3, LenProperties
  <2>2. x = [i \in 1..1 |-> x[i]]
    BY <2>1
  <2>3. x = <<x[1]>>
    BY <1>1, <1>3, <2>2
  <2>4. Len(<<>>) = 0
    OBVIOUS
  <2>5. x # <<>>
    BY <1>3, <2>4
  <2>6. x[1] \in Int
    BY <2>1
  <2> QED
    BY <2>3, <2>5, <2>6, Zenon
<1>4. Len(x) = 0 \/ Len(x) = 1
  <2> DEFINE k == Len(x)
  <2>1. k \in Nat /\ k <= 1
    BY <1>1
  <2> HIDE DEF k
  <2>2. k = 0 \/ k = 1
    BY <2>1
  <2> QED
    BY <2>2 DEF k
<1> QED
  BY <1>2, <1>3, <1>4, Zenon

\* What is stored of a number in a range.
NumberIn(x, low, high) == x = <<x[1]>> /\ x[1] \in low..high

\* What is clamped is in the range.
LEMMA ClampedIs ==
  ASSUME NEW low \in Int, NEW high \in Int, low <= high, NEW x \in Numbers,
         NEW k \in low..high
  PROVE  NumberIn(Clamped(x, low, high, <<k>>), low, high)
<1>1. CASE x = <<>>
  BY <1>1 DEF Clamped, NumberIn
<1>2. CASE x # <<>>
  <2> DEFINE y == Min({high, x[1]})
             z == Max({low, y})
  <2>1. x[1] \in Int
    BY <1>2, NumbersAre
  <2>2. y = IF high <= x[1] THEN high ELSE x[1]
    BY <2>1, MinOfTwo
  <2>3. y \in Int /\ y <= high
    BY <2>1, <2>2
  <2> HIDE DEF y
  <2>4. z = IF low >= y THEN low ELSE y
    BY <2>3, MaxOfTwo
  <2>5. z \in low..high
    BY <2>3, <2>4
  <2>6. Clamped(x, low, high, <<k>>) = <<z>>
    BY <1>2 DEF Clamped, y
  <2> HIDE DEF z
  <2> QED
    BY <2>5, <2>6 DEF NumberIn
<1> QED
  BY <1>1, <1>2

\* Clamping again changes nothing.
LEMMA ClampedStays ==
  ASSUME NEW low \in Int, NEW high \in Int, NEW x, NumberIn(x, low, high), NEW k
  PROVE  Clamped(x, low, high, k) = x
<1> DEFINE v == x[1]
<1>1. x # <<>> /\ x = <<v>> /\ v \in Int /\ v >= low /\ v <= high
  BY DEF NumberIn
<1> HIDE DEF v
<1>2. Min({high, v}) = v
  BY <1>1, MinOfTwo
<1>3. Max({low, v}) = v
  BY <1>1, MaxOfTwo
<1> QED
  BY <1>1, <1>2, <1>3 DEF Clamped, v

\* What a stored metric is.
StoredMetric(m) ==
  m = [label |-> m.label, value |-> m.value] /\ m.label # <<>> /\ NumberIn(m.value, 0, 100)

\* The metrics that are stored have a label and a value in 0..100.
LEMMA MetricsAreStored ==
  ASSUME NEW metrics, IsList(metrics),
         \A m \in ToSet(metrics) :
           m = [label |-> m.label, value |-> m.value] /\ m.value \in Numbers
  PROVE  /\ IsList(sanitizeMetrics(metrics))
         /\ \A i \in 1..Len(sanitizeMetrics(metrics)) : StoredMetric(sanitizeMetrics(metrics)[i])
<1> DEFINE n == Len(metrics)
           K == {i \in 1..n : metrics[i].label # <<>>}
           kept == Picked(metrics, K)
           c == Len(kept)
           stored == [i \in 1..c |-> [kept[i] EXCEPT !.value = Clamped(@, 0, 100, <<0>>)]]
<1>1. n \in Nat /\ DOMAIN metrics = 1..n /\ \A i \in 1..n : metrics[i] \in ToSet(metrics)
  BY ListIsSeq
<1>2. IsList(kept) /\ ToSet(kept) = {metrics[k] : k \in K}
  <2>1. K \in SUBSET (1..n)
    OBVIOUS
  <2> HIDE DEF K, n
  <2> QED
    BY <1>1, <2>1, PickedList
<1>3. c \in Nat /\ DOMAIN kept = 1..c /\ \A i \in 1..c : kept[i] \in ToSet(kept)
  BY <1>2, ListIsSeq
<1>4. sanitizeMetrics(metrics) = stored
  BY <1>1, <1>3 DEF sanitizeMetrics, Where
<1>5. \A i \in 1..c : kept[i] \in ToSet(metrics) /\ kept[i].label # <<>>
  BY <1>1, <1>2, <1>3
<1> HIDE DEF kept, c
<1>6. ASSUME NEW i \in 1..c PROVE StoredMetric(stored[i])
  <2> DEFINE m == kept[i]
             v == Clamped(m.value, 0, 100, <<0>>)
  <2>1. stored[i] = [m EXCEPT !.value = v]
    OBVIOUS
  <2>2. m = [label |-> m.label, value |-> m.value] /\ m.value \in Numbers /\ m.label # <<>>
    BY <1>5
  <2> HIDE DEF m, stored
  <2>3. NumberIn(v, 0, 100)
    <3>1. 0 \in Int /\ 100 \in Int /\ 0 <= 100 /\ 0 \in 0..100
      OBVIOUS
    <3>2. NumberIn(Clamped(m.value, 0, 100, <<0>>), 0, 100)
      BY <2>2, <3>1, ClampedIs
    <3> QED
      BY <3>2
  <2> HIDE DEF v
  <2>4. [m EXCEPT !.value = v] = [label |-> m.label, value |-> v]
    BY <2>2
  <2> QED
    BY <2>1, <2>2, <2>3, <2>4 DEF StoredMetric
<1>7. IsList(stored) /\ Len(stored) = c
  BY <1>3 DEF IsList
<1> HIDE DEF stored
<1> QED
  BY <1>4, <1>6, <1>7

\* Storing them again changes nothing.
LEMMA MetricsStay ==
  ASSUME NEW metrics, IsList(metrics), \A i \in 1..Len(metrics) : StoredMetric(metrics[i])
  PROVE  sanitizeMetrics(metrics) = metrics
<1> DEFINE n == Len(metrics)
           kept == Picked(metrics, {i \in 1..n : metrics[i].label # <<>>})
<1>1. n \in Nat /\ DOMAIN metrics = 1..n /\ metrics = [i \in 1..n |-> metrics[i]]
  BY ListIsSeq DEF IsList
<1>2. sanitizeMetrics(metrics)
        = [i \in DOMAIN kept |-> [kept[i] EXCEPT !.value = Clamped(@, 0, 100, <<0>>)]]
  BY <1>1 DEF sanitizeMetrics, Where
<1>3. kept = metrics
  <2>1. {i \in 1..n : metrics[i].label # <<>>} = 1..n
    BY DEF StoredMetric
  <2> QED
    BY <2>1, PickedAll
<1> HIDE DEF kept
<1>4. ASSUME NEW i \in 1..n
      PROVE  [metrics[i] EXCEPT !.value = Clamped(@, 0, 100, <<0>>)] = metrics[i]
  <2> DEFINE m == metrics[i]
  <2>1. m = [label |-> m.label, value |-> m.value] /\ NumberIn(m.value, 0, 100)
    BY DEF StoredMetric
  <2> HIDE DEF m
  <2>2. Clamped(m.value, 0, 100, <<0>>) = m.value
    BY <2>1, ClampedStays, SMTT(30)
  <2>3. [m EXCEPT !.value = m.value] = m
    BY <2>1
  <2> QED
    BY <2>2, <2>3 DEF m
<1> QED
  BY <1>1, <1>2, <1>3, <1>4

\* Nodes that are stored stay as they are.
LEMMA NodesStay ==
  ASSUME NEW nodes, IsList(nodes), \A i \in 1..Len(nodes) : nodes[i] # <<>>
  PROVE  sanitizeNodes(nodes) = nodes
<1> DEFINE n == Len(nodes)
<1>1. n \in Nat /\ DOMAIN nodes = 1..n /\ nodes = [i \in 1..n |-> nodes[i]]
  BY ListIsSeq DEF IsList
<1> QED
  BY <1>1 DEF sanitizeNodes, sanitizeLabel

\* Links that are stored stay as they are.
LEMMA LinksStored ==
  ASSUME NEW links, IsList(links), NEW nodes
  PROVE  sanitizeLinks(sanitizeLinks(links, nodes), nodes) = sanitizeLinks(links, nodes)
<1> DEFINE new == sanitizeLinks(links, nodes)
           n == Len(new)
           InRange(pair) == Len(pair) >= 2 /\ \A i \in 1..2 : pair[i] \in 0..Len(nodes) - 1
           K == {k \in 1..n : InRange(new[k])}
<1>1. IsList(new) /\ \A pair \in ToSet(new) : InRange(pair)
  BY LinksAre
<1> HIDE DEF new, InRange
<1>2. n \in Nat /\ DOMAIN new = 1..n /\ \A i \in 1..n : new[i] \in ToSet(new)
  BY <1>1, ListIsSeq
<1>3. K = 1..n
  BY <1>1, <1>2
<1>4. sanitizeLinks(new, nodes) = Picked(new, K)
  BY <1>2 DEF sanitizeLinks, Where, InRange
<1> QED
  BY <1>1, <1>3, <1>4, PickedAll DEF new

\* Routes that are stored stay as they are.
LEMMA RoutesStored ==
  ASSUME NEW routes, IsList(routes)
  PROVE  sanitizeRoutes(sanitizeRoutes(routes)) = sanitizeRoutes(routes)
<1> DEFINE Pass(r) == r.from # <<>> /\ r.to # <<>>
           n == Len(routes)
           K == {k \in 1..n : Pass(routes[k])}
           new == Picked(routes, K)
           c == Len(new)
<1>1. n \in Nat /\ DOMAIN routes = 1..n /\ K \in SUBSET (1..n)
  BY ListIsSeq
<1>2. sanitizeRoutes(routes) = new
  BY <1>1 DEF sanitizeRoutes, Where
<1>3. IsList(new) /\ ToSet(new) = {routes[k] : k \in K}
  <2> HIDE DEF K, n
  <2> QED
    BY <1>1, PickedList
<1>4. \A r \in ToSet(new) : Pass(r)
  BY <1>3
<1> HIDE DEF new
<1>5. c \in Nat /\ DOMAIN new = 1..c /\ \A i \in 1..c : new[i] \in ToSet(new)
  BY <1>3, ListIsSeq
<1>6. {k \in 1..c : Pass(new[k])} = 1..c
  BY <1>4, <1>5
<1>7. sanitizeRoutes(new) = Picked(new, {k \in 1..c : Pass(new[k])})
  BY <1>5 DEF sanitizeRoutes, Where
<1> QED
  BY <1>2, <1>3, <1>6, <1>7, PickedAll

\* Turning a longitude into the range.
LEMMA LonIs ==
  ASSUME NEW x \in Numbers, x = <<>> \/ x[1] >= -540
  PROVE  /\ NumberIn(sanitizeLon(x), -180, 179)
         /\ x # <<>> => (sanitizeLon(x)[1] - x[1]) % 360 = 0
<1>1. CASE x = <<>>
  <2>1. sanitizeLon(x) = <<0>>
    BY <1>1 DEF sanitizeLon
  <2> QED
    BY <1>1, <2>1 DEF NumberIn
<1>2. CASE x # <<>>
  <2> DEFINE v == x[1]
             z == Rem(v + 540, 360) - 180
  <2>1. v \in Int /\ v >= -540
    BY <1>2, NumbersAre
  <2>2. sanitizeLon(x) = <<z>>
    BY <1>2 DEF sanitizeLon
  <2> HIDE DEF v
  <2>3. z = ((v + 540) % 360) - 180
    BY <2>1 DEF Rem
  <2> HIDE DEF z
  <2>4. z \in -180..179 /\ (z - v) % 360 = 0
    <3>1. z \in Int /\ z \in -180..179
      BY <2>1, <2>3
    <3> QED
      BY <2>1, <2>3, <3>1
  <2> QED
    BY <2>2, <2>4 DEF NumberIn, v
<1> QED
  BY <1>1, <1>2

\* A longitude that is stored stays as it is.
LEMMA LonStays ==
  ASSUME NEW x, NumberIn(x, -180, 179) PROVE sanitizeLon(x) = x
<1> DEFINE v == x[1]
<1>1. x # <<>> /\ x = <<v>> /\ v \in Int /\ v >= -180 /\ v <= 179
  <2>1. x = <<v>> /\ v \in -180..179
    BY DEF NumberIn
  <2> HIDE DEF v
  <2>2. v \in Int /\ v >= -180 /\ v <= 179
    BY <2>1
  <2>3. x # <<>>
    BY <2>1
  <2> QED
    BY <2>1, <2>2, <2>3
<1>2. sanitizeLon(x) = <<Rem(v + 540, 360) - 180>>
  BY <1>1 DEF sanitizeLon
<1> HIDE DEF v
<1>3. Rem(v + 540, 360) - 180 = v
  BY <1>1 DEF Rem
<1> QED
  BY <1>1, <1>2, <1>3

\* What is in a range is a number.
LEMMA InRangeIsNumber ==
  ASSUME NEW low \in Int, NEW high \in Int, NEW x, NumberIn(x, low, high)
  PROVE  x \in Numbers
<1> DEFINE v == x[1]
<1>1. x = <<v>> /\ v \in Int
  BY DEF NumberIn
<1> HIDE DEF v
<1>2. <<v>> \in Seq(Int) /\ Len(<<v>>) = 1
  BY <1>1
<1> QED
  BY <1>1, <1>2 DEF Numbers

\* What a stored point is.
StoredPoint(p) ==
  /\ p = [lat |-> p.lat, lon |-> p.lon, id |-> p.id, label |-> p.label]
  /\ NumberIn(p.lat, -90, 90) /\ NumberIn(p.lon, -180, 179) /\ p.id # <<>>

\* A point gets an id, and keeps its place.
LEMMA PointsAreStored ==
  ASSUME NEW points, ArePoints(points), Turnable(points)
  PROVE  /\ IsList(sanitizePoints(points))
         /\ \A i \in 1..Len(sanitizePoints(points)) : StoredPoint(sanitizePoints(points)[i])
         /\ PlacesKept(points, sanitizePoints(points))
<1> DEFINE n == Len(points)
           new == sanitizePoints(points)
<1>1. /\ n \in Nat /\ DOMAIN points = 1..n
      /\ \A i \in 1..n : points[i] \in ToSet(points)
  BY ListIsSeq DEF ArePoints
<1>2. IsList(new) /\ Len(new) = n /\ \A i \in 1..n : new[i] = PointOf(points[i], i)
  BY PointsAre, SMTT(30)
<1>3. ASSUME NEW i \in 1..n
      PROVE  /\ StoredPoint(new[i])
             /\ points[i].lon # <<>> =>
                  /\ new[i].lon[1] \in -180..179
                  /\ (new[i].lon[1] - points[i].lon[1]) % 360 = 0
  <2> DEFINE p == points[i]
             q == PointOf(p, i)
  <2>1. p.lat \in Numbers /\ p.lon \in Numbers
    BY <1>1 DEF ArePoints
  <2>2. p.lon = <<>> \/ p.lon[1] >= -540
    BY <1>1 DEF Turnable
  <2> HIDE DEF p
  <2>3. NumberIn(Clamped(p.lat, -90, 90, <<0>>), -90, 90)
    <3>1. -90 \in Int /\ 90 \in Int /\ -90 <= 90 /\ 0 \in -90..90
      OBVIOUS
    <3> QED
      BY <2>1, <3>1, ClampedIs
  <2>4. /\ NumberIn(sanitizeLon(p.lon), -180, 179)
        /\ p.lon # <<>> => (sanitizeLon(p.lon)[1] - p.lon[1]) % 360 = 0
    BY <2>1, <2>2, LonIs
  <2>5. q.id # <<>>
    <3>1. <<"point", i - 1>> # <<>>
      BY PairIsList
    <3> DEFINE r == sanitizeLabel(p.label, <<"point", i - 1>>)
    <3>2. r # <<>>
      BY <3>1 DEF sanitizeLabel
    <3>3. q.id = sanitizeLabel(p.id, r)
      BY DEF PointOf
    <3> HIDE DEF r, q
    <3> QED
      BY <3>2, <3>3 DEF sanitizeLabel
  <2>6. /\ q = [lat |-> q.lat, lon |-> q.lon, id |-> q.id, label |-> q.label]
        /\ q.lat = Clamped(p.lat, -90, 90, <<0>>) /\ q.lon = sanitizeLon(p.lon)
    BY DEF PointOf
  <2> HIDE DEF q
  <2>7. StoredPoint(q)
    BY <2>3, <2>4, <2>5, <2>6 DEF StoredPoint
  <2>8. q.lon[1] \in -180..179
    BY <2>4, <2>6, SMTT(30) DEF NumberIn
  <2> QED
    BY <1>2, <2>4, <2>6, <2>7, <2>8 DEF p, q
<1> HIDE DEF n, new
<1>4. PlacesKept(points, new)
  BY <1>1, <1>3 DEF PlacesKept
<1> QED
  BY <1>2, <1>3, <1>4 DEF new

\* Points that are stored stay as they are.
LEMMA PointsStay ==
  ASSUME NEW points, IsList(points), \A i \in 1..Len(points) : StoredPoint(points[i])
  PROVE  sanitizePoints(points) = points
<1> DEFINE n == Len(points)
           new == sanitizePoints(points)
<1>1. n \in Nat /\ points = [i \in 1..n |-> points[i]]
  BY DEF IsList
<1>2. ArePoints(points)
  <2>1. ASSUME NEW p \in ToSet(points)
        PROVE  /\ p = [lat |-> p.lat, lon |-> p.lon, id |-> p.id, label |-> p.label]
               /\ {p.lat, p.lon} \subseteq Numbers
    <3>1. StoredPoint(p)
      BY ListIsSeq
    <3>2. p.lat \in Numbers
      <4>1. NumberIn(p.lat, -90, 90) /\ -90 \in Int /\ 90 \in Int
        BY <3>1 DEF StoredPoint
      <4> QED
        BY <4>1, InRangeIsNumber
    <3>3. p.lon \in Numbers
      <4>1. NumberIn(p.lon, -180, 179) /\ -180 \in Int /\ 179 \in Int
        BY <3>1 DEF StoredPoint
      <4> QED
        BY <4>1, InRangeIsNumber
    <3> QED
      BY <3>1, <3>2, <3>3 DEF StoredPoint
  <2> QED
    BY <2>1 DEF ArePoints
<1>3. IsList(new) /\ Len(new) = n /\ \A i \in 1..n : new[i] = PointOf(points[i], i)
  BY <1>2, PointsAre
<1>4. ASSUME NEW i \in 1..n PROVE PointOf(points[i], i) = points[i]
  <2> DEFINE p == points[i]
  <2>1. StoredPoint(p)
    OBVIOUS
  <2> HIDE DEF p
  <2>2. Clamped(p.lat, -90, 90, <<0>>) = p.lat
    <3>1. NumberIn(p.lat, -90, 90) /\ -90 \in Int /\ 90 \in Int
      BY <2>1 DEF StoredPoint
    <3> QED
      BY <3>1, ClampedStays
  <2>3. sanitizeLon(p.lon) = p.lon
    BY <2>1, LonStays DEF StoredPoint
  <2>4. sanitizeLabel(p.id, sanitizeLabel(p.label, <<"point", i - 1>>)) = p.id
    BY <2>1 DEF StoredPoint, sanitizeLabel
  <2>5. PointOf(p, i) = [lat |-> p.lat, lon |-> p.lon, id |-> p.id, label |-> p.label]
    BY <2>2, <2>3, <2>4 DEF PointOf
  <2> QED
    BY <2>1, <2>5 DEF StoredPoint, p
<1> HIDE DEF n, new
<1>5. new = [i \in 1..n |-> new[i]]
  BY <1>3 DEF IsList
<1> QED
  BY <1>1, <1>3, <1>4, <1>5 DEF new

------------------------------------------------------------------------------
(* Events in their order.                                                    *)

EarlierThan(e, x, y) == e[y].at < e[x].at \/ (e[y].at = e[x].at /\ y < x)

Earlier(e, n) == [x \in 1..n |-> {y \in 1..n : EarlierThan(e, x, y)}]

SortedPlaces(e) ==
  [r \in 1..Cardinality(DOMAIN e) |->
     CHOOSE x \in DOMAIN e :
       Cardinality({y \in DOMAIN e :
                      e[y].at < e[x].at \/ (e[y].at = e[x].at /\ y < x)}) = r - 1]

HaveTimes(e, n) == DOMAIN e = 1..n /\ \A i \in 1..n : e[i].at \in Int

\* What comes before what is a strict total order: two events at one time
\* keep the order they had.
LEMMA EarlierOrdered ==
  ASSUME NEW e, NEW n \in Nat, HaveTimes(e, n)
  PROVE  Ordered(1..n, Earlier(e, n))
<1>1. Earlier(e, n) \in [1..n -> SUBSET (1..n)]
  BY DEF Earlier
<1>2. \A x, y \in 1..n : y \in Earlier(e, n)[x] <=> EarlierThan(e, x, y)
  BY DEF Earlier
<1>3. \A x \in 1..n : x \in Int /\ e[x].at \in Int
  BY DEF HaveTimes
<1>4. ASSUME NEW x \in 1..n, NEW y \in 1..n, NEW z \in 1..n
      PROVE  /\ ~EarlierThan(e, x, x)
             /\ x # y => EarlierThan(e, x, y) \/ EarlierThan(e, y, x)
             /\ EarlierThan(e, x, y) /\ EarlierThan(e, y, z) => EarlierThan(e, x, z)
  BY <1>3 DEF EarlierThan
<1> QED
  BY <1>1, <1>2, <1>4 DEF Ordered

\* Sorting gives what any listing in the order gives.
LEMMA SortedIsListed ==
  ASSUME NEW e, NEW n \in Nat, HaveTimes(e, n), NEW f, Lists(f, n, 1..n, Earlier(e, n))
  PROVE  SortedPlaces(e) = f
<1> DEFINE D == 1..n
           B == Earlier(e, n)
<1>1. B \in [D -> SUBSET D] /\ Lists(f, n, D, B)
  BY EarlierOrdered DEF Ordered
<1>2. DOMAIN e = D /\ Cardinality(DOMAIN e) = n
  BY CountTo DEF HaveTimes
<1>3. \A x \in D : B[x] = {y \in D : e[y].at < e[x].at \/ (e[y].at = e[x].at /\ y < x)}
  BY DEF Earlier, EarlierThan
<1> HIDE DEF D, B
<1>4. ASSUME NEW r \in 1..n
      PROVE  (CHOOSE x \in D :
                Cardinality({y \in D : e[y].at < e[x].at \/ (e[y].at = e[x].at /\ y < x)})
                  = r - 1) = f[r]
  <2>1. f[r] \in D /\ \A x \in D : Cardinality(B[x]) = r - 1 <=> x = f[r]
    BY <1>1, ChosenIsListed
  <2> QED
    BY <1>3, <2>1
<1> DEFINE s == [r \in 1..n |->
                   CHOOSE x \in D :
                     Cardinality({y \in D : e[y].at < e[x].at \/ (e[y].at = e[x].at /\ y < x)})
                       = r - 1]
<1>5. SortedPlaces(e) = s
  BY <1>2 DEF SortedPlaces
<1>6. f = [r \in 1..n |-> f[r]]
  BY <1>1 DEF Lists
<1>7. s = [r \in 1..n |-> f[r]]
  BY <1>4
<1> QED
  BY <1>5, <1>6, <1>7

StoredEvent(e) ==
  e = [label |-> e.label, at |-> e.at] /\ e.label # <<>> /\ e.at \in 0..100

\* Stored events have a time.
LEMMA StoredTime == ASSUME NEW e, StoredEvent(e) PROVE e.at \in Int
<1>1. e.at \in 0..100
  BY DEF StoredEvent
<1> DEFINE t == e.at
<1> HIDE DEF t
<1>2. t \in 0..100 => t \in Int
  OBVIOUS
<1> QED
  BY <1>1, <1>2 DEF t

AreStoredEvents(list) ==
  /\ IsList(list)
  /\ \A i \in 1..Len(list) : StoredEvent(list[i])
  /\ \A i, j \in 1..Len(list) : i < j => list[i].at <= list[j].at

\* The position of an event, clamped to 0..100.
LEMMA AtClamped ==
  ASSUME NEW x \in Int
  PROVE  Max({0, Min({100, x})}) \in 0..100 /\ (x \in 0..100 => Max({0, Min({100, x})}) = x)
<1> DEFINE y == Min({100, x})
<1>1. y = IF 100 <= x THEN 100 ELSE x
  <2>1. 100 \in Int
    OBVIOUS
  <2> QED
    BY <2>1, MinOfTwo
<1> HIDE DEF y
<1>2. y \in Int /\ y <= 100 /\ (x \in 0..100 => y = x)
  BY <1>1
<1>3. Max({0, y}) = IF 0 >= y THEN 0 ELSE y
  <2>1. 0 \in Int
    OBVIOUS
  <2> QED
    BY <1>2, <2>1, MaxOfTwo
<1> QED
  BY <1>2, <1>3 DEF y

\* The events that are stored have a label and are in order.
LEMMA EventsAreStored ==
  ASSUME NEW list, IsList(list),
         \A e \in ToSet(list) : e = [label |-> e.label, at |-> e.at] /\ e.at \in Int
  PROVE  AreStoredEvents(sanitizeEvents(list))
<1> DEFINE n == Len(list)
           K == {i \in 1..n : list[i].label # <<>>}
           kept == Picked(list, K)
           c == Len(kept)
           e == [i \in DOMAIN kept |-> [kept[i] EXCEPT !.at = Max({0, Min({100, @})})]]
           order == SortedPlaces(e)
           stored == [i \in DOMAIN order |-> e[order[i]]]
<1>1. n \in Nat /\ DOMAIN list = 1..n /\ \A i \in 1..n : list[i] \in ToSet(list)
  BY ListIsSeq
<1>2. IsList(kept) /\ ToSet(kept) = {list[k] : k \in K}
  <2>1. K \in SUBSET (1..n)
    OBVIOUS
  <2> HIDE DEF K, n
  <2> QED
    BY <1>1, <2>1, PickedList
<1>3. c \in Nat /\ DOMAIN kept = 1..c /\ \A i \in 1..c : kept[i] \in ToSet(kept)
  BY <1>2, ListIsSeq
<1>4. \A i \in 1..c : kept[i] \in ToSet(list) /\ kept[i].label # <<>>
  BY <1>1, <1>2, <1>3
<1>5. sanitizeEvents(list) = stored
  BY <1>1 DEF sanitizeEvents, Where, InOrder, SortedPlaces
<1> HIDE DEF kept, c
<1>6. ASSUME NEW i \in 1..c PROVE StoredEvent(e[i])
  <2> DEFINE k == kept[i]
             v == Max({0, Min({100, k.at})})
  <2>1. e[i] = [k EXCEPT !.at = v]
    BY <1>3
  <2>2. k = [label |-> k.label, at |-> k.at] /\ k.label # <<>> /\ k.at \in Int
    BY <1>4
  <2> HIDE DEF k, e
  <2>3. v \in 0..100
    BY <2>2, AtClamped
  <2> HIDE DEF v
  <2>4. [k EXCEPT !.at = v] = [label |-> k.label, at |-> v]
    BY <2>2
  <2> QED
    BY <2>1, <2>2, <2>3, <2>4 DEF StoredEvent
<1>7. DOMAIN e = 1..c
  BY <1>3
<1> HIDE DEF e
<1>8. HaveTimes(e, c)
  BY <1>6, <1>7, StoredTime DEF HaveTimes
<1>9. PICK f : Lists(f, c, 1..c, Earlier(e, c))
  <2> DEFINE D == 1..c
  <2>1. IsFiniteSet(D) /\ Cardinality(D) = c /\ Ordered(D, Earlier(e, c))
    BY <1>3, <1>8, CountTo, EarlierOrdered
  <2> HIDE DEF D
  <2>2. \E f : Lists(f, c, D, Earlier(e, c))
    BY <2>1, OrderedIsListed
  <2> QED
    BY <2>2 DEF D
<1>10. order = f
  BY <1>3, <1>8, <1>9, SortedIsListed
<1> HIDE DEF order
<1>11. f \in [1..c -> 1..c]
  BY <1>9 DEF Lists
<1>12. stored = [i \in 1..c |-> e[f[i]]]
  BY <1>10, <1>11
<1> HIDE DEF stored
<1>13. IsList(stored) /\ Len(stored) = c
  BY <1>3, <1>12 DEF IsList
<1>14. \A i \in 1..c : stored[i] = e[f[i]] /\ StoredEvent(stored[i])
  BY <1>6, <1>11, <1>12
<1>15. ASSUME NEW i \in 1..c, NEW j \in 1..c, i < j PROVE stored[i].at <= stored[j].at
  <2>1. f[i] \in Earlier(e, c)[f[j]]
    BY <1>9, <1>15 DEF Lists
  <2>2. EarlierThan(e, f[j], f[i])
    BY <1>11, <2>1 DEF Earlier
  <2>3. e[f[i]].at \in Int /\ e[f[j]].at \in Int
    BY <1>8, <1>11 DEF HaveTimes
  <2>4. e[f[i]].at <= e[f[j]].at
    BY <2>2, <2>3 DEF EarlierThan
  <2> QED
    BY <1>14, <2>4
<1> QED
  BY <1>5, <1>13, <1>14, <1>15 DEF AreStoredEvents

\* Storing them again changes nothing.
LEMMA EventsStay ==
  ASSUME NEW list, AreStoredEvents(list) PROVE sanitizeEvents(list) = list
<1> DEFINE n == Len(list)
           kept == Picked(list, {i \in 1..n : list[i].label # <<>>})
           clamped == [i \in DOMAIN kept |-> [kept[i] EXCEPT !.at = Max({0, Min({100, @})})]]
           order == SortedPlaces(clamped)
<1>1. n \in Nat /\ DOMAIN list = 1..n /\ list = [i \in 1..n |-> list[i]]
  BY ListIsSeq DEF IsList, AreStoredEvents
<1>2. sanitizeEvents(list) = [i \in DOMAIN order |-> clamped[order[i]]]
  BY <1>1 DEF sanitizeEvents, Where, InOrder, SortedPlaces
<1>3. kept = list
  <2>1. {i \in 1..n : list[i].label # <<>>} = 1..n
    BY DEF AreStoredEvents, StoredEvent
  <2> QED
    BY <2>1, PickedAll DEF AreStoredEvents
<1> HIDE DEF kept
<1>4. ASSUME NEW i \in 1..n
      PROVE  [list[i] EXCEPT !.at = Max({0, Min({100, @})})] = list[i]
  <2> DEFINE e == list[i]
             v == Max({0, Min({100, e.at})})
  <2>1. e = [label |-> e.label, at |-> e.at] /\ e.at \in 0..100
    BY DEF AreStoredEvents, StoredEvent
  <2> HIDE DEF e
  <2>2. v = e.at
    <3> DEFINE t == e.at
    <3>1. t \in 0..100
      BY <2>1
    <3> HIDE DEF t
    <3>2. t \in Int
      BY <3>1
    <3>3. Max({0, Min({100, t})}) = t
      BY <3>1, <3>2, AtClamped
    <3> QED
      BY <3>3 DEF t
  <2>3. [e EXCEPT !.at = e.at] = e
    BY <2>1
  <2> QED
    BY <2>2, <2>3 DEF e
<1>5. clamped = list
  BY <1>1, <1>3, <1>4
<1> HIDE DEF clamped
<1> DEFINE f == [i \in 1..n |-> i]
<1>6. HaveTimes(list, n)
  BY <1>1, StoredTime DEF HaveTimes, AreStoredEvents
<1>7. Lists(f, n, 1..n, Earlier(list, n))
  <2>1. ASSUME NEW a \in 1..n, NEW b \in 1..n
        PROVE  a \in Earlier(list, n)[b] <=> a < b
    <3>1. a \in Earlier(list, n)[b] <=> EarlierThan(list, b, a)
      BY DEF Earlier
    <3>2. list[a].at \in Int /\ list[b].at \in Int /\ a \in Int /\ b \in Int
      BY <1>1, <1>6 DEF HaveTimes
    <3>3. (a < b => list[a].at <= list[b].at) /\ (b < a => list[b].at <= list[a].at)
      BY DEF AreStoredEvents
    <3> HIDE DEF n
    <3> QED
      BY <3>1, <3>2, <3>3 DEF EarlierThan
  <2> QED
    BY <2>1 DEF Lists
<1> HIDE DEF f
<1>8. SortedPlaces(list) = f
  BY <1>1, <1>6, <1>7, SortedIsListed
<1>9. order = f
  BY <1>5, <1>8
<1> HIDE DEF order
<1> QED
  BY <1>1, <1>2, <1>5, <1>9 DEF f

------------------------------------------------------------------------------
(* The map.                                                                  *)

\* A time that is stored stays as it is.
LEMMA TimeStays == ASSUME NEW t PROVE sanitizeTime(sanitizeTime(t)) = sanitizeTime(t)
  BY DEF sanitizeTime

\* So does a place.
LEMMA LatLonStays ==
  ASSUME NEW place, IsList(place)
  PROVE  /\ sanitizeLatLon(sanitizeLatLon(place)) = sanitizeLatLon(place)
         /\ IsList(sanitizeLatLon(place))
<1> DEFINE Pass(p) == finiteIn(p.lat, -90, 90) /\ finiteIn(p.lon, -180, 180)
           n == Len(place)
           K == {k \in 1..n : Pass(place[k])}
           new == Picked(place, K)
           c == Len(new)
<1>1. n \in Nat /\ DOMAIN place = 1..n /\ K \in SUBSET (1..n)
  BY ListIsSeq
<1>2. sanitizeLatLon(place) = new
  BY <1>1 DEF sanitizeLatLon, Where
<1>3. IsList(new) /\ ToSet(new) = {place[k] : k \in K}
  <2> HIDE DEF K, n
  <2> QED
    BY <1>1, PickedList
<1>4. \A p \in ToSet(new) : Pass(p)
  <2> HIDE DEF Pass, new
  <2> QED
    BY <1>3
<1> HIDE DEF new
<1>5. c \in Nat /\ DOMAIN new = 1..c /\ \A i \in 1..c : new[i] \in ToSet(new)
  BY <1>3, ListIsSeq
<1>6. sanitizeLatLon(new) = Picked(new, {k \in 1..c : Pass(new[k])})
  BY <1>5 DEF sanitizeLatLon, Where
<1> HIDE DEF Pass
<1>7. {k \in 1..c : Pass(new[k])} = 1..c
  BY <1>4, <1>5
<1> QED
  BY <1>2, <1>3, <1>6, <1>7, PickedAll

\* What comes once stays.
LEMMA OnceIs ==
  ASSUME NEW seq, IsList(seq)
  PROVE  /\ IsList(Once(seq)) /\ ToSet(Once(seq)) \subseteq ToSet(seq)
         /\ Once(Once(seq)) = Once(seq)
<1> DEFINE n == Len(seq)
           K == {i \in 1..n : seq[i] \notin {seq[j] : j \in 1..i - 1}}
           new == Picked(seq, K)
           c == Len(new)
<1>1. /\ n \in Nat /\ DOMAIN seq = 1..n /\ K \in SUBSET (1..n)
      /\ \A i \in 1..n : seq[i] \in ToSet(seq)
  BY ListIsSeq
<1>2. Once(seq) = new
  BY <1>1 DEF Once
<1>3. \A k \in K : seq[k] \notin {seq[j] : j \in 1..k - 1}
  OBVIOUS
<1> HIDE DEF K, n
<1>4. /\ IsList(new) /\ ToSet(new) = {seq[k] : k \in K} /\ c = Cardinality(K)
      /\ IsFiniteSet(K) /\ c \in Nat
  <2>1. /\ IsList(new) /\ ToSet(new) = {seq[k] : k \in K} /\ c = Cardinality(K)
        /\ Cardinality(K) \in 0..n
    BY <1>1, PickedList
  <2>2. IsFiniteSet(K)
    BY <1>1, CountTo, FS_Subset
  <2> QED
    BY <1>1, <2>1, <2>2
<1>5. \A i, j \in 1..c : i < j => new[i] # new[j]
  <2>1. K \in SUBSET Int
    BY <1>1
  <2>2. PICK f : Through(f, Cardinality(K), K) /\ new = Passed(seq, f, Cardinality(K))
    BY <1>4, <2>1, PickedHas
  <2>3. /\ \A i \in 1..c : f[i] \in K /\ new[i] = seq[f[i]]
        /\ \A i, j \in 1..c : i < j => f[i] < f[j]
    BY <1>4, <2>2 DEF Through, Passed
  <2>4. ASSUME NEW i \in 1..c, NEW j \in 1..c, i < j PROVE new[i] # new[j]
    <3>1. f[i] < f[j] /\ f[i] \in 1..n /\ f[j] \in 1..n
      BY <1>1, <2>3, <2>4
    <3>2. f[i] \in 1..f[j] - 1
      BY <1>1, <3>1
    <3> QED
      BY <1>3, <2>3, <3>2
  <2> QED
    BY <2>4
<1>6. DOMAIN new = 1..c
  BY <1>4, ListIsSeq
<1> HIDE DEF new, c
<1>7. {i \in 1..c : new[i] \notin {new[j] : j \in 1..i - 1}} = 1..c
  <2>1. \A i \in 1..c : \A j \in 1..i - 1 : j \in 1..c /\ j < i
    BY <1>4
  <2> QED
    BY <1>5, <2>1
<1>8. Once(new) = Picked(new, {i \in 1..c : new[i] \notin {new[j] : j \in 1..i - 1}})
  BY <1>6 DEF Once
<1>9. Once(new) = new
  BY <1>4, <1>7, <1>8, PickedAll DEF c
<1>10. ToSet(new) \subseteq ToSet(seq)
  BY <1>1, <1>4
<1> QED
  BY <1>2, <1>4, <1>9, <1>10

\* What a route may avoid.
Avoided(list) == Once(Where(list, LAMBDA a : a \in MAP_AVOID))

\* So does what a route avoids.
LEMMA AvoidedStays ==
  ASSUME NEW list, IsList(list)
  PROVE  Avoided(Avoided(list)) = Avoided(list)
<1> DEFINE n == Len(list)
           K == {i \in 1..n : list[i] \in MAP_AVOID}
           kept == Picked(list, K)
           new == Once(kept)
           c == Len(new)
<1>1. n \in Nat /\ DOMAIN list = 1..n /\ K \in SUBSET (1..n) /\ \A k \in K : list[k] \in MAP_AVOID
  BY ListIsSeq
<1>2. Avoided(list) = new
  BY <1>1 DEF Avoided, Where
<1> HIDE DEF K, n
<1>3. IsList(kept) /\ ToSet(kept) = {list[k] : k \in K}
  BY <1>1, PickedList
<1>4. /\ IsList(new) /\ ToSet(new) \subseteq ToSet(kept)
      /\ Once(new) = new
  BY <1>3, OnceIs
<1> HIDE DEF kept, new
<1>5. c \in Nat /\ DOMAIN new = 1..c /\ \A i \in 1..c : new[i] \in ToSet(new)
  BY <1>4, ListIsSeq
<1>6. {i \in 1..c : new[i] \in MAP_AVOID} = 1..c
  BY <1>1, <1>3, <1>4, <1>5
<1>7. Avoided(new) = Once(Picked(new, {i \in 1..c : new[i] \in MAP_AVOID}))
  BY <1>5 DEF Avoided, Where
<1> QED
  BY <1>2, <1>4, <1>6, <1>7, PickedAll

\* Waypoints that can be used.
Usable(p) == IsList(p) /\ p # <<>> /\ sanitizeLatLon(p) = p

Stops(waypoints) ==
  LET places == [i \in DOMAIN waypoints |-> sanitizeLatLon(waypoints[i])]
  IN  Where(places, LAMBDA p : p # <<>>)

\* The stops of a stored route are places.
LEMMA StopsAreUsable ==
  ASSUME NEW waypoints, IsList(waypoints), \A i \in 1..Len(waypoints) : IsList(waypoints[i])
  PROVE  /\ IsList(Stops(waypoints))
         /\ \A i \in 1..Len(Stops(waypoints)) : Usable(Stops(waypoints)[i])
<1> DEFINE n == Len(waypoints)
           places == [i \in DOMAIN waypoints |-> sanitizeLatLon(waypoints[i])]
           K == {i \in 1..n : places[i] # <<>>}
           new == Picked(places, K)
<1>1. n \in Nat /\ DOMAIN waypoints = 1..n /\ DOMAIN places = 1..n /\ K \in SUBSET (1..n)
  BY ListIsSeq
<1>2. Stops(waypoints) = new
  BY <1>1 DEF Stops, Where
<1>3. ASSUME NEW k \in K PROVE Usable(places[k])
  <2>1. IsList(waypoints[k]) /\ places[k] = sanitizeLatLon(waypoints[k])
    BY <1>1
  <2>2. places[k] # <<>>
    OBVIOUS
  <2> HIDE DEF places
  <2> QED
    BY <2>1, <2>2, LatLonStays DEF Usable
<1> HIDE DEF K, n, places
<1>4. IsList(new) /\ ToSet(new) = {places[k] : k \in K}
  BY <1>1, PickedList
<1> HIDE DEF new
<1>5. \A i \in 1..Len(new) : Usable(new[i])
  BY <1>3, <1>4, ListIsSeq
<1> QED
  BY <1>2, <1>4, <1>5

\* They stay as they are.
LEMMA StopsStay ==
  ASSUME NEW stops, IsList(stops), \A i \in 1..Len(stops) : Usable(stops[i])
  PROVE  Stops(stops) = stops
<1> DEFINE n == Len(stops)
           places == [i \in DOMAIN stops |-> sanitizeLatLon(stops[i])]
<1>1. n \in Nat /\ DOMAIN stops = 1..n /\ stops = [i \in 1..n |-> stops[i]]
  BY ListIsSeq DEF IsList
<1>2. places = stops
  BY <1>1 DEF Usable
<1>3. Stops(stops) = Picked(places, {i \in DOMAIN places : places[i] # <<>>})
  BY DEF Stops, Where
<1> HIDE DEF places
<1>4. {i \in DOMAIN places : places[i] # <<>>} = 1..n
  BY <1>1, <1>2 DEF Usable
<1> QED
  BY <1>2, <1>3, <1>4, PickedAll

\* A route that is stored is stored again as it is.
LEMMA RouteStays ==
  ASSUME NEW route, route.waypoints \in Seq(Places), IsList(route.avoid)
  PROVE  \/ sanitizeRoute(route) = <<>>
         \/ /\ sanitizeRoute(route) # <<>>
            /\ sanitizeRoute(sanitizeRoute(route)[1]) = sanitizeRoute(route)
<1> DEFINE Profile(p) == IF p \in MAP_PROFILES THEN p ELSE "motor_scooter"
           Arrive(d, a) == IF d # "none" THEN "none" ELSE sanitizeTime(a)
           Written1(r, stops, d) ==
             [waypoints |-> stops, profile |-> Profile(r.profile), avoid |-> Avoided(r.avoid),
              depart |-> d, arrive |-> Arrive(d, r.arrive)]
           stops == Stops(route.waypoints)
           depart == sanitizeTime(route.depart)
           new == Written1(route, stops, depart)
<1>1. \A r : sanitizeRoute(r)
               = IF Len(Stops(r.waypoints)) \notin 2..5 THEN <<>>
                 ELSE <<Written1(r, Stops(r.waypoints), sanitizeTime(r.depart))>>
  BY DEF sanitizeRoute, Stops, Avoided
<1>2. CASE Len(stops) \notin 2..5
  BY <1>1, <1>2
<1>3. CASE Len(stops) \in 2..5
  <2>1. IsList(route.waypoints) /\ \A i \in 1..Len(route.waypoints) : IsList(route.waypoints[i])
    <3> DEFINE w == route.waypoints
    <3>1. w \in Seq(Places)
      OBVIOUS
    <3> HIDE DEF w
    <3>2. IsList(w)
      BY <3>1, SeqIsList
    <3>3. \A i \in 1..Len(w) : w[i] \in Places
      BY <3>1, ElementOfSeq
    <3>4. \A p \in Places : IsList(p)
      BY SeqIsList DEF Places
    <3> QED
      BY <3>2, <3>3, <3>4 DEF w
  <2>2. sanitizeRoute(route) = <<new>>
    BY <1>1, <1>3
  <2>3. /\ new.waypoints = stops /\ new.profile = Profile(route.profile)
        /\ new.avoid = Avoided(route.avoid)
        /\ new.depart = depart /\ new.arrive = Arrive(depart, route.arrive)
    OBVIOUS
  <2>4. Stops(stops) = stops
    <3> DEFINE w == route.waypoints
    <3> HIDE DEF w
    <3>1. IsList(w) /\ \A i \in 1..Len(w) : IsList(w[i])
      BY <2>1 DEF w
    <3>2. IsList(Stops(w)) /\ \A i \in 1..Len(Stops(w)) : Usable(Stops(w)[i])
      BY <3>1, StopsAreUsable
    <3> DEFINE t == Stops(w)
    <3> HIDE DEF t
    <3>3. Stops(t) = t
      BY <3>2, StopsStay DEF t
    <3> QED
      BY <3>3 DEF t, w
  <2>5. Profile(Profile(route.profile)) = Profile(route.profile)
    BY DEF MAP_PROFILES
  <2>6. Avoided(Avoided(route.avoid)) = Avoided(route.avoid)
    BY AvoidedStays
  <2>7. sanitizeTime(depart) = depart
    BY TimeStays
  <2>8. Arrive(depart, Arrive(depart, route.arrive)) = Arrive(depart, route.arrive)
    BY DEF sanitizeTime
  <2>9. Written1(new, stops, depart) = new
    <3> HIDE DEF Profile, Arrive, stops, depart
    <3> QED
      BY <2>3, <2>5, <2>6, <2>8
  <2> HIDE DEF new, stops, depart, Written1
  <2>10. sanitizeRoute(new) = <<new>>
    BY <1>1, <1>3, <2>3, <2>4, <2>7, <2>9
  <2>11. <<new>> # <<>> /\ <<new>>[1] = new
    OBVIOUS
  <2> QED
    BY <2>2, <2>10, <2>11
<1> QED
  BY <1>2, <1>3

\* A box that is stored stays as it is.
LEMMA BoxStays == ASSUME NEW box PROVE sanitizeBox(sanitizeBox(box)) = sanitizeBox(box)
<1>1. sanitizeBox(box) = box \/ sanitizeBox(box) = <<>>
  BY DEF sanitizeBox
<1>2. sanitizeBox(<<>>) = <<>>
  BY DEF sanitizeBox
<1> QED
  BY <1>1, <1>2

ZoomOf(zoom) == IF finiteIn(zoom, 0, 20) THEN zoom ELSE <<>>

RouteOf(route) == IF route = <<>> THEN <<>> ELSE sanitizeRoute(route[1])

\* What the map can use of a view.
ViewOf(v) ==
  [center |-> sanitizeLatLon(v.center), zoom |-> ZoomOf(v.zoom),
   bbox |-> sanitizeBox(v.bbox), route |-> RouteOf(v.route)]

\* So does a view of the map.
LEMMA ViewStays ==
  ASSUME NEW v, v.center \in Places, IsList(v.route),
         \A r \in ToSet(v.route) : r.waypoints \in Seq(Places) /\ IsList(r.avoid)
  PROVE  ViewOf(ViewOf(v)) = ViewOf(v)
<1> DEFINE new == ViewOf(v)
<1>1. /\ new.center = sanitizeLatLon(v.center) /\ new.zoom = ZoomOf(v.zoom)
      /\ new.bbox = sanitizeBox(v.bbox) /\ new.route = RouteOf(v.route)
      /\ new = [center |-> new.center, zoom |-> new.zoom, bbox |-> new.bbox, route |-> new.route]
  BY DEF ViewOf
<1>2. sanitizeLatLon(sanitizeLatLon(v.center)) = sanitizeLatLon(v.center)
  <2> DEFINE c == v.center
  <2>1. c \in Places
    OBVIOUS
  <2> HIDE DEF c
  <2>2. IsList(c)
    BY <2>1, SeqIsList DEF Places
  <2>3. sanitizeLatLon(sanitizeLatLon(c)) = sanitizeLatLon(c)
    BY <2>2, LatLonStays
  <2> QED
    BY <2>3 DEF c
<1>3. ZoomOf(ZoomOf(v.zoom)) = ZoomOf(v.zoom)
  BY DEF ZoomOf
<1>4. RouteOf(RouteOf(v.route)) = RouteOf(v.route)
  <2>1. CASE v.route = <<>>
    BY <2>1 DEF RouteOf
  <2>2. CASE v.route # <<>>
    <3> DEFINE route == v.route
               r == route[1]
    <3>1. r \in ToSet(route)
      <4> HIDE DEF route
      <4>1. IsList(route) /\ route # <<>>
        BY <2>2 DEF route
      <4>2. route \in Seq(ToSet(route)) /\ \A i \in 1..Len(route) : route[i] \in ToSet(route)
        BY <4>1, ListIsSeq
      <4>3. Len(route) # 0 /\ Len(route) \in Nat
        BY <4>1, <4>2, EmptySeq, ListIsSeq
      <4>4. 1 \in 1..Len(route)
        BY <4>3
      <4> QED
        BY <4>2, <4>4
    <3>2. RouteOf(v.route) = sanitizeRoute(r)
      BY <2>2 DEF RouteOf
    <3>3. r.waypoints \in Seq(Places) /\ IsList(r.avoid)
      BY <3>1
    <3> HIDE DEF r
    <3>4. \/ sanitizeRoute(r) = <<>>
          \/ /\ sanitizeRoute(r) # <<>>
             /\ sanitizeRoute(sanitizeRoute(r)[1]) = sanitizeRoute(r)
      BY <3>3, RouteStays
    <3> DEFINE s == sanitizeRoute(r)
    <3> HIDE DEF s
    <3>5. RouteOf(s) = s
      BY <3>4 DEF s, RouteOf
    <3> QED
      BY <3>2, <3>5 DEF s
  <2> QED
    BY <2>1, <2>2
<1>5. sanitizeBox(sanitizeBox(v.bbox)) = sanitizeBox(v.bbox)
  BY BoxStays
<1> HIDE DEF new
<1>6. ViewOf(new) = [center |-> new.center, zoom |-> new.zoom, bbox |-> new.bbox, route |-> new.route]
  BY <1>1, <1>2, <1>3, <1>4, <1>5 DEF ViewOf
<1> QED
  BY <1>1, <1>6 DEF new

\* So does the list of views.
LEMMA MapStays ==
  ASSUME NEW map, IsList(map),
         \A v \in ToSet(map) :
           /\ v.center \in Places /\ IsList(v.route)
           /\ \A r \in ToSet(v.route) : r.waypoints \in Seq(Places) /\ IsList(r.avoid)
  PROVE  sanitizeMapView(sanitizeMapView(map)) = sanitizeMapView(map)
<1> DEFINE Nothing(v) == v.center = <<>> /\ v.zoom = <<>> /\ v.bbox = <<>> /\ v.route = <<>>
<1>1. \A m : sanitizeMapView(m)
               = IF m = <<>> \/ Nothing(ViewOf(m[1])) THEN <<>> ELSE <<ViewOf(m[1])>>
  <2> SUFFICES ASSUME NEW m
               PROVE  sanitizeMapView(m)
                        = IF m = <<>> \/ Nothing(ViewOf(m[1])) THEN <<>> ELSE <<ViewOf(m[1])>>
    OBVIOUS
  <2> DEFINE v == ViewOf(m[1])
  <2>1. sanitizeMapView(m)
          = IF m = <<>> THEN <<>>
            ELSE IF \A part \in DOMAIN v : v[part] = <<>> THEN <<>> ELSE <<v>>
    BY DEF sanitizeMapView, ViewOf, ZoomOf, RouteOf
  <2>2. DOMAIN v = {"center", "zoom", "bbox", "route"}
    BY DEF ViewOf
  <2> HIDE DEF v
  <2>3. (\A part \in DOMAIN v : v[part] = <<>>) <=> Nothing(v)
    BY <2>2
  <2> QED
    BY <2>1, <2>3 DEF v
<1>2. sanitizeMapView(<<>>) = <<>>
  BY <1>1
<1> DEFINE s == sanitizeMapView(map)
<1>3. CASE s = <<>>
  BY <1>2, <1>3
<1>4. CASE s # <<>>
  <2> DEFINE v == map[1]
             new == ViewOf(v)
  <2>1. map # <<>> /\ ~Nothing(new) /\ s = <<new>>
    BY <1>1, <1>4
  <2>2. v \in ToSet(map)
    <3>1. map \in Seq(ToSet(map)) /\ \A i \in 1..Len(map) : map[i] \in ToSet(map)
      BY ListIsSeq
    <3>2. Len(map) # 0 /\ Len(map) \in Nat
      BY <2>1, <3>1, EmptySeq, ListIsSeq
    <3>3. 1 \in 1..Len(map)
      BY <3>2
    <3> QED
      BY <3>1, <3>3
  <2>3. ViewOf(new) = new
    <3> HIDE DEF v
    <3> QED
      BY <2>2, ViewStays
  <2> HIDE DEF new, s, Nothing
  <2>4. s[1] = new /\ s # <<>>
    BY <2>1
  <2>5. sanitizeMapView(s) = <<new>>
    BY <1>1, <2>1, <2>3, <2>4
  <2> QED
    BY <2>1, <2>5 DEF s
<1> QED
  BY <1>3, <1>4

------------------------------------------------------------------------------
(* The rest, and all of it.                                                  *)

\* So does the scale.
LEMMA ScaleStays ==
  ASSUME NEW scale \in Numbers PROVE sanitizeScale(sanitizeScale(scale)) = sanitizeScale(scale)
<1> DEFINE s == Clamped(scale, 25, 400, <<100>>)
<1>1. 25 \in Int /\ 400 \in Int /\ 25 <= 400 /\ 100 \in 25..400
  OBVIOUS
<1>2. NumberIn(s, 25, 400)
  BY <1>1, ClampedIs
<1> HIDE DEF s
<1>3. Clamped(s, 25, 400, <<100>>) = s
  BY <1>1, <1>2, ClampedStays
<1> QED
  BY <1>3 DEF sanitizeScale, s

\* So do the colours.
LEMMA ThemeStays ==
  ASSUME NEW theme PROVE sanitizeTheme(sanitizeTheme(theme)) = sanitizeTheme(theme)
  BY DEF sanitizeTheme, sanitizeColor

\* So does the position.
LEMMA PositionStays ==
  ASSUME NEW position
  PROVE  sanitizePosition(sanitizePosition(position)) = sanitizePosition(position)
<1>1. sanitizePosition(position) = position \/ sanitizePosition(position) = <<>>
  BY DEF sanitizePosition
<1>2. sanitizePosition(<<>>) = <<>>
  BY DEF sanitizePosition
<1> QED
  BY <1>1, <1>2

\* Normalizing is done once.
LEMMA NormalizedStays ==
  ASSUME NEW d, IsSpec(d), Turnable(d.data.points)
  PROVE  normalizeVisualization(normalizeVisualization(d)) = normalizeVisualization(d)
<1> DEFINE sent == d.data
           new == normalizeVisualization(d)
           stored == new.data
<1>1. /\ stored = sanitizeData(sent)
      /\ new.scale = sanitizeScale(d.scale) /\ new.theme = sanitizeTheme(d.theme)
      /\ new.position = sanitizePosition(d.position)
      /\ stored.metrics = sanitizeMetrics(sent.metrics)
      /\ stored.nodes = sanitizeNodes(sent.nodes)
      /\ stored.links = sanitizeLinks(sent.links, sanitizeNodes(sent.nodes))
      /\ stored.points = sanitizePoints(sent.points)
      /\ stored.routes = sanitizeRoutes(sent.routes)
      /\ stored.series = sanitizeSeries(sent.series)
      /\ stored.events = sanitizeEvents(sent.events)
      /\ stored.map = sanitizeMapView(sent.map)
  BY StoredData
<1>2. /\ new = [data |-> stored, scale |-> new.scale, theme |-> new.theme,
                position |-> new.position]
      /\ stored = [metrics |-> stored.metrics, nodes |-> stored.nodes, links |-> stored.links,
                   points |-> stored.points, routes |-> stored.routes,
                   series |-> stored.series, events |-> stored.events, map |-> stored.map]
  BY DEF normalizeVisualization, sanitizeData
<1>3. sanitizeScale(new.scale) = new.scale
  BY <1>1, ScaleStays DEF IsSpec
<1>4. sanitizeTheme(new.theme) = new.theme
  BY <1>1, ThemeStays
<1>5. sanitizePosition(new.position) = new.position
  BY <1>1, PositionStays
<1>6. sanitizeMetrics(stored.metrics) = stored.metrics
  <2> DEFINE s == sent.metrics
  <2>1. /\ IsList(s)
        /\ \A m \in ToSet(s) : m = [label |-> m.label, value |-> m.value] /\ m.value \in Numbers
    BY DEF IsSpec
  <2> HIDE DEF s
  <2>2. sanitizeMetrics(sanitizeMetrics(s)) = sanitizeMetrics(s)
    BY <2>1, MetricsAreStored, MetricsStay
  <2> QED
    BY <1>1, <2>2 DEF s
<1>7. sanitizeNodes(stored.nodes) = stored.nodes
  <2> DEFINE s == sent.nodes
  <2>1. IsList(s)
    BY DEF IsSpec
  <2> HIDE DEF s
  <2>2. sanitizeNodes(sanitizeNodes(s)) = sanitizeNodes(s)
    BY <2>1, NodesKept, NodesStay
  <2> QED
    BY <1>1, <2>2 DEF s
<1>8. sanitizeLinks(stored.links, stored.nodes) = stored.links
  <2> DEFINE s == sent.links
  <2>1. s \in Seq(Seq(Int))
    BY DEF IsSpec
  <2> HIDE DEF s
  <2>2. IsList(s)
    BY <2>1, SeqIsList
  <2>3. \A n : sanitizeLinks(sanitizeLinks(s, n), n) = sanitizeLinks(s, n)
    BY <2>2, LinksStored
  <2> QED
    BY <1>1, <2>3 DEF s
<1>9. sanitizePoints(stored.points) = stored.points
  <2> DEFINE s == sent.points
  <2>1. ArePoints(s) /\ Turnable(s)
    BY DEF IsSpec, ArePoints
  <2> HIDE DEF s
  <2>2. sanitizePoints(sanitizePoints(s)) = sanitizePoints(s)
    BY <2>1, PointsAreStored, PointsStay
  <2> QED
    BY <1>1, <2>2 DEF s
<1>10. sanitizeRoutes(stored.routes) = stored.routes
  <2>1. IsList(sent.routes)
    BY DEF IsSpec
  <2> QED
    BY <1>1, <2>1, RoutesStored
<1>11. sanitizeSeries(stored.series) = stored.series
  <2>1. AreStoredSeries(stored.series)
    <3> DEFINE s == sent.series
    <3>1. /\ IsList(s)
          /\ \A t \in ToSet(s) : /\ t = [label |-> t.label, points |-> t.points]
                                 /\ IsList(t.label) /\ t.points \in BOOLEAN
      BY DEF IsSpec
    <3> HIDE DEF s
    <3>2. AreStoredSeries(sanitizeSeries(s))
      BY <3>1, SeriesAreStored
    <3> QED
      BY <1>1, <3>2 DEF s
  <2> QED
    BY <2>1, SeriesStay
<1>12. sanitizeEvents(stored.events) = stored.events
  <2> DEFINE s == sent.events
  <2>1. /\ IsList(s)
        /\ \A e \in ToSet(s) : e = [label |-> e.label, at |-> e.at] /\ e.at \in Int
    BY DEF IsSpec
  <2> HIDE DEF s
  <2>2. AreStoredEvents(sanitizeEvents(s))
    BY <2>1, EventsAreStored
  <2>3. sanitizeEvents(sanitizeEvents(s)) = sanitizeEvents(s)
    BY <2>2, EventsStay
  <2> QED
    BY <1>1, <2>3 DEF s
<1>13. sanitizeMapView(stored.map) = stored.map
  <2> DEFINE s == sent.map
  <2>1. /\ IsList(s)
        /\ \A v \in ToSet(s) :
             /\ v.center \in Places /\ IsList(v.route)
             /\ \A r \in ToSet(v.route) : r.waypoints \in Seq(Places) /\ IsList(r.avoid)
    BY DEF IsSpec
  <2> HIDE DEF s
  <2>2. sanitizeMapView(sanitizeMapView(s)) = sanitizeMapView(s)
    BY <2>1, MapStays
  <2> QED
    BY <1>1, <2>2 DEF s
<1> HIDE DEF stored
<1>14. sanitizeData(stored)
         = [metrics |-> stored.metrics, nodes |-> stored.nodes, links |-> stored.links,
            points |-> stored.points, routes |-> stored.routes,
            series |-> stored.series, events |-> stored.events, map |-> stored.map]
  BY <1>6, <1>7, <1>8, <1>9, <1>10, <1>11, <1>12, <1>13 DEF sanitizeData
<1>15. sanitizeData(stored) = stored
  BY <1>2, <1>14
<1> HIDE DEF new
<1>16. normalizeVisualization(new)
         = [data |-> sanitizeData(new.data), scale |-> sanitizeScale(new.scale),
            theme |-> sanitizeTheme(new.theme), position |-> sanitizePosition(new.position)]
  BY DEF normalizeVisualization
<1>17. normalizeVisualization(new) = new
  BY <1>2, <1>3, <1>4, <1>5, <1>15, <1>16 DEF stored
<1> QED
  BY <1>17 DEF new

\* What is stored is in normal form, with no label twice and every point where
\* it was (NormalFormIsStable).
THEOREM StoredIsStable == Spec => []NormalFormIsStable
<1>1. ASSUME ShownOK PROVE NormalFormIsStable
  <2>1. CASE shown = <<>>
    <3>1. ToSet(shown) = {}
      BY <2>1 DEF ToSet
    <3> QED
      BY <3>1 DEF NormalFormIsStable
  <2>2. ASSUME NEW d \in VizSpecs,
               shown = <<[sent |-> d, stored |-> normalizeVisualization(d)]>>
        PROVE  NormalFormIsStable
    <3> DEFINE new == normalizeVisualization(d)
    <3>1. IsSpec(d)
      BY StreamAssumption
    <3>2. ToSet(shown) = {[sent |-> d, stored |-> new]}
      BY <2>2 DEF ToSet
    <3>3. AreStoredSeries(new.data.series)
      <4> DEFINE s == d.data.series
      <4>1. /\ IsList(s)
            /\ \A t \in ToSet(s) : /\ t = [label |-> t.label, points |-> t.points]
                                   /\ IsList(t.label) /\ t.points \in BOOLEAN
        BY <3>1 DEF IsSpec
      <4> HIDE DEF s
      <4>2. AreStoredSeries(sanitizeSeries(s))
        BY <4>1, SeriesAreStored
      <4> QED
        BY <4>2, StoredData DEF s
    <3>4. Turnable(d.data.points) =>
            /\ normalizeVisualization(new) = new
            /\ PlacesKept(d.data.points, new.data.points)
      <4> SUFFICES ASSUME Turnable(d.data.points)
                   PROVE  /\ normalizeVisualization(new) = new
                          /\ PlacesKept(d.data.points, new.data.points)
        OBVIOUS
      <4>1. normalizeVisualization(new) = new
        BY <3>1, NormalizedStays
      <4>2. ArePoints(d.data.points)
        BY <3>1 DEF IsSpec, ArePoints
      <4>3. new.data.points = sanitizePoints(d.data.points)
        BY StoredData
      <4>4. PlacesKept(d.data.points, sanitizePoints(d.data.points))
        BY <4>2, PointsAreStored
      <4> QED
        BY <4>1, <4>3, <4>4
    <3> HIDE DEF new
    <3>5. IsInjective([i \in DOMAIN new.data.series |-> new.data.series[i].label])
      <4> DEFINE s == new.data.series
      <4>1. DOMAIN s = 1..Len(s)
        BY <3>3, ListIsSeq DEF AreStoredSeries
      <4>2. \A i, j \in DOMAIN s : s[i].label = s[j].label => i = j
        BY <3>3, <4>1 DEF AreStoredSeries
      <4> HIDE DEF s
      <4>3. IsInjective([i \in DOMAIN s |-> s[i].label])
        BY <4>2 DEF IsInjective
      <4> QED
        BY <4>3 DEF s
    <3>6. \A s \in ToSet(shown) : s.sent = d /\ s.stored = new
      BY <3>2
    <3> QED
      BY <3>4, <3>5, <3>6 DEF NormalFormIsStable
  <2> QED
    BY <1>1, <2>1, <2>2 DEF ShownOK
<1> QED
  BY <1>1, ShownIsNormalized, PTL

------------------------------------------------------------------------------
(* Lists put together and cut.                                               *)

\* Lists with the same entries are the same.
LEMMA SameList ==
  ASSUME NEW a, IsList(a), NEW b, IsList(b), Len(a) = Len(b),
         \A i \in 1..Len(a) : a[i] = b[i]
  PROVE  a = b
<1> DEFINE n == Len(a)
<1>1. a = [i \in 1..n |-> a[i]] /\ b = [i \in 1..n |-> b[i]]
  BY DEF IsList
<1> QED
  BY <1>1

\* Lists of whatever are sequences of one set.
LEMMA ListsAreSeqs ==
  ASSUME NEW a, IsList(a), NEW b, IsList(b)
  PROVE  \E S : a \in Seq(S) /\ b \in Seq(S)
<1> DEFINE S == ToSet(a) \cup ToSet(b)
<1>1. a \in Seq(ToSet(a)) /\ b \in Seq(ToSet(b))
  BY ListIsSeq
<1>2. ToSet(a) \subseteq S /\ ToSet(b) \subseteq S
  OBVIOUS
<1> HIDE DEF S
<1> QED
  BY <1>1, <1>2, SeqMonotonic

\* What a list joined of two holds.
LEMMA JoinedList ==
  ASSUME NEW a, IsList(a), NEW b, IsList(b)
  PROVE  /\ IsList(a \o b) /\ Len(a) \in Nat /\ Len(b) \in Nat
         /\ Len(a \o b) = Len(a) + Len(b)
         /\ \A i \in 1..Len(a) : (a \o b)[i] = a[i]
         /\ \A i \in 1..Len(b) : (a \o b)[Len(a) + i] = b[i]
<1>1. PICK S : a \in Seq(S) /\ b \in Seq(S)
  BY ListsAreSeqs
<1> DEFINE m == Len(a)
           n == Len(b)
           c == a \o b
<1>2. m \in Nat /\ n \in Nat
  BY ListIsSeq
<1>3. /\ c \in Seq(S) /\ Len(c) = m + n
      /\ \A i \in 1..m + n : c[i] = IF i <= m THEN a[i] ELSE b[i - m]
  BY <1>1, ConcatProperties
<1> HIDE DEF m, n, c
<1>4. IsList(c)
  BY <1>3, SeqIsList
<1>5. ASSUME NEW i \in 1..m PROVE c[i] = a[i]
  <2>1. i \in 1..m + n /\ i <= m
    BY <1>2
  <2> QED
    BY <1>3, <2>1
<1>6. ASSUME NEW i \in 1..n PROVE c[m + i] = b[i]
  <2>1. m + i \in 1..m + n /\ ~(m + i <= m) /\ (m + i) - m = i
    BY <1>2
  <2> QED
    BY <1>3, <2>1
<1> QED
  BY <1>2, <1>3, <1>4, <1>5, <1>6 DEF m, n, c

\* c ends with b, after k others.
EndsWith(c, k, b) == \A i \in 1..Len(b) : c[k + i] = b[i]

\* It ends with the second one.
LEMMA JoinedTail ==
  ASSUME NEW a, IsList(a), NEW b, IsList(b) PROVE EndsWith(a \o b, Len(a), b)
  BY JoinedList DEF EndsWith

\* It does not matter which two are joined first.
Grouped(a, b, c) == (a \o b) \o c = a \o (b \o c)

LEMMA JoinedThrice ==
  ASSUME NEW a, IsList(a), NEW b, IsList(b), NEW c, IsList(c)
  PROVE  Grouped(a, b, c)
<1> DEFINE S == ToSet(a) \cup ToSet(b) \cup ToSet(c)
<1>1. a \in Seq(ToSet(a)) /\ b \in Seq(ToSet(b)) /\ c \in Seq(ToSet(c))
  BY ListIsSeq
<1>2. ToSet(a) \subseteq S /\ ToSet(b) \subseteq S /\ ToSet(c) \subseteq S
  OBVIOUS
<1> HIDE DEF S
<1>3. a \in Seq(S) /\ b \in Seq(S) /\ c \in Seq(S)
  BY <1>1, <1>2, SeqMonotonic
<1> QED
  BY <1>3, ConcatAssociative DEF Grouped

\* Joined with nothing.
LEMMA JoinedEmpty ==
  ASSUME NEW a, IsList(a) PROVE a \o <<>> = a /\ <<>> \o a = a
<1>1. a \in Seq(ToSet(a))
  BY ListIsSeq
<1> QED
  BY <1>1, ConcatEmptySeq

\* The list without entries.
LEMMA EmptyList == IsList(<<>>) /\ Len(<<>>) = 0 /\ \A a : IsList(a) /\ Len(a) = 0 => a = <<>>
<1>1. IsList(<<>>) /\ Len(<<>>) = 0
  BY DEF IsList
<1>2. ASSUME NEW a, IsList(a), Len(a) = 0 PROVE a = <<>>
  <2>1. a \in Seq(ToSet(a))
    BY <1>2, ListIsSeq
  <2> QED
    BY <1>2, <2>1, EmptySeq
<1> QED
  BY <1>1, <1>2

\* The list of one entry.
LEMMA SingleList == ASSUME NEW x PROVE IsList(<<x>>) /\ Len(<<x>>) = 1 /\ <<x>>[1] = x
  BY DEF IsList

\* The entries from the m-th to the n-th.
LEMMA CutList ==
  ASSUME NEW a, IsList(a), NEW m \in Int, NEW n \in Int, 1 <= m, m <= n + 1, n <= Len(a)
  PROVE  /\ IsList(SubSeq(a, m, n))
         /\ Len(SubSeq(a, m, n)) = n - m + 1
         /\ \A i \in 1..n - m + 1 : SubSeq(a, m, n)[i] = a[m + i - 1]
<1> DEFINE c == SubSeq(a, m, n)
           l == Len(a)
<1>1. l \in Nat /\ \A i \in 1..l : a[i] \in ToSet(a)
  BY ListIsSeq
<1> HIDE DEF l
<1>2. n <= l
  BY DEF l
<1>3. \A i \in m..n : a[i] \in ToSet(a)
  BY <1>1, <1>2
<1>4. /\ c \in Seq(ToSet(a))
      /\ Len(c) = IF m <= n THEN n - m + 1 ELSE 0
      /\ \A i \in 1..n - m + 1 : c[i] = a[m + i - 1]
  BY <1>3, SubSeqProperties
<1>5. Len(c) = n - m + 1
  BY <1>4
<1> HIDE DEF c
<1>6. IsList(c)
  BY <1>4, SeqIsList
<1> QED
  BY <1>4, <1>5, <1>6 DEF c

\* A list is its first entries and the others.
LEMMA SplitList ==
  ASSUME NEW a, IsList(a), NEW k \in Int, 0 <= k, k <= Len(a)
  PROVE  /\ IsList(SubSeq(a, 1, k)) /\ IsList(SubSeq(a, k + 1, Len(a)))
         /\ Len(SubSeq(a, 1, k)) = k /\ Len(SubSeq(a, k + 1, Len(a))) = Len(a) - k
         /\ \A i \in 1..k : SubSeq(a, 1, k)[i] = a[i]
         /\ \A i \in 1..Len(a) - k : SubSeq(a, k + 1, Len(a))[i] = a[k + i]
         /\ SubSeq(a, 1, k) \o SubSeq(a, k + 1, Len(a)) = a
<1> DEFINE l == Len(a)
           b == SubSeq(a, 1, k)
           c == SubSeq(a, k + 1, l)
<1>1. l \in Nat
  BY ListIsSeq
<1>2. IsList(b) /\ Len(b) = k /\ \A i \in 1..k : b[i] = a[i]
  <2>1. 1 \in Int /\ 1 <= 1 /\ 1 <= k + 1 /\ k <= l /\ k - 1 + 1 = k
        /\ \A i \in 1..k : 1 + i - 1 = i
    OBVIOUS
  <2> QED
    BY <2>1, CutList
<1>3. IsList(c) /\ Len(c) = l - k /\ \A i \in 1..l - k : c[i] = a[k + i]
  <2> HIDE DEF l
  <2>1. k + 1 \in Int /\ l \in Int /\ 1 <= k + 1 /\ k + 1 <= l + 1 /\ l - (k + 1) + 1 = l - k
        /\ \A i \in 1..l - k : (k + 1) + i - 1 = k + i
    BY <1>1 DEF l
  <2>2. /\ IsList(SubSeq(a, k + 1, l))
        /\ Len(SubSeq(a, k + 1, l)) = l - (k + 1) + 1
        /\ \A i \in 1..l - (k + 1) + 1 : SubSeq(a, k + 1, l)[i] = a[(k + 1) + i - 1]
    <3>1. l <= Len(a)
      BY <1>1 DEF l
    <3> QED
      BY <2>1, <3>1, CutList
  <2> QED
    BY <2>1, <2>2
<1>4. k <= l
  OBVIOUS
<1> HIDE DEF b, c, l
<1>5. /\ IsList(b \o c) /\ Len(b \o c) = k + (l - k)
      /\ \A i \in 1..k : (b \o c)[i] = b[i]
      /\ \A i \in 1..l - k : (b \o c)[k + i] = c[i]
  <2>1. IsList(b) /\ IsList(c) /\ Len(b) = k /\ Len(c) = l - k
    BY <1>2, <1>3
  <2>2. IsList(b \o c) /\ Len(b \o c) = Len(b) + Len(c)
    BY <2>1, JoinedList
  <2>3. \A i \in 1..Len(b) : (b \o c)[i] = b[i]
    BY <2>1, JoinedList
  <2>4. \A i \in 1..Len(c) : (b \o c)[Len(b) + i] = c[i]
    <3>1. EndsWith(b \o c, Len(b), c)
      BY <2>1, JoinedTail
    <3> QED
      BY <3>1 DEF EndsWith
  <2> QED
    BY <2>1, <2>2, <2>3, <2>4
<1>6. b \o c = a
  <2>1. ASSUME NEW i \in 1..l PROVE (b \o c)[i] = a[i]
    <3>1. i \in 1..k \/ (i - k \in 1..l - k /\ k + (i - k) = i)
      BY <1>1, <1>4
    <3> QED
      BY <1>2, <1>3, <1>5, <3>1
  <2>2. Len(b \o c) = l
    BY <1>1, <1>5
  <2> QED
    BY <1>5, <2>1, <2>2, SameList DEF l
<1> QED
  BY <1>2, <1>3, <1>6 DEF b, c, l

\* What is cut off the end of what is joined.
LEMMA RestOfJoined ==
  ASSUME NEW a, IsList(a), NEW b, IsList(b), NEW c, IsList(c), NEW d, IsList(d),
         a \o b = c \o d, Len(a) = Len(c)
  PROVE  a = c /\ b = d
<1>1. Len(b) = Len(d)
  <2> DEFINE k == Len(a)
             m == Len(b)
             n == Len(d)
  <2>1. k \in Nat /\ m \in Nat /\ n \in Nat /\ k + m = k + n
    BY JoinedList
  <2> HIDE DEF k, m, n
  <2>2. m = n
    BY <2>1
  <2> QED
    BY <2>2 DEF m, n
<1>2. a = c
  <2>1. \A i \in 1..Len(a) : a[i] = c[i]
    BY JoinedList
  <2> QED
    BY <2>1, SameList
<1>3. b = d
  <2> DEFINE e == a \o b
  <2>1. EndsWith(a \o b, Len(a), b) /\ EndsWith(c \o d, Len(c), d)
    BY JoinedTail
  <2> HIDE DEF e
  <2>2. EndsWith(e, Len(a), b) /\ EndsWith(e, Len(a), d)
    BY <2>1 DEF e
  <2>3. \A i \in 1..Len(b) : b[i] = d[i]
    BY <1>1, <2>2 DEF EndsWith
  <2> QED
    BY <1>1, <2>3, SameList
<1> QED
  BY <1>2, <1>3

\* It begins with the first one.
LEMMA JoinedPrefix ==
  ASSUME NEW a, IsList(a), NEW b, IsList(b) PROVE IsPrefix(a, a \o b)
<1> DEFINE m == Len(a)
           c == a \o b
           e == SubSeq(c, 1, m)
<1>1. /\ m \in Nat /\ Len(b) \in Nat /\ IsList(c) /\ Len(c) = m + Len(b)
      /\ \A i \in 1..m : c[i] = a[i]
  BY JoinedList
<1> HIDE DEF c
<1>2. m \in Int /\ 0 <= m /\ m <= Len(c)
  <2> DEFINE n == Len(b)
  <2> HIDE DEF m, n
  <2>1. m \in Nat /\ n \in Nat /\ Len(c) = m + n
    BY <1>1 DEF n
  <2> QED
    BY <2>1
<1>3. IsList(e) /\ Len(e) = m /\ \A i \in 1..m : e[i] = c[i]
  <2> HIDE DEF m
  <2> QED
    BY <1>1, <1>2, SplitList
<1> HIDE DEF e
<1>4. e = a
  BY <1>1, <1>3, SameList
<1>5. SubSeq(a, 1, m) = a
  <2>1. a \in Seq(ToSet(a))
    BY ListIsSeq
  <2> QED
    BY <2>1, SubSeqFull
<1> QED
  BY <1>2, <1>4, <1>5 DEF IsPrefix, e, c

------------------------------------------------------------------------------
(* Newlines.                                                                 *)

\* What crlf keeps.
Kept(text) ==
  {i \in 1..Len(text) : ~(text[i] = CR /\ i < Len(text) /\ text[i + 1] = LF)}

\* No "\r" before another one; none before a newline either.
NoTwin(text) == \A i \in 1..Len(text) - 1 : ~(text[i] = CR /\ text[i + 1] = CR)

Calm(text) == \A i \in 1..Len(text) - 1 : text[i] = CR => text[i + 1] # CR /\ text[i + 1] # LF

\* The two newline tokens differ.
LEMMA Newlines == CR # LF
  BY DEF CR, LF, Token

\* crlf keeps tokens as they are.
LEMMA CrlfPicks ==
  ASSUME NEW text, IsList(text)
  PROVE  /\ crlf(text) = Picked(text, Kept(text))
         /\ IsList(crlf(text)) /\ Len(crlf(text)) \in Nat
         /\ \A k \in Kept(text) : k \in Int
         /\ IsFiniteSet(Kept(text)) /\ Len(crlf(text)) = Cardinality(Kept(text))
<1> DEFINE n == Len(text)
           K == Kept(text)
<1>1. n \in Nat /\ DOMAIN text = 1..n
  BY ListIsSeq
<1>2. crlf(text) = Picked(text, K)
  BY <1>1 DEF crlf, Kept
<1>3. K \in SUBSET (1..n) /\ \A k \in 1..n : k \in Int
  BY DEF Kept
<1> HIDE DEF K, n
<1>4. /\ IsList(Picked(text, K)) /\ Len(Picked(text, K)) = Cardinality(K)
      /\ Cardinality(K) \in 0..n
  BY <1>1, <1>3, PickedList
<1>5. IsFiniteSet(K)
  BY <1>1, <1>3, CountTo, FS_Subset
<1>6. Cardinality(K) \in Nat
  BY <1>5, FS_CardinalityType
<1> QED
  BY <1>2, <1>3, <1>4, <1>5, <1>6 DEF K

\* f goes through what is kept.
Keeps(f, n, text, kept) ==
  /\ f \in [1..n -> Kept(text)]
  /\ \A k \in Kept(text) : \E r \in 1..n : f[r] = k
  /\ \A a, b \in 1..n : a < b => f[a] < f[b]
  /\ \A r \in 1..n : kept[r] = text[f[r]]

\* They stay in their order.
LEMMA CrlfKeeps ==
  ASSUME NEW text, IsList(text)
  PROVE  \E f : Keeps(f, Len(crlf(text)), text, crlf(text))
<1> DEFINE K == Kept(text)
           n == Cardinality(K)
<1>1. crlf(text) = Picked(text, K) /\ IsFiniteSet(K) /\ Len(crlf(text)) = n
  BY CrlfPicks
<1>2. K \in SUBSET Int
  BY CrlfPicks
<1> HIDE DEF K
<1>3. PICK f : Through(f, n, K) /\ Picked(text, K) = Passed(text, f, n)
  BY <1>1, <1>2, PickedHas
<1>4. \A r \in 1..n : Passed(text, f, n)[r] = text[f[r]]
  BY DEF Passed
<1>5. Keeps(f, n, text, crlf(text))
  BY <1>1, <1>3, <1>4 DEF Keeps, Through, K
<1> QED
  BY <1>1, <1>5

\* Whatever is kept in its order is the result.
LEMMA KeptIsCrlf ==
  ASSUME NEW text, IsList(text), NEW kept, IsList(kept), NEW f, Keeps(f, Len(kept), text, kept)
  PROVE  crlf(text) = kept
<1> DEFINE K == Kept(text)
           n == Len(kept)
<1>1. crlf(text) = Picked(text, K) /\ \A k \in K : k \in Int
  BY CrlfPicks
<1>2. n \in Nat /\ kept = [r \in 1..n |-> kept[r]]
  BY DEF IsList
<1>3. Through(f, n, K) /\ \A r \in 1..n : kept[r] = text[f[r]]
  BY DEF Keeps, Through
<1> HIDE DEF K, n
<1>4. Picked(text, K) = Passed(text, f, n)
  BY <1>1, <1>2, <1>3, PickedIs
<1>5. Passed(text, f, n) = kept
  BY <1>2, <1>3 DEF Passed
<1> QED
  BY <1>1, <1>4, <1>5

\* A calm text has nothing to drop.
LEMMA CalmStays ==
  ASSUME NEW text, IsList(text), Calm(text) PROVE crlf(text) = text
<1> DEFINE n == Len(text)
           f == [r \in 1..n |-> r]
<1>1. n \in Nat
  BY ListIsSeq
<1>2. Kept(text) = 1..n
  <2>1. ASSUME NEW i \in 1..n, text[i] = CR, i < n PROVE text[i + 1] # LF
    <3>1. i \in 1..n - 1
      BY <1>1, <2>1
    <3> QED
      BY <2>1, <3>1 DEF Calm
  <2> QED
    BY <2>1 DEF Kept
<1>3. Keeps(f, n, text, text)
  BY <1>2 DEF Keeps
<1> QED
  BY <1>3, KeptIsCrlf

\* Dropping leaves no "\r" before a newline or another "\r".
LEMMA CrlfCalms ==
  ASSUME NEW text, IsList(text), NoTwin(text)
  PROVE  Calm(crlf(text))
<1> DEFINE n == Len(text)
           new == crlf(text)
           m == Len(new)
           K == Kept(text)
<1>1. n \in Nat /\ m \in Nat
  BY ListIsSeq, CrlfPicks
<1>2. PICK f : Keeps(f, m, text, new)
  BY CrlfKeeps
<1>3. /\ \A r \in 1..m : f[r] \in K /\ new[r] = text[f[r]]
      /\ \A k \in K : \E r \in 1..m : f[r] = k
      /\ \A a, b \in 1..m : a < b => f[a] < f[b]
  BY <1>2 DEF Keeps
<1>4. \A i : i \in K <=> i \in 1..n /\ ~(text[i] = CR /\ i < n /\ text[i + 1] = LF)
  BY DEF Kept
<1>5. \A i \in 1..n - 1 : ~(text[i] = CR /\ text[i + 1] = CR)
  BY DEF NoTwin
<1> HIDE DEF K, n, new, m
<1>6. ASSUME NEW r \in 1..m - 1, new[r] = CR
      PROVE  new[r + 1] # CR /\ new[r + 1] # LF
  <2> DEFINE i == f[r]
             j == f[r + 1]
  <2>1. r \in 1..m /\ r + 1 \in 1..m /\ r < r + 1 /\ r \in Int
    BY <1>1
  <2>2. i \in K /\ j \in K /\ new[r] = text[i] /\ new[r + 1] = text[j] /\ i < j
    BY <1>3, <2>1
  <2>3. i \in 1..n /\ j \in 1..n
    BY <1>4, <2>2
  <2>4. \A a \in 1..m : ~(i < f[a] /\ f[a] < j)
    <3>1. ASSUME NEW a \in 1..m, i < f[a], f[a] < j PROVE FALSE
      <4>1. f[a] \in 1..n
        BY <1>3, <1>4
      <4>2. ~(a < r) /\ a # r /\ ~(r + 1 < a) /\ a # r + 1
        BY <1>1, <1>3, <2>1, <2>3, <3>1, <4>1
      <4> QED
        BY <1>1, <2>1, <4>2
    <3> QED
      BY <3>1
  <2> HIDE DEF i, j
  <2>5. i + 1 \in 1..n /\ i \in 1..n - 1 /\ i < n
    BY <1>1, <2>2, <2>3
  <2>6. text[i] = CR
    BY <1>6, <2>2
  <2>7. i + 1 \in K
    <3>1. SUFFICES ASSUME i + 1 \notin K PROVE FALSE
      OBVIOUS
    <3>2. text[i + 1] = CR
      BY <1>4, <2>5, <3>1
    <3> QED
      BY <1>5, <2>5, <2>6, <3>2
  <2>8. i + 1 = j
    <3>1. PICK a \in 1..m : f[a] = i + 1
      BY <1>3, <2>7
    <3>2. ~(i + 1 < j)
      BY <2>3, <2>4, <3>1
    <3> QED
      BY <1>1, <2>2, <2>3, <3>2
  <2>9. text[i + 1] # LF
    BY <1>4, <2>2, <2>5, <2>6
  <2>10. text[i + 1] # CR
    BY <1>5, <2>5, <2>6
  <2> QED
    BY <2>2, <2>8, <2>9, <2>10
<1> QED
  BY <1>6 DEF Calm, m, new

\* What comes last stays last.
LEMMA CrlfLast ==
  ASSUME NEW text, IsList(text), Len(text) # 0
  PROVE  Len(crlf(text)) # 0 /\ crlf(text)[Len(crlf(text))] = text[Len(text)]
<1> DEFINE n == Len(text)
           new == crlf(text)
           m == Len(new)
<1>1. n \in Nat /\ n # 0 /\ m \in Nat
  BY ListIsSeq, CrlfPicks
<1>2. PICK f : Keeps(f, m, text, new)
  BY CrlfKeeps
<1>3. n \in Kept(text)
  BY <1>1 DEF Kept
<1>4. PICK r \in 1..m : f[r] = n
  BY <1>2, <1>3 DEF Keeps
<1> HIDE DEF m
<1>5. m \in 1..m /\ m # 0 /\ r \in Int /\ (r # m => r < m)
  BY <1>1, <1>4
<1>6. f[m] \in 1..n
  BY <1>2, <1>5 DEF Keeps, Kept
<1>7. r = m
  <2>1. SUFFICES ASSUME r < m PROVE FALSE
    BY <1>5
  <2>2. f[r] < f[m]
    BY <1>2, <1>5, <2>1 DEF Keeps
  <2> HIDE DEF n
  <2> QED
    BY <1>1, <1>4, <1>6, <2>2
<1>8. new[m] = text[f[m]]
  BY <1>2, <1>5 DEF Keeps
<1> QED
  BY <1>4, <1>5, <1>7, <1>8 DEF m

\* Nothing is dropped where x and y meet.
Apart(x, y) == ~(Len(x) # 0 /\ Len(y) # 0 /\ x[Len(x)] = CR /\ y[1] = LF)

\* What is kept of two texts that meet there.
LEMMA KeptOfJoined ==
  ASSUME NEW x, IsList(x), NEW y, IsList(y), Apart(x, y)
  PROVE  /\ \A k \in 1..Len(x) : k \in Kept(x \o y) <=> k \in Kept(x)
         /\ \A k \in 1..Len(y) : Len(x) + k \in Kept(x \o y) <=> k \in Kept(y)
<1> DEFINE m == Len(x)
           n == Len(y)
           z == x \o y
<1>1. /\ IsList(z) /\ m \in Nat /\ n \in Nat /\ Len(z) = m + n
      /\ \A i \in 1..m : z[i] = x[i]
      /\ \A i \in 1..n : z[m + i] = y[i]
  <2>1. EndsWith(z, m, y)
    BY JoinedTail
  <2> QED
    BY <2>1, JoinedList DEF EndsWith
<1>2. /\ \A i : i \in Kept(z) <=> i \in 1..m + n /\ ~(z[i] = CR /\ i < m + n /\ z[i + 1] = LF)
      /\ \A i : i \in Kept(x) <=> i \in 1..m /\ ~(x[i] = CR /\ i < m /\ x[i + 1] = LF)
      /\ \A i : i \in Kept(y) <=> i \in 1..n /\ ~(y[i] = CR /\ i < n /\ y[i + 1] = LF)
  BY <1>1 DEF Kept
<1>3. ~(m # 0 /\ n # 0 /\ x[m] = CR /\ y[1] = LF)
  BY DEF Apart
<1> HIDE DEF m, n, z
<1>4. ASSUME NEW k \in 1..m PROVE k \in Kept(z) <=> k \in Kept(x)
  <2>1. k \in Int /\ k \in 1..m + n /\ z[k] = x[k] /\ m # 0
    BY <1>1
  <2>2. CASE k < m
    <3>1. k + 1 \in 1..m /\ k < m + n
      BY <1>1, <2>2
    <3>2. z[k + 1] = x[k + 1]
      BY <1>1, <3>1
    <3> QED
      BY <1>2, <2>1, <2>2, <3>1, <3>2
  <2>3. CASE ~(k < m)
    <3>1. k = m
      BY <1>1, <2>3
    <3>2. ASSUME k < m + n PROVE n # 0 /\ z[k + 1] = y[1]
      <4>1. n # 0 /\ 1 \in 1..n
        BY <1>1, <3>1, <3>2
      <4> QED
        BY <1>1, <3>1, <4>1
    <3> QED
      BY <1>2, <1>3, <2>1, <2>3, <3>1, <3>2
  <2> QED
    BY <2>2, <2>3
<1>5. ASSUME NEW k \in 1..n PROVE m + k \in Kept(z) <=> k \in Kept(y)
  <2>1. k \in Int /\ m + k \in 1..m + n /\ z[m + k] = y[k] /\ (m + k < m + n <=> k < n)
    BY <1>1
  <2>2. ASSUME k < n PROVE z[(m + k) + 1] = y[k + 1]
    <3>1. k + 1 \in 1..n /\ (m + k) + 1 = m + (k + 1)
      BY <1>1, <2>2
    <3> QED
      BY <1>1, <3>1
  <2> QED
    BY <1>2, <2>1, <2>2
<1> QED
  BY <1>4, <1>5 DEF m, n, z

\* Texts that meet there are normalized apart.
LEMMA CrlfJoined ==
  ASSUME NEW x, IsList(x), NEW y, IsList(y), Apart(x, y)
  PROVE  crlf(x \o y) = crlf(x) \o crlf(y)
<1> DEFINE l == Len(x)
           z == x \o y
           a == crlf(x)
           b == crlf(y)
           c == a \o b
           m == Len(a)
           n == Len(b)
<1>1. IsList(a) /\ IsList(b) /\ m \in Nat /\ n \in Nat
  BY CrlfPicks
<1>2. /\ IsList(c) /\ Len(c) = m + n
      /\ \A i \in 1..m : c[i] = a[i]
      /\ \A i \in 1..n : c[m + i] = b[i]
  <2> HIDE DEF a, b
  <2>1. EndsWith(c, m, b)
    BY <1>1, JoinedTail
  <2> QED
    BY <1>1, <2>1, JoinedList DEF EndsWith
<1>3. /\ IsList(z) /\ l \in Nat /\ Len(y) \in Nat /\ Len(z) = l + Len(y)
      /\ \A i \in 1..l : z[i] = x[i]
      /\ \A i \in 1..Len(y) : z[l + i] = y[i]
  <2>1. EndsWith(z, l, y)
    BY JoinedTail
  <2> QED
    BY <2>1, JoinedList DEF EndsWith
<1>4. /\ \A k \in 1..l : k \in Kept(z) <=> k \in Kept(x)
      /\ \A k \in 1..Len(y) : l + k \in Kept(z) <=> k \in Kept(y)
  BY KeptOfJoined
<1>5. PICK f : Keeps(f, m, x, a)
  BY CrlfKeeps
<1>6. PICK g : Keeps(g, n, y, b)
  BY CrlfKeeps
<1> HIDE DEF a, b, c, l, m, n, z
<1>7. /\ \A r \in 1..m : f[r] \in Kept(x) /\ a[r] = x[f[r]] /\ f[r] \in 1..l
      /\ \A k \in Kept(x) : \E r \in 1..m : f[r] = k
      /\ \A i, j \in 1..m : i < j => f[i] < f[j]
  BY <1>5 DEF Keeps, Kept, l
<1>8. /\ \A r \in 1..n : g[r] \in Kept(y) /\ b[r] = y[g[r]] /\ g[r] \in 1..Len(y)
      /\ \A k \in Kept(y) : \E r \in 1..n : g[r] = k
      /\ \A i, j \in 1..n : i < j => g[i] < g[j]
  BY <1>6 DEF Keeps, Kept
<1> DEFINE h == [r \in 1..m + n |-> IF r <= m THEN f[r] ELSE l + g[r - m]]
<1>9. /\ \A r \in 1..m : r \in 1..m + n /\ h[r] = f[r]
      /\ \A r \in 1..n : m + r \in 1..m + n /\ h[m + r] = l + g[r]
  <2>1. ASSUME NEW r \in 1..n PROVE m + r \in 1..m + n /\ ~(m + r <= m) /\ (m + r) - m = r
    BY <1>1
  <2>2. ASSUME NEW r \in 1..m PROVE r \in 1..m + n /\ r <= m
    BY <1>1
  <2> QED
    BY <2>1, <2>2
<1>10. DOMAIN h = 1..m + n /\ h = [r \in 1..m + n |-> h[r]]
  OBVIOUS
<1> HIDE DEF h
<1>11. ASSUME NEW r \in 1..m + n
       PROVE  r \in 1..m \/ \E k \in 1..n : r = m + k
  <2>1. r \in Int
    OBVIOUS
  <2>2. r \in 1..m \/ (r - m \in 1..n /\ r = m + (r - m))
    BY <1>1, <2>1
  <2> QED
    BY <2>2
<1>12. ASSUME NEW r \in 1..m + n PROVE h[r] \in Kept(z) /\ c[r] = z[h[r]]
  <2>1. CASE r \in 1..m
    BY <1>2, <1>3, <1>4, <1>7, <1>9, <2>1
  <2>2. ASSUME NEW k \in 1..n, r = m + k PROVE h[r] \in Kept(z) /\ c[r] = z[h[r]]
    <3>1. h[r] = l + g[k] /\ c[r] = b[k] /\ g[k] \in 1..Len(y)
      BY <1>2, <1>8, <1>9, <2>2
    <3>2. z[l + g[k]] = y[g[k]] /\ l + g[k] \in Kept(z)
      BY <1>3, <1>4, <1>8, <3>1
    <3> QED
      BY <1>8, <3>1, <3>2
  <2> QED
    BY <1>11, <2>1, <2>2
<1>13. ASSUME NEW k \in Kept(z) PROVE \E r \in 1..m + n : h[r] = k
  <2>1. k \in 1..l + Len(y)
    BY <1>3 DEF Kept
  <2>2. k \in 1..l \/ (k - l \in 1..Len(y) /\ l + (k - l) = k)
    BY <1>3, <2>1
  <2>3. CASE k \in 1..l
    <3>1. PICK r \in 1..m : f[r] = k
      BY <1>4, <1>7, <2>3
    <3> QED
      BY <1>9, <3>1
  <2>4. CASE k - l \in 1..Len(y) /\ l + (k - l) = k
    <3>1. k - l \in Kept(y)
      BY <1>4, <2>4
    <3>2. PICK r \in 1..n : g[r] = k - l
      BY <1>8, <3>1
    <3>3. h[m + r] = k /\ m + r \in 1..m + n
      BY <1>9, <2>4, <3>2
    <3> QED
      BY <3>3
  <2> QED
    BY <2>2, <2>3, <2>4
<1>14. ASSUME NEW i \in 1..m + n, NEW j \in 1..m + n, i < j PROVE h[i] < h[j]
  <2>1. CASE i \in 1..m /\ j \in 1..m
    BY <1>7, <1>9, <1>14, <2>1
  <2>2. ASSUME i \in 1..m, NEW k \in 1..n, j = m + k PROVE h[i] < h[j]
    <3>1. h[i] \in 1..l /\ h[j] = l + g[k] /\ g[k] \in 1..Len(y)
      BY <1>7, <1>8, <1>9, <2>2
    <3> QED
      BY <1>3, <3>1
  <2>3. ASSUME NEW k \in 1..n, i = m + k, j \in 1..m PROVE FALSE
    BY <1>1, <1>14, <2>3
  <2>4. ASSUME NEW k \in 1..n, i = m + k, NEW p \in 1..n, j = m + p PROVE h[i] < h[j]
    <3>1. k < p
      BY <1>1, <1>14, <2>4
    <3>2. g[k] < g[p] /\ h[i] = l + g[k] /\ h[j] = l + g[p]
      BY <1>8, <1>9, <2>4, <3>1
    <3>3. g[k] \in Int /\ g[p] \in Int
      BY <1>8
    <3> QED
      BY <1>3, <3>2, <3>3
  <2> QED
    BY <1>11, <2>1, <2>2, <2>3, <2>4
<1>15. Keeps(h, m + n, z, c)
  <2>1. h \in [1..m + n -> Kept(z)]
    BY <1>10, <1>12
  <2> QED
    BY <1>12, <1>13, <1>14, <2>1 DEF Keeps
<1>16. crlf(z) = c
  BY <1>2, <1>3, <1>15, KeptIsCrlf
<1> QED
  BY <1>16 DEF c, z, a, b

\* It does not matter where the text was cut.
LEMMA CrlfAcrossCut ==
  ASSUME NEW u, IsList(u), NEW w, IsList(w), NoTwin(u \o w)
  PROVE  /\ crlf(crlf(u) \o w) = crlf(u \o w)
         /\ NoTwin(crlf(u) \o w)
         /\ Calm(crlf(u))
<1> DEFINE n == Len(u)
           c == crlf(u)
           m == Len(c)
           k == Len(w)
<1>1. /\ n \in Nat /\ k \in Nat /\ Len(u \o w) = n + k /\ IsList(u \o w)
      /\ \A i \in 1..n : (u \o w)[i] = u[i]
      /\ \A i \in 1..k : (u \o w)[n + i] = w[i]
  <2>1. EndsWith(u \o w, n, w)
    BY JoinedTail
  <2> QED
    BY <2>1, JoinedList DEF EndsWith
<1>2. /\ IsList(c) /\ m \in Nat
      /\ n # 0 => m # 0 /\ c[m] = u[n]
  BY CrlfPicks, CrlfLast
<1>3. \A i \in 1..(n + k) - 1 : ~((u \o w)[i] = CR /\ (u \o w)[i + 1] = CR)
  BY <1>1 DEF NoTwin
<1>4. NoTwin(u)
  <2>1. ASSUME NEW i \in 1..n - 1 PROVE ~(u[i] = CR /\ u[i + 1] = CR)
    <3>1. i \in 1..(n + k) - 1 /\ i \in 1..n /\ i + 1 \in 1..n
      BY <1>1
    <3> QED
      BY <1>1, <1>3, <3>1
  <2> QED
    BY <2>1 DEF NoTwin
<1>5. Calm(c)
  BY <1>4, CrlfCalms
<1>6. crlf(c) = c
  BY <1>2, <1>5, CalmStays
<1>7. \A i \in 1..k - 1 : ~(w[i] = CR /\ w[i + 1] = CR)
  <2>1. ASSUME NEW i \in 1..k - 1 PROVE ~(w[i] = CR /\ w[i + 1] = CR)
    <3>1. n + i \in 1..(n + k) - 1 /\ i \in 1..k /\ i + 1 \in 1..k /\ (n + i) + 1 = n + (i + 1)
      BY <1>1
    <3> QED
      BY <1>1, <1>3, <3>1
  <2> QED
    BY <2>1
<1>8. n # 0 /\ k # 0 => ~(u[n] = CR /\ w[1] = CR)
  <2>1. SUFFICES ASSUME n # 0, k # 0 PROVE ~(u[n] = CR /\ w[1] = CR)
    OBVIOUS
  <2>2. n \in 1..(n + k) - 1 /\ n \in 1..n /\ 1 \in 1..k
    BY <1>1, <2>1
  <2> QED
    BY <1>1, <1>3, <2>2
<1>9. n = 0 => m = 0
  <2>1. SUFFICES ASSUME n = 0 PROVE m = 0
    OBVIOUS
  <2>2. u = <<>>
    BY <2>1, EmptyList
  <2>3. Calm(u)
    BY <2>1 DEF Calm
  <2>4. c = u
    BY <2>3, CalmStays
  <2> QED
    BY <2>1, <2>4
<1>10. /\ IsList(c \o w) /\ Len(c \o w) = m + k
       /\ \A i \in 1..m : (c \o w)[i] = c[i]
       /\ \A i \in 1..k : (c \o w)[m + i] = w[i]
  <2> HIDE DEF c
  <2>1. EndsWith(c \o w, m, w)
    BY <1>2, JoinedTail
  <2> QED
    BY <1>2, <2>1, JoinedList DEF EndsWith
<1> HIDE DEF n, c, m, k
<1>11. NoTwin(c \o w)
  <2>1. \A i \in 1..m - 1 : ~(c[i] = CR /\ c[i + 1] = CR)
    BY <1>5 DEF Calm, m
  <2>2. ASSUME NEW i \in 1..(m + k) - 1, (c \o w)[i] = CR, (c \o w)[i + 1] = CR PROVE FALSE
    <3>1. i \in Int /\ 1 <= i /\ i < m + k
      BY <1>2, <1>1
    <3>2. CASE i < m
      <4>1. i \in 1..m - 1 /\ i \in 1..m /\ i + 1 \in 1..m
        BY <1>2, <3>1, <3>2
      <4> QED
        BY <1>10, <2>1, <2>2, <4>1
    <3>3. CASE i = m
      <4>1. i \in 1..m /\ 1 \in 1..k /\ m # 0 /\ k # 0
        BY <1>1, <1>2, <3>1, <3>3
      <4>2. c[m] = CR /\ w[1] = CR
        BY <1>10, <2>2, <3>3, <4>1
      <4> QED
        BY <1>2, <1>8, <1>9, <4>1, <4>2
    <3>4. CASE i > m
      <4> DEFINE j == i - m
      <4>1. j \in 1..k - 1 /\ j \in 1..k /\ j + 1 \in 1..k /\ i = m + j /\ i + 1 = m + (j + 1)
        BY <1>1, <1>2, <3>1, <3>4
      <4> HIDE DEF j
      <4> QED
        BY <1>7, <1>10, <2>2, <4>1, SMTT(30)
    <3> QED
      BY <1>2, <3>1, <3>2, <3>3, <3>4
  <2> QED
    BY <1>10, <2>2 DEF NoTwin
<1>12. crlf(c \o w) = crlf(u \o w)
  <2>1. CASE Apart(u, w)
    <3>1. Apart(c, w)
      BY <1>2, <1>9, <2>1 DEF Apart, n, m
    <3>2. crlf(u \o w) = c \o crlf(w)
      BY <2>1, CrlfJoined DEF c
    <3>3. crlf(c \o w) = crlf(c) \o crlf(w)
      BY <1>2, <3>1, CrlfJoined
    <3> QED
      BY <1>6, <3>2, <3>3
  <2>2. CASE ~Apart(u, w)
    <3>1. n # 0 /\ u[n] = CR
      BY <2>2 DEF Apart, n
    <3> DEFINE v == SubSeq(u, 1, n - 1)
               e == SubSeq(u, n, n)
    <3>2. /\ IsList(v) /\ IsList(e) /\ Len(v) = n - 1 /\ Len(e) = 1
          /\ e[1] = CR /\ v \o e = u
      <4> DEFINE q == n - 1
      <4>1. q \in Int /\ 0 <= q /\ q <= Len(u) /\ q + 1 = n /\ Len(u) = n /\ n - q = 1
        BY <1>1, <3>1 DEF n
      <4> HIDE DEF q
      <4>2. /\ IsList(SubSeq(u, 1, q)) /\ IsList(SubSeq(u, q + 1, Len(u)))
            /\ Len(SubSeq(u, 1, q)) = q /\ Len(SubSeq(u, q + 1, Len(u))) = Len(u) - q
            /\ \A i \in 1..Len(u) - q : SubSeq(u, q + 1, Len(u))[i] = u[q + i]
            /\ SubSeq(u, 1, q) \o SubSeq(u, q + 1, Len(u)) = u
        BY <4>1, SplitList
      <4>3. 1 \in 1..Len(u) - q
        BY <4>1
      <4> QED
        BY <3>1, <4>1, <4>2, <4>3 DEF q
    <3> HIDE DEF v, e
    <3>3. NoTwin(v)
      <4>1. ASSUME NEW i \in 1..(n - 1) - 1 PROVE ~(v[i] = CR /\ v[i + 1] = CR)
        <5>1. i \in 1..n - 1 /\ i \in 1..Len(v) /\ i + 1 \in 1..Len(v)
          BY <1>1, <3>2
        <5>2. v[i] = u[i] /\ v[i + 1] = u[i + 1]
          BY <3>2, <5>1, JoinedList
        <5> QED
          BY <1>4, <5>1, <5>2 DEF NoTwin, n
      <4> QED
        BY <3>2, <4>1 DEF NoTwin
    <3>4. Calm(e)
      BY <3>2 DEF Calm
    <3>5. crlf(e) = e
      BY <3>2, <3>4, CalmStays
    <3>6. CR # LF
      BY Newlines
    <3>7. Apart(v, e)
      BY <3>2, <3>6 DEF Apart
    <3>8. c = crlf(v) \o e
      BY <3>2, <3>5, <3>7, CrlfJoined DEF c
    <3> DEFINE x == crlf(v)
               y == e \o w
    <3>9. IsList(x) /\ crlf(x) = x
      BY <3>2, <3>3, CrlfPicks, CrlfCalms, CalmStays
    <3>10. IsList(y) /\ y[1] = CR
      <4>1. 1 \in 1..Len(e)
        BY <3>2
      <4>2. IsList(e \o w)
        BY <3>2, JoinedList
      <4>3. \A i \in 1..Len(e) : (e \o w)[i] = e[i]
        BY <3>2, JoinedList
      <4>4. (e \o w)[1] = e[1]
        BY <4>1, <4>3
      <4> QED
        BY <3>2, <4>2, <4>4
    <3> HIDE DEF x
    <3>11. c \o w = x \o y
      <4>0. IsList(x) /\ IsList(e) /\ IsList(w)
        BY <3>2, <3>9
      <4>1. (x \o e) \o w = x \o (e \o w)
        <5>1. Grouped(x, e, w)
          BY <4>0, JoinedThrice
        <5> QED
          BY <5>1 DEF Grouped
      <4>2. c = x \o e
        BY <3>8 DEF x
      <4> QED
        BY <4>1, <4>2
    <3>12. u \o w = v \o y
      <4>0. IsList(v) /\ IsList(e) /\ IsList(w)
        BY <3>2
      <4>1. (v \o e) \o w = v \o (e \o w)
        <5>1. Grouped(v, e, w)
          BY <4>0, JoinedThrice
        <5> QED
          BY <5>1 DEF Grouped
      <4>2. v \o e = u
        BY <3>2
      <4> QED
        BY <4>1, <4>2
    <3> HIDE DEF y
    <3>13. Apart(x, y) /\ Apart(v, y)
      BY <3>6, <3>10 DEF Apart
    <3>14. crlf(x \o y) = x \o crlf(y)
      BY <3>9, <3>10, <3>13, CrlfJoined
    <3>15. crlf(v \o y) = x \o crlf(y)
      BY <3>2, <3>10, <3>13, CrlfJoined DEF x
    <3> QED
      BY <3>11, <3>12, <3>14, <3>15
  <2> QED
    BY <2>1, <2>2
<1> QED
  BY <1>5, <1>11, <1>12 DEF c

------------------------------------------------------------------------------
(* What a body tells, from one frame on.                                     *)

Told(frame) == IF frame = <<>> THEN <<>> ELSE Decoded(frame[1])

\* The blank lines from p on, and where the frame after the first one starts.
Ends(text, p) == {i \in Separators(text) : i >= p}

After(text, p) == Min(Ends(text, p)) + 2

\* What the frame at p tells, and what it tells if it is the last.
ToldAt(text, p) == Told(parseFrame(SubSeq(text, p, Min(Ends(text, p)) - 1)))

ToldLast(text, p) == Told(parseFrame(trim(SubSeq(text, p, Len(text)))))

ToldFrom(text, p, further) ==
  CASE Ends(text, p) = {} -> ToldLast(text, p)
    [] Ends(text, p) # {} /\ IsDone(ToldAt(text, p)) -> ToldAt(text, p)
    [] OTHER -> ToldAt(text, p) \o further

From(text) ==
  LET from[p \in 1..Len(text) + 1] == ToldFrom(text, p, from[After(text, p)])
  IN  from

\* What a body means is what is told from its first token on.
LEMMA MeaningIs ==
  ASSUME NEW tokens PROVE Meaning(tokens) = From(crlf(tokens))[1]
  BY DEF Meaning, From, ToldFrom, ToldAt, ToldLast, Told, Ends, After

\* A frame tells one event or none.
LEMMA ToldList == ASSUME NEW frame PROVE IsList(Told(frame))
<1>1. ASSUME NEW type, NEW value PROVE IsList(Event(type, value))
  <2>1. \A x : IsList(<<x>>)
    BY SingleList
  <2> QED
    BY <2>1 DEF Event
<1>2. ASSUME NEW event, NEW value PROVE IsList(parseFridayEvent(event, value))
  BY <1>1, EmptyList DEF parseFridayEvent
<1>3. ASSUME NEW f PROVE IsList(Decoded(f))
  <2>1. \A x : IsList(<<x>>)
    BY SingleList
  <2> DEFINE u == unwrapEnvelope(f)
  <2>2. IsList(parseFridayEvent(u.event, u.value))
    BY <1>2
  <2> HIDE DEF u
  <2>3. Decoded(f) = IF u.kind = "rejected" THEN <<[type |-> "protocol", fields |-> {}]>>
                     ELSE parseFridayEvent(u.event, u.value)
    BY DEF Decoded, u
  <2> QED
    BY <2>1, <2>2, <2>3
<1> QED
  BY <1>3, EmptyList DEF Told

\* Telling nothing does not end the turn.
LEMMA NothingIsNotDone == ~IsDone(<<>>)
<1>1. DOMAIN <<>> = {}
  OBVIOUS
<1>2. ToSet(<<>>) = {}
  BY <1>1 DEF ToSet
<1> QED
  BY <1>2 DEF IsDone

\* The first blank line from p on, if there is one.
LEMMA EndIs ==
  ASSUME NEW text, IsList(text), NEW p, p \in Nat, p # 0, Ends(text, p) # {}
  PROVE  /\ Min(Ends(text, p)) \in Ends(text, p)
         /\ p <= Min(Ends(text, p))
         /\ Min(Ends(text, p)) \in 1..Len(text) - 1
         /\ After(text, p) \in p + 1..Len(text) + 1
<1> DEFINE S == Ends(text, p)
           n == Len(text)
           e == Min(S)
<1>1. n \in Nat
  BY ListIsSeq
<1>2. \A i \in S : i \in 1..n - 1 /\ i >= p
  BY DEF Ends, Separators
<1>3. \A i \in S : i \in Nat
  BY <1>1, <1>2
<1>4. e \in S
  BY <1>3, MinOf
<1>5. e \in 1..n - 1 /\ e >= p
  BY <1>2, <1>4
<1> HIDE DEF S, n
<1>6. After(text, p) = e + 2
  BY DEF After, S
<1> HIDE DEF e
<1>7. e + 2 \in p + 1..n + 1 /\ p <= e
  BY <1>1, <1>5
<1> QED
  BY <1>4, <1>5, <1>6, <1>7 DEF e, S, n

\* What comes further counts only if another frame does.
LEMMA FurtherMatters ==
  ASSUME NEW text, NEW p, NEW a, NEW b, Ends(text, p) # {} => a = b
  PROVE  ToldFrom(text, p, a) = ToldFrom(text, p, b)
  BY DEF ToldFrom

\* f has what is told from each place from q on.
ReadsFrom(text, q, f) ==
  /\ f = [p \in q..Len(text) + 1 |-> f[p]]
  /\ \A p \in q..Len(text) + 1 : f[p] = ToldFrom(text, p, f[After(text, p)])

\* One place further back can be read too.
LEMMA ReadEarlier ==
  ASSUME NEW text, IsList(text), NEW q, q \in 1..Len(text) + 1,
         NEW g, ReadsFrom(text, q + 1, g)
  PROVE  \E f : ReadsFrom(text, q, f)
<1> DEFINE n == Len(text) + 1
           here == ToldFrom(text, q, g[After(text, q)])
           f == [p \in q..n |-> IF p = q THEN here ELSE g[p]]
<1>1. n \in Nat
  BY ListIsSeq
<1>2. q \in Nat /\ q # 0 /\ q <= n
  BY <1>1
<1>3. ASSUME NEW p \in q..n PROVE f[p] = ToldFrom(text, p, f[After(text, p)])
  <2>1. p \in Nat /\ p # 0
    BY <1>1, <1>2
  <2>2. ASSUME Ends(text, p) # {} PROVE f[After(text, p)] = g[After(text, p)]
    <3> DEFINE a == After(text, p)
    <3>1. a \in p + 1..n
      BY <2>1, <2>2, EndIs
    <3> HIDE DEF a, n, here
    <3>2. a \in q..n /\ a # q
      BY <1>1, <1>2, <2>1, <3>1
    <3>3. f[a] = g[a]
      BY <3>2
    <3> QED
      BY <3>3 DEF a
  <2>3. ToldFrom(text, p, f[After(text, p)]) = ToldFrom(text, p, g[After(text, p)])
    <3> HIDE DEF f
    <3> QED
      BY <2>2, FurtherMatters
  <2>4. CASE p = q
    <3>1. f[p] = here
      BY <2>4
    <3> QED
      BY <2>3, <2>4, <3>1
  <2>5. CASE p # q
    <3>1. p \in q + 1..n /\ f[p] = g[p]
      BY <1>1, <1>2, <2>1, <2>5
    <3>2. g[p] = ToldFrom(text, p, g[After(text, p)])
      BY <3>1 DEF ReadsFrom
    <3> QED
      BY <2>3, <3>1, <3>2
  <2> QED
    BY <2>4, <2>5
<1>4. f = [p \in q..n |-> f[p]]
  OBVIOUS
<1> HIDE DEF f
<1>5. ReadsFrom(text, q, f)
  BY <1>3, <1>4 DEF ReadsFrom
<1> QED
  BY <1>5

\* From the last place back, everything can be read.
LEMMA AllRead ==
  ASSUME NEW text, IsList(text) PROVE \E f : ReadsFrom(text, 1, f)
<1> DEFINE n == Len(text) + 1
           Bad == {k \in Nat : k <= n /\ ~\E f : ReadsFrom(text, n + 1 - k, f)}
<1>1. n \in Nat
  BY ListIsSeq
<1>2. ASSUME Bad = {} PROVE \E f : ReadsFrom(text, 1, f)
  <2>1. n \notin Bad
    BY <1>2
  <2>2. \E f : ReadsFrom(text, n + 1 - n, f)
    BY <1>1, <2>1
  <2>3. n + 1 - n = 1
    BY <1>1
  <2> HIDE DEF n
  <2> QED
    BY <2>2, <2>3
<1>3. ASSUME Bad # {} PROVE FALSE
  <2> DEFINE m == Min(Bad)
  <2>1. m \in Bad /\ \A k \in Bad : m <= k
    BY <1>3, MinOf
  <2> HIDE DEF m
  <2>2. ReadsFrom(text, n + 1 - 0, <<>>)
    <3>1. n + 1 - 0 = n + 1 /\ n + 1..n = {}
      BY <1>1
    <3> QED
      BY <3>1 DEF ReadsFrom
  <2>3. 0 \notin Bad
    <3> HIDE DEF n
    <3> QED
      BY <2>2
  <2>4. m \in Nat /\ m # 0 /\ m <= n
    BY <2>1, <2>3
  <2> DEFINE q == n + 1 - m
  <2>5. m - 1 \in Nat /\ ~(m <= m - 1) /\ m - 1 <= n /\ q \in 1..n /\ n + 1 - (m - 1) = q + 1
    BY <1>1, <2>4
  <2>6. m - 1 \notin Bad
    <3> HIDE DEF Bad
    <3> QED
      BY <2>1, <2>5
  <2>7. \E g : ReadsFrom(text, n + 1 - (m - 1), g)
    <3> HIDE DEF n, q
    <3> QED
      BY <2>5, <2>6
  <2>8. PICK g : ReadsFrom(text, q + 1, g)
    <3> HIDE DEF n, q
    <3> QED
      BY <2>5, <2>7
  <2>9. \E f : ReadsFrom(text, q, f)
    <3> HIDE DEF q
    <3> QED
      BY <2>5, <2>8, ReadEarlier
  <2> QED
    BY <2>1, <2>9
<1> QED
  BY <1>2, <1>3

\* What is told from p on, frame by frame.
LEMMA FromIs ==
  ASSUME NEW text, IsList(text), NEW p, p \in 1..Len(text) + 1
  PROVE  From(text)[p] = ToldFrom(text, p, From(text)[After(text, p)])
<1> DEFINE Eq(f) == f = [i \in 1..Len(text) + 1 |-> ToldFrom(text, i, f[After(text, i)])]
<1>1. PICK g : ReadsFrom(text, 1, g)
  BY AllRead
<1>2. Eq(g)
  BY <1>1 DEF ReadsFrom
<1> DEFINE u == CHOOSE h : Eq(h)
<1>3. Eq(u)
  <2> HIDE DEF Eq
  <2> QED
    BY <1>2
<1>4. From(text) = u
  BY DEF From
<1> HIDE DEF u
<1>5. u[p] = ToldFrom(text, p, u[After(text, p)])
  BY <1>3
<1> QED
  BY <1>4, <1>5

\* It is a list of events.
LEMMA FromList ==
  ASSUME NEW text, IsList(text), NEW p, p \in 1..Len(text) + 1
  PROVE  IsList(From(text)[p])
<1> DEFINE n == Len(text) + 1
           Bad == {k \in Nat : k <= n /\ n - k # 0 /\ ~IsList(From(text)[n - k])}
<1>1. n \in Nat
  BY ListIsSeq
<1>2. ASSUME Bad # {} PROVE FALSE
  <2> DEFINE m == Min(Bad)
             q == n - m
  <2>1. m \in Bad /\ \A k \in Bad : m <= k
    BY <1>2, MinOf
  <2> HIDE DEF m
  <2>2. m \in Nat /\ m <= n /\ q # 0 /\ ~IsList(From(text)[q])
    BY <2>1
  <2>3. q \in Nat /\ q \in 1..n
    BY <1>1, <2>2
  <2> HIDE DEF Bad
  <2>4. From(text)[q] = ToldFrom(text, q, From(text)[After(text, q)])
    <3> HIDE DEF q
    <3> QED
      BY <2>3, FromIs
  <2>5. IsList(ToldAt(text, q)) /\ IsList(ToldLast(text, q))
    BY ToldList DEF ToldAt, ToldLast
  <2>6. Ends(text, q) # {} /\ ~IsList(From(text)[After(text, q)])
    <3> HIDE DEF q
    <3>1. \A rest : IsList(rest) => IsList(ToldAt(text, q) \o rest)
      BY <2>5, JoinedList
    <3>2. \A rest : ~IsList(ToldFrom(text, q, rest)) => Ends(text, q) # {} /\ ~IsList(rest)
      BY <2>5, <3>1 DEF ToldFrom
    <3> QED
      BY <2>2, <2>4, <3>2
  <2> DEFINE a == After(text, q)
  <2>7. a \in q + 1..n
    <3> HIDE DEF q
    <3> QED
      BY <2>2, <2>3, <2>6, EndIs
  <2> HIDE DEF a
  <2>8. n - a \in Nat /\ n - a <= n /\ n - (n - a) = a /\ a # 0 /\ ~(m <= n - a)
    BY <1>1, <2>2, <2>3, <2>7
  <2>9. ~IsList(From(text)[a])
    BY <2>6 DEF a
  <2>10. n - a \in Bad
    <3> HIDE DEF n
    <3> QED
      BY <2>8, <2>9 DEF Bad
  <2> QED
    BY <2>1, <2>8, <2>10
<1>3. n - p \in Nat /\ n - p <= n /\ n - (n - p) = p /\ p # 0
  BY <1>1
<1> HIDE DEF n
<1>4. n - p \notin Bad
  BY <1>2
<1> QED
  BY <1>3, <1>4

------------------------------------------------------------------------------
(* What is read of the body, and what of it is left.                         *)

\* The parts of a calm text are calm.
LEMMA CalmHead ==
  ASSUME NEW a, IsList(a), NEW b, IsList(b), Calm(a \o b)
  PROVE  Calm(a) /\ Calm(b)
<1> DEFINE m == Len(a)
           n == Len(b)
           c == a \o b
<1>1. /\ m \in Nat /\ n \in Nat /\ Len(c) = m + n
      /\ \A i \in 1..m : c[i] = a[i]
      /\ \A i \in 1..n : c[m + i] = b[i]
  <2>1. EndsWith(c, m, b)
    BY JoinedTail
  <2> QED
    BY <2>1, JoinedList DEF EndsWith
<1>2. \A i \in 1..(m + n) - 1 : c[i] = CR => c[i + 1] # CR /\ c[i + 1] # LF
  BY <1>1 DEF Calm
<1> HIDE DEF m, n, c
<1>3. ASSUME NEW i \in 1..m - 1, a[i] = CR PROVE a[i + 1] # CR /\ a[i + 1] # LF
  <2>1. i \in 1..m /\ i + 1 \in 1..m /\ i \in 1..(m + n) - 1
    BY <1>1
  <2> QED
    BY <1>1, <1>2, <1>3, <2>1
<1>4. ASSUME NEW i \in 1..n - 1, b[i] = CR PROVE b[i + 1] # CR /\ b[i + 1] # LF
  <2>1. i \in 1..n /\ i + 1 \in 1..n /\ m + i \in 1..(m + n) - 1 /\ (m + i) + 1 = m + (i + 1)
    BY <1>1
  <2> QED
    BY <1>1, <1>2, <1>4, <2>1
<1> QED
  BY <1>3, <1>4 DEF Calm, m, n

\* The end of a text has no "\r\r" if the text has none.
LEMMA NoTwinTail ==
  ASSUME NEW a, IsList(a), NEW b, IsList(b), NoTwin(a \o b)
  PROVE  NoTwin(b)
<1> DEFINE m == Len(a)
           n == Len(b)
           c == a \o b
<1>1. /\ m \in Nat /\ n \in Nat /\ Len(c) = m + n
      /\ \A i \in 1..n : c[m + i] = b[i]
  <2>1. EndsWith(c, m, b)
    BY JoinedTail
  <2> QED
    BY <2>1, JoinedList DEF EndsWith
<1>2. \A i \in 1..(m + n) - 1 : ~(c[i] = CR /\ c[i + 1] = CR)
  BY <1>1 DEF NoTwin
<1> HIDE DEF m, n, c
<1>3. ASSUME NEW i \in 1..n - 1, b[i] = CR, b[i + 1] = CR PROVE FALSE
  <2>1. i \in 1..n /\ i + 1 \in 1..n /\ m + i \in 1..(m + n) - 1 /\ (m + i) + 1 = m + (i + 1)
    BY <1>1
  <2> QED
    BY <1>1, <1>2, <1>3, <2>1
<1> QED
  BY <1>3 DEF NoTwin, n

SameRest(x, i, t, j) == SubSeq(x, i, Len(x)) = SubSeq(t, j, Len(t))

\* What is left of what is left.
LEMMA RestOfRest ==
  ASSUME NEW t, IsList(t), NEW p, p \in 1..Len(t) + 1,
         NEW x, x = SubSeq(t, p, Len(t)),
         NEW k \in Nat, k <= Len(x)
  PROVE  /\ IsList(x) /\ Len(x) = Len(t) - p + 1
         /\ \A i \in 1..Len(x) : x[i] = t[p + i - 1]
         /\ p + k \in 1..Len(t) + 1
         /\ SameRest(x, k + 1, t, p + k)
<1> DEFINE n == Len(t)
           l == Len(x)
<1>1. n \in Nat
  BY ListIsSeq
<1>2. p \in Int /\ 1 <= p /\ p <= n + 1 /\ n \in Int /\ n <= Len(t)
  BY <1>1
<1>3. /\ IsList(x) /\ l = n - p + 1
      /\ \A i \in 1..n - p + 1 : x[i] = t[p + i - 1]
  <2> HIDE DEF n, l
  <2>1. /\ IsList(SubSeq(t, p, n)) /\ Len(SubSeq(t, p, n)) = n - p + 1
        /\ \A i \in 1..n - p + 1 : SubSeq(t, p, n)[i] = t[p + i - 1]
    BY <1>2, CutList
  <2>2. x = SubSeq(t, p, n)
    BY DEF n
  <2> QED
    BY <2>1, <2>2 DEF l
<1>4. k <= l /\ 0 <= k /\ k \in Int
  OBVIOUS
<1> DEFINE y == SubSeq(x, k + 1, l)
           z == SubSeq(t, p + k, n)
<1> HIDE DEF n
<1>5. IsList(y) /\ Len(y) = l - k /\ \A i \in 1..l - k : y[i] = x[k + i]
  BY <1>3, <1>4, SplitList
<1> HIDE DEF l
<1>6. IsList(z) /\ Len(z) = n - (p + k) + 1 /\ \A i \in 1..n - (p + k) + 1 : z[i] = t[(p + k) + i - 1]
  <2> DEFINE j == p + k
  <2>1. j \in Int /\ 1 <= j /\ j <= n + 1
    BY <1>1, <1>2, <1>3, <1>4
  <2> HIDE DEF j
  <2>2. IsList(SubSeq(t, j, n)) /\ Len(SubSeq(t, j, n)) = n - j + 1
        /\ \A i \in 1..n - j + 1 : SubSeq(t, j, n)[i] = t[j + i - 1]
    BY <1>2, <2>1, CutList
  <2> QED
    BY <2>2 DEF j
<1> HIDE DEF y, z
<1>7. l - k = n - (p + k) + 1 /\ l \in Nat
  BY <1>1, <1>2, <1>3, <1>4
<1>8. ASSUME NEW i \in 1..l - k PROVE y[i] = z[i]
  <2>1. k + i \in 1..n - p + 1 /\ i \in 1..n - (p + k) + 1 /\ p + (k + i) - 1 = (p + k) + i - 1
    BY <1>1, <1>2, <1>3, <1>4, <1>7
  <2> QED
    BY <1>3, <1>5, <1>6, <2>1
<1>9. y = z
  BY <1>5, <1>6, <1>7, <1>8, SameList
<1>10. p + k \in 1..n + 1
  BY <1>1, <1>2, <1>3, <1>4
<1> QED
  BY <1>3, <1>9, <1>10 DEF SameRest, y, z, l, n

\* A text is normalized up to a separator as it stands.
LEMMA FirstFrame ==
  ASSUME NEW u, IsList(u), Calm(u), NEW w, IsList(w), NoTwin(u \o w),
         NEW sep, sep \in Separators(u)
  PROVE  LET b == SubSeq(u, 1, sep + 1)
             r == SubSeq(u, sep + 2, Len(u))
         IN  /\ IsList(b) /\ IsList(r) /\ Len(b) = sep + 1
             /\ \A i \in 1..sep + 1 : b[i] = u[i]
             /\ Calm(r) /\ NoTwin(r \o w)
             /\ crlf(u \o w) = b \o crlf(r \o w)
<1> DEFINE n == Len(u)
           k == sep + 1
           b == SubSeq(u, 1, k)
           r == SubSeq(u, k + 1, n)
           q == SubSeq(u, sep + 2, n)
<1>1. n \in Nat
  BY ListIsSeq
<1>2. sep \in 1..n - 1 /\ u[sep] = LF /\ u[sep + 1] = LF
  BY DEF Separators
<1>3. k \in Int /\ 0 <= k /\ k <= n /\ k # 0 /\ k \in 1..k /\ sep \in Nat /\ k \in Nat
  BY <1>1, <1>2
<1>4. /\ IsList(b) /\ IsList(r) /\ Len(b) = k
      /\ \A i \in 1..k : b[i] = u[i]
      /\ b \o r = u
  <2> HIDE DEF k
  <2> QED
    BY <1>3, SplitList
<1>5. q = r
  <2>1. k + 1 = sep + 2
    BY <1>3
  <2> HIDE DEF k
  <2> QED
    BY <2>1
<1>6. b[k] = LF
  BY <1>2, <1>3, <1>4
<1> HIDE DEF b, r, k, n, q
<1>7. Calm(b) /\ Calm(r)
  <2>1. Calm(b \o r)
    BY <1>4
  <2> QED
    BY <1>4, <2>1, CalmHead
<1>8. u \o w = b \o (r \o w)
  <2>0. IsList(b) /\ IsList(r) /\ IsList(w)
    BY <1>4
  <2>1. (b \o r) \o w = b \o (r \o w)
    <3>1. Grouped(b, r, w)
      BY <2>0, JoinedThrice
    <3> QED
      BY <3>1 DEF Grouped
  <2>2. b \o r = u
    BY <1>4
  <2> QED
    BY <2>1, <2>2
<1>9. IsList(r \o w)
  BY <1>4, JoinedList
<1> DEFINE v == r \o w
<1> HIDE DEF v
<1>10. IsList(v) /\ u \o w = b \o v
  BY <1>8, <1>9 DEF v
<1>11. NoTwin(v)
  <2>1. NoTwin(b \o v)
    BY <1>10
  <2> QED
    BY <1>4, <1>10, <2>1, NoTwinTail
<1>12. Apart(b, v)
  BY <1>4, <1>6, Newlines DEF Apart
<1>13. crlf(b \o v) = crlf(b) \o crlf(v)
  BY <1>4, <1>10, <1>12, CrlfJoined
<1>14. crlf(b) = b
  BY <1>4, <1>7, CalmStays
<1>15. crlf(u \o w) = b \o crlf(v)
  BY <1>10, <1>13, <1>14
<1> QED
  BY <1>4, <1>5, <1>7, <1>11, <1>15 DEF v, b, r, k, n, q

\* From p the text t is b, the first frame of u with its separator, and a rest.
GoesOn(t, p, u, sep, b, rest) ==
  /\ IsList(t) /\ p \in 1..Len(t) + 1
  /\ IsList(u) /\ IsList(b) /\ IsList(rest)
  /\ sep = Min(Separators(u)) /\ sep \in Separators(u)
  /\ \A i \in Separators(u) : sep <= i
  /\ Len(b) = sep + 1
  /\ \A i \in 1..sep + 1 : b[i] = u[i]
  /\ SubSeq(t, p, Len(t)) = b \o rest

\* The frame the buffer begins with is the one the body goes on with.
LEMMA NextFrame ==
  ASSUME NEW t, NEW p, NEW u, NEW sep, NEW b, NEW rest,
         GoesOn(t, p, u, sep, b, rest)
  PROVE  /\ p + (sep + 1) \in 1..Len(t) + 1
         /\ rest = SubSeq(t, p + (sep + 1), Len(t))
         /\ Ends(t, p) # {}
         /\ After(t, p) = p + (sep + 1)
         /\ ToldAt(t, p) = Told(parseFrame(SubSeq(u, 1, sep - 1)))
<1>1. /\ IsList(t) /\ p \in 1..Len(t) + 1
      /\ IsList(u) /\ IsList(b) /\ IsList(rest)
      /\ sep = Min(Separators(u)) /\ sep \in Separators(u)
      /\ \A i \in Separators(u) : sep <= i
      /\ Len(b) = sep + 1
      /\ \A i \in 1..sep + 1 : b[i] = u[i]
      /\ SubSeq(t, p, Len(t)) = b \o rest
  BY DEF GoesOn
<1> USE <1>1
<1> DEFINE n == Len(t)
           l == Len(u)
           x == SubSeq(t, p, n)
           k == sep + 1
<1>2. n \in Nat /\ l \in Nat /\ p \in Int /\ 1 <= p /\ p <= n + 1
  BY ListIsSeq
<1>3. sep \in 1..l - 1 /\ u[sep] = LF /\ u[sep + 1] = LF
  BY DEF Separators
<1>4. k \in Nat /\ 0 <= k /\ k \in Int /\ sep \in Nat /\ sep # 0 /\ sep \in 1..k /\ sep + 1 \in 1..k
  BY <1>2, <1>3, SMTT(30)
<1>5. /\ IsList(b \o rest) /\ Len(b \o rest) = k + Len(rest) /\ Len(rest) \in Nat
      /\ \A i \in 1..k : (b \o rest)[i] = b[i]
  <2>1. Len(b) = k
    OBVIOUS
  <2> HIDE DEF k
  <2> QED
    BY <2>1, JoinedList
<1>6. x = b \o rest
  BY <1>1
<1> HIDE DEF x
<1>7. k <= Len(x) /\ IsList(x) /\ \A i \in 1..k : x[i] = u[i]
  <2>1. Len(x) = k + Len(rest) /\ IsList(x) /\ \A i \in 1..k : x[i] = b[i]
    BY <1>5, <1>6
  <2>2. \A i \in 1..k : b[i] = u[i]
    OBVIOUS
  <2> DEFINE r == Len(rest)
             s == Len(x)
  <2>3. r \in Nat /\ s = k + r
    BY <1>5, <2>1
  <2> HIDE DEF r, s, k
  <2>4. k <= s
    BY <1>4, <2>3
  <2> QED
    BY <2>1, <2>2, <2>4 DEF s
<1>8. /\ Len(x) = n - p + 1
      /\ \A i \in 1..Len(x) : x[i] = t[p + i - 1]
      /\ p + k \in 1..n + 1
      /\ SubSeq(x, k + 1, Len(x)) = SubSeq(t, p + k, n)
  <2>1. x = SubSeq(t, p, Len(t))
    BY DEF x
  <2>2. k \in Nat /\ k <= Len(x)
    BY <1>4, <1>7
  <2> HIDE DEF k, n
  <2>3. /\ Len(x) = Len(t) - p + 1
        /\ \A i \in 1..Len(x) : x[i] = t[p + i - 1]
        /\ p + k \in 1..Len(t) + 1
    BY <2>1, <2>2, RestOfRest
  <2>4. SameRest(x, k + 1, t, p + k)
    BY <2>1, <2>2, RestOfRest
  <2> QED
    BY <2>3, <2>4 DEF SameRest, n
<1> HIDE DEF n
<1>9. rest = SubSeq(t, p + k, n)
  <2> DEFINE a == SubSeq(x, 1, k)
             c == SubSeq(x, k + 1, Len(x))
  <2>1. IsList(a) /\ IsList(c) /\ Len(a) = k /\ a \o c = x
    <3> HIDE DEF k
    <3> QED
      BY <1>4, <1>7, SplitList
  <2> HIDE DEF a, c
  <2>2. b \o rest = a \o c /\ Len(b) = Len(a)
    BY <1>6, <2>1
  <2>3. rest = c
    BY <2>1, <2>2, RestOfJoined
  <2> QED
    BY <1>8, <2>3 DEF c
<1> DEFINE e == p + sep - 1
<1>10. e \in Int /\ e \in 1..n - 1 /\ e >= p /\ e + 1 = p + (sep + 1) - 1 /\ e + 2 = p + k
  <2> DEFINE m == Len(x)
  <2>1. sep + 1 <= m /\ m = n - p + 1
    BY <1>7, <1>8
  <2> HIDE DEF m
  <2>2. sep <= n - p
    BY <1>2, <1>4, <2>1
  <2>3. 1 <= sep /\ sep \in Int /\ n \in Int /\ p \in Int /\ 1 <= p
    BY <1>2, <1>4
  <2>4. e \in Int /\ e <= n - 1 /\ 1 <= e /\ e >= p
    BY <2>2, <2>3
  <2>5. e + 1 = p + (sep + 1) - 1
    BY <2>3
  <2>6. e + 2 = p + k
    BY <2>3
  <2> QED
    BY <2>3, <2>4, <2>5, <2>6
<1>11. \A i \in 1..k : i \in 1..Len(x) /\ t[p + i - 1] = u[i]
  <2>1. ASSUME NEW i \in 1..k PROVE i \in 1..Len(x) /\ t[p + i - 1] = u[i]
    <3>1. i \in 1..Len(x)
      BY <1>2, <1>4, <1>7, <1>8
    <3> HIDE DEF k
    <3> QED
      BY <1>7, <1>8, <3>1
  <2> QED
    BY <2>1
<1>12. t[e] = LF /\ t[e + 1] = LF
  <2>1. t[p + sep - 1] = u[sep] /\ t[p + (sep + 1) - 1] = u[sep + 1]
    BY <1>4, <1>11
  <2> QED
    BY <1>3, <1>10, <2>1
<1>13. e \in Ends(t, p)
  BY <1>10, <1>12 DEF Ends, Separators, n
<1>14. ASSUME NEW i \in Ends(t, p) PROVE i \in Int /\ e <= i
  <2>1. i \in 1..n - 1 /\ t[i] = LF /\ t[i + 1] = LF /\ i >= p
    BY DEF Ends, Separators, n
  <2>2. ASSUME i < e PROVE FALSE
    <3> DEFINE j == i - p + 1
    <3>1. j \in 1..k /\ j + 1 \in 1..k /\ p + j - 1 = i /\ p + (j + 1) - 1 = i + 1 /\ j < sep /\ j \in 1..l - 1
      <4>1. i \in Int /\ p <= i /\ i < p + sep - 1
        BY <1>2, <2>1, <2>2
      <4>2. sep \in Int /\ sep <= l - 1
        BY <1>2, <1>3
      <4> HIDE DEF l
      <4>3. j \in Int /\ 1 <= j /\ j < sep
        BY <1>2, <4>1, <4>2
      <4>4. l \in Int
        BY <1>2 DEF l
      <4> QED
        BY <1>2, <4>1, <4>2, <4>3, <4>4
    <3> HIDE DEF j, k
    <3>2. u[j] = LF /\ u[j + 1] = LF
      BY <1>11, <2>1, <3>1
    <3>3. j \in Separators(u)
      BY <3>1, <3>2 DEF Separators
    <3> QED
      BY <1>4, <3>1, <3>3
  <2> QED
    BY <1>10, <2>1, <2>2
<1>15. Min(Ends(t, p)) = e
  <2> HIDE DEF e
  <2>1. \A i \in Ends(t, p) : i \in Int /\ e <= i
    BY <1>14
  <2> QED
    BY <1>13, <2>1, MinIs
<1>16. SubSeq(t, p, e - 1) = SubSeq(u, 1, sep - 1)
  <2> DEFINE a == SubSeq(t, p, e - 1)
             c == SubSeq(u, 1, sep - 1)
             f == e - 1
             g == sep - 1
  <2>1. f \in Int /\ p <= f + 1 /\ f <= Len(t) /\ f - p + 1 = g /\ g \in Nat
    <3>1. Len(t) = n
      BY DEF n
    <3>2. e \in Int /\ e <= n - 1 /\ p <= e
      BY <1>2, <1>10
    <3>3. sep \in Nat /\ sep # 0
      BY <1>4
    <3> HIDE <1>1
    <3> QED
      BY <1>2, <3>1, <3>2, <3>3
  <2>2. g \in Int /\ 0 <= g /\ g <= Len(u) /\ 1 \in Int /\ 1 <= 1 /\ 1 <= g + 1 /\ g - 1 + 1 = g
    <3>1. sep \in Int /\ sep <= l - 1 /\ l \in Int /\ 1 <= sep
      BY <1>2, <1>3
    <3> HIDE DEF l
    <3>2. g \in Int /\ 0 <= g /\ g <= l
      BY <3>1
    <3> QED
      BY <3>2 DEF l
  <2> HIDE DEF e, f, g
  <2>3. IsList(SubSeq(t, p, f)) /\ Len(SubSeq(t, p, f)) = f - p + 1
        /\ \A i \in 1..f - p + 1 : SubSeq(t, p, f)[i] = t[p + i - 1]
    BY <1>2, <2>1, CutList
  <2>4. IsList(SubSeq(u, 1, g)) /\ Len(SubSeq(u, 1, g)) = g
        /\ \A i \in 1..g : SubSeq(u, 1, g)[i] = u[i]
    BY <2>2, SplitList
  <2>5. ASSUME NEW i \in 1..g PROVE SubSeq(t, p, f)[i] = SubSeq(u, 1, g)[i]
    <3>1. i \in 1..k /\ i \in 1..f - p + 1
      BY <1>4, <2>1 DEF g
    <3> HIDE DEF k
    <3> QED
      BY <1>11, <2>3, <2>4, <3>1
  <2>6. Len(SubSeq(t, p, f)) = Len(SubSeq(u, 1, g))
    BY <2>1, <2>3, <2>4
  <2>7. \A i \in 1..Len(SubSeq(t, p, f)) : SubSeq(t, p, f)[i] = SubSeq(u, 1, g)[i]
    BY <2>4, <2>5, <2>6
  <2>8. SubSeq(t, p, f) = SubSeq(u, 1, g)
    BY <2>3, <2>4, <2>6, <2>7, SameList
  <2> QED
    BY <2>8 DEF f, g
<1>17. ToldAt(t, p) = Told(parseFrame(SubSeq(u, 1, sep - 1)))
  BY <1>15, <1>16 DEF ToldAt
<1>18. After(t, p) = p + (sep + 1)
  BY <1>10, <1>15 DEF After
<1>19. Ends(t, p) # {}
  BY <1>13
<1>20. p + (sep + 1) \in 1..Len(t) + 1 /\ rest = SubSeq(t, p + (sep + 1), Len(t))
  BY <1>8, <1>9 DEF n
<1> QED
  BY <1>17, <1>18, <1>19, <1>20

\* Without a separator, what is left is the last frame.
LEMMA LastFrame ==
  ASSUME NEW t, IsList(t), NEW p, p \in 1..Len(t) + 1,
         NEW u, u = SubSeq(t, p, Len(t)), Separators(u) = {}
  PROVE  /\ Ends(t, p) = {}
         /\ ToldLast(t, p) = Told(parseFrame(trim(u)))
<1> DEFINE n == Len(t)
<1>1. n \in Nat /\ p \in Int /\ 1 <= p /\ p <= n + 1
  BY ListIsSeq
<1>2. Len(u) = n - p + 1 /\ \A i \in 1..Len(u) : u[i] = t[p + i - 1]
  <2>1. 0 \in Nat /\ 0 <= Len(u)
    <3>1. IsList(u)
      <4>1. p \in Int /\ n \in Int /\ 1 <= p /\ p <= n + 1 /\ n <= Len(t)
        BY <1>1
      <4> HIDE DEF n
      <4>2. IsList(SubSeq(t, p, n))
        BY <4>1, CutList
      <4> QED
        BY <4>2 DEF n
    <3>2. Len(u) \in Nat
      BY <3>1, ListIsSeq
    <3> QED
      BY <1>1, <3>2
  <2> QED
    BY <2>1, RestOfRest
<1> HIDE DEF n
<1>3. ASSUME NEW i \in Ends(t, p) PROVE FALSE
  <2>1. i \in 1..n - 1 /\ t[i] = LF /\ t[i + 1] = LF /\ i >= p
    BY DEF Ends, Separators, n
  <2> DEFINE j == i - p + 1
  <2>2. /\ j \in 1..Len(u) - 1 /\ j \in 1..Len(u) /\ j + 1 \in 1..Len(u)
        /\ p + j - 1 = i /\ p + (j + 1) - 1 = i + 1
    BY <1>1, <1>2, <2>1
  <2> HIDE DEF j
  <2>3. u[j] = LF /\ u[j + 1] = LF
    BY <1>2, <2>1, <2>2
  <2> QED
    BY <2>2, <2>3 DEF Separators
<1> QED
  BY <1>3 DEF ToldLast

------------------------------------------------------------------------------
(* The body, from the first chunk to the last frame.                         *)

\* What is left of the body begins at p, and tells what was not told yet.
Ahead(p) ==
  LET text == crlf(stream.tokens)
  IN  /\ crlf(buffer \o wire) = SubSeq(text, p, Len(text))
      /\ events \o From(text)[p] = stream.meant

\* While the body is read.
OpenOK ==
  /\ IsList(buffer) /\ IsList(wire)
  /\ NoTwin(buffer \o wire)
  /\ Calm(buffer)
  /\ phase = "reading" => Separators(buffer) = {}
  /\ \E p \in 1..Len(crlf(stream.tokens)) + 1 : Ahead(p)

ClosedOK ==
  /\ IsPrefix(events, stream.meant)
  /\ ended = "" => events = stream.meant

\* Nothing is lost or made up on the way, unless the buffer was cut down.
StreamOK ==
  ended # "cut" =>
    /\ stream \in Streams
    /\ IsList(events)
    /\ phase \in {"reading", "splitting", "closed"}
    /\ IF phase = "closed" THEN ClosedOK ELSE OpenOK

\* What the orchestrator writes.
LEMMA BodyIs ==
  ASSUME NEW s \in Streams
  PROVE  /\ IsList(s.tokens) /\ NoTwin(s.tokens)
         /\ IsList(crlf(s.tokens))
         /\ s.meant = From(crlf(s.tokens))[1]
<1>1. IsList(s.tokens) /\ NoTwin(s.tokens) /\ s.meant = Meaning(s.tokens)
  BY StreamAssumption DEF NoTwin
<1> QED
  BY <1>1, CrlfPicks, MeaningIs

\* At the start everything is ahead.
LEMMA Started == Init => StreamOK
<1> SUFFICES ASSUME Init PROVE StreamOK
  OBVIOUS
<1> DEFINE a == stream.tokens
           t == crlf(a)
<1>1. /\ stream \in Streams /\ wire = a /\ buffer = <<>> /\ phase = "reading"
      /\ events = <<>>
  BY DEF Init
<1>2. IsList(a) /\ NoTwin(a) /\ IsList(t) /\ stream.meant = From(t)[1]
  BY <1>1, BodyIs
<1> HIDE DEF a
<1>3. IsList(<<>>) /\ Len(<<>>) = 0
  BY EmptyList
<1>4. <<>> \o a = a
  BY <1>2, JoinedEmpty
<1>5. OpenOK
  <2>1. IsList(buffer) /\ IsList(wire) /\ NoTwin(buffer \o wire)
    BY <1>1, <1>2, <1>3, <1>4
  <2>2. Calm(buffer)
    BY <1>1, <1>3 DEF Calm
  <2>3. Separators(buffer) = {}
    BY <1>1, <1>3 DEF Separators
  <2>4. Len(t) \in Nat /\ 1 \in 1..Len(t) + 1
    <3>1. Len(t) \in Nat
      BY <1>2, ListIsSeq
    <3> HIDE DEF t
    <3> QED
      BY <3>1
  <2> HIDE DEF t
  <2>5. SubSeq(t, 1, Len(t)) = t
    <3>1. t \in Seq(ToSet(t))
      BY <1>2, ListIsSeq
    <3> QED
      BY <3>1, SubSeqFull
  <2>6. <<>> \o From(t)[1] = From(t)[1]
    <3>1. IsList(From(t)[1])
      BY <1>2, <2>4, FromList
    <3> QED
      BY <3>1, JoinedEmpty
  <2>7. Ahead(1)
    BY <1>1, <1>2, <1>4, <2>5, <2>6 DEF Ahead, t, a
  <2>8. 1 \in 1..Len(crlf(stream.tokens)) + 1
    BY <2>4 DEF t, a
  <2> QED
    BY <2>1, <2>2, <2>3, <2>7, <2>8 DEF OpenOK
<1> QED
  BY <1>1, <1>3, <1>5 DEF StreamOK

\* Reading a chunk changes nothing about what is ahead, whatever its length.
LEMMA ReadOn ==
  ASSUME StreamOK, NEW n \in 1..Len(wire), Read(n) PROVE StreamOK'
<1> SUFFICES ASSUME ended' # "cut" PROVE StreamOK'
  BY DEF StreamOK
<1> DEFINE a == SubSeq(wire, 1, n)
           w == SubSeq(wire, n + 1, Len(wire))
           u == buffer \o a
           t == crlf(stream.tokens)
<1>1. /\ phase = "reading" /\ ended # "cut" /\ wire' = w /\ buffer' = crlf(u)
      /\ phase' = "splitting" /\ stream' = stream /\ events' = events
  BY DEF Read
<1>2. stream \in Streams /\ IsList(events) /\ OpenOK
  BY <1>1 DEF StreamOK
<1>3. IsList(buffer) /\ IsList(wire) /\ NoTwin(buffer \o wire)
  BY <1>2 DEF OpenOK
<1>4. PICK p \in 1..Len(t) + 1 : Ahead(p)
  BY <1>2 DEF OpenOK
<1>5. IsList(a) /\ IsList(w) /\ a \o w = wire
  <2> DEFINE l == Len(wire)
  <2>1. l \in Nat
    BY <1>3, ListIsSeq
  <2>2. n \in Int /\ 0 <= n /\ n <= l
    <3> HIDE DEF l
    <3>1. n \in 1..l
      BY DEF l
    <3> QED
      BY <2>1, <3>1
  <2> QED
    BY <1>3, <2>2, SplitList
<1> HIDE DEF a, w
<1>6. IsList(u) /\ u \o w = buffer \o wire
  <2>0. IsList(buffer) /\ IsList(a) /\ IsList(w)
    BY <1>3, <1>5
  <2>1. (buffer \o a) \o w = buffer \o (a \o w)
    <3>1. Grouped(buffer, a, w)
      BY <2>0, JoinedThrice
    <3> QED
      BY <3>1 DEF Grouped
  <2> QED
    BY <1>3, <1>5, <2>1, JoinedList
<1> HIDE DEF u, t
<1>7. NoTwin(u \o w)
  BY <1>3, <1>6
<1>8. crlf(crlf(u) \o w) = crlf(u \o w) /\ NoTwin(crlf(u) \o w) /\ Calm(crlf(u))
  BY <1>5, <1>6, <1>7, CrlfAcrossCut
<1>9. IsList(crlf(u))
  BY <1>6, CrlfPicks
<1>10. Ahead(p)'
  BY <1>1, <1>4, <1>6, <1>8 DEF Ahead
<1>11. OpenOK'
  BY <1>1, <1>4, <1>5, <1>8, <1>9, <1>10 DEF OpenOK, t
<1> QED
  BY <1>1, <1>2, <1>11 DEF StreamOK

\* What a frame adds to the events, and when it ends the turn.
LEMMA Delivered ==
  ASSUME NEW frame, Deliver(frame)
  PROVE  /\ events' = IF ended = "aborted" THEN events \o <<>> ELSE events \o Told(frame)
         /\ phase' = IF \/ phase # "splitting"
                        \/ frame # <<>> /\ (ended = "aborted" \/ IsDone(Told(frame)))
                     THEN "closed" ELSE "splitting"
<1> DEFINE got == IF frame = <<>> \/ ended = "aborted" THEN <<>> ELSE Decoded(frame[1])
<1>1. /\ events' = events \o got
      /\ phase' = IF frame # <<>> /\ (ended = "aborted" \/ IsDone(got)) THEN "closed"
                  ELSE IF phase = "splitting" THEN phase ELSE "closed"
  BY DEF Deliver
<1>2. got = IF ended = "aborted" THEN <<>> ELSE Told(frame)
  BY DEF Told
<1> HIDE DEF got
<1> QED
  BY <1>1, <1>2

\* What was given is the first of what was meant.
LEMMA SoFar ==
  ASSUME stream \in Streams, IsList(events), OpenOK
  PROVE  IsPrefix(events, stream.meant)
<1> DEFINE t == crlf(stream.tokens)
<1>1. PICK p \in 1..Len(t) + 1 : Ahead(p)
  BY DEF OpenOK
<1>2. events \o From(t)[p] = stream.meant
  BY <1>1 DEF Ahead
<1>3. IsList(t)
  BY BodyIs
<1> HIDE DEF t
<1>4. IsList(From(t)[p])
  BY <1>1, <1>3, FromList
<1>5. IsPrefix(events, events \o From(t)[p])
  BY <1>4, JoinedPrefix
<1> QED
  BY <1>2, <1>5

\* A list begins with itself.
LEMMA AllIsPrefix == ASSUME NEW a, IsList(a) PROVE IsPrefix(a, a)
<1>1. IsList(<<>>)
  BY EmptyList
<1>2. IsPrefix(a, a \o <<>>)
  BY <1>1, JoinedPrefix
<1>3. a \o <<>> = a
  BY JoinedEmpty
<1> QED
  BY <1>2, <1>3

\* At the end of the body, what is left is told as one more frame.
LEMMA FlushTellsTheRest ==
  ASSUME StreamOK, Flush PROVE StreamOK'
<1> SUFFICES ASSUME ended' # "cut" PROVE StreamOK'
  BY DEF StreamOK
<1> DEFINE t == crlf(stream.tokens)
           frame == parseFrame(trim(buffer))
<1>1. /\ phase = "reading" /\ ended # "cut" /\ (wire = <<>> \/ ended = "aborted")
      /\ Deliver(frame) /\ stream' = stream /\ ended' = ended
  BY DEF Flush
<1>2. stream \in Streams /\ IsList(events) /\ OpenOK
  BY <1>1 DEF StreamOK
<1>3. IsList(buffer) /\ Calm(buffer) /\ Separators(buffer) = {}
  BY <1>1, <1>2 DEF OpenOK
<1>4. PICK p \in 1..Len(t) + 1 : Ahead(p)
  BY <1>2 DEF OpenOK
<1>5. IsPrefix(events, stream.meant)
  BY <1>2, SoFar
<1>6. IsList(t)
  BY <1>2, BodyIs
<1>7. /\ crlf(buffer \o wire) = SubSeq(t, p, Len(t))
      /\ events \o From(t)[p] = stream.meant
  BY <1>4 DEF Ahead
<1> HIDE DEF frame, t
<1>8. /\ events' = IF ended = "aborted" THEN events \o <<>> ELSE events \o Told(frame)
      /\ phase' = "closed"
  BY <1>1, Delivered
<1>9. CASE ended = "aborted"
  <2>1. events' = events
    BY <1>2, <1>8, <1>9, JoinedEmpty
  <2>2. ClosedOK'
    BY <1>1, <1>5, <1>9, <2>1 DEF ClosedOK
  <2> QED
    BY <1>1, <1>2, <1>8, <2>1, <2>2 DEF StreamOK
<1>10. CASE ended # "aborted"
  <2>1. buffer = SubSeq(t, p, Len(t))
    <3>1. buffer \o wire = buffer
      BY <1>1, <1>3, <1>10, JoinedEmpty
    <3>2. crlf(buffer) = buffer
      BY <1>3, CalmStays
    <3> QED
      BY <1>7, <3>1, <3>2
  <2>2. Ends(t, p) = {} /\ ToldLast(t, p) = Told(frame)
    BY <1>3, <1>4, <1>6, <2>1, LastFrame DEF frame
  <2>3. From(t)[p] = Told(frame)
    <3>1. From(t)[p] = ToldFrom(t, p, From(t)[After(t, p)])
      BY <1>4, <1>6, FromIs
    <3> QED
      BY <2>2, <3>1 DEF ToldFrom
  <2>4. events' = stream.meant
    BY <1>7, <1>8, <1>10, <2>3
  <2>5. IsList(events')
    <3>1. IsList(Told(frame))
      BY ToldList
    <3> QED
      BY <1>2, <1>8, <1>10, <3>1, JoinedList
  <2>6. ClosedOK'
    BY <1>1, <2>4, <2>5, AllIsPrefix DEF ClosedOK
  <2> QED
    BY <1>1, <1>2, <1>8, <2>5, <2>6 DEF StreamOK
<1> QED
  BY <1>9, <1>10

\* Taking a frame off the buffer tells the next frame of the body.
LEMMA SplitTellsOne ==
  ASSUME StreamOK, Split PROVE StreamOK'
<1> SUFFICES ASSUME ended' # "cut" PROVE StreamOK'
  BY DEF StreamOK
<1> DEFINE t == crlf(stream.tokens)
           sep == Min(Separators(buffer))
           b == SubSeq(buffer, 1, sep + 1)
           r == SubSeq(buffer, sep + 2, Len(buffer))
           frame == parseFrame(SubSeq(buffer, 1, sep - 1))
<1>1. /\ phase = "splitting" /\ ended # "cut" /\ Separators(buffer) # {}
      /\ buffer' = r /\ wire' = wire
      /\ Deliver(frame) /\ stream' = stream /\ ended' = ended
  BY DEF Split
<1>2. stream \in Streams /\ IsList(events) /\ OpenOK
  BY <1>1 DEF StreamOK
<1>3. /\ IsList(buffer) /\ IsList(wire) /\ Calm(buffer) /\ NoTwin(buffer \o wire)
  BY <1>2 DEF OpenOK
<1>4. PICK p \in 1..Len(t) + 1 : Ahead(p)
  BY <1>2 DEF OpenOK
<1>5. IsPrefix(events, stream.meant)
  BY <1>2, SoFar
<1>6. IsList(t)
  BY <1>2, BodyIs
<1>7. /\ crlf(buffer \o wire) = SubSeq(t, p, Len(t))
      /\ events \o From(t)[p] = stream.meant
  BY <1>4 DEF Ahead
<1>8. sep \in Separators(buffer) /\ \A i \in Separators(buffer) : sep <= i
  <2>1. Len(buffer) \in Nat
    BY <1>3, ListIsSeq
  <2>2. \A i \in Separators(buffer) : i \in Nat
    BY <2>1 DEF Separators
  <2> QED
    BY <1>1, <2>2, MinOf
<1>9. sep = Min(Separators(buffer))
  OBVIOUS
<1> HIDE DEF sep, t
<1>10. /\ IsList(b) /\ IsList(r) /\ Len(b) = sep + 1
       /\ \A i \in 1..sep + 1 : b[i] = buffer[i]
       /\ Calm(r) /\ NoTwin(r \o wire)
       /\ crlf(buffer \o wire) = b \o crlf(r \o wire)
  BY <1>3, <1>8, FirstFrame
<1> HIDE DEF b, r
<1> DEFINE rest == crlf(r \o wire)
           next == p + (sep + 1)
<1>11. IsList(rest)
  <2>1. IsList(r \o wire)
    BY <1>3, <1>10, JoinedList
  <2> QED
    BY <2>1, CrlfPicks
<1>12. SubSeq(t, p, Len(t)) = b \o rest
  BY <1>7, <1>10
<1> HIDE DEF rest
<1>13. /\ next \in 1..Len(t) + 1
       /\ rest = SubSeq(t, next, Len(t))
       /\ Ends(t, p) # {} /\ After(t, p) = next
       /\ ToldAt(t, p) = Told(frame)
  <2>1. /\ IsList(buffer) /\ IsList(b) /\ IsList(rest)
        /\ Len(b) = sep + 1 /\ \A i \in 1..sep + 1 : b[i] = buffer[i]
    BY <1>3, <1>10, <1>11
  <2>2. GoesOn(t, p, buffer, sep, b, rest)
    BY <1>4, <1>6, <1>8, <1>9, <1>12, <2>1 DEF GoesOn
  <2> QED
    BY <2>2, NextFrame
<1> HIDE DEF frame, next
<1>14. PICK q \in 1..Len(t) + 1 :
         rest = SubSeq(t, q, Len(t)) /\ After(t, p) = q
  BY <1>13
<1>15. From(t)[p] = IF IsDone(Told(frame)) THEN Told(frame) ELSE Told(frame) \o From(t)[q]
  <2>1. From(t)[p] = ToldFrom(t, p, From(t)[q])
    BY <1>4, <1>6, <1>14, FromIs
  <2> QED
    BY <1>13, <2>1 DEF ToldFrom
<1>16. IsList(Told(frame)) /\ IsList(From(t)[q])
  BY <1>6, <1>14, ToldList, FromList
<1>17. /\ events' = IF ended = "aborted" THEN events \o <<>> ELSE events \o Told(frame)
       /\ phase' = IF frame # <<>> /\ (ended = "aborted" \/ IsDone(Told(frame)))
                   THEN "closed" ELSE "splitting"
  BY <1>1, Delivered
<1>18. IsList(events')
  <2>1. events \o <<>> = events
    BY <1>2, JoinedEmpty
  <2>2. IsList(events \o Told(frame))
    BY <1>2, <1>16, JoinedList
  <2> QED
    BY <1>2, <1>17, <2>1, <2>2
\* The frame told nothing, or more is to come.
<1>19. ASSUME events' \o From(t)[q] = stream.meant, phase' = "splitting" PROVE StreamOK'
  <2>1. Ahead(q)'
    BY <1>1, <1>14, <1>19 DEF Ahead, t, rest
  <2>2. (q \in 1..Len(t) + 1)'
    BY <1>1, <1>14 DEF t
  <2>3. (\E i \in 1..Len(crlf(stream.tokens)) + 1 : Ahead(i))'
    BY <2>1, <2>2 DEF t
  <2>4. OpenOK'
    BY <1>1, <1>3, <1>10, <1>19, <2>3 DEF OpenOK
  <2> QED
    BY <1>1, <1>2, <1>18, <1>19, <2>4 DEF StreamOK
<1>20. ASSUME phase' = "closed", ClosedOK' PROVE StreamOK'
  BY <1>1, <1>2, <1>18, <1>20 DEF StreamOK
<1>21. CASE frame = <<>>
  <2>1. Told(frame) = <<>>
    BY <1>21 DEF Told
  <2>2. events' = events
    BY <1>2, <1>17, <2>1, JoinedEmpty
  <2>3. From(t)[p] = From(t)[q]
    <3>1. <<>> \o From(t)[q] = From(t)[q]
      BY <1>16, JoinedEmpty
    <3> QED
      BY <1>15, <2>1, <3>1, NothingIsNotDone
  <2> QED
    BY <1>7, <1>17, <1>19, <1>21, <2>2, <2>3
<1>22. CASE frame # <<>> /\ ended = "aborted"
  <2>1. events' = events /\ phase' = "closed"
    BY <1>2, <1>17, <1>22, JoinedEmpty
  <2>2. ClosedOK'
    BY <1>1, <1>5, <1>22, <2>1 DEF ClosedOK
  <2> QED
    BY <1>20, <2>1, <2>2
<1>23. CASE frame # <<>> /\ ended # "aborted" /\ IsDone(Told(frame))
  <2>1. events' = stream.meant /\ phase' = "closed"
    BY <1>7, <1>15, <1>17, <1>23
  <2>2. ClosedOK'
    BY <1>1, <1>18, <2>1, AllIsPrefix DEF ClosedOK
  <2> QED
    BY <1>20, <2>1, <2>2
<1>24. CASE frame # <<>> /\ ended # "aborted" /\ ~IsDone(Told(frame))
  <2>1. events' = events \o Told(frame) /\ phase' = "splitting"
    BY <1>17, <1>24
  <2>2. (events \o Told(frame)) \o From(t)[q] = events \o (Told(frame) \o From(t)[q])
    <3>1. IsList(events) /\ IsList(Told(frame)) /\ IsList(From(t)[q])
      BY <1>2, <1>16
    <3> DEFINE x == Told(frame)
               y == From(t)[q]
    <3> HIDE DEF x, y
    <3>2. IsList(events) /\ IsList(x) /\ IsList(y)
      BY <3>1 DEF x, y
    <3>3. (events \o x) \o y = events \o (x \o y)
      <4>1. Grouped(events, x, y)
        BY <3>2, JoinedThrice
      <4> QED
        BY <4>1 DEF Grouped
    <3> QED
      BY <3>3 DEF x, y
  <2>3. events' \o From(t)[q] = stream.meant
    BY <1>7, <1>15, <1>24, <2>1, <2>2
  <2> QED
    BY <1>19, <2>1, <2>3
<1> QED
  BY <1>21, <1>22, <1>23, <1>24

\* No step breaks it.
LEMMA StreamStep == StreamOK /\ [Next]_vars => StreamOK'
<1> SUFFICES ASSUME StreamOK, [Next]_vars PROVE StreamOK'
  OBVIOUS
<1>1. ASSUME NEW n \in 1..Len(wire), Read(n) PROVE StreamOK'
  BY <1>1, ReadOn
<1>2. CASE Split
  BY <1>2, SplitTellsOne
<1>3. CASE NoMore
  <2>1. /\ phase = "splitting" /\ Separators(buffer) = {} /\ phase' = "reading"
        /\ UNCHANGED <<stream, wire, buffer, ended, events>>
    BY <1>3 DEF NoMore
  <2>2. OpenOK => OpenOK'
    BY <2>1 DEF OpenOK, Ahead
  <2> QED
    BY <2>1, <2>2 DEF StreamOK
<1>4. CASE Flush
  BY <1>4, FlushTellsTheRest
<1>5. CASE Break
  <2>1. /\ phase = "reading" /\ phase' = "closed" /\ ended = "" /\ ended' = "broken"
        /\ UNCHANGED <<stream, events>>
    BY <1>5 DEF Break
  <2>2. stream \in Streams /\ IsList(events) /\ OpenOK
    BY <2>1 DEF StreamOK
  <2>3. IsPrefix(events, stream.meant)
    BY <2>2, SoFar
  <2>4. ClosedOK'
    BY <2>1, <2>3 DEF ClosedOK
  <2> QED
    BY <2>1, <2>2, <2>4 DEF StreamOK
<1>6. CASE Abort
  <2>1. /\ phase # "closed" /\ ended = "" /\ ended' = "aborted"
        /\ UNCHANGED <<stream, wire, buffer, phase, events>>
    BY <1>6 DEF Abort
  <2>2. OpenOK => OpenOK'
    BY <2>1 DEF OpenOK, Ahead
  <2> QED
    BY <2>1, <2>2 DEF StreamOK
<1>7. CASE UNCHANGED vars
  BY <1>7 DEF vars, StreamOK, OpenOK, ClosedOK, Ahead
<1> QED
  BY <1>1, <1>2, <1>3, <1>4, <1>5, <1>6, <1>7 DEF Next

\* For every body, every way the network cuts it, every JSON in it and every
\* limit: unless a frame outgrows the buffer, the turn is given the first of
\* what the body means, and all of it once the body was read to its end
\* (sse.ts:38, fridayClient.ts:76).
THEOREM ReadAsSent == Spec => []EventsAsSent
<1>1. StreamOK => EventsAsSent
  BY SoFar DEF StreamOK, ClosedOK, EventsAsSent
<1>2. Spec => []StreamOK
  BY Started, StreamStep, PTL DEF Spec
<1> QED
  BY <1>1, <1>2, PTL
=============================================================================
