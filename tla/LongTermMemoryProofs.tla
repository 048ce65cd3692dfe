------------------------- MODULE LongTermMemoryProofs -----------------------
(***************************************************************************)
(* Long-term memory, for any users, claims, number of jobs and caps.       *)
(*                                                                         *)
(* Every id in use is below the table's next one (Born), so a row that is  *)
(* inserted is news to every delete under way.  A row is in the table      *)
(* once, in the cache once, and its copies agree (OneOfEach).  A row whose *)
(* insert was not answered is not cached, and only a delete through the    *)
(* API, which marks it as raced, can be after it (NewsIsNews).  A delete   *)
(* acts for somebody who may see what it deletes, or evicts; one that was  *)
(* executed left nothing its caller may see (DeletesMay).  What cache and  *)
(* table disagree about is therefore logged, raced, or pending with a call *)
(* that will settle it (Settling): the scoped deletes that reach nothing   *)
(* are the ones that do not count.                                         *)
(***************************************************************************)
EXTENDS LongTermMemory, FiniteSetTheorems, SequenceTheorems, WellFoundedInduction, TLAPS

Row == [id : Nat, fact : Facts, owner : Owners, lastUsed : Nat]
Ops == {"idle", "remember", "forget", "consolidate"}
Ats == {"", "insert", "supersede", "evict", "delete", "scheduled", "choose"}
Calls == {"none", "sent", "done", "late"}
FactOrNone == Facts \cup {<<>>}
RowOrNone == Row \cup {<<>>}
Job == [op : Ops, at : Ats, call : Calls, owner : Owners, fact : FactOrNone,
        row : RowOrNone, ids : Seq(Nat), scoped : BOOLEAN, groups : Seq(SUBSET Nat)]

MemTypeOK ==
  /\ cache \in Seq(Row) /\ store \in SUBSET Row /\ nextId \in Nat /\ now \in Nat
  /\ job \in [Jobs -> Job]

Inserted(b) == b.at = "insert" /\ b.call = "done"
Executed(b) == b.at \in {"supersede", "evict", "delete"} /\ b.call = "done"

\* The shape of a job: what it is at goes with what it works on.
Formed(b) ==
  /\ b.at = "insert" => b.fact \in Facts /\ b.scoped = FALSE /\ b.op = "remember"
  /\ Inserted(b) => b.row \in Row
  /\ b.at \in {"supersede", "evict", "delete"} => b.ids # <<>>
  /\ b.at = "supersede" => b.op = "remember" /\ b.fact \in Facts /\ b.row = <<>>
  /\ b.at \in {"insert", "scheduled", "choose", ""} => b.ids = <<>>
  /\ b.at = "choose" => b.groups # <<>>
  /\ b.at \in {"scheduled", "choose"} => b.op = "consolidate"
  /\ b.at = "delete" => b.op \in {"consolidate", "forget"}
  /\ b.op = "forget" => b.at = "delete"
  /\ b.scoped => b.op = "forget"
  /\ b.op = "idle" => b.at = ""
  /\ b.groups # <<>> => b.op = "consolidate"

JobsFormed == \A j \in Jobs : Formed(job[j])

Born ==
  /\ \A m \in Cached \cup store : m.id < nextId
  /\ told \subseteq Nat /\ \A id \in told : id < nextId
  /\ \A j \in Jobs :
       /\ \A id \in Range(job[j].ids) : id < nextId
       /\ \A g \in Range(job[j].groups) : \A id \in g : id < nextId
       /\ Inserted(job[j]) => job[j].row.id < nextId

\* Every id once.
Once(ms) == \A i, k \in DOMAIN ms : ms[i].id = ms[k].id => i = k

OneOfEach ==
  /\ \A r, s \in store : r.id = s.id => r = s
  /\ Once(cache)
  /\ \A m \in Cached, r \in store : m.id = r.id => m.fact = r.fact /\ m.owner = r.owner
  /\ \A j \in Jobs, r \in store :
       Inserted(job[j]) /\ job[j].row.id = r.id =>
         job[j].row.fact = r.fact /\ job[j].row.owner = r.owner

NewsIsNews ==
  \A j \in Jobs : Inserted(job[j]) =>
    LET id == job[j].row.id IN
    /\ id \notin IdsOf(Cached)
    /\ id \in IdsOf(store) \cup raced
    /\ \A k \in Jobs :
         /\ id \in Range(job[k].ids) => job[k].op = "forget" /\ id \in raced
         /\ \A g \in Range(job[k].groups) : id \notin g
         /\ k # j /\ Inserted(job[k]) => job[k].row.id # id

\* This job may delete this id: it is out of the cache already, or its row is
\* one the job's caller may see; ms is what is cached, rs the raced ids.
MayDelete(b, id, ms, rs) ==
  /\ b.at = "evict" => id \notin IdsOf(ms)
  /\ b.scoped => id \notin IdsOf(ms) \/ id \in rs
  /\ ~b.scoped /\ b.at # "evict" =>
       \A r \in store : r.id = id => MayAccess(r.owner, b.owner)

DeletesMay ==
  \A j \in Jobs :
    /\ Executed(job[j]) => \A r \in store :
         r.id = Head(job[j].ids) => job[j].scoped /\ ~MayAccess(r.owner, job[j].owner)
    /\ \A id \in Range(job[j].ids) : MayDelete(job[j], id, Cached, raced)
    /\ \A g \in Range(job[j].groups) : \A id \in g, r \in store :
         r.id = id => MayAccess(r.owner, job[j].owner)

\* A call that will settle what cache and table say of this memory.
Pending(b, id) ==
  \/ /\ id \in Range(b.ids)
     /\ b.scoped => \A r \in store : r.id = id => MayAccess(r.owner, b.owner)
  \/ Inserted(b) /\ b.row.id = id

Mirrored(id) ==
  \/ id \in loose \cup raced
  \/ \E j \in Jobs : Pending(job[j], id)
  \/ id \in IdsOf(Cached) <=> id \in IdsOf(store)

Settling == \A id \in Ids : Mirrored(id)

MemInv ==
  /\ MemTypeOK /\ JobsFormed /\ Born /\ OneOfEach /\ NewsIsNews /\ DeletesMay
  /\ Settling /\ ToldGoneIsGone

----------------------------------------------------------------------------
(* Lists.  A total order places what it orders at 1..n, each at its own.    *)

Orders(K, before) ==
  /\ \A i, k, l \in K : <<i, k>> \in before /\ <<k, l>> \in before => <<i, l>> \in before
  /\ \A i \in K : <<i, i>> \notin before
  /\ \A i, k \in K : i # k => <<i, k>> \in before \/ <<k, i>> \in before

Place(K, before, k) == Cardinality({i \in K : <<i, k>> \in before}) + 1

LEMMA UpTo ==
  ASSUME NEW n \in Nat PROVE IsFiniteSet(1..n) /\ Cardinality(1..n) = n
<1>1. 1 \in Int /\ n \in Int
  OBVIOUS
<1>2. IsFiniteSet(1..n) /\ Cardinality(1..n) = IF 1 > n THEN 0 ELSE n - 1 + 1
  BY <1>1, FS_Interval
<1> QED
  BY <1>2

LEMMA PlacesAreOnce ==
  ASSUME NEW K, IsFiniteSet(K), NEW before, Orders(K, before)
  PROVE  /\ Cardinality(K) \in Nat
         /\ \A k \in K : Place(K, before, k) \in 1..Cardinality(K)
         /\ \A i, k \in K : Place(K, before, i) = Place(K, before, k) => i = k
<1> DEFINE B(k) == {i \in K : <<i, k>> \in before}
<1>1. ASSUME NEW k \in K
      PROVE  /\ IsFiniteSet(B(k)) /\ Cardinality(B(k)) \in Nat /\ Cardinality(K) \in Nat
             /\ k \notin B(k) /\ Cardinality(B(k) \cup {k}) = Cardinality(B(k)) + 1
             /\ Cardinality(B(k) \cup {k}) <= Cardinality(K)
  <2>1. B(k) \in SUBSET K /\ B(k) \cup {k} \in SUBSET K /\ k \notin B(k)
    BY DEF Orders
  <2>2. IsFiniteSet(B(k)) /\ Cardinality(B(k) \cup {k}) <= Cardinality(K)
    BY <2>1, FS_Subset
  <2>3. Cardinality(B(k)) \in Nat /\ Cardinality(K) \in Nat
    BY <2>2, FS_CardinalityType
  <2>4. Cardinality(B(k) \cup {k}) = Cardinality(B(k)) + 1
    BY <2>1, <2>2, FS_AddElement
  <2> QED
    BY <2>1, <2>2, <2>3, <2>4
<1>2. ASSUME NEW i \in K, NEW k \in K, <<i, k>> \in before
      PROVE  Cardinality(B(i)) < Cardinality(B(k))
  <2>1. B(i) \cup {i} \in SUBSET B(k)
    BY <1>2 DEF Orders
  <2>2. Cardinality(B(i) \cup {i}) <= Cardinality(B(k))
    BY <1>1, <2>1, FS_Subset
  <2> HIDE DEF B
  <2>3. Cardinality(B(i)) \in Nat /\ Cardinality(B(k)) \in Nat
        /\ Cardinality(B(i) \cup {i}) = Cardinality(B(i)) + 1
    BY <1>1
  <2> QED
    BY <2>2, <2>3
<1>3. \A k \in K : Place(K, before, k) = Cardinality(B(k)) + 1
  BY DEF Place
<1>4. Cardinality(K) \in Nat
  BY FS_CardinalityType
<1> HIDE DEF B
<1>5. ASSUME NEW k \in K PROVE Place(K, before, k) \in 1..Cardinality(K)
  <2> DEFINE n == Cardinality(B(k))
             m == Cardinality(K)
  <2>1. n \in Nat /\ m \in Nat /\ n + 1 <= m /\ Place(K, before, k) = n + 1
    BY <1>1, <1>3
  <2> HIDE DEF n, m
  <2>2. Place(K, before, k) \in 1..m
    BY <2>1
  <2> QED
    BY <2>2 DEF m
<1>6. ASSUME NEW i \in K, NEW k \in K, i # k
      PROVE  Place(K, before, i) # Place(K, before, k)
  <2> DEFINE n == Cardinality(B(i))
             m == Cardinality(B(k))
  <2>1. n \in Nat /\ m \in Nat /\ Place(K, before, i) = n + 1 /\ Place(K, before, k) = m + 1
    BY <1>1, <1>3
  <2>2. n < m \/ m < n
    BY <1>2, <1>6 DEF Orders
  <2> HIDE DEF n, m
  <2> QED
    BY <2>1, <2>2
<1> QED
  BY <1>4, <1>5, <1>6

\* What an ordered list is made of: pi says where each element came from.
Arranged(t, ms, K, pi) ==
  /\ pi \in [1..Cardinality(K) -> K]
  /\ \A r, q \in 1..Cardinality(K) : pi[r] = pi[q] => r = q
  /\ \A k \in K : \E r \in 1..Cardinality(K) : pi[r] = k
  /\ \A r \in 1..Cardinality(K) : t[r] = ms[pi[r]]

LEMMA InOrderArranges ==
  ASSUME NEW S, NEW ms \in Seq(S), NEW K \in SUBSET DOMAIN ms, NEW before, Orders(K, before)
  PROVE  LET t == InOrder(ms, K, before) IN
         /\ Cardinality(K) \in Nat /\ Cardinality(K) <= Len(ms)
         /\ t \in Seq(S) /\ Len(t) = Cardinality(K)
         /\ \E pi : Arranged(t, ms, K, pi)
<1> DEFINE t == InOrder(ms, K, before)
           n == Cardinality(K)
           place == [k \in K |-> Place(K, before, k)]
           pi == [r \in 1..n |->
                    CHOOSE k \in K : Cardinality({i \in K : <<i, k>> \in before}) + 1 = r]
<1>1. IsFiniteSet(K) /\ n \in Nat /\ n <= Len(ms)
  <2>1. Len(ms) \in Nat /\ DOMAIN ms = 1..Len(ms)
    OBVIOUS
  <2>2. IsFiniteSet(1..Len(ms)) /\ Cardinality(1..Len(ms)) = Len(ms)
    BY <2>1, UpTo
  <2>3. IsFiniteSet(K) /\ Cardinality(K) <= Len(ms)
    BY <2>1, <2>2, FS_Subset
  <2> QED
    BY <2>3, FS_CardinalityType
<1>2. place \in [K -> 1..n] /\ \A i, k \in K : place[i] = place[k] => i = k
  BY <1>1, PlacesAreOnce
<1>3. \A r \in 1..n : \E k \in K : place[k] = r
  <2> HIDE DEF place
  <2>1. IsFiniteSet(1..n) /\ Cardinality(1..n) = n
    BY <1>1, UpTo
  <2>2. place \in Injection(K, 1..n)
    BY <1>2 DEF Injection, IsInjective
  <2>3. place \in Surjection(K, 1..n)
    BY <2>1, <2>2, FS_Injection
  <2> QED
    BY <2>3 DEF Surjection
<1>4. t = [r \in 1..n |-> ms[pi[r]]]
  BY DEF InOrder
<1>5. \A r \in 1..n : pi[r] \in K /\ place[pi[r]] = r
  <2>1. ASSUME NEW r \in 1..n
        PROVE  pi[r] \in K /\ Cardinality({i \in K : <<i, pi[r]>> \in before}) + 1 = r
    <3>1. \E k \in K : Cardinality({i \in K : <<i, k>> \in before}) + 1 = r
      BY <1>3 DEF Place
    <3> QED
      BY <3>1
  <2> QED
    BY <2>1 DEF Place
<1> HIDE DEF place
<1>6. pi \in [1..n -> K]
  BY <1>5
<1> HIDE DEF pi, t
<1>7. Arranged(t, ms, K, pi)
  BY <1>2, <1>4, <1>5, <1>6 DEF Arranged
<1>8. t \in Seq(S) /\ Len(t) = n
  BY <1>1, <1>4, <1>5
<1> QED
  BY <1>1, <1>7, <1>8 DEF t

LEMMA ArrangedKeeps ==
  ASSUME NEW S, NEW ms \in Seq(S), NEW K \in SUBSET DOMAIN ms, NEW t \in Seq(S), NEW pi,
         Len(t) = Cardinality(K), Cardinality(K) \in Nat, Arranged(t, ms, K, pi)
  PROVE  Range(t) = {ms[k] : k \in K} /\ (Once(ms) => Once(t))
<1>1. DOMAIN t = 1..Cardinality(K)
  OBVIOUS
<1>2. Range(t) = {ms[k] : k \in K}
  <2>1. ASSUME NEW x \in Range(t) PROVE x \in {ms[k] : k \in K}
    BY <1>1 DEF Range, Arranged
  <2>2. ASSUME NEW k \in K PROVE ms[k] \in Range(t)
    <3>1. PICK r \in 1..Cardinality(K) : pi[r] = k
      BY DEF Arranged
    <3>2. t[r] = ms[k]
      BY <3>1 DEF Arranged
    <3> QED
      BY <1>1, <3>2 DEF Range
  <2> QED
    BY <2>1, <2>2
<1>3. ASSUME Once(ms), NEW i \in DOMAIN t, NEW k \in DOMAIN t, t[i].id = t[k].id PROVE i = k
  <2>1. t[i] = ms[pi[i]] /\ t[k] = ms[pi[k]] /\ pi[i] \in DOMAIN ms /\ pi[k] \in DOMAIN ms
    BY <1>1 DEF Arranged
  <2>2. pi[i] = pi[k]
    BY <1>3, <2>1 DEF Once
  <2> QED
    BY <1>1, <2>2 DEF Arranged
<1> QED
  BY <1>2, <1>3 DEF Once

\* What a comprehension keeps.
LEMMA PickedKeeps ==
  ASSUME NEW S, NEW ms \in Seq(S), NEW K \in SUBSET DOMAIN ms
  PROVE  /\ Picked(ms, K) \in Seq(S)
         /\ Range(Picked(ms, K)) = {ms[k] : k \in K}
         /\ Once(ms) => Once(Picked(ms, K))
<1> DEFINE before == {p \in K \X K : p[1] < p[2]}
           t == InOrder(ms, K, before)
<1>1. Orders(K, before)
  <2>1. \A k \in K : k \in Int
    OBVIOUS
  <2>2. \A i, k \in K : <<i, k>> \in before <=> i < k
    OBVIOUS
  <2> HIDE DEF before
  <2> QED
    BY <2>1, <2>2 DEF Orders
<1> HIDE DEF before
<1>2. /\ Cardinality(K) \in Nat /\ t \in Seq(S) /\ Len(t) = Cardinality(K)
      /\ \E pi : Arranged(t, ms, K, pi)
  BY <1>1, InOrderArranges
<1> HIDE DEF t
<1>3. Range(t) = {ms[k] : k \in K} /\ (Once(ms) => Once(t))
  BY <1>2, ArrangedKeeps
<1>4. Picked(ms, K) = t
  BY DEF Picked, t, before
<1> QED
  BY <1>2, <1>3, <1>4

LEMMA WithoutKeeps ==
  ASSUME NEW ms \in Seq(Row), Once(ms), NEW id
  PROVE  /\ Without(ms, id) \in Seq(Row) /\ Once(Without(ms, id))
         /\ Range(Without(ms, id)) = {m \in Range(ms) : m.id # id}
<1> DEFINE K == {k \in DOMAIN ms : ms[k].id # id}
<1>1. K \in SUBSET DOMAIN ms /\ Without(ms, id) = Picked(ms, K)
  BY DEF Without
<1>2. {ms[k] : k \in K} = {m \in Range(ms) : m.id # id}
  BY DEF Range
<1> HIDE DEF K
<1> QED
  BY <1>1, <1>2, PickedKeeps

\* The cap: what stays and what goes are the whole list, and have no id in common.
Cut(all, kept, out) ==
  /\ kept \in Seq(Row) /\ out \in Seq(Row) /\ Once(kept)
  /\ Range(kept) \cup Range(out) = Range(all)
  /\ \A m \in Range(kept), o \in Range(out) : m.id # o.id

LEMMA RecencyOrders ==
  ASSUME NEW ms \in Seq(Row) PROVE Orders(DOMAIN ms, Newer(ms))
<1> DEFINE D == DOMAIN ms
           u == [k \in D |-> ms[k].lastUsed]
<1>1. \A k \in D : k \in Int /\ u[k] \in Int
  <2>1. ASSUME NEW k \in D PROVE k \in Int /\ u[k] \in Int
    <3>1. ms[k] \in Row /\ k \in Int
      OBVIOUS
    <3>2. ms[k].lastUsed \in Nat
      BY <3>1 DEF Row
    <3> QED
      BY <3>1, <3>2
  <2> QED
    BY <2>1
<1>2. \A i, k \in D : <<i, k>> \in Newer(ms) <=> u[i] > u[k] \/ (u[i] = u[k] /\ i < k)
  BY DEF Newer
<1> HIDE DEF u, D
<1>3. Orders(D, Newer(ms))
  BY <1>1, <1>2 DEF Orders
<1> QED
  BY <1>3 DEF D

LEMMA CapCuts ==
  ASSUME NEW all \in Seq(Row), Once(all)
  PROVE  Cut(all, IF Len(all) <= MaxMemories THEN all
                  ELSE SubSeq(ByRecency(all), 1, MaxMemories),
             IF Len(all) <= MaxMemories THEN <<>>
             ELSE SubSeq(ByRecency(all), MaxMemories + 1, Len(all)))
<1>1. MaxMemories \in Nat /\ Len(all) \in Nat
  BY MemoryAssumption
<1>2. CASE Len(all) <= MaxMemories
  BY <1>2 DEF Cut, Range
<1>3. CASE ~(Len(all) <= MaxMemories)
  <2> DEFINE n == Len(all)
             s == ByRecency(all)
             c == MaxMemories
             kept == SubSeq(s, 1, c)
             out == SubSeq(s, c + 1, n)
  <2>1. Cardinality(DOMAIN all) = n
    <3>1. DOMAIN all = 1..n
      OBVIOUS
    <3> QED
      BY <1>1, <3>1, UpTo
  <2>2. s \in Seq(Row) /\ Len(s) = n /\ Range(s) = Range(all) /\ Once(s)
    <3>1. Orders(DOMAIN all, Newer(all))
      BY RecencyOrders
    <3>2. /\ s \in Seq(Row) /\ Len(s) = Cardinality(DOMAIN all)
          /\ \E pi : Arranged(s, all, DOMAIN all, pi)
      BY <3>1, InOrderArranges DEF ByRecency
    <3> HIDE DEF s
    <3>3. Range(s) = {all[k] : k \in DOMAIN all} /\ Once(s)
      BY <1>1, <2>1, <3>2, ArrangedKeeps
    <3> QED
      BY <2>1, <3>2, <3>3 DEF Range
  <2>3. c \in Nat /\ n \in Nat /\ c < n
    BY <1>1, <1>3
  <2> HIDE DEF s, c, n
  <2>4. /\ kept \in Seq(Row) /\ Len(kept) = c
        /\ \A i \in 1..c : kept[i] = s[i]
    BY <2>2, <2>3
  <2>5. /\ out \in Seq(Row) /\ Len(out) = n - c
        /\ \A i \in 1..(n - c) : out[i] = s[c + i]
    BY <2>2, <2>3
  <2> HIDE DEF kept, out
  <2>6. DOMAIN s = 1..n /\ DOMAIN kept = 1..c /\ DOMAIN out = 1..(n - c)
    BY <2>2, <2>3, <2>4, <2>5
  <2>7. Once(kept)
    BY <2>2, <2>3, <2>4, <2>6 DEF Once
  <2>8. Range(kept) \cup Range(out) = Range(s)
    <3>1. ASSUME NEW i \in 1..n PROVE s[i] \in Range(kept) \cup Range(out)
      <4>1. CASE i <= c
        <5>1. i \in 1..c
          BY <2>3, <4>1
        <5> QED
          BY <2>4, <2>6, <5>1 DEF Range
      <4>2. CASE i > c
        <5>1. i - c \in 1..(n - c) /\ c + (i - c) = i
          BY <2>3, <4>2
        <5>2. out[i - c] = s[i]
          BY <2>5, <5>1
        <5> QED
          BY <2>6, <5>1, <5>2 DEF Range
      <4> QED
        BY <2>3, <4>1, <4>2
    <3>2. ASSUME NEW i \in 1..c PROVE kept[i] \in Range(s)
      BY <2>3, <2>4, <2>6 DEF Range
    <3>3. ASSUME NEW i \in 1..(n - c) PROVE out[i] \in Range(s)
      <4>1. c + i \in 1..n
        BY <2>3
      <4> QED
        BY <2>5, <2>6, <4>1 DEF Range
    <3> QED
      BY <2>6, <3>1, <3>2, <3>3 DEF Range
  <2>9. ASSUME NEW m \in Range(kept), NEW o \in Range(out) PROVE m.id # o.id
    <3>1. PICK i \in 1..c : m = s[i]
      BY <2>4, <2>6 DEF Range
    <3>2. PICK k \in 1..(n - c) : o = s[c + k]
      BY <2>5, <2>6 DEF Range
    <3>3. i \in 1..n /\ c + k \in 1..n /\ i # c + k
      BY <2>3
    <3> QED
      BY <2>2, <2>6, <3>1, <3>2, <3>3 DEF Once
  <2>10. Cut(all, kept, out)
    BY <2>2, <2>4, <2>5, <2>7, <2>8, <2>9 DEF Cut
  <2> QED
    BY <1>3, <2>10 DEF kept, out, s, c, n
<1> QED
  BY <1>2, <1>3

----------------------------------------------------------------------------
(* A job goes on: what it now works on is enough to know.                   *)

\* The ids and groups a job takes up.
TakesUp(j, d, ms, rs) ==
  /\ \A id \in Range(d.ids) :
       /\ id < nextId /\ MayDelete(d, id, ms, rs)
       /\ \A k \in Jobs \ {j} :
            Inserted(job[k]) /\ job[k].row.id = id => d.op = "forget" /\ id \in rs
  /\ \A g \in Range(d.groups) : \A id \in g :
       /\ id < nextId
       /\ \A k \in Jobs \ {j} : Inserted(job[k]) => job[k].row.id # id
       /\ \A r \in store : r.id = id => MayAccess(r.owner, d.owner)

\* What the step does to one memory is accounted for.
Accounted(j, d, id, ms, ls, rs) ==
  \/ id \in ls \cup rs
  \/ Pending(d, id)
  \/ id \in IdsOf(ms) <=> id \in IdsOf(store)
  \/ ~Pending(job[j], id) /\ (id \in IdsOf(ms) <=> id \in IdsOf(Cached))

LEMMA JobStep ==
  ASSUME MemInv, NEW j \in Jobs, NEW d \in Job, Formed(d), ~Inserted(d), ~Executed(d),
         job' = [job EXCEPT ![j] = d], UNCHANGED <<store, nextId, now>>,
         cache' \in Seq(Row), Once(cache'),
         \A m \in Range(cache') : m \in Cached \/ (Inserted(job[j]) /\ m = job[j].row),
         loose \subseteq loose', raced \subseteq raced',
         told' \subseteq Nat, \A id \in told' : id < nextId /\ id \notin IdsOf(store),
         TakesUp(j, d, Range(cache'), raced'),
         \A id \in Ids : Accounted(j, d, id, Range(cache'), loose', raced')
  PROVE  MemInv'
<1>1. /\ MemTypeOK /\ JobsFormed /\ Born /\ OneOfEach /\ NewsIsNews /\ DeletesMay /\ Settling
      /\ job \in [Jobs -> Job] /\ Cached' = Range(cache')
  BY DEF MemInv, MemTypeOK, Cached
<1>2. job'[j] = d /\ \A k \in Jobs \ {j} : job'[k] = job[k]
  BY <1>1
<1>3. store' = store /\ nextId' = nextId
  OBVIOUS
<1>4. MemTypeOK'
  BY <1>1 DEF MemTypeOK
<1>5. JobsFormed'
  BY <1>1, <1>2 DEF JobsFormed
<1>6. ASSUME NEW m \in Cached' PROVE m \in Cached \/ (Inserted(job[j]) /\ m = job[j].row)
  BY <1>1
<1>7. Born'
  <2>1. ASSUME NEW m \in Cached' PROVE m.id < nextId
    BY <1>1, <1>6 DEF Born
  <2>2. ASSUME NEW k \in Jobs
        PROVE  /\ \A id \in Range(job'[k].ids) : id < nextId
               /\ \A g \in Range(job'[k].groups) : \A id \in g : id < nextId
               /\ Inserted(job'[k]) => job'[k].row.id < nextId
    <3>1. CASE k = j
      BY <1>2, <3>1 DEF TakesUp
    <3>2. CASE k # j
      BY <1>1, <1>2, <3>2 DEF Born
    <3> QED
      BY <3>1, <3>2
  <2> QED
    BY <1>1, <1>3, <2>1, <2>2 DEF Born
<1>8. OneOfEach'
  <2>1. ASSUME NEW m \in Cached', NEW s \in store, m.id = s.id
        PROVE  m.fact = s.fact /\ m.owner = s.owner
    BY <1>1, <1>6, <2>1 DEF OneOfEach
  <2>2. ASSUME NEW k \in Jobs, NEW s \in store, Inserted(job'[k]), job'[k].row.id = s.id
        PROVE  job'[k].row.fact = s.fact /\ job'[k].row.owner = s.owner
    BY <1>1, <1>2, <2>2 DEF OneOfEach
  <2> QED
    BY <1>1, <1>3, <2>1, <2>2 DEF OneOfEach
<1>9. NewsIsNews'
  <2>1. ASSUME NEW k \in Jobs, Inserted(job'[k])
        PROVE  LET id == job'[k].row.id IN
               /\ id \notin IdsOf(Cached') /\ id \in IdsOf(store) \cup raced'
               /\ \A l \in Jobs :
                    /\ id \in Range(job'[l].ids) => job'[l].op = "forget" /\ id \in raced'
                    /\ \A g \in Range(job'[l].groups) : id \notin g
                    /\ l # k /\ Inserted(job'[l]) => job'[l].row.id # id
    <3> DEFINE id == job[k].row.id
    <3>1. k # j /\ job'[k] = job[k] /\ Inserted(job[k])
      BY <1>2, <2>1
    <3>2. /\ id \notin IdsOf(Cached) /\ id \in IdsOf(store) \cup raced
          /\ \A l \in Jobs :
               /\ id \in Range(job[l].ids) => job[l].op = "forget" /\ id \in raced
               /\ \A g \in Range(job[l].groups) : id \notin g
               /\ l # k /\ Inserted(job[l]) => job[l].row.id # id
      BY <1>1, <3>1 DEF NewsIsNews
    <3>3. id \notin IdsOf(Cached')
      BY <1>6, <3>1, <3>2 DEF IdsOf
    <3>4. ASSUME NEW l \in Jobs
          PROVE  /\ id \in Range(job'[l].ids) => job'[l].op = "forget" /\ id \in raced'
                 /\ \A g \in Range(job'[l].groups) : id \notin g
                 /\ l # k /\ Inserted(job'[l]) => job'[l].row.id # id
      <4>1. CASE l = j
        BY <1>2, <3>1, <4>1 DEF TakesUp
      <4>2. CASE l # j
        BY <1>2, <3>2, <4>2
      <4> QED
        BY <4>1, <4>2
    <3> QED
      BY <3>1, <3>2, <3>3, <3>4
  <2> QED
    BY <1>3, <2>1 DEF NewsIsNews
<1>10. DeletesMay'
  <2>1. ASSUME NEW k \in Jobs
        PROVE  /\ Executed(job'[k]) => \A s \in store :
                    s.id = Head(job'[k].ids) =>
                      job'[k].scoped /\ ~MayAccess(s.owner, job'[k].owner)
               /\ \A id \in Range(job'[k].ids) : MayDelete(job'[k], id, Range(cache'), raced')
               /\ \A g \in Range(job'[k].groups) : \A id \in g, s \in store :
                    s.id = id => MayAccess(s.owner, job'[k].owner)
    <3>1. CASE k = j
      BY <1>2, <3>1 DEF TakesUp
    <3>2. CASE k # j
      <4>1. job'[k] = job[k]
        BY <1>2, <3>2
      <4>2. ASSUME NEW id \in Range(job[k].ids)
            PROVE  MayDelete(job[k], id, Range(cache'), raced')
        <5>1. MayDelete(job[k], id, Cached, raced)
          BY <1>1 DEF DeletesMay
        <5>2. id \in IdsOf(Range(cache')) =>
                id \in IdsOf(Cached) \/ (job[k].op = "forget" /\ id \in raced)
          BY <1>1, <1>6 DEF IdsOf, NewsIsNews
        <5>3. job[k].at = "evict" => job[k].op # "forget"
          BY <1>1 DEF JobsFormed, Formed
        <5> QED
          BY <5>1, <5>2, <5>3 DEF MayDelete
      <4> QED
        BY <1>1, <4>1, <4>2 DEF DeletesMay
    <3> QED
      BY <3>1, <3>2
  <2> QED
    BY <1>1, <1>3, <2>1 DEF DeletesMay, MayDelete
<1>11. Settling'
  <2>1. ASSUME NEW id \in Ids
        PROVE  \/ id \in loose' \cup raced'
               \/ \E k \in Jobs : Pending(job'[k], id)
               \/ id \in IdsOf(Range(cache')) <=> id \in IdsOf(store)
    <3>1. Accounted(j, d, id, Range(cache'), loose', raced')
      OBVIOUS
    <3>2. CASE Pending(d, id)
      BY <1>2, <3>2
    <3>3. CASE ~Pending(job[j], id) /\ (id \in IdsOf(Range(cache')) <=> id \in IdsOf(Cached))
      <4>1. \/ id \in loose \cup raced
            \/ \E k \in Jobs : Pending(job[k], id)
            \/ id \in IdsOf(Cached) <=> id \in IdsOf(store)
        BY <1>1 DEF Settling, Mirrored
      <4>2. CASE \E k \in Jobs : Pending(job[k], id)
        <5>1. PICK k \in Jobs \ {j} : Pending(job[k], id)
          BY <3>3, <4>2
        <5>2. Pending(job'[k], id)
          BY <1>2, <5>1
        <5> QED
          BY <5>2
      <4> QED
        BY <3>3, <4>1, <4>2
    <3> QED
      BY <3>1, <3>2, <3>3 DEF Accounted
  <2> QED
    BY <1>1, <1>3, <2>1 DEF Settling, Mirrored, Pending
<1>12. ToldGoneIsGone'
  BY <1>3 DEF ToldGoneIsGone, IdsOf
<1> QED
  BY <1>4, <1>5, <1>7, <1>8, <1>9, <1>10, <1>11, <1>12 DEF MemInv

----------------------------------------------------------------------------
(* What a job becomes.                                                      *)

\* A job that has nothing in hand: what follows of it is all there is to know.
AtRest(d) == d \in Job /\ Formed(d) /\ ~Inserted(d) /\ ~Executed(d)

LEMMA IdleRests == AtRest(Idle) /\ Idle.ids = <<>> /\ Idle.groups = <<>>
<1>1. Nobody \in Owners /\ <<>> \in FactOrNone /\ <<>> \in RowOrNone
      /\ <<>> \in Seq(Nat) /\ <<>> \in Seq(SUBSET Nat)
  BY DEF Owners, FactOrNone, RowOrNone
<1>2. Idle \in Job
  BY <1>1 DEF Idle, Job, Ops, Ats, Calls
<1> QED
  BY <1>2 DEF AtRest, Idle, Formed, Inserted, Executed

\* A job that goes on with other work.
Work(b, at, call, ids, groups) ==
  [b EXCEPT !.at = at, !.call = call, !.ids = ids, !.groups = groups]

WorksOn(d, b, at, call, ids, groups) ==
  /\ d \in Job /\ d.at = at /\ d.call = call /\ d.ids = ids /\ d.groups = groups
  /\ d.op = b.op /\ d.owner = b.owner /\ d.fact = b.fact /\ d.row = b.row
  /\ d.scoped = b.scoped

LEMMA WorkIsDone ==
  \A b \in Job, at \in Ats, call \in Calls, ids \in Seq(Nat), groups \in Seq(SUBSET Nat) :
    WorksOn(Work(b, at, call, ids, groups), b, at, call, ids, groups)
<1> SUFFICES ASSUME NEW b \in Job, NEW at \in Ats, NEW call \in Calls,
                    NEW ids \in Seq(Nat), NEW groups \in Seq(SUBSET Nat)
             PROVE  WorksOn(Work(b, at, call, ids, groups), b, at, call, ids, groups)
  OBVIOUS
<1> DEFINE IdSeq == Seq(Nat)
           GroupSeq == Seq(SUBSET Nat)
<1>1. Job = [op : Ops, at : Ats, call : Calls, owner : Owners, fact : FactOrNone,
             row : RowOrNone, ids : IdSeq, scoped : BOOLEAN, groups : GroupSeq]
  BY DEF Job
<1>2. ids \in IdSeq /\ groups \in GroupSeq
  OBVIOUS
<1> HIDE DEF IdSeq, GroupSeq
<1> QED
  BY <1>1, <1>2 DEF WorksOn, Work

LEMMA Nothing == <<>> \in Seq(Nat) /\ <<>> \in Seq(SUBSET Nat)
<1> QED
  OBVIOUS

LEMMA EmptyRange == Range(<<>>) = {}
<1> QED
  BY DEF Range

LEMMA GroupsPick ==
  ASSUME NEW gs \in Seq(SUBSET Nat)
  PROVE  LET rest == Picked(gs, {k \in DOMAIN gs : gs[k] # {}}) IN
         rest \in Seq(SUBSET Nat) /\ Range(rest) \subseteq Range(gs)
<1> DEFINE K == {k \in DOMAIN gs : gs[k] # {}}
<1>1. K \in SUBSET DOMAIN gs
  OBVIOUS
<1>2. {gs[k] : k \in K} \subseteq Range(gs)
  BY DEF Range
<1>3. Picked(gs, K) \in Seq(SUBSET Nat) /\ Range(Picked(gs, K)) = {gs[k] : k \in K}
  <2> HIDE DEF K
  <2> QED
    BY <1>1, PickedKeeps
<1> QED
  BY <1>2, <1>3

LEMMA NextGroupShape ==
  ASSUME NEW b \in Job, b.op = "consolidate", b.scoped = FALSE
  PROVE  LET d == NextGroup(b) IN
         /\ AtRest(d) /\ d.ids = <<>> /\ Range(d.groups) \subseteq Range(b.groups)
         /\ d = Idle \/ d.owner = b.owner
<1> DEFINE rest == Picked(b.groups, {k \in DOMAIN b.groups : b.groups[k] # {}})
           d == [b EXCEPT !.at = "choose", !.call = "none", !.ids = <<>>, !.groups = rest]
<1>1. b.groups \in Seq(SUBSET Nat)
  BY DEF Job
<1>2. rest \in Seq(SUBSET Nat) /\ Range(rest) \subseteq Range(b.groups)
  BY <1>1, GroupsPick
<1>3. NextGroup(b) = IF rest = <<>> THEN Idle ELSE d
  BY DEF NextGroup
<1> HIDE DEF rest
<1>4. /\ d \in Job /\ d.op = b.op /\ d.at = "choose" /\ d.call = "none" /\ d.ids = <<>>
      /\ d.groups = rest /\ d.owner = b.owner /\ d.scoped = b.scoped
  <2>1. d = Work(b, "choose", "none", <<>>, rest)
    BY DEF Work
  <2>2. "choose" \in Ats /\ "none" \in Calls
    BY DEF Ats, Calls
  <2> HIDE DEF d
  <2>3. WorksOn(Work(b, "choose", "none", <<>>, rest), b, "choose", "none", <<>>, rest)
    BY <1>2, <2>2, Nothing, WorkIsDone, Zenon
  <2> QED
    BY <2>1, <2>3 DEF WorksOn
<1> HIDE DEF d
<1>5. CASE rest = <<>>
  BY <1>3, <1>5, IdleRests, EmptyRange
<1>6. CASE rest # <<>>
  <2>1. Formed(d) /\ ~Inserted(d) /\ ~Executed(d)
    BY <1>4, <1>6 DEF Formed, Inserted, Executed
  <2> QED
    BY <1>2, <1>3, <1>4, <1>6, <2>1 DEF AtRest
<1> QED
  BY <1>5, <1>6

\* After a delete: what is still to do is what was, less the head.
LEMMA DeletedShape ==
  ASSUME NEW b \in Job, Formed(b), b.at \in {"supersede", "evict", "delete"}
  PROVE  LET d == Deleted(b) IN
         /\ AtRest(d)
         /\ Range(d.ids) \subseteq Range(b.ids)
         /\ Range(b.ids) \subseteq Range(d.ids) \cup {Head(b.ids)}
         /\ Range(d.groups) \subseteq Range(b.groups)
         /\ d.ids # <<>> => d.at = b.at /\ d.op = b.op /\ d.scoped = b.scoped
         /\ d = Idle \/ d.owner = b.owner
<1> DEFINE rest == Tail(b.ids)
<1>1. b.ids \in Seq(Nat) /\ b.ids # <<>> /\ b.groups \in Seq(SUBSET Nat)
  BY DEF Job, Formed
<1>2. /\ rest \in Seq(Nat) /\ Range(rest) \subseteq Range(b.ids)
      /\ Range(b.ids) \subseteq Range(rest) \cup {Head(b.ids)}
  <2>1. rest \in Seq(Nat) /\ Len(rest) = Len(b.ids) - 1
        /\ \A i \in 1..(Len(b.ids) - 1) : rest[i] = b.ids[i + 1]
    BY <1>1
  <2>4. b.ids[1] = Head(b.ids) /\ Len(b.ids) \in Nat
    BY <1>1
  <2>2. Range(rest) \subseteq Range(b.ids)
    <3> HIDE DEF rest
    <3>1. ASSUME NEW i \in DOMAIN rest PROVE rest[i] \in Range(b.ids)
      <4>0. DOMAIN rest = 1..Len(rest) /\ DOMAIN b.ids = 1..Len(b.ids)
        BY <1>1, <2>1
      <4>1. i \in 1..(Len(b.ids) - 1) /\ i + 1 \in 1..Len(b.ids) /\ DOMAIN b.ids = 1..Len(b.ids)
        BY <2>1, <2>4, <4>0
      <4>2. rest[i] = b.ids[i + 1]
        BY <2>1, <4>1
      <4> QED
        BY <4>1, <4>2 DEF Range
    <3> QED
      BY <3>1 DEF Range
  <2>3. ASSUME NEW i \in 1..Len(b.ids) PROVE b.ids[i] \in Range(rest) \cup {Head(b.ids)}
    <3> HIDE DEF rest
    <3>1. CASE i = 1
      BY <2>4, <3>1
    <3>2. CASE i # 1
      <4>1. i - 1 \in 1..(Len(b.ids) - 1) /\ (i - 1) + 1 = i
        BY <2>4, <3>2
      <4>2. rest[i - 1] = b.ids[i]
        BY <2>1, <4>1
      <4>3. DOMAIN rest = 1..(Len(b.ids) - 1)
        BY <2>1
      <4> QED
        BY <4>1, <4>2, <4>3 DEF Range
    <3> QED
      BY <3>1, <3>2
  <2>5. Range(b.ids) = {b.ids[i] : i \in 1..Len(b.ids)}
    BY <1>1 DEF Range
  <2> HIDE DEF rest
  <2> QED
    BY <2>1, <2>2, <2>3, <2>5
<1> HIDE DEF rest
<1>3. CASE rest # <<>>
  <2> DEFINE d == [b EXCEPT !.ids = rest, !.call = "sent"]
  <2>1. Deleted(b) = d
    BY <1>3 DEF Deleted, rest
  <2>2. /\ d \in Job /\ d.op = b.op /\ d.at = b.at /\ d.call = "sent" /\ d.ids = rest
        /\ d.groups = b.groups /\ d.owner = b.owner /\ d.scoped = b.scoped
        /\ d.fact = b.fact /\ d.row = b.row
    BY <1>2 DEF Job, Calls
  <2> HIDE DEF d
  <2>3. Formed(d) /\ ~Inserted(d) /\ ~Executed(d)
    BY <1>3, <2>2 DEF Formed, Inserted, Executed
  <2> QED
    BY <1>2, <2>1, <2>2, <2>3 DEF AtRest
<1>4. CASE rest = <<>> /\ b.at = "supersede"
  <2> DEFINE d == [b EXCEPT !.at = "insert", !.ids = <<>>, !.call = "sent"]
  <2>1. Deleted(b) = d
    <3>1. b.op # "consolidate"
      BY <1>4 DEF Formed
    <3> QED
      BY <1>4, <3>1 DEF Deleted, rest
  <2>2. /\ d \in Job /\ d.op = b.op /\ d.at = "insert" /\ d.call = "sent" /\ d.ids = <<>>
        /\ d.groups = b.groups /\ d.owner = b.owner /\ d.scoped = b.scoped
        /\ d.fact = b.fact /\ d.row = b.row
    <3>1. b.groups \in Seq(SUBSET Nat) /\ "insert" \in Ats /\ "sent" \in Calls
      BY DEF Job, Ats, Calls
    <3>2. WorksOn(Work(b, "insert", "sent", <<>>, b.groups), b, "insert", "sent", <<>>, b.groups)
      BY <3>1, Nothing, WorkIsDone, Zenon
    <3>3. d = Work(b, "insert", "sent", <<>>, b.groups)
      BY DEF Work, Job
    <3> QED
      BY <3>2, <3>3 DEF WorksOn
  <2> HIDE DEF d
  <2>3. b.scoped = FALSE /\ b.op = "remember" /\ b.fact \in Facts
    BY <1>4 DEF Formed, Job
  <2>4. Formed(d) /\ ~Inserted(d) /\ ~Executed(d)
    BY <2>2, <2>3 DEF Formed, Inserted, Executed
  <2> QED
    BY <1>2, <1>4, <2>1, <2>2, <2>4, EmptyRange DEF AtRest
<1>5. CASE rest = <<>> /\ b.at # "supersede" /\ b.op = "consolidate"
  <2>1. Deleted(b) = NextGroup(b)
    BY <1>5 DEF Deleted, rest
  <2>2. b.scoped = FALSE
    BY <1>5 DEF Formed, Job
  <2>3. LET d == NextGroup(b) IN
        /\ AtRest(d) /\ d.ids = <<>> /\ Range(d.groups) \subseteq Range(b.groups)
        /\ d = Idle \/ d.owner = b.owner
    BY <1>5, <2>2, NextGroupShape
  <2> QED
    BY <1>2, <1>5, <2>1, <2>3, EmptyRange
<1>6. CASE rest = <<>> /\ b.at # "supersede" /\ b.op # "consolidate"
  <2>1. Deleted(b) = Idle
    BY <1>6 DEF Deleted, rest
  <2> QED
    BY <1>2, <1>6, <2>1, IdleRests, EmptyRange
<1> QED
  BY <1>3, <1>4, <1>5, <1>6

LEMMA JobIs ==
  ASSUME MemInv, NEW j \in Jobs
  PROVE  /\ job \in [Jobs -> Job] /\ job[j] \in Job /\ Formed(job[j])
         /\ cache \in Seq(Row) /\ Once(cache) /\ Cached = Range(cache)
         /\ nextId \in Nat /\ store \in SUBSET Row
         /\ told \subseteq Nat /\ \A id \in told : id < nextId /\ id \notin IdsOf(store)
<1>1. \A id \in told : id \notin IdsOf(store)
  BY DEF MemInv, ToldGoneIsGone
<1> QED
  BY <1>1 DEF MemInv, MemTypeOK, JobsFormed, OneOfEach, Born, Cached

\* What is said of an id goes for every row under it.
LEMMA CopiesAgree ==
  ASSUME MemInv, NEW m \in Cached, NEW caller, MayAccess(m.owner, caller)
  PROVE  /\ m.id < nextId
         /\ \A r \in store : r.id = m.id => MayAccess(r.owner, caller)
         /\ \A k \in Jobs : Inserted(job[k]) => job[k].row.id # m.id
<1>1. m.id < nextId
  BY DEF MemInv, Born
<1>2. \A r \in store : r.id = m.id => MayAccess(r.owner, caller)
  BY DEF MemInv, OneOfEach
<1>3. \A k \in Jobs : Inserted(job[k]) => job[k].row.id # m.id
  BY DEF MemInv, NewsIsNews, IdsOf
<1> QED
  BY <1>1, <1>2, <1>3

\* A call that begins.
BeginsAs(d, op, at, call, owner, fact, ids, scoped) ==
  /\ d \in Job /\ d.op = op /\ d.at = at /\ d.call = call /\ d.owner = owner
  /\ d.fact = fact /\ d.row = <<>> /\ d.ids = ids /\ d.scoped = scoped /\ d.groups = <<>>

Remembering(b, at, o, f, ids) ==
  [b EXCEPT !.op = "remember", !.owner = o, !.fact = f, !.call = "sent", !.at = at, !.ids = ids]

LEMMA RememberingIs ==
  \A at \in Ats, o \in Owners, f \in FactOrNone, ids \in Seq(Nat) :
    BeginsAs(Remembering(Idle, at, o, f, ids), "remember", at, "sent", o, f, ids, FALSE)
<1> SUFFICES ASSUME NEW at \in Ats, NEW o \in Owners, NEW f \in FactOrNone, NEW ids \in Seq(Nat)
             PROVE  BeginsAs(Remembering(Idle, at, o, f, ids),
                             "remember", at, "sent", o, f, ids, FALSE)
  OBVIOUS
<1> DEFINE IdSeq == Seq(Nat)
           GroupSeq == Seq(SUBSET Nat)
<1>1. Job = [op : Ops, at : Ats, call : Calls, owner : Owners, fact : FactOrNone,
             row : RowOrNone, ids : IdSeq, scoped : BOOLEAN, groups : GroupSeq]
  BY DEF Job
<1>2. /\ ids \in IdSeq /\ Idle \in Job /\ "remember" \in Ops /\ "sent" \in Calls
      /\ Idle.row = <<>> /\ Idle.groups = <<>> /\ Idle.scoped = FALSE
  BY IdleRests DEF AtRest, Ops, Calls, Idle
<1> HIDE DEF IdSeq, GroupSeq
<1> QED
  BY <1>1, <1>2 DEF BeginsAs, Remembering

\* A job that had nothing to do has no call to account for.
LEMMA IdleOwesNothing ==
  ASSUME NEW id PROVE ~Pending(Idle, id)
<1>1. Range(Idle.ids) = {} /\ Idle.at = ""
  BY IdleRests, EmptyRange DEF Idle
<1> QED
  BY <1>1 DEF Pending, Inserted

LEMMA FirstIndex ==
  ASSUME NEW K \in SUBSET Nat, K # {}
  PROVE  (CHOOSE i \in K : \A k \in K : i <= k) \in K
<1>1. \E i \in K : \A k \in K : ~(<<k, i>> \in OpToRel(<, Nat))
  BY NatLessThanWellFounded, WFMin
<1>2. \A i, k \in K : ~(<<k, i>> \in OpToRel(<, Nat)) => i <= k
  BY DEF OpToRel
<1>3. \E i \in K : \A k \in K : i <= k
  BY <1>1, <1>2
<1> QED
  BY <1>3

LEMMA SeqOfSet ==
  ASSUME NEW T, NEW S \in SUBSET T, IsFiniteSet(S)
  PROVE  SetToSeq(S) \in Seq(T) /\ Range(SetToSeq(S)) \subseteq S
<1> DEFINE n == Cardinality(S)
<1>1. n \in Nat /\ ExistsBijection(1..n, S)
  BY FS_CardinalityType
<1>2. \E f \in [1..n -> S] : IsInjective(f)
  BY <1>1 DEF ExistsBijection, Bijection, Injection, IsInjective
<1>3. SetToSeq(S) \in [1..n -> S]
  BY <1>2 DEF SetToSeq
<1> HIDE DEF n
<1>4. SetToSeq(S) \in [1..n -> T]
  BY <1>3
<1>5. SetToSeq(S) \in Seq(T)
  BY <1>1, <1>4
<1> QED
  BY <1>3, <1>5 DEF Range

----------------------------------------------------------------------------
(* The steps.                                                               *)

LEMMA RemembersInv ==
  ASSUME MemInv, NEW j \in Jobs, NEW o \in Owners, NEW f \in Facts, Remember(j, o, f)
  PROVE  MemInv'
<1> DEFINE p == Proposal(f, Visible(o))
           at == IF p.action = "accept" THEN "insert" ELSE "supersede"
           ids == IF p.action = "accept" THEN <<>> ELSE <<p.replaces>>
           d == Remembering(Idle, at, o, f, ids)
<1>1. job' = [job EXCEPT ![j] = d] /\ job[j] = Idle /\ p.action # "duplicate"
  BY DEF Remember, Free, Remembering
<1>2. UNCHANGED <<cache, store, nextId, now, told, loose, raced>>
  BY DEF Remember, history
<1>3. p.action # "accept" =>
        \E m \in Cached : p.replaces = m.id /\ MayAccess(m.owner, o)
  <2> DEFINE seen == Visible(o)
             opposite == {i \in DOMAIN seen : Contradicts(f, seen[i])}
             first == CHOOSE i \in opposite : \A k \in opposite : i <= k
             K == {k \in DOMAIN cache : MayAccess(cache[k].owner, o)}
  <2>1. cache \in Seq(Row) /\ Cached = Range(cache) /\ K \in SUBSET DOMAIN cache
    BY JobIs
  <2>2. seen \in Seq(Row) /\ Range(seen) = {cache[k] : k \in K}
    <3>1. seen = Picked(cache, K)
      BY DEF Visible
    <3> HIDE DEF seen, K
    <3> QED
      BY <2>1, <3>1, PickedKeeps
  <2>3. \A m \in Range(seen) : m \in Cached /\ MayAccess(m.owner, o)
    BY <2>1, <2>2 DEF Range
  <2>4. opposite # {} => first \in opposite
    <3>1. opposite \in SUBSET Nat
      BY <2>2
    <3> HIDE DEF opposite
    <3> QED
      BY <3>1, FirstIndex
  <2>5. ASSUME p.action # "accept" PROVE opposite # {} /\ p.replaces = seen[first].id
    BY <1>1, <2>5 DEF Proposal
  <2> HIDE DEF seen, first, p
  <2>6. ASSUME p.action # "accept" PROVE seen[first] \in Range(seen)
    BY <2>4, <2>5, <2>6 DEF Range
  <2> QED
    BY <2>3, <2>5, <2>6
<1> HIDE DEF p
<1>4. p.action # "accept" => p.replaces \in Nat
  <2>1. \A m \in Cached : m \in Row
    BY JobIs DEF Range
  <2> QED
    BY <1>3, <2>1 DEF Row
<1>5. BeginsAs(d, "remember", at, "sent", o, f, ids, FALSE)
  <2>1. at \in Ats /\ f \in FactOrNone /\ ids \in Seq(Nat)
    BY <1>4 DEF Ats, FactOrNone
  <2> HIDE DEF at, ids
  <2> QED
    BY <2>1, RememberingIs, Zenon
<1> HIDE DEF d
<1>6. d \in Job /\ Formed(d) /\ ~Inserted(d) /\ ~Executed(d) /\ d.groups = <<>>
  BY <1>5 DEF BeginsAs, Formed, Inserted, Executed
<1>7. TakesUp(j, d, Range(cache'), raced')
  <2>1. CASE p.action = "accept"
    BY <1>5, <1>6, <2>1, EmptyRange DEF BeginsAs, TakesUp
  <2>2. CASE p.action # "accept"
    <3>1. PICK m \in Cached : p.replaces = m.id /\ MayAccess(m.owner, o)
      BY <1>3, <2>2
    <3>2. Range(d.ids) = {m.id}
      BY <1>5, <2>2, <3>1 DEF BeginsAs, Range
    <3>3. MayDelete(d, m.id, Range(cache'), raced')
      BY <1>2, <1>5, <2>2, <3>1, CopiesAgree DEF BeginsAs, MayDelete
    <3> QED
      BY <1>6, <3>1, <3>2, <3>3, CopiesAgree, EmptyRange DEF TakesUp
  <2> QED
    BY <2>1, <2>2
<1>8. \A id \in Ids : Accounted(j, d, id, Range(cache'), loose', raced')
  BY <1>1, <1>2, IdleOwesNothing DEF Accounted, Cached
<1>9. /\ cache' \in Seq(Row) /\ Once(cache') /\ \A m \in Range(cache') : m \in Cached
      /\ told' \subseteq Nat /\ (\A id \in told' : id < nextId /\ id \notin IdsOf(store))
      /\ loose \subseteq loose' /\ raced \subseteq raced'
  BY <1>2, JobIs
<1>10. \A m \in Range(cache') : m \in Cached \/ (Inserted(job[j]) /\ m = job[j].row)
  BY <1>9
<1>11. UNCHANGED <<store, nextId, now>>
  BY <1>2
<1> QED
  BY <1>1, <1>6, <1>7, <1>8, <1>9, <1>10, <1>11, JobStep

\* What a step that leaves cache and history alone keeps for JobStep.
LEMMA NothingElse ==
  ASSUME MemInv, UNCHANGED <<cache, told>>
  PROVE  /\ cache' \in Seq(Row) /\ Once(cache') /\ Range(cache') = Cached
         /\ \A m \in Range(cache') : m \in Cached
         /\ told' \subseteq Nat /\ \A id \in told' : id < nextId /\ id \notin IdsOf(store)
<1>1. /\ cache \in Seq(Row) /\ Once(cache) /\ Cached = Range(cache)
      /\ told \subseteq Nat /\ \A id \in told : id < nextId /\ id \notin IdsOf(store)
  BY DEF MemInv, MemTypeOK, OneOfEach, Born, Cached, ToldGoneIsGone
<1> QED
  BY <1>1

LEMMA InsertFailsInv ==
  ASSUME MemInv, NEW j \in Jobs, InsertFails(j) PROVE MemInv'
<1> DEFINE b == job[j]
<1>1. b \in Job /\ Formed(b) /\ b.at = "insert" /\ b.ids = <<>>
  BY JobIs DEF InsertFails, Formed
<1>2. /\ job' = [job EXCEPT ![j] = Idle] /\ UNCHANGED <<store, nextId, now>>
      /\ UNCHANGED <<cache, told>> /\ raced' = raced
      /\ loose' = IF b.call = "done" THEN loose \cup {b.row.id} ELSE loose
  BY DEF InsertFails
<1>3. Range(b.ids) = {}
  BY <1>1, EmptyRange
<1>4. TakesUp(j, Idle, Range(cache'), raced')
  BY IdleRests, EmptyRange DEF TakesUp
<1>5. ASSUME NEW id \in Ids PROVE Accounted(j, Idle, id, Range(cache'), loose', raced')
  <2>1. id \in loose' \/ ~Pending(b, id)
    BY <1>2, <1>3 DEF Pending, Inserted
  <2> QED
    BY <1>2, <2>1, NothingElse DEF Accounted
<1>6. loose \subseteq loose' /\ raced \subseteq raced'
  BY <1>2
<1>7. Idle \in Job /\ Formed(Idle) /\ ~Inserted(Idle) /\ ~Executed(Idle)
  BY IdleRests DEF AtRest
<1> QED
  BY <1>2, <1>4, <1>5, <1>6, <1>7, NothingElse, JobStep

\* Going on after a delete: what is still to do was the job's to do.
LEMMA DeletedGoesOn ==
  ASSUME MemInv, NEW j \in Jobs, Deleting(j), NEW ms, IdsOf(ms) \subseteq IdsOf(Cached)
  PROVE  LET b == job[j]
             d == Deleted(b)
         IN  /\ d \in Job /\ Formed(d) /\ ~Inserted(d) /\ ~Executed(d)
             /\ Head(b.ids) \in Range(b.ids) /\ Head(b.ids) \in Nat
             /\ TakesUp(j, d, ms, raced)
             /\ \A id : id # Head(b.ids) /\ Pending(b, id) => Pending(d, id)
<1> DEFINE b == job[j]
           d == Deleted(b)
<1>1. b \in Job /\ Formed(b) /\ b.at \in {"supersede", "evict", "delete"} /\ b.ids # <<>>
      /\ b.ids \in Seq(Nat)
  BY JobIs DEF Deleting, Formed, Job
<1>2. /\ AtRest(d)
      /\ Range(d.ids) \subseteq Range(b.ids)
      /\ Range(b.ids) \subseteq Range(d.ids) \cup {Head(b.ids)}
      /\ Range(d.groups) \subseteq Range(b.groups)
      /\ d.ids # <<>> => d.at = b.at /\ d.op = b.op /\ d.scoped = b.scoped
      /\ d = Idle \/ d.owner = b.owner
  BY <1>1, DeletedShape
<1>3. Head(b.ids) \in Range(b.ids) /\ Head(b.ids) \in Nat
  BY <1>1 DEF Range
<1>4. d = Idle => Range(d.ids) = {} /\ Range(d.groups) = {}
  BY IdleRests, EmptyRange
<1>5. \A id \in Range(d.ids) : /\ d.at = b.at /\ d.op = b.op /\ d.scoped = b.scoped
                               /\ d.owner = b.owner
  <2>1. d.ids = <<>> => Range(d.ids) = {}
    BY EmptyRange
  <2> QED
    BY <1>2, <1>4, <2>1
<1>6. \A id : id # Head(b.ids) /\ Pending(b, id) => Pending(d, id)
  <2>1. ASSUME NEW id, id # Head(b.ids), Pending(b, id) PROVE Pending(d, id)
    <3>1. id \in Range(b.ids)
      BY <1>1, <2>1 DEF Pending, Inserted
    <3> HIDE DEF b, d
    <3>2. id \in Range(d.ids)
      BY <1>2, <2>1, <3>1
    <3>3. b.scoped => \A r \in store : r.id = id => MayAccess(r.owner, b.owner)
      BY <1>1, <2>1 DEF Pending, Inserted
    <3> QED
      BY <1>5, <3>2, <3>3 DEF Pending
  <2> QED
    BY <2>1
<1>7. TakesUp(j, d, ms, raced)
  <2>1. /\ \A id \in Range(b.ids) : id < nextId /\ MayDelete(b, id, Cached, raced)
        /\ \A k \in Jobs, id \in Range(b.ids) :
             Inserted(job[k]) /\ job[k].row.id = id => b.op = "forget" /\ id \in raced
        /\ \A g \in Range(b.groups) : \A id \in g :
             /\ id < nextId
             /\ \A k \in Jobs : Inserted(job[k]) => job[k].row.id # id
             /\ \A r \in store : r.id = id => MayAccess(r.owner, b.owner)
    BY DEF MemInv, Born, DeletesMay, NewsIsNews
  <2> HIDE DEF b, d
  <2>2. ASSUME NEW id \in Range(d.ids)
        PROVE  /\ id < nextId /\ MayDelete(d, id, ms, raced)
               /\ \A k \in Jobs \ {j} :
                    Inserted(job[k]) /\ job[k].row.id = id => d.op = "forget" /\ id \in raced
    <3>1. id \in Range(b.ids) /\ d.at = b.at /\ d.op = b.op /\ d.scoped = b.scoped
          /\ d.owner = b.owner
      BY <1>2, <1>5
    <3>2. MayDelete(d, id, ms, raced)
      BY <2>1, <3>1 DEF MayDelete
    <3> QED
      BY <2>1, <3>1, <3>2
  <2>3. ASSUME NEW g \in Range(d.groups), NEW id \in g
        PROVE  /\ id < nextId
               /\ \A k \in Jobs \ {j} : Inserted(job[k]) => job[k].row.id # id
               /\ \A r \in store : r.id = id => MayAccess(r.owner, d.owner)
    <3>1. g \in Range(b.groups) /\ d.owner = b.owner
      BY <1>2, <1>4
    <3> QED
      BY <2>1, <3>1
  <2> QED
    BY <2>2, <2>3 DEF TakesUp
<1> QED
  BY <1>2, <1>3, <1>6, <1>7 DEF AtRest

LEMMA DeleteFailsInv ==
  ASSUME MemInv, NEW j \in Jobs, DeleteFails(j) PROVE MemInv'
<1> DEFINE b == job[j]
           d == Deleted(b)
<1>1. /\ job' = [job EXCEPT ![j] = d] /\ UNCHANGED <<store, nextId, now>>
      /\ UNCHANGED <<cache, told>> /\ raced' = raced
      /\ loose' = loose \cup {Head(b.ids)} /\ Deleting(j)
  BY DEF DeleteFails
<1>2. /\ d \in Job /\ Formed(d) /\ ~Inserted(d) /\ ~Executed(d)
      /\ TakesUp(j, d, Cached, raced)
      /\ \A id : id # Head(b.ids) /\ Pending(b, id) => Pending(d, id)
  BY <1>1, DeletedGoesOn
<1> HIDE DEF d
<1>3. TakesUp(j, d, Range(cache'), raced')
  BY <1>1, <1>2, NothingElse
<1>4. ASSUME NEW id \in Ids PROVE Accounted(j, d, id, Range(cache'), loose', raced')
  BY <1>1, <1>2, NothingElse DEF Accounted
<1>5. loose \subseteq loose' /\ raced \subseteq raced'
  BY <1>1
<1> QED
  BY <1>1, <1>2, <1>3, <1>4, <1>5, NothingElse, JobStep

LEMMA DeleteReturnsInv ==
  ASSUME MemInv, NEW j \in Jobs, DeleteReturns(j) PROVE MemInv'
<1> DEFINE b == job[j]
           d == Deleted(b)
           gone == Head(b.ids)
<1>1. /\ job' = [job EXCEPT ![j] = d] /\ UNCHANGED <<store, nextId, now>>
      /\ loose' = loose /\ raced' = raced /\ Deleting(j) /\ b.call = "done"
      /\ cache' = IF b.at = "evict" THEN cache ELSE Without(cache, gone)
      /\ told' = IF b.op = "forget" /\ \A r \in Rows(gone) : MayAccess(r.owner, b.owner)
                 THEN told \cup {gone} ELSE told
  BY DEF DeleteReturns
<1>2. /\ cache \in Seq(Row) /\ Once(cache) /\ Cached = Range(cache) /\ Formed(b)
      /\ told \subseteq Nat /\ \A id \in told : id < nextId /\ id \notin IdsOf(store)
  BY JobIs
<1>3. /\ cache' \in Seq(Row) /\ Once(cache') /\ \A m \in Range(cache') : m \in Cached
      /\ \A id : id # gone => (id \in IdsOf(Range(cache')) <=> id \in IdsOf(Cached))
      /\ b.at # "evict" => gone \notin IdsOf(Range(cache'))
      /\ b.at = "evict" => Range(cache') = Cached
  <2>1. CASE b.at = "evict"
    BY <1>1, <1>2, <2>1
  <2>2. CASE b.at # "evict"
    <3>1. /\ cache' = Without(cache, gone) /\ cache' \in Seq(Row) /\ Once(cache')
          /\ Range(cache') = {m \in Cached : m.id # gone}
      BY <1>1, <1>2, <2>2, WithoutKeeps
    <3> QED
      BY <2>2, <3>1 DEF IdsOf
  <2> QED
    BY <2>1, <2>2
<1>4. IdsOf(Range(cache')) \subseteq IdsOf(Cached)
  BY <1>3 DEF IdsOf
<1>5. /\ d \in Job /\ Formed(d) /\ ~Inserted(d) /\ ~Executed(d)
      /\ gone \in Range(b.ids) /\ gone \in Nat
      /\ TakesUp(j, d, Range(cache'), raced)
      /\ \A id : id # gone /\ Pending(b, id) => Pending(d, id)
  BY <1>1, <1>4, DeletedGoesOn
<1>6. /\ \A r \in store : r.id = gone => b.scoped /\ ~MayAccess(r.owner, b.owner)
      /\ MayDelete(b, gone, Cached, raced) /\ gone < nextId
  <2>1. Executed(b)
    BY <1>1 DEF Executed, Deleting
  <2> QED
    BY <1>5, <2>1 DEF MemInv, DeletesMay, Born
<1>7. told' \subseteq Nat /\ \A id \in told' : id < nextId /\ id \notin IdsOf(store)
  <2>1. (\A r \in Rows(gone) : MayAccess(r.owner, b.owner)) => gone \notin IdsOf(store)
    BY <1>6 DEF Rows, IdsOf
  <2> QED
    BY <1>1, <1>2, <1>5, <1>6, <2>1
<1>8. ~Inserted(b) /\ (b.scoped => b.at # "evict")
  BY <1>1, <1>2 DEF Inserted, Deleting, Formed
<1> HIDE DEF d
<1>9. ASSUME NEW id \in Ids PROVE Accounted(j, d, id, Range(cache'), loose', raced')
  <2>1. CASE id # gone
    BY <1>3, <1>5, <2>1 DEF Accounted
  <2>2. CASE id = gone /\ gone \notin IdsOf(store)
    <3>1. gone \notin IdsOf(Range(cache'))
      BY <1>3, <1>6 DEF MayDelete
    <3> QED
      BY <2>2, <3>1 DEF Accounted
  <2>3. CASE id = gone /\ gone \in IdsOf(store)
    <3>1. b.scoped /\ \E r \in store : r.id = gone /\ ~MayAccess(r.owner, b.owner)
      BY <1>6, <2>3 DEF IdsOf
    <3>2. ~Pending(b, gone)
      BY <1>8, <3>1 DEF Pending
    <3>3. gone \in raced \/ gone \notin IdsOf(Cached)
      BY <1>6, <3>1 DEF MayDelete
    <3> QED
      BY <1>1, <1>4, <2>3, <3>2, <3>3 DEF Accounted
  <2> QED
    BY <2>1, <2>2, <2>3
<1>10. \A m \in Range(cache') : m \in Cached \/ (Inserted(job[j]) /\ m = job[j].row)
  BY <1>3
<1>11. loose \subseteq loose' /\ raced \subseteq raced' /\ TakesUp(j, d, Range(cache'), raced')
  BY <1>1, <1>5
<1> QED
  BY <1>1, <1>3, <1>5, <1>7, <1>9, <1>10, <1>11, JobStep

Evicting(b, ids) ==
  [b EXCEPT !.at = "evict", !.call = "sent", !.row = <<>>, !.fact = <<>>, !.ids = ids]

EvictsAs(d, b, ids) ==
  /\ d \in Job /\ d.at = "evict" /\ d.call = "sent" /\ d.ids = ids
  /\ d.op = b.op /\ d.owner = b.owner /\ d.scoped = b.scoped /\ d.groups = b.groups

LEMMA EvictingIs ==
  \A b \in Job, ids \in Seq(Nat) : EvictsAs(Evicting(b, ids), b, ids)
<1> SUFFICES ASSUME NEW b \in Job, NEW ids \in Seq(Nat)
             PROVE  EvictsAs(Evicting(b, ids), b, ids)
  OBVIOUS
<1> DEFINE IdSeq == Seq(Nat)
           GroupSeq == Seq(SUBSET Nat)
<1>1. Job = [op : Ops, at : Ats, call : Calls, owner : Owners, fact : FactOrNone,
             row : RowOrNone, ids : IdSeq, scoped : BOOLEAN, groups : GroupSeq]
  BY DEF Job
<1>2. /\ ids \in IdSeq /\ "evict" \in Ats /\ "sent" \in Calls
      /\ <<>> \in FactOrNone /\ <<>> \in RowOrNone
  BY DEF Ats, Calls, FactOrNone, RowOrNone
<1> HIDE DEF IdSeq, GroupSeq
<1> QED
  BY <1>1, <1>2 DEF EvictsAs, Evicting

LEMMA AppendOnce ==
  ASSUME NEW ms \in Seq(Row), Once(ms), NEW row \in Row, row.id \notin IdsOf(Range(ms))
  PROVE  LET all == Append(ms, row) IN
         all \in Seq(Row) /\ Once(all) /\ Range(all) = Range(ms) \cup {row}
<1> DEFINE all == Append(ms, row)
           n == Len(ms)
<1>1. /\ n \in Nat /\ DOMAIN ms = 1..n /\ all \in Seq(Row) /\ DOMAIN all = 1..(n + 1)
      /\ all[n + 1] = row /\ \A i \in 1..n : all[i] = ms[i]
  OBVIOUS
<1>2. \A i \in 1..n : ms[i].id # row.id
  BY <1>1 DEF IdsOf, Range
<1> HIDE DEF all, n
<1>3. 1..(n + 1) = (1..n) \cup {n + 1}
  BY <1>1
<1>4. Range(all) = Range(ms) \cup {row}
  BY <1>1, <1>3 DEF Range
<1>5. Once(all)
  BY <1>1, <1>2, <1>3 DEF Once
<1> QED
  BY <1>1, <1>4, <1>5 DEF all

LEMMA InsertReturnsInv ==
  ASSUME MemInv, NEW j \in Jobs, InsertReturns(j) PROVE MemInv'
<1> DEFINE b == job[j]
           row == b.row
           all == Append(cache, row)
           kept == IF Len(all) <= MaxMemories THEN all
                   ELSE SubSeq(ByRecency(all), 1, MaxMemories)
           out == IF Len(all) <= MaxMemories THEN <<>>
                  ELSE SubSeq(ByRecency(all), MaxMemories + 1, Len(all))
           ids == [i \in DOMAIN out |-> out[i].id]
           d == IF out = <<>> THEN Idle ELSE Evicting(b, ids)
<1>1. /\ job' = [job EXCEPT ![j] = d] /\ UNCHANGED <<store, nextId, now>>
      /\ cache' = kept /\ loose' = loose /\ raced' = raced /\ told' = told
      /\ b.at = "insert" /\ b.call = "done"
  BY DEF InsertReturns, Evicting, history
<1>2. /\ b \in Job /\ Formed(b) /\ Inserted(b) /\ row \in Row /\ b.ids = <<>>
      /\ b.op = "remember" /\ b.scoped = FALSE /\ b.groups = <<>>
      /\ cache \in Seq(Row) /\ Once(cache) /\ Cached = Range(cache) /\ nextId \in Nat
      /\ told \subseteq Nat /\ \A id \in told : id < nextId /\ id \notin IdsOf(store)
  BY <1>1, JobIs DEF Inserted, Formed
<1>3. row.id \notin IdsOf(Cached) /\ row.id \in IdsOf(store) \cup raced /\ row.id < nextId
      /\ \A k \in Jobs \ {j} : Inserted(job[k]) => job[k].row.id # row.id
  BY <1>2 DEF MemInv, NewsIsNews, Born
<1>4. all \in Seq(Row) /\ Once(all) /\ Range(all) = Cached \cup {row}
  BY <1>2, <1>3, AppendOnce
<1>5. Cut(all, kept, out)
  <2> HIDE DEF all
  <2> QED
    BY <1>4, CapCuts
<1> HIDE DEF all, kept, out
<1>6. /\ ids \in Seq(Nat) /\ Range(ids) = IdsOf(Range(out))
      /\ out # <<>> => ids # <<>>
  <2>1. out \in Seq(Row) /\ Len(out) \in Nat /\ DOMAIN out = 1..Len(out)
    BY <1>5 DEF Cut
  <2>2. \A i \in 1..Len(out) : out[i].id \in Nat
    <3>1. \A i \in 1..Len(out) : out[i] \in Row
      BY <2>1
    <3> QED
      BY <3>1 DEF Row
  <2>3. ids \in Seq(Nat) /\ Len(ids) = Len(out) /\ DOMAIN ids = DOMAIN out
    BY <2>1, <2>2
  <2>4. Range(ids) = IdsOf(Range(out))
    BY <2>3 DEF Range, IdsOf
  <2>5. out # <<>> => Len(out) # 0
    BY <2>1
  <2> QED
    BY <2>3, <2>4, <2>5
<1> HIDE DEF ids
<1>7. /\ d \in Job /\ Formed(d) /\ ~Inserted(d) /\ ~Executed(d) /\ Range(d.groups) = {}
      /\ Range(d.ids) = IdsOf(Range(out))
      /\ out # <<>> => d.at = "evict" /\ d.scoped = FALSE
  <2>1. CASE out = <<>>
    <3>1. IdsOf(Range(out)) = {}
      BY <2>1, EmptyRange DEF IdsOf
    <3> QED
      BY <2>1, <3>1, IdleRests, EmptyRange DEF AtRest
  <2>2. CASE out # <<>>
    <3>1. EvictsAs(d, b, ids)
      BY <1>2, <1>6, <2>2, EvictingIs
    <3> HIDE DEF d
    <3> QED
      BY <1>2, <1>6, <2>2, <3>1, EmptyRange DEF EvictsAs, Formed, Inserted, Executed
  <2> QED
    BY <2>1, <2>2
<1>8. /\ cache' \in Seq(Row) /\ Once(cache')
      /\ Range(cache') \cup Range(out) = Cached \cup {row}
      /\ \A id \in IdsOf(Range(out)) : id \notin IdsOf(Range(cache'))
  BY <1>1, <1>4, <1>5 DEF Cut, IdsOf
<1> HIDE DEF d
<1>9. TakesUp(j, d, Range(cache'), raced')
  <2>1. ASSUME NEW id \in Range(d.ids)
        PROVE  /\ id < nextId /\ MayDelete(d, id, Range(cache'), raced')
               /\ \A k \in Jobs \ {j} : Inserted(job[k]) => job[k].row.id # id
    <3>1. PICK m \in Cached \cup {row} : m.id = id /\ m \in Range(out)
      BY <1>7, <1>8 DEF IdsOf
    <3>2. out # <<>>
      BY <3>1, EmptyRange
    <3>3. id < nextId /\ \A k \in Jobs \ {j} : Inserted(job[k]) => job[k].row.id # id
      <4>1. CASE m = row
        BY <1>3, <3>1, <4>1
      <4>2. CASE m \in Cached
        BY <3>1, <4>2 DEF MemInv, Born, NewsIsNews, IdsOf
      <4> QED
        BY <4>1, <4>2
    <3>4. MayDelete(d, id, Range(cache'), raced')
      BY <1>7, <1>8, <3>2 DEF MayDelete
    <3> QED
      BY <3>3, <3>4
  <2> QED
    BY <1>7, <2>1 DEF TakesUp
<1>10. ASSUME NEW id \in Ids PROVE Accounted(j, d, id, Range(cache'), loose', raced')
  <2>1. CASE id \in IdsOf(Range(out))
    <3>1. out # <<>>
      BY <2>1, EmptyRange DEF IdsOf
    <3> QED
      BY <1>7, <2>1, <3>1 DEF Accounted, Pending
  <2>2. CASE id \notin IdsOf(Range(out)) /\ id = row.id
    <3>1. id \in IdsOf(Range(cache'))
      BY <1>8, <2>2 DEF IdsOf
    <3> QED
      BY <1>1, <1>3, <2>2, <3>1 DEF Accounted
  <2>3. CASE id \notin IdsOf(Range(out)) /\ id # row.id
    <3>1. id \in IdsOf(Range(cache')) <=> id \in IdsOf(Cached)
      BY <1>8, <2>3 DEF IdsOf
    <3>2. ~Pending(b, id)
      BY <1>2, <2>3, EmptyRange DEF Pending
    <3> QED
      BY <3>1, <3>2 DEF Accounted
  <2> QED
    BY <2>1, <2>2, <2>3
<1>11. \A m \in Range(cache') : m \in Cached \/ (Inserted(job[j]) /\ m = job[j].row)
  BY <1>2, <1>8
<1>12. /\ loose \subseteq loose' /\ raced \subseteq raced'
       /\ told' \subseteq Nat /\ \A id \in told' : id < nextId /\ id \notin IdsOf(store)
  BY <1>1, <1>2
<1> QED
  BY <1>1, <1>7, <1>8, <1>9, <1>10, <1>11, <1>12, JobStep

Forgetting(b, caller, ids, scoped) ==
  [b EXCEPT !.op = "forget", !.at = "delete", !.call = "sent", !.owner = caller,
            !.ids = ids, !.scoped = scoped]

LEMMA ForgettingIs ==
  \A caller \in Owners, ids \in Seq(Nat), scoped \in BOOLEAN :
    BeginsAs(Forgetting(Idle, caller, ids, scoped),
             "forget", "delete", "sent", caller, <<>>, ids, scoped)
<1> SUFFICES ASSUME NEW caller \in Owners, NEW ids \in Seq(Nat), NEW scoped \in BOOLEAN
             PROVE  BeginsAs(Forgetting(Idle, caller, ids, scoped),
                             "forget", "delete", "sent", caller, <<>>, ids, scoped)
  OBVIOUS
<1> DEFINE IdSeq == Seq(Nat)
           GroupSeq == Seq(SUBSET Nat)
<1>1. Job = [op : Ops, at : Ats, call : Calls, owner : Owners, fact : FactOrNone,
             row : RowOrNone, ids : IdSeq, scoped : BOOLEAN, groups : GroupSeq]
  BY DEF Job
<1>2. /\ ids \in IdSeq /\ Idle \in Job /\ "forget" \in Ops /\ "delete" \in Ats
      /\ "sent" \in Calls /\ Idle.row = <<>> /\ Idle.groups = <<>> /\ Idle.fact = <<>>
  BY IdleRests DEF AtRest, Ops, Ats, Calls, Idle
<1> HIDE DEF IdSeq, GroupSeq
<1> QED
  BY <1>1, <1>2, Zenon DEF BeginsAs, Forgetting

LEMMA ForgetInv ==
  ASSUME MemInv, NEW j \in Jobs, NEW id \in Ids, NEW caller \in Owners,
         ForgetMemory(j, id, caller)
  PROVE  MemInv'
<1> DEFINE scoped == id \notin IdsOf(Cached)
           ids == <<id>>
           d == Forgetting(Idle, caller, ids, scoped)
           races == \E k \in Jobs : job[k].at = "insert" /\ job[k].call = "done"
                                    /\ job[k].row.id = id
<1>1. /\ job' = [job EXCEPT ![j] = d] /\ UNCHANGED <<store, nextId, now>>
      /\ UNCHANGED <<cache, told>> /\ loose' = loose
      /\ raced' = IF races THEN raced \cup {id} ELSE raced
      /\ job[j] = Idle /\ id < nextId /\ \A m \in Cached : m.id = id => MayAccess(m.owner, caller)
  BY DEF ForgetMemory, Forgetting, Free
<1>2. loose \subseteq loose' /\ raced \subseteq raced'
  BY <1>1
<1>3. id \in Nat
  BY DEF Ids
<1>4. BeginsAs(d, "forget", "delete", "sent", caller, <<>>, ids, scoped)
  <2>1. ids \in Seq(Nat) /\ scoped \in BOOLEAN
    BY <1>3
  <2> HIDE DEF ids, scoped
  <2> QED
    BY <2>1, ForgettingIs, Zenon
<1>5. Range(d.ids) = {id} /\ ids # <<>> /\ Range(d.groups) = {}
  BY <1>4, EmptyRange DEF BeginsAs, Range
<1> HIDE DEF ids, d
<1>6. d \in Job /\ Formed(d) /\ ~Inserted(d) /\ ~Executed(d)
  BY <1>4, <1>5 DEF BeginsAs, Formed, Inserted, Executed
<1>7. TakesUp(j, d, Range(cache'), raced')
  <2>1. MayDelete(d, id, Cached, raced')
    <3>1. CASE scoped
      BY <1>4, <3>1 DEF BeginsAs, MayDelete
    <3>2. CASE ~scoped
      <4>1. PICK m \in Cached : m.id = id
        BY <3>2 DEF IdsOf
      <4>2. \A r \in store : r.id = id => MayAccess(r.owner, caller)
        BY <1>1, <4>1, CopiesAgree
      <4> QED
        BY <1>4, <3>2, <4>2 DEF BeginsAs, MayDelete
    <3> QED
      BY <3>1, <3>2
  <2>2. \A k \in Jobs \ {j} : Inserted(job[k]) /\ job[k].row.id = id => id \in raced'
    BY <1>1 DEF Inserted
  <2>3. d.op = "forget"
    BY <1>4 DEF BeginsAs
  <2> QED
    BY <1>1, <1>5, <2>1, <2>2, <2>3, NothingElse DEF TakesUp
<1>8. \A i \in Ids : Accounted(j, d, i, Range(cache'), loose', raced')
  BY <1>1, IdleOwesNothing, NothingElse DEF Accounted
<1> QED
  BY <1>1, <1>2, <1>6, <1>7, <1>8, NothingElse, JobStep

\* A job that had no call under way, with nothing but its own work changed.
LEMMA QuietStep ==
  ASSUME MemInv, NEW j \in Jobs, NEW d \in Job, AtRest(d),
         job' = [job EXCEPT ![j] = d],
         UNCHANGED <<cache, store, nextId, now, told, loose, raced>>,
         job[j].ids = <<>>, ~Inserted(job[j]), TakesUp(j, d, Cached, raced)
  PROVE  MemInv'
<1>1. UNCHANGED <<cache, told>> /\ UNCHANGED <<store, nextId, now>>
      /\ loose' = loose /\ raced' = raced
  OBVIOUS
<1>2. TakesUp(j, d, Range(cache'), raced')
  BY <1>1, NothingElse
<1>3. \A id \in Ids : ~Pending(job[j], id)
  BY EmptyRange DEF Pending
<1>4. \A id \in Ids : Accounted(j, d, id, Range(cache'), loose', raced')
  BY <1>1, <1>3, NothingElse DEF Accounted
<1>5. d \in Job /\ Formed(d) /\ ~Inserted(d) /\ ~Executed(d)
  BY DEF AtRest
<1>6. loose \subseteq loose' /\ raced \subseteq raced'
  BY <1>1
<1> QED
  BY <1>1, <1>2, <1>4, <1>5, <1>6, NothingElse, JobStep

\* Groups of ids of memories the owner may see are nobody else's business.
LEMMA NextGroupInv ==
  ASSUME MemInv, NEW j \in Jobs, NEW b \in Job, b.op = "consolidate", b.scoped = FALSE,
         job' = [job EXCEPT ![j] = NextGroup(b)],
         UNCHANGED <<cache, store, nextId, now, told, loose, raced>>,
         job[j].ids = <<>>, ~Inserted(job[j]),
         \A g \in Range(b.groups) : \A id \in g :
           /\ id < nextId
           /\ \A k \in Jobs : Inserted(job[k]) => job[k].row.id # id
           /\ \A r \in store : r.id = id => MayAccess(r.owner, b.owner)
  PROVE  MemInv'
<1> DEFINE d == NextGroup(b)
<1>1. /\ AtRest(d) /\ d.ids = <<>> /\ Range(d.groups) \subseteq Range(b.groups)
      /\ d = Idle \/ d.owner = b.owner
  BY NextGroupShape
<1> HIDE DEF d
<1>2. d \in Job /\ Range(d.ids) = {} /\ (d = Idle => Range(d.groups) = {})
  BY <1>1, IdleRests, EmptyRange DEF AtRest
<1>3. TakesUp(j, d, Cached, raced)
  <2>1. \A g \in Range(d.groups) : g \in Range(b.groups) /\ d.owner = b.owner
    BY <1>1, <1>2
  <2> QED
    BY <1>2, <2>1 DEF TakesUp
<1>4. job' = [job EXCEPT ![j] = d]
  BY DEF d
<1> QED
  BY <1>1, <1>2, <1>3, <1>4, QuietStep

LEMMA StartsInv ==
  ASSUME MemInv, NEW j \in Jobs, ConsolidationStarts(j) PROVE MemInv'
<1> DEFINE of(o) == {m.id : m \in {c \in Cached : c.owner = o}}
           groups == IF job[j].owner = Nobody THEN <<of(Nobody)>>
                     ELSE <<of(job[j].owner), of(Nobody)>>
           b == [job[j] EXCEPT !.groups = groups]
<1>1. /\ job' = [job EXCEPT ![j] = NextGroup(b)] /\ job[j].at = "scheduled"
      /\ UNCHANGED <<cache, store, nextId, now, told, loose, raced>>
  BY JobIs DEF ConsolidationStarts, history
<1>2. /\ job[j] \in Job /\ job[j].ids = <<>> /\ job[j].op = "consolidate"
      /\ job[j].scoped = FALSE /\ ~Inserted(job[j])
  BY <1>1, JobIs DEF Formed, Inserted, Job
<1>3. ASSUME NEW o, MayAccess(o, job[j].owner), NEW id \in of(o)
      PROVE  /\ id \in Nat /\ id < nextId
             /\ \A k \in Jobs : Inserted(job[k]) => job[k].row.id # id
             /\ \A r \in store : r.id = id => MayAccess(r.owner, job[j].owner)
  <2>1. PICK m \in Cached : m.id = id /\ m.owner = o
    BY <1>3
  <2>2. m \in Row
    BY JobIs DEF Range
  <2>3. id \in Nat
    BY <2>1, <2>2 DEF Row
  <2> QED
    BY <1>3, <2>1, <2>3, CopiesAgree
<1>4. MayAccess(Nobody, job[j].owner) /\ MayAccess(job[j].owner, job[j].owner)
  BY DEF MayAccess
<1>5. of(Nobody) \in SUBSET Nat /\ of(job[j].owner) \in SUBSET Nat
  BY <1>3, <1>4
<1>6. /\ groups \in Seq(SUBSET Nat)
      /\ \A g \in Range(groups) : g = of(Nobody) \/ g = of(job[j].owner)
  <2> HIDE DEF of
  <2>1. groups \in Seq(SUBSET Nat)
    <3>1. \A x, y \in SUBSET Nat : <<x>> \in Seq(SUBSET Nat) /\ <<x, y>> \in Seq(SUBSET Nat)
      OBVIOUS
    <3>2. <<of(Nobody)>> \in Seq(SUBSET Nat)
          /\ <<of(job[j].owner), of(Nobody)>> \in Seq(SUBSET Nat)
      BY <1>5, <3>1, Zenon
    <3> QED
      BY <3>2
  <2>2. \A i \in DOMAIN groups : groups[i] = of(Nobody) \/ groups[i] = of(job[j].owner)
    OBVIOUS
  <2> QED
    BY <2>1, <2>2 DEF Range
<1>7. \A g \in Range(groups) : \A id \in g :
        /\ id < nextId
        /\ \A k \in Jobs : Inserted(job[k]) => job[k].row.id # id
        /\ \A r \in store : r.id = id => MayAccess(r.owner, job[j].owner)
  <2> HIDE DEF of, groups
  <2> QED
    BY <1>3, <1>4, <1>6
<1> HIDE DEF groups
<1>8. /\ b \in Job /\ b.op = "consolidate" /\ b.scoped = FALSE /\ b.owner = job[j].owner
      /\ b.groups = groups
  <2> DEFINE GroupSeq == Seq(SUBSET Nat)
             IdSeq == Seq(Nat)
  <2>1. Job = [op : Ops, at : Ats, call : Calls, owner : Owners, fact : FactOrNone,
               row : RowOrNone, ids : IdSeq, scoped : BOOLEAN, groups : GroupSeq]
    BY DEF Job
  <2>2. groups \in GroupSeq
    BY <1>6
  <2> HIDE DEF GroupSeq, IdSeq
  <2> QED
    BY <1>2, <2>1, <2>2
<1> HIDE DEF b
<1> QED
  BY <1>1, <1>2, <1>7, <1>8, NextGroupInv

LEMMA TurnEndsInv ==
  ASSUME MemInv, NEW o \in Owners, TurnEnds(o), job' # job PROVE MemInv'
<1> DEFINE d == [Idle EXCEPT !.op = "consolidate", !.at = "scheduled", !.owner = o]
<1>1. PICK j \in Jobs : job[j] = Idle /\ job' = [job EXCEPT ![j] = d]
  BY DEF TurnEnds, Free
<1>2. UNCHANGED <<cache, store, nextId, now, told, loose, raced>>
  BY DEF TurnEnds, history
<1>3. d \in Job /\ d.ids = <<>> /\ d.groups = <<>> /\ d.at = "scheduled"
      /\ d.op = "consolidate" /\ d.scoped = FALSE
  <2> DEFINE GroupSeq == Seq(SUBSET Nat)
             IdSeq == Seq(Nat)
  <2>1. Job = [op : Ops, at : Ats, call : Calls, owner : Owners, fact : FactOrNone,
               row : RowOrNone, ids : IdSeq, scoped : BOOLEAN, groups : GroupSeq]
    BY DEF Job
  <2>2. Idle \in Job /\ "consolidate" \in Ops /\ "scheduled" \in Ats
        /\ Idle.ids = <<>> /\ Idle.groups = <<>> /\ Idle.scoped = FALSE
    BY IdleRests DEF AtRest, Ops, Ats, Idle
  <2> HIDE DEF GroupSeq, IdSeq
  <2> QED
    BY <2>1, <2>2
<1> HIDE DEF d
<1>4. AtRest(d)
  BY <1>3 DEF AtRest, Formed, Inserted, Executed
<1>5. TakesUp(j, d, Cached, raced)
  BY <1>3, EmptyRange DEF TakesUp
<1>6. job[j].ids = <<>> /\ ~Inserted(job[j])
  BY <1>1, IdleRests DEF AtRest
<1> QED
  BY <1>1, <1>2, <1>3, <1>4, <1>5, <1>6, QuietStep

LEMMA ChoosesInv ==
  ASSUME MemInv, NEW j \in Jobs, Chooses(j)
  PROVE  MemInv'
<1>0. PICK named \in SUBSET Ids :
        job' = [job EXCEPT ![j] =
          IF SetToSeq(named \cap Head(job[j].groups)) = <<>>
          THEN NextGroup([job[j] EXCEPT !.groups = Tail(@)])
          ELSE [[job[j] EXCEPT !.groups = Tail(@)]
                  EXCEPT !.at = "delete", !.call = "sent",
                         !.ids = SetToSeq(named \cap Head(job[j].groups))]]
  BY DEF Chooses
<1> DEFINE b == job[j]
           group == Head(b.groups)
           others == Tail(b.groups)
           drops == SetToSeq(named \cap group)
           b1 == [b EXCEPT !.groups = others]
           b2 == [b1 EXCEPT !.at = "delete", !.call = "sent", !.ids = drops]
<1>1. /\ b.at = "choose" /\ UNCHANGED <<cache, store, nextId, now, told, loose, raced>>
      /\ drops = <<>> => job' = [job EXCEPT ![j] = NextGroup(b1)]
      /\ drops # <<>> => job' = [job EXCEPT ![j] = b2]
  <2>1. b.at = "choose" /\ UNCHANGED <<cache, store, nextId, now, told, loose, raced>>
    BY DEF Chooses, history
  <2>2. job' = [job EXCEPT ![j] =
           IF drops = <<>> THEN NextGroup(b1)
           ELSE [b1 EXCEPT !.at = "delete", !.call = "sent", !.ids = drops]]
    BY <1>0
  <2> HIDE DEF drops, b1
  <2> QED
    BY <2>1, <2>2
<1>2. /\ b \in Job /\ b.ids = <<>> /\ b.groups # <<>> /\ b.groups \in Seq(SUBSET Nat)
      /\ b.op = "consolidate" /\ b.scoped = FALSE /\ ~Inserted(b)
  BY <1>1, JobIs DEF Formed, Inserted, Job
<1>3. /\ group \in Range(b.groups) /\ others \in Seq(SUBSET Nat)
      /\ Range(others) \subseteq Range(b.groups)
  <2>1. /\ others \in Seq(SUBSET Nat) /\ DOMAIN others = 1..(Len(b.groups) - 1)
        /\ \A i \in 1..(Len(b.groups) - 1) : others[i] = b.groups[i + 1]
        /\ Len(b.groups) \in Nat /\ DOMAIN b.groups = 1..Len(b.groups)
        /\ group = b.groups[1] /\ Len(b.groups) # 0
    BY <1>2
  <2> HIDE DEF group, others
  <2> DEFINE gs == b.groups
  <2>2. /\ DOMAIN others = 1..(Len(gs) - 1) /\ Len(gs) \in Nat /\ DOMAIN gs = 1..Len(gs)
        /\ \A i \in 1..(Len(gs) - 1) : others[i] = gs[i + 1]
        /\ group = gs[1] /\ Len(gs) # 0
    BY <2>1
  <2> HIDE DEF b, gs
  <2>3. 1 \in DOMAIN gs /\ \A i \in 1..(Len(gs) - 1) : i + 1 \in DOMAIN gs
    BY <2>2
  <2>4. group \in Range(gs)
    BY <2>2, <2>3 DEF Range
  <2>5. Range(others) \subseteq Range(gs)
    <3> SUFFICES ASSUME NEW i \in DOMAIN others PROVE others[i] \in Range(gs)
      BY DEF Range
    <3>1. others[i] = gs[i + 1] /\ i + 1 \in DOMAIN gs
      BY <2>2, <2>3
    <3> QED
      BY <3>1 DEF Range
  <2> QED
    BY <2>1, <2>4, <2>5 DEF gs
<1> HIDE DEF others, group
<1>4. \A g \in Range(b.groups) : \A id \in g :
        /\ id < nextId
        /\ \A k \in Jobs : Inserted(job[k]) => job[k].row.id # id
        /\ \A r \in store : r.id = id => MayAccess(r.owner, b.owner)
  BY DEF MemInv, Born, NewsIsNews, DeletesMay
<1>5. drops \in Seq(Nat) /\ Range(drops) \subseteq group
  <2> DEFINE S == named \cap group
  <2>1. IsFiniteSet(S)
    <3>1. MaxFacts \in Nat
      BY MemoryAssumption
    <3>2. IsFiniteSet(1..MaxFacts)
      BY <3>1, UpTo
    <3>3. S \in SUBSET (1..MaxFacts)
      BY DEF Ids
    <3> QED
      BY <3>2, <3>3, FS_Subset
  <2>2. S \in SUBSET Nat /\ S \subseteq group
    <3>1. MaxFacts \in Nat
      BY MemoryAssumption
    <3>2. \A i \in Ids : i \in Nat
      BY <3>1 DEF Ids
    <3> QED
      BY <3>2
  <2> HIDE DEF S
  <2>3. SetToSeq(S) \in Seq(Nat) /\ Range(SetToSeq(S)) \subseteq S
    BY <2>1, <2>2, SeqOfSet
  <2> QED
    BY <2>2, <2>3 DEF S
<1> HIDE DEF drops
<1>6. CASE drops = <<>>
  <2>1. /\ b1 \in Job /\ b1.op = "consolidate" /\ b1.scoped = FALSE /\ b1.owner = b.owner
        /\ b1.groups = others
    <3> DEFINE GroupSeq == Seq(SUBSET Nat)
               IdSeq == Seq(Nat)
    <3>1. Job = [op : Ops, at : Ats, call : Calls, owner : Owners, fact : FactOrNone,
                 row : RowOrNone, ids : IdSeq, scoped : BOOLEAN, groups : GroupSeq]
      BY DEF Job
    <3>2. others \in GroupSeq
      BY <1>3
    <3> HIDE DEF GroupSeq, IdSeq, b
    <3> QED
      BY <1>2, <3>1, <3>2
  <2> HIDE DEF b1
  <2>2. \A g \in Range(b1.groups) : \A id \in g :
          /\ id < nextId
          /\ \A k \in Jobs : Inserted(job[k]) => job[k].row.id # id
          /\ \A r \in store : r.id = id => MayAccess(r.owner, b1.owner)
    BY <1>3, <1>4, <2>1
  <2>3. job' = [job EXCEPT ![j] = NextGroup(b1)]
    BY <1>1, <1>6
  <2> QED
    BY <1>1, <1>2, <2>1, <2>2, <2>3, NextGroupInv
<1>7. CASE drops # <<>>
  <2>1. WorksOn(b2, b, "delete", "sent", drops, others)
    <3>1. "delete" \in Ats /\ "sent" \in Calls
      BY DEF Ats, Calls
    <3>2. b2 = Work(b, "delete", "sent", drops, others)
      BY DEF Work
    <3> HIDE DEF b, b1, b2
    <3>3. WorksOn(Work(b, "delete", "sent", drops, others), b, "delete", "sent", drops, others)
      BY <1>2, <1>3, <1>5, <3>1, WorkIsDone, Zenon
    <3> QED
      BY <3>2, <3>3
  <2> HIDE DEF b2
  <2>2. b2 \in Job /\ AtRest(b2)
    BY <1>2, <1>7, <2>1 DEF WorksOn, AtRest, Formed, Inserted, Executed
  <2>3. TakesUp(j, b2, Cached, raced)
    <3>1. \A id \in Range(drops) : MayDelete(b2, id, Cached, raced)
      BY <1>2, <1>3, <1>4, <1>5, <2>1 DEF WorksOn, MayDelete
    <3> QED
      BY <1>3, <1>4, <1>5, <2>1, <3>1 DEF WorksOn, TakesUp
  <2>4. job' = [job EXCEPT ![j] = b2]
    BY <1>1, <1>7
  <2> QED
    BY <1>1, <1>2, <2>2, <2>3, <2>4, QuietStep
<1> QED
  BY <1>6, <1>7

----------------------------------------------------------------------------
(* What the table does.                                                     *)

Answered(b, row) == [b EXCEPT !.row = row, !.call = "done"]

AnswersAs(d, b, row) ==
  /\ d \in Job /\ d.row = row /\ d.call = "done" /\ d.at = b.at /\ d.op = b.op
  /\ d.owner = b.owner /\ d.fact = b.fact /\ d.ids = b.ids /\ d.scoped = b.scoped
  /\ d.groups = b.groups

LEMMA AnsweredIs ==
  \A b \in Job, row \in RowOrNone : AnswersAs(Answered(b, row), b, row)
<1> SUFFICES ASSUME NEW b \in Job, NEW row \in RowOrNone
             PROVE  AnswersAs(Answered(b, row), b, row)
  OBVIOUS
<1> DEFINE IdSeq == Seq(Nat)
           GroupSeq == Seq(SUBSET Nat)
<1>1. Job = [op : Ops, at : Ats, call : Calls, owner : Owners, fact : FactOrNone,
             row : RowOrNone, ids : IdSeq, scoped : BOOLEAN, groups : GroupSeq]
  BY DEF Job
<1>2. "done" \in Calls
  BY DEF Calls
<1> HIDE DEF IdSeq, GroupSeq
<1> QED
  BY <1>1, <1>2 DEF AnswersAs, Answered

\* A job whose task was cancelled: its thread goes on with the same call.
Outlived(b) == [b EXCEPT !.call = "late"]

LEMMA OutlivedIs ==
  \A b \in Job :
    /\ Outlived(b) \in Job /\ Outlived(b).call = "late"
    /\ Outlived(b).at = b.at /\ Outlived(b).op = b.op /\ Outlived(b).owner = b.owner
    /\ Outlived(b).fact = b.fact /\ Outlived(b).row = b.row /\ Outlived(b).ids = b.ids
    /\ Outlived(b).scoped = b.scoped /\ Outlived(b).groups = b.groups
<1> DEFINE IdSeq == Seq(Nat)
           GroupSeq == Seq(SUBSET Nat)
<1>1. Job = [op : Ops, at : Ats, call : Calls, owner : Owners, fact : FactOrNone,
             row : RowOrNone, ids : IdSeq, scoped : BOOLEAN, groups : GroupSeq]
  BY DEF Job
<1>2. "late" \in Calls
  BY DEF Calls
<1> HIDE DEF IdSeq, GroupSeq
<1> QED
  BY <1>1, <1>2 DEF Outlived

LEMMA RowIsNoTuple == \A r \in Row : r # <<>>
<1> SUFFICES ASSUME NEW r \in Row PROVE r # <<>>
  OBVIOUS
<1>1. DOMAIN r = {"id", "fact", "owner", "lastUsed"}
  BY DEF Row
<1>2. DOMAIN <<>> = {}
  OBVIOUS
<1> QED
  BY <1>1, <1>2

\* What a cancelled call leaves unsettled is what it had in hand.
LEMMA HoldsPending ==
  ASSUME MemInv, NEW j \in Jobs, NEW id, Pending(job[j], id) PROVE id \in Holds(job[j])
<1> DEFINE b == job[j]
<1>1. CASE id \in Range(b.ids)
  BY <1>1 DEF Holds
<1>2. CASE Inserted(b) /\ b.row.id = id
  <2>1. b.row \in Row
    BY <1>2, JobIs DEF Formed
  <2>2. b.row # <<>>
    BY <2>1, RowIsNoTuple
  <2> QED
    BY <1>2, <2>2 DEF Holds
<1> QED
  BY <1>1, <1>2 DEF Pending

LEMMA CancelledInv ==
  ASSUME MemInv, NEW j \in Jobs, Cancelled(j) PROVE MemInv'
<1> DEFINE b == job[j]
<1>1. b \in Job /\ Formed(b)
  BY JobIs
<1>2. /\ UNCHANGED <<store, nextId, now, cache, told>> /\ loose' = loose
      /\ job' = [job EXCEPT ![j] = Idle] \/ job' = [job EXCEPT ![j].call = "late"]
  BY DEF Cancelled
<1>3. CASE job' = [job EXCEPT ![j] = Idle] /\ raced' = raced \cup Holds(b)
  <2>1. TakesUp(j, Idle, Range(cache'), raced')
    BY IdleRests, EmptyRange DEF TakesUp
  <2>2. ASSUME NEW id \in Ids PROVE Accounted(j, Idle, id, Range(cache'), loose', raced')
    BY <1>2, <1>3, HoldsPending, NothingElse DEF Accounted
  <2>3. loose \subseteq loose' /\ raced \subseteq raced'
    BY <1>2, <1>3
  <2>4. Idle \in Job /\ Formed(Idle) /\ ~Inserted(Idle) /\ ~Executed(Idle)
    BY IdleRests DEF AtRest
  <2> QED
    BY <1>2, <1>3, <2>1, <2>2, <2>3, <2>4, NothingElse, JobStep
<1>4. CASE job' = [job EXCEPT ![j].call = "late"] /\ b.call = "sent" /\ raced' = raced
  <2> DEFINE d == Outlived(b)
  <2>1. /\ d \in Job /\ d.call = "late" /\ d.at = b.at /\ d.op = b.op /\ d.owner = b.owner
        /\ d.fact = b.fact /\ d.row = b.row /\ d.ids = b.ids /\ d.scoped = b.scoped
        /\ d.groups = b.groups
    BY <1>1, OutlivedIs
  <2>2. job' = [job EXCEPT ![j] = d]
    BY <1>4 DEF Outlived
  <2> HIDE DEF d
  <2>3. Formed(d) /\ ~Inserted(d) /\ ~Executed(d) /\ ~Inserted(b)
    BY <1>1, <1>4, <2>1 DEF Formed, Inserted, Executed
  <2>4. TakesUp(j, d, Range(cache'), raced')
    <3>1. /\ \A id \in Range(b.ids) : id < nextId /\ MayDelete(b, id, Cached, raced)
          /\ \A k \in Jobs, id \in Range(b.ids) :
               Inserted(job[k]) /\ job[k].row.id = id => b.op = "forget" /\ id \in raced
          /\ \A g \in Range(b.groups) : \A id \in g :
               /\ id < nextId
               /\ \A k \in Jobs : Inserted(job[k]) => job[k].row.id # id
               /\ \A r \in store : r.id = id => MayAccess(r.owner, b.owner)
      BY DEF MemInv, Born, DeletesMay, NewsIsNews
    <3>2. Range(cache') = Cached
      BY <1>2, NothingElse
    <3> HIDE DEF b
    <3>3. \A id \in Range(d.ids) : MayDelete(d, id, Cached, raced)
      BY <2>1, <3>1 DEF MayDelete
    <3> QED
      BY <1>4, <2>1, <3>1, <3>2, <3>3 DEF TakesUp
  <2>5. ASSUME NEW id \in Ids PROVE Accounted(j, d, id, Range(cache'), loose', raced')
    <3>1. Pending(b, id) => Pending(d, id)
      BY <2>1, <2>3 DEF Pending
    <3> QED
      BY <1>2, <1>4, <3>1, NothingElse DEF Accounted
  <2>6. loose \subseteq loose' /\ raced \subseteq raced'
    BY <1>2, <1>4
  <2> QED
    BY <1>2, <2>1, <2>2, <2>3, <2>4, <2>5, <2>6, NothingElse, JobStep
<1> QED
  BY <1>3, <1>4 DEF Cancelled

LEMMA HeadOfIds ==
  ASSUME MemInv, NEW k \in Jobs, Executed(job[k])
  PROVE  Head(job[k].ids) \in Range(job[k].ids)
<1>1. job[k].ids \in Seq(Nat) /\ job[k].ids # <<>>
  BY JobIs DEF Job, Formed, Executed
<1> QED
  BY <1>1 DEF Range

\* The row a job asks the table to take.
RowOf(b) == [id |-> nextId, fact |-> b.fact, owner |-> b.owner, lastUsed |-> now + 1]

\* A row comes to the table; d is what becomes of the job that asked for it.
LEMMA RowComes ==
  ASSUME MemInv, NEW j \in Jobs, job[j].at = "insert", ~Inserted(job[j]),
         NEW d \in Job, Formed(d), ~Executed(d), d.ids = <<>>, d.groups = <<>>,
         Inserted(d) => d.row = RowOf(job[j]), Inserted(d) \/ nextId \in raced',
         job' = [job EXCEPT ![j] = d], store' = store \cup {RowOf(job[j])},
         nextId' = nextId + 1, now' = now + 1, UNCHANGED <<cache, told, loose>>,
         raced \subseteq raced'
  PROVE  MemInv'
<1> DEFINE b == job[j]
           row == RowOf(b)
<1>1. /\ MemTypeOK /\ JobsFormed /\ Born /\ OneOfEach /\ NewsIsNews /\ DeletesMay /\ Settling
      /\ ToldGoneIsGone /\ nextId \in Nat /\ now \in Nat /\ store \in SUBSET Row
      /\ job \in [Jobs -> Job] /\ Cached = Range(cache)
  BY DEF MemInv, MemTypeOK, Cached
<1>2. /\ b \in Job /\ Formed(b) /\ b.at = "insert" /\ ~Inserted(b)
      /\ b.ids = <<>> /\ b.groups = <<>> /\ Range(<<>>) = {}
  BY JobIs, EmptyRange DEF Formed
<1>3. /\ UNCHANGED <<cache, told, loose>> /\ store' = store \cup {row}
      /\ nextId' = nextId + 1 /\ now' = now + 1
  OBVIOUS
<1>5. row \in Row /\ row.id = nextId /\ row.fact = b.fact /\ row.owner = b.owner
  <2>1. b.fact \in Facts /\ b.owner \in Owners
    BY <1>2 DEF Formed, Job
  <2> HIDE DEF b
  <2>2. RowOf(b) = [id |-> nextId, fact |-> b.fact, owner |-> b.owner, lastUsed |-> now + 1]
    BY DEF RowOf
  <2> QED
    BY <1>1, <2>1, <2>2 DEF Row
<1> HIDE DEF row
<1>7. /\ d \in Job /\ Formed(d) /\ ~Executed(d) /\ (Inserted(d) => d.row = row)
      /\ d.ids = b.ids /\ d.groups = b.groups /\ ~Inserted(b)
  BY <1>2 DEF row
<1>8. job' \in [Jobs -> Job] /\ job'[j] = d /\ \A k \in Jobs \ {j} : job'[k] = job[k]
  BY <1>1, <1>7
<1>9. \A k \in Jobs : /\ job'[k].ids = job[k].ids /\ job'[k].groups = job[k].groups
                      /\ Executed(job'[k]) => job'[k] = job[k]
                      /\ Inserted(job[k]) => job'[k] = job[k]
                      /\ Inserted(job'[k]) => k = j \/ job'[k] = job[k]
                      /\ job[k].ids # <<>> \/ job[k].groups # <<>> => job'[k] = job[k]
  BY <1>2, <1>7, <1>8
<1>10. MemTypeOK'
  BY <1>1, <1>3, <1>5, <1>8 DEF MemTypeOK
<1>11. JobsFormed'
  BY <1>1, <1>7, <1>8 DEF JobsFormed
<1>12. /\ Cached' = Cached
       /\ \A m \in Cached \cup store : m.id \in Nat /\ m.id < nextId
       /\ \A m \in Cached \cup store : m.id # nextId
  <2>1. \A m \in Cached \cup store : m \in Row
    BY <1>1 DEF MemTypeOK, Range
  <2>2. \A m \in Cached \cup store : m.id \in Nat /\ m.id < nextId
    BY <1>1, <2>1 DEF Born, Row
  <2> QED
    BY <1>1, <1>3, <2>2 DEF Cached
<1>13. \A k \in Jobs :
         /\ \A id \in Range(job[k].ids) : id \in Nat /\ id < nextId
         /\ \A g \in Range(job[k].groups) : \A id \in g : id \in Nat /\ id < nextId
         /\ Inserted(job[k]) => job[k].row.id \in Nat /\ job[k].row.id < nextId
  <2>1. ASSUME NEW k \in Jobs
        PROVE  /\ job[k].ids \in Seq(Nat) /\ job[k].groups \in Seq(SUBSET Nat)
               /\ Inserted(job[k]) => job[k].row \in Row
    <3>1. job[k] \in Job /\ Formed(job[k])
      BY JobIs
    <3> QED
      BY <3>1 DEF Job, Formed
  <2>2. \A k \in Jobs :
         /\ \A id \in Range(job[k].ids) : id \in Nat
         /\ \A g \in Range(job[k].groups) : \A id \in g : id \in Nat
         /\ Inserted(job[k]) => job[k].row.id \in Nat
    BY <2>1 DEF Range, Row
  <2> QED
    BY <1>1, <2>2 DEF Born
<1>14. Born'
  <2>1. \A id \in Nat : id < nextId => id < nextId'
    BY <1>1, <1>3
  <2>2. row.id < nextId'
    BY <1>1, <1>3, <1>5
  <2>3. \A m \in Cached \cup store' : m.id < nextId'
    BY <1>3, <1>12, <2>1, <2>2
  <2>4. told' \subseteq Nat /\ \A id \in told' : id < nextId'
    BY <1>1, <1>3, <2>1 DEF Born
  <2>5. ASSUME NEW k \in Jobs, Inserted(job'[k]) PROVE job'[k].row.id < nextId'
    BY <1>7, <1>8, <1>9, <1>13, <2>1, <2>2, <2>5
  <2>6. \A k \in Jobs : /\ \A id \in Range(job'[k].ids) : id < nextId'
                        /\ \A g \in Range(job'[k].groups) : \A id \in g : id < nextId'
    BY <1>9, <1>13, <2>1
  <2> QED
    BY <1>12, <2>3, <2>4, <2>5, <2>6 DEF Born
<1>15. OneOfEach'
  <2>1. \A r, s \in store' : r.id = s.id => r = s
    BY <1>1, <1>3, <1>5, <1>12 DEF OneOfEach
  <2>2. \A m \in Cached', r \in store' : m.id = r.id => m.fact = r.fact /\ m.owner = r.owner
    BY <1>1, <1>3, <1>5, <1>12 DEF OneOfEach
  <2>3. ASSUME NEW k \in Jobs, NEW r \in store', Inserted(job'[k]), job'[k].row.id = r.id
        PROVE  job'[k].row.fact = r.fact /\ job'[k].row.owner = r.owner
    <3>1. CASE k = j
      <4>1. r = row
        BY <1>3, <1>5, <1>7, <1>8, <1>12, <2>3, <3>1
      <4> QED
        BY <1>7, <1>8, <2>3, <3>1, <4>1
    <3>2. CASE k # j
      <4>1. job'[k] = job[k] /\ job[k].row.id # nextId
        BY <1>8, <1>13, <1>1, <2>3, <3>2
      <4>2. r \in store
        BY <1>3, <1>5, <2>3, <4>1
      <4> QED
        BY <1>1, <2>3, <4>1, <4>2 DEF OneOfEach
    <3> QED
      BY <3>1, <3>2
  <2>4. Once(cache)'
    BY <1>1, <1>3 DEF OneOfEach, Once
  <2> QED
    BY <2>1, <2>2, <2>3, <2>4 DEF OneOfEach
<1>16. NewsIsNews'
  <2>1. ASSUME NEW k \in Jobs, Inserted(job'[k])
        PROVE  LET id == job'[k].row.id IN
               /\ id \notin IdsOf(Cached') /\ id \in IdsOf(store') \cup raced'
               /\ \A l \in Jobs :
                    /\ id \in Range(job'[l].ids) => job'[l].op = "forget" /\ id \in raced'
                    /\ \A g \in Range(job'[l].groups) : id \notin g
                    /\ l # k /\ Inserted(job'[l]) => job'[l].row.id # id
    <3>1. CASE k = j
      <4>1. job'[k].row.id = nextId /\ nextId \in IdsOf(store')
        BY <1>3, <1>5, <1>7, <1>8, <2>1, <3>1 DEF IdsOf
      <4>2. nextId \notin IdsOf(Cached')
        BY <1>12 DEF IdsOf
      <4>3. \A l \in Jobs : /\ nextId \notin Range(job'[l].ids)
                            /\ \A g \in Range(job'[l].groups) : nextId \notin g
                            /\ l # k /\ Inserted(job'[l]) => job'[l].row.id # nextId
        BY <1>1, <1>8, <1>9, <1>13, <3>1
      <4> QED
        BY <4>1, <4>2, <4>3
    <3>2. CASE k # j
      <4> DEFINE id == job[k].row.id
      <4>1. job'[k] = job[k] /\ Inserted(job[k]) /\ id # nextId
        BY <1>1, <1>8, <1>13, <2>1, <3>2
      <4>2. /\ id \notin IdsOf(Cached) /\ id \in IdsOf(store) \cup raced
            /\ \A l \in Jobs :
                 /\ id \in Range(job[l].ids) => job[l].op = "forget" /\ id \in raced
                 /\ \A g \in Range(job[l].groups) : id \notin g
                 /\ l # k /\ Inserted(job[l]) => job[l].row.id # id
        BY <1>1, <4>1 DEF NewsIsNews
      <4>3. id \in IdsOf(store') \cup raced'
        BY <1>3, <4>2 DEF IdsOf
      <4>4. \A l \in Jobs : l # k /\ Inserted(job'[l]) => job'[l].row.id # id
        BY <1>5, <1>7, <1>8, <4>1, <4>2
      <4>5. \A l \in Jobs : id \in Range(job'[l].ids) => job'[l].op = "forget" /\ id \in raced'
        BY <1>2, <1>9, <4>2
      <4> QED
        BY <1>3, <1>9, <1>12, <4>1, <4>2, <4>3, <4>4, <4>5
    <3> QED
      BY <3>1, <3>2
  <2> QED
    BY <2>1 DEF NewsIsNews
<1>17. ASSUME NEW k \in Jobs, NEW id, id < nextId, NEW r \in store', r.id = id, id \in Nat
       PROVE  r \in store
  BY <1>1, <1>3, <1>5, <1>17
<1>18. DeletesMay'
  <2>1. ASSUME NEW k \in Jobs, Executed(job'[k]), NEW r \in store', r.id = Head(job'[k].ids)
        PROVE  job'[k].scoped /\ ~MayAccess(r.owner, job'[k].owner)
    <3>1. job'[k] = job[k] /\ Head(job[k].ids) \in Range(job[k].ids)
      BY <1>9, <2>1, HeadOfIds
    <3>2. r \in store
      BY <1>13, <1>17, <2>1, <3>1
    <3> QED
      BY <1>1, <2>1, <3>1, <3>2 DEF DeletesMay
  <2>2. ASSUME NEW k \in Jobs, NEW id \in Range(job[k].ids)
        PROVE  MayDelete(job[k], id, Cached, raced)'
    <3>1. MayDelete(job[k], id, Cached, raced)
      BY <1>1 DEF DeletesMay
    <3>2. \A r \in store' : r.id = id => r \in store
      BY <1>13, <1>17
    <3>3. job'[k] = job[k]
      BY <1>2, <1>9
    <3> QED
      BY <1>3, <1>12, <3>1, <3>2, <3>3 DEF MayDelete
  <2>3. ASSUME NEW k \in Jobs, NEW g \in Range(job[k].groups), NEW id \in g,
               NEW r \in store', r.id = id
        PROVE  MayAccess(r.owner, job'[k].owner)
    <3>1. r \in store
      BY <1>13, <1>17, <2>3
    <3>2. job'[k] = job[k]
      BY <1>2, <1>9
    <3> QED
      BY <1>1, <2>3, <3>1, <3>2 DEF DeletesMay
  <2> QED
    BY <1>9, <2>1, <2>2, <2>3 DEF DeletesMay
<1>19. Settling'
  <2>1. ASSUME NEW id \in Ids PROVE Mirrored(id)'
    <3>1. CASE id = nextId
      <4>1. Pending(job[j], id)' \/ id \in raced'
        BY <1>5, <1>7, <1>8, <3>1 DEF Pending
      <4> QED
        BY <4>1 DEF Mirrored
    <3>2. CASE id # nextId
      <4>1. \A r \in store' : r.id = id => r \in store
        BY <1>3, <1>5, <3>2
      <4>2. id \in IdsOf(store') <=> id \in IdsOf(store)
        BY <1>3, <4>1 DEF IdsOf
      <4>3. ASSUME NEW k \in Jobs, Pending(job[k], id) PROVE Pending(job[k], id)'
        <5>1. job'[k] = job[k]
          BY <1>2, <1>9, <4>3 DEF Pending
        <5> QED
          BY <4>1, <4>3, <5>1 DEF Pending
      <4>4. Mirrored(id)
        BY <1>1 DEF Settling
      <4> QED
        BY <1>3, <1>12, <4>2, <4>3, <4>4 DEF Mirrored
    <3> QED
      BY <3>1, <3>2
  <2> QED
    BY <2>1 DEF Settling
<1>20. ToldGoneIsGone'
  <2>1. \A id \in told : id \in Nat /\ id < nextId
    BY <1>1 DEF Born
  <2>2. nextId \notin told
    BY <1>1, <2>1
  <2> QED
    BY <1>1, <1>3, <1>5, <2>2 DEF ToldGoneIsGone, IdsOf
<1> QED
  BY <1>10, <1>11, <1>14, <1>15, <1>16, <1>18, <1>19, <1>20 DEF MemInv

LEMMA StoreInsertsInv ==
  ASSUME MemInv, NEW j \in Jobs, StoreInserts(j) PROVE MemInv'
<1> DEFINE b == job[j]
           row == RowOf(b)
           d == Answered(b, row)
<1>1. b \in Job /\ Formed(b) /\ b.at = "insert" /\ b.call = "sent" /\ ~Inserted(b)
  BY JobIs DEF StoreInserts, Inserted
<1>2. /\ UNCHANGED <<cache, told, loose, raced>> /\ store' = store \cup {row}
      /\ nextId' = nextId + 1 /\ now' = now + 1
  BY DEF StoreInserts, history, RowOf
<1>3. job' = [job EXCEPT ![j] = d]
  BY JobIs DEF StoreInserts, Answered, RowOf, MemInv, MemTypeOK
<1>4. row \in Row
  <2>1. b.fact \in Facts /\ b.owner \in Owners /\ now + 1 \in Nat /\ nextId \in Nat
    BY <1>1 DEF Formed, Job, MemInv, MemTypeOK
  <2> HIDE DEF b
  <2> QED
    BY <2>1 DEF Row, RowOf
<1> HIDE DEF row
<1>5. AnswersAs(d, b, row)
  BY <1>1, <1>4, AnsweredIs DEF RowOrNone
<1> HIDE DEF d
<1>6. /\ d \in Job /\ Formed(d) /\ Inserted(d) /\ ~Executed(d) /\ d.row = row
      /\ d.ids = <<>> /\ d.groups = <<>>
  BY <1>1, <1>4, <1>5 DEF AnswersAs, Formed, Inserted, Executed
<1> QED
  BY <1>1, <1>2, <1>3, <1>6, RowComes DEF row

LEMMA InsertsLateInv ==
  ASSUME MemInv, NEW j \in Jobs, InsertsLate(j) PROVE MemInv'
<1>1. job[j].at = "insert" /\ ~Inserted(job[j])
  BY DEF InsertsLate, Inserted
<1>2. /\ UNCHANGED <<cache, told, loose>> /\ store' = store \cup {RowOf(job[j])}
      /\ nextId' = nextId + 1 /\ now' = now + 1 /\ job' = [job EXCEPT ![j] = Idle]
      /\ raced \subseteq raced' /\ nextId \in raced'
  BY DEF InsertsLate, RowOf
<1>3. /\ Idle \in Job /\ Formed(Idle) /\ ~Inserted(Idle) /\ ~Executed(Idle)
      /\ Idle.ids = <<>> /\ Idle.groups = <<>>
  BY IdleRests DEF AtRest
<1> QED
  BY <1>1, <1>2, <1>3, RowComes

\* The row a delete is for goes; d is what becomes of the job that asked: its
\* work is as it was, or it is over and what it had in hand is marked.
GoesOnAs(d, b) ==
  /\ d.ids = b.ids /\ d.groups = b.groups /\ d.op = b.op /\ d.at = b.at
  /\ d.scoped = b.scoped /\ d.owner = b.owner

LEMMA RowGoes ==
  ASSUME MemInv, NEW j \in Jobs, Deleting(j), ~Executed(job[j]),
         NEW d \in Job, Formed(d), ~Inserted(d),
         \/ GoesOnAs(d, job[j])
         \/ d.ids = <<>> /\ d.groups = <<>> /\ Range(job[j].ids) \subseteq raced',
         job' = [job EXCEPT ![j] = d], store' = {r \in store : ~Reaches(j, r)},
         UNCHANGED <<cache, told, loose, nextId, now>>, raced \subseteq raced'
  PROVE  MemInv'
<1> DEFINE b == job[j]
           gone == Head(b.ids)
<1>1. /\ MemTypeOK /\ JobsFormed /\ Born /\ OneOfEach /\ NewsIsNews /\ DeletesMay /\ Settling
      /\ ToldGoneIsGone /\ store \in SUBSET Row /\ job \in [Jobs -> Job] /\ Cached = Range(cache)
  BY DEF MemInv, MemTypeOK, Cached
<1>2. b \in Job /\ Formed(b) /\ b.at \in {"supersede", "evict", "delete"} /\ ~Inserted(b)
  BY JobIs DEF Deleting, Inserted
<1>3. /\ UNCHANGED <<cache, told, loose, nextId, now>> /\ raced \subseteq raced'
      /\ store' = {r \in store : ~(r.id = gone /\ (b.scoped => MayAccess(r.owner, b.owner)))}
  BY DEF Reaches
<1>4. Range(<<>>) = {}
  BY EmptyRange
<1>7. /\ d \in Job /\ Formed(d) /\ ~Inserted(d) /\ (Executed(d) => GoesOnAs(d, b))
      /\ \/ GoesOnAs(d, b)
         \/ d.ids = <<>> /\ d.groups = <<>> /\ Range(b.ids) \subseteq raced'
  BY DEF Formed, Executed
<1>8. job' \in [Jobs -> Job] /\ job'[j] = d /\ \A k \in Jobs \ {j} : job'[k] = job[k]
  BY <1>1, <1>7
<1>9. \A k \in Jobs : /\ Executed(job'[k]) => k = j \/ job'[k] = job[k]
                      /\ Inserted(job[k]) => job'[k] = job[k]
                      /\ Inserted(job'[k]) => job'[k] = job[k]
                      /\ job'[k].ids # <<>> \/ job'[k].groups # <<>> => GoesOnAs(job'[k], job[k])
                      /\ Range(job'[k].ids) \subseteq Range(job[k].ids)
                      /\ Range(job'[k].groups) \subseteq Range(job[k].groups)
  BY <1>2, <1>4, <1>7, <1>8 DEF GoesOnAs
<1>10. store' \subseteq store /\ Cached' = Cached
  BY <1>3 DEF Cached
<1>11. MemTypeOK'
  BY <1>1, <1>3, <1>8, <1>10 DEF MemTypeOK
<1>12. JobsFormed'
  BY <1>1, <1>7, <1>8 DEF JobsFormed
<1>13. Born'
  BY <1>1, <1>3, <1>9, <1>10 DEF Born
<1>14. OneOfEach'
  <2>1. Once(cache)'
    BY <1>1, <1>3 DEF OneOfEach, Once
  <2>2. ASSUME NEW k \in Jobs, NEW r \in store', Inserted(job'[k]), job'[k].row.id = r.id
        PROVE  job'[k].row.fact = r.fact /\ job'[k].row.owner = r.owner
    BY <1>1, <1>9, <1>10, <2>2 DEF OneOfEach
  <2> QED
    BY <1>1, <1>10, <2>1, <2>2 DEF OneOfEach
<1>15. gone \in Range(b.ids)
  <2>1. b.ids \in Seq(Nat) /\ b.ids # <<>>
    BY <1>2 DEF Job, Formed
  <2> QED
    BY <2>1 DEF Range
<1>16. NewsIsNews'
  <2>1. ASSUME NEW k \in Jobs, Inserted(job'[k])
        PROVE  LET id == job'[k].row.id IN
               /\ id \notin IdsOf(Cached') /\ id \in IdsOf(store') \cup raced'
               /\ \A l \in Jobs :
                    /\ id \in Range(job'[l].ids) => job'[l].op = "forget" /\ id \in raced'
                    /\ \A g \in Range(job'[l].groups) : id \notin g
                    /\ l # k /\ Inserted(job'[l]) => job'[l].row.id # id
    <3> DEFINE id == job[k].row.id
    <3>1. job'[k] = job[k] /\ Inserted(job[k])
      BY <1>9, <2>1
    <3>2. /\ id \notin IdsOf(Cached) /\ id \in IdsOf(store) \cup raced
          /\ \A l \in Jobs :
               /\ id \in Range(job[l].ids) => job[l].op = "forget" /\ id \in raced
               /\ \A g \in Range(job[l].groups) : id \notin g
               /\ l # k /\ Inserted(job[l]) => job[l].row.id # id
      BY <1>1, <3>1 DEF NewsIsNews
    <3>3. id \in IdsOf(store') \cup raced'
      <4>1. CASE id = gone
        BY <1>3, <1>15, <3>2, <4>1
      <4>2. CASE id # gone
        BY <1>3, <3>2, <4>2 DEF IdsOf
      <4> QED
        BY <4>1, <4>2
    <3>4. \A l \in Jobs : l # k /\ Inserted(job'[l]) => job'[l].row.id # id
      BY <1>9, <3>2
    <3>5. \A l \in Jobs : id \in Range(job'[l].ids) => job'[l].op = "forget" /\ id \in raced'
      BY <1>3, <1>4, <1>9, <3>2 DEF GoesOnAs
    <3> QED
      BY <1>3, <1>9, <1>10, <3>1, <3>2, <3>3, <3>4, <3>5
  <2> QED
    BY <2>1 DEF NewsIsNews
<1>17. DeletesMay'
  <2>1. ASSUME NEW k \in Jobs, Executed(job'[k]), NEW r \in store', r.id = Head(job'[k].ids)
        PROVE  job'[k].scoped /\ ~MayAccess(r.owner, job'[k].owner)
    <3>1. CASE k = j
      <4>1. GoesOnAs(d, b)
        BY <1>7, <1>8, <2>1, <3>1
      <4>2. r.id = gone
        BY <1>8, <2>1, <3>1, <4>1 DEF GoesOnAs
      <4> QED
        BY <1>3, <1>8, <3>1, <4>1, <4>2 DEF GoesOnAs
    <3>2. CASE k # j
      BY <1>1, <1>8, <1>10, <2>1, <3>2 DEF DeletesMay
    <3> QED
      BY <3>1, <3>2
  <2>2. ASSUME NEW k \in Jobs, NEW id \in Range(job'[k].ids)
        PROVE  MayDelete(job[k], id, Cached, raced)'
    <3>1. id \in Range(job[k].ids) /\ GoesOnAs(job'[k], job[k])
      BY <1>4, <1>9
    <3>2. MayDelete(job[k], id, Cached, raced)
      BY <1>1, <3>1 DEF DeletesMay
    <3> QED
      BY <1>3, <1>10, <3>1, <3>2 DEF MayDelete, GoesOnAs
  <2>3. ASSUME NEW k \in Jobs, NEW g \in Range(job'[k].groups), NEW id \in g,
               NEW r \in store', r.id = id
        PROVE  MayAccess(r.owner, job'[k].owner)
    <3>1. g \in Range(job[k].groups) /\ GoesOnAs(job'[k], job[k])
      BY <1>4, <1>9
    <3> QED
      BY <1>1, <1>10, <2>3, <3>1 DEF DeletesMay, GoesOnAs
  <2> QED
    BY <2>1, <2>2, <2>3 DEF DeletesMay
<1>18. Settling'
  <2>1. ASSUME NEW id \in Ids PROVE Mirrored(id)'
    <3>1. ASSUME NEW k \in Jobs, Pending(job[k], id)
          PROVE  Pending(job[k], id)' \/ id \in raced'
      <4>1. CASE k = j
        BY <1>2, <1>7, <1>8, <1>10, <3>1, <4>1 DEF Pending, GoesOnAs
      <4>2. CASE k # j
        BY <1>8, <1>10, <3>1, <4>2 DEF Pending
      <4> QED
        BY <4>1, <4>2
    <3>2. Mirrored(id)
      BY <1>1 DEF Settling
    <3>3. CASE id \in IdsOf(store) /\ id \notin IdsOf(store')
      <4>1. PICK r \in store : r.id = id
        BY <3>3 DEF IdsOf
      <4>2. id = gone /\ (b.scoped => MayAccess(r.owner, b.owner))
        BY <1>3, <3>3, <4>1 DEF IdsOf
      <4>3. \A s \in store' : s.id # id
        BY <3>3 DEF IdsOf
      <4>4. Pending(job[j], id)' \/ id \in raced'
        BY <1>7, <1>8, <1>15, <4>2, <4>3 DEF Pending, GoesOnAs
      <4> QED
        BY <4>4 DEF Mirrored
    <3>4. CASE ~(id \in IdsOf(store) /\ id \notin IdsOf(store'))
      <4>1. id \in IdsOf(store') <=> id \in IdsOf(store)
        BY <1>10, <3>4 DEF IdsOf
      <4> QED
        BY <1>3, <1>10, <3>1, <3>2, <4>1 DEF Mirrored
    <3> QED
      BY <3>3, <3>4
  <2> QED
    BY <2>1 DEF Settling
<1>19. ToldGoneIsGone'
  BY <1>1, <1>3, <1>10 DEF ToldGoneIsGone, IdsOf
<1> QED
  BY <1>11, <1>12, <1>13, <1>14, <1>16, <1>17, <1>18, <1>19 DEF MemInv

LEMMA StoreDeletesInv ==
  ASSUME MemInv, NEW j \in Jobs, StoreDeletes(j) PROVE MemInv'
<1> DEFINE b == job[j]
           d == Answered(b, b.row)
<1>1. b \in Job /\ Formed(b) /\ Deleting(j) /\ ~Executed(b) /\ b.row \in RowOrNone
  BY JobIs DEF StoreDeletes, Executed, Job
<1>2. /\ UNCHANGED <<cache, told, loose, raced, nextId, now>>
      /\ store' = {r \in store : ~Reaches(j, r)}
  BY DEF StoreDeletes, history
<1>3. job' = [job EXCEPT ![j] = d]
  <2>1. b = [b EXCEPT !.row = b.row]
    BY <1>1 DEF Job
  <2> QED
    BY <2>1 DEF StoreDeletes, Answered, MemInv, MemTypeOK
<1>4. AnswersAs(d, b, b.row)
  BY <1>1, AnsweredIs
<1> HIDE DEF d
<1>5. d \in Job /\ Formed(d) /\ ~Inserted(d) /\ GoesOnAs(d, b)
  BY <1>1, <1>4 DEF AnswersAs, GoesOnAs, Formed, Inserted, Deleting
<1> QED
  BY <1>1, <1>2, <1>3, <1>5, RowGoes

LEMMA DeletesLateInv ==
  ASSUME MemInv, NEW j \in Jobs, DeletesLate(j) PROVE MemInv'
<1>1. Deleting(j) /\ ~Executed(job[j])
  BY DEF DeletesLate, Executed
<1>2. /\ UNCHANGED <<cache, told, loose, nextId, now>> /\ job' = [job EXCEPT ![j] = Idle]
      /\ store' = {r \in store : ~Reaches(j, r)}
      /\ raced \subseteq raced' /\ Range(job[j].ids) \subseteq raced'
  BY DEF DeletesLate, Holds
<1>3. Idle \in Job /\ Formed(Idle) /\ ~Inserted(Idle) /\ Idle.ids = <<>> /\ Idle.groups = <<>>
  BY IdleRests DEF AtRest
<1> QED
  BY <1>1, <1>2, <1>3, RowGoes

Refreshed(r, hits) == IF r.id \in hits THEN [r EXCEPT !.lastUsed = now + 1] ELSE r

LEMMA TouchedInv ==
  ASSUME MemInv, NEW hits, Touched(hits) PROVE MemInv'
<1>1. /\ MemTypeOK /\ JobsFormed /\ Born /\ OneOfEach /\ NewsIsNews /\ DeletesMay /\ Settling
      /\ ToldGoneIsGone /\ store \in SUBSET Row /\ now \in Nat
  BY DEF MemInv, MemTypeOK
<1>2. /\ UNCHANGED <<cache, told, loose, raced, nextId, job>> /\ now' = now + 1
      /\ store' = {Refreshed(r, hits) : r \in store}
  BY DEF Touched, history, Refreshed
<1>3. \A r \in store : LET s == Refreshed(r, hits) IN
        s \in Row /\ s.id = r.id /\ s.fact = r.fact /\ s.owner = r.owner
  <2>1. ASSUME NEW r \in Row PROVE LET s == Refreshed(r, hits) IN
          s \in Row /\ s.id = r.id /\ s.fact = r.fact /\ s.owner = r.owner
    <3>1. now + 1 \in Nat
      BY <1>1
    <3> QED
      BY <3>1 DEF Row, Refreshed
  <2> QED
    BY <1>1, <2>1
<1>4. \A s \in store' : /\ s \in Row
                        /\ \E r \in store : /\ s = Refreshed(r, hits) /\ s.id = r.id
                                            /\ s.fact = r.fact /\ s.owner = r.owner
  BY <1>2, <1>3
<1>5. IdsOf(store') = IdsOf(store)
  <2>1. \A r \in store : \E s \in store' : s.id = r.id
    BY <1>2, <1>3
  <2> QED
    BY <1>4, <2>1 DEF IdsOf
<1>6. MemTypeOK'
  <2>1. store' \in SUBSET Row /\ now' \in Nat
    BY <1>1, <1>2, <1>4
  <2> QED
    BY <1>1, <1>2, <2>1 DEF MemTypeOK
<1>7. Cached' = Cached
  BY <1>2 DEF Cached
<1>8. JobsFormed'
  BY <1>1, <1>2 DEF JobsFormed
<1>9. Born'
  BY <1>1, <1>2, <1>4, <1>7 DEF Born
<1>10. OneOfEach'
  <2>1. ASSUME NEW r \in store', NEW s \in store', r.id = s.id PROVE r = s
    <3>1. PICK p \in store : r = Refreshed(p, hits) /\ r.id = p.id
      BY <1>4
    <3>2. PICK q \in store : s = Refreshed(q, hits) /\ s.id = q.id
      BY <1>4
    <3>3. p = q
      BY <1>1, <2>1, <3>1, <3>2 DEF OneOfEach
    <3> QED
      BY <3>1, <3>2, <3>3
  <2>2. Once(cache)'
    BY <1>1, <1>2 DEF OneOfEach, Once
  <2>3. ASSUME NEW m \in Cached', NEW s \in store', m.id = s.id
        PROVE  m.fact = s.fact /\ m.owner = s.owner
    <3>1. PICK r \in store : s.id = r.id /\ s.fact = r.fact /\ s.owner = r.owner
      BY <1>4
    <3> QED
      BY <1>1, <1>7, <2>3, <3>1 DEF OneOfEach
  <2>4. ASSUME NEW k \in Jobs, NEW s \in store', Inserted(job[k]), job[k].row.id = s.id
        PROVE  job[k].row.fact = s.fact /\ job[k].row.owner = s.owner
    <3>1. PICK r \in store : s.id = r.id /\ s.fact = r.fact /\ s.owner = r.owner
      BY <1>4
    <3> QED
      BY <1>1, <2>4, <3>1 DEF OneOfEach
  <2> QED
    BY <1>2, <2>1, <2>2, <2>3, <2>4 DEF OneOfEach
<1>11. NewsIsNews'
  BY <1>1, <1>2, <1>5, <1>7 DEF NewsIsNews
<1>12. \A id, caller : (\A r \in store : r.id = id => MayAccess(r.owner, caller)) =>
                       (\A s \in store' : s.id = id => MayAccess(s.owner, caller))
  BY <1>4
<1>13. DeletesMay'
  <2>1. ASSUME NEW k \in Jobs, Executed(job[k]), NEW s \in store', s.id = Head(job[k].ids)
        PROVE  job[k].scoped /\ ~MayAccess(s.owner, job[k].owner)
    <3>1. PICK r \in store : s.id = r.id /\ s.owner = r.owner
      BY <1>4
    <3> QED
      BY <1>1, <2>1, <3>1 DEF DeletesMay
  <2>2. ASSUME NEW k \in Jobs, NEW id \in Range(job[k].ids)
        PROVE  MayDelete(job[k], id, Cached, raced)'
    <3>1. MayDelete(job[k], id, Cached, raced)
      BY <1>1 DEF DeletesMay
    <3> QED
      BY <1>2, <1>7, <1>12, <3>1 DEF MayDelete
  <2>3. ASSUME NEW k \in Jobs, NEW g \in Range(job[k].groups), NEW id \in g,
               NEW s \in store', s.id = id
        PROVE  MayAccess(s.owner, job[k].owner)
    <3>1. PICK r \in store : s.id = r.id /\ s.owner = r.owner
      BY <1>4
    <3> QED
      BY <1>1, <2>3, <3>1 DEF DeletesMay
  <2> QED
    BY <1>2, <2>1, <2>2, <2>3 DEF DeletesMay
<1>14. Settling'
  <2>1. ASSUME NEW id \in Ids PROVE Mirrored(id)'
    <3>1. ASSUME NEW k \in Jobs, Pending(job[k], id) PROVE Pending(job[k], id)'
      BY <1>2, <1>12, <3>1 DEF Pending
    <3>2. Mirrored(id)
      BY <1>1 DEF Settling
    <3> QED
      BY <1>2, <1>5, <1>7, <3>1, <3>2 DEF Mirrored
  <2> QED
    BY <2>1 DEF Settling
<1>15. ToldGoneIsGone'
  BY <1>1, <1>2, <1>5 DEF ToldGoneIsGone
<1> QED
  BY <1>6, <1>8, <1>9, <1>10, <1>11, <1>13, <1>14, <1>15 DEF MemInv

LEMMA RestartInv ==
  ASSUME MemInv, Restart PROVE MemInv'
<1>1. /\ MemTypeOK /\ Born /\ OneOfEach /\ ToldGoneIsGone /\ store \in SUBSET Row
  BY DEF MemInv, MemTypeOK
<1>2. PICK loaded \in Newest(store) \cup {<<>>} :
        cache' = loaded /\ loose' = IdsOf(store) \ IdsOf(Range(loaded))
  BY Zenon DEF Restart
<1>3. /\ job' = [j \in Jobs |-> Idle] /\ raced' = {}
      /\ UNCHANGED <<store, nextId, now, told>>
  BY DEF Restart
<1>4. loaded \in Seq(Row) /\ Range(loaded) \subseteq store /\ Once(loaded)
  <2>1. CASE loaded = <<>>
    BY <2>1, EmptyRange DEF Once
  <2>2. CASE loaded \in Newest(store)
    <3>1. PICK n \in 0..MaxMemories : loaded \in [1..n -> store]
      BY <2>2 DEF Newest
    <3>2. n \in Nat
      BY <3>1, MemoryAssumption
    <3>3. IsInjective(loaded)
      BY <2>2 DEF Newest
    <3>4. loaded \in [1..n -> Row]
      BY <1>1, <3>1
    <3>5. loaded \in Seq(Row)
      BY <3>2, <3>4
    <3>6. \A i, k \in DOMAIN loaded : loaded[i].id = loaded[k].id => i = k
      BY <1>1, <3>1, <3>3 DEF OneOfEach, IsInjective
    <3> QED
      BY <3>1, <3>5, <3>6 DEF Range, Once
  <2> QED
    BY <1>2, <2>1, <2>2
<1>5. Cached' = Range(loaded) /\ cache' \in Seq(Row) /\ Once(cache')
  BY <1>2, <1>4 DEF Cached
<1>6. /\ Idle \in Job /\ Formed(Idle) /\ ~Inserted(Idle) /\ ~Executed(Idle)
      /\ Range(Idle.ids) = {} /\ Range(Idle.groups) = {}
  BY IdleRests, EmptyRange DEF AtRest
<1>7. job' \in [Jobs -> Job] /\ \A j \in Jobs : job'[j] = Idle
  BY <1>3, <1>6
<1>8. MemTypeOK'
  BY <1>1, <1>3, <1>5, <1>7 DEF MemTypeOK
<1>9. JobsFormed'
  BY <1>6, <1>7 DEF JobsFormed
<1>10. Born'
  BY <1>1, <1>3, <1>4, <1>5, <1>6, <1>7 DEF Born
<1>11. OneOfEach'
  BY <1>1, <1>3, <1>4, <1>5, <1>6, <1>7 DEF OneOfEach
<1>12. NewsIsNews'
  BY <1>6, <1>7 DEF NewsIsNews
<1>13. DeletesMay'
  BY <1>6, <1>7 DEF DeletesMay
<1>14. Settling'
  <2>1. ASSUME NEW id \in Ids PROVE Mirrored(id)'
    <3>1. id \in loose' \/ (id \in IdsOf(Cached') <=> id \in IdsOf(store'))
      BY <1>2, <1>3, <1>4, <1>5 DEF IdsOf
    <3> QED
      BY <3>1 DEF Mirrored
  <2> QED
    BY <2>1 DEF Settling
<1>15. ToldGoneIsGone'
  BY <1>1, <1>3 DEF ToldGoneIsGone
<1> QED
  BY <1>8, <1>9, <1>10, <1>11, <1>12, <1>13, <1>14, <1>15 DEF MemInv

----------------------------------------------------------------------------
(* The invariant.                                                           *)

LEMMA MemInit == Init => MemInv
<1> SUFFICES ASSUME Init PROVE MemInv
  OBVIOUS
<1>1. /\ cache = <<>> /\ store = {} /\ nextId = 1 /\ now = 0
      /\ job = [j \in Jobs |-> Idle] /\ told = {} /\ loose = {} /\ raced = {}
  BY DEF Init
<1>2. /\ Idle \in Job /\ Formed(Idle) /\ ~Inserted(Idle) /\ ~Executed(Idle)
      /\ Range(Idle.ids) = {} /\ Range(Idle.groups) = {}
  BY IdleRests, EmptyRange DEF AtRest
<1>3. job \in [Jobs -> Job] /\ \A j \in Jobs : job[j] = Idle
  BY <1>1, <1>2
<1>4. Cached = {} /\ cache \in Seq(Row) /\ Once(cache)
  BY <1>1, EmptyRange DEF Cached, Once
<1>5. MemTypeOK
  BY <1>1, <1>3, <1>4 DEF MemTypeOK
<1>6. JobsFormed
  BY <1>2, <1>3 DEF JobsFormed
<1>7. Born
  BY <1>1, <1>2, <1>3, <1>4 DEF Born
<1>8. OneOfEach
  BY <1>1, <1>2, <1>3, <1>4 DEF OneOfEach
<1>9. NewsIsNews
  BY <1>2, <1>3 DEF NewsIsNews
<1>10. DeletesMay
  BY <1>2, <1>3 DEF DeletesMay
<1>11. Settling
  BY <1>1, <1>4 DEF Settling, Mirrored, IdsOf
<1>12. ToldGoneIsGone
  BY <1>1 DEF ToldGoneIsGone
<1> QED
  BY <1>5, <1>6, <1>7, <1>8, <1>9, <1>10, <1>11, <1>12 DEF MemInv

\* A turn that is only counted, a recall, a touch that fails, or nothing.
LEMMA StillInv ==
  ASSUME MemInv, UNCHANGED <<cache, store, nextId, now, job, told, loose, raced>>
  PROVE  MemInv'
<1>1. /\ MemTypeOK /\ JobsFormed /\ Born /\ OneOfEach /\ NewsIsNews /\ DeletesMay /\ Settling
      /\ ToldGoneIsGone /\ Cached' = Cached
  BY DEF MemInv, Cached
<1>2. MemTypeOK'
  BY <1>1 DEF MemTypeOK
<1>3. JobsFormed'
  BY <1>1 DEF JobsFormed
<1>4. Born'
  BY <1>1 DEF Born
<1>5. OneOfEach'
  <2>1. Once(cache)'
    BY <1>1 DEF OneOfEach, Once
  <2> QED
    BY <1>1, <2>1 DEF OneOfEach
<1>6. NewsIsNews'
  BY <1>1 DEF NewsIsNews
<1>7. DeletesMay'
  BY <1>1 DEF DeletesMay, MayDelete
<1>8. Settling'
  BY <1>1 DEF Settling, Mirrored, Pending
<1>9. ToldGoneIsGone'
  BY <1>1 DEF ToldGoneIsGone
<1> QED
  BY <1>2, <1>3, <1>4, <1>5, <1>6, <1>7, <1>8, <1>9 DEF MemInv

LEMMA MemStepInv == MemInv /\ [Next]_vars => MemInv'
<1> SUFFICES ASSUME MemInv, [Next]_vars PROVE MemInv'
  OBVIOUS
<1>1. ASSUME NEW j \in Jobs, Works(j) PROVE MemInv'
  BY <1>1, StoreInsertsInv, InsertReturnsInv, InsertFailsInv, StoreDeletesInv,
     DeleteReturnsInv, DeleteFailsInv, CancelledInv, InsertsLateInv, DeletesLateInv,
     StartsInv, ChoosesInv DEF Works
<1>2. ASSUME NEW j \in Jobs, NEW o \in Owners, NEW f \in Facts, Remember(j, o, f) PROVE MemInv'
  BY <1>2, RemembersInv
<1>3. ASSUME NEW j \in Jobs, NEW id \in Ids, NEW o \in Owners, ForgetMemory(j, id, o)
      PROVE MemInv'
  BY <1>3, ForgetInv
<1>4. ASSUME NEW o \in Owners, Recall(o) PROVE MemInv'
  BY <1>4, StillInv DEF Recall, history
<1>5. ASSUME NEW hits \in touches, Touched(hits) PROVE MemInv'
  BY <1>5, TouchedInv
<1>6. ASSUME NEW hits \in touches, TouchFails(hits) PROVE MemInv'
  BY <1>6, StillInv DEF TouchFails, history
<1>7. ASSUME NEW o \in Owners, TurnEnds(o) PROVE MemInv'
  <2>1. CASE job' # job
    BY <1>7, <2>1, TurnEndsInv
  <2>2. CASE job' = job
    BY <1>7, <2>2, StillInv DEF TurnEnds, history
  <2> QED
    BY <2>1, <2>2
<1>8. CASE Restart
  BY <1>8, RestartInv
<1>9. CASE UNCHANGED vars
  BY <1>9, StillInv DEF vars
<1> QED
  BY <1>1, <1>2, <1>3, <1>4, <1>5, <1>6, <1>7, <1>8, <1>9 DEF Next

LEMMA MemInvHolds == Spec => []MemInv
<1> QED
  BY MemInit, MemStepInv, PTL DEF Spec

----------------------------------------------------------------------------
(* What a delete promises.                                                  *)

\* routes.forget_memory: a delete answered "ok" is durable, whatever fails,
\* restarts or runs beside it afterwards.
THEOREM ToldGoneIsGoneHolds == Spec => []ToldGoneIsGone
<1>1. MemInv => ToldGoneIsGone
  BY DEF MemInv
<1> QED
  BY <1>1, MemInvHolds, PTL

\* long_term.add, forget and enforce_cap: a memory in cache and table has one
\* text and one owner, and it is in both or in neither, outside a call about
\* it that is under way and short of a logged warning, a delete that overtook
\* the insert, or a turn cancelled with the memory in hand.
THEOREM CacheMirrorsStoreHolds == Spec => []CacheMirrorsStore
<1>1. ASSUME MemInv, NEW id \in Ids \ (loose \cup raced), ~InFlight(id)
      PROVE  id \in IdsOf(Cached) <=> id \in IdsOf(store)
  <2>2. ASSUME NEW j \in Jobs PROVE ~Pending(job[j], id)
    <3> DEFINE b == job[j]
    <3>1. b \in Job /\ Formed(b)
      BY <1>1, JobIs
    <3>2. b.at \in Ats
      BY <3>1 DEF Job
    <3>3. id \notin Range(b.ids)
      <4>1. CASE Deleting(j)
        BY <1>1, <4>1 DEF InFlight
      <4>2. CASE ~Deleting(j)
        BY <3>1, <3>2, <4>2, EmptyRange DEF Deleting, Formed, Ats
      <4> QED
        BY <4>1, <4>2
    <3>4. ASSUME Inserted(b), b.row.id = id PROVE FALSE
      <4>1. b.row \in Row
        BY <3>1, <3>4 DEF Formed
      <4>2. b.row # <<>>
        BY <4>1, RowIsNoTuple
      <4> QED
        BY <1>1, <3>4, <4>2 DEF InFlight, Inserted
    <3> QED
      BY <3>3, <3>4 DEF Pending
  <2>3. Mirrored(id)
    BY <1>1 DEF MemInv, Settling
  <2> QED
    BY <1>1, <2>2, <2>3 DEF Mirrored
<1>2. MemInv => CacheMirrorsStore
  BY <1>1 DEF CacheMirrorsStore, MemInv, OneOfEach
<1> QED
  BY <1>2, MemInvHolds, PTL

\* long_term.forget, enforce_cap and consolidate.run: a row leaves the table
\* only by an eviction or for somebody who may see it.
THEOREM OwnersKeepTheirsHolds == Spec => OwnersKeepTheirs
<1> DEFINE Kept == \A r \in store : r.id \notin IdsOf(store') =>
                     \E j \in Jobs : /\ Deleting(j) /\ r.id \in Range(job[j].ids)
                                     /\ job[j].at = "evict" \/ MayAccess(r.owner, job[j].owner)
<1>1. ASSUME MemInv, NEW j \in Jobs, StoreDeletes(j) \/ DeletesLate(j) PROVE Kept
  <2>1. ASSUME NEW r \in store, r.id \notin IdsOf(store')
        PROVE  /\ Deleting(j) /\ r.id \in Range(job[j].ids)
               /\ job[j].at = "evict" \/ MayAccess(r.owner, job[j].owner)
    <3>1. Reaches(j, r) /\ Deleting(j)
      BY <1>1, <2>1 DEF StoreDeletes, DeletesLate, IdsOf
    <3>2. job[j].ids \in Seq(Nat) /\ job[j].ids # <<>>
      BY <1>1, <3>1, JobIs DEF Job, Formed, Deleting
    <3>3. r.id \in Range(job[j].ids)
      BY <3>1, <3>2 DEF Reaches, Range
    <3>4. MayDelete(job[j], r.id, Cached, raced)
      BY <1>1, <3>3 DEF MemInv, DeletesMay
    <3> QED
      BY <3>1, <3>3, <3>4 DEF MayDelete, Reaches
  <2> QED
    BY <2>1
<1>2. ASSUME MemInv, [Next]_vars, \A j \in Jobs : ~StoreDeletes(j) /\ ~DeletesLate(j)
      PROVE  IdsOf(store) \subseteq IdsOf(store')
  <2>1. CASE store' = store
    BY <2>1
  <2>2. ASSUME NEW j \in Jobs, StoreInserts(j) \/ InsertsLate(j) PROVE store \subseteq store'
    BY <2>2 DEF StoreInserts, InsertsLate
  <2>3. ASSUME NEW hits, Touched(hits) PROVE IdsOf(store) \subseteq IdsOf(store')
    <3>1. store' = {Refreshed(r, hits) : r \in store}
      BY <2>3 DEF Touched, Refreshed
    <3>2. \A r \in store : Refreshed(r, hits).id = r.id
      <4>1. \A r \in Row : Refreshed(r, hits).id = r.id
        BY DEF Row, Refreshed
      <4> QED
        BY <1>2, <4>1, JobIs DEF MemInv, MemTypeOK
    <3> QED
      BY <3>1, <3>2 DEF IdsOf
  <2>4. ASSUME NEW j \in Jobs, Works(j) PROVE IdsOf(store) \subseteq IdsOf(store')
    <3>1. StoreInserts(j) \/ InsertsLate(j) \/ store' = store
      <4>1. ~StoreDeletes(j) /\ ~DeletesLate(j)
        BY <1>2
      <4> QED
        BY <2>4, <4>1 DEF Works, InsertReturns, InsertFails, DeleteReturns, DeleteFails,
                          Cancelled, ConsolidationStarts, Chooses
    <3>2. ASSUME store \subseteq store' PROVE IdsOf(store) \subseteq IdsOf(store')
      BY <3>2, Zenon DEF IdsOf
    <3> QED
      BY <2>1, <2>2, <3>1, <3>2, Zenon
  <2>5. ASSUME NEW hits, TouchFails(hits) PROVE store' = store
    BY <2>5 DEF TouchFails
  <2>6. \/ \E j \in Jobs : Works(j)
        \/ \E hits \in touches : Touched(hits) \/ TouchFails(hits)
        \/ store' = store
    BY <1>2 DEF Next, vars, Remember, ForgetMemory, Recall, TurnEnds, Restart
  <2> QED
    BY <2>1, <2>3, <2>4, <2>5, <2>6
<1>3. MemInv /\ [Next]_vars => [Kept]_vars
  <2> SUFFICES ASSUME MemInv, [Next]_vars PROVE Kept
    OBVIOUS
  <2>1. CASE \E j \in Jobs : StoreDeletes(j) \/ DeletesLate(j)
    BY <1>1, <2>1
  <2>2. CASE \A j \in Jobs : ~StoreDeletes(j) /\ ~DeletesLate(j)
    BY <1>2, <2>2 DEF IdsOf
  <2> QED
    BY <2>1, <2>2
<1> QED
  BY <1>3, MemInvHolds, PTL DEF Spec, OwnersKeepTheirs
=============================================================================
