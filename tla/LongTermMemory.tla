---------------------------- MODULE LongTermMemory ----------------------------
(***************************************************************************)
(* Long-term memory: the process's CACHE and the Supabase table behind it  *)
(* (memory/long_term.py, memory/store.py), the gate every new fact passes  *)
(* (memory_policy.propose), consolidation after a turn                     *)
(* (memory/consolidate.py) and DELETE /memory (api/routes.py).             *)
(*                                                                         *)
(* Turns, background consolidations and API calls share CACHE on one event *)
(* loop; every store call is awaited on a worker thread, so a job is       *)
(* suspended from the moment its request is sent until its answer is read, *)
(* and the row can be written or deleted long before that.  A call may be  *)
(* refused, or take effect and lose its answer: both are a StoreError.     *)
(*                                                                         *)
(* `remember` runs inside the turn's pump task (agent/agent.py), so the     *)
(* user's cancel, a lost client or the deadline cancels it at any of these *)
(* awaits.  The task stops there, without a word in the log; a store call  *)
(* whose thread has started is carried out all the same.                   *)
(*                                                                         *)
(* Left out: embeddings (two facts are near-identical when they say the    *)
(* same), the reject branch of propose (it returns before any await and    *)
(* changes nothing), recall's ranking (any visible memories may be hits),  *)
(* the read-only listing, audit and metrics.                               *)
(***************************************************************************)
EXTENDS Integers, Sequences, FiniteSets, SequencesExt

CONSTANTS
  Users,          \* identified users (trust_identity_headers is on)
  Claims,         \* what facts are about: negation_signature's key
  Polarity,       \* saying it or denying it: negation_signature's other half
  Jobs,           \* calls in progress at once: turns, consolidations, deletes
  MaxMemories,    \* MAX_ROWS, the cap of cache and of one load
  EveryTurns,     \* CONSOLIDATE_EVERY_TURNS
  MinTurns,       \* CONSOLIDATE_MIN_TURNS
  AtCount,        \* CONSOLIDATE_AT_COUNT
  MaxFacts,       \* bound: rows ever inserted
  MaxCalls,       \* bound: recalls, deletes through the API, consolidations and
                  \* restarts of the service
  MaxFaults       \* bound: store calls that fail or whose turn is cancelled

Nobody == "nobody"               \* owner_user_id None: shared, anonymous
Owners == Users \cup {Nobody}

ASSUME MemoryAssumption ==
  /\ Nobody \notin Users
  /\ MaxMemories \in Nat \ {0}
  /\ {EveryTurns, MinTurns, AtCount} \subseteq Nat
  /\ {MaxFacts, MaxCalls, MaxFaults} \subseteq Nat

Ids == 1..MaxFacts
Facts == [claim: Claims, says: Polarity]

VARIABLES
  cache,      \* CACHE
  store,      \* the rows of the table
  nextId,     \* the table's bigserial
  now,        \* the database's clock: one tick per write
  turns,      \* TURN_COUNTER
  job,        \* the calls in progress
  touches,    \* recalled ids whose last_used_at a worker thread will refresh
  left,       \* what the bounds still allow of each kind of call
  \* history
  told,       \* ids whose delete was answered "ok" to a caller who may see them
  loose,      \* ids a warning was logged about, or that the last load left out
  raced       \* ids whose insert was overtaken by a delete through the API, and
              \* ids that a cancelled call had in hand

vars == <<cache, store, nextId, now, turns, job, touches, left,
          told, loose, raced>>
history == <<told, loose, raced>>

\* Jobs are interchangeable, and so are a claim and its denial.
Interchangeable == Permutations(Jobs) \cup Permutations(Polarity)

\* What a job is doing (op, at), the state of its store call ("late": its
\* task was cancelled and only the worker thread goes on), whom it acts
\* for, and what it works on: the fact it remembers, the row it inserted, the
\* ids it still has to delete, whether the delete is scoped to the caller's
\* rows, and the groups of ids consolidation has yet to judge.
Idle == [op |-> "idle", at |-> "", call |-> "none", owner |-> Nobody,
         fact |-> <<>>, row |-> <<>>, ids |-> <<>>, scoped |-> FALSE,
         groups |-> <<>>]

IdsOf(ms) == {m.id : m \in ms}
Cached == Range(cache)
Rows(id) == {r \in store : r.id = id}
Free(j) == job[j] = Idle
Deleting(j) == job[j].at \in {"supersede", "evict", "delete"}

\* identity.may_access and long_term.visible: shared, or the caller's own.
MayAccess(owner, caller) == owner = Nobody \/ owner = caller
\* Mutant: the whole cache, whoever asks.
VisibleSlip(owner) == cache

\* The elements of ms at the indices in K, in the order of the pairs in before.
InOrder(ms, K, before) ==
  [r \in 1..Cardinality(K) |->
     ms[CHOOSE k \in K : Cardinality({i \in K : <<i, k>> \in before}) + 1 = r]]

\* A comprehension over a list: what it keeps stays in order.
Picked(ms, K) == InOrder(ms, K, {p \in K \X K : p[1] < p[2]})

Visible(owner) ==
  Picked(cache, {k \in DOMAIN cache : MayAccess(cache[k].owner, owner)})

Without(ms, id) == Picked(ms, {k \in DOMAIN ms : ms[k].id # id})

\* CACHE.sort(key=last_used_at, reverse=True): newest first, stable.
Newer(ms) ==
  {p \in (DOMAIN ms) \X (DOMAIN ms) :
     \/ ms[p[1]].lastUsed > ms[p[2]].lastUsed
     \/ ms[p[1]].lastUsed = ms[p[2]].lastUsed /\ p[1] < p[2]}

ByRecency(ms) == InOrder(ms, DOMAIN ms, Newer(ms))

\* select_all, order=last_used_at.desc, limit=MAX_ROWS: ties in any order.
Newest(rows) ==
  {ms \in UNION {[1..n -> rows] : n \in 0..MaxMemories} :
     /\ Len(ms) = IF Cardinality(rows) < MaxMemories
                  THEN Cardinality(rows) ELSE MaxMemories
     /\ IsInjective(ms)
     /\ \A i, k \in DOMAIN ms : i < k => ms[i].lastUsed >= ms[k].lastUsed
     /\ \A i \in DOMAIN ms, r \in rows \ Range(ms) : ms[i].lastUsed >= r.lastUsed}

-------------------------------------------------------------------------------
(* Where a job goes next                                                    *)

\* consolidate.run's loop: the next non-empty group, or the end.
NextGroup(b) ==
  LET rest == Picked(b.groups, {k \in DOMAIN b.groups : b.groups[k] # {}})
  IN  IF rest = <<>> THEN Idle
      ELSE [b EXCEPT !.at = "choose", !.call = "none", !.ids = <<>>, !.groups = rest]

\* After the delete at the head of ids: the next one, or what follows the last.
Deleted(b) ==
  LET rest == Tail(b.ids) IN
  CASE rest # <<>> -> [b EXCEPT !.ids = rest, !.call = "sent"]
    [] rest = <<>> /\ b.at = "supersede" ->
         [b EXCEPT !.at = "insert", !.ids = <<>>, !.call = "sent"]
    [] rest = <<>> /\ b.op = "consolidate" -> NextGroup(b)
    [] OTHER -> Idle

-------------------------------------------------------------------------------
(* remember: long_term.add                                                  *)

\* Inserts not yet answered by the table.
Unborn == Cardinality({j \in Jobs : job[j].op = "remember" /\ job[j].row = <<>>})

Contradicts(f, m) == m.fact.claim = f.claim /\ m.fact.says # f.says

\* propose over `existing`: the first memory that says the opposite is
\* replaced; failing that a near-identical one is reused; else a new row.
Proposal(f, existing) ==
  LET opposite == {i \in DOMAIN existing : Contradicts(f, existing[i])}
  IN  IF opposite # {}
      THEN [action |-> "supersede",
            replaces |-> existing[CHOOSE i \in opposite : \A k \in opposite : i <= k].id]
      ELSE [action |-> IF \E m \in Range(existing) : m.fact = f
                       THEN "duplicate" ELSE "accept",
            replaces |-> 0]

\* The approved tool has its embedding (nothing is read before): the gate, over
\* what the owner can see now.  A duplicate changes nothing.
Remember(j, o, f) ==
  LET p == Proposal(f, Visible(o)) IN
  /\ Free(j)
  /\ nextId + Unborn <= MaxFacts
  /\ p.action # "duplicate"
  /\ job' = [job EXCEPT ![j] =
       [Idle EXCEPT !.op = "remember", !.owner = o, !.fact = f, !.call = "sent",
                    !.at = IF p.action = "accept" THEN "insert" ELSE "supersede",
                    !.ids = IF p.action = "accept" THEN <<>> ELSE <<p.replaces>>]]
  /\ UNCHANGED <<cache, store, nextId, now, turns, touches, left, history>>

\* The table takes the row.
StoreInserts(j) ==
  /\ job[j].at = "insert" /\ job[j].call = "sent"
  /\ LET row == [id |-> nextId, fact |-> job[j].fact, owner |-> job[j].owner,
                 lastUsed |-> now + 1]
     IN  /\ store' = store \cup {row}
         /\ job' = [job EXCEPT ![j].row = row, ![j].call = "done"]
  /\ nextId' = nextId + 1
  /\ now' = now + 1
  /\ UNCHANGED <<cache, turns, touches, left, history>>

\* Mutant: the cap on the cache only.
CacheOnlySlip(j) ==
  /\ job[j].at = "insert" /\ job[j].call = "done"
  /\ LET all == Append(cache, job[j].row)
     IN  cache' = IF Len(all) <= MaxMemories THEN all
                  ELSE SubSeq(ByRecency(all), 1, MaxMemories)
  /\ job' = [job EXCEPT ![j] = Idle]
  /\ UNCHANGED <<store, nextId, now, turns, touches, left, history>>

\* add() resumes: CACHE.append, then enforce_cap up to its first delete.
InsertReturns(j) ==
  /\ job[j].at = "insert" /\ job[j].call = "done"
  /\ LET all  == Append(cache, job[j].row)
         kept == IF Len(all) <= MaxMemories THEN all
                 ELSE SubSeq(ByRecency(all), 1, MaxMemories)
         out  == IF Len(all) <= MaxMemories THEN <<>>
                 ELSE SubSeq(ByRecency(all), MaxMemories + 1, Len(all))
     IN  /\ cache' = kept
         /\ job' = [job EXCEPT ![j] =
              IF out = <<>> THEN Idle
              ELSE [@ EXCEPT !.at = "evict", !.call = "sent", !.row = <<>>,
                             !.fact = <<>>, !.ids = [i \in DOMAIN out |-> out[i].id]]]
  /\ UNCHANGED <<store, nextId, now, turns, touches, left, history>>

\* StoreError, the request refused or its answer lost: "could not remember".
InsertFails(j) ==
  /\ job[j].at = "insert" /\ job[j].call # "late"
  /\ left.faults > 0 /\ left' = [left EXCEPT !.faults = @ - 1]
  /\ job' = [job EXCEPT ![j] = Idle]
  /\ loose' = IF job[j].call = "done" THEN loose \cup {job[j].row.id} ELSE loose
  /\ UNCHANGED <<cache, store, nextId, now, turns, touches, told, raced>>

-------------------------------------------------------------------------------
(* Deletes: long_term.forget and enforce_cap's loop                         *)

\* A scoped delete reaches only rows its caller may see.
Reaches(j, r) ==
  /\ r.id = Head(job[j].ids)
  /\ job[j].scoped => MayAccess(r.owner, job[j].owner)

StoreDeletes(j) ==
  /\ Deleting(j) /\ job[j].call = "sent"
  /\ store' = {r \in store : ~Reaches(j, r)}
  /\ job' = [job EXCEPT ![j].call = "done"]
  /\ UNCHANGED <<cache, nextId, now, turns, touches, left, history>>

\* The answer is read: forget drops the id from the cache and reports True;
\* an eviction already did.
DeleteReturns(j) ==
  LET id == Head(job[j].ids) IN
  /\ Deleting(j) /\ job[j].call = "done"
  /\ cache' = IF job[j].at = "evict" THEN cache ELSE Without(cache, id)
  /\ told' = IF job[j].op = "forget" /\ \A r \in Rows(id) : MayAccess(r.owner, job[j].owner)
             THEN told \cup {id} ELSE told
  /\ job' = [job EXCEPT ![j] = Deleted(@)]
  /\ UNCHANGED <<store, nextId, now, turns, touches, left, loose, raced>>

\* Mutant: forget reports success when the store refused.
AlwaysOkSlip(j) ==
  /\ Deleting(j) /\ job[j].call # "late"
  /\ left.faults > 0 /\ left' = [left EXCEPT !.faults = @ - 1]
  /\ loose' = loose \cup {Head(job[j].ids)}
  /\ told' = IF job[j].op = "forget" THEN told \cup {Head(job[j].ids)} ELSE told
  /\ job' = [job EXCEPT ![j] = Deleted(@)]
  /\ UNCHANGED <<cache, store, nextId, now, turns, touches, raced>>

\* StoreError, the request refused or its answer lost: logged; the memory
\* stays in the cache or, evicted, in the store, and the job goes on.
DeleteFails(j) ==
  /\ Deleting(j) /\ job[j].call # "late"
  /\ left.faults > 0 /\ left' = [left EXCEPT !.faults = @ - 1]
  /\ loose' = loose \cup {Head(job[j].ids)}
  /\ job' = [job EXCEPT ![j] = Deleted(@)]
  /\ UNCHANGED <<cache, store, nextId, now, turns, touches, told, raced>>

\* DELETE /memory/{id}: a cached memory's owner is checked here, an uncached
\* one's by the store.
ForgetMemory(j, id, caller) ==
  /\ Free(j)
  /\ left.calls > 0 /\ left' = [left EXCEPT !.calls = @ - 1]
  /\ id < nextId
  /\ \A m \in Cached : m.id = id => MayAccess(m.owner, caller)
  /\ job' = [job EXCEPT ![j] = [Idle EXCEPT !.op = "forget", !.at = "delete",
               !.call = "sent", !.owner = caller, !.ids = <<id>>,
               !.scoped = id \notin IdsOf(Cached)]]
  /\ raced' = IF \E k \in Jobs : job[k].at = "insert" /\ job[k].call = "done"
                                 /\ job[k].row.id = id
              THEN raced \cup {id} ELSE raced
  /\ UNCHANGED <<cache, store, nextId, now, turns, touches, told, loose>>

-------------------------------------------------------------------------------
(* A turn cancelled while it remembers                                      *)

\* The memories a job has in hand: those it deletes, the one it inserted.
Holds(b) == Range(b.ids) \cup (IF b.row = <<>> THEN {} ELSE {b.row.id})

\* CancelledError at the await: of an insert nothing reaches the cache; after
\* a supersede's delete no insert follows and the old text stays cached; of
\* the evicted, dropped from the cache already, the rest stay in the table.
\* The thread of an unanswered call may have started, or never start.
Cancelled(j) ==
  /\ job[j].op = "remember" /\ job[j].call # "late"
  /\ left.faults > 0 /\ left' = [left EXCEPT !.faults = @ - 1]
  /\ \/ /\ job' = [job EXCEPT ![j] = Idle]
        /\ raced' = raced \cup Holds(job[j])
     \/ /\ job[j].call = "sent"
        /\ job' = [job EXCEPT ![j].call = "late"]
        /\ UNCHANGED raced
  /\ UNCHANGED <<cache, store, nextId, now, turns, touches, told, loose>>

\* The table takes the row of an add() that is gone.
InsertsLate(j) ==
  /\ job[j].at = "insert" /\ job[j].call = "late"
  /\ store' = store \cup {[id |-> nextId, fact |-> job[j].fact,
                           owner |-> job[j].owner, lastUsed |-> now + 1]}
  /\ job' = [job EXCEPT ![j] = Idle]
  /\ nextId' = nextId + 1
  /\ now' = now + 1
  /\ raced' = raced \cup {nextId}
  /\ UNCHANGED <<cache, turns, touches, left, told, loose>>

\* The table executes the delete of a forget or an enforce_cap that is gone.
DeletesLate(j) ==
  /\ Deleting(j) /\ job[j].call = "late"
  /\ store' = {r \in store : ~Reaches(j, r)}
  /\ job' = [job EXCEPT ![j] = Idle]
  /\ raced' = raced \cup Holds(job[j])
  /\ UNCHANGED <<cache, nextId, now, turns, touches, left, told, loose>>

-------------------------------------------------------------------------------
(* Recall, consolidation, restart                                           *)

\* recall_block: the hits go into the prompt, a thread will touch them.
Recall(o) ==
  /\ left.calls > 0 /\ left' = [left EXCEPT !.calls = @ - 1]
  /\ \E hits \in (SUBSET IdsOf(Range(Visible(o)))) \ {{}} :
       touches' = touches \cup {hits}
  /\ UNCHANGED <<cache, store, nextId, now, turns, job, history>>

\* store.touch: last_used_at of the rows, never of the cache.
Touched(hits) ==
  /\ hits \in touches
  /\ touches' = touches \ {hits}
  /\ now' = now + 1
  /\ store' = {IF r.id \in hits THEN [r EXCEPT !.lastUsed = now + 1] ELSE r : r \in store}
  /\ UNCHANGED <<cache, nextId, turns, job, left, history>>

TouchFails(hits) ==
  /\ hits \in touches
  /\ left.faults > 0 /\ left' = [left EXCEPT !.faults = @ - 1]
  /\ touches' = touches \ {hits}
  /\ UNCHANGED <<cache, store, nextId, now, turns, job, history>>

\* note_turn, should_run: after `done`, a consolidation may be scheduled.
ShouldRun(n) == \/ n >= EveryTurns
                \/ Len(cache) > AtCount /\ n >= MinTurns

TurnEnds(o) ==
  /\ turns' = turns + 1
  /\ IF ShouldRun(turns + 1)
     THEN \E j \in Jobs :
            /\ Free(j)
            /\ left.calls > 0 /\ left' = [left EXCEPT !.calls = @ - 1]
            /\ job' = [job EXCEPT ![j] = [Idle EXCEPT !.op = "consolidate",
                                          !.at = "scheduled", !.owner = o]]
     ELSE UNCHANGED <<job, left>>
  /\ UNCHANGED <<cache, store, nextId, now, touches, history>>

\* The task's first step: the counter back to 0, the groups as they are now.
ConsolidationStarts(j) ==
  /\ job[j].at = "scheduled"
  /\ turns' = 0
  /\ LET of(o) == {m.id : m \in {c \in Cached : c.owner = o}}
         groups == IF job[j].owner = Nobody THEN <<of(Nobody)>>
                   ELSE <<of(job[j].owner), of(Nobody)>>
     IN  job' = [job EXCEPT ![j] = NextGroup([@ EXCEPT !.groups = groups])]
  /\ UNCHANGED <<cache, store, nextId, now, touches, left, history>>

\* The model names ids, any ids: only this group's are forgotten, one by one.
Chooses(j) ==
  /\ job[j].at = "choose"
  /\ \E drops \in {SetToSeq(named \cap Head(job[j].groups)) : named \in SUBSET Ids} :
       LET b == [job[j] EXCEPT !.groups = Tail(@)]
       IN  job' = [job EXCEPT ![j] =
             IF drops = <<>> THEN NextGroup(b)
             ELSE [b EXCEPT !.at = "delete", !.call = "sent", !.ids = drops]]
  /\ UNCHANGED <<cache, store, nextId, now, turns, touches, left, history>>

\* A restart loses the process and lifespan loads the cache again: empty when
\* the store does not answer.  What was not loaded has been logged.
Restart ==
  /\ left.calls > 0
  /\ \/ /\ cache' \in Newest(store)
        /\ left' = [left EXCEPT !.calls = @ - 1]
     \/ /\ left.faults > 0 /\ store # {}
        /\ cache' = <<>>
        /\ left' = [left EXCEPT !.calls = @ - 1, !.faults = @ - 1]
  /\ loose' = IdsOf(store) \ IdsOf(Range(cache'))
  /\ job' = [j \in Jobs |-> Idle]
  /\ touches' = {}
  /\ turns' = 0
  /\ raced' = {}
  /\ UNCHANGED <<store, nextId, now, told>>

-------------------------------------------------------------------------------
Init ==
  /\ cache = <<>> /\ store = {} /\ nextId = 1 /\ now = 0 /\ turns = 0
  /\ job = [j \in Jobs |-> Idle]
  /\ touches = {}
  /\ left = [calls |-> MaxCalls, faults |-> MaxFaults]
  /\ told = {} /\ loose = {} /\ raced = {}

\* What a job in progress does next, or has done to it.
Works(j) ==
  \/ StoreInserts(j) \/ InsertReturns(j) \/ InsertFails(j)
  \/ StoreDeletes(j) \/ DeleteReturns(j) \/ DeleteFails(j)
  \/ Cancelled(j) \/ InsertsLate(j) \/ DeletesLate(j)
  \/ ConsolidationStarts(j) \/ Chooses(j)

Next ==
  \/ \E j \in Jobs : Works(j)
  \/ \E j \in Jobs, o \in Owners, f \in Facts : Remember(j, o, f)
  \/ \E j \in Jobs, id \in Ids, o \in Owners : ForgetMemory(j, id, o)
  \/ \E hits \in touches : Touched(hits) \/ TouchFails(hits)
  \/ \E o \in Owners : Recall(o) \/ TurnEnds(o)
  \/ Restart

Spec == Init /\ [][Next]_vars

-------------------------------------------------------------------------------
(* Properties                                                               *)

\* A call about this memory is on its way or still unanswered.
InFlight(id) ==
  \E j \in Jobs :
    \/ Deleting(j) /\ id \in Range(job[j].ids)
    \/ job[j].at = "insert" /\ job[j].row # <<>> /\ job[j].row.id = id

\* "A cache that lies" (tests/unit/test_long_term_io.py:116, 163): a memory
\* that is in the cache and in the table has one text and one owner; and unless
\* a call about it is under way it is in both or in neither.  Excepted are the
\* memories a warning was logged about, those deleted through the API before
\* their own insert was answered, and those a cancelled turn had in hand: of
\* these nobody is told, and the difference lasts until the next restart.
CacheMirrorsStore ==
  /\ \A m \in Cached, r \in store :
       m.id = r.id => m.fact = r.fact /\ m.owner = r.owner
  /\ \A id \in Ids \ (loose \cup raced) :
       InFlight(id) \/ (id \in IdsOf(Cached) <=> id \in IdsOf(store))

\* A delete answered "ok" (routes.forget_memory) is durable: no memory the
\* caller may see comes back under that id, in this process or after restarts.
ToldGoneIsGone == told \cap IdsOf(store) = {}

\* A row leaves the table only by an eviction, which is nobody's, or for an
\* owner who may see it: no turn supersedes, no pass consolidates and no
\* caller deletes another user's memory.
OwnersKeepTheirs ==
  [][\A r \in store : r.id \notin IdsOf(store') =>
       \E j \in Jobs : /\ Deleting(j) /\ r.id \in Range(job[j].ids)
                       /\ job[j].at = "evict" \/ MayAccess(r.owner, job[j].owner)]_vars

===============================================================================
