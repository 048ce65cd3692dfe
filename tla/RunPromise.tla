----------------------------- MODULE RunPromise ------------------------------
(***************************************************************************)
(* What the orchestrator promises about one run, whatever its tasks, its   *)
(* queue and its HTTP handlers do: it is created once, it is running or    *)
(* waiting for the human it asked, a tool call that needs a human runs     *)
(* only out of a request that was open and is closed by that very step,    *)
(* and one terminal status ends it for good.  A run the registry has       *)
(* evicted keeps the status it had.                                        *)
(***************************************************************************)
VARIABLES
  status,  \* the run's status, "absent" before it exists
  held,    \* whether the registry still holds the run
  open,    \* the approval requests waiting for a human (one at most)
  spent,   \* requests that are closed, whatever the verdict
  ran      \* requests whose tool call was released

vars == <<status, held, open, spent, ran>>

Ended == {"completed", "failed", "cancelled"}
Movable == held /\ status \notin Ended

Init ==
  status = "absent" /\ held = FALSE /\ open = {} /\ spent = {} /\ ran = {}

Create ==
  /\ status = "absent"
  /\ status' = "running" /\ held' = TRUE
  /\ UNCHANGED <<open, spent, ran>>

Moves(s) == status' = IF Movable THEN s ELSE status

\* The agent loop asks: a single request, never one that was closed before.
Ask ==
  /\ status # "absent" /\ open = {}
  /\ \E i \in open' : open' = {i} /\ i \notin spent
  /\ Moves("waiting_approval")
  /\ UNCHANGED <<held, spent, ran>>

\* The wait is over, with or without releasing the call.
Close(i) ==
  /\ i \in open
  /\ open' = open \ {i} /\ spent' = spent \cup {i} /\ Moves("running")
  /\ UNCHANGED held

Release(i) == Close(i) /\ ran' = ran \cup {i}
Refuse(i) == Close(i) /\ UNCHANGED ran

\* Only a live run ends, and it may end with a request still open.
End ==
  /\ Movable /\ status # "absent"
  /\ status' \in Ended
  /\ UNCHANGED <<held, open, spent, ran>>

Evict ==
  /\ held /\ held' = FALSE
  /\ UNCHANGED <<status, open, spent, ran>>

Next ==
  \/ Create \/ End \/ Evict \/ Ask
  \/ \E i \in open : Release(i) \/ Refuse(i)

Spec == Init /\ [][Next]_vars
=============================================================================
