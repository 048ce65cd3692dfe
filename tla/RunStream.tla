------------------------------ MODULE RunStream ------------------------------
(***************************************************************************)
(* One enveloped run of the orchestrator, from POST /query to its terminal *)
(* status: the streaming task (run_query and _run_query_events in          *)
(* api/routes.py), the pump task that drives the agent loop                *)
(* (agent/agent.py), the human approval gate between them, the run record  *)
(* and its replay log (runs.py), and the HTTP handlers that reach into the *)
(* run from outside (cancel, confirm, replay).                             *)
(*                                                                         *)
(* Everything runs on one asyncio loop, so an action is the code between   *)
(* two suspension points.  The pump may handle several tool calls without  *)
(* suspending; while it does (pPc = "call") nobody else is scheduled.      *)
(***************************************************************************)
EXTENDS Integers, Sequences, FiniteSets

CONSTANTS
  MaxTurns,     \* agent.MAX_TURNS: model calls one run may make
  MaxCalls,     \* bound: tool calls in one model reply
  MaxReplans,   \* verify.MAX_REPLANS
  ToolBudget,   \* budget.max_tool_calls, 0 when the request sets none
  HasDeadline,  \* whether the request sets budget.max_wall_time_ms
  LogCap,       \* runs.MAX_STORED_EVENTS
  ToolShows     \* bound: what a tool that succeeded may put on the HUD

ASSUME BoundsAssumption ==
  /\ MaxTurns \in Nat \ {0}
  /\ MaxCalls \in Nat \ {0}
  /\ MaxReplans \in Nat
  /\ ToolBudget \in Nat
  /\ HasDeadline \in BOOLEAN
  /\ LogCap \in Nat \ {0}
  /\ "none" \in ToolShows /\ ToolShows \subseteq {"none", "memory", "map", "panel"}

Terminal == {"completed", "failed", "cancelled", "expired"}
Statuses == {"absent", "queued", "running", "waiting_approval"} \cup Terminal

StepKinds == {"reason", "tool", "verification", "answer_step"}
EventKinds == StepKinds \cup
  {"state", "tool_call", "confirm", "denied", "memory", "preview",
   "viz", "error", "answer", "done", "end"}
Marks == {"", "running", "waiting_approval", "completed", "failed",
          "thinking", "tool_execution", "processing", "visualizing",
          "speaking", "error", "map", "panel"}

\* A domain event: its kind, the step or request it names (0: none) and its
\* status, agent state or component.
Event == [ev: EventKinds, id: Nat, st: Marks]
Ev(k, i, s) == [ev |-> k, id |-> i, st |-> s]
State(s) == Ev("state", 0, s)
DoneFrame == Ev("done", 0, "")
EndOfAgent == Ev("end", 0, "")           \* the None the pump leaves behind

Decision == [id: Nat, ok: BOOLEAN]
Verdict == [id: Nat, how: {"granted", "denied", "timeout", "cancelled"}]
Execution == [id: Nat, gated: BOOLEAN]
StepRecord == [id: Nat, kind: StepKinds, st: Marks]
Frame == [seq: Nat, e: Event]

VARIABLES
  \* the run record and its replay log (runs.RunRegistry)
  status, live, log, steps, final, mirrored,
  \* the streaming task (run_query driving _run_query_events)
  sPc, phase, script, emitted, sawError, pinned, toolCount,
  expired, cancelReq, spentOn,
  \* the pump task (agent.run feeding the event queue)
  pPc, turn, calls, stepN, reasonId, toolId, replans, failure, pCancel, queue,
  \* the approval gate (PENDING, its futures and their audit)
  pending, answered, lateAnswer, resolved, ran,
  \* what outlives the turn: audit trail and session memory
  trail, remembered,
  \* history: approval requests open when a cancel was accepted
  doomed

record   == <<status, live, log, steps, final, mirrored>>
stream   == <<sPc, phase, script, emitted, sawError, pinned, toolCount,
              expired, cancelReq, spentOn>>
pump     == <<pPc, turn, calls, stepN, reasonId, toolId, replans, failure,
              pCancel, queue>>
approval == <<pending, answered, lateAnswer, resolved, ran>>
outer    == <<trail, remembered, doomed>>
vars     == <<record, stream, pump, approval, outer>>

RecordTypes ==
  /\ status \in Statuses /\ live \in BOOLEAN /\ mirrored \in BOOLEAN
  /\ log \in Seq(Frame) /\ steps \subseteq StepRecord
  /\ final \subseteq {"answer", "error"}

StreamTypes ==
  /\ sPc \in {"idle", "send", "recall", "get", "plan", "orphan", "closed"}
  /\ phase \in {"start", "agent", "tail", "budget"}
  /\ script \in Seq(Event) /\ emitted \in Seq(Event)
  /\ sawError \in BOOLEAN /\ pinned \in BOOLEAN /\ toolCount \in Nat
  /\ expired \in BOOLEAN /\ cancelReq \in BOOLEAN
  /\ spentOn \in {"", "tools", "time"}

PumpTypes ==
  /\ pPc \in {"none", "start", "think", "call", "approval", "tool", "ended"}
  /\ failure \in BOOLEAN /\ pCancel \in BOOLEAN /\ queue \in Seq(Event)

CounterTypes ==
  /\ turn \in 0..MaxTurns /\ calls \in 0..MaxCalls /\ replans \in 0..MaxReplans
  /\ stepN \in Nat /\ reasonId \in Nat /\ toolId \in Nat
  /\ pPc \in {"approval", "tool"} => calls > 0

GateTypes ==
  /\ pending \subseteq Nat /\ answered \subseteq Decision
  /\ lateAnswer \in BOOLEAN /\ resolved \subseteq Verdict
  /\ ran \subseteq Execution
  /\ trail \in Seq({"cancelled by request", "finished completed",
                    "finished failed", "finished cancelled"})
  /\ remembered \in BOOLEAN /\ doomed \subseteq Nat

TypeOK ==
  RecordTypes /\ StreamTypes /\ PumpTypes /\ CounterTypes /\ GateTypes

Init ==
  /\ status = "absent" /\ live = FALSE /\ log = <<>> /\ steps = {}
  /\ final = {} /\ mirrored = FALSE
  /\ sPc = "idle" /\ phase = "start" /\ script = <<>> /\ emitted = <<>>
  /\ sawError = FALSE /\ pinned = FALSE /\ toolCount = 0
  /\ expired = FALSE /\ cancelReq = FALSE /\ spentOn = ""
  /\ pPc = "none" /\ turn = 0 /\ calls = 0 /\ stepN = 0 /\ reasonId = 0
  /\ toolId = 0 /\ replans = 0 /\ failure = FALSE /\ pCancel = FALSE
  /\ queue = <<>>
  /\ pending = {} /\ answered = {} /\ lateAnswer = FALSE /\ resolved = {}
  /\ ran = {}
  /\ trail = <<>> /\ remembered = FALSE /\ doomed = {}

------------------------------------------------------------------------------
(* The run record: every mutator looks the run up and refuses terminal ones. *)

Recordable == live /\ status \notin Terminal

\* Slips.  A definition named ...Slip is the definition after it with one
\* plausible mistake; no specification uses it.  Each shows that a property
\* notices that mistake.

\* update_status: TRUE and the move when the run is there and not terminal.
UpdateStatus(new) == status' = IF Recordable THEN new ELSE status

Trim(s) == IF Len(s) > LogCap
           THEN SubSeq(s, Len(s) - LogCap + 1, Len(s)) ELSE s

\* record_event: append one frame, drop the oldest past the cap.
RecordEvent(n, e) ==
  log' = IF Recordable THEN Trim(Append(log, [seq |-> n, e |-> e])) ELSE log

\* record_step: update-or-create by step id; it has no terminal guard.
RecordStep(e) ==
  steps' = IF live
           THEN {s \in steps : s.id # e.id}
                  \cup {[id |-> e.id, kind |-> e.ev, st |-> e.st]}
           ELSE steps

SetFinal(field) == final' = IF Recordable THEN final \cup {field} ELSE final

\* The logged frames at the indices in K, in order.
Logged(K) ==
  [r \in 1..Cardinality(K) |->
     log[CHOOSE k \in K : Cardinality({i \in K : i <= k}) = r]]

\* Slip: the boundary frame is sent again.
ReplaySlip(after) == Logged({k \in DOMAIN log : log[k].seq >= after})

\* GET /runs/{id}/events: the logged frames past a sequence number.
Replay(after) == Logged({k \in DOMAIN log : log[k].seq > after})

------------------------------------------------------------------------------
(* The streaming task.                                                       *)

\* Other tasks run only while the pump is suspended.
LoopFree == pPc # "call"
Suspended == {"recall", "get", "plan"}
PumpAlive == pPc \in {"start", "think", "call", "approval", "tool"}

Emit(e) ==
  /\ emitted' = Append(emitted, e)
  /\ RecordEvent(Len(emitted) + 1, e)
  /\ sPc' = "send"

\* Slip: the finally of the event generator forgets the pump.
CancelPumpSlip == UNCHANGED pCancel

\* task.cancel() on the pump: it is thrown in where the pump is suspended.
CancelPump == pCancel' = (pCancel \/ PumpAlive)

PumpRest == <<pPc, turn, calls, stepN, reasonId, toolId, replans, failure, queue>>

\* The response starts iterating run_query: create, begin, metadata, audit,
\* task registration, and the first frame.
StartRun ==
  /\ sPc = "idle"
  /\ status' = "running" /\ live' = TRUE
  /\ emitted' = <<State("thinking")>>
  /\ log' = <<[seq |-> 1, e |-> State("thinking")]>>
  /\ sPc' = "send"
  /\ UNCHANGED <<steps, final, mirrored, phase, script, sawError, pinned,
                 toolCount, expired, cancelReq, spentOn, pump, approval, outer>>

\* The wall clock passes run.deadline.
DeadlinePasses ==
  /\ LoopFree /\ HasDeadline /\ ~expired /\ sPc \notin {"idle", "closed"}
  /\ expired' = TRUE
  /\ UNCHANGED <<record, sPc, phase, script, emitted, sawError, pinned,
                 toolCount, cancelReq, spentOn, pump, approval, outer>>

\* The generator is resumed after a frame went out.
Resumed == sPc = "send" /\ ~cancelReq /\ LoopFree

\* budget_exceeded: set_final, then error / state / done, then finish.
EnterBudget(reason) ==
  /\ SetFinal("error")
  /\ phase' = "budget" /\ spentOn' = reason
  /\ script' = <<State("error"), DoneFrame>>
  /\ Emit(Ev("error", 0, ""))

\* The check at the top of the loop, before the next event is asked for.
DeadlineAtTop ==
  /\ Resumed /\ expired /\ phase # "budget"
  /\ EnterBudget("time")
  /\ UNCHANGED <<status, live, steps, mirrored, sawError, pinned, toolCount,
                 expired, cancelReq, pump, approval, outer>>

\* Slip: the deadline is looked at only when an event is there to forward.
DeadlineFiresSlip ==
  /\ sPc = "get" /\ queue # <<>> /\ ~cancelReq /\ LoopFree /\ expired
  /\ EnterBudget("time") /\ CancelPump
  /\ UNCHANGED <<status, live, steps, mirrored, sawError, pinned, toolCount,
                 expired, cancelReq, PumpRest, approval, outer>>

\* wait_for(agen.__anext__(), remaining) times out: the event generator is
\* cancelled where it waits, and its finally cancels the pump.
DeadlineFires ==
  /\ sPc \in Suspended /\ ~cancelReq /\ LoopFree /\ expired
  /\ EnterBudget("time") /\ CancelPump
  /\ UNCHANGED <<status, live, steps, mirrored, sawError, pinned, toolCount,
                 expired, cancelReq, PumpRest, approval, outer>>

BudgetNext ==
  /\ Resumed /\ phase = "budget" /\ script # <<>>
  /\ Emit(Head(script)) /\ script' = Tail(script)
  /\ UNCHANGED <<status, live, steps, final, mirrored, phase, sawError, pinned,
                 toolCount, expired, cancelReq, spentOn, pump, approval, outer>>

\* finish "failed", return, and the finally that closes the event generator.
BudgetFinish ==
  /\ Resumed /\ phase = "budget" /\ script = <<>>
  /\ UpdateStatus("failed") /\ sPc' = "closed" /\ CancelPump
  /\ UNCHANGED <<live, log, steps, final, mirrored, phase, script, emitted,
                 sawError, pinned, toolCount, expired, cancelReq, spentOn,
                 PumpRest, approval, outer>>

ResumeRecall ==
  /\ Resumed /\ ~expired /\ phase = "start"
  /\ sPc' = "recall"
  /\ UNCHANGED <<record, phase, script, emitted, sawError, pinned, toolCount,
                 expired, cancelReq, spentOn, pump, approval, outer>>

\* recall_block answered (it never raises); the pump task is created.
Recalled ==
  /\ sPc = "recall" /\ ~cancelReq /\ LoopFree
  /\ sPc' = "get" /\ phase' = "agent" /\ pPc' = "start"
  /\ UNCHANGED <<record, script, emitted, sawError, pinned, toolCount, expired,
                 cancelReq, spentOn, turn, calls, stepN, reasonId, toolId,
                 replans, failure, pCancel, queue, approval, outer>>

ResumeGet ==
  /\ Resumed /\ ~expired /\ phase = "agent"
  /\ sPc' = "get"
  /\ UNCHANGED <<record, phase, script, emitted, sawError, pinned, toolCount,
                 expired, cancelReq, spentOn, pump, approval, outer>>

Getting == sPc = "get" /\ ~cancelReq /\ LoopFree /\ queue # <<>>
Popped  == queue' = Tail(queue)
PumpButQueue == <<pPc, turn, calls, stepN, reasonId, toolId, replans, failure,
                  pCancel>>

OverBudget(e) ==
  /\ e.ev = "tool" /\ e.st = "running"
  /\ ToolBudget > 0 /\ toolCount + 1 > ToolBudget

\* A step event: mirrored into the registry, counted, checked against the
\* tool budget; over it, the budget frames replace the step frame.
ForwardStep ==
  /\ Getting /\ Head(queue).ev \in StepKinds
  /\ LET e == Head(queue) IN
       /\ RecordStep(e)
       /\ toolCount' = toolCount
            + (IF e.ev = "tool" /\ e.st = "running" THEN 1 ELSE 0)
       /\ IF OverBudget(e)
          THEN EnterBudget("tools")
          ELSE Emit(e) /\ UNCHANGED <<phase, script, spentOn, final>>
  /\ Popped
  /\ UNCHANGED <<status, live, mirrored, sawError, pinned, expired, cancelReq,
                 PumpButQueue, approval, outer>>

\* Any other event of the agent; a preview materialises as a viz frame and
\* pins the component the planner may choose.
ForwardEvent ==
  /\ Getting /\ Head(queue).ev \notin StepKinds \cup {"end"}
  /\ LET e == Head(queue) IN
       /\ Emit(IF e.ev = "preview" THEN Ev("viz", 0, e.st) ELSE e)
       /\ pinned' = IF e.ev = "preview" THEN e.st = "map" ELSE pinned
  /\ Popped
  /\ UNCHANGED <<status, live, steps, final, mirrored, phase, script, sawError,
                 toolCount, expired, cancelReq, spentOn, PumpButQueue, approval,
                 outer>>

\* The except branches: error / state / done, then the generator ends.
StageError ==
  /\ sawError' = TRUE /\ SetFinal("error")
  /\ phase' = "tail" /\ script' = <<State("error"), DoneFrame>>
  /\ Emit(Ev("error", 0, ""))

AgentFailed ==
  /\ Getting /\ Head(queue) = EndOfAgent /\ failure
  /\ StageError /\ Popped
  /\ UNCHANGED <<status, live, steps, mirrored, pinned, toolCount, expired,
                 cancelReq, spentOn, PumpButQueue, approval, outer>>

VizTail == <<Ev("viz", 0, ""), State("speaking"), Ev("answer", 0, ""), DoneFrame>>

\* The agent finished and a map preview already is the answer: no planner.
AgentFinishedOnMap ==
  /\ Getting /\ Head(queue) = EndOfAgent /\ ~failure /\ pinned
  /\ phase' = "tail" /\ script' = VizTail /\ Emit(State("visualizing")) /\ Popped
  /\ UNCHANGED <<status, live, steps, final, mirrored, sawError, pinned,
                 toolCount, expired, cancelReq, spentOn, PumpButQueue, approval,
                 outer>>

AgentFinished ==
  /\ Getting /\ Head(queue) = EndOfAgent /\ ~failure /\ ~pinned
  /\ sPc' = "plan" /\ Popped
  /\ UNCHANGED <<record, phase, script, emitted, sawError, pinned, toolCount,
                 expired, cancelReq, spentOn, PumpButQueue, approval, outer>>

Planned ==
  /\ sPc = "plan" /\ ~cancelReq /\ LoopFree
  /\ phase' = "tail" /\ script' = VizTail /\ Emit(State("visualizing"))
  /\ UNCHANGED <<status, live, steps, final, mirrored, sawError, pinned,
                 toolCount, expired, cancelReq, spentOn, pump, approval, outer>>

PlannerFailed ==
  /\ sPc = "plan" /\ ~cancelReq /\ LoopFree
  /\ StageError
  /\ UNCHANGED <<status, live, steps, mirrored, pinned, toolCount, expired,
                 cancelReq, spentOn, pump, approval, outer>>

\* The next frame of the tail.  memory.remember runs just before the answer
\* frame, the evidence is mirrored just before the done frame.
TailNext ==
  /\ Resumed /\ ~expired /\ phase = "tail" /\ script # <<>>
  /\ Emit(Head(script)) /\ script' = Tail(script)
  /\ IF Head(script).ev = "answer"
     THEN SetFinal("answer") /\ remembered' = TRUE
     ELSE UNCHANGED <<final, remembered>>
  /\ mirrored' = \/ mirrored
                 \/ Head(script) = DoneFrame /\ ~sawError /\ Recordable
  /\ UNCHANGED <<status, live, steps, phase, sawError, pinned, toolCount,
                 expired, cancelReq, spentOn, pump, approval, trail, doomed>>

\* StopAsyncIteration: finish, audit, close.
FinishRun ==
  /\ Resumed /\ ~expired /\ phase = "tail" /\ script = <<>>
  /\ LET end == IF sawError THEN "failed" ELSE "completed" IN
       /\ UpdateStatus(end)
       /\ trail' = Append(trail, IF sawError THEN "finished failed"
                                 ELSE "finished completed")
  /\ sPc' = "closed"
  /\ UNCHANGED <<live, log, steps, final, mirrored, phase, script, emitted,
                 sawError, pinned, toolCount, expired, cancelReq, spentOn, pump,
                 approval, remembered, doomed>>

------------------------------------------------------------------------------
(* Cancellation.  An answered approval whose wake-up is already scheduled    *)
(* runs before a cancellation scheduled after it, and after one scheduled    *)
(* before it: the loop's ready queue is first in, first out.                 *)

Answered(i) == \E d \in answered : d.id = i
AnswerWaking == pPc = "approval" /\ Answered(toolId) /\ ~lateAnswer

\* CancelledError thrown at the generator's own await.
StreamCancelled ==
  /\ cancelReq /\ sPc \in Suspended /\ LoopFree /\ ~AnswerWaking
  /\ UpdateStatus("cancelled") /\ sPc' = "closed" /\ CancelPump
  /\ trail' = Append(trail, "finished cancelled")
  /\ UNCHANGED <<live, log, steps, final, mirrored, phase, script, emitted,
                 sawError, pinned, toolCount, expired, cancelReq, spentOn,
                 PumpRest, approval, remembered, doomed>>

\* CancelledError thrown inside the server's send: the response dies and
\* leaves the generator suspended at its yield.
SendCancelled ==
  /\ cancelReq /\ sPc = "send" /\ LoopFree /\ ~AnswerWaking
  /\ sPc' = "orphan"
  /\ UNCHANGED <<record, phase, script, emitted, sawError, pinned, toolCount,
                 expired, cancelReq, spentOn, pump, approval, outer>>

\* The abandoned generator is finalised: GeneratorExit at the yield takes the
\* BaseException branch.
GeneratorClosed ==
  /\ sPc = "orphan" /\ LoopFree
  /\ UpdateStatus("failed") /\ sPc' = "closed" /\ CancelPump
  /\ trail' = Append(trail, "finished failed")
  /\ UNCHANGED <<live, log, steps, final, mirrored, phase, script, emitted,
                 sawError, pinned, toolCount, expired, cancelReq, spentOn,
                 PumpRest, approval, remembered, doomed>>

\* The client drops the connection: the server cancels the response task.
Disconnect ==
  /\ LoopFree /\ sPc \in {"send"} \cup Suspended /\ ~cancelReq
  /\ cancelReq' = TRUE
  /\ UNCHANGED <<record, sPc, phase, script, emitted, sawError, pinned,
                 toolCount, expired, spentOn, pump, approval, outer>>

\* POST /runs/{id}/cancel on a run the registry still holds live.
CancelRun ==
  /\ LoopFree /\ Recordable
  /\ status' = "cancelled"
  /\ cancelReq' = (cancelReq \/ sPc \in {"send"} \cup Suspended)
  /\ trail' = Append(trail, "cancelled by request")
  /\ doomed' = doomed \cup {i \in pending : ~Answered(i)}
  /\ UNCHANGED <<live, log, steps, final, mirrored, sPc, phase, script, emitted,
                 sawError, pinned, toolCount, expired, spentOn, pump, approval,
                 remembered>>

\* Another query's create pushed this run over the registry's cap.
EvictRun ==
  /\ LoopFree /\ live
  /\ live' = FALSE
  /\ UNCHANGED <<status, log, steps, final, mirrored, stream, pump, approval,
                 outer>>

------------------------------------------------------------------------------
(* The approval endpoint.                                                    *)

\* A client knows a request id once the confirm frame has been sent.
Delivered(i) ==
  \E n \in 1..Len(emitted) :
    /\ emitted[n] = Ev("confirm", i, "")
    /\ n = Len(emitted) => sPc \notin {"send", "orphan"}

\* POST /confirm: resolves the future of a pending, undecided request; any
\* other id, late or repeated, is a 404 that changes nothing.
Confirm(i, ok) ==
  /\ LoopFree /\ Delivered(i)
  /\ i \in pending /\ ~Answered(i)
  /\ answered' = answered \cup {[id |-> i, ok |-> ok]}
  /\ lateAnswer' = cancelReq
  /\ UNCHANGED <<record, stream, pump, pending, resolved, ran, outer>>

------------------------------------------------------------------------------
(* The pump: one agent loop.  PumpRuns: the pump is scheduled where it is    *)
(* suspended at w and nobody cancelled it.                                   *)

PumpRuns(w) == pPc = w /\ ~pCancel
Put(es) == queue' = queue \o es

Step(kind, i, st) == Ev(kind, i, st)

\* The end of a turn: another model call, or the step budget is spent.
NextTurn(es) ==
  IF turn < MaxTurns
  THEN /\ turn' = turn + 1 /\ stepN' = stepN + 1 /\ reasonId' = stepN + 1
       /\ Put(es \o <<Step("reason", stepN + 1, "running")>>)
       /\ pPc' = "think"
  ELSE /\ Put(es \o <<EndOfAgent>>) /\ pPc' = "ended"
       /\ UNCHANGED <<turn, stepN, reasonId>>

PumpStarts ==
  /\ PumpRuns("start")
  /\ turn' = 1 /\ stepN' = 1 /\ reasonId' = 1
  /\ Put(<<Step("reason", 1, "running")>>) /\ pPc' = "think"
  /\ UNCHANGED <<record, stream, calls, toolId, replans, failure, pCancel,
                 approval, outer>>

\* Slip: the exception leaves no sentinel in the queue.
ModelFailsSlip ==
  /\ PumpRuns("think")
  /\ failure' = TRUE /\ pPc' = "ended"
  /\ UNCHANGED <<record, stream, turn, calls, stepN, reasonId, toolId, replans,
                 pCancel, queue, approval, outer>>

\* The model call raised: the exception leaves the loop through the pump.
ModelFails ==
  /\ PumpRuns("think")
  /\ failure' = TRUE /\ Put(<<EndOfAgent>>) /\ pPc' = "ended"
  /\ UNCHANGED <<record, stream, turn, calls, stepN, reasonId, toolId, replans,
                 pCancel, approval, outer>>

ModelCallsTools ==
  /\ PumpRuns("think")
  /\ Put(<<Step("reason", reasonId, "completed")>>)
  /\ calls' \in 1..MaxCalls /\ pPc' = "call"
  /\ UNCHANGED <<record, stream, turn, stepN, reasonId, toolId, replans,
                 failure, pCancel, approval, outer>>

\* Final text: it passed the verifier, or no replan is left.
ModelAnswers ==
  /\ PumpRuns("think")
  /\ stepN' = stepN + 1
  /\ Put(<<Step("reason", reasonId, "completed"),
           Step("answer_step", stepN + 1, "completed"), EndOfAgent>>)
  /\ pPc' = "ended"
  /\ UNCHANGED <<record, stream, turn, calls, reasonId, toolId, replans,
                 failure, pCancel, approval, outer>>

\* Final text the verifier refused: one more pass, and the reason step of
\* this one is not closed.
ModelReplans ==
  /\ PumpRuns("think") /\ replans < MaxReplans
  /\ replans' = replans + 1
  /\ LET failed == Step("verification", stepN + 1, "failed") IN
     IF turn < MaxTurns
     THEN /\ turn' = turn + 1 /\ stepN' = stepN + 2 /\ reasonId' = stepN + 2
          /\ Put(<<failed, Step("reason", stepN + 2, "running")>>)
          /\ pPc' = "think"
     ELSE /\ stepN' = stepN + 1 /\ Put(<<failed, EndOfAgent>>) /\ pPc' = "ended"
          /\ UNCHANGED <<turn, reasonId>>
  /\ UNCHANGED <<record, stream, calls, toolId, failure, pCancel, approval,
                 outer>>

\* A name no tool has: the model is told, nothing is emitted.
CallUnknown ==
  /\ PumpRuns("call") /\ calls > 0
  /\ calls' = calls - 1
  /\ UNCHANGED <<record, stream, pPc, turn, stepN, reasonId, toolId, replans,
                 failure, pCancel, queue, approval, outer>>

\* The policy refuses the call outright.
CallDenied ==
  /\ PumpRuns("call") /\ calls > 0
  /\ calls' = calls - 1 /\ stepN' = stepN + 1 /\ toolId' = stepN + 1
  /\ Put(<<Step("tool", stepN + 1, "running"), Step("tool", stepN + 1, "failed"),
           Ev("denied", 0, "")>>)
  /\ UNCHANGED <<record, stream, pPc, turn, reasonId, replans, failure, pCancel,
                 approval, outer>>

\* Slip: the request goes out under the id of the request before it.
CallAsksSlip ==
  /\ PumpRuns("call") /\ calls > 0
  /\ stepN' = stepN + 1 /\ pending' = pending \cup {toolId}
  /\ lateAnswer' = FALSE
  /\ UpdateStatus("waiting_approval")
  /\ Put(<<Step("tool", toolId, "running"),
           Step("tool", toolId, "waiting_approval"), Ev("confirm", toolId, "")>>)
  /\ pPc' = "approval"
  /\ UNCHANGED <<live, log, steps, final, mirrored, stream, turn, calls,
                 toolId, reasonId, replans, failure, pCancel, answered, resolved,
                 ran, outer>>

\* ask_human or step_up: approve() opens a request and waits on it.
CallAsks ==
  /\ PumpRuns("call") /\ calls > 0
  /\ stepN' = stepN + 1 /\ toolId' = stepN + 1
  /\ pending' = pending \cup {stepN + 1} /\ lateAnswer' = FALSE
  /\ UpdateStatus("waiting_approval")
  /\ Put(<<Step("tool", stepN + 1, "running"),
           Step("tool", stepN + 1, "waiting_approval"),
           Ev("confirm", stepN + 1, "")>>)
  /\ pPc' = "approval"
  /\ UNCHANGED <<live, log, steps, final, mirrored, stream, turn, calls,
                 reasonId, replans, failure, pCancel, answered, resolved, ran,
                 outer>>

RunsTool(i) == <<State("tool_execution"), Ev("tool_call", i, "")>>

CallAllowed ==
  /\ PumpRuns("call") /\ calls > 0
  /\ stepN' = stepN + 1 /\ toolId' = stepN + 1
  /\ Put(<<Step("tool", stepN + 1, "running")>> \o RunsTool(stepN + 1))
  /\ ran' = ran \cup {[id |-> stepN + 1, gated |-> FALSE]}
  /\ pPc' = "tool"
  /\ UNCHANGED <<record, stream, turn, calls, reasonId, replans, failure,
                 pCancel, pending, answered, lateAnswer, resolved, outer>>

\* The finally of approve(): whatever the outcome, the request is closed and
\* the run goes back to running -- unless it is terminal.
CloseRequest(how) ==
  /\ resolved' = resolved \cup {[id |-> toolId, how |-> how]}
  /\ pending' = pending \ {toolId}
  /\ UpdateStatus("running")
  /\ UNCHANGED <<live, log, steps, final, mirrored, answered, lateAnswer>>

\* Slip: any answer wakes the wait, wherever the cancellation stands.
MayWakeSlip == TRUE

\* The wake-up of a decision that came after the stream's cancellation stays
\* behind it in the loop's ready queue.
MayWake == ~(lateAnswer /\ cancelReq /\ sPc \in {"send"} \cup Suspended)

ApprovalGranted ==
  /\ PumpRuns("approval") /\ MayWake
  /\ [id |-> toolId, ok |-> TRUE] \in answered
  /\ CloseRequest("granted")
  /\ Put(<<Step("tool", toolId, "running")>> \o RunsTool(toolId))
  /\ ran' = ran \cup {[id |-> toolId, gated |-> TRUE]}
  /\ pPc' = "tool"
  /\ UNCHANGED <<stream, turn, calls, stepN, reasonId, toolId, replans, failure,
                 pCancel, outer>>

\* Slip: a call that was not approved in time runs all the same.
RefuseCallSlip ==
  /\ Put(RunsTool(toolId)) /\ pPc' = "tool"
  /\ ran' = ran \cup {[id |-> toolId, gated |-> TRUE]}
  /\ UNCHANGED <<stream, turn, calls, stepN, reasonId, toolId, replans, failure,
                 pCancel, outer>>

RefuseCall ==
  /\ Put(<<Step("tool", toolId, "failed"), Ev("denied", 0, "")>>)
  /\ calls' = calls - 1 /\ pPc' = "call"
  /\ UNCHANGED <<stream, turn, stepN, reasonId, toolId, replans, failure,
                 pCancel, ran, outer>>

ApprovalDenied ==
  /\ PumpRuns("approval") /\ MayWake
  /\ [id |-> toolId, ok |-> FALSE] \in answered
  /\ CloseRequest("denied") /\ RefuseCall

\* confirm_timeout_s elapsed.  It also wins over a decision whose wake-up has
\* not run yet: wait_for cancels the wait it is still suspended in.
ApprovalTimesOut ==
  /\ PumpRuns("approval")
  /\ CloseRequest("timeout") /\ RefuseCall

Shown(what) ==
  IF what = "none" THEN <<>>
  ELSE IF what = "memory" THEN <<Ev("memory", 0, "")>>
  ELSE <<Ev("preview", 0, what)>>

\* tool.run returned or raised (a timeout_s of the tool raises too); the
\* remember tool tells the HUD, a tool with a preview shows it.
ToolReturns ==
  /\ PumpRuns("tool")
  /\ \E ok \in BOOLEAN, shows \in ToolShows :
       /\ ~ok => shows = "none"
       /\ Put(<<Step("tool", toolId, IF ok THEN "completed" ELSE "failed")>>
                \o Shown(shows))
  /\ calls' = calls - 1 /\ pPc' = "call"
  /\ UNCHANGED <<record, stream, turn, stepN, reasonId, toolId, replans,
                 failure, pCancel, approval, outer>>

TurnOver ==
  /\ PumpRuns("call") /\ calls = 0
  /\ NextTurn(<<State("processing")>>)
  /\ UNCHANGED <<record, stream, calls, toolId, replans, failure, pCancel,
                 approval, outer>>

\* CancelledError at the pump's await: it leaves the agent loop, closes an
\* open request as cancelled, is swallowed as the failure, and the sentinel
\* goes out.  A task cancelled before its first step never runs at all.
PumpCancelled ==
  /\ pCancel /\ pPc \in {"start", "think", "approval", "tool"}
  /\ pPc' = "ended"
  /\ IF pPc = "start" THEN UNCHANGED <<failure, queue>>
     ELSE failure' = TRUE /\ Put(<<EndOfAgent>>)
  /\ IF pPc = "approval" THEN CloseRequest("cancelled") /\ UNCHANGED ran
     ELSE UNCHANGED <<record, approval>>
  /\ UNCHANGED <<stream, turn, calls, stepN, reasonId, toolId, replans, pCancel,
                 outer>>

------------------------------------------------------------------------------
StreamStep ==
  \/ DeadlineAtTop \/ DeadlineFires \/ BudgetNext \/ BudgetFinish
  \/ ResumeRecall \/ Recalled \/ ResumeGet \/ ForwardStep \/ ForwardEvent
  \/ AgentFailed \/ AgentFinishedOnMap \/ AgentFinished \/ Planned
  \/ PlannerFailed \/ TailNext \/ FinishRun
  \/ StreamCancelled \/ SendCancelled \/ GeneratorClosed

PumpStep ==
  \/ PumpStarts \/ ModelFails \/ ModelCallsTools \/ ModelAnswers \/ ModelReplans
  \/ CallUnknown \/ CallDenied \/ CallAsks \/ CallAllowed
  \/ ApprovalGranted \/ ApprovalDenied \/ ApprovalTimesOut
  \/ ToolReturns \/ TurnOver \/ PumpCancelled

Outside ==
  \/ StartRun \/ DeadlinePasses \/ Disconnect \/ CancelRun \/ EvictRun
  \/ \E i \in pending, ok \in BOOLEAN : Confirm(i, ok)

Next == StreamStep \/ PumpStep \/ Outside

Spec == Init /\ [][Next]_vars

------------------------------------------------------------------------------
(* Fairness.  The loop schedules whatever is ready.  The model and the tools  *)
(* answer or raise (the client has a 60 s timeout), the approval wait has a   *)
(* timer, a send completes or the connection drops, an abandoned generator    *)
(* is finalised.  People and clocks owe nothing.                              *)

FairSpec == Spec /\ WF_vars(StreamStep) /\ WF_vars(PumpStep)

\* With a wall-time budget only the loop and the clock are needed: the model,
\* the tools, the recall and the planner may stay silent for ever.
LoopStep ==
  \/ DeadlineAtTop \/ DeadlineFires \/ BudgetNext \/ BudgetFinish
  \/ ResumeRecall \/ ResumeGet \/ ForwardStep \/ ForwardEvent
  \/ AgentFailed \/ AgentFinishedOnMap \/ AgentFinished \/ TailNext \/ FinishRun
  \/ StreamCancelled \/ SendCancelled \/ GeneratorClosed

PumpBusy == CallUnknown \/ CallDenied \/ CallAsks \/ CallAllowed \/ TurnOver

SilentSpec ==
  /\ Spec
  /\ WF_vars(LoopStep) /\ WF_vars(PumpBusy) /\ WF_vars(PumpCancelled)
  /\ WF_vars(DeadlinePasses)
  /\ WF_vars(ApprovalGranted) /\ WF_vars(ApprovalDenied)

------------------------------------------------------------------------------
(* Safety.                                                                    *)

\* Part of the inductive form below: what ran behind the gate has an approval
\* of its own request (agent.py 224-241, routes.py approve).
ApprovalGate ==
  \A r \in ran : r.gated => [id |-> r.id, ok |-> TRUE] \in answered

\* A request the human never approved in time leaves no execution behind, and
\* every request gets one audited verdict at most (routes.py 183-200).
RefusedNeverRuns ==
  /\ \A v \in resolved : v.how # "granted" =>
       \A r \in ran : r.id # v.id
  /\ \A v, w \in resolved : v.id = w.id => v = w

\* While the registry holds the run live, it shows waiting_approval exactly
\* while a request of this run is in PENDING (routes.py 168, 205).
WaitingIffPending ==
  Recordable => (status = "waiting_approval" <=> pending # {})

\* PENDING never outlives its wait: an entry is there exactly while the pump
\* is suspended in approve() on it, whatever ended the wait.
PendingIsWaitedOn ==
  pending = IF pPc = "approval" THEN {toolId} ELSE {}

\* The inductive form of the three invariants of the gate.  Request ids are
\* fresh: everything the gate ever heard of lies at or below the step counter,
\* and an answer belongs to a request that is open or closed, so the request
\* a call opens next has no answer, no verdict and no execution yet.
SpentIds == {v.id : v \in resolved}
RanIds == {r.id : r \in ran}

FreshIds ==
  /\ toolId <= stepN
  /\ \A i \in pending \cup SpentIds \cup RanIds : i <= stepN
  /\ \A d \in answered : d.id \in pending \cup SpentIds
  /\ pPc = "approval" => toolId \notin SpentIds \cup RanIds
  /\ pPc \in {"none", "start"} => stepN = 0

\* Before the recall is over no pump exists, before the response starts no run.
StageOrder ==
  /\ sPc \in {"idle", "recall"} => phase = "start"
  /\ phase = "start" => pPc = "none"
  /\ sPc = "idle" <=> status = "absent"
  /\ sPc = "idle" => ~live
  /\ status # "expired"

GateInv ==
  /\ StageOrder /\ FreshIds /\ PendingIsWaitedOn /\ WaitingIffPending
  /\ ApprovalGate /\ RefusedNeverRuns

\* The replay log is the tail of what was streamed, under the same sequence
\* numbers and without a gap, so a reconnecting client that got the first n
\* frames is given exactly the rest, as long as the log still reaches back
\* that far (runs.py record_event, routes.py replay_run).
ReplayExact ==
  live => \A n \in 0..Len(emitted) :
    Len(emitted) - n <= LogCap =>
      /\ Len(Replay(n)) = Len(emitted) - n
      /\ \A k \in 1..Len(Replay(n)) :
           Replay(n)[k] = [seq |-> n + k, e |-> emitted[n + k]]

\* When the streaming task is gone the pump is over or has been told to stop:
\* no agent loop keeps calling models and tools for a run nobody streams.
NoOrphanPump == sPc = "closed" => pPc \in {"none", "ended"} \/ pCancel

\* A cancelled run's open request dies unapproved: a decision that arrives
\* after the cancel was accepted never releases the tool, although PENDING
\* still holds the request until the pump is told (routes.py:465 cancel_run,
\* "never resolved as approved").  So it is without a wall-time budget; with
\* one, a cancel among the budget frames breaks it.
CancelledWaitDies ==
  \A i \in doomed : \A r \in ran : r.id # i

\* What makes them inductive.  For the replay: the log is the tail of the
\* frames sent, and nothing is sent any more for a run that is over, since
\* its log has stopped.
LogIsTail ==
  live =>
    /\ Len(log) = IF Len(emitted) <= LogCap THEN Len(emitted) ELSE LogCap
    /\ \A k \in 1..Len(log) :
         LET n == Len(emitted) - Len(log) + k
         IN  log[k] = [seq |-> n, e |-> emitted[n]]

SilentAfterEnd ==
  live /\ status \in Terminal => cancelReq \/ sPc \in {"orphan", "closed"}

ReplayInv == LogIsTail /\ SilentAfterEnd

\* For the pump: the sentinel is its last word, and only the sentinel takes
\* the stream past the agent.
PumpInv ==
  /\ \A k \in 1..Len(queue) : queue[k].ev = "end" => pPc = "ended"
  /\ sPc = "plan" \/ phase = "tail" => pPc = "ended"
  /\ NoOrphanPump

\* For the wait that a cancel dooms: the frame that asks for a decision is
\* the last the pump produced, so while the request is open nothing follows
\* it; a decision on a doomed request then finds the stream waiting behind it
\* with its cancellation on the way, or the pump told to stop.
AskIsLast ==
  /\ \A k \in 1..Len(queue) : queue[k].ev = "confirm" =>
       /\ queue[k].id <= stepN
       /\ pPc = "approval" /\ queue[k].id = toolId => k = Len(queue)
  /\ \A k \in 1..Len(emitted) : emitted[k].ev = "confirm" =>
       /\ emitted[k].id <= stepN
       /\ pPc = "approval" /\ emitted[k].id = toolId =>
            k = Len(emitted) /\ queue = <<>> /\ phase = "agent"
  /\ \A k \in 1..Len(script) : script[k].ev # "confirm"
  /\ sPc = "get" => phase = "agent"

DoomedWait ==
  \A i \in doomed :
    /\ i \in pending \cup SpentIds
    /\ i \in pending =>
         /\ cancelReq \/ sPc \in {"orphan", "closed"}
         /\ Answered(i) => pCancel \/ (lateAnswer /\ cancelReq /\ sPc = "get")

WaitInv == ~expired /\ AskIsLast /\ DoomedWait /\ CancelledWaitDies

\* Terminal is final: whoever still writes -- the approval gate's finally,
\* a second cancel, the streaming task's own end -- cannot move a run out of
\* its terminal status (runs.py update_status).
TerminalIsFinal ==
  [][(status \in Terminal) => (status' = status)]_vars

\* The run implements its promise: the status is the registry's, the open
\* requests are the keys of PENDING, a closed request is an audited one, and
\* what ran is what the gate released.
GatedIds == {r.id : r \in {x \in ran : x.gated}}

Promise == INSTANCE RunPromise WITH
  held <- live, open <- pending, spent <- SpentIds, ran <- GatedIds

KeepsPromise == Promise!Spec

------------------------------------------------------------------------------
(* Liveness.                                                                  *)

Over == sPc = "closed" /\ pPc \in {"none", "ended"}

\* Every run that starts ends: the stream closes, the pump stops, and the
\* registry (if it still holds the run) shows a terminal status.
RunEnds == sPc = "send" ~> Over /\ (live => status \in Terminal)

\* A wall-time budget bounds silence: with a deadline the run ends even if
\* model, tools, planner and human never answer (routes.py 383-404).
DeadlineEndsSilence == sPc = "send" ~> Over /\ (live => status \in Terminal)

------------------------------------------------------------------------------
(* What the documents say and the code does not do.                           *)

=============================================================================
