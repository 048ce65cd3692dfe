-------------------------- MODULE RunStreamProofs --------------------------
(***************************************************************************)
(* What a run keeps, for all bounds: its types, the approval gate, the     *)
(* promise of RunPromise, the pump, the replay log, and the wait a cancel  *)
(* dooms.                                                                  *)
(*                                                                         *)
(* TypeOK is a conjunction of parts that speak of disjoint variables       *)
(* (record, stream, pump, counters, gate), and it is inductive as it       *)
(* stands.  Lemmas about the helpers come first (what update_status,       *)
(* record_event, the queue and the frames of an error path do to the part  *)
(* they write); then one lemma per action, which proves the parts the      *)
(* action writes and leaves the others to UNCHANGED; TypeNext puts the     *)
(* cases together.                                                         *)
(*                                                                         *)
(* None of the others is inductive alone.  That an execution has an        *)
(* approval survives a new request only because the request id is fresh,   *)
(* and the status tells of PENDING only because an entry of PENDING is     *)
(* there exactly while the pump waits on it: GateInv adds those facts.     *)
(* The steps fall into a few classes by what they do to the gate: the      *)
(* streaming task (StreamEffect), a pump that asks nobody, approve()       *)
(* opening a request, its finally closing one, and confirm.  The same      *)
(* classes show that the run implements RunPromise.                        *)
(*                                                                         *)
(* No pump is left behind because only the sentinel, the pump's last word, *)
(* takes the stream past the agent (PumpInv).  The replay is exact because *)
(* the log is the tail of the stream, and nothing is sent after the        *)
(* terminal status that stops the log (ReplayInv).  A doomed wait dies     *)
(* because the frame that asks for a decision is the last one until the    *)
(* wait is over, so whoever answers it finds the stream suspended behind   *)
(* it, or gone (WaitInv).                                                  *)
(***************************************************************************)
EXTENDS RunStream, FiniteSetTheorems, SequenceTheorems, TLAPS

------------------------------------------------------------------------------
(* Types.                                                                   *)

\* Ev builds an event out of the kinds, ids and marks of the stream.
LEMMA EvType ==
  ASSUME NEW k \in EventKinds, NEW i \in Nat, NEW s \in Marks
  PROVE  Ev(k, i, s) \in Event
BY DEF Ev, Event

\* The empty script or queue is a sequence over anything.
LEMMA EmptyIsSeq == \A S : <<>> \in Seq(S)
OBVIOUS

\* The short scripts the handlers write are sequences of events.
LEMMA TupleIsSeq ==
  ASSUME NEW S
  PROVE  /\ \A a \in S : <<a>> \in Seq(S)
         /\ \A a, b \in S : <<a, b>> \in Seq(S)
         /\ \A a, b, c \in S : <<a, b, c>> \in Seq(S)
         /\ \A a, b, c, d \in S : <<a, b, c, d>> \in Seq(S)
OBVIOUS

\* The bounds of a run are naturals.
LEMMA BoundsAreNat == MaxTurns \in Nat /\ MaxCalls \in Nat /\ MaxReplans \in Nat
BY BoundsAssumption

\* What the agent yields before a tool runs (agent.py 243-244) are events.
LEMMA RunsToolType ==
  ASSUME NEW i \in Nat
  PROVE  <<Step("tool", i, "running")>> \o RunsTool(i) \in Seq(Event)
<1>1. /\ Step("tool", i, "running") \in Event
      /\ State("tool_execution") \in Event /\ Ev("tool_call", i, "") \in Event
  BY DEF Step, State, Ev, Event, EventKinds, StepKinds, Marks
<1>2. <<Step("tool", i, "running")>> \in Seq(Event) /\ RunsTool(i) \in Seq(Event)
  BY <1>1, TupleIsSeq, Zenon DEF RunsTool
<1>3. QED
  BY <1>2, ConcatProperties

\* update_status keeps the types of the record.
LEMMA UpdateType ==
  ASSUME RecordTypes, NEW n \in Statuses, UpdateStatus(n)
  PROVE  status' \in Statuses
BY DEF RecordTypes, UpdateStatus

\* Cutting the replay log to its cap leaves a log (runs.py 217).
LEMMA TrimType ==
  ASSUME NEW s \in Seq(Frame)
  PROVE  Trim(s) \in Seq(Frame)
<1>1. CASE Len(s) > LogCap
  <2>1. Len(s) \in Nat /\ LogCap \in Nat /\ Len(s) - LogCap + 1 >= 1
    BY <1>1, LenProperties, BoundsAssumption
  <2>2. \A i \in (Len(s) - LogCap + 1)..Len(s) : s[i] \in Frame
    BY <2>1, ElementOfSeq
  <2>3. SubSeq(s, Len(s) - LogCap + 1, Len(s)) \in Seq(Frame)
    BY <2>1, <2>2, SubSeqProperties
  <2>4. QED
    BY <1>1, <2>3 DEF Trim
<1>2. CASE ~(Len(s) > LogCap)
  BY <1>2 DEF Trim
<1>3. QED
  BY <1>1, <1>2

\* record_event keeps the types of the record.
LEMMA RecordEventType ==
  ASSUME RecordTypes, NEW n \in Nat, NEW e \in Event, RecordEvent(n, e)
  PROVE  log' \in Seq(Frame)
<1>1. [seq |-> n, e |-> e] \in Frame
  BY DEF Frame
<1>2. Append(log, [seq |-> n, e |-> e]) \in Seq(Frame)
  BY <1>1, AppendProperties DEF RecordTypes
<1>3. QED
  BY <1>2, TrimType DEF RecordTypes, RecordEvent

\* Sending a frame and logging it keeps the types of record and stream.
LEMMA EmitTypes ==
  ASSUME RecordTypes, StreamTypes, NEW e \in Event, Emit(e)
  PROVE  log' \in Seq(Frame) /\ emitted' \in Seq(Event) /\ sPc' = "send"
<1>1. emitted \in Seq(Event)
  BY DEF StreamTypes
<1>2. Len(emitted) + 1 \in Nat
  BY <1>1, LenProperties
<1>3. emitted' \in Seq(Event)
  BY <1>1, AppendProperties DEF Emit
<1>4. log' \in Seq(Frame)
  BY <1>2, RecordEventType DEF Emit
<1>5. QED
  BY <1>3, <1>4 DEF Emit

\* The frames of an error path are events.
LEMMA ErrorFrames ==
  /\ State("error") \in Event /\ DoneFrame \in Event /\ EndOfAgent \in Event
  /\ Ev("error", 0, "") \in Event /\ State("visualizing") \in Event
  /\ <<State("error"), DoneFrame>> \in Seq(Event)
  /\ VizTail \in Seq(Event)
<1>1. /\ State("error") \in Event /\ DoneFrame \in Event /\ EndOfAgent \in Event
      /\ Ev("error", 0, "") \in Event /\ State("visualizing") \in Event
      /\ Ev("viz", 0, "") \in Event /\ State("speaking") \in Event
      /\ Ev("answer", 0, "") \in Event
  BY DEF Ev, Event, State, DoneFrame, EndOfAgent, EventKinds, StepKinds, Marks
<1>2. <<State("error"), DoneFrame>> \in Seq(Event) /\ VizTail \in Seq(Event)
  BY <1>1, TupleIsSeq, Zenon DEF VizTail
<1>3. QED
  BY <1>1, <1>2

\* Entering the budget path keeps the types of record and stream.
LEMMA BudgetTypes ==
  ASSUME RecordTypes, StreamTypes, NEW r \in {"tools", "time"}, EnterBudget(r)
  PROVE  /\ final' \subseteq {"answer", "error"} /\ log' \in Seq(Frame)
         /\ sPc' = "send" /\ phase' = "budget" /\ spentOn' = r
         /\ script' \in Seq(Event) /\ emitted' \in Seq(Event)
BY ErrorFrames, EmitTypes DEF EnterBudget, SetFinal, RecordTypes

\* A failed stage keeps the types of record and stream.
LEMMA StageErrorTypes ==
  ASSUME RecordTypes, StreamTypes, StageError
  PROVE  /\ final' \subseteq {"answer", "error"} /\ log' \in Seq(Frame)
         /\ sPc' = "send" /\ phase' = "tail" /\ sawError' = TRUE
         /\ script' \in Seq(Event) /\ emitted' \in Seq(Event)
BY ErrorFrames, EmitTypes DEF StageError, SetFinal, RecordTypes

\* events.get() returns an event and leaves a queue of events.
LEMMA PopType ==
  ASSUME NEW s \in Seq(Event), s # <<>>
  PROVE  Head(s) \in Event /\ Tail(s) \in Seq(Event)
BY HeadTailProperties

\* events.put() keeps the types of the pump.
LEMMA PutType ==
  ASSUME PumpTypes, NEW es \in Seq(Event), Put(es)
  PROVE  queue' \in Seq(Event)
BY ConcatProperties DEF PumpTypes, Put

\* task.cancel() keeps the types of the pump.
LEMMA CancelPumpType ==
  ASSUME PumpTypes, CancelPump
  PROVE  pCancel' \in BOOLEAN
BY DEF PumpTypes, CancelPump, PumpAlive

\* The finally of approve() keeps the types of record and gate.
LEMMA CloseRequestTypes ==
  ASSUME RecordTypes, CounterTypes, GateTypes,
         NEW how \in {"granted", "denied", "timeout", "cancelled"},
         CloseRequest(how)
  PROVE  /\ RecordTypes'
         /\ pending' \subseteq Nat /\ resolved' \subseteq Verdict
         /\ answered' = answered /\ lateAnswer' = lateAnswer
<1>1. status' \in Statuses
  BY UpdateType DEF CloseRequest, Statuses
<1>2. [id |-> toolId, how |-> how] \in Verdict
  BY DEF CounterTypes, Verdict
<1>3. RecordTypes'
  BY <1>1 DEF RecordTypes, CloseRequest
<1>4. QED
  BY <1>2, <1>3 DEF CloseRequest, GateTypes

\* A step that leaves the variables alone keeps every type.
LEMMA UnchangedTypes ==
  /\ RecordTypes /\ UNCHANGED record => RecordTypes'
  /\ StreamTypes /\ UNCHANGED stream => StreamTypes'
  /\ PumpTypes /\ UNCHANGED pump => PumpTypes'
  /\ CounterTypes /\ UNCHANGED pump => CounterTypes'
  /\ GateTypes /\ UNCHANGED <<approval, outer>> => GateTypes'
<1>1. RecordTypes /\ UNCHANGED record => RecordTypes'
  BY DEF RecordTypes, record
<1>2. StreamTypes /\ UNCHANGED stream => StreamTypes'
  BY DEF StreamTypes, stream
<1>3. PumpTypes /\ UNCHANGED pump => PumpTypes'
  BY DEF PumpTypes, pump
<1>4. CounterTypes /\ UNCHANGED pump => CounterTypes'
  BY DEF CounterTypes, pump
<1>5. GateTypes /\ UNCHANGED <<approval, outer>> => GateTypes'
  BY DEF GateTypes, approval, outer
<1>6. QED
  BY <1>1, <1>2, <1>3, <1>4, <1>5

\* Before the request every variable has its type.
LEMMA TypeInit == Init => TypeOK
<1> SUFFICES ASSUME Init PROVE TypeOK
  OBVIOUS
<1>1. RecordTypes
  BY EmptyIsSeq DEF Init, RecordTypes, Statuses
<1>2. StreamTypes
  BY EmptyIsSeq DEF Init, StreamTypes
<1>3. PumpTypes
  BY EmptyIsSeq DEF Init, PumpTypes
<1>4. CounterTypes
  <2>1. /\ turn = 0 /\ calls = 0 /\ replans = 0 /\ stepN = 0 /\ reasonId = 0
        /\ toolId = 0 /\ pPc = "none"
    BY DEF Init
  <2>2. QED
    BY <2>1, BoundsAreNat DEF CounterTypes
<1>5. GateTypes
  BY EmptyIsSeq DEF Init, GateTypes
<1>6. QED
  BY <1>1, <1>2, <1>3, <1>4, <1>5 DEF TypeOK

\* The ways a call moves the counters.
LEMMA CountersMove ==
  ASSUME CounterTypes, UNCHANGED <<turn, reasonId, replans>>,
         \/ (calls' = calls /\ calls > 0)
         \/ (calls > 0 /\ calls' = calls - 1 /\ pPc' = "call"),
         stepN' = stepN \/ stepN' = stepN + 1,
         toolId' = toolId \/ toolId' = stepN + 1
  PROVE  CounterTypes'
<1>1. calls' \in 0..MaxCalls
  BY BoundsAreNat DEF CounterTypes
<1>2. stepN' \in Nat /\ toolId' \in Nat
  BY DEF CounterTypes
<1>3. pPc' \in {"approval", "tool"} => calls' > 0
  OBVIOUS
<1>4. QED
  BY <1>1, <1>2, <1>3 DEF CounterTypes

\* run_query creating the run (routes.py 344-367) keeps the types.
LEMMA TypeStartRun == TypeOK /\ StartRun => TypeOK'
<1> SUFFICES ASSUME TypeOK, StartRun PROVE TypeOK'
  OBVIOUS
<1>0. RecordTypes /\ StreamTypes /\ PumpTypes /\ CounterTypes /\ GateTypes
  BY DEF TypeOK
<1>1. State("thinking") \in Event
  BY <1>0 DEF State, Ev, Event, EventKinds, StepKinds, Marks
<1>2. <<State("thinking")>> \in Seq(Event) /\ <<[seq |-> 1,
   e |-> State("thinking")]>> \in Seq(Frame)
  BY <1>0, <1>1 DEF Frame
<1>3. PumpTypes' /\ CounterTypes' /\ GateTypes'
  BY <1>0, UnchangedTypes DEF StartRun
<1>4. RecordTypes'
  BY <1>0, <1>2 DEF StartRun, RecordTypes, Statuses
<1>5. StreamTypes'
  BY <1>0, <1>2 DEF StartRun, StreamTypes
<1>6. QED
  BY <1>3, <1>4, <1>5 DEF TypeOK

\* The clock passing the deadline keeps the types.
LEMMA TypeDeadlinePasses == TypeOK /\ DeadlinePasses => TypeOK'
<1> SUFFICES ASSUME TypeOK, DeadlinePasses PROVE TypeOK'
  OBVIOUS
<1>0. RecordTypes /\ StreamTypes /\ PumpTypes /\ CounterTypes /\ GateTypes
  BY DEF TypeOK
<1>1. RecordTypes' /\ PumpTypes' /\ CounterTypes' /\ GateTypes'
  BY <1>0, UnchangedTypes DEF DeadlinePasses
<1>2. StreamTypes'
  BY <1>0 DEF DeadlinePasses, StreamTypes
<1>3. QED
  BY <1>1, <1>2 DEF TypeOK

\* The deadline test at the top of the loop keeps the types.
LEMMA TypeDeadlineAtTop == TypeOK /\ DeadlineAtTop => TypeOK'
<1> SUFFICES ASSUME TypeOK, DeadlineAtTop PROVE TypeOK'
  OBVIOUS
<1>0. RecordTypes /\ StreamTypes /\ PumpTypes /\ CounterTypes /\ GateTypes
  BY DEF TypeOK
<1>1. EnterBudget("time")
  BY <1>0 DEF DeadlineAtTop
<1>2. PumpTypes' /\ CounterTypes' /\ GateTypes'
  BY <1>0, UnchangedTypes DEF DeadlineAtTop
<1>3. RecordTypes'
  BY <1>0, <1>1, BudgetTypes DEF DeadlineAtTop, RecordTypes
<1>4. StreamTypes'
  BY <1>0, <1>1, BudgetTypes DEF DeadlineAtTop, StreamTypes
<1>5. QED
  BY <1>2, <1>3, <1>4 DEF TypeOK

\* The timeout of the wait for the next event keeps the types.
LEMMA TypeDeadlineFires == TypeOK /\ DeadlineFires => TypeOK'
<1> SUFFICES ASSUME TypeOK, DeadlineFires PROVE TypeOK'
  OBVIOUS
<1>0. RecordTypes /\ StreamTypes /\ PumpTypes /\ CounterTypes /\ GateTypes
  BY DEF TypeOK
<1>1. EnterBudget("time") /\ CancelPump
  BY <1>0 DEF DeadlineFires
<1>2. GateTypes'
  BY <1>0, UnchangedTypes DEF DeadlineFires
<1>3. RecordTypes'
  BY <1>0, <1>1, BudgetTypes DEF DeadlineFires, RecordTypes
<1>4. StreamTypes'
  BY <1>0, <1>1, BudgetTypes DEF DeadlineFires, StreamTypes
<1>5. PumpTypes'
  BY <1>0, <1>1, CancelPumpType DEF DeadlineFires, PumpTypes, PumpRest
<1>6. CounterTypes'
  BY <1>0 DEF DeadlineFires, CounterTypes, PumpRest
<1>7. QED
  BY <1>2, <1>3, <1>4, <1>5, <1>6 DEF TypeOK

\* The next frame of the budget path keeps the types.
LEMMA TypeBudgetNext == TypeOK /\ BudgetNext => TypeOK'
<1> SUFFICES ASSUME TypeOK, BudgetNext PROVE TypeOK'
  OBVIOUS
<1>0. RecordTypes /\ StreamTypes /\ PumpTypes /\ CounterTypes /\ GateTypes
  BY DEF TypeOK
<1>1. Head(script) \in Event /\ Tail(script) \in Seq(Event) /\ Emit(Head(script))
  BY <1>0, PopType DEF BudgetNext, StreamTypes
<1>2. PumpTypes' /\ CounterTypes' /\ GateTypes'
  BY <1>0, UnchangedTypes DEF BudgetNext
<1>3. RecordTypes'
  BY <1>0, <1>1, EmitTypes DEF BudgetNext, RecordTypes
<1>4. StreamTypes'
  BY <1>0, <1>1, EmitTypes DEF BudgetNext, StreamTypes
<1>5. QED
  BY <1>2, <1>3, <1>4 DEF TypeOK

\* The end of the budget path keeps the types.
LEMMA TypeBudgetFinish == TypeOK /\ BudgetFinish => TypeOK'
<1> SUFFICES ASSUME TypeOK, BudgetFinish PROVE TypeOK'
  OBVIOUS
<1>0. RecordTypes /\ StreamTypes /\ PumpTypes /\ CounterTypes /\ GateTypes
  BY DEF TypeOK
<1>1. status' \in Statuses /\ CancelPump
  BY <1>0, UpdateType DEF BudgetFinish, Statuses, Terminal
<1>2. GateTypes'
  BY <1>0, UnchangedTypes DEF BudgetFinish
<1>3. RecordTypes'
  BY <1>0, <1>1 DEF BudgetFinish, RecordTypes
<1>4. StreamTypes'
  BY <1>0 DEF BudgetFinish, StreamTypes
<1>5. PumpTypes'
  BY <1>0, <1>1, CancelPumpType DEF BudgetFinish, PumpTypes, PumpRest
<1>6. CounterTypes'
  BY <1>0 DEF BudgetFinish, CounterTypes, PumpRest
<1>7. QED
  BY <1>2, <1>3, <1>4, <1>5, <1>6 DEF TypeOK

\* Asking for the memory recall keeps the types.
LEMMA TypeResumeRecall == TypeOK /\ ResumeRecall => TypeOK'
<1> SUFFICES ASSUME TypeOK, ResumeRecall PROVE TypeOK'
  OBVIOUS
<1>0. RecordTypes /\ StreamTypes /\ PumpTypes /\ CounterTypes /\ GateTypes
  BY DEF TypeOK
<1>1. RecordTypes' /\ PumpTypes' /\ CounterTypes' /\ GateTypes'
  BY <1>0, UnchangedTypes DEF ResumeRecall
<1>2. StreamTypes'
  BY <1>0 DEF ResumeRecall, StreamTypes
<1>3. QED
  BY <1>1, <1>2 DEF TypeOK

\* The recall that returns and starts the pump keeps the types.
LEMMA TypeRecalled == TypeOK /\ Recalled => TypeOK'
<1> SUFFICES ASSUME TypeOK, Recalled PROVE TypeOK'
  OBVIOUS
<1>0. RecordTypes /\ StreamTypes /\ PumpTypes /\ CounterTypes /\ GateTypes
  BY DEF TypeOK
<1>1. RecordTypes' /\ GateTypes'
  BY <1>0, UnchangedTypes DEF Recalled
<1>2. StreamTypes'
  BY <1>0 DEF Recalled, StreamTypes
<1>3. PumpTypes'
  BY <1>0 DEF Recalled, PumpTypes
<1>4. CounterTypes'
  BY <1>0 DEF Recalled, CounterTypes
<1>5. QED
  BY <1>1, <1>2, <1>3, <1>4 DEF TypeOK

\* Waiting for the next agent event keeps the types.
LEMMA TypeResumeGet == TypeOK /\ ResumeGet => TypeOK'
<1> SUFFICES ASSUME TypeOK, ResumeGet PROVE TypeOK'
  OBVIOUS
<1>0. RecordTypes /\ StreamTypes /\ PumpTypes /\ CounterTypes /\ GateTypes
  BY DEF TypeOK
<1>1. RecordTypes' /\ PumpTypes' /\ CounterTypes' /\ GateTypes'
  BY <1>0, UnchangedTypes DEF ResumeGet
<1>2. StreamTypes'
  BY <1>0 DEF ResumeGet, StreamTypes
<1>3. QED
  BY <1>1, <1>2 DEF TypeOK

\* Forwarding a step, within or beyond the tool budget, keeps the types.
LEMMA TypeForwardStep == TypeOK /\ ForwardStep => TypeOK'
<1> SUFFICES ASSUME TypeOK, ForwardStep PROVE TypeOK'
  OBVIOUS
<1>0. RecordTypes /\ StreamTypes /\ PumpTypes /\ CounterTypes /\ GateTypes
  BY DEF TypeOK
<1>1. Head(queue) \in Event /\ Tail(queue) \in Seq(Event)
  BY <1>0, PopType DEF ForwardStep, Getting, PumpTypes
<1>2. steps' \subseteq StepRecord
  BY <1>0, <1>1 DEF ForwardStep, RecordStep, RecordTypes, StepRecord, Event
<1>3. toolCount' \in Nat
  <2>1. toolCount \in Nat
    BY <1>0 DEF StreamTypes
  <2>2. toolCount' = toolCount + (IF Head(queue).ev = "tool" /\ Head(queue).st = "running"
                                 THEN 1 ELSE 0)
    BY DEF ForwardStep
  <2>3. QED
    BY <2>1, <2>2
<1>4. /\ final' \subseteq {"answer", "error"} /\ log' \in Seq(Frame)
           /\ sPc' = "send" /\ phase' \in {"start", "agent", "tail", "budget"}
           /\ spentOn' \in {"", "tools", "time"}
           /\ script' \in Seq(Event) /\ emitted' \in Seq(Event)
  <2>1. CASE OverBudget(Head(queue))
    BY <1>0, <2>1, BudgetTypes DEF ForwardStep, StreamTypes
  <2>2. CASE ~OverBudget(Head(queue))
    BY <1>0, <1>1, <2>2, EmitTypes DEF ForwardStep, StreamTypes, RecordTypes
  <2>3. QED
    BY <2>1, <2>2
<1>5. GateTypes'
  BY <1>0, UnchangedTypes DEF ForwardStep
<1>6. RecordTypes'
  BY <1>0, <1>2, <1>4 DEF ForwardStep, RecordTypes
<1>7. StreamTypes'
  BY <1>0, <1>3, <1>4 DEF ForwardStep, StreamTypes
<1>8. PumpTypes'
  BY <1>0, <1>1 DEF ForwardStep, PumpTypes, Popped, PumpButQueue
<1>9. CounterTypes'
  BY <1>0 DEF ForwardStep, CounterTypes, PumpButQueue
<1>10. QED
  BY <1>5, <1>6, <1>7, <1>8, <1>9 DEF TypeOK

\* Forwarding any other agent event keeps the types.
LEMMA TypeForwardEvent == TypeOK /\ ForwardEvent => TypeOK'
<1> SUFFICES ASSUME TypeOK, ForwardEvent PROVE TypeOK'
  OBVIOUS
<1>0. RecordTypes /\ StreamTypes /\ PumpTypes /\ CounterTypes /\ GateTypes
  BY DEF TypeOK
<1>1. Head(queue) \in Event /\ Tail(queue) \in Seq(Event)
  BY <1>0, PopType DEF ForwardEvent, Getting, PumpTypes
<1>2. Ev("viz", 0, Head(queue).st) \in Event
  BY <1>0, <1>1 DEF Ev, Event, EventKinds
<1>3. PICK e \in Event : Emit(e)
  BY <1>0, <1>1, <1>2 DEF ForwardEvent
<1>4. pinned' \in BOOLEAN
  BY <1>0 DEF ForwardEvent, StreamTypes
<1>5. GateTypes'
  BY <1>0, UnchangedTypes DEF ForwardEvent
<1>6. RecordTypes'
  BY <1>0, <1>3, EmitTypes DEF ForwardEvent, RecordTypes
<1>7. StreamTypes'
  BY <1>0, <1>3, <1>4, EmitTypes DEF ForwardEvent, StreamTypes
<1>8. PumpTypes'
  BY <1>0, <1>1 DEF ForwardEvent, PumpTypes, Popped, PumpButQueue
<1>9. CounterTypes'
  BY <1>0 DEF ForwardEvent, CounterTypes, PumpButQueue
<1>10. QED
  BY <1>5, <1>6, <1>7, <1>8, <1>9 DEF TypeOK

\* The sentinel of a failed agent keeps the types.
LEMMA TypeAgentFailed == TypeOK /\ AgentFailed => TypeOK'
<1> SUFFICES ASSUME TypeOK, AgentFailed PROVE TypeOK'
  OBVIOUS
<1>0. RecordTypes /\ StreamTypes /\ PumpTypes /\ CounterTypes /\ GateTypes
  BY DEF TypeOK
<1>1. Head(queue) \in Event /\ Tail(queue) \in Seq(Event)
  BY <1>0, PopType DEF AgentFailed, Getting, PumpTypes
<1>2. StageError
  BY <1>0 DEF AgentFailed
<1>3. GateTypes'
  BY <1>0, UnchangedTypes DEF AgentFailed
<1>4. RecordTypes'
  BY <1>0, <1>2, StageErrorTypes DEF AgentFailed, RecordTypes
<1>5. StreamTypes'
  BY <1>0, <1>2, StageErrorTypes DEF AgentFailed, StreamTypes
<1>6. PumpTypes'
  BY <1>0, <1>1 DEF AgentFailed, PumpTypes, Popped, PumpButQueue
<1>7. CounterTypes'
  BY <1>0 DEF AgentFailed, CounterTypes, PumpButQueue
<1>8. QED
  BY <1>3, <1>4, <1>5, <1>6, <1>7 DEF TypeOK

\* The sentinel of an agent that put up a map keeps the types.
LEMMA TypeAgentFinishedOnMap == TypeOK /\ AgentFinishedOnMap => TypeOK'
<1> SUFFICES ASSUME TypeOK, AgentFinishedOnMap PROVE TypeOK'
  OBVIOUS
<1>0. RecordTypes /\ StreamTypes /\ PumpTypes /\ CounterTypes /\ GateTypes
  BY DEF TypeOK
<1>1. Head(queue) \in Event /\ Tail(queue) \in Seq(Event)
  BY <1>0, PopType DEF AgentFinishedOnMap, Getting, PumpTypes
<1>2. Emit(State("visualizing")) /\ script' = VizTail
  BY <1>0 DEF AgentFinishedOnMap
<1>3. GateTypes'
  BY <1>0, UnchangedTypes DEF AgentFinishedOnMap
<1>4. RecordTypes'
  BY <1>0, <1>2, EmitTypes, ErrorFrames DEF AgentFinishedOnMap, RecordTypes
<1>5. StreamTypes'
  BY <1>0, <1>2, EmitTypes, ErrorFrames DEF AgentFinishedOnMap, StreamTypes
<1>6. PumpTypes'
  BY <1>0, <1>1 DEF AgentFinishedOnMap, PumpTypes, Popped, PumpButQueue
<1>7. CounterTypes'
  BY <1>0 DEF AgentFinishedOnMap, CounterTypes, PumpButQueue
<1>8. QED
  BY <1>3, <1>4, <1>5, <1>6, <1>7 DEF TypeOK

\* The sentinel of an agent that needs the planner keeps the types.
LEMMA TypeAgentFinished == TypeOK /\ AgentFinished => TypeOK'
<1> SUFFICES ASSUME TypeOK, AgentFinished PROVE TypeOK'
  OBVIOUS
<1>0. RecordTypes /\ StreamTypes /\ PumpTypes /\ CounterTypes /\ GateTypes
  BY DEF TypeOK
<1>1. Head(queue) \in Event /\ Tail(queue) \in Seq(Event)
  BY <1>0, PopType DEF AgentFinished, Getting, PumpTypes
<1>2. RecordTypes' /\ GateTypes'
  BY <1>0, UnchangedTypes DEF AgentFinished
<1>3. StreamTypes'
  BY <1>0 DEF AgentFinished, StreamTypes
<1>4. PumpTypes'
  BY <1>0, <1>1 DEF AgentFinished, PumpTypes, Popped, PumpButQueue
<1>5. CounterTypes'
  BY <1>0 DEF AgentFinished, CounterTypes, PumpButQueue
<1>6. QED
  BY <1>2, <1>3, <1>4, <1>5 DEF TypeOK

\* The planner that answers keeps the types.
LEMMA TypePlanned == TypeOK /\ Planned => TypeOK'
<1> SUFFICES ASSUME TypeOK, Planned PROVE TypeOK'
  OBVIOUS
<1>0. RecordTypes /\ StreamTypes /\ PumpTypes /\ CounterTypes /\ GateTypes
  BY DEF TypeOK
<1>1. Emit(State("visualizing")) /\ script' = VizTail
  BY <1>0 DEF Planned
<1>2. PumpTypes' /\ CounterTypes' /\ GateTypes'
  BY <1>0, UnchangedTypes DEF Planned
<1>3. RecordTypes'
  BY <1>0, <1>1, EmitTypes, ErrorFrames DEF Planned, RecordTypes
<1>4. StreamTypes'
  BY <1>0, <1>1, EmitTypes, ErrorFrames DEF Planned, StreamTypes
<1>5. QED
  BY <1>2, <1>3, <1>4 DEF TypeOK

\* The planner that raises keeps the types.
LEMMA TypePlannerFailed == TypeOK /\ PlannerFailed => TypeOK'
<1> SUFFICES ASSUME TypeOK, PlannerFailed PROVE TypeOK'
  OBVIOUS
<1>0. RecordTypes /\ StreamTypes /\ PumpTypes /\ CounterTypes /\ GateTypes
  BY DEF TypeOK
<1>1. StageError
  BY <1>0 DEF PlannerFailed
<1>2. PumpTypes' /\ CounterTypes' /\ GateTypes'
  BY <1>0, UnchangedTypes DEF PlannerFailed
<1>3. RecordTypes'
  BY <1>0, <1>1, StageErrorTypes DEF PlannerFailed, RecordTypes
<1>4. StreamTypes'
  BY <1>0, <1>1, StageErrorTypes DEF PlannerFailed, StreamTypes
<1>5. QED
  BY <1>2, <1>3, <1>4 DEF TypeOK

\* The next frame of the tail keeps the types.
LEMMA TypeTailNext == TypeOK /\ TailNext => TypeOK'
<1> SUFFICES ASSUME TypeOK, TailNext PROVE TypeOK'
  OBVIOUS
<1>0. RecordTypes /\ StreamTypes /\ PumpTypes /\ CounterTypes /\ GateTypes
  BY DEF TypeOK
<1>1. Head(script) \in Event /\ Tail(script) \in Seq(Event) /\ Emit(Head(script))
  BY <1>0, PopType DEF TailNext, StreamTypes
<1>2. final' \subseteq {"answer", "error"}
  BY <1>0 DEF TailNext, SetFinal, RecordTypes
<1>3. mirrored' \in BOOLEAN
  BY <1>0 DEF TailNext, RecordTypes
<1>4. remembered' \in BOOLEAN
  BY <1>0 DEF TailNext, GateTypes
<1>5. PumpTypes' /\ CounterTypes'
  BY <1>0, UnchangedTypes DEF TailNext
<1>6. RecordTypes'
  BY <1>0, <1>1, <1>2, <1>3, EmitTypes DEF TailNext, RecordTypes
<1>7. StreamTypes'
  BY <1>0, <1>1, EmitTypes DEF TailNext, StreamTypes
<1>8. GateTypes'
  BY <1>0, <1>4 DEF TailNext, GateTypes, approval
<1>9. QED
  BY <1>5, <1>6, <1>7, <1>8 DEF TypeOK

\* run_query finishing the run (routes.py 432-438) keeps the types.
LEMMA TypeFinishRun == TypeOK /\ FinishRun => TypeOK'
<1> SUFFICES ASSUME TypeOK, FinishRun PROVE TypeOK'
  OBVIOUS
<1>0. RecordTypes /\ StreamTypes /\ PumpTypes /\ CounterTypes /\ GateTypes
  BY DEF TypeOK
<1>1. status' \in Statuses
  BY <1>0, UpdateType DEF FinishRun, Statuses, Terminal
<1>2. trail' \in Seq({"cancelled by request", "finished completed",
   "finished failed", "finished cancelled"})
  BY <1>0, AppendProperties DEF FinishRun, GateTypes
<1>3. PumpTypes' /\ CounterTypes'
  BY <1>0, UnchangedTypes DEF FinishRun
<1>4. RecordTypes'
  BY <1>0, <1>1 DEF FinishRun, RecordTypes
<1>5. StreamTypes'
  BY <1>0 DEF FinishRun, StreamTypes
<1>6. GateTypes'
  BY <1>0, <1>2 DEF FinishRun, GateTypes, approval
<1>7. QED
  BY <1>3, <1>4, <1>5, <1>6 DEF TypeOK

\* A cancellation at an await of the stream keeps the types.
LEMMA TypeStreamCancelled == TypeOK /\ StreamCancelled => TypeOK'
<1> SUFFICES ASSUME TypeOK, StreamCancelled PROVE TypeOK'
  OBVIOUS
<1>0. RecordTypes /\ StreamTypes /\ PumpTypes /\ CounterTypes /\ GateTypes
  BY DEF TypeOK
<1>1. status' \in Statuses
  BY <1>0, UpdateType DEF StreamCancelled, Statuses, Terminal
<1>2. trail' \in Seq({"cancelled by request", "finished completed",
   "finished failed", "finished cancelled"})
  BY <1>0, AppendProperties DEF StreamCancelled, GateTypes
<1>3. RecordTypes'
  BY <1>0, <1>1 DEF StreamCancelled, RecordTypes
<1>4. StreamTypes'
  BY <1>0 DEF StreamCancelled, StreamTypes
<1>5. PumpTypes'
  BY <1>0, CancelPumpType DEF StreamCancelled, PumpTypes, PumpRest
<1>6. CounterTypes'
  BY <1>0 DEF StreamCancelled, CounterTypes, PumpRest
<1>7. GateTypes'
  BY <1>0, <1>2 DEF StreamCancelled, GateTypes, approval
<1>8. QED
  BY <1>3, <1>4, <1>5, <1>6, <1>7 DEF TypeOK

\* A cancellation inside send keeps the types.
LEMMA TypeSendCancelled == TypeOK /\ SendCancelled => TypeOK'
<1> SUFFICES ASSUME TypeOK, SendCancelled PROVE TypeOK'
  OBVIOUS
<1>0. RecordTypes /\ StreamTypes /\ PumpTypes /\ CounterTypes /\ GateTypes
  BY DEF TypeOK
<1>1. RecordTypes' /\ PumpTypes' /\ CounterTypes' /\ GateTypes'
  BY <1>0, UnchangedTypes DEF SendCancelled
<1>2. StreamTypes'
  BY <1>0 DEF SendCancelled, StreamTypes
<1>3. QED
  BY <1>1, <1>2 DEF TypeOK

\* The finalisation of an abandoned generator keeps the types.
LEMMA TypeGeneratorClosed == TypeOK /\ GeneratorClosed => TypeOK'
<1> SUFFICES ASSUME TypeOK, GeneratorClosed PROVE TypeOK'
  OBVIOUS
<1>0. RecordTypes /\ StreamTypes /\ PumpTypes /\ CounterTypes /\ GateTypes
  BY DEF TypeOK
<1>1. status' \in Statuses
  BY <1>0, UpdateType DEF GeneratorClosed, Statuses, Terminal
<1>2. trail' \in Seq({"cancelled by request", "finished completed",
   "finished failed", "finished cancelled"})
  BY <1>0, AppendProperties DEF GeneratorClosed, GateTypes
<1>3. RecordTypes'
  BY <1>0, <1>1 DEF GeneratorClosed, RecordTypes
<1>4. StreamTypes'
  BY <1>0 DEF GeneratorClosed, StreamTypes
<1>5. PumpTypes'
  BY <1>0, CancelPumpType DEF GeneratorClosed, PumpTypes, PumpRest
<1>6. CounterTypes'
  BY <1>0 DEF GeneratorClosed, CounterTypes, PumpRest
<1>7. GateTypes'
  BY <1>0, <1>2 DEF GeneratorClosed, GateTypes, approval
<1>8. QED
  BY <1>3, <1>4, <1>5, <1>6, <1>7 DEF TypeOK

\* A client disconnect keeps the types.
LEMMA TypeDisconnect == TypeOK /\ Disconnect => TypeOK'
<1> SUFFICES ASSUME TypeOK, Disconnect PROVE TypeOK'
  OBVIOUS
<1>0. RecordTypes /\ StreamTypes /\ PumpTypes /\ CounterTypes /\ GateTypes
  BY DEF TypeOK
<1>1. RecordTypes' /\ PumpTypes' /\ CounterTypes' /\ GateTypes'
  BY <1>0, UnchangedTypes DEF Disconnect
<1>2. StreamTypes'
  BY <1>0 DEF Disconnect, StreamTypes
<1>3. QED
  BY <1>1, <1>2 DEF TypeOK

\* cancel_run keeps the types.
LEMMA TypeCancelRun == TypeOK /\ CancelRun => TypeOK'
<1> SUFFICES ASSUME TypeOK, CancelRun PROVE TypeOK'
  OBVIOUS
<1>0. RecordTypes /\ StreamTypes /\ PumpTypes /\ CounterTypes /\ GateTypes
  BY DEF TypeOK
<1>1. cancelReq' \in BOOLEAN
  BY <1>0 DEF CancelRun, StreamTypes
<1>2. trail' \in Seq({"cancelled by request", "finished completed",
   "finished failed", "finished cancelled"})
  BY <1>0, AppendProperties DEF CancelRun, GateTypes
<1>3. doomed' \subseteq Nat
  BY <1>0 DEF CancelRun, GateTypes
<1>4. PumpTypes' /\ CounterTypes'
  BY <1>0, UnchangedTypes DEF CancelRun
<1>5. RecordTypes'
  BY <1>0 DEF CancelRun, RecordTypes, Statuses, Terminal
<1>6. StreamTypes'
  BY <1>0, <1>1 DEF CancelRun, StreamTypes
<1>7. GateTypes'
  BY <1>0, <1>2, <1>3 DEF CancelRun, GateTypes, approval
<1>8. QED
  BY <1>4, <1>5, <1>6, <1>7 DEF TypeOK

\* The eviction of a run from the registry keeps the types.
LEMMA TypeEvictRun == TypeOK /\ EvictRun => TypeOK'
<1> SUFFICES ASSUME TypeOK, EvictRun PROVE TypeOK'
  OBVIOUS
<1>0. RecordTypes /\ StreamTypes /\ PumpTypes /\ CounterTypes /\ GateTypes
  BY DEF TypeOK
<1>1. StreamTypes' /\ PumpTypes' /\ CounterTypes' /\ GateTypes'
  BY <1>0, UnchangedTypes DEF EvictRun
<1>2. RecordTypes'
  BY <1>0 DEF EvictRun, RecordTypes
<1>3. QED
  BY <1>1, <1>2 DEF TypeOK

\* The first step of the pump keeps the types.
LEMMA TypePumpStarts == TypeOK /\ PumpStarts => TypeOK'
<1> SUFFICES ASSUME TypeOK, PumpStarts PROVE TypeOK'
  OBVIOUS
<1>0. RecordTypes /\ StreamTypes /\ PumpTypes /\ CounterTypes /\ GateTypes
  BY DEF TypeOK
<1>1. stepN \in Nat /\ stepN + 1 \in Nat /\ reasonId \in Nat /\ toolId \in Nat
  BY <1>0 DEF CounterTypes
<1>2. <<Step("reason", 1, "running")>> \in Seq(Event)
  BY <1>0, <1>1, TupleIsSeq DEF Step, State, EndOfAgent, Ev, Event, EventKinds,
     StepKinds, Marks
<1>3. queue' \in Seq(Event)
  BY <1>0, <1>2, PutType DEF PumpStarts
<1>4. RecordTypes' /\ StreamTypes' /\ GateTypes'
  BY <1>0, UnchangedTypes DEF PumpStarts
<1>5. PumpTypes'
  BY <1>0, <1>3 DEF PumpStarts, PumpTypes, PumpRuns
<1>6. CounterTypes'
  BY <1>0, BoundsAssumption DEF PumpStarts, CounterTypes
<1>7. QED
  BY <1>4, <1>5, <1>6 DEF TypeOK

\* A model call that raises keeps the types.
LEMMA TypeModelFails == TypeOK /\ ModelFails => TypeOK'
<1> SUFFICES ASSUME TypeOK, ModelFails PROVE TypeOK'
  OBVIOUS
<1>0. RecordTypes /\ StreamTypes /\ PumpTypes /\ CounterTypes /\ GateTypes
  BY DEF TypeOK
<1>1. stepN \in Nat /\ stepN + 1 \in Nat /\ reasonId \in Nat /\ toolId \in Nat
  BY <1>0 DEF CounterTypes
<1>2. <<EndOfAgent>> \in Seq(Event)
  BY <1>0, <1>1, TupleIsSeq DEF Step, State, EndOfAgent, Ev, Event, EventKinds,
     StepKinds, Marks
<1>3. queue' \in Seq(Event)
  BY <1>0, <1>2, PutType DEF ModelFails
<1>4. RecordTypes' /\ StreamTypes' /\ GateTypes'
  BY <1>0, UnchangedTypes DEF ModelFails
<1>5. PumpTypes'
  BY <1>0, <1>3 DEF ModelFails, PumpTypes, PumpRuns
<1>6. CounterTypes'
  BY <1>0, <1>1, BoundsAreNat DEF ModelFails, CounterTypes, PumpRuns
<1>7. QED
  BY <1>4, <1>5, <1>6 DEF TypeOK

\* A model reply with tool calls keeps the types.
LEMMA TypeModelCallsTools == TypeOK /\ ModelCallsTools => TypeOK'
<1> SUFFICES ASSUME TypeOK, ModelCallsTools PROVE TypeOK'
  OBVIOUS
<1>0. RecordTypes /\ StreamTypes /\ PumpTypes /\ CounterTypes /\ GateTypes
  BY DEF TypeOK
<1>1. stepN \in Nat /\ stepN + 1 \in Nat /\ reasonId \in Nat /\ toolId \in Nat
  BY <1>0 DEF CounterTypes
<1>2. <<Step("reason", reasonId, "completed")>> \in Seq(Event)
  BY <1>0, <1>1, TupleIsSeq DEF Step, State, EndOfAgent, Ev, Event, EventKinds,
     StepKinds, Marks
<1>3. queue' \in Seq(Event)
  BY <1>0, <1>2, PutType DEF ModelCallsTools
<1>4. RecordTypes' /\ StreamTypes' /\ GateTypes'
  BY <1>0, UnchangedTypes DEF ModelCallsTools
<1>5. PumpTypes'
  BY <1>0, <1>3 DEF ModelCallsTools, PumpTypes, PumpRuns
<1>6. CounterTypes'
  BY <1>0, <1>1, BoundsAreNat DEF ModelCallsTools, CounterTypes, PumpRuns
<1>7. QED
  BY <1>4, <1>5, <1>6 DEF TypeOK

\* A final answer keeps the types.
LEMMA TypeModelAnswers == TypeOK /\ ModelAnswers => TypeOK'
<1> SUFFICES ASSUME TypeOK, ModelAnswers PROVE TypeOK'
  OBVIOUS
<1>0. RecordTypes /\ StreamTypes /\ PumpTypes /\ CounterTypes /\ GateTypes
  BY DEF TypeOK
<1>1. stepN \in Nat /\ stepN + 1 \in Nat /\ reasonId \in Nat /\ toolId \in Nat
  BY <1>0 DEF CounterTypes
<1>2. <<Step("reason", reasonId, "completed"), Step("answer_step", stepN + 1,
   "completed"), EndOfAgent>> \in Seq(Event)
  BY <1>0, <1>1, TupleIsSeq DEF Step, State, EndOfAgent, Ev, Event, EventKinds,
     StepKinds, Marks
<1>3. queue' \in Seq(Event)
  BY <1>0, <1>2, PutType DEF ModelAnswers
<1>4. RecordTypes' /\ StreamTypes' /\ GateTypes'
  BY <1>0, UnchangedTypes DEF ModelAnswers
<1>5. PumpTypes'
  BY <1>0, <1>3 DEF ModelAnswers, PumpTypes, PumpRuns
<1>6. CounterTypes'
  BY <1>0, <1>1, BoundsAreNat DEF ModelAnswers, CounterTypes, PumpRuns
<1>7. QED
  BY <1>4, <1>5, <1>6 DEF TypeOK

\* A call of an unknown tool keeps the types.
LEMMA TypeCallUnknown == TypeOK /\ CallUnknown => TypeOK'
<1> SUFFICES ASSUME TypeOK, CallUnknown PROVE TypeOK'
  OBVIOUS
<1>0. RecordTypes /\ StreamTypes /\ PumpTypes /\ CounterTypes /\ GateTypes
  BY DEF TypeOK
<1>1. RecordTypes' /\ StreamTypes' /\ GateTypes'
  BY <1>0, UnchangedTypes DEF CallUnknown
<1>2. PumpTypes'
  BY <1>0 DEF CallUnknown, PumpTypes
<1>3. CounterTypes'
  BY <1>0, CountersMove DEF CallUnknown, PumpRuns
<1>4. QED
  BY <1>1, <1>2, <1>3 DEF TypeOK

\* A call the policy denies keeps the types.
LEMMA TypeCallDenied == TypeOK /\ CallDenied => TypeOK'
<1> SUFFICES ASSUME TypeOK, CallDenied PROVE TypeOK'
  OBVIOUS
<1>0. RecordTypes /\ StreamTypes /\ PumpTypes /\ CounterTypes /\ GateTypes
  BY DEF TypeOK
<1>1. stepN \in Nat /\ stepN + 1 \in Nat /\ reasonId \in Nat /\ toolId \in Nat
  BY <1>0 DEF CounterTypes
<1>2. <<Step("tool", stepN + 1, "running"), Step("tool", stepN + 1, "failed"),
   Ev("denied", 0, "")>> \in Seq(Event)
  BY <1>0, <1>1, TupleIsSeq DEF Step, State, EndOfAgent, Ev, Event, EventKinds,
     StepKinds, Marks
<1>3. queue' \in Seq(Event)
  BY <1>0, <1>2, PutType DEF CallDenied
<1>4. RecordTypes' /\ StreamTypes' /\ GateTypes'
  BY <1>0, UnchangedTypes DEF CallDenied
<1>5. PumpTypes'
  BY <1>0, <1>3 DEF CallDenied, PumpTypes, PumpRuns
<1>6. CounterTypes'
  BY <1>0, CountersMove DEF CallDenied, PumpRuns
<1>7. QED
  BY <1>4, <1>5, <1>6 DEF TypeOK

\* approve() opening a request keeps the types.
LEMMA TypeCallAsks == TypeOK /\ CallAsks => TypeOK'
<1> SUFFICES ASSUME TypeOK, CallAsks PROVE TypeOK'
  OBVIOUS
<1>0. RecordTypes /\ StreamTypes /\ PumpTypes /\ CounterTypes /\ GateTypes
  BY DEF TypeOK
<1>1. stepN \in Nat /\ stepN + 1 \in Nat /\ reasonId \in Nat /\ toolId \in Nat
  BY <1>0 DEF CounterTypes
<1>2. <<Step("tool", stepN + 1, "running"), Step("tool", stepN + 1,
   "waiting_approval"), Ev("confirm", stepN + 1, "")>> \in Seq(Event)
  BY <1>0, <1>1, TupleIsSeq DEF Step, State, EndOfAgent, Ev, Event, EventKinds,
     StepKinds, Marks
<1>3. queue' \in Seq(Event)
  BY <1>0, <1>2, PutType DEF CallAsks
<1>4. status' \in Statuses
  BY <1>0, UpdateType DEF CallAsks, Statuses
<1>5. pending' \subseteq Nat
  <2>1. pending' = pending \cup {stepN + 1}
    BY DEF CallAsks
  <2>2. QED
    BY <1>0, <1>1, <2>1 DEF GateTypes
<1>6. StreamTypes'
  BY <1>0, UnchangedTypes DEF CallAsks
<1>7. RecordTypes'
  BY <1>0, <1>4 DEF CallAsks, RecordTypes
<1>8. PumpTypes'
  BY <1>0, <1>3 DEF CallAsks, PumpTypes, PumpRuns
<1>9. CounterTypes'
  BY <1>0, CountersMove DEF CallAsks, PumpRuns
<1>10. GateTypes'
  BY <1>0, <1>5 DEF CallAsks, GateTypes, outer
<1>11. QED
  BY <1>6, <1>7, <1>8, <1>9, <1>10 DEF TypeOK

\* A call the policy allows keeps the types.
LEMMA TypeCallAllowed == TypeOK /\ CallAllowed => TypeOK'
<1> SUFFICES ASSUME TypeOK, CallAllowed PROVE TypeOK'
  OBVIOUS
<1>0. RecordTypes /\ StreamTypes /\ PumpTypes /\ CounterTypes /\ GateTypes
  BY DEF TypeOK
<1>1. stepN \in Nat /\ stepN + 1 \in Nat /\ reasonId \in Nat /\ toolId \in Nat
  BY <1>0 DEF CounterTypes
<1>2. <<Step("tool", stepN + 1, "running")>> \o RunsTool(stepN + 1) \in Seq(Event)
  BY <1>0, <1>1, RunsToolType
<1>3. queue' \in Seq(Event)
  BY <1>0, <1>2, PutType DEF CallAllowed
<1>4. [id |-> stepN + 1, gated |-> FALSE] \in Execution
  BY <1>0, <1>1 DEF Execution
<1>5. ran' \subseteq Execution
  BY <1>0, <1>4 DEF CallAllowed, GateTypes
<1>6. RecordTypes' /\ StreamTypes'
  BY <1>0, UnchangedTypes DEF CallAllowed
<1>7. PumpTypes'
  BY <1>0, <1>3 DEF CallAllowed, PumpTypes, PumpRuns
<1>8. CounterTypes'
  BY <1>0, CountersMove DEF CallAllowed, PumpRuns
<1>9. GateTypes'
  BY <1>0, <1>5 DEF CallAllowed, GateTypes, outer
<1>10. QED
  BY <1>6, <1>7, <1>8, <1>9 DEF TypeOK

\* An approval that releases its call keeps the types.
LEMMA TypeApprovalGranted == TypeOK /\ ApprovalGranted => TypeOK'
<1> SUFFICES ASSUME TypeOK, ApprovalGranted PROVE TypeOK'
  OBVIOUS
<1>0. RecordTypes /\ StreamTypes /\ PumpTypes /\ CounterTypes /\ GateTypes
  BY DEF TypeOK
<1>1. stepN \in Nat /\ stepN + 1 \in Nat /\ reasonId \in Nat /\ toolId \in Nat
  BY <1>0 DEF CounterTypes
<1>2. <<Step("tool", toolId, "running")>> \o RunsTool(toolId) \in Seq(Event)
  BY <1>0, <1>1, RunsToolType
<1>3. queue' \in Seq(Event)
  BY <1>0, <1>2, PutType DEF ApprovalGranted
<1>4. CloseRequest("granted")
  BY <1>0 DEF ApprovalGranted
<1>5. [id |-> toolId, gated |-> TRUE] \in Execution
  BY <1>0, <1>1 DEF Execution
<1>6. ran' \subseteq Execution
  BY <1>0, <1>5 DEF ApprovalGranted, GateTypes
<1>7. StreamTypes'
  BY <1>0, UnchangedTypes DEF ApprovalGranted
<1>8. RecordTypes'
  BY <1>0, <1>4, CloseRequestTypes DEF ApprovalGranted, RecordTypes
<1>9. PumpTypes'
  BY <1>0, <1>3 DEF ApprovalGranted, PumpTypes, PumpRuns
<1>10. CounterTypes'
  BY <1>0, <1>1, BoundsAreNat DEF ApprovalGranted, CounterTypes, PumpRuns
<1>11. GateTypes'
  BY <1>0, <1>4, <1>6, CloseRequestTypes DEF ApprovalGranted, GateTypes, outer
<1>12. QED
  BY <1>7, <1>8, <1>9, <1>10, <1>11 DEF TypeOK

\* A refusal keeps the types.
LEMMA TypeApprovalDenied == TypeOK /\ ApprovalDenied => TypeOK'
<1> SUFFICES ASSUME TypeOK, ApprovalDenied PROVE TypeOK'
  OBVIOUS
<1>0. RecordTypes /\ StreamTypes /\ PumpTypes /\ CounterTypes /\ GateTypes
  BY DEF TypeOK
<1>1. stepN \in Nat /\ stepN + 1 \in Nat /\ reasonId \in Nat /\ toolId \in Nat
  BY <1>0 DEF CounterTypes
<1>2. <<Step("tool", toolId, "failed"), Ev("denied", 0, "")>> \in Seq(Event)
  BY <1>0, <1>1, TupleIsSeq DEF Step, State, EndOfAgent, Ev, Event, EventKinds,
     StepKinds, Marks
<1>3. queue' \in Seq(Event)
  BY <1>0, <1>2, PutType DEF ApprovalDenied, RefuseCall
<1>4. CloseRequest("denied")
  BY <1>0 DEF ApprovalDenied
<1>5. calls > 0
  BY <1>0 DEF ApprovalDenied, PumpRuns, CounterTypes
<1>6. RecordTypes'
  BY <1>0, <1>4, CloseRequestTypes DEF ApprovalDenied, RecordTypes
<1>7. StreamTypes'
  BY <1>0, UnchangedTypes DEF ApprovalDenied, StreamTypes, RefuseCall
<1>8. PumpTypes'
  BY <1>0, <1>3 DEF ApprovalDenied, PumpTypes, RefuseCall
<1>9. CounterTypes'
  BY <1>0, <1>5, CountersMove DEF ApprovalDenied, RefuseCall
<1>10. GateTypes'
  BY <1>0, <1>4, CloseRequestTypes DEF ApprovalDenied, GateTypes, RefuseCall, outer
<1>11. QED
  BY <1>6, <1>7, <1>8, <1>9, <1>10 DEF TypeOK

\* An approval wait that times out keeps the types.
LEMMA TypeApprovalTimesOut == TypeOK /\ ApprovalTimesOut => TypeOK'
<1> SUFFICES ASSUME TypeOK, ApprovalTimesOut PROVE TypeOK'
  OBVIOUS
<1>0. RecordTypes /\ StreamTypes /\ PumpTypes /\ CounterTypes /\ GateTypes
  BY DEF TypeOK
<1>1. stepN \in Nat /\ stepN + 1 \in Nat /\ reasonId \in Nat /\ toolId \in Nat
  BY <1>0 DEF CounterTypes
<1>2. <<Step("tool", toolId, "failed"), Ev("denied", 0, "")>> \in Seq(Event)
  BY <1>0, <1>1, TupleIsSeq DEF Step, State, EndOfAgent, Ev, Event, EventKinds,
     StepKinds, Marks
<1>3. queue' \in Seq(Event)
  BY <1>0, <1>2, PutType DEF ApprovalTimesOut, RefuseCall
<1>4. CloseRequest("timeout")
  BY <1>0 DEF ApprovalTimesOut
<1>5. calls > 0
  BY <1>0 DEF ApprovalTimesOut, PumpRuns, CounterTypes
<1>6. RecordTypes'
  BY <1>0, <1>4, CloseRequestTypes DEF ApprovalTimesOut, RecordTypes
<1>7. StreamTypes'
  BY <1>0, UnchangedTypes DEF ApprovalTimesOut, StreamTypes, RefuseCall
<1>8. PumpTypes'
  BY <1>0, <1>3 DEF ApprovalTimesOut, PumpTypes, RefuseCall
<1>9. CounterTypes'
  BY <1>0, <1>5, CountersMove DEF ApprovalTimesOut, RefuseCall
<1>10. GateTypes'
  BY <1>0, <1>4, CloseRequestTypes DEF ApprovalTimesOut, GateTypes, RefuseCall,
     outer
<1>11. QED
  BY <1>6, <1>7, <1>8, <1>9, <1>10 DEF TypeOK

\* A replan keeps the types.
LEMMA TypeModelReplans == TypeOK /\ ModelReplans => TypeOK'
<1> SUFFICES ASSUME TypeOK, ModelReplans PROVE TypeOK'
  OBVIOUS
<1> DEFINE failed == Step("verification", stepN + 1, "failed")
<1>0. RecordTypes /\ StreamTypes /\ PumpTypes /\ CounterTypes /\ GateTypes
  BY DEF TypeOK
<1>1. stepN \in Nat /\ stepN + 1 \in Nat /\ stepN + 2 \in Nat
  BY <1>0 DEF CounterTypes
<1>2. /\ failed \in Event /\ Step("reason", stepN + 2, "running") \in Event
      /\ EndOfAgent \in Event
  BY <1>1 DEF Step, EndOfAgent, Ev, Event, EventKinds, StepKinds, Marks
<1>3. /\ <<failed, Step("reason", stepN + 2, "running")>> \in Seq(Event)
      /\ <<failed, EndOfAgent>> \in Seq(Event)
  BY <1>2, TupleIsSeq
<1>4. queue' \in Seq(Event)
  BY <1>0, <1>3, PutType DEF ModelReplans
<1>5. /\ (turn < MaxTurns /\ turn' = turn + 1) \/ turn' = turn
      /\ stepN' = stepN + 2 \/ stepN' = stepN + 1
      /\ reasonId' = stepN + 2 \/ reasonId' = reasonId
      /\ replans < MaxReplans /\ replans' = replans + 1
      /\ calls' = calls /\ toolId' = toolId /\ pPc' \in {"think", "ended"}
  BY DEF ModelReplans
<1>6. RecordTypes' /\ StreamTypes' /\ GateTypes'
  BY <1>0, UnchangedTypes DEF ModelReplans
<1>7. PumpTypes'
  BY <1>0, <1>4, <1>5 DEF ModelReplans, PumpTypes
<1>8. CounterTypes'
  <2>1. turn' \in 0..MaxTurns /\ replans' \in 0..MaxReplans
    BY <1>0, <1>5, BoundsAreNat DEF CounterTypes
  <2>2. stepN' \in Nat /\ reasonId' \in Nat
    BY <1>0, <1>1, <1>5 DEF CounterTypes
  <2>3. QED
    BY <1>0, <1>5, <2>1, <2>2 DEF CounterTypes
<1>9. QED
  BY <1>6, <1>7, <1>8 DEF TypeOK

\* A tool that returns or raises keeps the types.
LEMMA TypeToolReturns == TypeOK /\ ToolReturns => TypeOK'
<1> SUFFICES ASSUME TypeOK, ToolReturns PROVE TypeOK'
  OBVIOUS
<1>0. RecordTypes /\ StreamTypes /\ PumpTypes /\ CounterTypes /\ GateTypes
  BY DEF TypeOK
<1>1. toolId \in Nat /\ calls > 0
  BY <1>0 DEF CounterTypes, ToolReturns, PumpRuns
<1>2. PICK ok \in BOOLEAN, shows \in ToolShows :
        Put(<<Step("tool", toolId, IF ok THEN "completed" ELSE "failed")>>
              \o Shown(shows))
  BY DEF ToolReturns
<1>3. Step("tool", toolId, IF ok THEN "completed" ELSE "failed") \in Event
  BY <1>1 DEF Step, Ev, Event, EventKinds, StepKinds, Marks
<1>4. shows \in {"none", "memory", "map", "panel"}
  BY BoundsAssumption
<1>5. Ev("memory", 0, "") \in Event /\ (shows \in Marks => Ev("preview", 0,
   shows) \in Event)
  BY DEF Ev, Event, EventKinds, Marks
<1>6. shows \in {"map", "panel"} => shows \in Marks
  BY DEF Marks
<1>7. Shown(shows) \in Seq(Event)
  BY <1>4, <1>5, <1>6, TupleIsSeq, EmptyIsSeq DEF Shown
<1>8. queue' \in Seq(Event)
  <2>1. <<Step("tool", toolId,
     IF ok THEN "completed" ELSE "failed")>> \in Seq(Event)
    BY <1>3, TupleIsSeq
  <2>2. <<Step("tool", toolId, IF ok THEN "completed" ELSE "failed")>>
          \o Shown(shows) \in Seq(Event)
    BY <2>1, <1>7, ConcatProperties
  <2>3. QED
    BY <1>0, <1>2, <2>2, PutType
<1>9. RecordTypes' /\ StreamTypes' /\ GateTypes'
  BY <1>0, UnchangedTypes DEF ToolReturns
<1>10. PumpTypes'
  BY <1>0, <1>8 DEF ToolReturns, PumpTypes
<1>11. CounterTypes'
  BY <1>0, <1>1, CountersMove DEF ToolReturns
<1>12. QED
  BY <1>9, <1>10, <1>11 DEF TypeOK

\* The end of a turn of the agent loop keeps the types.
LEMMA TypeTurnOver == TypeOK /\ TurnOver => TypeOK'
<1> SUFFICES ASSUME TypeOK, TurnOver PROVE TypeOK'
  OBVIOUS
<1>0. RecordTypes /\ StreamTypes /\ PumpTypes /\ CounterTypes /\ GateTypes
  BY DEF TypeOK
<1>1. stepN \in Nat /\ stepN + 1 \in Nat
  BY <1>0 DEF CounterTypes
<1>2. /\ State("processing") \in Event /\ EndOfAgent \in Event
      /\ Step("reason", stepN + 1, "running") \in Event
  BY <1>1 DEF State, Step, EndOfAgent, Ev, Event, EventKinds, StepKinds, Marks
<1>3. /\ <<State("processing")>> \o <<Step("reason", stepN + 1, "running")>>
           \in Seq(Event)
      /\ <<State("processing")>> \o <<EndOfAgent>> \in Seq(Event)
  <2>1. /\ <<State("processing")>> \in Seq(Event) /\ <<EndOfAgent>> \in Seq(Event)
        /\ <<Step("reason", stepN + 1, "running")>> \in Seq(Event)
    BY <1>2, TupleIsSeq
  <2>2. QED
    BY <2>1, ConcatProperties
<1>4. queue' \in Seq(Event)
  BY <1>0, <1>3, PutType DEF TurnOver, NextTurn
<1>5. /\ (turn < MaxTurns /\ turn' = turn + 1) \/ turn' = turn
      /\ stepN' = stepN + 1 \/ stepN' = stepN
      /\ reasonId' = stepN + 1 \/ reasonId' = reasonId
      /\ calls' = calls /\ toolId' = toolId /\ replans' = replans
      /\ pPc' \in {"think", "ended"}
  BY DEF TurnOver, NextTurn
<1>6. RecordTypes' /\ StreamTypes' /\ GateTypes'
  BY <1>0, UnchangedTypes DEF TurnOver
<1>7. PumpTypes'
  BY <1>0, <1>4, <1>5 DEF TurnOver, PumpTypes
<1>8. CounterTypes'
  <2>1. turn' \in 0..MaxTurns
    BY <1>0, <1>5, BoundsAreNat DEF CounterTypes
  <2>2. stepN' \in Nat /\ reasonId' \in Nat
    BY <1>0, <1>5 DEF CounterTypes
  <2>3. QED
    BY <1>0, <1>5, <2>1, <2>2 DEF CounterTypes
<1>9. QED
  BY <1>6, <1>7, <1>8 DEF TypeOK

\* A cancellation at an await of the pump keeps the types.
LEMMA TypePumpCancelled == TypeOK /\ PumpCancelled => TypeOK'
<1> SUFFICES ASSUME TypeOK, PumpCancelled PROVE TypeOK'
  OBVIOUS
<1>0. RecordTypes /\ StreamTypes /\ PumpTypes /\ CounterTypes /\ GateTypes
  BY DEF TypeOK
<1>1. <<EndOfAgent>> \in Seq(Event)
  BY ErrorFrames, TupleIsSeq
<1>2. queue' \in Seq(Event) /\ failure' \in BOOLEAN
  <2>1. CASE pPc = "start"
    BY <1>0, <2>1 DEF PumpCancelled, PumpTypes
  <2>2. CASE pPc # "start"
    BY <1>0, <1>1, <2>2, PutType DEF PumpCancelled
  <2>3. QED
    BY <2>1, <2>2
<1>3. PumpTypes'
  BY <1>0, <1>2 DEF PumpCancelled, PumpTypes
<1>4. CounterTypes'
  BY <1>0 DEF PumpCancelled, CounterTypes
<1>5. StreamTypes'
  BY <1>0, UnchangedTypes DEF PumpCancelled
<1>6. RecordTypes' /\ GateTypes'
  <2>1. CASE pPc = "approval"
    <3>1. CloseRequest("cancelled") /\ UNCHANGED <<ran, outer>>
      BY <2>1 DEF PumpCancelled
    <3>2. QED
      BY <1>0, <3>1, CloseRequestTypes DEF GateTypes, outer
  <2>2. CASE pPc # "approval"
    BY <1>0, <2>2, UnchangedTypes DEF PumpCancelled
  <2>3. QED
    BY <2>1, <2>2
<1>7. QED
  BY <1>3, <1>4, <1>5, <1>6 DEF TypeOK

\* confirm_endpoint keeps the types.
LEMMA TypeConfirm ==
  ASSUME TypeOK, NEW i \in pending, NEW ok \in BOOLEAN, Confirm(i, ok)
  PROVE  TypeOK'
<1>0. RecordTypes /\ StreamTypes /\ PumpTypes /\ CounterTypes /\ GateTypes
  BY DEF TypeOK
<1>1. [id |-> i, ok |-> ok] \in Decision
  BY <1>0 DEF GateTypes, Decision
<1>2. answered' \subseteq Decision
  BY <1>0, <1>1 DEF Confirm, GateTypes
<1>3. lateAnswer' \in BOOLEAN
  BY <1>0 DEF Confirm, StreamTypes
<1>4. RecordTypes' /\ StreamTypes' /\ PumpTypes' /\ CounterTypes'
  BY <1>0, UnchangedTypes DEF Confirm
<1>5. GateTypes'
  BY <1>0, <1>2, <1>3 DEF Confirm, GateTypes, outer
<1>6. QED
  BY <1>4, <1>5 DEF TypeOK

\* Every step of the run keeps every type: one case per action.
LEMMA TypeNext == TypeOK /\ [Next]_vars => TypeOK'
<1> SUFFICES ASSUME TypeOK, [Next]_vars PROVE TypeOK'
  OBVIOUS
<1>1. CASE StreamStep
  BY <1>1, TypeDeadlineAtTop, TypeDeadlineFires, TypeBudgetNext,
     TypeBudgetFinish, TypeResumeRecall, TypeRecalled, TypeResumeGet,
     TypeForwardStep, TypeForwardEvent, TypeAgentFailed,
     TypeAgentFinishedOnMap, TypeAgentFinished, TypePlanned,
     TypePlannerFailed, TypeTailNext, TypeFinishRun, TypeStreamCancelled,
     TypeSendCancelled, TypeGeneratorClosed DEF StreamStep
<1>2. CASE PumpStep
  BY <1>2, TypePumpStarts, TypeModelFails, TypeModelCallsTools,
     TypeModelAnswers, TypeModelReplans, TypeCallUnknown, TypeCallDenied,
     TypeCallAsks, TypeCallAllowed, TypeApprovalGranted, TypeApprovalDenied,
     TypeApprovalTimesOut, TypeToolReturns, TypeTurnOver, TypePumpCancelled
     DEF PumpStep
<1>3. CASE Outside
  BY <1>3, TypeStartRun, TypeDeadlinePasses, TypeDisconnect, TypeCancelRun,
     TypeEvictRun, TypeConfirm DEF Outside
<1>4. CASE UNCHANGED vars
  BY <1>4, UnchangedTypes DEF TypeOK, vars
<1>5. QED
  BY <1>1, <1>2, <1>3, <1>4 DEF Next

\* TypeOK is invariant: every handler of the run keeps every variable in its
\* type, for any number of turns, calls, replans and log frames.
THEOREM TypeCorrect == Spec => []TypeOK
<1>1. Init => TypeOK
  BY TypeInit
<1>2. TypeOK /\ [Next]_vars => TypeOK'
  BY TypeNext
<1>3. QED
  BY <1>1, <1>2, PTL DEF Spec

------------------------------------------------------------------------------
(* The approval gate, the promise, the pump, the replay and the wait.        *)

\* What a streaming step may do to the state the gate depends on.
StreamEffect ==
  /\ UNCHANGED <<pending, answered, resolved, ran, live, toolId, stepN>>
  /\ pPc' = pPc \/ (pPc = "none" /\ pPc' = "start")
  /\ \/ status' = status
     \/ Recordable /\ status' \in {"completed", "failed", "cancelled"}

\* Every step of the streaming task has the effect above on the gate.
LEMMA StreamEffects == StageOrder /\ StreamStep => StreamEffect
<1> SUFFICES ASSUME StageOrder, StreamStep PROVE StreamEffect
  OBVIOUS
<1>1. CASE DeadlineAtTop
  BY <1>1 DEF DeadlineAtTop, StreamEffect, approval, pump
<1>2. CASE DeadlineFires
  BY <1>2 DEF DeadlineFires, StreamEffect, approval, PumpRest
<1>3. CASE BudgetNext
  BY <1>3 DEF BudgetNext, StreamEffect, approval, pump
<1>4. CASE BudgetFinish
  BY <1>4 DEF BudgetFinish, StreamEffect, approval, UpdateStatus, PumpRest
<1>5. CASE ResumeRecall
  BY <1>5 DEF ResumeRecall, StreamEffect, approval, pump, record
<1>6. CASE Recalled
  BY <1>6 DEF Recalled, StageOrder, StreamEffect, approval, record
<1>7. CASE ResumeGet
  BY <1>7 DEF ResumeGet, StreamEffect, approval, pump, record
<1>8. CASE ForwardStep
  BY <1>8 DEF ForwardStep, StreamEffect, approval, PumpButQueue
<1>9. CASE ForwardEvent
  BY <1>9 DEF ForwardEvent, StreamEffect, approval, PumpButQueue
<1>10. CASE AgentFailed
  BY <1>10 DEF AgentFailed, StreamEffect, approval, PumpButQueue
<1>11. CASE AgentFinishedOnMap
  BY <1>11 DEF AgentFinishedOnMap, StreamEffect, approval, PumpButQueue
<1>12. CASE AgentFinished
  BY <1>12 DEF AgentFinished, StreamEffect, approval, PumpButQueue, record
<1>13. CASE Planned
  BY <1>13 DEF Planned, StreamEffect, approval, pump
<1>14. CASE PlannerFailed
  BY <1>14 DEF PlannerFailed, StreamEffect, approval, pump
<1>15. CASE TailNext
  BY <1>15 DEF TailNext, StreamEffect, approval, pump
<1>16. CASE FinishRun
  BY <1>16 DEF FinishRun, StreamEffect, approval, UpdateStatus, pump
<1>17. CASE StreamCancelled
  BY <1>17 DEF StreamCancelled, StreamEffect, approval, UpdateStatus, PumpRest
<1>18. CASE SendCancelled
  BY <1>18 DEF SendCancelled, StreamEffect, approval, pump, record
<1>19. CASE GeneratorClosed
  BY <1>19 DEF GeneratorClosed, StreamEffect, approval, UpdateStatus, PumpRest
<1>20. QED
  BY <1>1, <1>2, <1>3, <1>4, <1>5, <1>6, <1>7, <1>8, <1>9, <1>10, <1>11, <1>12,
     <1>13, <1>14, <1>15, <1>16, <1>17, <1>18, <1>19 DEF StreamStep

\* The streaming task never starts a pump before the recall is over.
LEMMA StageOrderStream == StageOrder /\ TypeOK /\ StreamStep => StageOrder'
<1> SUFFICES ASSUME StageOrder, TypeOK, StreamStep PROVE StageOrder'
  OBVIOUS
<1>1. CASE DeadlineAtTop
  BY <1>1 DEF DeadlineAtTop, StageOrder, Resumed, EnterBudget, Emit, pump
<1>2. CASE DeadlineFires
  BY <1>2 DEF DeadlineFires, StageOrder, Suspended, EnterBudget, Emit, PumpRest
<1>3. CASE BudgetNext
  BY <1>3 DEF BudgetNext, StageOrder, Resumed, Emit, pump
<1>4. CASE BudgetFinish
  BY <1>4 DEF BudgetFinish, StageOrder, Resumed, UpdateStatus, PumpRest
<1>5. CASE ResumeRecall
  BY <1>5 DEF ResumeRecall, StageOrder, Resumed, pump, record
<1>6. CASE Recalled
  BY <1>6 DEF Recalled, StageOrder, record
<1>7. CASE ResumeGet
  BY <1>7 DEF ResumeGet, StageOrder, Resumed, pump, record
<1>8. CASE ForwardStep
  BY <1>8 DEF ForwardStep, StageOrder, Getting, EnterBudget, Emit, PumpButQueue
<1>9. CASE ForwardEvent
  BY <1>9 DEF ForwardEvent, StageOrder, Getting, Emit, PumpButQueue
<1>10. CASE AgentFailed
  BY <1>10 DEF AgentFailed, StageOrder, Getting, StageError, Emit, PumpButQueue
<1>11. CASE AgentFinishedOnMap
  BY <1>11 DEF AgentFinishedOnMap, StageOrder, Getting, Emit, PumpButQueue
<1>12. CASE AgentFinished
  BY <1>12 DEF AgentFinished, StageOrder, Getting, PumpButQueue, record
<1>13. CASE Planned
  BY <1>13 DEF Planned, StageOrder, Emit, pump
<1>14. CASE PlannerFailed
  BY <1>14 DEF PlannerFailed, StageOrder, StageError, Emit, pump
<1>15. CASE TailNext
  BY <1>15 DEF TailNext, StageOrder, Resumed, Emit, pump
<1>16. CASE FinishRun
  BY <1>16 DEF FinishRun, StageOrder, Resumed, UpdateStatus, pump
<1>17. CASE StreamCancelled
  BY <1>17 DEF StreamCancelled, StageOrder, Suspended, UpdateStatus, PumpRest
<1>18. CASE SendCancelled
  BY <1>18 DEF SendCancelled, StageOrder, pump, record
<1>19. CASE GeneratorClosed
  BY <1>19 DEF GeneratorClosed, StageOrder, UpdateStatus, PumpRest
<1>20. QED
  BY <1>1, <1>2, <1>3, <1>4, <1>5, <1>6, <1>7, <1>8, <1>9, <1>10, <1>11, <1>12,
     <1>13, <1>14, <1>15, <1>16, <1>17, <1>18, <1>19 DEF StreamStep

\* The pump does not touch the order of the stages.
LEMMA StageOrderPump == StageOrder /\ PumpStep => StageOrder'
<1> SUFFICES ASSUME StageOrder, PumpStep PROVE StageOrder'
  OBVIOUS
<1>1. CASE PumpStarts
  BY <1>1 DEF StageOrder, PumpStarts, PumpRuns, stream, record
<1>2. CASE ModelFails
  BY <1>2 DEF StageOrder, ModelFails, PumpRuns, stream, record
<1>3. CASE ModelCallsTools
  BY <1>3 DEF StageOrder, ModelCallsTools, PumpRuns, stream, record
<1>4. CASE ModelAnswers
  BY <1>4 DEF StageOrder, ModelAnswers, PumpRuns, stream, record
<1>5. CASE ModelReplans
  BY <1>5 DEF StageOrder, ModelReplans, PumpRuns, stream, record
<1>6. CASE CallUnknown
  BY <1>6 DEF StageOrder, CallUnknown, PumpRuns, stream, record
<1>7. CASE CallDenied
  BY <1>7 DEF StageOrder, CallDenied, PumpRuns, stream, record
<1>8. CASE CallAsks
  BY <1>8 DEF StageOrder, CallAsks, PumpRuns, UpdateStatus, stream
<1>9. CASE CallAllowed
  BY <1>9 DEF StageOrder, CallAllowed, PumpRuns, stream, record
<1>10. CASE ApprovalGranted
  BY <1>10 DEF StageOrder, ApprovalGranted, PumpRuns, CloseRequest, UpdateStatus,
     stream
<1>11. CASE ApprovalDenied
  BY <1>11 DEF StageOrder, ApprovalDenied, PumpRuns, CloseRequest, UpdateStatus,
     RefuseCall, stream
<1>12. CASE ApprovalTimesOut
  BY <1>12 DEF StageOrder, ApprovalTimesOut, PumpRuns, CloseRequest,
     UpdateStatus, RefuseCall, stream
<1>13. CASE ToolReturns
  BY <1>13 DEF StageOrder, ToolReturns, PumpRuns, stream, record
<1>14. CASE TurnOver
  BY <1>14 DEF StageOrder, TurnOver, PumpRuns, NextTurn, stream, record
<1>15. CASE PumpCancelled
  BY <1>15 DEF StageOrder, PumpCancelled, CloseRequest, UpdateStatus, stream, record
<1>16. QED
  BY <1>1, <1>2, <1>3, <1>4, <1>5, <1>6, <1>7, <1>8, <1>9, <1>10, <1>11, <1>12,
     <1>13, <1>14, <1>15 DEF PumpStep

\* No step breaks the order of the stages.
LEMMA StageOrderNext == StageOrder /\ TypeOK /\ [Next]_vars => StageOrder'
<1> SUFFICES ASSUME StageOrder, TypeOK, [Next]_vars PROVE StageOrder'
  OBVIOUS
<1>1. CASE StreamStep
  BY <1>1, StageOrderStream
<1>2. CASE PumpStep
  BY <1>2, StageOrderPump
<1>3. CASE StartRun
  BY <1>3 DEF StartRun, StageOrder, pump
<1>4. CASE DeadlinePasses
  BY <1>4 DEF DeadlinePasses, StageOrder, pump, record
<1>5. CASE Disconnect
  BY <1>5 DEF Disconnect, StageOrder, pump, record
<1>6. CASE CancelRun
  BY <1>6 DEF CancelRun, Recordable, StageOrder, pump
<1>7. CASE EvictRun
  BY <1>7 DEF EvictRun, StageOrder, pump, stream
<1>8. CASE \E i \in pending, ok \in BOOLEAN : Confirm(i, ok)
  BY <1>8 DEF Confirm, StageOrder, pump, stream, record
<1>9. CASE UNCHANGED vars
  BY <1>9 DEF vars, StageOrder, pump, stream, record
<1>10. QED
  BY <1>1, <1>2, <1>3, <1>4, <1>5, <1>6, <1>7, <1>8, <1>9 DEF Next, Outside

\* Before the request the gate has heard of nothing.
LEMMA GateInit == Init => GateInv
<1> SUFFICES ASSUME Init PROVE GateInv
  OBVIOUS
<1>1. StageOrder /\ PendingIsWaitedOn
  BY DEF Init, StageOrder, PendingIsWaitedOn
<1>2. FreshIds
  <2>1. SpentIds = {} /\ RanIds = {}
    BY DEF Init, SpentIds, RanIds
  <2>2. /\ toolId = 0 /\ stepN = 0 /\ pending = {} /\ answered = {}
        /\ pPc = "none"
    BY DEF Init
  <2>3. QED
    BY <2>1, <2>2 DEF FreshIds
<1>3. WaitingIffPending /\ ApprovalGate /\ RefusedNeverRuns
  BY DEF Init, WaitingIffPending, ApprovalGate, RefusedNeverRuns, Recordable
<1>4. QED
  BY <1>1, <1>2, <1>3 DEF GateInv

\* A step that leaves the gate alone, and the status alone or terminal.
LEMMA GateUntouched ==
  ASSUME TypeOK, GateInv, StageOrder',
         UNCHANGED <<pending, answered, resolved, ran, toolId, stepN>>,
         live' => live,
         pPc' = pPc \/ (pPc = "none" /\ pPc' = "start"),
         status' = status \/ status' \in Terminal
  PROVE  GateInv'
<1>1. FreshIds' /\ PendingIsWaitedOn'
  BY DEF GateInv, FreshIds, SpentIds, RanIds, PendingIsWaitedOn
<1>2. WaitingIffPending'
  BY DEF GateInv, WaitingIffPending, Recordable
<1>3. ApprovalGate' /\ RefusedNeverRuns'
  BY DEF GateInv, ApprovalGate, RefusedNeverRuns
<1>4. QED
  BY <1>1, <1>2, <1>3 DEF GateInv

\* A pump step that asks nobody: it may take fresh ids and run one ungated tool.
LEMMA PumpAsksNobody ==
  ASSUME TypeOK, GateInv, StageOrder',
         UNCHANGED <<status, live, pending, answered, resolved>>,
         pPc # "approval", pPc' \in {"think", "call", "tool", "ended"},
         stepN' \in Nat, stepN <= stepN', toolId' <= stepN',
         \/ ran' = ran
         \/ /\ ran' = ran \cup {[id |-> stepN + 1, gated |-> FALSE]}
            /\ stepN' = stepN + 1
  PROVE  GateInv'
<1>1. /\ stepN \in Nat /\ toolId \in Nat
      /\ pending = {} /\ pending' = {} /\ answered \subseteq Decision
      /\ resolved \subseteq Verdict /\ ran \subseteq Execution
  BY DEF GateInv, PendingIsWaitedOn, TypeOK, CounterTypes, GateTypes
<1>2. SpentIds' = SpentIds /\ SpentIds \subseteq Nat /\ RanIds \subseteq Nat
  BY <1>1 DEF SpentIds, RanIds, Verdict, Execution
<1>3. RanIds' = RanIds \/ (RanIds' = RanIds \cup {stepN + 1} /\ stepN' = stepN + 1)
  BY DEF RanIds
<1>4. FreshIds'
  <2>1. \A i \in SpentIds \cup RanIds : i <= stepN
    BY DEF GateInv, FreshIds
  <2>2. ASSUME NEW i \in pending' \cup SpentIds' \cup RanIds' PROVE i <= stepN'
    <3>1. CASE i \in SpentIds \cup RanIds
      <4>1. i <= stepN /\ i \in Nat
        BY <1>2, <2>1, <3>1
      <4>2. QED
        BY <1>1, <4>1
    <3>2. CASE i = stepN + 1 /\ stepN' = stepN + 1
      BY <1>1, <3>2
    <3>3. QED
      BY <1>1, <1>2, <1>3, <3>1, <3>2
  <2>3. QED
    BY <1>1, <1>2, <2>2 DEF GateInv, FreshIds
<1>5. PendingIsWaitedOn'
  BY <1>1 DEF PendingIsWaitedOn
<1>6. WaitingIffPending'
  BY DEF GateInv, WaitingIffPending, Recordable
<1>7. ApprovalGate'
  BY DEF GateInv, ApprovalGate
<1>8. RefusedNeverRuns'
  <2>1. \A v \in resolved : v.id \in SpentIds
    BY DEF SpentIds
  <2>2. stepN + 1 \notin SpentIds
    BY <1>1, <1>2 DEF GateInv, FreshIds
  <2>3. QED
    BY <2>1, <2>2 DEF GateInv, RefusedNeverRuns
<1>9. QED
  BY <1>4, <1>5, <1>6, <1>7, <1>8 DEF GateInv

\* approve() opens a request under a fresh id.
LEMMA GateCallAsks == TypeOK /\ GateInv /\ StageOrder' /\ CallAsks => GateInv'
<1> SUFFICES ASSUME TypeOK, GateInv, StageOrder', CallAsks PROVE GateInv'
  OBVIOUS
<1> DEFINE n == stepN + 1
<1>1. /\ stepN \in Nat /\ n \in Nat /\ pPc = "call" /\ pending = {}
      /\ stepN' = n /\ toolId' = n /\ pending' = {n} /\ pPc' = "approval"
      /\ UNCHANGED <<answered, resolved, ran, live>>
  <2>1. stepN \in Nat /\ n \in Nat
    BY DEF TypeOK, CounterTypes
  <2>2. pPc = "call" /\ pending = {}
    BY DEF CallAsks, PumpRuns, GateInv, PendingIsWaitedOn
  <2>3. /\ stepN' = n /\ toolId' = n /\ pending' = pending \cup {n}
        /\ pPc' = "approval" /\ UNCHANGED <<answered, resolved, ran, live>>
    BY DEF CallAsks
  <2>4. QED
    BY <2>1, <2>2, <2>3
<1>2. SpentIds' = SpentIds /\ RanIds' = RanIds
  BY <1>1 DEF SpentIds, RanIds
<1>3. SpentIds \cup RanIds \subseteq Nat /\ \A i \in SpentIds \cup RanIds : i <= stepN
  BY DEF GateInv, FreshIds, SpentIds, RanIds, TypeOK, GateTypes, Verdict, Execution
<1>4. FreshIds'
  <2>1. n \notin SpentIds \cup RanIds
    BY <1>1, <1>3
  <2>2. \A i \in {n} \cup SpentIds \cup RanIds : i <= n
    BY <1>1, <1>3
  <2>3. \A d \in answered : d.id \in SpentIds
    BY <1>1 DEF GateInv, FreshIds
  <2>4. QED
    BY <1>1, <1>2, <2>1, <2>2, <2>3 DEF FreshIds
<1>5. PendingIsWaitedOn'
  BY <1>1 DEF PendingIsWaitedOn
<1>6. WaitingIffPending'
  <2>1. status' = IF Recordable THEN "waiting_approval" ELSE status
    BY DEF CallAsks, UpdateStatus
  <2>2. Recordable' => status' = "waiting_approval"
    BY <1>1, <2>1 DEF Recordable
  <2>3. pending' # {}
    BY <1>1
  <2>4. QED
    BY <2>2, <2>3 DEF WaitingIffPending
<1>7. ApprovalGate' /\ RefusedNeverRuns'
  BY <1>1 DEF GateInv, ApprovalGate, RefusedNeverRuns
<1>8. QED
  BY <1>4, <1>5, <1>6, <1>7 DEF GateInv

\* The finally of approve(), with or without the release of the call.
LEMMA GateCloses ==
  ASSUME TypeOK, GateInv, StageOrder',
         NEW how, CloseRequest(how),
         pPc = "approval", pPc' \in {"tool", "call", "ended"},
         UNCHANGED <<toolId, stepN>>,
         \/ ran' = ran
         \/ /\ how = "granted" /\ [id |-> toolId, ok |-> TRUE] \in answered
            /\ ran' = ran \cup {[id |-> toolId, gated |-> TRUE]}
  PROVE  GateInv'
<1>1. /\ pending = {toolId} /\ pending' = {} /\ answered' = answered
      /\ resolved' = resolved \cup {[id |-> toolId, how |-> how]}
      /\ live' = live /\ toolId \notin SpentIds \cup RanIds
  BY DEF GateInv, PendingIsWaitedOn, FreshIds, CloseRequest
<1>2. SpentIds' = SpentIds \cup {toolId}
  <2>1. [id |-> toolId, how |-> how].id = toolId
    OBVIOUS
  <2>2. QED
    BY <1>1, <2>1, Zenon DEF SpentIds
<1>3. RanIds' = RanIds \/ RanIds' = RanIds \cup {toolId}
  BY DEF RanIds
<1>4. FreshIds'
  <2>1. \A i \in SpentIds \cup RanIds \cup {toolId} : i <= stepN
    BY DEF GateInv, FreshIds
  <2>2. \A d \in answered : d.id \in SpentIds'
    BY <1>1, <1>2 DEF GateInv, FreshIds
  <2>3. QED
    BY <1>1, <1>2, <1>3, <2>1, <2>2 DEF FreshIds
<1>5. PendingIsWaitedOn'
  BY <1>1 DEF PendingIsWaitedOn
<1>6. WaitingIffPending'
  BY <1>1 DEF CloseRequest, UpdateStatus, WaitingIffPending, Recordable, Terminal
<1>7. ApprovalGate'
  <2>1. CASE ran' = ran
    BY <1>1, <2>1 DEF GateInv, ApprovalGate
  <2>2. CASE /\ [id |-> toolId, ok |-> TRUE] \in answered
             /\ ran' = ran \cup {[id |-> toolId, gated |-> TRUE]}
    <3>1. SUFFICES ASSUME NEW r \in ran', r.gated
                   PROVE  [id |-> r.id, ok |-> TRUE] \in answered
      BY <1>1 DEF ApprovalGate
    <3>2. CASE r \in ran
      BY <3>1, <3>2 DEF GateInv, ApprovalGate
    <3>3. CASE r = [id |-> toolId, gated |-> TRUE]
      BY <2>2, <3>3
    <3>4. QED
      BY <2>2, <3>2, <3>3
  <2>3. QED
    BY <2>1, <2>2
<1>8. RefusedNeverRuns'
  <2>1. \A v \in resolved : v.id # toolId
    BY <1>1 DEF SpentIds
  <2>2. \A r \in ran : r.id # toolId
    BY <1>1 DEF RanIds
  <2>3. QED
    BY <1>1, <2>1, <2>2 DEF GateInv, RefusedNeverRuns
<1>9. QED
  BY <1>4, <1>5, <1>6, <1>7, <1>8 DEF GateInv

\* confirm_endpoint answers only a request that is open.
LEMMA GateConfirm ==
  ASSUME TypeOK, GateInv, StageOrder',
         NEW i \in pending, NEW ok \in BOOLEAN, Confirm(i, ok)
  PROVE  GateInv'
<1>1. /\ answered' = answered \cup {[id |-> i, ok |-> ok]}
      /\ UNCHANGED <<pending, resolved, ran, toolId, stepN, pPc, status, live>>
  BY DEF Confirm, record, pump
<1>2. SpentIds' = SpentIds /\ RanIds' = RanIds
  BY <1>1 DEF SpentIds, RanIds
<1>3. FreshIds'
  BY <1>1, <1>2 DEF GateInv, FreshIds
<1>4. PendingIsWaitedOn' /\ WaitingIffPending'
  BY <1>1 DEF GateInv, PendingIsWaitedOn, WaitingIffPending, Recordable
<1>5. ApprovalGate' /\ RefusedNeverRuns'
  BY <1>1 DEF GateInv, ApprovalGate, RefusedNeverRuns
<1>6. QED
  BY <1>3, <1>4, <1>5 DEF GateInv

\* Every step of the pump keeps the gate: one case per action.
LEMMA GatePumpStep == TypeOK /\ GateInv /\ StageOrder' /\ PumpStep => GateInv'
<1> SUFFICES ASSUME TypeOK, GateInv, StageOrder', PumpStep PROVE GateInv'
  OBVIOUS
<1>0. /\ stepN \in Nat /\ stepN + 1 \in Nat /\ stepN + 2 \in Nat
      /\ toolId \in Nat /\ toolId <= stepN
      /\ pPc \in {"none", "start"} => stepN = 0
  BY DEF TypeOK, CounterTypes, GateInv, FreshIds
<1>1. CASE PumpStarts
  BY <1>0, <1>1, PumpAsksNobody DEF PumpStarts, PumpRuns, record, approval
<1>2. CASE ModelFails
  BY <1>0, <1>2, PumpAsksNobody DEF ModelFails, PumpRuns, record, approval
<1>3. CASE ModelCallsTools
  BY <1>0, <1>3, PumpAsksNobody DEF ModelCallsTools, PumpRuns, record, approval
<1>4. CASE ModelAnswers
  BY <1>0, <1>4, PumpAsksNobody DEF ModelAnswers, PumpRuns, record, approval
<1>5. CASE ModelReplans
  BY <1>0, <1>5, PumpAsksNobody DEF ModelReplans, PumpRuns, record, approval
<1>6. CASE CallUnknown
  BY <1>0, <1>6, PumpAsksNobody DEF CallUnknown, PumpRuns, record, approval
<1>7. CASE CallDenied
  <2>1. /\ UNCHANGED <<status, live, pending, answered, resolved, ran>>
        /\ pPc = "call" /\ pPc' = "call"
        /\ stepN' = stepN + 1 /\ toolId' = stepN + 1
    BY <1>7 DEF CallDenied, PumpRuns, record, approval
  <2>2. stepN' \in Nat /\ stepN <= stepN' /\ toolId' <= stepN'
    BY <1>0, <2>1
  <2>3. QED
    BY <2>1, <2>2, PumpAsksNobody
<1>8. CASE CallAllowed
  BY <1>0, <1>8, PumpAsksNobody DEF CallAllowed, PumpRuns, record
<1>9. CASE ToolReturns
  BY <1>0, <1>9, PumpAsksNobody DEF ToolReturns, PumpRuns, record, approval
<1>10. CASE TurnOver
  BY <1>0, <1>10, PumpAsksNobody DEF TurnOver, PumpRuns, NextTurn, record, approval
<1>11. CASE CallAsks
  BY <1>11, GateCallAsks
<1>12. CASE ApprovalGranted
  BY <1>12, GateCloses DEF ApprovalGranted, PumpRuns
<1>13. CASE ApprovalDenied
  BY <1>13, GateCloses DEF ApprovalDenied, PumpRuns, RefuseCall
<1>14. CASE ApprovalTimesOut
  BY <1>14, GateCloses DEF ApprovalTimesOut, PumpRuns, RefuseCall
<1>15. CASE PumpCancelled
  <2>1. CASE pPc = "approval"
    BY <1>15, <2>1, GateCloses DEF PumpCancelled
  <2>2. CASE pPc # "approval"
    BY <1>0, <1>15, <2>2, PumpAsksNobody DEF PumpCancelled, record, approval
  <2>3. QED
    BY <2>1, <2>2
<1>16. QED
  BY <1>1, <1>2, <1>3, <1>4, <1>5, <1>6, <1>7, <1>8, <1>9, <1>10, <1>11,
     <1>12, <1>13, <1>14, <1>15 DEF PumpStep

\* Every step of the run keeps the gate.
LEMMA GateNext == TypeOK /\ GateInv /\ [Next]_vars => GateInv'
<1> SUFFICES ASSUME TypeOK, GateInv, [Next]_vars PROVE GateInv'
  OBVIOUS
<1>0. StageOrder /\ StageOrder'
  BY StageOrderNext DEF GateInv
<1>1. CASE StreamStep
  BY <1>0, <1>1, StreamEffects, GateUntouched DEF StreamEffect, Terminal
<1>2. CASE PumpStep
  BY <1>0, <1>2, GatePumpStep
<1>3. CASE StartRun
  <2>1. pPc = "none" /\ pPc' = "none" /\ pending = {}
    BY <1>0, <1>3 DEF StartRun, StageOrder, GateInv, PendingIsWaitedOn, pump
  <2>2. /\ UNCHANGED <<pending, answered, resolved, ran, toolId, stepN>>
        /\ status' = "running"
    BY <1>3 DEF StartRun, pump, approval
  <2>3. FreshIds' /\ PendingIsWaitedOn'
    BY <2>1, <2>2 DEF GateInv, FreshIds, SpentIds, RanIds, PendingIsWaitedOn
  <2>4. WaitingIffPending'
    BY <2>1, <2>2 DEF WaitingIffPending
  <2>5. ApprovalGate' /\ RefusedNeverRuns'
    BY <2>2 DEF GateInv, ApprovalGate, RefusedNeverRuns
  <2>6. QED
    BY <1>0, <2>3, <2>4, <2>5 DEF GateInv
<1>4. CASE DeadlinePasses
  BY <1>0, <1>4, GateUntouched DEF DeadlinePasses, record, pump, approval
<1>5. CASE Disconnect
  BY <1>0, <1>5, GateUntouched DEF Disconnect, record, pump, approval
<1>6. CASE CancelRun
  BY <1>0, <1>6, GateUntouched DEF CancelRun, pump, approval, Terminal
<1>7. CASE EvictRun
  BY <1>0, <1>7, GateUntouched DEF EvictRun, pump, approval
<1>8. CASE \E i \in pending, ok \in BOOLEAN : Confirm(i, ok)
  BY <1>0, <1>8, GateConfirm
<1>9. CASE UNCHANGED vars
  BY <1>0, <1>9, GateUntouched DEF vars, record, pump, approval
<1>10. QED
  BY <1>1, <1>2, <1>3, <1>4, <1>5, <1>6, <1>7, <1>8, <1>9 DEF Next, Outside

\* The gate's inductive invariant holds in every reachable state.
THEOREM GateHolds == Spec => []GateInv
<1>1. Init => GateInv
  BY GateInit
<1>2. TypeOK /\ GateInv /\ [Next]_vars => GateInv'
  BY GateNext
<1>3. QED
  BY <1>1, <1>2, TypeCorrect, PTL DEF Spec

\* A request closed by a refusal, a timeout or a cancellation never runs, and
\* each request gets one verdict.
THEOREM RefusedNeverRunsHolds == Spec => []RefusedNeverRuns
<1>1. GateInv => RefusedNeverRuns
  BY DEF GateInv
<1>2. QED
  BY <1>1, GateHolds, PTL

\* The status tells the truth about PENDING.
THEOREM WaitingIffPendingHolds == Spec => []WaitingIffPending
<1>1. GateInv => WaitingIffPending
  BY DEF GateInv
<1>2. QED
  BY <1>1, GateHolds, PTL

\* PENDING holds a request exactly while the pump waits on it.
THEOREM PendingIsWaitedOnHolds == Spec => []PendingIsWaitedOn
<1>1. GateInv => PendingIsWaitedOn
  BY DEF GateInv
<1>2. QED
  BY <1>1, GateHolds, PTL

------------------------------------------------------------------------------
(* What a step does to the state the promise is about.                        *)

\* The pump outside the gate: nothing, or one ungated execution.
LEMMA PumpEffects ==
  ASSUME PumpStep, pPc # "approval", ~CallAsks
  PROVE  /\ UNCHANGED <<status, live, pending, resolved>>
         /\ \/ ran' = ran
            \/ ran' = ran \cup {[id |-> stepN + 1, gated |-> FALSE]}
<1>1. CASE PumpStarts
  BY <1>1 DEF PumpStarts, record, approval
<1>2. CASE ModelFails
  BY <1>2 DEF ModelFails, record, approval
<1>3. CASE ModelCallsTools
  BY <1>3 DEF ModelCallsTools, record, approval
<1>4. CASE ModelAnswers
  BY <1>4 DEF ModelAnswers, record, approval
<1>5. CASE ModelReplans
  BY <1>5 DEF ModelReplans, record, approval
<1>6. CASE CallUnknown
  BY <1>6 DEF CallUnknown, record, approval
<1>7. CASE CallDenied
  BY <1>7 DEF CallDenied, record, approval
<1>8. CASE CallAllowed
  BY <1>8 DEF CallAllowed, record
<1>9. CASE ToolReturns
  BY <1>9 DEF ToolReturns, record, approval
<1>10. CASE TurnOver
  BY <1>10 DEF TurnOver, record, approval
<1>11. CASE PumpCancelled
  BY <1>11 DEF PumpCancelled, record, approval
<1>12. CASE ApprovalGranted \/ ApprovalDenied \/ ApprovalTimesOut
  BY <1>12 DEF ApprovalGranted, ApprovalDenied, ApprovalTimesOut, PumpRuns
<1>13. QED
  BY <1>1, <1>2, <1>3, <1>4, <1>5, <1>6, <1>7, <1>8, <1>9, <1>10, <1>11, <1>12
     DEF PumpStep

\* The end of a wait.
LEMMA CloseEffects ==
  ASSUME PumpStep, pPc = "approval"
  PROVE  \/ /\ CloseRequest("granted")
            /\ ran' = ran \cup {[id |-> toolId, gated |-> TRUE]}
         \/ \E how \in {"denied", "timeout", "cancelled"} :
              CloseRequest(how) /\ ran' = ran
<1>1. CASE ApprovalGranted
  BY <1>1 DEF ApprovalGranted
<1>2. CASE ApprovalDenied
  BY <1>2 DEF ApprovalDenied, RefuseCall
<1>3. CASE ApprovalTimesOut
  BY <1>3 DEF ApprovalTimesOut, RefuseCall
<1>4. CASE PumpCancelled
  BY <1>4 DEF PumpCancelled
<1>5. QED
  BY <1>1, <1>2, <1>3, <1>4
     DEF PumpStep, PumpRuns, PumpStarts, ModelFails, ModelCallsTools,
         ModelAnswers, ModelReplans, CallUnknown, CallDenied, CallAsks,
         CallAllowed, ToolReturns, TurnOver

\* Every step of the run is a step of the promise, or none.
LEMMA StepKeepsPromise ==
  TypeOK /\ GateInv /\ [Next]_vars => [Promise!Next]_(Promise!vars)
<1> SUFFICES ASSUME TypeOK, GateInv, [Next]_vars
             PROVE  Promise!Next \/ UNCHANGED Promise!vars
  OBVIOUS
<1>0. StageOrder
  BY DEF GateInv
<1>1. ASSUME UNCHANGED <<live, pending, resolved, ran>>,
             \/ status' = status
             \/ Recordable /\ status' \in {"completed", "failed", "cancelled"}
      PROVE  Promise!Next \/ UNCHANGED Promise!vars
  <2>1. SpentIds' = SpentIds /\ GatedIds' = GatedIds
    BY <1>1 DEF SpentIds, GatedIds
  <2>2. CASE status' = status
    BY <1>1, <2>1, <2>2 DEF Promise!vars
  <2>3. CASE Recordable /\ status' \in {"completed", "failed", "cancelled"}
    BY <1>0, <1>1, <2>1, <2>3
       DEF Recordable, Terminal, StageOrder, Promise!Next, Promise!End,
           Promise!Movable, Promise!Ended
  <2>4. QED
    BY <1>1, <2>2, <2>3
<1>2. CASE StreamStep
  BY <1>0, <1>1, <1>2, StreamEffects DEF StreamEffect
<1>3. CASE CallAsks
  <2>1. /\ pending = {} /\ pending' = {stepN + 1} /\ status # "absent"
        /\ UNCHANGED <<live, resolved, ran>>
        /\ status' = IF Recordable THEN "waiting_approval" ELSE status
    BY <1>0, <1>3 DEF CallAsks, PumpRuns, UpdateStatus, GateInv,
                      PendingIsWaitedOn, StageOrder
  <2>2. stepN + 1 \notin SpentIds
    <3>1. stepN \in Nat /\ \A i \in SpentIds : i <= stepN
      BY DEF TypeOK, CounterTypes, GateInv, FreshIds
    <3>2. QED
      BY <3>1
  <2>3. SpentIds' = SpentIds /\ GatedIds' = GatedIds
    BY <2>1 DEF SpentIds, GatedIds
  <2>4. Recordable <=> Promise!Movable
    BY <1>0 DEF Recordable, Terminal, StageOrder, Promise!Movable, Promise!Ended
  <2>5. Promise!Ask
    BY <2>1, <2>2, <2>3, <2>4 DEF Promise!Ask, Promise!Moves
  <2>6. QED
    BY <2>5 DEF Promise!Next
<1>4. CASE PumpStep /\ pPc = "approval"
  <2>1. pending = {toolId}
    BY <1>4 DEF GateInv, PendingIsWaitedOn
  <2>2. Recordable <=> Promise!Movable
    BY <1>0 DEF Recordable, Terminal, StageOrder, Promise!Movable, Promise!Ended
  <2>3. ASSUME NEW how, CloseRequest(how)
        PROVE  Promise!Close(toolId)
    <3>1. SpentIds' = SpentIds \cup {toolId}
      <4>1. [id |-> toolId, how |-> how].id = toolId
        OBVIOUS
      <4>2. QED
        BY <2>3, <4>1, Zenon DEF SpentIds, CloseRequest
    <3>2. QED
      BY <2>1, <2>2, <2>3, <3>1
         DEF CloseRequest, UpdateStatus, Promise!Close, Promise!Moves
  <2>4. CASE CloseRequest("granted")
             /\ ran' = ran \cup {[id |-> toolId, gated |-> TRUE]}
    <3>1. GatedIds' = GatedIds \cup {toolId}
      <4>1. /\ [id |-> toolId, gated |-> TRUE].id = toolId
            /\ [id |-> toolId, gated |-> TRUE].gated = TRUE
        OBVIOUS
      <4>2. QED
        BY <2>4, <4>1, Zenon DEF GatedIds
    <3>2. Promise!Release(toolId)
      BY <2>3, <2>4, <3>1 DEF Promise!Release
    <3>3. QED
      BY <2>1, <3>2 DEF Promise!Next
  <2>5. CASE \E how \in {"denied", "timeout", "cancelled"} :
               CloseRequest(how) /\ ran' = ran
    <3>1. GatedIds' = GatedIds
      BY <2>5 DEF GatedIds
    <3>2. Promise!Refuse(toolId)
      BY <2>3, <2>5, <3>1 DEF Promise!Refuse
    <3>3. QED
      BY <2>1, <3>2 DEF Promise!Next
  <2>6. QED
    BY <1>4, <2>4, <2>5, CloseEffects
<1>5. CASE PumpStep /\ pPc # "approval" /\ ~CallAsks
  <2>1. UNCHANGED <<status, live, pending, resolved>>
    BY <1>5, PumpEffects
  <2>2. GatedIds' = GatedIds
    BY <1>5, PumpEffects DEF GatedIds
  <2>3. SpentIds' = SpentIds
    BY <2>1 DEF SpentIds
  <2>4. QED
    BY <2>1, <2>2, <2>3 DEF Promise!vars
<1>6. CASE StartRun
  <2>1. /\ status = "absent" /\ status' = "running" /\ live' = TRUE
        /\ UNCHANGED <<pending, resolved, ran>>
    BY <1>0, <1>6 DEF StartRun, StageOrder, approval
  <2>2. SpentIds' = SpentIds /\ GatedIds' = GatedIds
    BY <2>1 DEF SpentIds, GatedIds
  <2>3. QED
    BY <2>1, <2>2 DEF Promise!Next, Promise!Create
<1>7. CASE EvictRun
  <2>1. /\ live /\ live' = FALSE
        /\ UNCHANGED <<status, pending, resolved, ran>>
    BY <1>7 DEF EvictRun, approval
  <2>2. SpentIds' = SpentIds /\ GatedIds' = GatedIds
    BY <2>1 DEF SpentIds, GatedIds
  <2>3. QED
    BY <2>1, <2>2 DEF Promise!Next, Promise!Evict
<1>8. CASE DeadlinePasses \/ Disconnect
  BY <1>1, <1>8 DEF DeadlinePasses, Disconnect, record, approval
<1>9. CASE CancelRun
  BY <1>1, <1>9 DEF CancelRun, approval
<1>10. CASE \E i \in pending, ok \in BOOLEAN : Confirm(i, ok)
  BY <1>1, <1>10 DEF Confirm, record
<1>11. CASE UNCHANGED vars
  BY <1>1, <1>11 DEF vars, record, approval
<1>12. QED
  BY <1>2, <1>3, <1>4, <1>5, <1>6, <1>7, <1>8, <1>9, <1>10, <1>11
     DEF Next, Outside

\* The run implements its promise: whatever the stream, the pump, the HTTP
\* handlers and the clock do, seen through its status, its open requests and
\* what the gate released it is a run of RunPromise.
THEOREM RunKeepsPromise == Spec => KeepsPromise
<1>1. Init => Promise!Init
  BY DEF Init, Promise!Init, SpentIds, GatedIds
<1>2. TypeOK /\ GateInv /\ [Next]_vars => [Promise!Next]_(Promise!vars)
  BY StepKeepsPromise
<1>3. QED
  BY <1>1, <1>2, TypeCorrect, GateHolds, PTL DEF Spec, KeepsPromise, Promise!Spec

\* Nothing moves a run out of a terminal status.
THEOREM TerminalIsFinalHolds == Spec => TerminalIsFinal
<1>1. GateInv /\ [Promise!Next]_(Promise!vars)
        => [(status \in Terminal) => (status' = status)]_vars
  <2> SUFFICES ASSUME GateInv, [Promise!Next]_(Promise!vars), status \in Terminal
               PROVE  status' = status
    OBVIOUS
  <2>1. status \in Promise!Ended
    BY DEF GateInv, StageOrder, Terminal, Promise!Ended
  <2>2. CASE Promise!Next
    BY <2>1, <2>2 DEF Promise!Next, Promise!Create, Promise!End, Promise!Evict,
         Promise!Ask, Promise!Release, Promise!Refuse, Promise!Close,
         Promise!Moves, Promise!Movable, Promise!Ended
  <2>3. CASE UNCHANGED Promise!vars
    BY <2>3 DEF Promise!vars
  <2>4. QED
    BY <2>2, <2>3
<1>2. QED
  BY <1>1, StepKeepsPromise, TypeCorrect, GateHolds, PTL DEF Spec, TerminalIsFinal


------------------------------------------------------------------------------
(* What the pump puts into the queue.                                        *)

\* Events that neither end the agent nor ask for a decision.
Plain(es) == \A k \in 1..Len(es) : es[k].ev \notin {"end", "confirm"}

\* The kinds of the events the loop yields one by one.
LEMMA PlainOnes ==
  ASSUME NEW i \in Nat
  PROVE  /\ Ev("denied", 0, "") \in Event /\ Ev("denied", 0, "").ev = "denied"
         /\ Ev("confirm", i, "") \in Event /\ Ev("confirm", i, "").ev = "confirm"
         /\ Ev("confirm", i, "").id = i
         /\ State("processing") \in Event /\ State("processing").ev = "state"
         /\ Ev("memory", 0, "") \in Event /\ Ev("memory", 0, "").ev = "memory"
         /\ State("tool_execution") \in Event /\ State("tool_execution").ev = "state"
         /\ Ev("tool_call", i, "") \in Event /\ Ev("tool_call", i, "").ev = "tool_call"
         /\ EndOfAgent \in Event /\ EndOfAgent.ev = "end"
BY DEF Step, State, Ev, Event, EventKinds, StepKinds, Marks, EndOfAgent

\* The steps of the loop, one by one.
LEMMA StepOnes ==
  ASSUME NEW i \in Nat
  PROVE  /\ Step("tool", i, "running") \in Event /\ Step("tool", i, "running").ev = "tool"
         /\ Step("tool", i, "failed") \in Event /\ Step("tool", i, "failed").ev = "tool"
         /\ Step("tool", i, "waiting_approval") \in Event
         /\ Step("tool", i, "waiting_approval").ev = "tool"
         /\ Step("reason", i, "running") \in Event
         /\ Step("reason", i, "running").ev = "reason"
         /\ Step("verification", i, "failed") \in Event
         /\ Step("verification", i, "failed").ev = "verification"
         /\ \A m \in {"completed", "failed"} :
              Step("tool", i, m) \in Event /\ Step("tool", i, m).ev = "tool"
         /\ Step("reason", i, "completed") \in Event
         /\ Step("reason", i, "completed").ev = "reason"
         /\ Step("answer_step", i, "completed") \in Event
         /\ Step("answer_step", i, "completed").ev = "answer_step"
BY DEF Step, Ev, Event, EventKinds, StepKinds, Marks

\* Short lists of plain events are plain.
LEMMA PlainLists ==
  /\ Plain(<<>>)
  /\ \A a \in Event : a.ev \notin {"end", "confirm"} => Plain(<<a>>)
  /\ \A a, b \in Event : {a.ev, b.ev} \cap {"end", "confirm"} = {} => Plain(<<a, b>>)
  /\ \A a, b, c \in Event :
       {a.ev, b.ev, c.ev} \cap {"end", "confirm"} = {} => Plain(<<a, b, c>>)
<1>1. Plain(<<>>)
  BY DEF Plain
<1>2. ASSUME NEW a \in Event, a.ev \notin {"end", "confirm"} PROVE Plain(<<a>>)
  <2>1. \A k \in 1..Len(<<a>>) : k = 1
    OBVIOUS
  <2>2. <<a>>[1] = a
    OBVIOUS
  <2> QED
    BY <1>2, <2>1, <2>2 DEF Plain
<1>3. ASSUME NEW a \in Event, NEW b \in Event, {a.ev, b.ev} \cap {"end", "confirm"} = {}
      PROVE  Plain(<<a, b>>)
  <2>1. \A k \in 1..Len(<<a, b>>) : k = 1 \/ k = 2
    OBVIOUS
  <2>2. <<a, b>>[1] = a /\ <<a, b>>[2] = b
    OBVIOUS
  <2> QED
    BY <1>3, <2>1, <2>2 DEF Plain
<1>4. ASSUME NEW a \in Event, NEW b \in Event, NEW c \in Event,
             {a.ev, b.ev, c.ev} \cap {"end", "confirm"} = {}
      PROVE  Plain(<<a, b, c>>)
  <2>1. \A k \in 1..Len(<<a, b, c>>) : k = 1 \/ k = 2 \/ k = 3
    OBVIOUS
  <2>2. <<a, b, c>>[1] = a /\ <<a, b, c>>[2] = b /\ <<a, b, c>>[3] = c
    OBVIOUS
  <2> QED
    BY <1>4, <2>1, <2>2 DEF Plain
<1> QED
  BY <1>1, <1>2, <1>3, <1>4

\* A list of plain events behind another is plain.
LEMMA PlainJoin ==
  ASSUME NEW s \in Seq(Event), NEW t \in Seq(Event), Plain(s), Plain(t)
  PROVE  Plain(s \o t)
BY ConcatProperties DEF Plain

\* What one step of the pump puts into the queue: plain events, or its last
\* words, or the three events with which approve() asks.
PutsPlain(es) == Plain(es)
PutsLast(es) == pPc' = "ended" /\ \A k \in 1..Len(es) : es[k].ev # "confirm"
PutsRequest(es) ==
  /\ CallAsks
  /\ Len(es) = 3 /\ es[3] = Ev("confirm", stepN + 1, "")
  /\ \A k \in 1..2 : es[k].ev = "tool"

PumpPut(es) == Put(es) /\ (PutsPlain(es) \/ PutsLast(es) \/ PutsRequest(es))

\* The last words of the pump ask for nothing.
LEMMA LastWords ==
  ASSUME NEW i \in Nat, NEW j \in Nat
  PROVE  /\ <<EndOfAgent>> \in Seq(Event)
         /\ \A k \in 1..Len(<<EndOfAgent>>) : <<EndOfAgent>>[k].ev # "confirm"
         /\ LET es == <<Step("reason", i, "completed"),
                        Step("answer_step", j, "completed"), EndOfAgent>>
            IN  es \in Seq(Event) /\ \A k \in 1..Len(es) : es[k].ev # "confirm"
         /\ LET es == <<Step("verification", i, "failed"), EndOfAgent>>
            IN  es \in Seq(Event) /\ \A k \in 1..Len(es) : es[k].ev # "confirm"
         /\ LET es == <<State("processing")>> \o <<EndOfAgent>>
            IN  es \in Seq(Event) /\ \A k \in 1..Len(es) : es[k].ev # "confirm"
<1> DEFINE NoAsk(es) == \A k \in 1..Len(es) : es[k].ev # "confirm"
<1>1. \A a \in Event : a.ev # "confirm" => <<a>> \in Seq(Event) /\ NoAsk(<<a>>)
  <2> TAKE a \in Event
  <2>1. <<a>>[1] = a /\ \A k \in 1..Len(<<a>>) : k = 1
    OBVIOUS
  <2> QED
    BY <2>1, TupleIsSeq
<1>2. \A a, b \in Event : a.ev # "confirm" /\ b.ev # "confirm" =>
        <<a, b>> \in Seq(Event) /\ NoAsk(<<a, b>>)
  <2> TAKE a, b \in Event
  <2>1. <<a, b>>[1] = a /\ <<a, b>>[2] = b /\ \A k \in 1..Len(<<a, b>>) : k = 1 \/ k = 2
    OBVIOUS
  <2> QED
    BY <2>1, TupleIsSeq
<1>3. \A a, b, c \in Event : a.ev # "confirm" /\ b.ev # "confirm" /\ c.ev # "confirm" =>
        <<a, b, c>> \in Seq(Event) /\ NoAsk(<<a, b, c>>)
  <2> TAKE a, b, c \in Event
  <2>1. /\ <<a, b, c>>[1] = a /\ <<a, b, c>>[2] = b /\ <<a, b, c>>[3] = c
        /\ \A k \in 1..Len(<<a, b, c>>) : k = 1 \/ k = 2 \/ k = 3
    OBVIOUS
  <2> QED
    BY <2>1, TupleIsSeq
<1>4. /\ EndOfAgent \in Event /\ EndOfAgent.ev # "confirm"
      /\ State("processing") \in Event /\ State("processing").ev # "confirm"
  BY PlainOnes
<1>5. /\ Step("reason", i, "completed") \in Event
      /\ Step("reason", i, "completed").ev # "confirm"
      /\ Step("answer_step", j, "completed") \in Event
      /\ Step("answer_step", j, "completed").ev # "confirm"
      /\ Step("verification", i, "failed") \in Event
      /\ Step("verification", i, "failed").ev # "confirm"
  BY StepOnes
<1>6. /\ <<State("processing")>> \o <<EndOfAgent>> \in Seq(Event)
      /\ NoAsk(<<State("processing")>> \o <<EndOfAgent>>)
  <2>1. /\ <<State("processing")>> \in Seq(Event) /\ NoAsk(<<State("processing")>>)
        /\ <<EndOfAgent>> \in Seq(Event) /\ NoAsk(<<EndOfAgent>>)
    BY <1>1, <1>4
  <2>2. \A s, u \in Seq(Event) : NoAsk(s) /\ NoAsk(u) => NoAsk(s \o u)
    BY ConcatProperties
  <2> HIDE DEF NoAsk
  <2> QED
    BY <2>1, <2>2, ConcatProperties
<1> QED
  BY <1>1, <1>2, <1>3, <1>4, <1>5, <1>6

\* What the loop yields before a tool runs is plain.
LEMMA RunsToolPlain ==
  ASSUME NEW i \in Nat
  PROVE  LET es == <<Step("tool", i, "running")>> \o RunsTool(i)
         IN  es \in Seq(Event) /\ Plain(es)
<1>1. /\ Step("tool", i, "running") \in Event
      /\ Step("tool", i, "running").ev \notin {"end", "confirm"}
  BY StepOnes
<1>2. /\ State("tool_execution") \in Event /\ Ev("tool_call", i, "") \in Event
      /\ {State("tool_execution").ev, Ev("tool_call", i, "").ev}
           \cap {"end", "confirm"} = {}
  BY PlainOnes
<1>3. Plain(<<Step("tool", i, "running")>>) /\ Plain(RunsTool(i))
  BY <1>1, <1>2, PlainLists, Zenon DEF RunsTool
<1>4. <<Step("tool", i, "running")>> \in Seq(Event) /\ RunsTool(i) \in Seq(Event)
  BY <1>1, <1>2, TupleIsSeq, Zenon DEF RunsTool
<1> QED
  BY <1>3, <1>4, PlainJoin, RunsToolType

\* What a returned tool yields is plain.
LEMMA ReturnPlain ==
  ASSUME NEW i \in Nat, NEW m \in {"completed", "failed"}, NEW shows \in ToolShows
  PROVE  LET es == <<Step("tool", i, m)>> \o Shown(shows)
         IN  es \in Seq(Event) /\ Plain(es)
<1>1. Step("tool", i, m) \in Event /\ Step("tool", i, m).ev \notin {"end", "confirm"}
  BY StepOnes
<1>2. <<Step("tool", i, m)>> \in Seq(Event) /\ Plain(<<Step("tool", i, m)>>)
  BY <1>1, PlainLists, TupleIsSeq, Zenon
<1>3. Shown(shows) \in Seq(Event) /\ Plain(Shown(shows))
  <2>1. CASE shows = "none"
    BY <2>1, PlainLists, EmptyIsSeq DEF Shown
  <2>2. CASE shows = "memory"
    <3>1. Ev("memory", 0, "") \in Event /\ Ev("memory", 0, "").ev \notin {"end", "confirm"}
      BY PlainOnes
    <3> QED
      BY <2>2, <3>1, PlainLists, TupleIsSeq DEF Shown
  <2>3. CASE shows \notin {"none", "memory"}
    <3>1. shows \in {"map", "panel"}
      BY <2>3, BoundsAssumption
    <3>2. /\ Ev("preview", 0, shows) \in Event
          /\ Ev("preview", 0, shows).ev \notin {"end", "confirm"}
      BY <3>1 DEF Ev, Event, EventKinds, Marks
    <3> QED
      BY <2>3, <3>2, PlainLists, TupleIsSeq DEF Shown
  <2> QED
    BY <2>1, <2>2, <2>3
<1> QED
  BY <1>2, <1>3, PlainJoin, ConcatProperties

\* Every step of the pump puts such a list into the queue.
LEMMA PumpPuts == TypeOK /\ PumpStep => \E es \in Seq(Event) : PumpPut(es)
<1> SUFFICES ASSUME TypeOK, PumpStep PROVE \E es \in Seq(Event) : PumpPut(es)
  OBVIOUS
<1>0. /\ stepN \in Nat /\ stepN + 1 \in Nat /\ stepN + 2 \in Nat
      /\ reasonId \in Nat /\ toolId \in Nat /\ queue \in Seq(Event)
  BY DEF TypeOK, CounterTypes, PumpTypes
<1>a. ASSUME NEW es, es \in Seq(Event), Plain(es), Put(es)
      PROVE  \E x \in Seq(Event) : PumpPut(x)
  BY <1>a DEF PumpPut, PutsPlain
<1>b. ASSUME NEW es, es \in Seq(Event), \A k \in 1..Len(es) : es[k].ev # "confirm",
             Put(es), pPc' = "ended"
      PROVE  \E x \in Seq(Event) : PumpPut(x)
  BY <1>b DEF PumpPut, PutsLast
<1>c. ASSUME queue' = queue PROVE \E x \in Seq(Event) : PumpPut(x)
  <2>1. <<>> \in Seq(Event) /\ Plain(<<>>)
    BY PlainLists, EmptyIsSeq
  <2>2. Put(<<>>)
    BY <1>0, <1>c, ConcatEmptySeq DEF Put
  <2> QED
    BY <2>1, <2>2, <1>a
<1>d. ASSUME NEW e \in Event, e.ev \notin {"end", "confirm"}, Put(<<e>>)
      PROVE  \E x \in Seq(Event) : PumpPut(x)
  <2>1. <<e>> \in Seq(Event) /\ Plain(<<e>>)
    BY <1>d, PlainLists, TupleIsSeq
  <2> QED
    BY <1>a, <1>d, <2>1
<1>e. ASSUME NEW a \in Event, NEW b \in Event,
             {a.ev, b.ev} \cap {"end", "confirm"} = {}, Put(<<a, b>>)
      PROVE  \E x \in Seq(Event) : PumpPut(x)
  <2>1. <<a, b>> \in Seq(Event) /\ Plain(<<a, b>>)
    BY <1>e, PlainLists, TupleIsSeq
  <2> QED
    BY <1>a, <1>e, <2>1
<1>1. CASE PumpStarts
  <2>1. Put(<<Step("reason", 1, "running")>>)
    BY <1>1 DEF PumpStarts
  <2> QED
    BY <1>d, <2>1, StepOnes
<1>2. CASE ModelFails
  BY <1>2, <1>b, LastWords DEF ModelFails
<1>3. CASE ModelCallsTools
  <2>1. Put(<<Step("reason", reasonId, "completed")>>)
    BY <1>3 DEF ModelCallsTools
  <2> QED
    BY <1>0, <1>d, <2>1, StepOnes
<1>4. CASE ModelAnswers
  <2>1. /\ Put(<<Step("reason", reasonId, "completed"),
                 Step("answer_step", stepN + 1, "completed"), EndOfAgent>>)
        /\ pPc' = "ended"
    BY <1>4 DEF ModelAnswers
  <2> QED
    BY <1>0, <1>b, <2>1, LastWords
<1>5. CASE ModelReplans
  <2>1. CASE turn < MaxTurns
    <3>1. Put(<<Step("verification", stepN + 1, "failed"),
                Step("reason", stepN + 2, "running")>>)
      BY <1>5, <2>1 DEF ModelReplans
    <3>2. /\ Step("verification", stepN + 1, "failed") \in Event
          /\ Step("verification", stepN + 1, "failed").ev = "verification"
          /\ Step("reason", stepN + 2, "running") \in Event
          /\ Step("reason", stepN + 2, "running").ev = "reason"
      BY <1>0, PlainOnes, StepOnes
    <3> QED
      BY <1>e, <3>1, <3>2
  <2>2. CASE ~(turn < MaxTurns)
    <3>1. /\ Put(<<Step("verification", stepN + 1, "failed"), EndOfAgent>>)
          /\ pPc' = "ended"
      BY <1>5, <2>2 DEF ModelReplans
    <3> QED
      BY <1>0, <1>b, <3>1, LastWords
  <2> QED
    BY <2>1, <2>2
<1>6. CASE CallUnknown
  BY <1>6, <1>c DEF CallUnknown
<1>7. CASE CallDenied
  <2> DEFINE es == <<Step("tool", stepN + 1, "running"),
                     Step("tool", stepN + 1, "failed"), Ev("denied", 0, "")>>
  <2>1. Put(es)
    BY <1>7 DEF CallDenied
  <2>2. /\ Step("tool", stepN + 1, "running") \in Event
        /\ Step("tool", stepN + 1, "running").ev = "tool"
        /\ Step("tool", stepN + 1, "failed") \in Event
        /\ Step("tool", stepN + 1, "failed").ev = "tool"
        /\ Ev("denied", 0, "") \in Event /\ Ev("denied", 0, "").ev = "denied"
    BY <1>0, PlainOnes, StepOnes
  <2>3. es \in Seq(Event) /\ Plain(es)
    BY <2>2, PlainLists, TupleIsSeq
  <2> HIDE DEF es
  <2> QED
    BY <1>a, <2>1, <2>3
<1>8. CASE CallAsks
  <2> DEFINE a == Step("tool", stepN + 1, "running")
             b == Step("tool", stepN + 1, "waiting_approval")
             c == Ev("confirm", stepN + 1, "")
  <2>1. Put(<<a, b, c>>)
    BY <1>8 DEF CallAsks
  <2>2. a \in Event /\ a.ev = "tool" /\ b \in Event /\ b.ev = "tool" /\ c \in Event
    BY <1>0, PlainOnes, StepOnes
  <2>3. c = Ev("confirm", stepN + 1, "")
    OBVIOUS
  <2> HIDE DEF a, b, c
  <2>4. /\ <<a, b, c>> \in Seq(Event) /\ Len(<<a, b, c>>) = 3
        /\ <<a, b, c>>[1] = a /\ <<a, b, c>>[2] = b /\ <<a, b, c>>[3] = c
    BY <2>2
  <2>5. \A k \in 1..2 : <<a, b, c>>[k].ev = "tool"
    <3>1. \A k \in 1..2 : k = 1 \/ k = 2
      OBVIOUS
    <3> QED
      BY <2>2, <2>4, <3>1
  <2>6. PutsRequest(<<a, b, c>>)
    BY <1>8, <2>3, <2>4, <2>5 DEF PutsRequest
  <2> QED
    BY <2>1, <2>4, <2>6 DEF PumpPut
<1>9. CASE CallAllowed
  <2>1. Put(<<Step("tool", stepN + 1, "running")>> \o RunsTool(stepN + 1))
    BY <1>9 DEF CallAllowed
  <2> QED
    BY <1>0, <1>a, <2>1, RunsToolPlain
<1>10. CASE ApprovalGranted
  <2>1. Put(<<Step("tool", toolId, "running")>> \o RunsTool(toolId))
    BY <1>10 DEF ApprovalGranted
  <2> QED
    BY <1>0, <1>a, <2>1, RunsToolPlain
<1>11. CASE ApprovalDenied \/ ApprovalTimesOut
  <2>1. Put(<<Step("tool", toolId, "failed"), Ev("denied", 0, "")>>)
    BY <1>11 DEF ApprovalDenied, ApprovalTimesOut, RefuseCall
  <2>2. /\ Step("tool", toolId, "failed") \in Event
        /\ Step("tool", toolId, "failed").ev = "tool"
        /\ Ev("denied", 0, "") \in Event /\ Ev("denied", 0, "").ev = "denied"
    BY <1>0, PlainOnes, StepOnes
  <2> QED
    BY <1>e, <2>1, <2>2
<1>12. CASE ToolReturns
  <2>1. PICK ok \in BOOLEAN, shows \in ToolShows :
          Put(<<Step("tool", toolId, IF ok THEN "completed" ELSE "failed")>>
                \o Shown(shows))
    BY <1>12 DEF ToolReturns
  <2> DEFINE m == IF ok THEN "completed" ELSE "failed"
  <2>2. m \in {"completed", "failed"}
    OBVIOUS
  <2>3. Put(<<Step("tool", toolId, m)>> \o Shown(shows))
    BY <2>1
  <2> HIDE DEF m
  <2> QED
    BY <1>0, <1>a, <2>2, <2>3, ReturnPlain
<1>13. CASE TurnOver
  <2>1. CASE turn < MaxTurns
    <3> DEFINE s == <<State("processing")>>
               u == <<Step("reason", stepN + 1, "running")>>
    <3>1. Put(s \o u)
      BY <1>13, <2>1 DEF TurnOver, NextTurn
    <3>2. /\ State("processing") \in Event /\ State("processing").ev = "state"
          /\ Step("reason", stepN + 1, "running") \in Event
          /\ Step("reason", stepN + 1, "running").ev = "reason"
      BY <1>0, PlainOnes, StepOnes
    <3>3. s \in Seq(Event) /\ u \in Seq(Event) /\ Plain(s) /\ Plain(u)
      BY <3>2, PlainLists, TupleIsSeq
    <3> HIDE DEF s, u
    <3>4. s \o u \in Seq(Event) /\ Plain(s \o u)
      BY <3>3, PlainJoin, ConcatProperties
    <3> QED
      BY <1>a, <3>1, <3>4
  <2>2. CASE ~(turn < MaxTurns)
    <3>1. Put(<<State("processing")>> \o <<EndOfAgent>>) /\ pPc' = "ended"
      BY <1>13, <2>2 DEF TurnOver, NextTurn
    <3> QED
      BY <1>b, <3>1, LastWords
  <2> QED
    BY <2>1, <2>2
<1>14. CASE PumpCancelled
  <2>1. CASE pPc = "start"
    BY <1>14, <1>c, <2>1 DEF PumpCancelled
  <2>2. CASE pPc # "start"
    <3>1. Put(<<EndOfAgent>>) /\ pPc' = "ended"
      BY <1>14, <2>2 DEF PumpCancelled
    <3> QED
      BY <1>b, <3>1, LastWords
  <2> QED
    BY <2>1, <2>2
<1> QED
  BY <1>1, <1>2, <1>3, <1>4, <1>5, <1>6, <1>7, <1>8, <1>9, <1>10, <1>11, <1>12,
     <1>13, <1>14 DEF PumpStep

------------------------------------------------------------------------------
(* No orphan pump.                                                           *)

\* events.get() takes the head; the rest moves up.
LEMMA PopShifts ==
  ASSUME queue \in Seq(Event), queue # <<>>, Popped
  PROVE  /\ queue' \in Seq(Event) /\ Len(queue') = Len(queue) - 1
         /\ Head(queue) = queue[1] /\ 1 \in 1..Len(queue)
         /\ \A k \in 1..Len(queue') :
              k + 1 \in 1..Len(queue) /\ queue'[k] = queue[k + 1]
<1>1. Len(queue) \in Nat /\ Len(queue) > 0
  BY LenProperties, EmptySeq
<1>2. queue' = Tail(queue)
  BY DEF Popped
<1> QED
  BY <1>1, <1>2, HeadTailProperties

\* Every step of the streaming task leaves the sentinel the pump's last word,
\* and closes only after the pump ended or was told to stop.
LEMMA PumpInvStream ==
  TypeOK /\ StageOrder /\ PumpInv /\ StreamStep => PumpInv'
<1> SUFFICES ASSUME TypeOK, StageOrder, PumpInv, StreamStep PROVE PumpInv'
  OBVIOUS
<1> DEFINE QueueEnd == \A k \in 1..Len(queue) : queue[k].ev = "end" => pPc = "ended"
           Past == sPc = "plan" \/ phase = "tail" => pPc = "ended"
<1>0. queue \in Seq(Event) /\ pPc \in {"none", "start", "think", "call", "approval",
                                       "tool", "ended"}
  BY DEF TypeOK, PumpTypes
<1>a. pPc' = pPc \/ (pPc = "none" /\ pPc' = "start")
  BY StreamEffects DEF StreamEffect
<1>b. queue' = queue \/ (queue # <<>> /\ Popped)
  BY DEF StreamStep, DeadlineAtTop, DeadlineFires, BudgetNext, BudgetFinish,
     ResumeRecall, Recalled, ResumeGet, ForwardStep, ForwardEvent, AgentFailed,
     AgentFinishedOnMap, AgentFinished, Planned, PlannerFailed, TailNext,
     FinishRun, StreamCancelled, SendCancelled, GeneratorClosed, Getting, pump,
     PumpRest
<1>c. QueueEnd'
  <2>1. ASSUME NEW k \in 1..Len(queue'), queue'[k].ev = "end" PROVE pPc' = "ended"
    <3>1. PICK j \in 1..Len(queue) : queue'[k] = queue[j]
      BY <1>0, <1>b, <2>1, PopShifts
    <3> QED
      BY <1>a, <2>1, <3>1 DEF PumpInv
  <2> QED
    BY <2>1
<1>d. pCancel => pCancel'
  BY DEF StreamStep, DeadlineAtTop, DeadlineFires, BudgetNext, BudgetFinish,
     ResumeRecall, Recalled, ResumeGet, ForwardStep, ForwardEvent, AgentFailed,
     AgentFinishedOnMap, AgentFinished, Planned, PlannerFailed, TailNext,
     FinishRun, StreamCancelled, SendCancelled, GeneratorClosed, pump,
     PumpButQueue, CancelPump
<1>e. ASSUME Head(queue) = EndOfAgent, Getting, Popped PROVE pPc' = "ended"
  <2>1. queue[1].ev = "end" /\ 1 \in 1..Len(queue)
    BY <1>0, <1>e, PopShifts, PlainOnes DEF Getting
  <2> QED
    BY <1>a, <2>1 DEF PumpInv
<1>f. ASSUME sPc' \notin {"plan", "closed"}, phase' = "tail" => phase = "tail"
      PROVE  PumpInv'
  BY <1>a, <1>c, <1>f DEF PumpInv, NoOrphanPump
<1>1. CASE DeadlineAtTop
  BY <1>1, <1>f DEF DeadlineAtTop, EnterBudget, Emit
<1>2. CASE DeadlineFires
  BY <1>2, <1>f DEF DeadlineFires, EnterBudget, Emit
<1>3. CASE BudgetNext
  BY <1>3, <1>f DEF BudgetNext, Emit
<1>4. CASE BudgetFinish
  BY <1>0, <1>4, <1>a, <1>c
     DEF BudgetFinish, PumpInv, NoOrphanPump, CancelPump, PumpAlive, PumpRest
<1>5. CASE ResumeRecall
  BY <1>5, <1>f DEF ResumeRecall
<1>6. CASE Recalled
  BY <1>6, <1>f DEF Recalled
<1>7. CASE ResumeGet
  BY <1>7, <1>f DEF ResumeGet
<1>8. CASE ForwardStep
  BY <1>8, <1>f DEF ForwardStep, EnterBudget, Emit
<1>9. CASE ForwardEvent
  BY <1>9, <1>f DEF ForwardEvent, Emit
<1>10. CASE AgentFailed
  <2>1. pPc' = "ended"
    BY <1>10, <1>e DEF AgentFailed
  <2> QED
    BY <1>c, <2>1 DEF PumpInv, NoOrphanPump
<1>11. CASE AgentFinishedOnMap
  <2>1. pPc' = "ended"
    BY <1>11, <1>e DEF AgentFinishedOnMap
  <2> QED
    BY <1>c, <2>1 DEF PumpInv, NoOrphanPump
<1>12. CASE AgentFinished
  <2>1. pPc' = "ended"
    BY <1>12, <1>e DEF AgentFinished
  <2> QED
    BY <1>c, <2>1 DEF PumpInv, NoOrphanPump
<1>13. CASE Planned
  <2>1. pPc' = "ended"
    BY <1>13, <1>a DEF Planned, PumpInv
  <2> QED
    BY <1>c, <2>1 DEF PumpInv, NoOrphanPump
<1>14. CASE PlannerFailed
  <2>1. pPc' = "ended"
    BY <1>14, <1>a DEF PlannerFailed, PumpInv
  <2> QED
    BY <1>c, <2>1 DEF PumpInv, NoOrphanPump
<1>15. CASE TailNext
  BY <1>15, <1>f DEF TailNext, Emit
<1>16. CASE FinishRun
  <2>1. pPc' = "ended"
    BY <1>16, <1>a DEF FinishRun, PumpInv
  <2> QED
    BY <1>c, <2>1 DEF PumpInv, NoOrphanPump
<1>17. CASE StreamCancelled
  BY <1>0, <1>17, <1>a, <1>c
     DEF StreamCancelled, PumpInv, NoOrphanPump, CancelPump, PumpAlive, PumpRest
<1>18. CASE SendCancelled
  BY <1>18, <1>f DEF SendCancelled
<1>19. CASE GeneratorClosed
  BY <1>0, <1>19, <1>a, <1>c
     DEF GeneratorClosed, PumpInv, NoOrphanPump, CancelPump, PumpAlive, PumpRest
<1>20. QED
  BY <1>1, <1>2, <1>3, <1>4, <1>5, <1>6, <1>7, <1>8, <1>9, <1>10, <1>11, <1>12,
     <1>13, <1>14, <1>15, <1>16, <1>17, <1>18, <1>19 DEF StreamStep

\* A pump step is taken by a pump that has not ended and was not told to stop,
\* or is its end.
LEMMA PumpMoves ==
  ASSUME PumpStep
  PROVE  /\ UNCHANGED stream /\ pCancel' = pCancel /\ pPc \notin {"none", "ended"}
         /\ pCancel => pPc' = "ended"
<1>1. CASE PumpStarts
  BY <1>1 DEF PumpStarts, PumpRuns
<1>2. CASE ModelFails
  BY <1>2 DEF ModelFails, PumpRuns
<1>3. CASE ModelCallsTools
  BY <1>3 DEF ModelCallsTools, PumpRuns
<1>4. CASE ModelAnswers
  BY <1>4 DEF ModelAnswers, PumpRuns
<1>5. CASE ModelReplans
  BY <1>5 DEF ModelReplans, PumpRuns
<1>6. CASE CallUnknown
  BY <1>6 DEF CallUnknown, PumpRuns
<1>7. CASE CallDenied
  BY <1>7 DEF CallDenied, PumpRuns
<1>8. CASE CallAsks
  BY <1>8 DEF CallAsks, PumpRuns
<1>9. CASE CallAllowed
  BY <1>9 DEF CallAllowed, PumpRuns
<1>10. CASE ApprovalGranted
  BY <1>10 DEF ApprovalGranted, PumpRuns
<1>11. CASE ApprovalDenied
  BY <1>11 DEF ApprovalDenied, PumpRuns, RefuseCall
<1>12. CASE ApprovalTimesOut
  BY <1>12 DEF ApprovalTimesOut, PumpRuns, RefuseCall
<1>13. CASE ToolReturns
  BY <1>13 DEF ToolReturns, PumpRuns
<1>14. CASE TurnOver
  BY <1>14 DEF TurnOver, PumpRuns
<1>15. CASE PumpCancelled
  BY <1>15 DEF PumpCancelled
<1> QED
  BY <1>1, <1>2, <1>3, <1>4, <1>5, <1>6, <1>7, <1>8, <1>9, <1>10, <1>11, <1>12,
     <1>13, <1>14, <1>15 DEF PumpStep

\* What a list appended to the queue does to its entries.
LEMMA PutExtends ==
  ASSUME queue \in Seq(Event), NEW es \in Seq(Event), Put(es)
  PROVE  /\ queue' \in Seq(Event) /\ Len(queue') = Len(queue) + Len(es)
         /\ \A k \in 1..Len(queue') :
              \/ k \in 1..Len(queue) /\ queue'[k] = queue[k]
              \/ k - Len(queue) \in 1..Len(es) /\ queue'[k] = es[k - Len(queue)]
<1>1. queue' = queue \o es /\ Len(queue) \in Nat /\ Len(es) \in Nat
  BY LenProperties DEF Put
<1> QED
  BY <1>1, ConcatProperties

\* No step of the pump ends it without being its last.
LEMMA PumpInvPump == TypeOK /\ PumpInv /\ PumpStep => PumpInv'
<1> SUFFICES ASSUME TypeOK, PumpInv, PumpStep PROVE PumpInv'
  OBVIOUS
<1>1. /\ UNCHANGED stream /\ pCancel' = pCancel /\ pPc \notin {"none", "ended"}
      /\ pCancel => pPc' = "ended"
  BY PumpMoves
<1>2. PICK es \in Seq(Event) : PumpPut(es)
  BY PumpPuts
<1>3. queue \in Seq(Event)
  BY DEF TypeOK, PumpTypes
<1>4. ASSUME NEW k \in 1..Len(queue'), queue'[k].ev = "end" PROVE pPc' = "ended"
  <2>1. CASE k \in 1..Len(queue) /\ queue'[k] = queue[k]
    BY <1>1, <1>4, <2>1 DEF PumpInv
  <2>2. CASE k - Len(queue) \in 1..Len(es) /\ queue'[k] = es[k - Len(queue)]
    <3>1. ~PutsPlain(es)
      BY <1>4, <2>2 DEF PutsPlain, Plain
    <3>2. ~PutsRequest(es)
      <4> SUFFICES ASSUME PutsRequest(es) PROVE FALSE
        OBVIOUS
      <4>0. /\ Len(es) = 3 /\ es[3] = Ev("confirm", stepN + 1, "")
            /\ \A i \in 1..2 : es[i].ev = "tool"
        BY DEF PutsRequest
      <4>1. k - Len(queue) = 1 \/ k - Len(queue) = 2 \/ k - Len(queue) = 3
        <5> DEFINE d == k - Len(queue)
        <5>1. d \in 1..3
          BY <2>2, <4>0
        <5> HIDE DEF d
        <5>2. d = 1 \/ d = 2 \/ d = 3
          BY <5>1
        <5> QED
          BY <5>2 DEF d
      <4>2. es[1].ev = "tool" /\ es[2].ev = "tool" /\ es[3].ev = "confirm"
        <5>1. 1 \in 1..2 /\ 2 \in 1..2
          OBVIOUS
        <5>2. Ev("confirm", stepN + 1, "").ev = "confirm"
          BY DEF Ev
        <5> QED
          BY <4>0, <5>1, <5>2
      <4> QED
        BY <1>4, <2>2, <4>1, <4>2
    <3> QED
      BY <1>2, <3>1, <3>2 DEF PumpPut, PutsLast
  <2> QED
    BY <1>2, <1>3, <2>1, <2>2, PutExtends DEF PumpPut
<1>5. ~(sPc' = "plan" \/ phase' = "tail")
  BY <1>1 DEF PumpInv, stream
<1>6. sPc' = "closed" => pPc' = "ended"
  BY <1>1 DEF PumpInv, NoOrphanPump, stream
<1> QED
  BY <1>4, <1>5, <1>6 DEF PumpInv, NoOrphanPump

\* No step leaves a pump behind that nobody told to stop.
LEMMA PumpInvNext == TypeOK /\ StageOrder /\ PumpInv /\ [Next]_vars => PumpInv'
<1> SUFFICES ASSUME TypeOK, StageOrder, PumpInv, [Next]_vars PROVE PumpInv'
  OBVIOUS
<1>1. CASE StreamStep
  BY <1>1, PumpInvStream
<1>2. CASE PumpStep
  BY <1>2, PumpInvPump
<1>3. ASSUME UNCHANGED pump, sPc' = sPc \/ sPc' = "send", phase' = phase PROVE PumpInv'
  BY <1>3 DEF PumpInv, NoOrphanPump, pump
<1>4. CASE StartRun
  BY <1>3, <1>4 DEF StartRun
<1>5. CASE DeadlinePasses \/ Disconnect \/ CancelRun
  BY <1>3, <1>5 DEF DeadlinePasses, Disconnect, CancelRun
<1>6. CASE EvictRun
  BY <1>3, <1>6 DEF EvictRun, stream
<1>7. CASE \E i \in pending, ok \in BOOLEAN : Confirm(i, ok)
  BY <1>3, <1>7 DEF Confirm, stream
<1>8. CASE UNCHANGED vars
  BY <1>3, <1>8 DEF vars, stream
<1> QED
  BY <1>1, <1>2, <1>4, <1>5, <1>6, <1>7, <1>8 DEF Next, Outside

\* The invariant behind it holds in every reachable state.
THEOREM PumpHolds == Spec => []PumpInv
<1>1. Init => PumpInv
  <2> SUFFICES ASSUME Init PROVE PumpInv
    OBVIOUS
  <2>1. queue = <<>> /\ sPc = "idle" /\ phase = "start"
    BY DEF Init
  <2>2. \A k \in 1..Len(queue) : FALSE
    BY <2>1
  <2> QED
    BY <2>1, <2>2 DEF PumpInv, NoOrphanPump
<1>2. GateInv => StageOrder
  BY DEF GateInv
<1>3. QED
  BY <1>1, <1>2, PumpInvNext, TypeCorrect, GateHolds, PTL DEF Spec

\* When the streaming task is gone the pump has ended or was told to stop.
THEOREM NoOrphanPumpHolds == Spec => []NoOrphanPump
<1>1. PumpInv => NoOrphanPump
  BY DEF PumpInv
<1>2. QED
  BY <1>1, PumpHolds, PTL

------------------------------------------------------------------------------
(* The replay log.                                                           *)

\* Cutting a log to its cap keeps its newest frames.
LEMMA TrimKeeps ==
  ASSUME NEW s \in Seq(Frame)
  PROVE  /\ Len(s) <= LogCap => Trim(s) = s
         /\ Len(s) = LogCap + 1 =>
              /\ Len(Trim(s)) = LogCap
              /\ \A k \in 1..LogCap : Trim(s)[k] = s[k + 1]
<1>1. Len(s) \in Nat /\ LogCap \in Nat /\ LogCap > 0
  BY LenProperties, BoundsAssumption
<1>2. Len(s) <= LogCap => Trim(s) = s
  BY <1>1 DEF Trim
<1>3. ASSUME Len(s) = LogCap + 1
      PROVE  /\ Len(Trim(s)) = LogCap
             /\ \A k \in 1..LogCap : Trim(s)[k] = s[k + 1]
  <2>1. Len(s) - LogCap + 1 = 2
    BY <1>1, <1>3
  <2>2. Trim(s) = SubSeq(s, 2, Len(s))
    BY <1>1, <1>3, <2>1 DEF Trim
  <2>3. \A i \in 2..Len(s) : s[i] \in Frame
    BY <1>1, ElementOfSeq
  <2>4. /\ Len(SubSeq(s, 2, Len(s))) = Len(s) - 1
        /\ \A k \in 1..(Len(s) - 1) : SubSeq(s, 2, Len(s))[k] = s[k + 1]
    <3>1. /\ Len(SubSeq(s, 2, Len(s))) = IF 2 <= Len(s) THEN Len(s) - 2 + 1 ELSE 0
          /\ \A i \in 1..(Len(s) - 2 + 1) : SubSeq(s, 2, Len(s))[i] = s[2 + i - 1]
      BY <1>1, <2>3, SubSeqProperties
    <3>2. 2 <= Len(s) /\ Len(s) - 2 + 1 = Len(s) - 1
      BY <1>1, <1>3
    <3>3. \A i \in Nat : 2 + i - 1 = i + 1
      OBVIOUS
    <3> QED
      BY <1>1, <3>1, <3>2, <3>3
  <2>5. Len(s) - 1 = LogCap
    BY <1>1, <1>3
  <2> QED
    BY <2>2, <2>4, <2>5
<1> QED
  BY <1>2, <1>3

\* A frame sent while the run is not over is logged behind the others.
LEMMA EmitExtends ==
  ASSUME TypeOK, LogIsTail, SilentAfterEnd, ~cancelReq,
         sPc \notin {"orphan", "closed"}, NEW e \in Event, Emit(e), live' = live
  PROVE  LogIsTail'
<1> SUFFICES ASSUME live
             PROVE  /\ Len(log') = IF Len(emitted') <= LogCap THEN Len(emitted') ELSE LogCap
                    /\ \A k \in 1..Len(log') :
                         log'[k] = [seq |-> Len(emitted') - Len(log') + k,
                                    e |-> emitted'[Len(emitted') - Len(log') + k]]
  BY DEF LogIsTail
<1> DEFINE L == Len(log)
           E == Len(emitted)
           f == [seq |-> E + 1, e |-> e]
           s == Append(log, f)
<1>1. /\ log \in Seq(Frame) /\ emitted \in Seq(Event)
      /\ L \in Nat /\ E \in Nat /\ LogCap \in Nat /\ LogCap > 0
  <2>1. log \in Seq(Frame) /\ emitted \in Seq(Event)
    BY DEF TypeOK, RecordTypes, StreamTypes
  <2>2. L \in Nat /\ E \in Nat
    BY <2>1, LenProperties
  <2> QED
    BY <2>1, <2>2, BoundsAssumption
<1>2. /\ L = IF E <= LogCap THEN E ELSE LogCap
      /\ \A k \in 1..L : log[k] = [seq |-> E - L + k, e |-> emitted[E - L + k]]
  BY DEF LogIsTail
<1>3. /\ f \in Frame /\ s \in Seq(Frame) /\ Len(s) = L + 1
      /\ \A k \in 1..L : s[k] = log[k]
      /\ s[L + 1] = f
  BY <1>1, AppendProperties DEF Frame
<1>4. /\ emitted' \in Seq(Event) /\ Len(emitted') = E + 1
      /\ \A k \in 1..E : emitted'[k] = emitted[k]
      /\ emitted'[E + 1] = e
  BY <1>1, AppendProperties DEF Emit
<1>5. log' = Trim(s)
  BY DEF Emit, RecordEvent, Recordable, SilentAfterEnd
<1> HIDE DEF s
<1>6. \A k \in 1..(L + 1) :
        s[k] = [seq |-> E - L + k, e |-> emitted'[E - L + k]]
  <2> SUFFICES ASSUME NEW k \in 1..(L + 1)
               PROVE  s[k] = [seq |-> E - L + k, e |-> emitted'[E - L + k]]
    OBVIOUS
  <2>1. CASE k = L + 1
    <3>1. E - L + k = E + 1
      BY <1>1, <2>1
    <3> QED
      BY <1>3, <1>4, <2>1, <3>1
  <2>2. CASE k # L + 1
    <3>1. k \in 1..L /\ E - L + k \in 1..E
      BY <1>1, <1>2, <2>2
    <3> HIDE DEF L, E
    <3> QED
      BY <1>2, <1>3, <1>4, <3>1
  <2> QED
    BY <2>1, <2>2
<1> HIDE DEF L, E, f
<1>7. CASE E < LogCap
  <2>1. L = E /\ L + 1 <= LogCap
    BY <1>1, <1>2, <1>7
  <2>2. log' = s
    BY <1>3, <1>5, <2>1, TrimKeeps
  <2>3. E + 1 <= LogCap /\ \A k \in 1..(L + 1) : (E + 1) - (L + 1) + k = E - L + k
    BY <1>1, <1>7
  <2> QED
    BY <1>3, <1>4, <1>6, <2>1, <2>2, <2>3
<1>8. CASE ~(E < LogCap)
  <2>1. L = LogCap
    BY <1>1, <1>2, <1>8
  <2>2. Len(log') = LogCap /\ \A k \in 1..LogCap : log'[k] = s[k + 1]
    BY <1>3, <1>5, <2>1, TrimKeeps
  <2>3. ~(E + 1 <= LogCap)
    BY <1>1, <1>8
  <2>4. ASSUME NEW k \in 1..LogCap
        PROVE  log'[k] = [seq |-> (E + 1) - LogCap + k, e |-> emitted'[(E + 1) - LogCap + k]]
    <3>1. k + 1 \in 1..(L + 1) /\ E - L + (k + 1) = (E + 1) - LogCap + k
      BY <1>1, <2>1
    <3> QED
      BY <1>6, <2>2, <3>1
  <2> QED
    BY <1>4, <2>2, <2>3, <2>4
<1> QED
  BY <1>1, <1>7, <1>8

\* What a step of the streaming task does to the log: one frame more, or none.
Sends(e) ==
  /\ Emit(e) /\ ~cancelReq /\ sPc \notin {"orphan", "closed"}
  /\ UNCHANGED <<live, status, cancelReq>>

SendsNothing ==
  /\ UNCHANGED <<log, emitted, live, cancelReq>>
  /\ \/ sPc' \in {"orphan", "closed"}
     \/ status' = status /\ ~cancelReq /\ sPc \notin {"orphan", "closed"}

LEMMA StreamSends ==
  TypeOK /\ StreamStep => SendsNothing \/ \E e \in Event : Sends(e)
<1> SUFFICES ASSUME TypeOK, StreamStep
             PROVE  SendsNothing \/ \E e \in Event : Sends(e)
  OBVIOUS
<1>0. script \in Seq(Event) /\ queue \in Seq(Event)
  BY DEF TypeOK, StreamTypes, PumpTypes
<1>a. Ev("error", 0, "") \in Event /\ State("visualizing") \in Event
  BY ErrorFrames
<1>b. script # <<>> => Head(script) \in Event
  BY <1>0, PopType
<1>c. queue # <<>> => Head(queue) \in Event /\ Ev("viz", 0, Head(queue).st) \in Event
  <2> SUFFICES ASSUME queue # <<>>
               PROVE  Head(queue) \in Event /\ Ev("viz", 0, Head(queue).st) \in Event
    OBVIOUS
  <2>1. Head(queue) \in Event
    BY <1>0, PopType
  <2> QED
    BY <2>1 DEF Ev, Event, EventKinds
<1>1. CASE DeadlineAtTop
  BY <1>1, <1>a DEF DeadlineAtTop, Resumed, EnterBudget, Sends
<1>2. CASE DeadlineFires
  BY <1>2, <1>a DEF DeadlineFires, Suspended, EnterBudget, Sends
<1>3. CASE BudgetNext
  BY <1>3, <1>b DEF BudgetNext, Resumed, Sends
<1>4. CASE BudgetFinish
  BY <1>4 DEF BudgetFinish, SendsNothing
<1>5. CASE ResumeRecall
  BY <1>5 DEF ResumeRecall, Resumed, SendsNothing, record
<1>6. CASE Recalled
  BY <1>6 DEF Recalled, SendsNothing, record
<1>7. CASE ResumeGet
  BY <1>7 DEF ResumeGet, Resumed, SendsNothing, record
<1>8. CASE ForwardStep
  <2>1. CASE OverBudget(Head(queue))
    <3>1. Emit(Ev("error", 0, ""))
      BY <1>8, <2>1 DEF ForwardStep, EnterBudget
    <3> QED
      BY <1>8, <1>a, <3>1 DEF ForwardStep, Getting, Sends
  <2>2. CASE ~OverBudget(Head(queue))
    <3>1. Emit(Head(queue))
      BY <1>8, <2>2 DEF ForwardStep
    <3> QED
      BY <1>8, <1>c, <3>1 DEF ForwardStep, Getting, Sends
  <2> QED
    BY <2>1, <2>2
<1>9. CASE ForwardEvent
  <2>1. \/ Emit(Head(queue)) \/ Emit(Ev("viz", 0, Head(queue).st))
    BY <1>9 DEF ForwardEvent
  <2> QED
    BY <1>9, <1>c, <2>1 DEF ForwardEvent, Getting, Sends
<1>10. CASE AgentFailed
  BY <1>10, <1>a DEF AgentFailed, StageError, Getting, Sends
<1>11. CASE AgentFinishedOnMap
  BY <1>11, <1>a DEF AgentFinishedOnMap, Getting, Sends
<1>12. CASE AgentFinished
  BY <1>12 DEF AgentFinished, Getting, SendsNothing, record
<1>13. CASE Planned
  BY <1>13, <1>a DEF Planned, Sends
<1>14. CASE PlannerFailed
  BY <1>14, <1>a DEF PlannerFailed, StageError, Sends
<1>15. CASE TailNext
  BY <1>15, <1>b DEF TailNext, Resumed, Sends
<1>16. CASE FinishRun
  BY <1>16 DEF FinishRun, SendsNothing
<1>17. CASE StreamCancelled
  BY <1>17 DEF StreamCancelled, SendsNothing
<1>18. CASE SendCancelled
  BY <1>18 DEF SendCancelled, SendsNothing, record
<1>19. CASE GeneratorClosed
  BY <1>19 DEF GeneratorClosed, SendsNothing
<1> QED
  BY <1>1, <1>2, <1>3, <1>4, <1>5, <1>6, <1>7, <1>8, <1>9, <1>10, <1>11, <1>12,
     <1>13, <1>14, <1>15, <1>16, <1>17, <1>18, <1>19 DEF StreamStep

\* No step cuts the log off the stream.
LEMMA ReplayInvNext == TypeOK /\ GateInv /\ ReplayInv /\ [Next]_vars => ReplayInv'
<1> SUFFICES ASSUME TypeOK, GateInv, ReplayInv, [Next]_vars PROVE ReplayInv'
  OBVIOUS
<1>a. ASSUME UNCHANGED <<log, emitted>>, live' => live,
             status' \in Terminal => status \in Terminal,
             cancelReq => cancelReq', sPc' = sPc
      PROVE  ReplayInv'
  BY <1>a DEF ReplayInv, LogIsTail, SilentAfterEnd
<1>1. CASE StreamStep
  <2>1. CASE SendsNothing
    <3>1. LogIsTail'
      BY <2>1 DEF SendsNothing, ReplayInv, LogIsTail
    <3>2. SilentAfterEnd'
      BY <2>1 DEF SendsNothing, ReplayInv, SilentAfterEnd
    <3> QED
      BY <3>1, <3>2 DEF ReplayInv
  <2>2. ASSUME NEW e \in Event, Sends(e) PROVE ReplayInv'
    <3>1. LogIsTail'
      BY <2>2, EmitExtends DEF Sends, ReplayInv
    <3>2. SilentAfterEnd'
      BY <2>2 DEF Sends, ReplayInv, SilentAfterEnd
    <3> QED
      BY <3>1, <3>2 DEF ReplayInv
  <2> QED
    BY <1>1, <2>1, <2>2, StreamSends
<1>2. CASE PumpStep
  <2>1. UNCHANGED stream
    BY <1>2, PumpMoves
  <2>2. UNCHANGED <<log, live>> /\ (status' \in Terminal => status \in Terminal)
    <3>1. CASE pPc = "approval"
      BY <1>2, <3>1, CloseEffects DEF CloseRequest, UpdateStatus, Terminal
    <3>2. CASE CallAsks
      BY <3>2 DEF CallAsks, UpdateStatus, Terminal
    <3>3. CASE pPc # "approval" /\ ~CallAsks
      <4>1. UNCHANGED <<live, status>>
        BY <1>2, <3>3, PumpEffects
      <4>2. UNCHANGED log
        BY <1>2, <3>3 DEF PumpStep, PumpStarts, ModelFails, ModelCallsTools,
           ModelAnswers, ModelReplans, CallUnknown, CallDenied, CallAllowed,
           ApprovalGranted, ApprovalDenied, ApprovalTimesOut, ToolReturns,
           TurnOver, PumpCancelled, PumpRuns, record
      <4> QED
        BY <4>1, <4>2
    <3> QED
      BY <3>1, <3>2, <3>3
  <2> QED
    BY <1>a, <2>1, <2>2 DEF stream
<1>3. CASE StartRun
  <2> DEFINE e == State("thinking")
  <2>1. /\ emitted' = <<e>> /\ log' = <<[seq |-> 1, e |-> e]>>
        /\ status' = "running"
    BY <1>3 DEF StartRun
  <2> HIDE DEF e
  <2>2. /\ Len(emitted') = 1 /\ Len(log') = 1 /\ emitted'[1] = e
        /\ log'[1] = [seq |-> 1, e |-> e] /\ 1 <= LogCap
    BY <2>1, BoundsAssumption
  <2>3. LogIsTail'
    <3>1. \A k \in 1..1 : k = 1 /\ 1 - 1 + k = 1
      OBVIOUS
    <3> QED
      BY <2>2, <3>1 DEF LogIsTail
  <2>4. SilentAfterEnd'
    BY <2>1 DEF SilentAfterEnd, Terminal
  <2> QED
    BY <2>3, <2>4 DEF ReplayInv
<1>4. CASE DeadlinePasses
  BY <1>4, <1>a DEF DeadlinePasses, record
<1>5. CASE Disconnect
  BY <1>5, <1>a DEF Disconnect, record
<1>6. CASE CancelRun
  <2>1. /\ UNCHANGED <<log, emitted, live, sPc>> /\ live /\ sPc # "idle"
        /\ cancelReq' = (cancelReq \/ sPc \in {"send"} \cup Suspended)
    BY <1>6 DEF CancelRun, Recordable, GateInv, StageOrder
  <2>2. sPc \in {"idle", "send", "recall", "get", "plan", "orphan", "closed"}
    BY DEF TypeOK, StreamTypes
  <2>3. LogIsTail'
    BY <2>1 DEF ReplayInv, LogIsTail
  <2>4. SilentAfterEnd'
    BY <2>1, <2>2 DEF SilentAfterEnd, Suspended
  <2> QED
    BY <2>3, <2>4 DEF ReplayInv
<1>7. CASE EvictRun
  BY <1>7, <1>a DEF EvictRun, stream
<1>8. CASE \E i \in pending, ok \in BOOLEAN : Confirm(i, ok)
  BY <1>8, <1>a DEF Confirm, record, stream
<1>9. CASE UNCHANGED vars
  BY <1>9, <1>a DEF vars, record, stream
<1> QED
  BY <1>1, <1>2, <1>3, <1>4, <1>5, <1>6, <1>7, <1>8, <1>9 DEF Next, Outside

\* The r-th of a set of positions, as Logged counts them.
Nth(K, r) == CHOOSE k \in K : Cardinality({i \in K : i <= k}) = r

\* What is replayed past frame n is the part of the log behind it.
LEMMA LoggedTail ==
  ASSUME NEW L \in Nat, NEW a \in 0..L, NEW K, K = (a + 1)..L
  PROVE  /\ Cardinality(K) = L - a
         /\ \A r \in 1..(L - a) : Nth(K, r) = a + r
<1>1. Cardinality(K) = L - a
  <2>1. CASE a < L
    BY <2>1, FS_Interval
  <2>2. CASE a = L
    <3>1. K = {}
      BY <2>2
    <3> QED
      BY <2>2, <3>1, FS_EmptySet
  <2> QED
    BY <2>1, <2>2
<1>2. \A k \in K : Cardinality({i \in K : i <= k}) = k - a
  <2> TAKE k \in K
  <2>1. {i \in K : i <= k} = (a + 1)..k /\ k \in Nat /\ a + 1 <= k
    OBVIOUS
  <2>2. Cardinality((a + 1)..k) = k - (a + 1) + 1
    BY <2>1, FS_Interval
  <2>3. k - (a + 1) + 1 = k - a
    BY <2>1
  <2>4. Cardinality({i \in K : i <= k}) = Cardinality((a + 1)..k)
    BY <2>1, Zenon
  <2> QED
    BY <2>2, <2>3, <2>4, Zenon
<1>3. ASSUME NEW r \in 1..(L - a)
      PROVE  Nth(K, r) = a + r
  <2>1. a + r \in K /\ (a + r) - a = r
    OBVIOUS
  <2>2. \A k \in K : Cardinality({i \in K : i <= k}) = r <=> k = a + r
    BY <1>2
  <2> DEFINE c == Nth(K, r)
  <2>3. c \in K /\ Cardinality({i \in K : i <= c}) = r
    BY <2>1, <2>2 DEF Nth
  <2> QED
    BY <2>2, <2>3
<1> QED
  BY <1>1, <1>3

\* A log that is the tail of the stream replays exactly.
LEMMA TailReplays == TypeOK /\ LogIsTail => ReplayExact
<1> SUFFICES ASSUME TypeOK, LogIsTail, live, NEW n \in 0..Len(emitted),
                    Len(emitted) - n <= LogCap
             PROVE  /\ Len(Replay(n)) = Len(emitted) - n
                    /\ \A k \in 1..Len(Replay(n)) :
                         Replay(n)[k] = [seq |-> n + k, e |-> emitted[n + k]]
  BY DEF ReplayExact
<1> DEFINE L == Len(log)
           E == Len(emitted)
           a == n - (E - L)
           K == {k \in DOMAIN log : log[k].seq > n}
<1>1. /\ L \in Nat /\ E \in Nat /\ DOMAIN log = 1..L
      /\ LogCap \in Nat /\ n \in Nat /\ n <= E /\ E - n <= LogCap
  <2>1. log \in Seq(Frame) /\ emitted \in Seq(Event)
    BY DEF TypeOK, RecordTypes, StreamTypes
  <2> QED
    BY <2>1, LenProperties, BoundsAssumption
<1>2. /\ L = IF E <= LogCap THEN E ELSE LogCap
      /\ \A k \in 1..L : log[k] = [seq |-> E - L + k, e |-> emitted[E - L + k]]
  BY DEF LogIsTail
<1> HIDE DEF L, E
<1>3. a \in 0..L
  BY <1>1, <1>2
<1>4. K = (a + 1)..L
  <2>1. \A k \in 1..L : log[k].seq = E - L + k
    <3> TAKE k \in 1..L
    <3>1. log[k] = [seq |-> E - L + k, e |-> emitted[E - L + k]]
      BY <1>2, Zenon
    <3> QED
      BY ONLY <3>1
  <2>2. \A k \in 1..L : E - L + k > n <=> k >= a + 1
    BY <1>1
  <2> QED
    BY <1>1, <1>3, <2>1, <2>2
<1>5. /\ Cardinality(K) = L - a
      /\ \A r \in 1..(L - a) : Nth(K, r) = a + r
  <2> HIDE DEF a, K
  <2>1. L \in Nat
    BY <1>1
  <2> QED
    BY ONLY <2>1, <1>3, <1>4, LoggedTail, ZenonT(60)
<1>6. Replay(n) = [r \in 1..Cardinality(K) |->
                     log[Nth(K, r)]]
  BY DEF Replay, Logged, Nth
<1> HIDE DEF K
<1>7. Replay(n) = [r \in 1..(L - a) |-> log[a + r]]
  BY <1>5, <1>6
<1>8. L - a = E - n /\ L - a \in Nat
  BY <1>1, <1>3
<1>9. Len(Replay(n)) = L - a
  BY <1>7, <1>8
<1>10. ASSUME NEW k \in 1..(L - a)
       PROVE  Replay(n)[k] = [seq |-> n + k, e |-> emitted[n + k]]
  <2>1. a + k \in 1..L /\ E - L + (a + k) = n + k
    BY <1>1, <1>3
  <2> HIDE DEF a
  <2> QED
    BY <1>2, <1>7, <2>1
<1> QED
  BY <1>8, <1>9, <1>10 DEF E

\* The log of a run the registry holds is the tail of its stream.
THEOREM ReplayHolds == Spec => []ReplayInv
<1>1. Init => ReplayInv
  BY DEF Init, ReplayInv, LogIsTail, SilentAfterEnd
<1>2. QED
  BY <1>1, ReplayInvNext, TypeCorrect, GateHolds, PTL DEF Spec

\* A replay gives exactly the frames past the last one received, in order and
\* under their numbers, as long as the log reaches back that far
\* (runs.py record_event, routes.py replay_run).
THEOREM ReplayExactHolds == Spec => []ReplayExact
<1>1. TypeOK /\ ReplayInv => ReplayExact
  BY TailReplays DEF ReplayInv
<1>2. QED
  BY <1>1, ReplayHolds, TypeCorrect, PTL

------------------------------------------------------------------------------
(* A wait that a cancel doomed.                                              *)

NoAsk(s) == \A k \in 1..Len(s) : s[k].ev # "confirm"

\* What a step of the streaming task says about requests: a frame that asks
\* for a decision is the head of the pump's queue, and a stream that waits for
\* a pump that waits for a person says nothing.
StreamSays ==
  /\ NoAsk(script')
  /\ sPc' = "get" => phase' = "agent"
  /\ queue' = queue \/ (queue # <<>> /\ Popped)
  /\ \/ emitted' = emitted
     \/ \E e \in Event :
          /\ emitted' = Append(emitted, e)
          /\ e.ev = "confirm" =>
               queue # <<>> /\ Popped /\ e = Head(queue) /\ phase' = "agent"
  /\ queue = <<>> /\ phase = "agent" /\ pPc = "approval" =>
       UNCHANGED <<emitted, phase>>

\* The scripted frames ask for nothing.
LEMMA ScriptsAskNothing ==
  /\ NoAsk(<<State("error"), DoneFrame>>)
  /\ NoAsk(VizTail)
  /\ \A s \in Seq(Event) : s # <<>> /\ NoAsk(s) =>
       NoAsk(Tail(s)) /\ Head(s).ev # "confirm"
<1>1. NoAsk(<<State("error"), DoneFrame>>)
  <2> DEFINE s == <<State("error"), DoneFrame>>
  <2>1. s[1].ev = "state" /\ s[2].ev = "done"
    BY DEF State, DoneFrame, Ev
  <2>2. \A k \in 1..Len(s) : k = 1 \/ k = 2
    OBVIOUS
  <2> QED
    BY <2>1, <2>2 DEF NoAsk
<1>2. NoAsk(VizTail)
  <2> DEFINE a == Ev("viz", 0, "")
             b == State("speaking")
             c == Ev("answer", 0, "")
             d == DoneFrame
  <2>1. a.ev = "viz" /\ b.ev = "state" /\ c.ev = "answer" /\ d.ev = "done"
    BY DEF State, DoneFrame, Ev
  <2>2. VizTail = <<a, b, c, d>>
    BY DEF VizTail
  <2> HIDE DEF a, b, c, d
  <2>3. \A k \in 1..Len(<<a, b, c, d>>) : k = 1 \/ k = 2 \/ k = 3 \/ k = 4
    OBVIOUS
  <2>4. /\ <<a, b, c, d>>[1] = a /\ <<a, b, c, d>>[2] = b
        /\ <<a, b, c, d>>[3] = c /\ <<a, b, c, d>>[4] = d
    OBVIOUS
  <2> QED
    BY <2>1, <2>2, <2>3, <2>4 DEF NoAsk
<1>3. ASSUME NEW s \in Seq(Event), s # <<>>, NoAsk(s)
      PROVE  NoAsk(Tail(s)) /\ Head(s).ev # "confirm"
  <2>1. /\ Len(s) \in Nat /\ Len(s) > 0 /\ Head(s) = s[1]
        /\ Len(Tail(s)) = Len(s) - 1
        /\ \A k \in 1..Len(Tail(s)) : Tail(s)[k] = s[k + 1]
    BY <1>3, LenProperties, EmptySeq, HeadTailProperties
  <2>2. 1 \in 1..Len(s) /\ \A k \in 1..(Len(s) - 1) : k + 1 \in 1..Len(s)
    BY <2>1
  <2> QED
    BY <1>3, <2>1, <2>2 DEF NoAsk
<1> QED
  BY <1>1, <1>2, <1>3

LEMMA StreamSaysSo ==
  TypeOK /\ StageOrder /\ PumpInv /\ AskIsLast /\ ~expired /\ StreamStep
    => StreamSays
<1> SUFFICES ASSUME TypeOK, StageOrder, PumpInv, AskIsLast, ~expired, StreamStep
             PROVE  StreamSays
  OBVIOUS
<1>0. /\ script \in Seq(Event) /\ queue \in Seq(Event)
      /\ NoAsk(script) /\ (sPc = "get" => phase = "agent")
      /\ sPc = "plan" \/ phase = "tail" => pPc = "ended"
  BY DEF TypeOK, StreamTypes, PumpTypes, AskIsLast, NoAsk, PumpInv
<1>1. /\ Ev("error", 0, "") \in Event /\ Ev("error", 0, "").ev # "confirm"
      /\ State("visualizing") \in Event /\ State("visualizing").ev # "confirm"
  BY ErrorFrames DEF Ev, State
<1>2. script # <<>> => /\ Head(script) \in Event /\ Head(script).ev # "confirm"
                       /\ NoAsk(Tail(script))
  BY <1>0, PopType, ScriptsAskNothing
<1>3. queue # <<>> =>
        /\ Head(queue) \in Event /\ Ev("viz", 0, Head(queue).st) \in Event
        /\ Ev("viz", 0, Head(queue).st).ev # "confirm"
  <2> SUFFICES ASSUME queue # <<>>
               PROVE  /\ Head(queue) \in Event /\ Ev("viz", 0, Head(queue).st) \in Event
                      /\ Ev("viz", 0, Head(queue).st).ev # "confirm"
    OBVIOUS
  <2>1. Head(queue) \in Event
    BY <1>0, PopType
  <2> QED
    BY <2>1 DEF Ev, Event, EventKinds
<1>a. ASSUME NEW e \in Event, Emit(e), e.ev # "confirm", NoAsk(script'),
             queue' = queue \/ (queue # <<>> /\ Popped),
             ~(queue = <<>> /\ phase = "agent" /\ pPc = "approval")
      PROVE  StreamSays
  BY <1>a DEF StreamSays, Emit
<1>b. ASSUME UNCHANGED <<emitted, script>>, sPc' = "get" => phase' = "agent",
             queue' = queue \/ (queue # <<>> /\ Popped),
             phase = "agent" => phase' = phase
      PROVE  StreamSays
  BY <1>0, <1>b DEF StreamSays
<1>4. CASE DeadlineAtTop
  BY <1>4 DEF DeadlineAtTop
<1>5. CASE DeadlineFires
  BY <1>5 DEF DeadlineFires
<1>6. CASE BudgetNext
  BY <1>2, <1>6, <1>a DEF BudgetNext, pump
<1>7. CASE BudgetFinish
  BY <1>7, <1>b DEF BudgetFinish, PumpRest
<1>8. CASE ResumeRecall
  BY <1>8, <1>b DEF ResumeRecall, pump
<1>9. CASE Recalled
  BY <1>9, <1>b DEF Recalled, StageOrder
<1>10. CASE ResumeGet
  BY <1>10, <1>b DEF ResumeGet, pump
<1>11. CASE ForwardStep
  <2>1. Head(queue).ev # "confirm" /\ queue # <<>> /\ Popped
    BY <1>11 DEF ForwardStep, Getting, StepKinds
  <2>2. CASE OverBudget(Head(queue))
    <3>1. Emit(Ev("error", 0, "")) /\ script' = <<State("error"), DoneFrame>>
      BY <1>11, <2>2 DEF ForwardStep, EnterBudget
    <3> QED
      BY <1>1, <1>a, <2>1, <3>1, ScriptsAskNothing
  <2>3. CASE ~OverBudget(Head(queue))
    <3>1. Emit(Head(queue)) /\ script' = script
      BY <1>11, <2>3 DEF ForwardStep
    <3> QED
      BY <1>0, <1>3, <1>a, <2>1, <3>1
  <2> QED
    BY <2>2, <2>3
<1>12. CASE ForwardEvent
  <2>1. /\ queue # <<>> /\ Popped /\ script' = script /\ phase' = phase
        /\ phase = "agent"
    BY <1>0, <1>12 DEF ForwardEvent, Getting
  <2>2. CASE Head(queue).ev = "preview"
    <3>1. Emit(Ev("viz", 0, Head(queue).st))
      BY <1>12, <2>2 DEF ForwardEvent
    <3> QED
      BY <1>0, <1>3, <1>a, <2>1, <3>1
  <2>3. CASE Head(queue).ev # "preview"
    <3>1. emitted' = Append(emitted, Head(queue))
      BY <1>12, <2>3 DEF ForwardEvent, Emit
    <3> QED
      BY <1>0, <1>3, <2>1, <3>1 DEF StreamSays
  <2> QED
    BY <2>2, <2>3
<1>13. CASE AgentFailed
  <2>1. /\ Emit(Ev("error", 0, "")) /\ script' = <<State("error"), DoneFrame>>
        /\ queue # <<>> /\ Popped
    BY <1>13 DEF AgentFailed, StageError, Getting
  <2> QED
    BY <1>1, <1>a, <2>1, ScriptsAskNothing
<1>14. CASE AgentFinishedOnMap
  <2>1. /\ Emit(State("visualizing")) /\ script' = VizTail
        /\ queue # <<>> /\ Popped
    BY <1>14 DEF AgentFinishedOnMap, Getting
  <2> QED
    BY <1>1, <1>a, <2>1, ScriptsAskNothing
<1>15. CASE AgentFinished
  BY <1>15, <1>b DEF AgentFinished, Getting
<1>16. CASE Planned
  <2>1. /\ Emit(State("visualizing")) /\ script' = VizTail
        /\ queue' = queue /\ sPc = "plan"
    BY <1>16 DEF Planned, pump
  <2> QED
    BY <1>0, <1>1, <1>a, <2>1, ScriptsAskNothing
<1>17. CASE PlannerFailed
  <2>1. /\ Emit(Ev("error", 0, "")) /\ script' = <<State("error"), DoneFrame>>
        /\ queue' = queue /\ sPc = "plan"
    BY <1>17 DEF PlannerFailed, StageError, pump
  <2> QED
    BY <1>0, <1>1, <1>a, <2>1, ScriptsAskNothing
<1>18. CASE TailNext
  BY <1>2, <1>18, <1>a DEF TailNext, pump
<1>19. CASE FinishRun
  BY <1>19, <1>b DEF FinishRun, pump
<1>20. CASE StreamCancelled
  BY <1>20, <1>b DEF StreamCancelled, PumpRest
<1>21. CASE SendCancelled
  BY <1>21, <1>b DEF SendCancelled, pump
<1>22. CASE GeneratorClosed
  BY <1>22, <1>b DEF GeneratorClosed, PumpRest
<1> QED
  BY <1>4, <1>5, <1>6, <1>7, <1>8, <1>9, <1>10, <1>11, <1>12, <1>13, <1>14,
     <1>15, <1>16, <1>17, <1>18, <1>19, <1>20, <1>21, <1>22 DEF StreamStep

\* The streaming task leaves an open request's frame the last one.
LEMMA AskIsLastStream ==
  TypeOK /\ StageOrder /\ PumpInv /\ AskIsLast /\ ~expired /\ StreamStep
    => AskIsLast'
<1> SUFFICES ASSUME TypeOK, StageOrder, PumpInv, AskIsLast, ~expired, StreamStep
             PROVE  AskIsLast'
  OBVIOUS
<1>0. queue \in Seq(Event) /\ emitted \in Seq(Event)
  BY DEF TypeOK, StreamTypes, PumpTypes
<1>1. /\ UNCHANGED <<toolId, stepN>>
      /\ pPc' = pPc \/ (pPc = "none" /\ pPc' = "start")
  BY StreamEffects DEF StreamEffect
<1>2. StreamSays
  BY StreamSaysSo
<1>3. ASSUME NEW k \in 1..Len(queue'), queue'[k].ev = "confirm"
      PROVE  /\ queue'[k].id <= stepN'
             /\ pPc' = "approval" /\ queue'[k].id = toolId' => k = Len(queue')
  <2>1. CASE queue' = queue
    BY <1>1, <1>3, <2>1 DEF AskIsLast
  <2>2. CASE queue # <<>> /\ Popped
    <3>1. /\ k + 1 \in 1..Len(queue) /\ queue'[k] = queue[k + 1]
          /\ Len(queue') = Len(queue) - 1
      BY <1>0, <1>3, <2>2, PopShifts
    <3>2. /\ queue[k + 1].id <= stepN
          /\ pPc = "approval" /\ queue[k + 1].id = toolId => k + 1 = Len(queue)
      BY <1>3, <3>1 DEF AskIsLast
    <3>3. Len(queue) \in Nat /\ k \in Nat
      BY <1>0, LenProperties, <3>1
    <3> QED
      BY <1>1, <3>1, <3>2, <3>3
  <2> QED
    BY <1>2, <2>1, <2>2 DEF StreamSays
<1>4. ASSUME NEW k \in 1..Len(emitted'), emitted'[k].ev = "confirm"
      PROVE  /\ emitted'[k].id <= stepN'
             /\ pPc' = "approval" /\ emitted'[k].id = toolId' =>
                  k = Len(emitted') /\ queue' = <<>> /\ phase' = "agent"
  <2>1. CASE k \in 1..Len(emitted) /\ emitted'[k] = emitted[k]
    <3>1. /\ emitted[k].id <= stepN
          /\ pPc = "approval" /\ emitted[k].id = toolId =>
               k = Len(emitted) /\ queue = <<>> /\ phase = "agent"
      BY <1>4, <2>1 DEF AskIsLast
    <3>2. queue = <<>> /\ phase = "agent" /\ pPc = "approval" =>
            UNCHANGED <<emitted, phase>> /\ queue' = queue
      BY <1>2 DEF StreamSays
    <3> QED
      BY <1>1, <2>1, <3>1, <3>2
  <2>2. ASSUME NEW e \in Event, emitted' = Append(emitted, e), k = Len(emitted) + 1,
               e.ev = "confirm" =>
                 queue # <<>> /\ Popped /\ e = Head(queue) /\ phase' = "agent"
        PROVE  /\ emitted'[k].id <= stepN'
               /\ pPc' = "approval" /\ emitted'[k].id = toolId' =>
                    k = Len(emitted') /\ queue' = <<>> /\ phase' = "agent"
    <3>1. emitted'[k] = e /\ k = Len(emitted')
      BY <1>0, <2>2, AppendProperties
    <3>2. /\ queue # <<>> /\ Popped /\ e = queue[1] /\ phase' = "agent"
          /\ 1 \in 1..Len(queue) /\ Len(queue') = Len(queue) - 1
          /\ queue' \in Seq(Event)
      BY <1>0, <1>4, <2>2, <3>1, PopShifts
    <3>3. /\ queue[1].id <= stepN
          /\ pPc = "approval" /\ queue[1].id = toolId => 1 = Len(queue)
      BY <1>4, <3>1, <3>2 DEF AskIsLast
    <3>4. 1 = Len(queue) => queue' = <<>>
      <4>0. Len(queue') = Len(queue) - 1
        BY <3>2
      <4>1. 1 = Len(queue) => Len(queue') = 0
        <5>1. SUFFICES ASSUME 1 = Len(queue) PROVE Len(queue') = 0
          OBVIOUS
        <5>2. Len(queue') = 1 - 1
          BY <4>0, <5>1, Zenon
        <5> QED
          BY <5>2
      <4>2. queue' # <<>> => Len(queue') # 0
        BY <3>2, EmptySeq
      <4> QED
        BY <4>1, <4>2
    <3> QED
      BY <1>1, <3>1, <3>2, <3>3, <3>4
  <2>3. CASE emitted' = emitted
    BY <1>4, <2>1, <2>3
  <2>4. ASSUME NEW e \in Event, emitted' = Append(emitted, e)
        PROVE  \/ k \in 1..Len(emitted) /\ emitted'[k] = emitted[k]
               \/ k = Len(emitted) + 1
    BY <1>0, <2>4, AppendProperties, LenProperties
  <2> QED
    BY <1>2, <2>1, <2>2, <2>3, <2>4 DEF StreamSays
<1> QED
  BY <1>2, <1>3, <1>4 DEF AskIsLast, StreamSays, NoAsk

\* The pump waits for a person only behind its request, and its ids grow.
LEMMA PumpAsks ==
  ASSUME TypeOK, GateInv, PumpStep
  PROVE  /\ pPc' = "approval" => CallAsks
         /\ stepN \in Nat /\ stepN' \in Nat /\ stepN <= stepN'
         /\ UNCHANGED <<expired, doomed, lateAnswer, answered>> \/ CallAsks
         /\ UNCHANGED <<expired, doomed, answered>>
<1>0. /\ stepN \in Nat /\ stepN + 1 \in Nat /\ stepN + 2 \in Nat
      /\ stepN <= stepN + 1 /\ stepN <= stepN + 2 /\ stepN <= stepN
      /\ pPc \in {"none", "start"} => stepN = 0
  BY DEF TypeOK, CounterTypes, GateInv, FreshIds
<1> USE DEF stream, approval, outer
<1>1. CASE PumpStarts
  BY <1>0, <1>1 DEF PumpStarts, PumpRuns
<1>2. CASE ModelFails
  BY <1>0, <1>2 DEF ModelFails
<1>3. CASE ModelCallsTools
  BY <1>0, <1>3 DEF ModelCallsTools
<1>4. CASE ModelAnswers
  BY <1>0, <1>4 DEF ModelAnswers
<1>5. CASE ModelReplans
  BY <1>0, <1>5 DEF ModelReplans
<1>6. CASE CallUnknown
  BY <1>0, <1>6 DEF CallUnknown, PumpRuns
<1>7. CASE CallDenied
  BY <1>0, <1>7 DEF CallDenied, PumpRuns
<1>8. CASE CallAsks
  BY <1>0, <1>8 DEF CallAsks
<1>9. CASE CallAllowed
  BY <1>0, <1>9 DEF CallAllowed
<1>10. CASE ApprovalGranted
  BY <1>0, <1>10 DEF ApprovalGranted, CloseRequest
<1>11. CASE ApprovalDenied
  BY <1>0, <1>11 DEF ApprovalDenied, RefuseCall, CloseRequest
<1>12. CASE ApprovalTimesOut
  BY <1>0, <1>12 DEF ApprovalTimesOut, RefuseCall, CloseRequest
<1>13. CASE ToolReturns
  BY <1>0, <1>13 DEF ToolReturns
<1>14. CASE TurnOver
  BY <1>0, <1>14 DEF TurnOver, NextTurn
<1>15. CASE PumpCancelled
  BY <1>0, <1>15 DEF PumpCancelled, CloseRequest
<1> QED
  BY <1>1, <1>2, <1>3, <1>4, <1>5, <1>6, <1>7, <1>8, <1>9, <1>10, <1>11, <1>12,
     <1>13, <1>14, <1>15 DEF PumpStep

\* A request goes out behind everything the pump produced before it.
LEMMA AskIsLastAsks ==
  TypeOK /\ GateInv /\ AskIsLast /\ CallAsks => AskIsLast'
<1> SUFFICES ASSUME TypeOK, GateInv, AskIsLast, CallAsks PROVE AskIsLast'
  OBVIOUS
<1> DEFINE a == Step("tool", stepN + 1, "running")
           b == Step("tool", stepN + 1, "waiting_approval")
           c == Ev("confirm", stepN + 1, "")
           es == <<a, b, c>>
<1>0. /\ stepN \in Nat /\ stepN' = stepN + 1 /\ toolId' = stepN + 1
      /\ UNCHANGED <<emitted, script, sPc, phase>> /\ queue \in Seq(Event)
      /\ Put(es)
  BY DEF CallAsks, stream, TypeOK, CounterTypes, PumpTypes
<1>1. /\ a \in Event /\ a.ev = "tool" /\ b \in Event /\ b.ev = "tool"
      /\ c \in Event /\ c.id = stepN + 1
  <2>1. stepN + 1 \in Nat
    <3>1. stepN \in Nat
      BY <1>0
    <3> QED
      BY ONLY <3>1
  <2> QED
    BY <2>1, PlainOnes, StepOnes
<1> HIDE DEF a, b, c
<1>2. /\ es \in Seq(Event) /\ Len(es) = 3 /\ es[1] = a /\ es[2] = b /\ es[3] = c
  BY <1>1
<1> HIDE DEF es
<1>3. /\ Len(queue') = Len(queue) + 3 /\ Len(queue) \in Nat
      /\ \A k \in 1..Len(queue') :
           \/ k \in 1..Len(queue) /\ queue'[k] = queue[k]
           \/ k - Len(queue) \in 1..3 /\ queue'[k] = es[k - Len(queue)]
  BY <1>0, <1>2, PutExtends, LenProperties
<1>4. ASSUME NEW k \in 1..Len(queue'), queue'[k].ev = "confirm"
      PROVE  /\ queue'[k].id <= stepN'
             /\ pPc' = "approval" /\ queue'[k].id = toolId' => k = Len(queue')
  <2>1. CASE k \in 1..Len(queue) /\ queue'[k] = queue[k]
    <3>1. queue[k].id <= stepN /\ queue[k] \in Event
      BY <1>0, <1>4, <2>1, ElementOfSeq DEF AskIsLast
    <3>2. queue[k].id \in Nat
      BY <3>1 DEF Event
    <3> QED
      BY <1>0, <2>1, <3>1, <3>2
  <2>2. CASE k - Len(queue) \in 1..3 /\ queue'[k] = es[k - Len(queue)]
    <3> DEFINE d == k - Len(queue)
    <3>1. d \in 1..3 /\ queue'[k] = es[d]
      BY <2>2
    <3>2. d = 3 => k = Len(queue')
      BY <1>3
    <3> HIDE DEF d
    <3>3. d = 1 \/ d = 2 \/ d = 3
      BY <3>1
    <3>4. d = 3
      BY <1>1, <1>2, <1>4, <3>1, <3>3
    <3> QED
      BY <1>0, <1>1, <1>2, <3>1, <3>2, <3>4
  <2> QED
    BY <1>3, <2>1, <2>2
<1>5. ASSUME NEW k \in 1..Len(emitted), emitted[k].ev = "confirm"
      PROVE  emitted[k].id <= stepN' /\ emitted[k].id # toolId'
  <2>1. emitted[k].id <= stepN /\ emitted[k] \in Event
    BY <1>5, ElementOfSeq DEF AskIsLast, TypeOK, StreamTypes
  <2>2. emitted[k].id \in Nat
    BY <2>1 DEF Event
  <2> QED
    BY <1>0, <2>1, <2>2
<1> QED
  BY <1>0, <1>4, <1>5 DEF AskIsLast

\* Any other step of the pump asks for nothing, and no wait is open after it.
LEMMA AskIsLastPump ==
  TypeOK /\ GateInv /\ AskIsLast /\ PumpStep => AskIsLast'
<1> SUFFICES ASSUME TypeOK, GateInv, AskIsLast, PumpStep, ~CallAsks
             PROVE  AskIsLast'
  BY AskIsLastAsks
<1>0. queue \in Seq(Event) /\ emitted \in Seq(Event)
  BY DEF TypeOK, StreamTypes, PumpTypes
<1>1. /\ pPc' # "approval" /\ stepN \in Nat /\ stepN' \in Nat /\ stepN <= stepN'
      /\ UNCHANGED <<emitted, script, sPc, phase>>
  BY PumpAsks, PumpMoves DEF stream
<1>2. PICK es \in Seq(Event) : PumpPut(es)
  BY PumpPuts
<1>3. ASSUME NEW k \in 1..Len(queue'), queue'[k].ev = "confirm"
      PROVE  queue'[k].id <= stepN'
  <2>1. CASE k \in 1..Len(queue) /\ queue'[k] = queue[k]
    <3>1. queue[k].id <= stepN /\ queue[k] \in Event
      BY <1>0, <1>3, <2>1, ElementOfSeq DEF AskIsLast
    <3>2. queue[k].id \in Nat
      BY <3>1 DEF Event
    <3> QED
      BY <1>1, <2>1, <3>1, <3>2
  <2>2. CASE k - Len(queue) \in 1..Len(es) /\ queue'[k] = es[k - Len(queue)]
    <3>1. PutsPlain(es) \/ PutsLast(es)
      BY <1>2 DEF PumpPut, PutsRequest
    <3> QED
      BY <1>3, <2>2, <3>1 DEF PutsPlain, Plain, PutsLast
  <2> QED
    BY <1>0, <1>2, <2>1, <2>2, PutExtends DEF PumpPut
<1>4. ASSUME NEW k \in 1..Len(emitted), emitted[k].ev = "confirm"
      PROVE  emitted[k].id <= stepN'
  <2>1. emitted[k].id <= stepN /\ emitted[k] \in Event
    BY <1>0, <1>4, ElementOfSeq DEF AskIsLast
  <2>2. emitted[k].id \in Nat
    BY <2>1 DEF Event
  <2> QED
    BY <1>1, <2>1, <2>2
<1> QED
  BY <1>1, <1>3, <1>4 DEF AskIsLast

\* What the streaming task does with a cancellation: a task that was told to
\* die does nothing but die.
LEMMA StreamDies ==
  TypeOK /\ StreamStep =>
    /\ UNCHANGED <<expired, cancelReq, lateAnswer, answered, doomed>>
    /\ pCancel => pCancel'
    /\ sPc = "orphan" => sPc' \in {"orphan", "closed"}
    /\ sPc # "closed"
    /\ cancelReq /\ sPc = "get" /\ pPc = "approval" => pCancel'
<1> SUFFICES ASSUME TypeOK, StreamStep
             PROVE  /\ UNCHANGED <<expired, cancelReq, lateAnswer, answered, doomed>>
                    /\ pCancel => pCancel'
                    /\ sPc = "orphan" => sPc' \in {"orphan", "closed"}
                    /\ sPc # "closed"
                    /\ cancelReq /\ sPc = "get" /\ pPc = "approval" => pCancel'
  OBVIOUS
<1> USE DEF approval, outer, pump, PumpRest, PumpButQueue, CancelPump, PumpAlive
<1>1. CASE DeadlineAtTop
  BY <1>1 DEF DeadlineAtTop, Resumed
<1>2. CASE DeadlineFires
  BY <1>2 DEF DeadlineFires, Suspended
<1>3. CASE BudgetNext
  BY <1>3 DEF BudgetNext, Resumed
<1>4. CASE BudgetFinish
  BY <1>4 DEF BudgetFinish, Resumed
<1>5. CASE ResumeRecall
  BY <1>5 DEF ResumeRecall, Resumed
<1>6. CASE Recalled
  BY <1>6 DEF Recalled
<1>7. CASE ResumeGet
  BY <1>7 DEF ResumeGet, Resumed
<1>8. CASE ForwardStep
  BY <1>8 DEF ForwardStep, Getting
<1>9. CASE ForwardEvent
  BY <1>9 DEF ForwardEvent, Getting
<1>10. CASE AgentFailed
  BY <1>10 DEF AgentFailed, Getting
<1>11. CASE AgentFinishedOnMap
  BY <1>11 DEF AgentFinishedOnMap, Getting
<1>12. CASE AgentFinished
  BY <1>12 DEF AgentFinished, Getting
<1>13. CASE Planned
  BY <1>13 DEF Planned
<1>14. CASE PlannerFailed
  BY <1>14 DEF PlannerFailed
<1>15. CASE TailNext
  BY <1>15 DEF TailNext, Resumed
<1>16. CASE FinishRun
  BY <1>16 DEF FinishRun, Resumed
<1>17. CASE StreamCancelled
  BY <1>17 DEF StreamCancelled, Suspended
<1>18. CASE SendCancelled
  BY <1>18 DEF SendCancelled
<1>19. CASE GeneratorClosed
  BY <1>19 DEF GeneratorClosed
<1> QED
  BY <1>1, <1>2, <1>3, <1>4, <1>5, <1>6, <1>7, <1>8, <1>9, <1>10, <1>11, <1>12,
     <1>13, <1>14, <1>15, <1>16, <1>17, <1>18, <1>19 DEF StreamStep

\* The streaming task keeps a doomed wait doomed.
LEMMA WaitStream ==
  TypeOK /\ GateInv /\ PumpInv /\ WaitInv /\ StreamStep => WaitInv'
<1> SUFFICES ASSUME TypeOK, GateInv, PumpInv, WaitInv, StreamStep PROVE WaitInv'
  OBVIOUS
<1>0. StageOrder /\ PendingIsWaitedOn
  BY DEF GateInv
<1>1. /\ UNCHANGED <<pending, answered, resolved, ran, toolId, doomed, expired,
                     cancelReq, lateAnswer>>
      /\ pCancel => pCancel'
      /\ sPc = "orphan" => sPc' \in {"orphan", "closed"}
      /\ sPc # "closed"
      /\ cancelReq /\ sPc = "get" /\ pPc = "approval" => pCancel'
  BY <1>0, StreamEffects, StreamDies DEF StreamEffect
<1>2. AskIsLast'
  BY <1>0, AskIsLastStream DEF WaitInv
<1>3. CancelledWaitDies'
  BY <1>1 DEF WaitInv, CancelledWaitDies
<1>4. DoomedWait'
  <2> SUFFICES ASSUME NEW i \in doomed
               PROVE  /\ i \in pending \cup SpentIds
                      /\ i \in pending =>
                           /\ cancelReq \/ sPc' \in {"orphan", "closed"}
                           /\ Answered(i) => pCancel' \/ (lateAnswer /\ cancelReq /\ sPc' = "get")
    BY <1>1 DEF DoomedWait, SpentIds, Answered
  <2>1. /\ i \in pending \cup SpentIds
        /\ i \in pending =>
             /\ cancelReq \/ sPc \in {"orphan", "closed"}
             /\ Answered(i) => pCancel \/ (lateAnswer /\ cancelReq /\ sPc = "get")
    BY DEF WaitInv, DoomedWait
  <2>2. i \in pending => pPc = "approval"
    BY <1>0 DEF PendingIsWaitedOn
  <2> QED
    BY <1>1, <2>1, <2>2
<1> QED
  BY <1>1, <1>2, <1>3, <1>4 DEF WaitInv

\* A wait that ends without an approval runs nothing.
LEMMA WaitRan ==
  ASSUME PumpStep, pPc = "approval" PROVE ran' = ran \/ ApprovalGranted
<1>1. CASE ApprovalDenied
  BY <1>1 DEF ApprovalDenied, RefuseCall
<1>2. CASE ApprovalTimesOut
  BY <1>2 DEF ApprovalTimesOut, RefuseCall
<1>3. CASE PumpCancelled
  BY <1>3 DEF PumpCancelled
<1> QED
  BY <1>1, <1>2, <1>3
     DEF PumpStep, PumpRuns, PumpStarts, ModelFails, ModelCallsTools,
         ModelAnswers, ModelReplans, CallUnknown, CallDenied, CallAsks,
         CallAllowed, ToolReturns, TurnOver

\* The pump never runs a call whose request a cancel doomed.
LEMMA WaitPump ==
  TypeOK /\ GateInv /\ GateInv' /\ WaitInv /\ PumpStep => WaitInv'
<1> SUFFICES ASSUME TypeOK, GateInv, GateInv', WaitInv, PumpStep PROVE WaitInv'
  OBVIOUS
<1>1. /\ UNCHANGED <<expired, doomed, answered, sPc, cancelReq>>
      /\ pPc' = "approval" => CallAsks
  BY PumpAsks, PumpMoves DEF stream
<1>2. /\ stepN \in Nat /\ \A i \in pending \cup SpentIds \cup RanIds : i <= stepN
      /\ pending = IF pPc = "approval" THEN {toolId} ELSE {}
      /\ pending' = IF pPc' = "approval" THEN {toolId'} ELSE {}
      /\ doomed \subseteq pending \cup SpentIds
      /\ stepN + 1 \notin doomed
  <2>1. /\ stepN \in Nat /\ \A i \in pending \cup SpentIds \cup RanIds : i <= stepN
        /\ doomed \subseteq pending \cup SpentIds
    BY DEF TypeOK, CounterTypes, GateInv, FreshIds, WaitInv, DoomedWait
  <2>2. ~(stepN + 1 <= stepN)
    BY <2>1
  <2> QED
    BY <2>1, <2>2 DEF GateInv, PendingIsWaitedOn
<1>3. AskIsLast'
  BY AskIsLastPump DEF WaitInv
<1>4. CASE CallAsks
  <2>1. /\ pending' = pending \cup {stepN + 1} /\ pending = {}
        /\ UNCHANGED <<resolved, ran>>
    BY <1>2, <1>4 DEF CallAsks, PumpRuns
  <2>2. SpentIds' = SpentIds
    BY <2>1 DEF SpentIds
  <2>3. DoomedWait'
    BY <1>1, <1>2, <2>1, <2>2 DEF DoomedWait
  <2>4. CancelledWaitDies'
    BY <1>1, <2>1 DEF WaitInv, CancelledWaitDies
  <2> QED
    BY <1>1, <1>3, <2>3, <2>4 DEF WaitInv
<1>5. CASE ~CallAsks
  <2>1. pending' = {}
    BY <1>1, <1>2, <1>5
  <2>2. pending \cup SpentIds \subseteq SpentIds'
    <3>1. CASE pPc = "approval"
      <4>1. PICK how : resolved' = resolved \cup {[id |-> toolId, how |-> how]}
        BY <3>1, CloseEffects DEF CloseRequest
      <4>2. [id |-> toolId, how |-> how].id = toolId
        OBVIOUS
      <4> QED
        BY <1>2, <3>1, <4>1, <4>2 DEF SpentIds
    <3>2. CASE pPc # "approval"
      <4>1. UNCHANGED resolved
        BY <1>5, <3>2, PumpEffects
      <4> QED
        BY <1>2, <3>2, <4>1 DEF SpentIds
    <3> QED
      BY <3>1, <3>2
  <2>3. DoomedWait'
    BY <1>1, <1>2, <2>1, <2>2 DEF DoomedWait
  <2>4. CancelledWaitDies'
    <3>1. CASE ran' = ran
      BY <1>1, <3>1 DEF WaitInv, CancelledWaitDies
    <3>2. CASE ran' = ran \cup {[id |-> stepN + 1, gated |-> FALSE]}
      <4>2. [id |-> stepN + 1, gated |-> FALSE].id = stepN + 1
        OBVIOUS
      <4> QED
        BY <1>1, <1>2, <3>2, <4>2 DEF WaitInv, CancelledWaitDies
    <3>3. CASE ApprovalGranted
      <4>1. /\ ran' = ran \cup {[id |-> toolId, gated |-> TRUE]}
            /\ pPc = "approval" /\ ~pCancel /\ MayWake
            /\ [id |-> toolId, ok |-> TRUE] \in answered
        BY <3>3 DEF ApprovalGranted, PumpRuns
      <4>2. Answered(toolId)
        <5>1. [id |-> toolId, ok |-> TRUE].id = toolId
          OBVIOUS
        <5> QED
          BY <4>1, <5>1 DEF Answered
      <4>3. toolId \notin doomed
        BY <1>2, <4>1, <4>2 DEF WaitInv, DoomedWait, MayWake, Suspended
      <4>4. [id |-> toolId, gated |-> TRUE].id = toolId
        OBVIOUS
      <4> QED
        BY <1>1, <4>1, <4>3, <4>4 DEF WaitInv, CancelledWaitDies
    <3>4. CASE pPc # "approval"
      BY <1>5, <3>1, <3>2, <3>4, PumpEffects
    <3>5. CASE pPc = "approval"
      BY <1>1, <3>1, <3>3, <3>5, WaitRan
    <3> QED
      BY <3>4, <3>5
  <2> QED
    BY <1>1, <1>3, <2>3, <2>4 DEF WaitInv
<1> QED
  BY <1>4, <1>5

\* Whoever acts from outside finds a doomed wait doomed and leaves it so: a
\* decision that still comes meets a stream that waits behind the request with
\* its cancellation on the way, or a pump that was told to stop.
LEMMA WaitConfirm ==
  ASSUME TypeOK, GateInv, PumpInv, WaitInv,
         NEW i \in pending, NEW ok \in BOOLEAN, Confirm(i, ok)
  PROVE  WaitInv'
<1>1. /\ UNCHANGED <<pending, resolved, ran, doomed, expired, sPc, phase, cancelReq,
                     script, emitted, queue, pPc, pCancel, toolId, stepN>>
      /\ answered' = answered \cup {[id |-> i, ok |-> ok]}
      /\ lateAnswer' = cancelReq
      /\ pPc = "approval" /\ i = toolId /\ pending = {toolId}
  BY DEF Confirm, record, stream, pump, outer, GateInv, PendingIsWaitedOn
<1>2. i \in doomed => pCancel \/ (cancelReq /\ sPc = "get")
  <2> SUFFICES ASSUME i \in doomed PROVE pCancel \/ (cancelReq /\ sPc = "get")
    OBVIOUS
  <2>1. PICK n \in 1..Len(emitted) :
          /\ emitted[n] = Ev("confirm", i, "")
          /\ n = Len(emitted) => sPc \notin {"send", "orphan"}
    BY DEF Confirm, Delivered
  <2>2. emitted[n].ev = "confirm" /\ emitted[n].id = toolId
    <3>1. Ev("confirm", i, "").ev = "confirm" /\ Ev("confirm", i, "").id = i
      BY DEF Ev
    <3> QED
      BY <1>1, <2>1, <3>1
  <2>3. n = Len(emitted) /\ phase = "agent"
    BY <1>1, <2>2 DEF WaitInv, AskIsLast
  <2>4. sPc \in {"get", "closed"}
    <3>1. sPc \in {"idle", "send", "recall", "get", "plan", "orphan", "closed"}
      BY DEF TypeOK, StreamTypes
    <3>2. sPc \notin {"idle", "recall"}
      BY <2>3 DEF GateInv, StageOrder
    <3>3. sPc # "plan"
      BY <1>1 DEF PumpInv
    <3> QED
      BY <2>1, <2>3, <3>1, <3>2, <3>3
  <2>5. sPc = "closed" => pCancel
    BY <1>1 DEF PumpInv, NoOrphanPump
  <2>6. sPc = "get" => cancelReq
    BY <1>1 DEF WaitInv, DoomedWait
  <2> QED
    BY <2>4, <2>5, <2>6
<1>3. AskIsLast' /\ CancelledWaitDies' /\ ~expired'
  BY <1>1 DEF WaitInv, AskIsLast, CancelledWaitDies
<1>4. DoomedWait'
  BY <1>1, <1>2 DEF WaitInv, DoomedWait, SpentIds
<1> QED
  BY <1>3, <1>4 DEF WaitInv

\* No step of a run without a wall-time budget brings a doomed wait to life.
LEMMA WaitNext ==
  ASSUME HasDeadline = FALSE, TypeOK, GateInv, GateInv', PumpInv, WaitInv, [Next]_vars
  PROVE  WaitInv'
<1>a. ASSUME UNCHANGED <<pending, answered, resolved, ran, toolId, stepN, pPc,
                         pCancel, queue, script, phase, sPc, emitted, lateAnswer,
                         expired>>,
             cancelReq => cancelReq', doomed' = doomed
      PROVE  WaitInv'
  BY <1>a DEF WaitInv, AskIsLast, DoomedWait, CancelledWaitDies, SpentIds, Answered
<1>1. CASE StreamStep
  BY <1>1, WaitStream
<1>2. CASE PumpStep
  BY <1>2, WaitPump
<1>3. CASE StartRun
  <2>1. /\ UNCHANGED <<pending, answered, resolved, ran, doomed, expired, script,
                       phase, queue, pPc, toolId, stepN>>
        /\ sPc' = "send" /\ emitted' = <<State("thinking")>>
        /\ pPc = "none" /\ pending = {}
    BY <1>3 DEF StartRun, pump, approval, outer, GateInv, StageOrder,
       PendingIsWaitedOn
  <2>2. \A k \in 1..Len(emitted') : emitted'[k].ev # "confirm"
    <3> DEFINE e == State("thinking")
    <3>1. e.ev = "state"
      BY DEF State, Ev
    <3> HIDE DEF e
    <3>2. <<e>>[1] = e /\ \A k \in 1..Len(<<e>>) : k = 1
      OBVIOUS
    <3> QED
      BY <2>1, <3>1, <3>2 DEF e
  <2>3. AskIsLast'
    BY <2>1, <2>2 DEF WaitInv, AskIsLast
  <2>4. DoomedWait' /\ CancelledWaitDies'
    BY <2>1 DEF WaitInv, DoomedWait, CancelledWaitDies, SpentIds
  <2> QED
    BY <2>1, <2>3, <2>4 DEF WaitInv
<1>4. CASE DeadlinePasses
  BY <1>4 DEF DeadlinePasses
<1>5. CASE Disconnect
  BY <1>5, <1>a DEF Disconnect, pump, approval, outer
<1>6. CASE CancelRun
  <2>1. /\ UNCHANGED <<pending, answered, resolved, ran, expired, script, phase,
                       queue, pPc, pCancel, toolId, stepN, sPc, emitted, lateAnswer>>
        /\ cancelReq' = (cancelReq \/ sPc \in {"send"} \cup Suspended)
        /\ doomed' = doomed \cup {i \in pending : ~Answered(i)}
        /\ sPc # "idle"
    BY <1>6 DEF CancelRun, Recordable, pump, approval, GateInv, StageOrder
  <2>2. cancelReq' \/ sPc \in {"orphan", "closed"}
    BY <2>1 DEF TypeOK, StreamTypes, Suspended
  <2>3. \A i \in pending : \A r \in ran : r.id # i
    BY DEF GateInv, PendingIsWaitedOn, FreshIds, RanIds
  <2>4. AskIsLast' /\ CancelledWaitDies'
    BY <2>1, <2>3 DEF WaitInv, AskIsLast, CancelledWaitDies
  <2>5. DoomedWait'
    BY <2>1, <2>2 DEF WaitInv, DoomedWait, SpentIds, Answered
  <2> QED
    BY <2>1, <2>4, <2>5 DEF WaitInv
<1>7. CASE EvictRun
  BY <1>7, <1>a DEF EvictRun, stream, pump, approval, outer
<1>8. CASE \E i \in pending, ok \in BOOLEAN : Confirm(i, ok)
  BY <1>8, WaitConfirm
<1>9. CASE UNCHANGED vars
  BY <1>9, <1>a DEF vars, stream, pump, approval, outer
<1> QED
  BY <1>1, <1>2, <1>3, <1>4, <1>5, <1>6, <1>7, <1>8, <1>9 DEF Next, Outside

\* An open request that a cancel found undecided never runs, whenever and
\* however often it is decided afterwards -- in a run without a wall-time
\* budget (routes.py cancel_run, "never resolved as approved").
THEOREM CancelledWaitDiesHolds ==
  HasDeadline = FALSE => (Spec => []CancelledWaitDies)
<1> SUFFICES ASSUME HasDeadline = FALSE PROVE Spec => []CancelledWaitDies
  OBVIOUS
<1>1. Init => WaitInv
  <2> SUFFICES ASSUME Init PROVE WaitInv
    OBVIOUS
  <2>1. /\ queue = <<>> /\ emitted = <<>> /\ script = <<>> /\ sPc = "idle"
        /\ doomed = {} /\ expired = FALSE
    BY DEF Init
  <2>2. \A k \in 1..Len(<<>>) : FALSE
    OBVIOUS
  <2> QED
    BY <2>1, <2>2 DEF WaitInv, AskIsLast, DoomedWait, CancelledWaitDies
<1>2. TypeOK /\ GateInv /\ GateInv' /\ PumpInv /\ WaitInv /\ [Next]_vars => WaitInv'
  BY WaitNext
<1>3. WaitInv => CancelledWaitDies
  BY DEF WaitInv
<1>4. QED
  BY <1>1, <1>2, <1>3, TypeCorrect, GateHolds, PumpHolds, PTL DEF Spec

=============================================================================
