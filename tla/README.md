# A formal model of FRIDAY

FRIDAY is an assistant in two programs. A FastAPI **orchestrator**
(`backend/friday`) answers one question per server-sent-event stream: it runs an
agent loop over a language model and tools, asks the operator before a risky
tool runs, plans a visualization, and keeps short and long memories. A Next.js
**HUD** (`src`) asks the questions, feeds the frames into one guarded state
machine, speaks the answers, and shows maps and charts.

This directory holds TLA+ models of the parts in which order, overlap and
failure decide whether the program is right, the TLC configurations that check
them, and proofs for TLAPS. Paths in this file are relative to the repository
root.

## 1. Files

| File | What it is |
| --- | --- |
| `RunStream.tla` | one run of the orchestrator: stream, pump, approval gate, registry, HTTP handlers |
| `RunPromise.tla` | what a run promises, abstractly; `RunStream` implements it |
| `RunStreamProofs.tla` | proofs of the types, of the approval gate, of finality, of the replay log, of the pump and of a cancelled wait, and of the refinement |
| `TurnClient.tla`, `TurnClientProofs.tla` | the browser's side of overlapping turns, and its proofs |
| `LongTermMemory.tla`, `LongTermMemoryProofs.tla` | the memory cache, its table, eviction and consolidation, and the proofs |
| `SpeechPlayback.tla`, `SpeechPlaybackProofs.tla` | speech out, the microphone, and the audio context they share, and the proofs |
| `MapMode.tla` | opening, re-aiming, failing and leaving the map |
| `MapPanels.tla`, `MapPanelsProofs.tla` | place card, context menu, directions and search on an open map, and the proofs |
| `HoloStage.tla`, `MCHoloStage.tla` | the hologram stage under the map, composed with `MapMode`; its instance |
| `HoloStageProofs.tla` | proofs of the map and of the stage |
| `Normalization.tla` | what becomes of the data of a visualization, as operators |
| `EventStream.tla`, `MCEventStream.tla` | reading the body of an answer, through `Normalization`; its bodies |
| `EventStreamProofs.tla` | proofs of the reading and of the normalization |
| `Device.tla`, `DeviceProofs.tla` | location sharing, device monitor, history, frame counter, and the proofs |
| `<Module>_<run>.cfg` | one instance and question for TLC |
| `PROJECT.json` | components, runs, mutants, source map, findings, hazards, theorems |

Run `tlc -config RunStream_turn.cfg RunStream` to check an instance and
`tlapm RunStreamProofs.tla` to check proofs. The heading of each proof module
says along which argument it goes.

## 2. Inventory of the system

| Component | State | Operations | Talks to | What makes it right |
| --- | --- | --- | --- | --- |
| Run stream (`api/routes.py`) | per run: queue, pump task, budgets, sequence number; `PENDING`, `_RUN_TASKS` | `run_query`, `approve`, `cancel_run`, `confirm_endpoint`, `replay_run` | agent loop by a queue, registry by calls, client by SSE | no unapproved tool runs, every run ends once, replay equals the wire |
| Run registry (`runs.py`) | runs in creation order, capped; a replay log per run | create, begin, update_status, record_event, record_step, finish | stream, HTTP handlers, store | terminal is final, log is the tail of the stream |
| Agent loop (`agent/agent.py`, `policy.py`, `verify.py`, `evidence.py`) | messages, turn and replan counters, outcome | model call, tool calls, verification | model, tools, `approve` | gate asked where policy says, steps closed |
| Planner (`planner/`) | none | plan a visualization from tool output | model | a preview stays pinned |
| Tools (`tools/`, `geo/`, `weather/`, `rag.py`) | sandbox directory, registry table | fetch, search, notes, metrics, routes, weather | network, files | arguments checked, paths inside the sandbox |
| Long-term memory (`memory/`, `memory_policy.py`) | `CACHE`, the Supabase table, `TURN_COUNTER` | remember, forget, recall, consolidate, load | agent tool, routes, store, model | cache and table agree, deletes are durable, owners keep what is theirs |
| Session memory (`memory/short_term.py`) | last exchanges per session, capped | history, remember | routes | only answered turns, in order |
| Admission (`api/dependencies.py`, `identity.py`) | hits per caller and globally | guard, may_access | every route | no more than the cap in any window |
| Shared store (`store.py`) | memory or redis: run snapshots, approvals | save, get, delete, resolve_approval | registry | one taker per approval |
| Audit, metrics (`audit.py`, `observability.py`) | capped ring, counters | record, recent | all | agrees with the registry |
| Turn client (`lib/agentStream.ts`, `lib/api/fridayClient.ts`, `lib/agent/*`, `lib/store.ts`, `InputBar`, `ConfirmPrompt`) | state, prompt, error; active turn and run; pending promises | runQuery, tryResume, cancel, decide | orchestrator by HTTP, voice | frames once and in order, the input comes back, turns do not disturb each other |
| Speech (`lib/voice.ts`, `lib/ttsPlayer.ts`, `lib/audioBus.ts`, `tts-worklet.js`) | player generation, audio graph, holds, microphone | speak, stop, play, attach and detach | `POST /tts` (not served by this backend), Web Audio | one voice at a time, the microphone follows the wish |
| Map mode (`components/friday/map`, `lib/mapView.ts`) | mode and request, the mounted map, place, directions, routes drawn, search boxes | open, close, settle, look up, route, search, draw | store, geocoding and routing proxies, MapLibre | no transition sticks, the last question wins, no line is left behind |
| Decoding (`lib/api/sse.ts`, `lib/agent/events.ts`, `lib/visualization/*`) | the unread tail of the body | split, unwrap, parse, normalize | turn client | no frame lost at a chunk boundary, references keep what they refer to |
| Stage (`Scene.tsx`, `components/friday/visualization`, `lib/store.ts`) | visualizations, camera owner and holders, selection, canvas | add, settle, focus, zoom, hand over, remount | map mode, turn client | one owner of the camera, selection and previews do not leak |
| Device (`lib/geolocation.ts`, `lib/deviceMonitor.ts`, `lib/deviceHistory.ts`, `lib/telemetry.ts`) | sharing status, listeners, readings, samples, frame loop | share, stop, start, tick, hide | browser, store | stopped means stopped, history is time in view |

How a question travels: `InputBar` calls `runQuery`, which aborts the turn
before it, posts `/query` and hands each frame to the guard and the store. The
orchestrator's response task drives `run_query` (budgets, registry, envelope),
which drives `_run_query_events`, which reads the queue a second task, the pump,
fills from the agent loop. A risky tool makes the pump wait on a future in
`PENDING`; the `confirm` frame reaches `ConfirmPrompt`, whose `POST /confirm`
resolves it. A stream that breaks is resumed once from `GET
/runs/{id}/events`. After `done` a background consolidation may start.

What is hard: the stream and the pump stop at different awaits and can both be
cancelled, by the client, by `/cancel` and by the deadline; HTTP handlers reach
into a run between any two of its steps; old turns stay suspended in the browser
while new ones write the same store; the memory cache is shared by every turn
across awaited store calls that may fail after they took effect; the map, its
panels and the stage behind it are driven by timers, late answers and effects
of React that outlive what they were started for. `PROJECT.json`
lists these hazards with their lines.

## 3. The run: `RunStream`

The backend runs on one asyncio loop, so an action is the code between two
suspension points. Two processes take them:

* the **response task**, `sPc`: `send` (a frame is being written), `recall`,
  `get` (waits for the queue), `plan`, `orphan` (the response died and the
  generator was left at its yield), `closed`. `phase` tells where in
  `_run_query_events` or `budget_exceeded` it is, `script` holds frames still to
  be yielded.
* the **pump**, `pPc`: `think` (a model call), `call` (between the calls of one
  reply, without suspending: nobody else runs), `approval` (in `approve`),
  `tool`, `ended`.

| Model | Code |
| --- | --- |
| `status, live, log, steps, final, mirrored` | the `AgentRun` in the registry; `live`: the registry still holds it |
| `queue, emitted, toolCount, expired, cancelReq` | the queue, the frames sent, the tool count, the wall clock, a cancellation on its way to the task |
| `pending, answered, resolved, ran` | `PENDING`; decisions posted; audited verdicts; tools executed (the last three are history) |
| `StartRun`, `ForwardStep`, `ForwardEvent`, `AgentFinished`, `Planned`, `TailNext`, `FinishRun` | the path of a run through `run_query` |
| `DeadlineAtTop`, `DeadlineFires`, `OverBudget`, `Budget*` | the two budgets |
| `StreamCancelled`, `SendCancelled`, `GeneratorClosed` | where a cancellation can hit |
| `Model*`, `Call*`, `Approval*`, `ToolReturns`, `TurnOver` | the agent loop and the end of a wait |
| `CancelRun`, `Confirm`, `Disconnect`, `EvictRun` | what comes from outside |

The model, the tools, the policy verdict (allow, ask, deny), the verification
verdict and the planner are nondeterministic. Texts are left out. The order in
which the loop's ready queue delivers a decision and a cancellation is kept
(`AnswerWaking`, `MayWake`), because approval after cancel depends on it.

### Runs

* `run_turn`: two model calls with one tool call each, one replan, no budgets, a
  log of four frames; about half a million states. Every interleaving with cancel,
  confirm, disconnect and eviction. Two model calls are what it takes for a
  second request to follow a closed one, one replan for verification to send an
  answer back, and four frames are less than any run sends, so the log is cut.
  Under `FairSpec` every started run also ends (`RunEnds`).
* `run_budget`: one model reply with two calls, a tool budget of one and a
  deadline, under `SilentSpec`: the deadline ends the silence.

The safety properties are stated at the end of the module with the code they
talk about. `CancelledWaitDies` holds without a wall-time budget only (section
14 says why), which is the hypothesis of its theorem. `GateInv`, `ReplayInv`,
`PumpInv` and `WaitInv`, at the end of the module, are the invariants of the
proofs.

### Fairness

`FairSpec` is weakly fair to the response task and to the pump: the loop runs
what is ready, the LLM client has a timeout of 60 s, `approve` a timer, a send
completes or the connection drops. `SilentSpec` asks for less: only the loop and
the clock are fair, the model, tools, planner and operator may be silent for
good; the deadline then has to end the run. No strong fairness is used.
Deadlock checking is off because a run that is over has nothing left to do.

### Proofs

For all values of the constants that satisfy `BoundsAssumption` (positive
numbers of turns, calls and log entries; any budgets):

* `TypeCorrect` (`RunStreamProofs`): `TypeOK` is a conjunction of parts about
  disjoint variables. Each action has a lemma that proves the parts it writes.
* `GateHolds`: the gate's properties are not inductive by
  themselves. That a gated execution has an approval of its own survives the
  next request only because that request's id is new; that the status tells of
  `PENDING` only because an entry of `PENDING` is there exactly while the pump
  waits on it. `GateInv` adds `FreshIds` (all ids the gate has heard of lie at
  or below the step counter, an answer belongs to an open or closed request) and
  `StageOrder` (no pump before the recall, no run before the response). The
  steps fall into five classes by what they do to the gate: the stream, a pump
  that asks nobody, opening a request, closing one, and confirm. Each class has
  its lemma, and `GateNext` puts them together.
* From it: `RefusedNeverRunsHolds`, `WaitingIffPendingHolds`,
  `PendingIsWaitedOnHolds`. `ApprovalGate`, which says of what ran only what the
  guard of the approval says, is a part of `GateInv` and no property of its own.
* `RunKeepsPromise`: `RunStream` implements `RunPromise` (status, open and spent
  requests, released calls) by the mapping `held <- live`, `open <- pending`,
  `spent <- SpentIds`, `ran <- GatedIds`. `TerminalIsFinalHolds` follows the
  same classes of steps.

* `ReplayExactHolds`: what a reconnecting client is given is exactly what it
  missed. `ReplayInv` says that the log is the tail of the frames sent
  (`LogIsTail`), and, because a log stops with its run, that nothing is sent any
  more for a run that is over (`SilentAfterEnd`): without the second the first
  would not survive a frame after the end. What `Replay` picks from the log is
  counted by a lemma about lists.
* `NoOrphanPumpHolds`: `PumpInv` adds that the sentinel is the pump's last word
  and that only the sentinel takes the stream past the agent.
* `CancelledWaitDiesHolds`, with the hypothesis `HasDeadline = FALSE`: `WaitInv`
  adds that the frame that asks for a decision is the last the pump produced
  (`AskIsLast`), so the stream of a cancelled wait stands behind it with the
  cancellation on its way (`DoomedWait`). With a wall-time budget the property
  is false: a cancel among the budget frames is taken by them.

Only model-checked: `RunEnds` and `DeadlineEndsSilence` (fairness and ENABLED are
out of the prover's reach).

## 4. The turn client: `TurnClient`

Turns overlap: a phrase the recogniser ends, or a question after Escape, starts
a turn while an older `runQuery` is still suspended. `turn[t]` is the `runQuery`
call of turn `t` with its place (`fetch`, `stream`, `resume`, `local`, `hold`
for the timed display of a typed answer, `speak`, `hushed` for an utterance that
was silenced), `ui` the store, `turnRef`, `publisher` and `activeRunId` the
module variables that say whose turn it is. The orchestrator is reduced to the
frames of each run, which can be delivered, repeated, cut off or replayed.
JavaScript runs the rejections of an abort before the next callback: `Quiet`
holds everything else back until aborted turns have unwound.

| Model | Code |
| --- | --- |
| `Type`, `MicOn`, `MicOff`, `Phrase`, `RecogniserEnds`, `Cancel` | `InputBar`; the button stops a recogniser, its end comes later and moves the machine |
| `AnswerPrompt`, `DenyByEscape`, `DecisionReturns` | `ConfirmPrompt` and `decide` |
| `Fetched`, `Refused`, `Unreachable`, `Receive`, `EndedEarly`, `Interrupted`, `StreamUnwinds` | `streamQuery` and the branches of `runQuery` |
| `Replayed`, `ReplayFails` | `tryResume`, `fetchRunEvents` |
| `HoldEnds`, `SpeechRefused` | the tail of `runQuery` |
| `LocalStep`, `LocalUnwinds` | `runLocal`, the offline demo |
| `Publish`, `RunOver`, `DecisionLands` | the orchestrator as far as the client sees it |
| `transition`, `dispatch`, `observe`, `tail` | store, `dispatch`, `StreamGuard`, the reset behind a hold |

Runs: `client_session` has two turns (the least that overlap), one approval
request per run, one decision on its way and one recogniser at a time, which the
button stops only while a question is left to ask; 425 thousand states.
`client_race` shows a disagreement.

Fairness is weak and per turn: the browser delivers what has arrived and fires
its timers, the server goes on publishing because its model calls and its
approval wait have timeouts. One part is an assumption about the environment:
an utterance ends. `ttsPlayer.ts` tests its play limit only when a chunk or the
audio worklet wakes it, so a `/tts` body that stalls for ever is outlasted by
Escape alone; `InputComesBack` is about a speech service that answers, fails or
refuses. Failures, the microphone and the operator owe nothing. Deadlock
checking is off because a session ends when its questions are used up.

Left out: what the HUD only shows (texts, tool and step lines, memory notices,
live mode), visualizations (`HoloStage` has them), frames without an envelope, the states the server
passes through without a decision, and tools that need no approval.

Proofs (`TurnClientProofs`), for any number of turns, requests and decisions on
their way: `EveryFrameOnceHolds`, `PromptOfLatestHolds`, `CancelStopsItsOwnHolds`,
`EndsAreToldHolds`. `TurnInv` adds to `PromptOfLatest` that a call nobody aborted
is the latest one (`ActiveIsLatest`), that the two frame counters of a call agree
with each other and with the run's log (`SeenIsLogged`), and that a call that
holds its answer has seen `done` or was played offline (`HeldIsAnswered`).
`dispatchAll`, which applies the frames of a replay, is a recursive function: what
it yields is proved by `Reaches`, which is induction over 0..N stated of sets
and proved with the pigeonhole facts of the library. `InputComesBack` stays with
TLC.

## 5. Long-term memory: `LongTermMemory`

`cache` is the sequence `CACHE`, `store` the rows of the table. A *job* is a
turn that remembers, a consolidation or a delete through the API. Every store
call is awaited on a worker thread: a job is suspended from `sent` until its
answer is read, and the row may be written long before (`StoreInserts`,
`StoreDeletes`). A call that fails was either refused or took effect and lost its
answer. A turn that remembers can be cancelled at any of these awaits
(`Cancelled`): `remember` runs in the turn's pump task, which the operator, a
lost client or the deadline cancels, and nothing shields the await. The task is
gone at once and logs nothing; a thread that has started still writes
(`InsertsLate`, `DeletesLate`), one that has not never does. Deletes through the
API and consolidations are not part of a turn and are not cancelled.

| Model | Code |
| --- | --- |
| `Remember`, `StoreInserts`, `InsertReturns`, `InsertFails` | `long_term.add` behind `memory_policy.propose`, then `enforce_cap` |
| `StoreDeletes`, `DeleteReturns`, `DeleteFails` | `forget` for a superseded, evicted, consolidated or forgotten memory |
| `ForgetMemory` | `DELETE /memory/{id}` with its access check |
| `Cancelled`, `InsertsLate`, `DeletesLate` | the pump task cancelled at `asyncio.to_thread`, and what the thread still does |
| `Recall`, `Touched`, `TouchFails` | `recall_block`, `_touch` |
| `TurnEnds`, `ConsolidationStarts`, `Chooses` | `note_turn`, `should_run`, `consolidate.run` and the model's choice |
| `Restart` | the process dies and `load` fills the cache from the table |

Embeddings are left out: two facts are near-identical when they say the same,
and contradict when they say the opposite of one claim. The `reject` branch of
`propose` changes nothing and is left out; so are ranking (any visible memories
may be recalled), the listing, audit and metrics.

`memory_shared`: two jobs at once, a cap of two, three facts ever stored, a user
and anonymous callers, two events among recalls, deletes through the API,
consolidations and restarts, and one call that fails or one cancelled turn; 1.6
million states. Two such events are enough for a touched row that a load then
prefers, a delete during a consolidation, and a restart after a delete or in the
middle of a consolidation; three of them at once are not explored. Three facts
are one more than the cap, so eviction happens while the other job is under way;
owner and anonymous rows are enough for a wrong owner. `told`, `loose` and `raced` are history: an
acknowledged delete, a memory about which a warning was logged, and a memory
that was deleted through the API before its own insert was answered or that a
cancelled call had in hand. `CacheMirrorsStore` has two parts. What is in both
cache and table has one text and one owner there, whatever happened; and outside
calls under way a memory is in both or in neither, except those of `loose` and
`raced`. Both windows of `raced` are real. An insert is committed, the delete of
that row is acknowledged, and `add` then appends the deleted memory to the
cache, from which it is recalled until the next start. And a turn cancelled while
it remembers leaves a row the cache never hears of (`long_term.py:267`), a
superseded fact in the cache with its row gone and no replacement (`:265`,
`:297`), or evicted memories in the table (`:141`), all without a warning. What
the property shows of these is that the damage stays with the memories the
cancelled call had in hand.
Deadlock checking is off because the bounded calls get used up. No fairness:
only safety is checked. Jobs and the two polarities are symmetric.

Proofs (`LongTermMemoryProofs`), for any facts, users, jobs and limits that satisfy
`MemoryAssumption`: `CacheMirrorsStoreHolds`, `ToldGoneIsGoneHolds`,
`OwnersKeepTheirsHolds`. None is inductive: whether cache and table agree about
a memory depends on who is between the two. `MemInv` adds what a job may be doing at
each of its places (`JobsFormed`), that ids are born once and below the next
one (`Born`, `OneOfEach`), that an insert under way is of a memory the cache has
not heard of (`NewsIsNews`), that a delete is asked for by somebody who may
(`DeletesMay`), and, per id, that cache and table agree or a job is about to
settle the difference (`Settling`). The orders in which the code sorts memories are
written as positions in an ordering, about which `Arranged` and its lemmas count.

## 6. Speech: `SpeechPlayback`

An action is the code between two awaits. What the browser does later is an
action of its own: `resume` and `suspend` land, a device prompt is answered, a
recogniser reports its end, the worklet consumes a chunk and its message arrives.

| Model | Code |
| --- | --- |
| `utt[u]` | a voice turn and its `speak` call: place, abort signal, samples posted (`fed`, `pending`), in the worklet (`queue`), messages under way (`reports`) |
| `player` | the fields of the one `TtsPlayer`; `owner` is the play whose generation is current, `ready` the play that is parked |
| `ctrl`, `engine`, `turnRef` | `speakController`, what `speechSynthesis` reads, the turn Escape would abort |
| `machine` | the store's state as far as the microphone reads it: idle, listening, a state with an edge to idle, one without |
| `ctx`, `attach`, `mic` | the shared context and the last thing asked of it, the `attachMic` calls, `stopRef` and the recognisers: running, stopped by the button, ended by their phrase |
| `MicOn`, `MicOff`, `Phrase`, `RecogniserEnds`, `Escape` | `toggleMic`, `onFinal` with `ask`, `onEnd`, `cancel` |
| `FirstFrame`, `Frame`, `SaysNothing` | the frames of an answer, which move the machine, and an answer that is not read out |
| `Speak` ... `Unwinds` | `speak`, `streamTts`, `play` with its early returns, pump, backpressure, drain, time-out and catch |

Generations are compared for equality only, so the model keeps the play (or the
attach) whose generation is current instead of a counter: an abort makes it
nobody's. The clock of a play is a choice at each place `checkTimeout` is called:
the deadline has passed, and the play ends there, or it has not. Whether the
header gave a total is chosen where it first matters. Typed questions speak
nothing and are left out; that a replaced turn no longer speaks is
`TurnClient`'s matter.

The button is enabled unless the machine is busy (`Busy`: neither idle nor
listening). A phrase leaves the machine in listening until the first frame of its
answer, so in that window the microphone can be opened again, and the answer,
which nobody aborted, is then read out over it. `OneVoice` says what is left: over an
open microphone only an answer is heard whose reading began after the button was
pressed; what was being fetched, woken or played at that moment is silenced
wherever it stood. `mic.over` is history, for that.

`speech`: two turns, two presses, two chunks, a budget of one chunk in flight; 508
thousand states. The second play meets the first one's late messages, failures
and holds, the second press the first one's device and recogniser; two chunks
make a play park and be cut short. `AbortedUnwinds` needs `FairSpec`: while the browser owes the page something (a
resume, a module, the return of an aborted call), some of it gets done. Nothing
is assumed of the backend or of a play nobody aborted; in fact such a play need
not end, since a stalled body is never timed out. Deadlock checking is off
because the bounded turns get used up.

Proofs (`SpeechPlaybackProofs`), for any number of turns, presses and chunks and
any budget: `OneVoiceHolds`, `NeverTwiceHolds`, `EndedMeansHeardHolds`,
`MicFollowsWishHolds`. `SpeechInv` says that who speaks unaborted has the
controller and is the turn in flight, that while the microphone is open it is the
last one that began since, and that engine and player serve nobody aborted
(`VoiceIsTurns`); that the samples fed, played, queued and reported of a
play add up while it owns the player (`CountsAreOwners`); and that a stream that
is live is the one asked for last (`StreamIsWanted`). The four properties follow
from it. `AbortedUnwinds` stays with TLC.

## 7. The map: `MapMode`

`view` is `store.mapView`, `stage` the mounted `MapStage` with its MapLibre
instance. The functions of `lib/mapView.ts` keep their names
(`openMapState`, `closeMapState`, `settleMapState`, `mapViewAfterSpec`).

| Model | Code |
| --- | --- |
| `OpenMap`, `CloseMap`, `SettleMap` | the store's actions and the effects of the render they cause |
| `StageFor`, `Accepted` | what those effects do to the stage: it goes with mode "globe", and a request that was accepted is applied to a loaded map |
| `Apply` | the two branches of that effect: a route opens directions, anything else sends the camera |
| `RouteAnswered`, `CloseDirections` | the directions' answer, which frames the route; their button or Escape |
| `MountStage`, `Load`, `LoadError` | the chunk arrives and the component mounts; MapLibre's `load` and `error` |
| `SlowTimer`, `FailTimer`, `SettleTimer` | the timers of the effects |
| `Leave`, `ZoomedOut` | the ways out |

A store change and the effects of its render are one step, since React commits
it before the next task; a timer is armed exactly while the effect that set it
is current.

A route does not move the camera: its panel does, when the route arrives. A
place does not close directions that are open. So the directions of an older
route stay over a newer place, hide its pins (`MapLayer.tsx:211`), and an answer
still to come sends the camera to the route (`DirectionsPanel.tsx:169`).
`LatestRequestApplied` says what is left: after a route the directions are its
own, until they are closed; after a place the camera was sent there, and only
directions that were open already when it came (`older`, history) can have
taken it elsewhere. That a route which was closed and is asked for again in the
same words is ignored while the map is open is `openMapState`'s rule.

`map_transitions`: three places and two routes against a map that loads, loads
late or fails; two routes are what it takes for one to replace the other. The
state space is small (692 states) and complete: nothing is bounded but the number
of requests. `TransitionsEnd` needs `MapFairness`: the chunk arrives and
timers fire. That the style loads is not promised, because the network is not;
`TransitionsEnd` therefore speaks of an entering map that has loaded. `map_stuck`
shows what happens otherwise (section 14). Deadlock checking is off because
nothing has to happen to a globe without a map.

Proof (`HoloStageProofs`): `MapAppliesRequest`, for any sets of requests and
routes. `LatestRequestApplied` is not inductive: a mount puts an unloaded stage in place
of whatever is there, and a transition into mode "map" is safe only over a
loaded one. `MapInv` adds the types, `LoadedIsUp`: a loaded stage is up, so a
mount never meets it, and `AsksForRoute`: an answer is under way only to
directions that are open. `StageFollows` is the lemma shared by every change of the
view. `StageAppliesRequest` is the same over the whole stage of section 9.
Liveness stays with TLC.

## 8. On the map: `MapPanels`

Place card, context menu, directions, one search box and the layer that holds
them, each with its requests. A complete set of directions is one *question*;
editing it makes another. `asked` is the question the effect of the panel last
ran for, which lags behind `dir` when a promise and not a click set it.

| Model | Code |
| --- | --- |
| `setPlace`, `Feature`, `Pin`, `WhatsHere`, `CardFor`, `Reversed`, `ClosePlace` | `PlacePanel` with its lookup, and the clicks in `MapLayer` that choose a place |
| `ContextMenu`, `EmptyClick`, `Item`, `CopyCoords`, `Escape` | menu and Escape, innermost first |
| `directionsTo`, `ByMenu`, `ByCard`, `ByButton`, `Edit`, `RouteRequest`, `Close` | what changes the directions |
| `Ask`, `AskFor`, `Refused`, `RouteAnswer`, `Aborts` | the effect that fetches a route, `fetchRoute`, its abort |
| `Draw`, `Select`, `ClickRoute`, `ChooseStyle`, `StyleLoad`, `clearRoutes` | the layers of a route and the swap of a style |
| `BoxFor`, `Type`, `Suggested`, `Pick`, `PickMe`, `BoxCloses` | `MapSearch` |
| `PlaceFound`, `StopFound`, `NotFound` | the place behind a picked suggestion, which nothing calls off |
| `MapGone` | the map hands back, everything unmounts |

`panels`: two questions, places and texts, the least for an older one to come
back late; 250 thousand states. The routes of a question carry its name, so an
answer that is taken for another one shows. MapLibre's `isStyleLoaded` may say
no at any time. `AnsweredInTheEnd` needs that effects run (`Ask`) and that the
orchestrator answers or the fetch fails (`RouteAnswer`). Deadlock checking is
off because the operator may do nothing.

Proofs (`MapPanelsProofs`), for any questions, places and texts:
`RouteAnswersQuestionHolds`, `NoLineLeftBehindHolds`, `AddressIsOfPlaceHolds`,
`LateSuggestionNeverShownHolds`. The state falls into routes, card and box, and
`PanelsInv` has a part for each: an answer is to the question `asked`, and no
other question has a request that could still be answered (`AnswerIsOfAsked`,
`OnlyTheAskedWaits`); the lookups of the card are of its place
(`LookupsAreOfPlace`), the requests of the box of its text (`AsksAreOfText`).
`AnsweredInTheEnd` stays with TLC.

Two things the model shows and no property forbids: a stop whose place arrives
late goes into the directions as they were when it was picked, and a route
request whose abort comes while a refusal is being read tells its error to the
next question until that one's answer comes.

## 9. The stage: `HoloStage`

`HoloStage` extends `MapMode`: the same `view` and `stage`, and under them the
list of visualizations, the globes that share one camera, the selection and a
canvas that may lose its graphics context.

| Model | Code |
| --- | --- |
| `addVisualization`, `setVisualizations`, `clearVisualizations`, `settleVisualization` | the store's actions of these names |
| `Shown`, `Remounted` | the commit of a new list: holograms unmount and mount, the selection made in other company goes (`vizKey`) |
| `Frame`, `ZoomIn`, `ZoomOut`, `PushPastLimit`, `reset`, `FocusMarker` | `useGlobeInteraction` |
| `Pick`, `PointerMissed`, `release`, `toggleFocus`, `releaseFocus` | `usePick`, `useFocusRelease`, `focus.ts` |
| `ContextLost`, `Remount`, `OldGlobeGone`, `Created` | `Scene.tsx`: one remount per lost context |
| `MapMoves`, `StageUnchanged` | the map layer by itself, heard by the globes |

`stage` (module `MCHoloStage`): a globe, a chart and a map of one place, two
globes at most, one lost context, 722,000 states. The map has one request, a
place: which one is applied is `MapMode`'s matter, checked there with five of them
and proved for any set of them over the whole stage (`StageAppliesRequest`). `Keep` is 2 where the
store keeps 3: a list of two is the shortest in which a preview and a real entry
compete. Two globes are the least that share a camera. One loss is enough for
globes of two canvases to exist at once, in any order of cleanup. `real` is
history: the last visualizations that were no previews. Only safety is checked:
what the map has to do in the end is `MapMode`'s matter. Deadlock checking is
off because nothing has to happen.

Proofs (`HoloStageProofs`), for any specs and elements, any number of globes and
lost contexts and a list of any length (`MapAssumption`, `StageAssumption`):
`GlobeOwnsCameraHolds`, `CameraBackOutsideHolds`, `PreviewCostsNoSlotHolds`,
`FocusOnStageHolds`. `StageInv` adds to the four properties

* `MapInv` of the map above, whose steps are the only ones that move the view,
  and never from an open map to none (`ViewMoves`): the camera is called back
  when the map begins to leave, so it must not vanish without leaving;
* `CanvasInv`: the globes mounted are exactly those of the list, and the globes
  still to go carry the number of an older canvas. Counting holders down and up
  is right only because of it: nothing that mounts is among what is unmounted
  (`RemountedKeeps`);
* `PreviewOK`: what `PreviewCostsNoSlot` says, position by position, of the list
  itself. `AddedOK` proves it of a list to which a visualization is added, case
  by case of preview or not, full or not, pushed out or not.

The list without previews is written by positions (`Kept`, `Picked`), about which
`KeptAreFirst` counts; `NewIdIsNew` shows that a new globe's identifier is nobody's.

## 10. Reading an answer: `EventStream` and `Normalization`

The body of an answer is a sequence of tokens: CR, LF, and what stands on one
line. The network cuts it anywhere (`Read(n)`); `Split`, `NoMore` and `Flush`
are the loop of `sse.ts`, `parseFrame`, `unwrapEnvelope` and `parseFridayEvent`
keep their names, `Deliver` is one turn of the loop of `fridayClient.ts`.
`Break` comes at a read, `Abort` at any suspension point. What JSON a text parses to
is a constant.

`Normalization` has the functions of `normalization.ts`: the fields whose
entries refer to each other, numbers that are clamped or turned into a range,
the view and the route of a map; and those of `globe/geo.ts` that resolve a
route when it is drawn. A label is a sequence (a name and the numbers appended to
it), a number `<<n>>` or, where the code finds none, `<<>>`. Colours of single
points, units, status and the like are repaired alone and left out.

Lists are filtered and sorted by rank (`Where`, `InOrder`, `Picked`): the entry
at position r is the one with r - 1 before it. This says what `flatMap` and
`sort` compute without recursion, so that it can be proved about.

`Meaning` says what a whole body tells, with no buffer and no chunks: newlines
normalized once, frames that end at blank lines, what is left as one more, and
nothing after `done`. `StreamAssumption` says of the bodies that `meant` is that
meaning and that the server never writes two CR in a row, and of the
visualizations which fields they have (`IsSpec`). TLC evaluates it over the
bodies of the run, whose `meant` is listed event by event there.

`events`: 16 bodies (four mixes of frames, each with either newline, with and
without its last blank line), rendered from the events they mean, under every
cut; two of three data lines, envelopes of the right and a newer version, a
mismatched name, a list where an object is due, half an object, comments. Data
to normalize: graphs of up to three nodes with two links, two points with a
route by index, id or label, points on and beyond the edges of the globe, three
series with colliding labels, events, metrics, map views and routes, scale,
theme and position. 675,000 states. `MaxBuffer` is 14 tokens, shorter than some bodies,
so the drop of an oversized tail happens; `EventsAsSent` says nothing of a body
that was cut down, because the code gives that frame up on purpose. Deadlock
checking is off because a closed reading stops. No fairness: only safety.

Proofs (`EventStreamProofs`), for all bodies, JSON, limits and visualizations
that satisfy `StreamAssumption`:

* `ReadAsSent` (`EventsAsSent`). `StreamOK` says where the reading stands: there
  is a place p in the normalized body from which the buffer and the wire,
  normalized together, are the rest (`Ahead`), and what was given, followed by
  what is told from p on (`From`), is what was meant. Three facts carry it. A
  chunk moves nothing: normalizing the buffer before the next chunk joins it
  gives what normalizing both at once gives, wherever the cut is, between CR and
  LF too (`CrlfAcrossCut`); this needs that no CR follows a CR, for of "\r\r\n"
  a first pass would leave a new "\r\n" (`NoTwin`). A frame taken off the buffer
  is the next frame of the body (`NextFrame`), because a buffer that was
  normalized stays as it is (`Calm`) and its first blank line is the first one
  from p on. Without a blank line the rest is the last frame (`LastFrame`).
  `From` is the solution of the recursion in `Meaning`; that there is one is
  shown from the last token back (`AllRead`).
* `LinksStaySound` (`LinksJoinTheSameNodes`). What is shown is a visualization
  and its normal form (`ShownIsNormalized`), so the rest is about functions. Nodes
  keep their places (`NodesKept`), the links kept are those in range
  (`LinksAre`); the end of a route that names one drawn point resolves to the
  position it had (`EndStays`), since the operator's marker comes last.
* `StoredIsStable` (`NormalFormIsStable`). Each field has a lemma that says what
  is stored of it and one that says that storing it again changes nothing. For
  the labels of series: each is new among those before it (`FreshIsNew`, a
  pigeonhole count of the numbers tried), and labels that differ are kept
  (`DifferentStay`). For the events: the places in order of time, those at one
  time as they came, are a strict total order, whose list is unique
  (`OrderedIsListed`), and what is in order stays.

## 11. The device: `Device`

| Model | Code |
| --- | --- |
| `acquire`, `refreshIfStale`, `stopSharing`, `Fixed`, `FixFailed`, `FixAges` | `geolocation.ts` |
| `locate`, `Flown`, `MapCloses` | the map's button and its wish to fly to the operator |
| `startDeviceMonitor`, `stopActive`, `Settled`, `Rejected`, `StoragePoll` | `deviceMonitor.ts`: a closure per start, its listeners, its promises |
| `Tick`, `pushSample` | the sampler and `deviceHistory.ts` |
| `start`, `stop`, `loop`, `onVisibility`, `ReaderMounts`, `ReaderLeaves` | `telemetry.ts` |
| `Visibility` | one `visibilitychange`, heard by all of them |

`device`: a history of two, two position requests at once, two starts of the
monitor, three intervals, two readers; 1.8 million states. A second start is
what a late promise of the first can disturb, a third interval what pushes a
sample out, a second reader what keeps the loop when the first leaves. `seen` is
history. Readers are symmetric. The browser of the run has a geolocation API; one
without (`Geolocation = FALSE`: unavailable at once, no request) is the simpler
case, and the proofs are about both. No fairness: only safety is checked. Deadlock
checking is off because the bounded intervals get used up.

Proofs (`DeviceProofs`), for any history, number of requests, monitors and readers:
`PendingIsAskedHolds`, `HistoryIsTimeInViewHolds`, `OneLoopWhileReadHolds`,
`NeverSwitchedBackOnHolds`, `StoppedMeansStoppedHolds`. `DeviceInv` adds that
what listens belongs to the running monitor (`HeardIsRunning`) and that the loop
is on exactly while somebody reads and an idle one counts no frames
(`RunsWhileRead`). What the history holds is proved one sample at a time; that a
position request finds a free number is the pigeonhole fact `UnusedIsFree`.

## 12. How the modules compose

`RunStream` implements `RunPromise`. `HoloStage` extends `MapMode`, so its runs
interleave the map's protocol with the stage. `EventStream` extends
`Normalization`: what it stores of a visualization went through the operators.
`TurnClient` has a reduced server of its own, `MapPanels` and `Device` only
meet the rest of the page through the actions named above.

## 13. Bounds

Every bound is a CONSTANT with a comment that calls it one, or a real constant
of the code given a small value: `MAX_TURNS`, `MAX_REPLANS`,
`MAX_STORED_EVENTS`, `MAX_ROWS`, `CONSOLIDATE_*`, `MAX_PENDING`, `HISTORY_MAX`,
`MAX_BUFFER`, the store's three entries. They limit how often something
happens, never in which order. `TurnClient`'s microphone is bounded in its guards:
one recogniser at a time (`MicOn`), stopped by hand while a question is left
(`MicOff`); `SpeechPlayback` has several.

## 14. Where code and documents disagree

| Run | What it shows |
| --- | --- |
| `client_race` | the answer hold of an aborted turn runs out and moves the machine of the next turn (`agentStream.ts:345`) |
| `map_stuck` | a map that failed, opened again while it is leaving, stays in front with its message (`MapLayer.tsx:132`) |

Seen while modelling, without a run of their own:

* `routes.py:390`: a deadline that passes after the `done` frame streams budget
  frames, with a second `done`, behind it; a cancel that lands while budget
  frames go out leaves a wait that an approval can still grant.
* `routes.py:414`: an approved tool sends two running steps and counts twice
  against `max_tool_calls`; the pump runs ahead of the stream that counts.
* `agent.py:164`: a replan leaves the reason step of the refused pass running;
  the design document of the run model has it completed.
* `agentStream.ts:344`: a refused utterance leaves the machine in speaking.
  `agentStream.ts:295`: an aborted turn writes the message of an early end.
* `ttsPlayer.ts:112`: the hold is one flag, so a play aborted while its module
  loads gives up the hold of its successor. A play that times out before its
  first sample is silent, where the comment on `PLAY_TIMEOUT_MS` has it fall
  back to synthesis (`voice.ts:192` takes the time-out for an abort).
* `long_term.py:267`, `:297`, `:141`: a store call awaited by a cancelled turn is
  carried out by its thread and what follows the await never happens, so cache and
  table differ until the next restart without a warning (section 5). The docstrings
  at `:283` (delete from the store, then clear the cache) and `:129` (the cap holds
  in the cache and in the store) are not kept then.
* `InputBar.tsx:112`: "barge-in: talking over FRIDAY should stop it, not queue
  behind it" and `:116` "The button is disabled while busy, so this only fires
  from idle in practice". From a phrase to the first frame the machine is
  listening and the button enabled; the answer under way is not stopped and is
  read out over the microphone. A recogniser that ends without a phrase brings the
  machine to idle also while FRIDAY speaks.
* `MapLayer.tsx:151-179`: a place after a route leaves the directions open, over
  pins it does not show and with an answer that may still frame the route; the
  architecture document (`docs/ARCHITECTURE.md:427`) has a map spec "re-aim" the
  map, the map's design document (`:197`) an open map fly to it.
* `long_term.py:136`: eviction sorts by a time that recalls refresh in the table
  only. `long_term.py:265`: a superseded fact is deleted before its replacement
  is inserted. `store.py:150`: an approval is read and deleted in two commands.
* `geolocation.ts:46-48`: of two first requests, one that times out after the
  other was answered discards a good position.
* `telemetry.ts:89-98`: frames counted before the page was hidden count into the
  first window after it, and a loop started while hidden times its first window
  from before.
* `normalization.ts:162`: a fallback id can equal an id that was sent; `:183`: a
  point without an id takes its label, which can be the id of another; the
  operator's marker is `you` (`operator.ts:11`), which a route may mean otherwise.
  `LinksJoinTheSameNodes` therefore speaks of ends that name one point. `:173`: a
  longitude below -540 comes out below -180, since the remainder keeps its sign;
  `NormalFormIsStable` names it and leaves it out.
* `clientContext.ts:82`: a storage quota under 50 kB is sent as 0 MB, which the
  orchestrator refuses together with the whole context (`api/schemas.py:32`).
* `rendererBackend.ts:52`: the adapter is cached before its fallback flag is
  known, so a canvas created meanwhile can be taken for hardware.
* `DirectionsPanel.tsx:220`, `MapSearch.tsx:93`: a late pick goes into the
  directions as they were. `MapLayer.tsx:300-307`: the wish to fly to the
  operator survives a refusal. `mapApi.ts:276`: an abort while a refusal is read
  is told as an error.

## 15. Plan

Written so far, in this order: `RunStream` with its proofs, `TurnClient`,
`LongTermMemory`, `SpeechPlayback`, `MapMode`, `HoloStage`,
`MapPanels`, `EventStream` with `Normalization`, `Device`; then the proofs of all of
them. Next:

1. `Admission`: sliding windows, capped callers; reference: the set of hit
   times. `SessionMemory`: capped sessions under overlapping turns. `SharedStore`:
   approvals taken by two workers.
2. `AgentRules`: policy, evidence, verification, planner pinning, memory rules
   and the sandbox path rule as operators, checked against reference definitions
   over bounded inputs; the layout resolver likewise.
3. A composition of `TurnClient` with `RunPromise` in place of its reduced
   server.

A theorem worth proving next: for `Admission`, that no window holds more than
its cap.

## 16. Not modelled

Drawing (charts, primitives, materials, effects, HUD layout), the globe's
rotation and easing, the decay of a push past its limit, tiles and markers,
routing profiles and traffic, what a device reading says, the choice of the renderer backend, the layout resolver,
the offline planner's texts and the client context, page shell and headers,
configuration parsing, the bodies of network tools, embeddings and scoring,
wording of prompts and answers, logging, metrics. They are I/O, display or data
without a decision another part depends on. Admission, session memory, the
shared store and the agent's rules do decide; they are next in the plan.
Liveness under fairness and ENABLED stay with TLC: the installed provers do not
reach them. These are
`RunEnds`, `DeadlineEndsSilence`, `InputComesBack`, `AbortedUnwinds`,
`TransitionsEnd` and `AnsweredInTheEnd`. Every other property of a passing run is
a theorem.
