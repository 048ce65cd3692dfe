------------------------------ MODULE TurnClient ------------------------------
(***************************************************************************)
(* The browser's side of a turn: runQuery and tryResume                    *)
(* (lib/agentStream.ts), the fetch and replay client                       *)
(* (lib/api/fridayClient.ts), the stream guard (lib/agent/streamGuard.ts), *)
(* the guarded state machine (lib/agent/stateMachine.ts, lib/store.ts) and *)
(* the two components an operator acts through (InputBar, ConfirmPrompt).  *)
(*                                                                         *)
(* Turns overlap: a phrase that ends, or a question after Escape, starts a *)
(* turn while an older runQuery is still suspended, and all of them write  *)
(* one store.  JavaScript runs one callback at a time and the rejections   *)
(* an abort causes run before the next callback, so an action is the code  *)
(* between two awaits and Quiet holds back everything else while an        *)
(* aborted turn still has to unwind.                                       *)
(*                                                                         *)
(* Left out: what the HUD only shows (answer text, visualizations, tool    *)
(* and step lines, memories, live mode), frames without an envelope, and   *)
(* the states the server passes through without a decision (processing,    *)
(* visualizing).                                                           *)
(***************************************************************************)
EXTENDS Integers, Sequences, FiniteSets, SequencesExt

CONSTANTS
  MaxTurns,     \* bound: questions asked
  MaxAsks,      \* bound: approval requests in one run
  MaxSent       \* bound: decisions on their way at once

ASSUME BoundsAssumption ==
  /\ MaxTurns \in Nat \ {0}
  /\ MaxAsks \in Nat
  /\ MaxSent \in Nat \ {0}

Turns == 1..MaxTurns
None == 0                        \* no turn, no run, no message

TRANSITIONS ==
  [idle           |-> {"listening", "thinking", "warning", "error"},
   listening      |-> {"thinking", "idle", "warning", "error"},
   thinking       |-> {"searching", "tool_execution", "processing",
                       "visualizing", "speaking", "warning", "error"},
   searching      |-> {"processing", "tool_execution", "visualizing",
                       "speaking", "warning", "error"},
   processing     |-> {"visualizing", "tool_execution", "speaking", "warning",
                       "error"},
   tool_execution |-> {"processing", "visualizing", "speaking", "warning",
                       "error"},
   visualizing    |-> {"speaking", "processing", "idle", "warning", "error"},
   speaking       |-> {"idle", "listening", "warning", "error"},
   warning        |-> {"idle", "speaking", "error"},
   error          |-> {"idle"}]

\* A frame of a run: a state announcement, or an event; a confirm carries
\* the number of its request in the run.
State(s) == [ev |-> "state", to |-> s, id |-> 0]
Event(e) == [ev |-> e, to |-> "", id |-> 0]
Confirm(i) == [ev |-> "confirm", to |-> "", id |-> i]
Done == Event("done")

NoPrompt == [turn |-> None, id |-> 0]

VARIABLES
  \* the store
  ui,           \* state, pendingConfirm and the turn whose message is sessionError
  \* InputBar
  mic,          \* "on": a recogniser runs (stopRef), "stopped": the button
                \* stopped it and its end is to come
  turnRef,      \* the turn whose AbortController turnRef holds
  \* agentStream's module variables
  publisher,    \* the turn whose token equals activeTurn, None after a cancel
  activeRunId,  \* the run a cancel would stop; run ids are turn numbers
  turn,         \* the runQuery calls
  \* ConfirmPrompt
  outbox,       \* decisions on their way to POST /confirm and back
  \* the orchestrator, as far as a client sees it
  run

page   == <<mic, turnRef, publisher, activeRunId>>
vars   == <<ui, page, turn, outbox, run>>

Unused == [pc |-> "unused", aborted |-> FALSE, voice |-> FALSE, seen |-> 0,
           doneSeen |-> FALSE, spoken |-> FALSE, applied |-> 0, stage |-> 0]
NoRun == [log |-> <<>>, over |-> FALSE, verdict |-> "none", stopped |-> FALSE]

Init ==
  /\ ui = [state |-> "idle", prompt |-> NoPrompt, error |-> None]
  /\ mic = "off" /\ turnRef = None /\ publisher = None /\ activeRunId = None
  /\ turn = [t \in Turns |-> Unused]
  /\ outbox = {}
  /\ run = [t \in Turns |-> NoRun]

------------------------------------------------------------------------------
(* The store and the guard.                                                   *)

canTransition(from, to) == to \in TRANSITIONS[from]

transition(u, s) ==
  [u EXCEPT !.state = IF canTransition(@, s) THEN s ELSE @]

endTurn(u) == [u EXCEPT !.state = "idle"]

\* What a frame of turn t does to the store.
dispatch(u, t, f) ==
  CASE f.ev = "state"   -> transition(u, f.to)
    [] f.ev = "confirm" -> [u EXCEPT !.prompt = [turn |-> t, id |-> f.id]]
    [] f.ev = "error"   -> [u EXCEPT !.error = t]
    [] OTHER            -> u

\* What the frames of a replay do to it, one after the other.
dispatchAll(u, t, fs) ==
  LET after[n \in 0..Len(fs)] ==
        IF n = 0 THEN u ELSE dispatch(after[n - 1], t, fs[n])
  IN  after[Len(fs)]

\* How the turn's report of a failure reaches the store.
endTurnWithError(u, t) == endTurn([u EXCEPT !.error = t])

\* observe without the test for a repeated sequence number
observeSlip(last, s) == s >= last

\* The guard lets a frame through when its sequence is beyond the last one
\* seen; a repeated or an older one is dropped as duplicate or stale.
observe(last, s) == s > last

Latest(t) == publisher = t
Aborted(t) == turn[t].aborted

\* stopSpeaking aborts the utterance of whoever is speaking.
Hush(ts) ==
  [t \in Turns |-> IF ts[t].pc = "speak" THEN [ts[t] EXCEPT !.pc = "hushed"]
                   ELSE ts[t]]

\* An abort reaches every await but the typed answer's hold, which was never
\* given the signal; a rejection unwinds before the next callback.
Unwinding(t) ==
  \/ turn[t].pc = "hushed"
  \/ Aborted(t) /\ turn[t].pc \in {"fetch", "stream", "resume", "local"}
  \/ Aborted(t) /\ turn[t].pc = "hold" /\ turn[t].stage = 6

Quiet == \A t \in Turns : ~Unwinding(t)

Busy == ui.state \notin {"idle", "listening"}

------------------------------------------------------------------------------
(* The operator: InputBar.                                                    *)

NextTurn ==
  {n \in Turns : turn[n].pc = "unused"
                 /\ \A k \in 1..(n - 1) : turn[k].pc # "unused"}

\* Aborting the controller of a call that returned reaches nobody.
abortOf(ts) ==
  IF turnRef = None \/ turn[turnRef].pc \in {"ended", "rejected"} THEN ts
  ELSE [ts EXCEPT ![turnRef].aborted = TRUE]

\* runQuery without the reset of the run id of the turn before
AskSlip(voice) ==
  \E n \in NextTurn :
    /\ turn' = [Hush(abortOf(turn)) EXCEPT ![n].pc = "fetch", ![n].voice = voice]
    /\ turnRef' = n /\ publisher' = n
    /\ ui' = [ui EXCEPT !.prompt = NoPrompt, !.error = None]
    /\ UNCHANGED <<activeRunId, outbox, run>>

\* runQuery without the reset of the prompt
AskOverPromptSlip(voice) ==
  \E n \in NextTurn :
    /\ turn' = [Hush(abortOf(turn)) EXCEPT ![n].pc = "fetch", ![n].voice = voice]
    /\ turnRef' = n /\ publisher' = n /\ activeRunId' = None
    /\ ui' = [ui EXCEPT !.error = None]
    /\ UNCHANGED <<outbox, run>>

\* ask and runQuery up to its fetch: abort the turn before, clear what the
\* HUD shows of it, take the token, forget the run id.  The state machine is
\* left where it is.
Ask(voice) ==
  \E n \in NextTurn :
    /\ turn' = [Hush(abortOf(turn)) EXCEPT ![n].pc = "fetch", ![n].voice = voice]
    /\ turnRef' = n /\ publisher' = n /\ activeRunId' = None
    /\ ui' = [ui EXCEPT !.prompt = NoPrompt, !.error = None]
    /\ UNCHANGED <<outbox, run>>

Type == Quiet /\ ~Busy /\ Ask(FALSE) /\ UNCHANGED mic

\* The button of a browser that has a recogniser.
MicEnabled == ~Busy

\* One recogniser at a time: SpeechPlayback has the press that comes before the
\* end of the one before.
MicOn ==
  /\ Quiet /\ MicEnabled /\ mic = "off"
  /\ mic' = "on"
  /\ ui' = transition(ui, "listening")
  /\ turn' = Hush(turn)
  /\ UNCHANGED <<turnRef, publisher, activeRunId, outbox, run>>

\* The button stops the recogniser; the machine waits for its end.  Bound: it
\* is pressed while a question is left to ask.
MicOff ==
  /\ Quiet /\ MicEnabled /\ mic = "on" /\ NextTurn # {}
  /\ mic' = "stopped"
  /\ UNCHANGED <<ui, turnRef, publisher, activeRunId, turn, outbox, run>>

\* The final transcript starts a turn whatever the machine is doing.
Phrase == Quiet /\ mic = "on" /\ Ask(TRUE) /\ mic' = "off"

\* onEnd of a recogniser that delivered no phrase asks for idle.
RecogniserEnds ==
  /\ Quiet /\ mic # "off"
  /\ mic' = "off"
  /\ ui' = transition(ui, "idle")
  /\ UNCHANGED <<turnRef, publisher, activeRunId, turn, outbox, run>>

\* POST /runs/{id}/cancel: what is asked of the server; a lost request
\* stops nothing and breaks nothing here.
cancelRun(id) == [run EXCEPT ![id].stopped = TRUE]

\* Spend the token, forget the run id, and stop the run it named.
cancelActiveRun ==
  /\ publisher' = None /\ activeRunId' = None
  /\ run' = IF activeRunId = None THEN run ELSE cancelRun(activeRunId)

\* Escape, which an open prompt keeps to itself.
Cancel ==
  /\ Quiet /\ ui.prompt = NoPrompt /\ turnRef # None
  /\ turn' = Hush(abortOf(turn))
  /\ turnRef' = None
  /\ cancelActiveRun
  /\ ui' = endTurn(ui)
  /\ UNCHANGED <<mic, outbox>>

------------------------------------------------------------------------------
(* The operator: ConfirmPrompt.                                               *)

\* Both buttons are disabled while an answer is on its way.
Sending == \E d \in outbox : d.button

\* The body of POST /confirm: the request the prompt shows and the answer.
confirmDecision(approved, button) ==
  [on |-> ui.prompt, ok |-> approved, button |-> button, at |-> "sent"]

Send(approved, button) ==
  /\ Cardinality(outbox) < MaxSent
  /\ outbox' = outbox \cup {confirmDecision(approved, button)}

\* DENY or APPROVE: the prompt waits for the delivery.
AnswerPrompt(approved) ==
  /\ Quiet /\ ui.prompt # NoPrompt /\ ~Sending
  /\ Send(approved, TRUE)
  /\ UNCHANGED <<ui, page, turn, run>>

\* Escape: a refusal that does not wait.
DenyByEscape ==
  /\ Quiet /\ ui.prompt # NoPrompt
  /\ Send(FALSE, FALSE)
  /\ ui' = [ui EXCEPT !.prompt = NoPrompt]
  /\ UNCHANGED <<page, turn, run>>

\* POST /confirm returned: a delivered decision clears the prompt, whichever
\* request it shows by now; a failed delivery leaves it up.
DecisionReturns(d) ==
  /\ Quiet /\ d.at \in {"taken", "gone"}
  /\ outbox' = outbox \ {d}
  /\ ui' = IF d.button /\ d.at = "taken" THEN [ui EXCEPT !.prompt = NoPrompt]
           ELSE ui
  /\ UNCHANGED <<page, turn, run>>

------------------------------------------------------------------------------
(* runQuery: the stream.                                                      *)

pcTo(t, p) == turn' = [turn EXCEPT ![t].pc = p]

\* runQuery returns or rejects: its locals are gone, its run is nobody's.
leave(t, p, r) ==
  /\ turn' = [turn EXCEPT ![t] = [Unused EXCEPT !.pc = p, !.doneSeen = r.doneSeen]]
  /\ run' = [run EXCEPT ![t] = [NoRun EXCEPT !.stopped = run[t].stopped]]

\* The response is here; the run behind it opens with thinking.
Fetched(t) ==
  /\ Quiet /\ turn[t].pc = "fetch"
  /\ pcTo(t, "stream")
  /\ run' = [run EXCEPT ![t].log = <<State("thinking")>>]
  /\ UNCHANGED <<ui, page, outbox>>

\* 403 or 429: the orchestrator said no, and no canned answer replaces it.
Refused(t) ==
  /\ Quiet /\ turn[t].pc = "fetch"
  /\ leave(t, "ended", turn[t]) /\ ui' = endTurnWithError(ui, t)
  /\ UNCHANGED <<page, outbox>>

hadLiveStream(t) == turn[t].seen > 0

\* No connection, no usable response, or a stream that dies or ends before
\* its first frame: the offline planner answers.
Unreachable(t) ==
  /\ Quiet
  /\ turn[t].pc = "fetch" \/ (turn[t].pc = "stream" /\ ~hadLiveStream(t))
  /\ pcTo(t, "local")
  /\ UNCHANGED <<ui, page, outbox, run>>

\* The end of a turn that was answered: hold the answer, read it out, or go
\* straight to the tail when there is nothing to hold.
Held(r) == IF r.voice THEN "speak" ELSE "hold"

tail(u) == [endTurn(u) EXCEPT !.prompt = NoPrompt]

\* The next frame, or one already seen: a retry on the way may repeat it.
Receive(t, s) ==
  /\ Quiet /\ turn[t].pc = "stream" /\ s <= Len(run[t].log)
  /\ observe(turn[t].seen, s)
  /\ LET f == run[t].log[s]
         r == [turn[t] EXCEPT !.seen = s, !.applied = @ + 1,
                              !.doneSeen = @ \/ f = Done,
                              !.spoken = @ \/ f.ev = "answer"]
     IN
     /\ activeRunId' = IF ~Latest(t) THEN activeRunId
                       ELSE IF f = Done THEN None ELSE t
     /\ IF f = Done /\ ~r.spoken THEN leave(t, "ended", r) /\ ui' = tail(ui)
        ELSE /\ turn' = [turn EXCEPT ![t] =
                  IF f = Done THEN [r EXCEPT !.pc = Held(r)] ELSE r]
             /\ ui' = dispatch(ui, t, f)
             /\ UNCHANGED run
  /\ UNCHANGED <<mic, turnRef, publisher, outbox>>

\* the branch as it was before it landed the machine
EndedEarlySlip(t) ==
  /\ Quiet /\ turn[t].pc = "stream" /\ hadLiveStream(t)
  /\ run[t].over /\ turn[t].seen = Len(run[t].log)
  /\ leave(t, "ended", turn[t]) /\ ui' = [ui EXCEPT !.error = t]
  /\ UNCHANGED <<page, outbox>>

\* The server closed the response without a done.
EndedEarly(t) ==
  /\ Quiet /\ turn[t].pc = "stream" /\ hadLiveStream(t)
  /\ run[t].over /\ turn[t].seen = Len(run[t].log)
  /\ leave(t, "ended", turn[t]) /\ ui' = endTurnWithError(ui, t)
  /\ UNCHANGED <<page, outbox>>

\* The connection broke after the first frame.
Interrupted(t) ==
  /\ Quiet /\ turn[t].pc = "stream" /\ hadLiveStream(t)
  /\ pcTo(t, "resume")
  /\ UNCHANGED <<ui, page, outbox, run>>

\* streamQuery swallows the abort and returns.  Before the first frame that
\* is an empty stream, an error the aborted signal silences; after it the
\* turn takes the branch for a stream without done.  A replay that was
\* aborted comes back incomplete and takes the branch for an interruption.
StreamUnwinds(t) ==
  /\ Aborted(t) /\ turn[t].pc \in {"fetch", "stream", "resume"}
  /\ leave(t, "ended", turn[t])
  /\ ui' = IF hadLiveStream(t) THEN endTurnWithError(ui, t) ELSE ui
  /\ UNCHANGED <<page, outbox>>

------------------------------------------------------------------------------
(* runQuery: the replay.                                                      *)

\* GET /runs/{id}/events?after_sequence=seen
Replay(t) == SubSeq(run[t].log, turn[t].seen + 1, Len(run[t].log))

\* the replay taken for complete without the done frame
CompletesSlip(t, terminal) == terminal

Completes(t, terminal) ==
  terminal /\ (\E n \in 1..Len(Replay(t)) : Replay(t)[n] = Done)

\* The replay arrives.  Its frames go through the guard and into the store;
\* it completes the turn only when the run is terminal and done was in it.
Replayed(t, terminal) ==
  /\ Quiet /\ turn[t].pc = "resume" /\ activeRunId = t
  /\ terminal => run[t].over
  /\ LET fs == Replay(t)
         ends == \E n \in 1..Len(fs) : fs[n] = Done
         said == \E n \in 1..Len(fs) : fs[n].ev = "answer"
         r == [turn[t] EXCEPT !.seen = Len(run[t].log), !.applied = @ + Len(fs),
                              !.doneSeen = ends, !.spoken = @ \/ said]
         after == dispatchAll(ui, t, fs)
         held == Completes(t, terminal) /\ r.spoken
     IN
     /\ IF held THEN turn' = [turn EXCEPT ![t] = [r EXCEPT !.pc = Held(r)]]
                    /\ UNCHANGED run
        ELSE leave(t, "ended", r)
     /\ ui' = IF held THEN after
              ELSE IF Completes(t, terminal) THEN tail(after)
              ELSE endTurnWithError(after, t)
     /\ activeRunId' = IF ends THEN None ELSE activeRunId
  /\ UNCHANGED <<mic, turnRef, publisher, outbox>>

\* No run id, no network, or a run the server no longer knows.
ReplayFails(t) ==
  /\ Quiet /\ turn[t].pc = "resume"
  /\ leave(t, "ended", turn[t]) /\ ui' = endTurnWithError(ui, t)
  /\ UNCHANGED <<page, outbox>>

------------------------------------------------------------------------------
(* runQuery: the hold and the tail.                                           *)

\* The timer of a typed answer, the end of a spoken one, or the silence of
\* an interrupted one.  Nothing asks whether the turn is still the latest.
HoldEnds(t) ==
  /\ \/ Quiet /\ turn[t].pc \in {"hold", "speak"}
     \/ turn[t].pc = "hushed"
  /\ IF turn[t].stage = 0 THEN ui' = tail(ui)
     ELSE ui' = IF Aborted(t) THEN ui ELSE endTurn(ui)
  /\ leave(t, "ended", turn[t])
  /\ UNCHANGED <<page, outbox>>

\* POST /tts says 403 or 429: the error is nobody's, runQuery rejects, and
\* its caller does not look.
SpeechRefused(t) ==
  /\ Quiet /\ turn[t].pc = "speak"
  /\ leave(t, "rejected", turn[t])
  /\ UNCHANGED <<ui, page, outbox>>

------------------------------------------------------------------------------
(* runLocal: the scripted flow of the offline demo.                           *)

LocalStages == <<"thinking", "searching", "tool_execution", "processing",
                 "visualizing", "speaking">>

LocalStep(t) ==
  /\ Quiet /\ turn[t].pc = "local"
  /\ LET k == turn[t].stage + 1 IN
     /\ ui' = transition(ui, LocalStages[k])
     /\ turn' = [turn EXCEPT ![t].stage = k,
                             ![t].pc = IF k = 6 THEN Held(turn[t]) ELSE @]
  /\ UNCHANGED <<page, outbox, run>>

LocalUnwinds(t) ==
  /\ Aborted(t)
  /\ turn[t].pc = "local" \/ (turn[t].pc = "hold" /\ turn[t].stage = 6)
  /\ leave(t, "ended", turn[t])
  /\ UNCHANGED <<ui, page, outbox>>

------------------------------------------------------------------------------
(* The orchestrator, reduced to what a client can tell: the frames of a run   *)
(* in their order, the block on a request, the end.                           *)

Asked(t) == Len(SelectSeq(run[t].log, LAMBDA f : f.ev = "confirm"))

NextFrames(t) ==
  LET f == Last(run[t].log) IN
    CASE f.ev = "confirm" ->
           {IF run[t].verdict = "granted" THEN State("tool_execution")
            ELSE Event("denied")}
      [] f = State("speaking") -> {Event("answer")}
      [] f.ev = "error" -> {State("error")}
      [] f.ev = "answer" \/ f = State("error") -> {Done}
      [] f = Done -> {}
      [] OTHER -> {State("speaking"), Event("error")}
                  \cup {Confirm(i) : i \in {Asked(t) + 1} \cap 1..MaxAsks}

\* A request unanswered for confirm_timeout_s is denied like a refused one.
\* What a run publishes when its client neither reads nor replays is nothing
\* to this model.
Publish(t) ==
  /\ Quiet /\ turn[t].pc \in {"stream", "resume"} /\ ~run[t].over
  /\ \E f \in NextFrames(t) :
       run' = [run EXCEPT ![t].log = Append(@, f), ![t].verdict = "none"]
  /\ UNCHANGED <<ui, page, turn, outbox>>

\* The run ends: after done, or before it when the owner cancels the run from
\* anywhere or the server lost its client.
RunOver(t) ==
  /\ Quiet /\ turn[t].pc \in {"stream", "resume"} /\ ~run[t].over
  /\ run' = [run EXCEPT ![t].over = TRUE]
  /\ UNCHANGED <<ui, page, turn, outbox>>

\* POST /confirm: taken by a request that still waits, gone otherwise; which
\* of the two a request of an abandoned run meets depends on the server.
Waits(p) ==
  /\ ~run[p.turn].over /\ run[p.turn].verdict = "none"
  /\ Last(run[p.turn].log) = Confirm(p.id)

DecisionLands(d) ==
  /\ Quiet /\ d.at = "sent"
  /\ LET t == d.on.turn
         followed == run[t].log # <<>>
         left(at) == (outbox \ {d}) \cup
                       (IF d.button THEN {[d EXCEPT !.at = at]} ELSE {})
     IN
     IF followed /\ Waits(d.on)
     THEN /\ outbox' = left("taken")
          /\ run' = [run EXCEPT ![t].verdict = IF d.ok THEN "granted" ELSE "denied"]
     ELSE /\ \E at \in IF followed THEN {"gone"} ELSE {"taken", "gone"} :
               outbox' = left(at)
          /\ UNCHANGED run
  /\ UNCHANGED <<ui, page, turn>>

------------------------------------------------------------------------------
Operator ==
  \/ Type \/ MicOn \/ MicOff \/ Cancel \/ DenyByEscape
  \/ \E approved \in BOOLEAN : AnswerPrompt(approved)

Recogniser == Phrase \/ RecogniserEnds

Browser(t) ==
  \/ Fetched(t) \/ Refused(t) \/ Unreachable(t)
  \/ (\E s \in 1..Len(run[t].log) : s <= turn[t].seen + 1 /\ Receive(t, s))
  \/ EndedEarly(t) \/ Interrupted(t) \/ StreamUnwinds(t)
  \/ (\E terminal \in BOOLEAN : Replayed(t, terminal)) \/ ReplayFails(t)
  \/ HoldEnds(t) \/ SpeechRefused(t) \/ LocalStep(t) \/ LocalUnwinds(t)

Server(t) == Publish(t) \/ RunOver(t)

Delivery == \E d \in outbox : DecisionLands(d) \/ DecisionReturns(d)

Next ==
  Operator \/ Recogniser \/ Delivery \/ \E t \in Turns : Browser(t) \/ Server(t)

Spec == Init /\ [][Next]_vars

\* Fairness.  The browser delivers what has arrived, fires its timers and
\* unwinds what was aborted; the server keeps publishing, because its model
\* calls and its approval wait have timeouts.  That an utterance ends is
\* assumed of the speech service and the worklet: the limit in ttsPlayer is
\* tested only when one of them wakes it, so a body that stalls is outlasted
\* by Escape alone.  Failures, the microphone and the operator owe nothing.
Progress(t) ==
  \/ Fetched(t) \/ (\E s \in 1..Len(run[t].log) : Receive(t, s))
  \/ EndedEarly(t) \/ StreamUnwinds(t)
  \/ (\E terminal \in BOOLEAN : Replayed(t, terminal))
  \/ HoldEnds(t) \/ LocalStep(t) \/ LocalUnwinds(t)

FairSpec ==
  Spec /\ \A t \in Turns : WF_vars(Progress(t)) /\ WF_vars(Server(t))

------------------------------------------------------------------------------
(* Properties.                                                                *)

\* Live or replayed, repeated on the way or not, the frames of a run reach
\* the store in order, each exactly once (streamGuard.ts observe, tryResume).
EveryFrameOnce == \A t \in Turns : turn[t].applied = turn[t].seen

\* A turn nobody aborted does not end in silence: its done arrived, or the
\* operator was told, or the offline planner played to its end
\* (agentStream.ts runQuery, all its returns).
EndsAreTold ==
  [][\A t \in Turns :
       turn'[t].pc = "ended" /\ turn[t].pc # "ended" /\ ~Aborted(t) =>
         turn'[t].doneSeen \/ ui'.error = t \/ turn[t].stage = 6]_vars

\* Escape stops the server run of the turn it ends and never the run of
\* another one, however turns and late frames overlapped before
\* (agentStream.ts activeRunId, cancelActiveRun).
CancelStopsItsOwn ==
  [][\A t \in Turns : run'[t].stopped /\ ~run[t].stopped => t = turnRef]_vars

\* A prompt on the screen asks for the turn in flight: the operator is never
\* shown a request of a turn that was replaced (store pendingConfirm).
PromptOfLatest == ui.prompt # NoPrompt => ui.prompt.turn = turnRef

\* The input bar comes back: whatever dies, is aborted or overlaps, the
\* machine leaves the states that disable the input, unless the speech
\* service refused to read an answer (store.ts endTurn, agentStream.ts runQuery).
\* A speech service that answers and then stalls is assumed away (FairSpec).
SpeechWasRefused == \E t \in Turns : turn[t].pc = "rejected"

InputComesBack == Busy ~> ~Busy \/ SpeechWasRefused

------------------------------------------------------------------------------
(* What the documents say and the code does not do.                           *)

\* docs/ARCHITECTURE.md:102 -- "a race between two async producers can never
\* corrupt the pipeline": once frames of the latest turn drive the machine,
\* an aborted turn does not move it.
RaceNeverCorrupts ==
  [][\A t \in Turns :
       Aborted(t) /\ turn'[t].pc # turn[t].pc /\ turnRef # None
       /\ hadLiveStream(turnRef) => ui'.state = ui.state]_vars

=============================================================================
