---------------------------- MODULE SpeechPlayback ----------------------------
(***************************************************************************)
(* Speech out and speech in, sharing one audio context: speak and          *)
(* stopSpeaking (lib/voice.ts), the /tts client (lib/api/ttsClient.ts),    *)
(* the player and its worklet (lib/ttsPlayer.ts, tts-worklet.js), the      *)
(* audio bus (lib/audioBus.ts), the cues that wake the context             *)
(* (lib/uiSound.ts) and the microphone button (hud/InputBar.tsx).          *)
(*                                                                         *)
(* An action is the code between two awaits.  Control messages to the      *)
(* context (resume, suspend), messages of the worklet, device prompts and  *)
(* the end event of a recogniser take effect later than they are asked     *)
(* for.  The continuations of one resume run before any other callback     *)
(* (Settled).                                                              *)
(*                                                                         *)
(* A chunk of samples is one unit.  Left out: levels and progress for the  *)
(* HUD, browsers without Web Audio or speech synthesis, typed questions    *)
(* (they speak nothing), interim transcripts.  Of the state machine only   *)
(* what the microphone reads of it is kept (machine); what it goes through *)
(* is TurnClient's matter.                                                 *)
(***************************************************************************)
EXTENDS Integers, FiniteSets

CONSTANTS
  MaxSpeaks,    \* bound: voice turns
  MaxPresses,   \* bound: times the microphone is opened
  MaxChunks,    \* bound: chunks in the body of one utterance
  MaxPending    \* MAX_PENDING, in chunks

ASSUME SpeechAssumption ==
  {MaxSpeaks, MaxPresses, MaxChunks, MaxPending} \subseteq Nat

Utterances == 1..MaxSpeaks
Attaches == 1..MaxPresses
None == 0

VARIABLES
  utt,      \* the voice turns and their speak calls
  turnRef,  \* the turn Escape would abort
  machine,  \* the state of the store, see Machine
  ctrl,     \* speakController: the utterance it belongs to
  player,   \* the fields of the one TtsPlayer
  engine,   \* the utterance speechSynthesis is reading
  ctx,      \* the shared context: its state, and what it was asked to become
  mic,      \* stopRef is set, micGeneration, the recognisers, see Init
  attach    \* the attachMic calls and the device stream of each

vars == <<utt, turnRef, machine, ctrl, player, engine, ctx, mic, attach>>

\* The state machine: "speaking" stands for the states with an edge to idle
\* (visualizing, speaking, warning, error), "thinking" for those with none.
Machine == {"idle", "listening", "thinking", "speaking"}

\* A turn before its speak call: no frame of it has come yet, or some have.
Waiting == {"asked", "answering"}

\* Where a speak call is.  "resumed": its context has just been resumed.
Playing == {"resume", "resumed", "module", "body", "parked", "drain"}
Speaking == {"fetch", "synth"} \cup Playing

\* fed, pending: chunks posted to the worklet, and not reported consumed yet;
\* queue, reports: chunks in the worklet, consumed messages on their way.
Unused == [pc |-> "unused", signal |-> FALSE, known |-> FALSE,
           fed |-> 0, pending |-> 0, queue |-> 0, reports |-> 0,
           out |-> ""]

Init ==
  /\ utt = [u \in Utterances |-> Unused]
  /\ turnRef = None /\ ctrl = None /\ engine = None /\ machine = "idle"
  /\ player = [owner |-> None, graph |-> None, held |-> FALSE, ready |-> None,
               frames |-> 0, played |-> 0]
  /\ ctx = [state |-> "suspended", ask |-> ""]
  \* running: recognisers that listen; stopped, heard: those the button ended,
  \* or that delivered a phrase, whose end event is still to come; over: the
  \* last turn to begin reading since the microphone was opened (a history).
  /\ mic = [stop |-> FALSE, owner |-> None, running |-> 0, stopped |-> 0,
            heard |-> 0, over |-> None]
  /\ attach = [a \in Attaches |-> "unused"]

\* Continuations of a resume run before anything else.
Settled == /\ \A u \in Utterances : utt[u].pc # "resumed"
           /\ \A a \in Attaches : attach[a] # "resumed"

-------------------------------------------------------------------------------
(* The context and the holds on it (audioBus.ts).                            *)

isMicAttached == \E a \in Attaches : attach[a] = "attached"

resume(c) == IF c.state = "suspended" THEN [c EXCEPT !.ask = "resume"] ELSE c
suspend(c) == IF c.state = "running" THEN [c EXCEPT !.ask = "suspend"] ELSE c

\* releaseTtsPlayback, called by unholdTts when the player holds.
releaseTtsPlayback(held, c) ==
  IF held /\ ~isMicAttached THEN suspend(c) ELSE c

\* A sound of the HUD: a blip wakes a sleeping context.
Cue ==
  /\ Settled /\ ctx.state = "suspended" /\ ctx.ask = ""
  /\ ctx' = resume(ctx)
  /\ UNCHANGED <<utt, turnRef, machine, ctrl, player, engine, mic, attach>>

SuspendLands ==
  /\ Settled /\ ctx.ask = "suspend"
  /\ ctx' = [state |-> "suspended", ask |-> ""]
  /\ UNCHANGED <<utt, turnRef, machine, ctrl, player, engine, mic, attach>>

\* All promises of resume are resolved in one task.
ResumeLands ==
  /\ Settled /\ ctx.ask = "resume"
  /\ ctx' = [state |-> "running", ask |-> ""]
  /\ utt' = [u \in Utterances |->
       IF utt[u].pc = "resume" THEN [utt[u] EXCEPT !.pc = "resumed"] ELSE utt[u]]
  /\ attach' = [a \in Attaches |->
       IF attach[a] = "resume" THEN "resumed"
       ELSE attach[a]]
  /\ UNCHANGED <<turnRef, machine, ctrl, player, engine, mic>>

-------------------------------------------------------------------------------
(* The player's stop, and voice.ts around it.                                *)

\* Slip: a play parked for backpressure is left asleep.
stopSlip(p) ==
  [p EXCEPT !.owner = None, !.graph = None, !.held = FALSE]

stop(p) ==
  [p EXCEPT !.owner = None, !.graph = None, !.ready = None, !.held = FALSE]

\* The abort listener is there from the graph to the end of play.
Listens(u) == u # None /\ utt[u].pc \in {"body", "parked", "drain"}

\* Slip: the browser's own engine reads on.
stopSpeakingSlip(us) ==
  /\ utt' = [u \in Utterances |->
       IF u = ctrl THEN [us[u] EXCEPT !.signal = TRUE] ELSE us[u]]
  /\ ctrl' = None
  /\ player' = stop(player)
  /\ UNCHANGED engine

\* Aborts the utterance, stops the player, silences the engine.
stopSpeaking(us) ==
  /\ utt' = [u \in Utterances |->
       IF u = ctrl THEN [us[u] EXCEPT !.signal = TRUE] ELSE us[u]]
  /\ ctrl' = None
  /\ player' = IF Listens(ctrl) THEN stop(stop(player)) ELSE stop(player)
  /\ engine' = None

\* endTurn, the tail of the turn: an aborted one has it too, unless it was the
\* offline planner's.
Lands(u) == machine' = "idle" \/ (turnRef # u /\ UNCHANGED machine)

\* The promise of speak settles, with what the operator got out of it; the
\* locals of its play are gone, a graph that was taken down plays nothing, and
\* the turn runs its tail.
Settles(u, out) ==
  /\ utt' = [utt EXCEPT ![u].pc = "ended", ![u].out = out,
                ![u].known = FALSE, ![u].pending = 0,
                ![u].queue = IF out = "spoken" THEN @ ELSE 0]
  /\ ctrl' = IF ctrl = u THEN None ELSE ctrl
  /\ Lands(u)

ReadsAloud(u) ==
  /\ utt' = [utt EXCEPT ![u].pc = "synth"]
  /\ engine' = u
  /\ UNCHANGED <<ctrl, machine>>

\* Slip: an utterance that already flowed is read once more by the engine.
FallsBackSlip(u) == ReadsAloud(u)

\* The catch of speak: neither aborted nor refused.
FallsBack(u) ==
  IF player.frames > 0 THEN Settles(u, "quiet") /\ UNCHANGED engine
  ELSE ReadsAloud(u)

-------------------------------------------------------------------------------
(* The microphone (InputBar.tsx, audioBus.ts).                               *)

\* A detach: the device stream stops, pending attaches are invalidated, and
\* the context may go to sleep.
detached(a) == IF attach[a] = "attached" THEN "over"
               ELSE attach[a]

detachMic(held) ==
  /\ attach' = [a \in Attaches |-> detached(a)]
  /\ ctx' = IF held THEN ctx ELSE suspend(ctx)

NextAttach == {a \in Attaches : attach[a] = "unused"
                 /\ \A b \in Attaches : b < a => attach[b] # "unused"}
NextTurn == {u \in Utterances : utt[u].pc = "unused"
               /\ \A w \in Utterances : w < u => utt[w].pc # "unused"}

\* busy of the HUD: a phrase leaves the machine in listening until the first
\* frame of its answer.
Busy == machine \notin {"idle", "listening"}

\* One recogniser per press, one utterance per recogniser; what comes back
\* of it is a function that aborts it, kept in stopRef.
startListening(m) == [m EXCEPT !.stop = TRUE, !.running = @ + 1]

\* The button, in a browser that has a recogniser.
MicEnabled == ~Busy

\* The button opens the microphone: barge-in, attachMic, a recogniser.
MicOn ==
  /\ Settled /\ MicEnabled /\ ~mic.stop
  /\ stopSpeaking(utt)
  /\ ctx' = releaseTtsPlayback(player.held, ctx)
  /\ machine' = "listening"
  /\ \E a \in NextAttach :
       IF isMicAttached
       THEN mic' = startListening(mic) /\ UNCHANGED attach
       ELSE /\ mic' = startListening([mic EXCEPT !.owner = a])
            /\ attach' = [attach EXCEPT ![a] = "device"]
  /\ UNCHANGED turnRef

\* stopRef is empty and the stream detached, as the button, a phrase and the
\* end of any recogniser leave them.
closed == [mic EXCEPT !.stop = FALSE, !.owner = None, !.over = None]

\* The button closes it; the recogniser's end event is still to come.
MicOff ==
  /\ Settled /\ mic.stop /\ MicEnabled
  /\ detachMic(player.held)
  /\ mic' = [closed EXCEPT !.running = @ - 1, !.stopped = @ + 1]
  /\ UNCHANGED <<utt, turnRef, machine, ctrl, player, engine>>

\* The turns as an abort of the one in flight leaves them.
dropped == [u \in Utterances |->
  IF utt[u].pc \in Waiting THEN [utt[u] EXCEPT !.pc = "ended"] ELSE utt[u]]

\* A final transcript: detach, and ask a question, which aborts the turn
\* before it and silences it.  The machine stays in listening, or wherever it
\* is; a turn of which frames had come ends as cut short and lands it, unless
\* it was the offline planner's.
Phrase ==
  /\ Settled /\ mic.running > 0
  /\ \E u \in NextTurn :
       /\ stopSpeaking([dropped EXCEPT ![u] = [Unused EXCEPT !.pc = "asked"]])
       /\ turnRef' = u
  /\ IF \E w \in Utterances : utt[w].pc = "answering"
     THEN machine' \in {machine, "idle"} ELSE UNCHANGED machine
  /\ attach' = [a \in Attaches |-> detached(a)]
  /\ ctx' = suspend(ctx)
  /\ mic' = [closed EXCEPT !.running = @ - 1, !.heard = @ + 1]

\* onEnd of a recogniser, of whichever one: closes the microphone, and asks
\* for idle unless that recogniser delivered a phrase.
RecogniserEnds ==
  /\ Settled
  /\ detachMic(player.held)
  /\ \/ /\ \/ mic.running > 0 /\ mic' = [closed EXCEPT !.running = @ - 1]
           \/ mic.stopped > 0 /\ mic' = [closed EXCEPT !.stopped = @ - 1]
        /\ machine' = IF machine = "thinking" THEN machine ELSE "idle"
     \/ /\ mic.heard > 0 /\ mic' = [closed EXCEPT !.heard = @ - 1]
        /\ UNCHANGED machine
  /\ UNCHANGED <<utt, turnRef, ctrl, player, engine>>

Escape ==
  /\ Settled /\ turnRef # None
  /\ stopSpeaking(dropped)
  /\ ctx' = releaseTtsPlayback(player.held, ctx)
  /\ turnRef' = None /\ machine' = "idle"
  /\ UNCHANGED <<mic, attach>>

\* getUserMedia answers: dropped when a detach came first.
DeviceOpens(a) ==
  /\ Settled /\ attach[a] = "device"
  /\ IF mic.owner # a
     THEN attach' = [attach EXCEPT ![a] = "over"] /\ UNCHANGED ctx
     ELSE IF ctx.state = "suspended"
     THEN attach' = [attach EXCEPT ![a] = "resume"] /\ ctx' = resume(ctx)
     ELSE attach' = [attach EXCEPT ![a] = "attached"] /\ UNCHANGED ctx
  /\ UNCHANGED <<utt, turnRef, machine, ctrl, player, engine, mic>>

DeviceDenied(a) ==
  /\ Settled /\ attach[a] = "device"
  /\ attach' = [attach EXCEPT ![a] = "over"]
  /\ UNCHANGED <<utt, turnRef, machine, ctrl, player, engine, ctx, mic>>

\* Slip: no second look at the generation after the resume.
AttachResumedSlip(a) ==
  /\ attach[a] = "resumed"
  /\ attach' = [attach EXCEPT ![a] = "attached"]
  /\ UNCHANGED <<utt, turnRef, machine, ctrl, player, engine, ctx, mic>>

AttachResumed(a) ==
  /\ attach[a] = "resumed"
  /\ attach' = [attach EXCEPT ![a] =
                  IF mic.owner = a THEN "attached" ELSE "over"]
  /\ UNCHANGED <<utt, turnRef, machine, ctrl, player, engine, ctx, mic>>

-------------------------------------------------------------------------------
(* speak: POST /tts, then play.                                              *)

\* What a speak call leaves alone, to its end and before it.
mine == <<turnRef, mic, attach>>
calm == <<machine, mine>>

\* aborted() of play: superseded, or its signal was aborted.
aborted(u) == player.owner # u \/ utt[u].signal

\* The first frame of an answer announces thinking, legal from idle and listening.
FirstFrame(u) ==
  /\ Settled /\ turnRef = u /\ utt[u].pc = "asked"
  /\ utt' = [utt EXCEPT ![u].pc = "answering"]
  /\ machine' = IF Busy THEN machine ELSE "thinking"
  /\ UNCHANGED <<ctrl, player, engine, ctx, mine>>

\* A later frame, of any legal state there is an edge to.
Frame(u) ==
  /\ Settled /\ turnRef = u /\ utt[u].pc = "answering"
  /\ machine' \in {"thinking", "speaking"} \ {machine}
  /\ UNCHANGED <<utt, ctrl, player, engine, ctx, mine>>

\* The answer is complete and is read out: the speak call before is aborted.
Speak(u) ==
  /\ Settled /\ turnRef = u /\ utt[u].pc = "answering"
  /\ utt' = [w \in Utterances |->
       IF w = u THEN [utt[w] EXCEPT !.pc = "fetch"]
       ELSE IF w = ctrl THEN [utt[w] EXCEPT !.signal = TRUE] ELSE utt[w]]
  /\ player' = IF Listens(ctrl) THEN stop(player) ELSE player
  /\ ctx' = IF Listens(ctrl) THEN releaseTtsPlayback(player.held, ctx) ELSE ctx
  /\ ctrl' = u
  /\ mic' = [mic EXCEPT !.over = IF mic.stop THEN u ELSE @]
  /\ UNCHANGED <<engine, turnRef, machine, attach>>

\* Nothing to read out, a refusal, a stream cut short: the turn ends without a
\* voice.
SaysNothing(u) ==
  /\ Settled /\ turnRef = u /\ utt[u].pc \in Waiting
  /\ utt' = [utt EXCEPT ![u].pc = "ended"]
  /\ machine' = "idle"
  /\ UNCHANGED <<ctrl, player, engine, ctx, mine>>

\* The header arrived, play begins: it takes the player and holds the context.
Fetched(u) ==
  /\ Settled /\ utt[u].pc = "fetch" /\ ~utt[u].signal
  /\ player' = [owner |-> u, graph |-> None, held |-> TRUE,
                ready |-> None, frames |-> 0, played |-> 0]
  /\ utt' = [utt EXCEPT ![u].pc =
       IF ctx.state = "suspended" THEN "resume" ELSE "module"]
  /\ ctx' = resume(ctx)
  /\ UNCHANGED <<ctrl, engine, calm>>

\* Unreachable or malformed, before play: the frames are an earlier play's.
FetchFails(u) ==
  /\ Settled /\ utt[u].pc = "fetch" /\ ~utt[u].signal
  /\ FallsBack(u)
  /\ UNCHANGED <<player, ctx, mine>>

\* 403 or 429: the caller does not catch it, the turn stays in speaking.
Refused(u) ==
  /\ Settled /\ utt[u].pc = "fetch" /\ ~utt[u].signal
  /\ utt' = [utt EXCEPT ![u].pc = "refused"]
  /\ ctrl' = None
  /\ UNCHANGED <<player, engine, ctx, calm>>

\* An early return of play gives a hold back, whoever has it by now.
GivesUp(u) ==
  /\ Settles(u, "silenced")
  /\ player' = [player EXCEPT !.held = FALSE]
  /\ ctx' = releaseTtsPlayback(player.held, ctx)
  /\ UNCHANGED <<engine, mine>>

Resumed(u) ==
  /\ utt[u].pc = "resumed"
  /\ \/ aborted(u) /\ GivesUp(u)
     \/ /\ ~aborted(u)
        /\ utt' = [utt EXCEPT ![u].pc = "module"]
        /\ UNCHANGED <<ctrl, player, engine, ctx, calm>>

\* addModule resolved: the graph is built, the clock of the play starts.
ModuleLoads(u) ==
  /\ Settled /\ utt[u].pc = "module"
  /\ \/ aborted(u) /\ GivesUp(u)
     \/ /\ ~aborted(u)
        /\ utt' = [utt EXCEPT ![u].pc = "body"]
        /\ player' = [player EXCEPT !.graph = u]
        /\ UNCHANGED <<ctrl, engine, ctx, calm>>

\* addModule rejected: outside the try, so the hold stays.
ModuleFails(u) ==
  /\ Settled /\ utt[u].pc = "module"
  /\ IF utt[u].signal THEN Settles(u, "silenced") /\ UNCHANGED engine
     ELSE FallsBack(u)
  /\ UNCHANGED <<player, ctx, mine>>

-------------------------------------------------------------------------------
(* The body, backpressure and the drain.                                     *)

\* The catch of play acts only for the play that still owns the player.
caught(u) == player.owner = u

Catch(u) ==
  /\ player' = IF caught(u) THEN [player EXCEPT !.graph = None, !.held = FALSE]
               ELSE player
  /\ ctx' = IF caught(u) THEN releaseTtsPlayback(player.held, ctx) ELSE ctx

\* A chunk arrives and is posted; over the budget the play parks.
Chunk(u) ==
  /\ Settled /\ utt[u].pc = "body" /\ ~aborted(u)
  /\ utt[u].fed < MaxChunks
  /\ LET parks == utt[u].pending + 1 > MaxPending IN
       /\ utt' = [utt EXCEPT ![u].fed = @ + 1, ![u].pending = @ + 1,
                    ![u].queue = @ + 1, ![u].pc = IF parks THEN "parked" ELSE @]
       /\ player' = [player EXCEPT !.frames = @ + 1,
                                   !.ready = IF parks THEN u ELSE @]
  /\ UNCHANGED <<ctrl, engine, ctx, calm>>

\* The worklet woke it: it looks at the budget again.
Unpark(u) ==
  /\ Settled /\ utt[u].pc = "parked" /\ player.ready # u /\ ~aborted(u)
  /\ IF utt[u].pending > MaxPending
     THEN player' = [player EXCEPT !.ready = u] /\ UNCHANGED utt
     ELSE utt' = [utt EXCEPT ![u].pc = "body"] /\ UNCHANGED player
  /\ UNCHANGED <<ctrl, engine, ctx, calm>>

\* Everything fed was consumed, by the count or by the header's total.
Drained(u, known) ==
  utt[u].pending = 0 \/ (known /\ player.played >= MaxChunks)

\* The body ends, where the header's total says or before: one look at the
\* drain at once, the next when its timer fires.  Whether the header gave a
\* total matters from here on only, and is chosen here.
BodyEnds(u) ==
  /\ Settled /\ utt[u].pc = "body" /\ ~aborted(u)
  /\ \E known \in BOOLEAN :
       IF Drained(u, known) THEN Settles(u, "spoken")
       ELSE /\ utt' = [utt EXCEPT ![u].pc = "drain", ![u].known = known]
            /\ UNCHANGED <<ctrl, machine>>
  /\ UNCHANGED <<player, engine, ctx, mine>>

\* A malformed chunk or a broken connection: the phase rule decides.
BodyBreaks(u) ==
  /\ Settled /\ utt[u].pc = "body" /\ ~aborted(u)
  /\ Catch(u) /\ FallsBack(u)
  /\ UNCHANGED mine

Drain(u) ==
  /\ Settled /\ utt[u].pc = "drain" /\ ~aborted(u)
  /\ Drained(u, utt[u].known)
  /\ Settles(u, "spoken")
  /\ UNCHANGED <<player, engine, ctx, mine>>

\* checkTimeout throws where the play looks at the clock: a chunk or the end of
\* the body, a wake-up, a poll of the drain.  An AbortError, so nobody reads the answer out.
TimesOut(u) ==
  /\ Settled /\ ~aborted(u)
  /\ utt[u].pc \in {"body", "parked", "drain"}
  /\ utt[u].pc = "parked" => player.ready # u
  /\ Catch(u) /\ Settles(u, "quiet")
  /\ UNCHANGED <<engine, mine>>

\* An aborted call comes back: the fetch or the body rejects, the waiter was
\* woken, the drain polls, the engine reports its end.
Unwinds(u) ==
  /\ Settled
  /\ \/ /\ utt[u].pc \in {"fetch", "synth"} /\ utt[u].signal
        /\ UNCHANGED <<player, ctx>>
     \/ Listens(u) /\ aborted(u) /\ (utt[u].pc = "parked" => player.ready # u)
        /\ Catch(u)
  /\ Settles(u, "silenced")
  /\ UNCHANGED <<engine, mine>>

\* speechSynthesis ends, or the estimate runs out first and it talks on.
SynthEnds(u) ==
  /\ Settled /\ utt[u].pc = "synth" /\ ~utt[u].signal
  /\ Settles(u, "told")
  /\ engine' \in {engine, None}
  /\ UNCHANGED <<player, ctx, mine>>

EngineEnds ==
  /\ Settled /\ engine # None /\ utt[engine].pc = "ended"
  /\ engine' = None
  /\ UNCHANGED <<utt, ctrl, player, ctx, calm>>

\* The worklet plays what it has while the context runs.
Consume(u) ==
  /\ Settled /\ player.graph = u /\ ctx.state = "running" /\ utt[u].queue > 0
  /\ utt' = [utt EXCEPT ![u].queue = @ - 1, ![u].reports = @ + 1]
  /\ UNCHANGED <<ctrl, player, engine, ctx, calm>>

\* Slip: the message of a superseded port is counted too.
ownsPlayerSlip(u) == TRUE

ownsPlayer(u) == player.owner = u

\* A consumed message arrives and wakes the waiter, whoever that is.
Reported(u) ==
  /\ Settled /\ utt[u].reports > 0
  /\ IF ownsPlayer(u)
     THEN /\ player' = [player EXCEPT !.played = @ + 1, !.ready = None]
          /\ utt' = [utt EXCEPT ![u].reports = @ - 1,
                          ![u].pending = IF @ = 0 THEN 0 ELSE @ - 1]
     ELSE /\ utt' = [utt EXCEPT ![u].reports = @ - 1]
          /\ UNCHANGED player
  /\ UNCHANGED <<ctrl, engine, ctx, calm>>

\* A ready message, posted all the time while the context runs.
Ready(u) ==
  /\ Settled /\ player.graph = u /\ ctx.state = "running" /\ player.ready # None
  /\ ownsPlayer(u)
  /\ player' = [player EXCEPT !.ready = None]
  /\ UNCHANGED <<utt, ctrl, engine, ctx, calm>>

-------------------------------------------------------------------------------

Turn(u) ==
  \/ FirstFrame(u) \/ Frame(u) \/ Speak(u) \/ SaysNothing(u)
  \/ Fetched(u) \/ FetchFails(u) \/ Refused(u) \/ Resumed(u) \/ ModuleLoads(u) \/ ModuleFails(u)
  \/ Chunk(u) \/ Unpark(u) \/ BodyEnds(u) \/ BodyBreaks(u)
  \/ Drain(u) \/ TimesOut(u) \/ Unwinds(u) \/ SynthEnds(u)
  \/ Consume(u) \/ Reported(u) \/ Ready(u)

Next ==
  \/ Cue \/ SuspendLands \/ ResumeLands
  \/ MicOn \/ MicOff \/ Phrase \/ RecogniserEnds \/ Escape \/ EngineEnds
  \/ \E a \in Attaches : DeviceOpens(a) \/ DeviceDenied(a) \/ AttachResumed(a)
  \/ \E u \in Utterances : Turn(u)

Spec == Init /\ [][Next]_vars

\* What the browser owes the page: a resume it was asked for and what waits on
\* it, a module it loads, the return of a call that was aborted.  Some of it is
\* always done while any is owed; nothing is assumed of the backend, of a play
\* nobody aborted, or of the operator.
Owed ==
  \/ ResumeLands
  \/ \E a \in Attaches : AttachResumed(a)
  \/ \E u \in Utterances :
       Resumed(u) \/ ModuleLoads(u) \/ ModuleFails(u) \/ Unwinds(u)

FairSpec == Spec /\ WF_vars(Owed)

-------------------------------------------------------------------------------
(* What the speech of the page promises.                                     *)

Audible(u) == engine = u \/ (player.graph = u /\ utt[u].queue > 0)

\* One voice: whoever can be heard belongs to the turn in flight, was not
\* aborted, is alone, and is heard by one way only, the engine or the player.
\* Over an open microphone only an answer is heard whose reading began after the
\* button was pressed: what was being fetched, woken or played then is stopped,
\* wherever it stood (stopSpeaking of voice.ts, "barge-in" of InputBar.tsx).
OneVoice ==
  \A u \in Utterances : Audible(u) =>
    /\ turnRef = u /\ ~utt[u].signal
    /\ engine = u => utt[u].queue = 0
    /\ mic.stop => mic.over = u
    /\ \A w \in Utterances \ {u} : ~Audible(w)

\* The two-phase rule of speak: an answer of which a sample was played is not
\* read a second time by the browser's engine, though the counter the rule
\* reads belongs to the player and not to the utterance.
NeverTwice ==
  \A u \in Utterances :
    (utt[u].pc = "synth" \/ utt[u].out = "told") => utt[u].fed = 0

\* The drain of play: an utterance that ended as spoken was heard to its last
\* sample, late messages of an earlier port notwithstanding.
EndedMeansHeard ==
  \A u \in Utterances : utt[u].out = "spoken" => utt[u].queue = 0

\* The generation of audioBus: a device stream is live only while the button
\* is on, and no more than one is, whenever getUserMedia and resume answer.
MicFollowsWish ==
  /\ isMicAttached => mic.stop
  /\ \A a, b \in Attaches :
       attach[a] = "attached" /\ attach[b] = "attached" => a = b

\* stop wakes a play that is parked for backpressure: every utterance that was
\* aborted comes back to its turn, wherever the abort met it.
AbortedUnwinds ==
  \A u \in Utterances : utt[u].signal ~> utt[u].pc = "ended"
===============================================================================
