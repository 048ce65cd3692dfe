-------------------------- MODULE TurnClientProofs -------------------------
(***************************************************************************)
(* The browser's side of a turn, for any number of questions, requests and *)
(* decisions on their way.                                                 *)
(*                                                                         *)
(* Everything the store shows of a turn comes from a call that nobody      *)
(* aborted, and such a call is the latest one (ActiveIsLatest): that is    *)
(* why a prompt, and the run a cancel stops, are of the turn in flight.    *)
(* A frame is counted as it is applied, so the two counters agree, and     *)
(* what a replay adds is what the log holds beyond them (SeenIsLogged).    *)
(* A call that holds its answer has seen its done or was played offline    *)
(* (HeldIsAnswered).                                                       *)
(*                                                                         *)
(* The frames of a replay are dispatched by a recursive function, about    *)
(* which a proof needs induction; Reaches is induction over 0..N as a      *)
(* fact about sets, from the pigeonhole facts of FiniteSetTheorems.        *)
(***************************************************************************)
EXTENDS TurnClient, FiniteSetTheorems, SequenceTheorems, TLAPS

\* A set that holds 0 and with every n < N also n + 1 holds N: otherwise
\* n |-> n + 1 would map it into itself without 0.
LEMMA Reaches ==
  ASSUME NEW N \in Nat, NEW T \in SUBSET (0..N), 0 \in T,
         \A n \in T : n < N => n + 1 \in T
  PROVE  N \in T
<1> SUFFICES ASSUME N \notin T PROVE FALSE
  OBVIOUS
<1> DEFINE f == [n \in T |-> n + 1]
<1>1. f \in Injection(T, T \ {0})
  <2>1. f \in [T -> T \ {0}]
    OBVIOUS
  <2>2. \A a, b \in T : f[a] = f[b] => a = b
    OBVIOUS
  <2> QED
    BY <2>1, <2>2 DEF Injection, IsInjective
<1>2. IsFiniteSet(T)
  <2>1. IsFiniteSet(0..N)
    BY FS_Interval
  <2> QED
    BY <2>1, FS_Subset
<1>3. IsFiniteSet(T \ {0}) /\ Cardinality(T \ {0}) = Cardinality(T) - 1
  BY <1>2, FS_RemoveElement
<1>4. Cardinality(T) <= Cardinality(T \ {0})
  BY <1>1, <1>3, FS_Injection
<1>5. Cardinality(T) \in Nat
  BY <1>2, FS_CardinalityType
<1> QED
  BY <1>3, <1>4, <1>5
----------------------------------------------------------------------------
Marks == {"", "idle", "listening", "thinking", "searching", "processing",
          "tool_execution", "visualizing", "speaking", "warning", "error"}
Kinds == {"state", "confirm", "denied", "error", "answer", "done"}
Frame == [ev : Kinds, to : Marks, id : Nat]
Prompt == [turn : Turns \cup {None}, id : Nat]
UI == [state : Marks, prompt : Prompt, error : Turns \cup {None}]
Stages == {"unused", "fetch", "stream", "resume", "local", "hold", "speak",
           "hushed", "ended", "rejected"}
Call == [pc : Stages, aborted : BOOLEAN, voice : BOOLEAN, seen : Nat,
         doneSeen : BOOLEAN, spoken : BOOLEAN, applied : Nat, stage : 0..6]
Run == [log : Seq(Frame), over : BOOLEAN, verdict : {"none", "granted", "denied"}, stopped : BOOLEAN]

TurnTypeOK ==
  /\ ui \in UI
  /\ turnRef \in Turns \cup {None} /\ publisher \in Turns \cup {None}
  /\ activeRunId \in Turns \cup {None}
  /\ turn \in [Turns -> Call] /\ run \in [Turns -> Run]

\* A prompt after frames of turn t is the one before them or one of t.
PromptOfTurn(before, t, after) ==
  after.prompt = before.prompt \/ after.prompt.turn = t

\* One frame changes the store of type UI into one of type UI.
LEMMA DispatchKeeps ==
  ASSUME NEW u \in UI, NEW t \in Turns, NEW f \in Frame
  PROVE  dispatch(u, t, f) \in UI /\ PromptOfTurn(u, t, dispatch(u, t, f))
  BY DEF dispatch, transition, UI, Prompt, Frame, Marks, PromptOfTurn

\* So do the frames of a replay: first that the recursion defines a function,
\* then what its values are.
LEMMA DispatchAllKeeps ==
  ASSUME NEW u \in UI, NEW t \in Turns, NEW fs \in Seq(Frame)
  PROVE  /\ dispatchAll(u, t, fs) \in UI
         /\ PromptOfTurn(u, t, dispatchAll(u, t, fs))
<1> DEFINE N == Len(fs)
           Rest(g, n) == IF n = 0 THEN u ELSE dispatch(g[n - 1], t, fs[n])
           Upto(n) == {g \in [0..n -> UI] : \A i \in 0..n : g[i] = Rest(g, i)}
<1>1. N \in Nat /\ \A n \in 1..N : fs[n] \in Frame
  BY LenProperties, ElementOfSeq
<1>2. N \in {n \in 0..N : Upto(n) # {}}
  <2> DEFINE T == {n \in 0..N : Upto(n) # {}}
  <2>1. 0 \in T
    <3>1. [i \in 0..0 |-> u] \in Upto(0)
      OBVIOUS
    <3> QED
      BY <1>1, <3>1
  <2>2. ASSUME NEW n \in T, n < N PROVE n + 1 \in T
    <3>1. PICK g \in Upto(n) : TRUE
      OBVIOUS
    <3> DEFINE h == [i \in 0..(n + 1) |->
                       IF i = n + 1 THEN dispatch(g[n], t, fs[n + 1]) ELSE g[i]]
    <3>2. dispatch(g[n], t, fs[n + 1]) \in UI
      <4>1. g[n] \in UI /\ fs[n + 1] \in Frame
        BY <1>1, <2>2
      <4> QED
        BY <4>1, DispatchKeeps
    <3>3. h \in [0..(n + 1) -> UI]
      BY <1>1, <3>2
    <3>4. ASSUME NEW i \in 0..(n + 1) PROVE h[i] = Rest(h, i)
      <4>1. CASE i = n + 1
        BY <1>1, <4>1
      <4>2. CASE i # n + 1
        <5>1. i \in 0..n /\ h[i] = g[i] /\ (i # 0 => h[i - 1] = g[i - 1])
          BY <1>1, <4>2
        <5> QED
          BY <5>1
      <4> QED
        BY <4>1, <4>2
    <3>5. h \in Upto(n + 1)
      BY <3>3, <3>4
    <3>6. n + 1 \in 0..N
      BY <1>1, <2>2
    <3> HIDE DEF Upto, h
    <3> QED
      BY <3>5, <3>6
  <2>3. T \in SUBSET (0..N)
    OBVIOUS
  <2> HIDE DEF T
  <2>4. N \in T
    BY <1>1, <2>1, <2>2, <2>3, Reaches
  <2> QED
    BY <2>4 DEF T
<1> DEFINE Is(g) == g = [n \in 0..N |-> Rest(g, n)]
           after == CHOOSE g : Is(g)
<1>3. Is(after)
  <2>1. PICK g \in Upto(N) : TRUE
    BY <1>2
  <2>2. g = [n \in 0..N |-> Rest(g, n)]
    OBVIOUS
  <2>3. \E k : Is(k)
    BY <2>2
  <2> QED
    BY <2>3
<1>4. dispatchAll(u, t, fs) = after[N]
  BY DEF dispatchAll
<1> HIDE DEF after
<1>5. N \in {n \in 0..N : after[n] \in UI /\ PromptOfTurn(u, t, after[n])}
  <2> DEFINE T == {n \in 0..N : after[n] \in UI /\ PromptOfTurn(u, t, after[n])}
  <2>1. 0 \in T
    BY <1>1, <1>3 DEF PromptOfTurn
  <2>2. ASSUME NEW n \in T, n < N PROVE n + 1 \in T
    <3>1. n + 1 \in 0..N /\ fs[n + 1] \in Frame
      BY <1>1, <2>2
    <3>2. after[n + 1] = dispatch(after[n], t, fs[n + 1])
      BY <1>1, <1>3, <3>1
    <3>3. after[n + 1] \in UI /\ PromptOfTurn(after[n], t, after[n + 1])
      BY <3>1, <3>2, DispatchKeeps
    <3> QED
      BY <3>1, <3>3 DEF PromptOfTurn
  <2>3. T \in SUBSET (0..N)
    OBVIOUS
  <2> HIDE DEF T
  <2>4. N \in T
    BY <1>1, <2>1, <2>2, <2>3, Reaches
  <2> QED
    BY <2>4 DEF T
<1> QED
  BY <1>4, <1>5
----------------------------------------------------------------------------
\* A frame is counted where it is applied, and nothing is seen that is not in
\* the log.
SeenIsLogged ==
  \A t \in Turns : /\ turn[t].applied = turn[t].seen
                   /\ turn[t].seen <= Len(run[t].log)
                   /\ turn[t].pc \in {"unused", "fetch"} => turn[t].seen = 0

\* Who holds an answer has seen its done, or played it offline to the end.
HeldIsAnswered ==
  \A t \in Turns :
    /\ turn[t].pc \in {"hold", "speak", "hushed"} =>
         turn[t].doneSeen \/ turn[t].stage = 6
    /\ turn[t].pc = "local" => turn[t].stage < 6
    /\ turn[t].pc \in {"unused", "fetch", "stream", "resume"} =>
         turn[t].stage = 0

\* A call that is under way and that nobody aborted is the latest one, which
\* has the token and alone can have told its run.
Returned == {"unused", "ended", "rejected"}

ActiveIsLatest ==
  /\ publisher = turnRef /\ activeRunId \in {None, turnRef}
  /\ \A t \in Turns : turn[t].pc \notin Returned /\ ~Aborted(t) => t = turnRef

TurnInv ==
  /\ TurnTypeOK /\ SeenIsLogged /\ HeldIsAnswered /\ ActiveIsLatest
  /\ PromptOfLatest

LEMMA TurnInitInv == Init => TurnInv
  BY DEF Init, TurnInv, TurnTypeOK, SeenIsLogged, HeldIsAnswered, ActiveIsLatest,
     PromptOfLatest, Aborted, Returned, Unused, NoRun, NoPrompt, UI, Prompt, Call,
     Run, Stages, Marks, Turns, None
----------------------------------------------------------------------------
\* What the updates of a call's fields yield, for the provers: they take one
\* record at a time.
LEMMA CallUpdates ==
  ASSUME NEW c \in Call, NEW p \in Stages, NEW b \in BOOLEAN
  PROVE  /\ [c EXCEPT !.pc = p] \in Call
         /\ [c EXCEPT !.aborted = TRUE] \in Call
         /\ [c EXCEPT !.pc = p, !.voice = b] \in Call
         /\ [c EXCEPT !.pc = p, !.doneSeen = b] \in Call
  BY DEF Call

\* An abort and a hush change one field each of the calls they reach.
LEMMA HushKeeps ==
  ASSUME NEW ts \in [Turns -> Call]
  PROVE  /\ Hush(ts) \in [Turns -> Call]
         /\ \A t \in Turns :
              Hush(ts)[t] = [ts[t] EXCEPT !.pc = IF @ = "speak" THEN "hushed" ELSE @]
<1>1. ASSUME NEW t \in Turns
      PROVE  /\ Hush(ts)[t] = [ts[t] EXCEPT !.pc = IF @ = "speak" THEN "hushed" ELSE @]
             /\ Hush(ts)[t] \in Call
  BY DEF Hush, Call, Stages
<1> QED
  BY <1>1 DEF Hush

LEMMA AbortKeeps ==
  ASSUME TurnTypeOK
  PROVE  /\ abortOf(turn) \in [Turns -> Call]
         /\ \A t \in Turns :
              \/ abortOf(turn)[t] = turn[t]
                 /\ (t = turnRef => turn[t].pc \in {"ended", "rejected"})
              \/ abortOf(turn)[t] = [turn[t] EXCEPT !.aborted = TRUE] /\ t = turnRef
<1>1. CASE turnRef = None \/ turn[turnRef].pc \in {"ended", "rejected"}
  BY <1>1 DEF TurnTypeOK, abortOf, None, Turns
<1>2. CASE ~(turnRef = None \/ turn[turnRef].pc \in {"ended", "rejected"})
  <2>1. turnRef \in Turns /\ abortOf(turn) = [turn EXCEPT ![turnRef].aborted = TRUE]
    BY <1>2 DEF TurnTypeOK, abortOf
  <2>2. [turn[turnRef] EXCEPT !.aborted = TRUE] \in Call
    BY <2>1, CallUpdates DEF TurnTypeOK, Stages
  <2> QED
    BY <2>1, <2>2 DEF TurnTypeOK
<1> QED
  BY <1>1, <1>2

\* A hush after an abort: whoever speaks is hushed, the call before is aborted
\* unless it has returned, and nothing else of a call changes.
Silenced(hs) ==
  /\ hs \in [Turns -> Call]
  /\ \A t \in Turns :
       /\ hs[t].seen = turn[t].seen /\ hs[t].applied = turn[t].applied
       /\ hs[t].stage = turn[t].stage /\ hs[t].doneSeen = turn[t].doneSeen
       /\ hs[t].pc = IF turn[t].pc = "speak" THEN "hushed" ELSE turn[t].pc
       /\ turn[t].aborted => hs[t].aborted
       /\ t = turnRef /\ turn[t].pc \notin {"ended", "rejected"} => hs[t].aborted

LEMMA SilenceChanges ==
  ASSUME TurnTypeOK
  PROVE  Silenced(Hush(abortOf(turn)))
<1> DEFINE ts == abortOf(turn)
           hs == Hush(ts)
<1>1. hs \in [Turns -> Call]
  BY AbortKeeps, HushKeeps
<1>2. ASSUME NEW t \in Turns
      PROVE  /\ hs[t].seen = turn[t].seen /\ hs[t].applied = turn[t].applied
             /\ hs[t].stage = turn[t].stage /\ hs[t].doneSeen = turn[t].doneSeen
             /\ hs[t].pc = IF turn[t].pc = "speak" THEN "hushed" ELSE turn[t].pc
             /\ turn[t].aborted => hs[t].aborted
             /\ t = turnRef /\ turn[t].pc \notin {"ended", "rejected"} => hs[t].aborted
  <2>1. /\ hs[t] = [ts[t] EXCEPT !.pc = IF @ = "speak" THEN "hushed" ELSE @]
        /\ ts[t] \in Call /\ turn[t] \in Call
    BY AbortKeeps, HushKeeps DEF TurnTypeOK
  <2>2. \/ ts[t] = turn[t] /\ (t = turnRef => turn[t].pc \in {"ended", "rejected"})
        \/ ts[t] = [turn[t] EXCEPT !.aborted = TRUE] /\ t = turnRef
    BY AbortKeeps
  <2> HIDE DEF ts, hs
  <2> QED
    BY <2>1, <2>2 DEF Call
<1> QED
  BY <1>1, <1>2 DEF Silenced

\* What asking as call n does to each call: it hushes whoever speaks, aborts
\* the call before and starts the next.
AskedBy(n) ==
  /\ turn' \in [Turns -> Call]
  /\ turn'[n].pc = "fetch"
  /\ \A t \in Turns :
       /\ turn'[t].seen = turn[t].seen /\ turn'[t].applied = turn[t].applied
       /\ turn'[t].stage = turn[t].stage /\ turn'[t].doneSeen = turn[t].doneSeen
       /\ t # n =>
            /\ turn'[t].pc = IF turn[t].pc = "speak" THEN "hushed" ELSE turn[t].pc
            /\ turn[t].aborted => turn'[t].aborted
            /\ t = turnRef /\ turn[t].pc \notin {"ended", "rejected"} =>
                 turn'[t].aborted

LEMMA AskChanges ==
  ASSUME TurnTypeOK, NEW n \in Turns, NEW voice \in BOOLEAN,
         turn' = [Hush(abortOf(turn)) EXCEPT ![n].pc = "fetch", ![n].voice = voice]
  PROVE  AskedBy(n)
<1> DEFINE hs == Hush(abortOf(turn))
<1>1. hs \in [Turns -> Call] /\ turn' = [hs EXCEPT ![n].pc = "fetch", ![n].voice = voice]
  BY SilenceChanges DEF Silenced
<1>2. Silenced(hs)
  BY SilenceChanges
<1>3. /\ turn'[n] = [hs[n] EXCEPT !.pc = "fetch", !.voice = voice]
      /\ \A t \in Turns \ {n} : turn'[t] = hs[t]
      /\ DOMAIN turn' = Turns /\ turn' = [t \in Turns |-> turn'[t]]
  <2> HIDE DEF hs
  <2> QED
    BY <1>1
<1> HIDE DEF hs
<1>4. /\ turn'[n] \in Call /\ turn'[n].pc = "fetch"
      /\ turn'[n].seen = hs[n].seen /\ turn'[n].applied = hs[n].applied
      /\ turn'[n].stage = hs[n].stage /\ turn'[n].doneSeen = hs[n].doneSeen
  <2>1. turn'[n] \in Call
    <3>1. hs[n] \in Call /\ "fetch" \in Stages
      BY <1>1 DEF Stages
    <3>2. [hs[n] EXCEPT !.pc = "fetch", !.voice = voice] \in Call
      BY <3>1, CallUpdates
    <3> QED
      BY <1>3, <3>2
  <2> QED
    BY <1>1, <1>3, <2>1 DEF Call
<1>5. turn' \in [Turns -> Call]
  BY <1>1, <1>3, <1>4
<1> QED
  BY <1>2, <1>3, <1>4, <1>5 DEF AskedBy, Silenced

\* The next call is the latest, and the one before it is aborted.
LEMMA AskKeeps ==
  ASSUME TurnInv, NEW voice \in BOOLEAN, Ask(voice)
  PROVE  TurnInv'
<1>1. PICK n \in NextTurn :
        /\ turn' = [Hush(abortOf(turn)) EXCEPT ![n].pc = "fetch", ![n].voice = voice]
        /\ turnRef' = n /\ publisher' = n /\ activeRunId' = None
        /\ ui' = [ui EXCEPT !.prompt = NoPrompt, !.error = None]
        /\ UNCHANGED <<outbox, run>>
  BY DEF Ask
<1>2. n \in Turns /\ turn[n].pc = "unused" /\ TurnTypeOK
  BY DEF NextTurn, TurnInv
<1>3. AskedBy(n)
  BY <1>1, <1>2, AskChanges
<1>4. TurnTypeOK'
  BY <1>1, <1>2, <1>3 DEF AskedBy, TurnTypeOK, UI, Prompt, NoPrompt, Turns, None
<1>5. SeenIsLogged' /\ HeldIsAnswered'
  BY <1>1, <1>2, <1>3 DEF AskedBy, TurnInv, SeenIsLogged, HeldIsAnswered
<1>6. ActiveIsLatest'
  BY <1>1, <1>2, <1>3 DEF AskedBy, TurnInv, ActiveIsLatest, Aborted, Returned
<1>7. PromptOfLatest'
  BY <1>1 DEF TurnInv, TurnTypeOK, UI, PromptOfLatest
<1> QED
  BY <1>4, <1>5, <1>6, <1>7 DEF TurnInv

\* Whoever returns leaves its locals and its run behind.
LEMMA LeaveKeeps ==
  ASSUME TurnInv, NEW t \in Turns, NEW p \in {"ended", "rejected"}, NEW r \in Call,
         leave(t, p, r),
         ui' \in UI, PromptOfTurn(ui, t, ui') \/ ui'.prompt = NoPrompt,
         ui'.prompt.turn = t /\ ui'.prompt # ui.prompt => t = turnRef,
         UNCHANGED <<turnRef, publisher>>, activeRunId' \in {None, activeRunId, turnRef}
  PROVE  TurnInv'
<1>1. TurnTypeOK'
  <2>1. /\ [Unused EXCEPT !.pc = p, !.doneSeen = r.doneSeen] \in Call
        /\ [NoRun EXCEPT !.stopped = run[t].stopped] \in Run
    <3>1. Unused \in Call /\ NoRun \in Run
      BY DEF Unused, NoRun, Call, Run, Stages
    <3>2. run[t].stopped \in BOOLEAN /\ r.doneSeen \in BOOLEAN
      BY DEF TurnInv, TurnTypeOK, Call, Run
    <3>3. [NoRun EXCEPT !.stopped = run[t].stopped] \in Run
      BY <3>1, <3>2 DEF Run
    <3> QED
      BY <3>1, <3>2, <3>3, CallUpdates DEF Stages
  <2>2. turn' \in [Turns -> Call] /\ run' \in [Turns -> Run]
    <3>1. turn \in [Turns -> Call] /\ run \in [Turns -> Run]
      BY DEF TurnInv, TurnTypeOK
    <3> QED
      BY <2>1, <3>1 DEF leave
  <2>3. /\ turnRef \in Turns \cup {None} /\ publisher \in Turns \cup {None}
        /\ activeRunId \in Turns \cup {None}
    BY DEF TurnInv, TurnTypeOK
  <2>4. /\ turnRef' \in Turns \cup {None} /\ publisher' \in Turns \cup {None}
        /\ activeRunId' \in Turns \cup {None}
    BY <2>3
  <2> QED
    BY <2>2, <2>4, Zenon DEF TurnTypeOK
<1>2. /\ \A k \in Turns \ {t} : turn'[k] = turn[k] /\ run'[k] = run[k]
      /\ turn'[t].pc = p /\ turn'[t].seen = 0 /\ turn'[t].applied = 0
      /\ Len(run'[t].log) = 0
  BY DEF TurnInv, TurnTypeOK, leave, Unused, NoRun, Call, Run
<1>3. SeenIsLogged' /\ HeldIsAnswered' /\ ActiveIsLatest'
  BY <1>2 DEF TurnInv, TurnTypeOK, SeenIsLogged, HeldIsAnswered, ActiveIsLatest,
     Aborted, Returned
<1>4. PromptOfLatest'
  BY DEF TurnInv, PromptOfLatest, PromptOfTurn
<1> QED
  BY <1>1, <1>3, <1>4 DEF TurnInv

\* The other changes to the store.
LEMMA StoreKeeps ==
  ASSUME NEW u \in UI, NEW t \in Turns, NEW s \in Marks
  PROVE  /\ transition(u, s) \in UI /\ transition(u, s).prompt = u.prompt
         /\ endTurn(u) \in UI /\ endTurn(u).prompt = u.prompt
         /\ endTurnWithError(u, t) \in UI
         /\ endTurnWithError(u, t).prompt = u.prompt
         /\ endTurnWithError(u, t).error = t
         /\ tail(u) \in UI /\ tail(u).prompt = NoPrompt
         /\ [u EXCEPT !.prompt = NoPrompt] \in UI
<1>1. "idle" \in Marks /\ NoPrompt \in Prompt
  BY DEF Marks, NoPrompt, Prompt, None
<1> QED
  BY <1>1 DEF UI, transition, endTurn, endTurnWithError, tail

\* One call under way goes on as c.
Carries(t, c) ==
  /\ c \in Call /\ c.aborted = turn[t].aborted /\ c.applied = c.seen
  /\ c.pc \notin {"unused", "fetch"}
  /\ c.pc \in {"hold", "speak", "hushed"} => c.doneSeen \/ c.stage = 6
  /\ c.pc = "local" => c.stage < 6
  /\ c.pc \in {"stream", "resume"} => c.stage = 0

LEMMA CarryKeeps ==
  ASSUME TurnInv, NEW t \in Turns, NEW c, Carries(t, c),
         turn[t].pc \notin Returned, turn' = [turn EXCEPT ![t] = c],
         run' \in [Turns -> Run], \A k \in Turns \ {t} : run'[k].log = run[k].log,
         c.seen <= Len(run'[t].log),
         ui' \in UI, ui'.prompt = ui.prompt \/ (ui'.prompt.turn = t /\ t = turnRef),
         UNCHANGED <<turnRef, publisher>>, activeRunId' \in {None, activeRunId, turnRef}
  PROVE  TurnInv'
<1>1. /\ \A k \in Turns \ {t} : turn'[k] = turn[k]
      /\ turn'[t] = c /\ turn' \in [Turns -> Call]
  BY DEF Carries, TurnInv, TurnTypeOK
<1>2. TurnTypeOK'
  BY <1>1 DEF TurnInv, TurnTypeOK, Carries
<1>3. SeenIsLogged'
  BY <1>1 DEF TurnInv, SeenIsLogged, Carries
<1>4. HeldIsAnswered'
  BY <1>1 DEF TurnInv, HeldIsAnswered, Carries
<1>5. ActiveIsLatest'
  BY <1>1 DEF TurnInv, ActiveIsLatest, Carries, Aborted, Returned
<1>6. PromptOfLatest'
  BY DEF TurnInv, PromptOfLatest
<1> QED
  BY <1>2, <1>3, <1>4, <1>5, <1>6 DEF TurnInv

\* A step that leaves the calls alone and only adds to the logs.
LEMMA RunKeeps ==
  ASSUME TurnInv, run' \in [Turns -> Run],
         \A t \in Turns : Len(run[t].log) <= Len(run'[t].log),
         ui' \in UI, ui'.prompt = ui.prompt \/ ui'.prompt = NoPrompt,
         UNCHANGED <<turnRef, publisher, activeRunId, turn>>
  PROVE  TurnInv'
<1>1. \A t \in Turns : turn[t].seen \in Nat /\ Len(run[t].log) \in Nat
                       /\ Len(run'[t].log) \in Nat
  BY LenProperties DEF TurnInv, TurnTypeOK, Call, Run
<1>2. SeenIsLogged'
  BY <1>1 DEF TurnInv, SeenIsLogged
<1> QED
  BY <1>2 DEF TurnInv, TurnTypeOK, HeldIsAnswered, ActiveIsLatest, Aborted, PromptOfLatest

\* Cancel and MicOn silence.
LEMMA CancelKeeps ==
  ASSUME TurnInv, Cancel PROVE TurnInv'
<1>1. TurnTypeOK /\ ui \in UI
  BY DEF TurnInv, TurnTypeOK
<1>2. Silenced(turn')
  BY <1>1, SilenceChanges DEF Cancel
<1>3. run' \in [Turns -> Run] /\ \A t \in Turns : run'[t].log = run[t].log
  BY <1>1 DEF Cancel, cancelActiveRun, cancelRun, TurnTypeOK, Run
<1>4. ui' \in UI /\ ui'.prompt = ui.prompt
  BY <1>1 DEF Cancel, endTurn, UI, Marks
<1>5. /\ ui.prompt = NoPrompt /\ turnRef' = None /\ publisher' = None
      /\ activeRunId' = None
  BY DEF Cancel, cancelActiveRun
<1>6. TurnTypeOK'
  BY <1>1, <1>2, <1>3, <1>4, <1>5 DEF TurnTypeOK, Silenced
<1>7. SeenIsLogged' /\ HeldIsAnswered'
  BY <1>2, <1>3 DEF Silenced, TurnInv, SeenIsLogged, HeldIsAnswered
<1>8. ActiveIsLatest'
  BY <1>2, <1>5 DEF Silenced, TurnInv, ActiveIsLatest, Aborted, Returned
<1> QED
  BY <1>4, <1>5, <1>6, <1>7, <1>8 DEF TurnInv, PromptOfLatest

LEMMA MicOnKeeps ==
  ASSUME TurnInv, MicOn PROVE TurnInv'
<1>1. TurnTypeOK /\ ui \in UI /\ turn \in [Turns -> Call]
  BY DEF TurnInv, TurnTypeOK
<1>2. /\ turn' \in [Turns -> Call]
      /\ \A t \in Turns :
           turn'[t] = [turn[t] EXCEPT !.pc = IF @ = "speak" THEN "hushed" ELSE @]
  BY <1>1, HushKeeps DEF MicOn
<1>3. \A t \in Turns :
        /\ turn'[t].seen = turn[t].seen /\ turn'[t].applied = turn[t].applied
        /\ turn'[t].stage = turn[t].stage /\ turn'[t].doneSeen = turn[t].doneSeen
        /\ turn'[t].pc = IF turn[t].pc = "speak" THEN "hushed" ELSE turn[t].pc
        /\ turn'[t].aborted = turn[t].aborted
  BY <1>1, <1>2 DEF Call
<1>4. ui' \in UI /\ ui'.prompt = ui.prompt
  BY <1>1 DEF MicOn, transition, UI, Marks
<1>5. UNCHANGED <<turnRef, publisher, activeRunId, run>>
  BY DEF MicOn
<1>6. TurnTypeOK'
  BY <1>1, <1>2, <1>4, <1>5 DEF TurnTypeOK
<1>7. SeenIsLogged' /\ HeldIsAnswered'
  BY <1>3, <1>5 DEF TurnInv, SeenIsLogged, HeldIsAnswered
<1>8. ActiveIsLatest'
  BY <1>3, <1>5 DEF TurnInv, ActiveIsLatest, Aborted, Returned
<1> QED
  BY <1>4, <1>5, <1>6, <1>7, <1>8 DEF TurnInv, PromptOfLatest
----------------------------------------------------------------------------
\* A call after it read frames, and as it holds the answer it read.
Read(c, s, a, d, sp) ==
  [c EXCEPT !.seen = s, !.applied = a, !.doneSeen = d, !.spoken = sp]

LEMMA ReadUpdates ==
  ASSUME NEW c \in Call, NEW s \in Nat, NEW a \in Nat, NEW d \in BOOLEAN,
         NEW sp \in BOOLEAN
  PROVE  LET r == Read(c, s, a, d, sp) IN
         /\ r \in Call /\ r.seen = s /\ r.applied = a /\ r.doneSeen = d
         /\ r.pc = c.pc /\ r.stage = c.stage /\ r.aborted = c.aborted
         /\ \A p \in Stages : [r EXCEPT !.pc = p] \in Call
<1> DEFINE r == Read(c, s, a, d, sp)
<1>1. r \in Call
  BY DEF Call, Read
<1>2. r.seen = s /\ r.applied = a /\ r.doneSeen = d
      /\ r.pc = c.pc /\ r.stage = c.stage /\ r.aborted = c.aborted
  BY DEF Call, Read
<1> QED
  BY <1>1, <1>2, CallUpdates

\* A call that changes its pc alone.
LEMMA PcTo ==
  ASSUME TurnInv, NEW t \in Turns, NEW p \in {"stream", "resume", "local"},
         turn[t].pc \in {"fetch", "stream"}, pcTo(t, p)
  PROVE  \E c : /\ Carries(t, c) /\ turn' = [turn EXCEPT ![t] = c]
                /\ c.seen = turn[t].seen
<1> DEFINE c == [turn[t] EXCEPT !.pc = p]
<1>1. turn[t] \in Call /\ p \in Stages
  BY DEF TurnInv, TurnTypeOK, Stages
<1>2. c \in Call
  BY <1>1, CallUpdates
<1>3. /\ c.pc = p /\ c.seen = turn[t].seen /\ c.applied = turn[t].applied
      /\ c.aborted = turn[t].aborted /\ c.stage = turn[t].stage
  BY <1>1 DEF Call
<1>4. turn[t].applied = turn[t].seen /\ turn[t].stage = 0
  BY DEF TurnInv, SeenIsLogged, HeldIsAnswered
<1>5. Carries(t, c)
  BY <1>2, <1>3, <1>4 DEF Carries
<1>6. turn' = [turn EXCEPT ![t] = c]
  BY DEF pcTo
<1> QED
  BY <1>3, <1>5, <1>6

\* Nothing aborted is under way in a quiet browser but a typed hold.
LEMMA QuietIsLatest ==
  ASSUME TurnInv, Quiet, NEW t \in Turns,
         turn[t].pc \in {"fetch", "stream", "resume", "local"}
  PROVE  t = turnRef /\ publisher = t
  BY DEF TurnInv, ActiveIsLatest, Quiet, Unwinding, Returned

LEMMA FetchedKeeps ==
  ASSUME TurnInv, NEW t \in Turns, Fetched(t) PROVE TurnInv'
<1>1. PICK c : /\ Carries(t, c) /\ turn' = [turn EXCEPT ![t] = c]
               /\ c.seen = turn[t].seen
  BY PcTo DEF Fetched
<1>2. turn[t].seen = 0 /\ turn[t].pc \notin Returned
  BY DEF Fetched, TurnInv, SeenIsLogged, Returned
<1>3. /\ run' = [run EXCEPT ![t].log = <<State("thinking")>>]
      /\ UNCHANGED <<ui, page>> /\ run \in [Turns -> Run] /\ ui \in UI
  BY DEF Fetched, TurnInv, TurnTypeOK
<1>4. <<State("thinking")>> \in Seq(Frame) /\ Len(<<State("thinking")>>) = 1
  BY DEF State, Frame, Kinds, Marks
<1> DEFINE l == <<State("thinking")>>
<1> HIDE DEF l
<1>5. [run[t] EXCEPT !.log = l] \in Run
  BY <1>3, <1>4 DEF Run, l
<1>6. /\ run' \in [Turns -> Run] /\ \A k \in Turns \ {t} : run'[k].log = run[k].log
      /\ run'[t].log = l
  BY <1>3, <1>5 DEF Run, l
<1>7. c.seen <= Len(run'[t].log)
  BY <1>1, <1>2, <1>4, <1>6 DEF l
<1> QED
  BY <1>1, <1>2, <1>3, <1>6, <1>7, CarryKeeps DEF page

\* The branches that leave the stream for a replay or for the local flow.
LEMMA LeavesStream ==
  ASSUME TurnInv, NEW t \in Turns, NEW p \in {"resume", "local"},
         turn[t].pc \in {"fetch", "stream"}, pcTo(t, p),
         UNCHANGED <<ui, page, outbox, run>>
  PROVE  TurnInv'
<1>1. PICK c : /\ Carries(t, c) /\ turn' = [turn EXCEPT ![t] = c]
               /\ c.seen = turn[t].seen
  BY PcTo
<1>2. c.seen <= Len(run'[t].log) /\ turn[t].pc \notin Returned
  BY <1>1 DEF TurnInv, SeenIsLogged, Returned
<1>3. run' \in [Turns -> Run] /\ ui' \in UI /\ ui' = ui /\ run' = run
  BY DEF TurnInv, TurnTypeOK
<1> QED
  BY <1>1, <1>2, <1>3, CarryKeeps DEF page

LEMMA ReceiveKeeps ==
  ASSUME TurnInv, NEW t \in Turns, NEW s \in 1..Len(run[t].log),
         s <= turn[t].seen + 1, Receive(t, s)
  PROVE  TurnInv'
<1> DEFINE f == run[t].log[s]
           done == turn[t].doneSeen \/ f = Done
           sp == turn[t].spoken \/ f.ev = "answer"
           r == [turn[t] EXCEPT !.seen = s, !.applied = @ + 1,
                                !.doneSeen = @ \/ f = Done,
                                !.spoken = @ \/ f.ev = "answer"]
           q == Read(turn[t], s, s, done, sp)
<1>1. /\ turn[t] \in Call /\ run[t] \in Run /\ ui \in UI /\ run \in [Turns -> Run]
      /\ turn[t].pc = "stream" /\ turn[t].stage = 0 /\ turn[t].pc \notin Returned
      /\ turn[t].applied = turn[t].seen
  BY DEF TurnInv, TurnTypeOK, Receive, HeldIsAnswered, SeenIsLogged, Returned
<1>2. t = turnRef
  BY QuietIsLatest DEF Receive
<1>3. f \in Frame /\ s \in Nat /\ s <= Len(run[t].log)
  BY <1>1, LenProperties, ElementOfSeq DEF Run
<1>4. s = turn[t].applied + 1
  BY <1>1, <1>3 DEF Receive, observe, Call
<1>5. done \in BOOLEAN /\ sp \in BOOLEAN
  BY <1>1 DEF Call
<1>6. r = q
  BY <1>1, <1>4 DEF Call, Read
<1>7. /\ activeRunId' \in {None, activeRunId, turnRef}
      /\ UNCHANGED <<turnRef, publisher>>
      /\ \/ f = Done /\ leave(t, "ended", r) /\ ui' = tail(ui)
         \/ /\ turn' = [turn EXCEPT ![t] =
                  IF f = Done THEN [r EXCEPT !.pc = Held(r)] ELSE r]
            /\ ui' = dispatch(ui, t, f)
            /\ UNCHANGED run
  <2> HIDE DEF r
  <2> QED
    BY <1>2 DEF Receive, r
<1> HIDE DEF f, done, sp, r
<1>8. Held(q) \in {"hold", "speak"} /\ Held(q) \in Stages
  BY DEF Held, Stages
<1>9. /\ q \in Call /\ q.seen = s /\ q.applied = s /\ q.doneSeen = done
      /\ q.pc = "stream" /\ q.stage = 0 /\ q.aborted = turn[t].aborted
      /\ [q EXCEPT !.pc = Held(q)] \in Call
  BY <1>1, <1>3, <1>5, <1>8, ReadUpdates
<1> HIDE DEF q
<1>10. CASE f = Done /\ leave(t, "ended", q) /\ ui' = tail(ui)
  <2>1. ui' \in UI /\ ui'.prompt = NoPrompt
    BY <1>1, <1>10, StoreKeeps DEF Marks
  <2> QED
    BY <1>2, <1>7, <1>9, <1>10, <2>1, LeaveKeeps
<1>11. CASE /\ turn' = [turn EXCEPT ![t] =
                  IF f = Done THEN [q EXCEPT !.pc = Held(q)] ELSE q]
            /\ ui' = dispatch(ui, t, f)
            /\ UNCHANGED run
  <2> DEFINE c == IF f = Done THEN [q EXCEPT !.pc = Held(q)] ELSE q
  <2>1. Carries(t, c) /\ c.seen = s
    <3>1. CASE f = Done
      <4>1. c = [q EXCEPT !.pc = Held(q)] /\ done
        BY <3>1 DEF done
      <4>2. /\ c.pc = Held(q) /\ c.seen = s /\ c.applied = s /\ c.doneSeen = done
            /\ c.stage = 0 /\ c.aborted = turn[t].aborted /\ c \in Call
        BY <1>9, <4>1 DEF Call
      <4> HIDE DEF c
      <4> QED
        BY <1>8, <4>1, <4>2 DEF Carries
    <3>2. CASE f # Done
      BY <1>9, <3>2 DEF Carries
    <3> QED
      BY <3>1, <3>2
  <2>2. turn' = [turn EXCEPT ![t] = c]
    BY <1>11
  <2>3. ui' \in UI /\ PromptOfTurn(ui, t, ui')
    BY <1>1, <1>3, <1>11, DispatchKeeps
  <2> HIDE DEF c
  <2> QED
    BY <1>1, <1>2, <1>3, <1>7, <1>11, <2>1, <2>2, <2>3, CarryKeeps DEF PromptOfTurn
<1> QED
  BY <1>6, <1>7, <1>10, <1>11

\* What a replay brings: frames of the log beyond the ones seen.
LEMMA ReplayKeeps ==
  ASSUME TurnInv, NEW t \in Turns
  PROVE  /\ Replay(t) \in Seq(Frame)
         /\ Len(Replay(t)) = Len(run[t].log) - turn[t].seen
<1>1. /\ run[t].log \in Seq(Frame) /\ turn[t].seen \in Nat
      /\ turn[t].seen <= Len(run[t].log)
  BY DEF TurnInv, TurnTypeOK, SeenIsLogged, Run, Call
<1> DEFINE s == run[t].log
           n == turn[t].seen
<1>2. /\ s \in Seq(Frame) /\ n \in Nat /\ n <= Len(s) /\ Len(s) \in Nat
      /\ Replay(t) = SubSeq(s, n + 1, Len(s))
  BY <1>1, LenProperties DEF Replay
<1> HIDE DEF s, n
<1>3. \A i \in (n + 1)..Len(s) : s[i] \in Frame
  BY <1>2, ElementOfSeq
<1>4. SubSeq(s, n + 1, Len(s)) \in Seq(Frame) /\ Len(SubSeq(s, n + 1, Len(s))) = Len(s) - n
  BY <1>2, <1>3, SubSeqProperties
<1> QED
  BY <1>2, <1>4 DEF s, n

LEMMA ReplayedKeeps ==
  ASSUME TurnInv, NEW t \in Turns, NEW terminal \in BOOLEAN, Replayed(t, terminal)
  PROVE  TurnInv'
<1> DEFINE fs == Replay(t)
           N == Len(run[t].log)
           ends == \E n \in 1..Len(fs) : fs[n] = Done
           said == \E n \in 1..Len(fs) : fs[n].ev = "answer"
           sp == turn[t].spoken \/ said
           r == [turn[t] EXCEPT !.seen = N, !.applied = @ + Len(fs),
                                !.doneSeen = ends, !.spoken = @ \/ said]
           q == Read(turn[t], N, N, ends, sp)
           after == dispatchAll(ui, t, fs)
           completes == Completes(t, terminal)
<1>1. /\ turn[t] \in Call /\ ui \in UI /\ run \in [Turns -> Run]
      /\ turn[t].pc = "resume" /\ turn[t].stage = 0 /\ turn[t].pc \notin Returned
      /\ turn[t].applied = turn[t].seen /\ N \in Nat
  BY LenProperties DEF TurnInv, TurnTypeOK, Replayed, HeldIsAnswered, SeenIsLogged, Returned, Run
<1>2. t = turnRef
  BY QuietIsLatest DEF Replayed
<1>3. fs \in Seq(Frame) /\ Len(fs) = N - turn[t].seen
  BY ReplayKeeps
<1>4. after \in UI /\ PromptOfTurn(ui, t, after)
  BY <1>1, <1>3, DispatchAllKeeps
<1>5. ends \in BOOLEAN /\ sp \in BOOLEAN /\ (completes => ends)
  <2>1. completes => ends
    BY DEF Completes
  <2> QED
    BY <1>1, <2>1 DEF Call
<1>6. turn[t].applied + Len(fs) = N
  BY <1>1, <1>3 DEF Call
<1>7. r = q
  BY <1>1, <1>6 DEF Call, Read
<1>8. /\ activeRunId' \in {None, activeRunId, turnRef}
      /\ UNCHANGED <<turnRef, publisher>>
      /\ \/ /\ completes
            /\ turn' = [turn EXCEPT ![t] = [r EXCEPT !.pc = Held(r)]]
            /\ UNCHANGED run /\ ui' = after
         \/ leave(t, "ended", r) /\ ui' \in {tail(after), endTurnWithError(after, t)}
  <2> HIDE DEF r, after, fs, completes
  <2> QED
    BY DEF Replayed, r, after, fs, completes
<1>9. Held(q) \in {"hold", "speak"} /\ Held(q) \in Stages
  BY DEF Held, Stages
<1> HIDE DEF r, after, fs, completes, ends, sp, N
<1>10. /\ q \in Call /\ q.seen = N /\ q.applied = N /\ q.doneSeen = ends
       /\ q.stage = 0 /\ q.aborted = turn[t].aborted
       /\ [q EXCEPT !.pc = Held(q)] \in Call
  BY <1>1, <1>5, <1>9, ReadUpdates
<1> HIDE DEF q
<1>11. CASE leave(t, "ended", q) /\ ui' \in {tail(after), endTurnWithError(after, t)}
  <2>1. ui' \in UI /\ (PromptOfTurn(ui, t, ui') \/ ui'.prompt = NoPrompt)
    <3>1. "idle" \in Marks
      BY DEF Marks
    <3>2. /\ tail(after) \in UI /\ tail(after).prompt = NoPrompt
          /\ endTurnWithError(after, t) \in UI
          /\ endTurnWithError(after, t).prompt = after.prompt
      BY <1>4, <3>1, StoreKeeps
    <3> QED
      BY <1>4, <1>11, <3>2 DEF PromptOfTurn
  <2> QED
    BY <1>2, <1>8, <1>10, <1>11, <2>1, LeaveKeeps
<1>12. CASE /\ completes
            /\ turn' = [turn EXCEPT ![t] = [q EXCEPT !.pc = Held(q)]]
            /\ UNCHANGED run /\ ui' = after
  <2> DEFINE c == [q EXCEPT !.pc = Held(q)]
  <2>1. /\ c.pc = Held(q) /\ c.seen = N /\ c.applied = N /\ c.doneSeen = ends
        /\ c.stage = 0 /\ c.aborted = turn[t].aborted /\ c \in Call
    BY <1>10 DEF Call
  <2>2. turn' = [turn EXCEPT ![t] = c]
    BY <1>12
  <2> HIDE DEF c
  <2>3. Carries(t, c)
    BY <1>5, <1>9, <1>12, <2>1 DEF Carries
  <2>4. c.seen <= Len(run'[t].log)
    BY <1>1, <1>12, <2>1 DEF N
  <2> QED
    BY <1>1, <1>2, <1>4, <1>8, <1>12, <2>2, <2>3, <2>4, CarryKeeps DEF PromptOfTurn
<1> QED
  BY <1>7, <1>8, <1>11, <1>12

LEMMA LocalStepKeeps ==
  ASSUME TurnInv, NEW t \in Turns, LocalStep(t) PROVE TurnInv'
<1> DEFINE k == turn[t].stage + 1
           p == IF k = 6 THEN Held(turn[t]) ELSE turn[t].pc
           c == [turn[t] EXCEPT !.stage = k, !.pc = p]
<1>1. /\ turn[t] \in Call /\ ui \in UI /\ run \in [Turns -> Run] /\ turn \in [Turns -> Call]
      /\ turn[t].pc = "local" /\ turn[t].stage < 6 /\ turn[t].pc \notin Returned
      /\ turn[t].applied = turn[t].seen /\ turn[t].seen <= Len(run[t].log)
  BY DEF TurnInv, TurnTypeOK, LocalStep, HeldIsAnswered, SeenIsLogged, Returned
<1>2. k \in 1..6 /\ p \in Stages /\ (k < 6 => p = "local") /\ (k = 6 => p \in {"hold", "speak"})
  BY <1>1 DEF Call, Held, Stages
<1>3. LocalStages[k] \in Marks
  <2>1. /\ LocalStages[1] = "thinking" /\ LocalStages[2] = "searching"
        /\ LocalStages[3] = "tool_execution" /\ LocalStages[4] = "processing"
        /\ LocalStages[5] = "visualizing" /\ LocalStages[6] = "speaking"
    BY DEF LocalStages
  <2>2. k = 1 \/ k = 2 \/ k = 3 \/ k = 4 \/ k = 5 \/ k = 6
    BY <1>2
  <2> QED
    BY <2>1, <2>2 DEF Marks
<1>4. turn' = [turn EXCEPT ![t] = c] /\ ui' = transition(ui, LocalStages[k])
      /\ UNCHANGED <<page, run>>
  BY <1>1 DEF LocalStep
<1>5. ui' \in UI /\ ui'.prompt = ui.prompt
  BY <1>1, <1>3, <1>4, StoreKeeps
<1>k. k \in 0..6
  BY <1>2
<1> HIDE DEF p, k
<1>6. /\ c \in Call /\ c.stage = k /\ c.pc = p /\ c.seen = turn[t].seen
      /\ c.applied = turn[t].applied /\ c.aborted = turn[t].aborted
  BY <1>1, <1>2, <1>k DEF Call
<1> HIDE DEF c
<1>7. Carries(t, c)
  BY <1>1, <1>2, <1>6 DEF Carries
<1> QED
  BY <1>1, <1>4, <1>5, <1>6, <1>7, CarryKeeps DEF page

\* The ways out of runQuery that report through the store or not at all.
LEMMA ReturnKeeps ==
  ASSUME TurnInv, NEW t \in Turns,
         \/ Refused(t) \/ EndedEarly(t) \/ StreamUnwinds(t) \/ ReplayFails(t)
         \/ HoldEnds(t) \/ SpeechRefused(t) \/ LocalUnwinds(t)
  PROVE  TurnInv'
<1>1. turn[t] \in Call /\ ui \in UI
  BY DEF TurnInv, TurnTypeOK
<1>2. /\ leave(t, "ended", turn[t]) \/ leave(t, "rejected", turn[t])
      /\ ui' \in {ui, endTurnWithError(ui, t), endTurn(ui), tail(ui)}
      /\ UNCHANGED page
  BY DEF Refused, EndedEarly, StreamUnwinds, ReplayFails, HoldEnds, SpeechRefused,
     LocalUnwinds
<1>3. ui' \in UI /\ (PromptOfTurn(ui, t, ui') \/ ui'.prompt = NoPrompt)
      /\ (ui'.prompt # ui.prompt => ui'.prompt = NoPrompt)
  <2>1. "idle" \in Marks
    BY DEF Marks
  <2>2. /\ endTurn(ui) \in UI /\ endTurn(ui).prompt = ui.prompt
        /\ endTurnWithError(ui, t) \in UI
        /\ endTurnWithError(ui, t).prompt = ui.prompt
        /\ tail(ui) \in UI /\ tail(ui).prompt = NoPrompt
    BY <1>1, <2>1, StoreKeeps
  <2> QED
    BY <1>1, <1>2, <2>2 DEF PromptOfTurn
<1>4. NoPrompt.turn # t
  BY DEF NoPrompt, Turns, None
<1> QED
  BY <1>1, <1>2, <1>3, <1>4, LeaveKeeps DEF page

\* What a run publishes is a frame.
LEMMA PublishKeeps ==
  ASSUME TurnInv, NEW t \in Turns, Publish(t) PROVE TurnInv'
<1>1. /\ run[t] \in Run /\ run \in [Turns -> Run] /\ run[t].log \in Seq(Frame)
      /\ ui \in UI
  BY DEF TurnInv, TurnTypeOK, Run
<1>2. PICK f \in NextFrames(t) :
        run' = [run EXCEPT ![t].log = Append(@, f), ![t].verdict = "none"]
  BY DEF Publish
<1>3. f \in Frame
  <2>1. /\ \A s \in Marks : State(s) \in Frame
        /\ \A e \in Kinds : Event(e) \in Frame
        /\ \A i \in 1..MaxAsks : Confirm(i) \in Frame
    BY BoundsAssumption DEF State, Event, Confirm, Frame, Marks, Kinds
  <2>2. /\ State("tool_execution") \in Frame /\ Event("denied") \in Frame
        /\ Event("answer") \in Frame /\ State("error") \in Frame /\ Done \in Frame
        /\ State("speaking") \in Frame /\ Event("error") \in Frame
    BY <2>1 DEF Done, Marks, Kinds
  <2>3. NextFrames(t) \subseteq
          {State("tool_execution"), Event("denied"), Event("answer"), State("error"),
           Done, State("speaking"), Event("error")} \cup {Confirm(i) : i \in 1..MaxAsks}
    BY DEF NextFrames
  <2> QED
    BY <2>1, <2>2, <2>3
<1> DEFINE l == Append(run[t].log, f)
<1>4. l \in Seq(Frame) /\ Len(l) = Len(run[t].log) + 1 /\ Len(run[t].log) \in Nat
  BY <1>1, <1>3, AppendProperties, LenProperties
<1>5. run' = [run EXCEPT ![t] = [run[t] EXCEPT !.log = l, !.verdict = "none"]]
  BY <1>1, <1>2
<1> HIDE DEF l
<1>6. [run[t] EXCEPT !.log = l, !.verdict = "none"] \in Run
      /\ [run[t] EXCEPT !.log = l, !.verdict = "none"].log = l
  BY <1>1, <1>4 DEF Run
<1>7. run' \in [Turns -> Run] /\ \A k \in Turns \ {t} : run'[k] = run[k]
  BY <1>1, <1>5, <1>6
<1>8. run'[t].log = l
  BY <1>1, <1>5, <1>6
<1>9. \A k \in Turns : Len(run[k].log) <= Len(run'[k].log)
  <2>1. \A k \in Turns : Len(run[k].log) \in Nat
    BY <1>1, LenProperties DEF Run
  <2> QED
    BY <1>4, <1>7, <1>8, <2>1
<1> QED
  BY <1>1, <1>7, <1>9, RunKeeps DEF Publish, page

\* Every step keeps the invariant.
LEMMA TurnStepInv == TurnInv /\ [Next]_vars => TurnInv'
<1> SUFFICES ASSUME TurnInv, [Next]_vars PROVE TurnInv'
  OBVIOUS
<1>1. CASE UNCHANGED vars
  BY <1>1 DEF vars, page, TurnInv, TurnTypeOK, SeenIsLogged, HeldIsAnswered,
     ActiveIsLatest, PromptOfLatest, Aborted
<1>3. ui \in UI /\ run \in [Turns -> Run]
  BY DEF TurnInv, TurnTypeOK
<1>4. \A t \in Turns : Len(run[t].log) \in Nat
  BY <1>3, LenProperties DEF Run
<1>5. /\ \A s \in Marks : transition(ui, s) \in UI /\ transition(ui, s).prompt = ui.prompt
      /\ [ui EXCEPT !.prompt = NoPrompt] \in UI
      /\ [ui EXCEPT !.prompt = NoPrompt].prompt = NoPrompt
  <2>1. 1 \in Turns /\ "idle" \in Marks
    BY BoundsAssumption DEF Turns, Marks
  <2> QED
    BY <1>3, <2>1, StoreKeeps DEF UI
<1>6. ASSUME UNCHANGED <<turnRef, publisher, activeRunId, turn, run>>,
             ui' \in UI, ui'.prompt = ui.prompt \/ ui'.prompt = NoPrompt
      PROVE  TurnInv'
  <2>1. \A t \in Turns : Len(run[t].log) <= Len(run'[t].log)
    BY <1>4, <1>6
  <2> QED
    BY <1>3, <1>6, <2>1, RunKeeps
<1>7. CASE Operator
  <2>1. CASE Type
    BY <2>1, AskKeeps DEF Type
  <2>2. CASE MicOn
    BY <2>2, MicOnKeeps
  <2>3. CASE Cancel
    BY <2>3, CancelKeeps
  <2>4. CASE DenyByEscape
    BY <1>5, <1>6, <2>4 DEF DenyByEscape, page
  <2>5. CASE \E approved \in BOOLEAN : AnswerPrompt(approved)
    BY <1>3, <1>6, <2>5 DEF AnswerPrompt, page
  <2>6. CASE MicOff
    BY <1>3, <1>6, <2>6 DEF MicOff
  <2> QED
    BY <1>7, <2>1, <2>2, <2>3, <2>4, <2>5, <2>6 DEF Operator
<1>8. CASE Recogniser
  <2>1. CASE Phrase
    BY <2>1, AskKeeps DEF Phrase
  <2>2. CASE RecogniserEnds
    <3>1. "idle" \in Marks
      BY DEF Marks
    <3> QED
      BY <1>5, <1>6, <2>2, <3>1 DEF RecogniserEnds
  <2> QED
    BY <1>8, <2>1, <2>2 DEF Recogniser
<1>9. CASE Delivery
  <2>1. PICK d \in outbox : DecisionLands(d) \/ DecisionReturns(d)
    BY <1>9 DEF Delivery
  <2>2. CASE DecisionReturns(d)
    BY <1>3, <1>5, <1>6, <2>2 DEF DecisionReturns, page
  <2>3. CASE DecisionLands(d)
    <3> DEFINE t == d.on.turn
               v == IF d.ok THEN "granted" ELSE "denied"
    <3>1. /\ UNCHANGED <<ui, page, turn>>
          /\ run' = run \/ run' = [run EXCEPT ![t].verdict = v]
      BY <2>3 DEF DecisionLands
    <3>2. CASE run' = run
      BY <1>3, <1>6, <3>1, <3>2 DEF page
    <3>3. CASE run' = [run EXCEPT ![t].verdict = v]
      <4>1. run' \in [Turns -> Run] /\ \A k \in Turns : run'[k].log = run[k].log
        <5> HIDE DEF t
        <5> QED
          BY <1>3, <3>3 DEF Run
      <4>2. \A k \in Turns : Len(run[k].log) <= Len(run'[k].log)
        BY <1>4, <4>1
      <4> QED
        BY <1>3, <3>1, <4>1, <4>2, RunKeeps DEF page
    <3> QED
      BY <3>1, <3>2, <3>3
  <2> QED
    BY <2>1, <2>2, <2>3
<1>10. CASE \E t \in Turns : Browser(t) \/ Server(t)
  <2>1. PICK t \in Turns : Browser(t) \/ Server(t)
    BY <1>10
  <2>2. CASE Fetched(t)
    BY <2>2, FetchedKeeps
  <2>3. CASE Unreachable(t)
    <3>1. turn[t].pc \in {"fetch", "stream"} /\ pcTo(t, "local")
          /\ UNCHANGED <<ui, page, outbox, run>>
      BY <2>3 DEF Unreachable
    <3> QED
      BY <3>1, LeavesStream
  <2>4. CASE Interrupted(t)
    <3>1. turn[t].pc \in {"fetch", "stream"} /\ pcTo(t, "resume")
          /\ UNCHANGED <<ui, page, outbox, run>>
      BY <2>4 DEF Interrupted
    <3> QED
      BY <3>1, LeavesStream
  <2>5. CASE \E s \in 1..Len(run[t].log) : s <= turn[t].seen + 1 /\ Receive(t, s)
    BY <2>5, ReceiveKeeps
  <2>6. CASE \E terminal \in BOOLEAN : Replayed(t, terminal)
    BY <2>6, ReplayedKeeps
  <2>7. CASE \/ Refused(t) \/ EndedEarly(t) \/ StreamUnwinds(t) \/ ReplayFails(t)
             \/ HoldEnds(t) \/ SpeechRefused(t) \/ LocalUnwinds(t)
    BY <2>7, ReturnKeeps
  <2>8. CASE LocalStep(t)
    BY <2>8, LocalStepKeeps
  <2>9. CASE Publish(t)
    BY <2>9, PublishKeeps
  <2>10. CASE RunOver(t)
    <3>1. run' \in [Turns -> Run] /\ \A k \in Turns : run'[k].log = run[k].log
      BY <1>3, <2>10 DEF RunOver, Run
    <3>2. \A k \in Turns : Len(run[k].log) <= Len(run'[k].log)
      BY <1>4, <3>1
    <3> QED
      BY <1>3, <2>10, <3>1, <3>2, RunKeeps DEF RunOver, page
  <2> QED
    BY <2>1, <2>2, <2>3, <2>4, <2>5, <2>6, <2>7, <2>8, <2>9, <2>10 DEF Browser, Server
<1> QED
  BY <1>1, <1>7, <1>8, <1>9, <1>10 DEF Next

LEMMA TurnInvHolds == Spec => []TurnInv
  BY TurnInitInv, TurnStepInv, PTL DEF Spec
----------------------------------------------------------------------------
(* The theorems.                                                            *)

\* Live, repeated on the way or replayed, each frame of a run is applied as
\* often as its sequence number is passed: once (streamGuard.ts observe,
\* agentStream.ts tryResume).
THEOREM EveryFrameOnceHolds == Spec => []EveryFrameOnce
<1>1. TurnInv => EveryFrameOnce
  BY DEF TurnInv, SeenIsLogged, EveryFrameOnce
<1> QED
  BY <1>1, TurnInvHolds, PTL

\* A prompt on the screen is of the turn in flight, whatever late frames,
\* replays and decisions came back before (store.ts pendingConfirm).
THEOREM PromptOfLatestHolds == Spec => []PromptOfLatest
<1>1. TurnInv => PromptOfLatest
  BY DEF TurnInv
<1> QED
  BY <1>1, TurnInvHolds, PTL

\* Escape stops the run of the turn it ends, never of another one
\* (agentStream.ts activeRunId, cancelActiveRun).
THEOREM CancelStopsItsOwnHolds == Spec => CancelStopsItsOwn
<1> DEFINE Own == \A t \in Turns : run'[t].stopped /\ ~run[t].stopped => t = turnRef
<1>1. TurnInv /\ [Next]_vars => [Own]_vars
  <2> SUFFICES ASSUME TurnInv, Next, NEW t \in Turns, run'[t].stopped # run[t].stopped
               PROVE  t = turnRef
    BY DEF vars
  <2>1. run \in [Turns -> Run] /\ activeRunId \in {None, turnRef}
    BY DEF TurnInv, TurnTypeOK, ActiveIsLatest
  <2>2. CASE Cancel
    BY <2>1, <2>2 DEF Cancel, cancelActiveRun, cancelRun, None, Run
  <2>3. ASSUME NEW k \in Turns, NEW p, NEW r, leave(k, p, r) PROVE FALSE
    BY <2>1, <2>3 DEF leave, NoRun, Run
  <2>4. ASSUME NEW k \in Turns, Browser(k) PROVE FALSE
    <3>1. ~Fetched(k)
      BY <2>1 DEF Fetched, Run
    <3>2. run' # run
      OBVIOUS
    <3>3. ASSUME NEW s \in 1..Len(run[k].log), Receive(k, s) PROVE FALSE
      <4> DEFINE f == run[k].log[s]
                 r == [turn[k] EXCEPT !.seen = s, !.applied = @ + 1,
                                      !.doneSeen = @ \/ f = Done,
                                      !.spoken = @ \/ f.ev = "answer"]
      <4>1. leave(k, "ended", r) \/ UNCHANGED run
        BY <3>3 DEF Receive
      <4> HIDE DEF r
      <4> QED
        BY <2>3, <3>2, <4>1
    <3>4. ASSUME NEW terminal \in BOOLEAN, Replayed(k, terminal) PROVE FALSE
      <4> DEFINE fs == Replay(k)
                 ends == \E n \in 1..Len(fs) : fs[n] = Done
                 said == \E n \in 1..Len(fs) : fs[n].ev = "answer"
                 r == [turn[k] EXCEPT !.seen = Len(run[k].log), !.applied = @ + Len(fs),
                                      !.doneSeen = ends, !.spoken = @ \/ said]
      <4>1. leave(k, "ended", r) \/ UNCHANGED run
        BY <3>4 DEF Replayed
      <4> HIDE DEF r
      <4> QED
        BY <2>3, <3>2, <4>1
    <3>5. /\ ~Refused(k) /\ ~EndedEarly(k) /\ ~StreamUnwinds(k) /\ ~ReplayFails(k)
          /\ ~HoldEnds(k) /\ ~SpeechRefused(k) /\ ~LocalUnwinds(k)
      BY <2>3 DEF Refused, EndedEarly, StreamUnwinds, ReplayFails, HoldEnds,
         SpeechRefused, LocalUnwinds
    <3>6. ~Unreachable(k) /\ ~Interrupted(k) /\ ~LocalStep(k)
      BY <3>2 DEF Unreachable, Interrupted, LocalStep
    <3> QED
      BY <2>4, <3>1, <3>3, <3>4, <3>5, <3>6 DEF Browser
  <2>5. ASSUME NEW k \in Turns, Server(k) PROVE FALSE
    <3>1. ~RunOver(k)
      BY <2>1 DEF RunOver, Run
    <3>2. ~Publish(k)
      <4> SUFFICES ASSUME Publish(k) PROVE FALSE
        OBVIOUS
      <4>1. PICK f : run' = [run EXCEPT ![k].log = Append(@, f), ![k].verdict = "none"]
        BY DEF Publish
      <4> DEFINE l == Append(run[k].log, f)
      <4>2. run' = [run EXCEPT ![k] = [run[k] EXCEPT !.log = l, !.verdict = "none"]]
        BY <2>1, <4>1
      <4> HIDE DEF l
      <4> QED
        BY <2>1, <4>2 DEF Run
    <3> QED
      BY <2>5, <3>1, <3>2 DEF Server
  <2>6. ASSUME NEW d \in outbox, DecisionLands(d) PROVE FALSE
    <3> DEFINE v == IF d.ok THEN "granted" ELSE "denied"
               k == d.on.turn
    <3>1. run' = [run EXCEPT ![k].verdict = v]
      BY <2>6 DEF DecisionLands
    <3> HIDE DEF v, k
    <3>2. run'[t] = IF t = k THEN [run[t] EXCEPT !.verdict = v] ELSE run[t]
      BY <2>1, <3>1
    <3>3. run[t] \in Run
      BY <2>1
    <3>4. [run[t] EXCEPT !.verdict = v].stopped = run[t].stopped
      BY <3>3 DEF Run
    <3>5. run'[t].stopped = run[t].stopped
      BY <3>2, <3>4
    <3> QED
      BY <3>5
  <2>7. run' = run \/ Cancel \/ (\E k \in Turns : Browser(k) \/ Server(k))
        \/ (\E d \in outbox : DecisionLands(d))
    BY DEF Next, Operator, Recogniser, Delivery, Type, MicOn, DenyByEscape, AnswerPrompt,
       Phrase, MicOff, RecogniserEnds, Ask, DecisionReturns
  <2> QED
    BY <2>2, <2>4, <2>5, <2>6, <2>7
<1> QED
  BY <1>1, TurnInvHolds, PTL DEF Spec, CancelStopsItsOwn

\* A call that nobody aborted ends with its done, with the operator told, or
\* with the offline flow played to its end (agentStream.ts runQuery).
THEOREM EndsAreToldHolds == Spec => EndsAreTold
<1> DEFINE Told == \A t \in Turns :
             turn'[t].pc = "ended" /\ turn[t].pc # "ended" /\ ~Aborted(t) =>
               turn'[t].doneSeen \/ ui'.error = t \/ turn[t].stage = 6
<1>1. TurnInv /\ [Next]_vars => [Told]_vars
  <2> SUFFICES ASSUME TurnInv, Next, NEW t \in Turns,
                      turn'[t].pc = "ended", turn[t].pc # "ended", ~Aborted(t)
               PROVE  turn'[t].doneSeen \/ ui'.error = t \/ turn[t].stage = 6
    BY DEF vars
  <2>1. TurnTypeOK /\ turn \in [Turns -> Call] /\ ui \in UI /\ HeldIsAnswered
    BY DEF TurnInv, TurnTypeOK
  <2>2. ASSUME NEW k \in Turns, NEW p, NEW r, leave(k, p, r)
        PROVE  k = t /\ turn'[t].doneSeen = r.doneSeen /\ p = "ended"
    BY <2>1, <2>2 DEF leave, Unused, Call
  <2>3. ASSUME NEW voice \in BOOLEAN, Ask(voice) PROVE FALSE
    <3>1. PICK n \in Turns :
        turn' = [Hush(abortOf(turn)) EXCEPT ![n].pc = "fetch", ![n].voice = voice]
      BY <2>3 DEF Ask, NextTurn
    <3>2. AskedBy(n)
      BY <2>1, <3>1, AskChanges
    <3> QED
      BY <3>2 DEF AskedBy
  <2>4. ~Cancel
    BY <2>1, SilenceChanges DEF Cancel, Silenced
  <2>5. ~MicOn
    <3> SUFFICES ASSUME MicOn PROVE FALSE
      OBVIOUS
    <3>1. turn'[t] = [turn[t] EXCEPT !.pc = IF @ = "speak" THEN "hushed" ELSE @]
      BY <2>1, HushKeeps DEF MicOn
    <3>2. turn[t] \in Call
      BY <2>1
    <3> QED
      BY <3>1, <3>2 DEF Call
  <2>6. PICK i \in Turns : Browser(i)
    BY <2>3, <2>4, <2>5 DEF Next, Operator, Recogniser, Delivery, Type, DenyByEscape,
       AnswerPrompt, Phrase, MicOff, RecogniserEnds, DecisionLands, DecisionReturns, Server, Publish, RunOver
  <2>7. i = t
    BY <2>1, <2>2, <2>6 DEF Browser, Fetched, Refused, Unreachable, Receive, EndedEarly,
       Interrupted, StreamUnwinds, Replayed, ReplayFails, HoldEnds, SpeechRefused,
       LocalStep, LocalUnwinds, pcTo
  <2>8. endTurnWithError(ui, t).error = t
    BY <2>1 DEF endTurnWithError, endTurn, UI
  <2>9. CASE Refused(t) \/ EndedEarly(t) \/ ReplayFails(t)
    BY <2>8, <2>9 DEF Refused, EndedEarly, ReplayFails
  <2>10. CASE HoldEnds(t)
    <3>1. turn[t].doneSeen \/ turn[t].stage = 6
      BY <2>1, <2>10 DEF HoldEnds, HeldIsAnswered
    <3>2. turn'[t].doneSeen = turn[t].doneSeen
      BY <2>2, <2>10 DEF HoldEnds
    <3> QED
      BY <3>1, <3>2
  <2>11. ~SpeechRefused(t) /\ ~StreamUnwinds(t) /\ ~LocalUnwinds(t)
    BY <2>2 DEF SpeechRefused, StreamUnwinds, LocalUnwinds
  <2>12. ~Fetched(t) /\ ~Unreachable(t) /\ ~Interrupted(t)
    BY <2>1 DEF Fetched, Unreachable, Interrupted, pcTo, Call
  <2>13. ~LocalStep(t)
    <3> SUFFICES ASSUME LocalStep(t) PROVE FALSE
      OBVIOUS
    <3> DEFINE k == turn[t].stage + 1
               q == IF k = 6 THEN Held(turn[t]) ELSE turn[t].pc
    <3>1. turn' = [turn EXCEPT ![t] = [@ EXCEPT !.stage = k, !.pc = q]]
      BY DEF LocalStep
    <3>2. q # "ended"
      BY DEF Held
    <3> HIDE DEF k, q
    <3> QED
      BY <2>1, <3>1, <3>2 DEF Call
  <2>14. ASSUME NEW s \in 1..Len(run[t].log), Receive(t, s)
         PROVE  turn'[t].doneSeen
    <3> DEFINE f == run[t].log[s]
               r == [turn[t] EXCEPT !.seen = s, !.applied = @ + 1,
                                    !.doneSeen = @ \/ f = Done,
                                    !.spoken = @ \/ f.ev = "answer"]
    <3>1. \/ f = Done /\ leave(t, "ended", r)
          \/ turn' = [turn EXCEPT ![t] =
                         IF f = Done THEN [r EXCEPT !.pc = Held(r)] ELSE r]
      <4> HIDE DEF r
      <4> QED
        BY <2>14 DEF Receive, r
    <3>2. r.pc = "stream" /\ (f = Done => r.doneSeen)
      <4> DEFINE a == turn[t].applied + 1
                 d == turn[t].doneSeen \/ f = Done
                 sp == turn[t].spoken \/ f.ev = "answer"
      <4>1. /\ a \in Nat /\ d \in BOOLEAN /\ sp \in BOOLEAN /\ turn[t] \in Call
            /\ turn[t].pc = "stream" /\ s \in Nat
        BY <2>1, <2>14 DEF Receive, Call
      <4>2. r = Read(turn[t], s, a, d, sp)
        BY DEF Read
      <4> HIDE DEF a, d, sp, r
      <4>3. r.pc = "stream" /\ r.doneSeen = d
        BY <4>1, <4>2, ReadUpdates
      <4> QED
        BY <4>3 DEF d
    <3>3. DOMAIN r = DOMAIN turn[t] /\ "pc" \in DOMAIN turn[t]
      BY <2>1 DEF Call
    <3>4. Held(r) # "ended"
      BY DEF Held
    <3> HIDE DEF r, f
    <3>5. CASE leave(t, "ended", r) /\ f = Done
      BY <2>2, <3>2, <3>5
    <3>6. CASE turn' = [turn EXCEPT ![t] =
                          IF f = Done THEN [r EXCEPT !.pc = Held(r)] ELSE r]
      <4>1. turn'[t] = IF f = Done THEN [r EXCEPT !.pc = Held(r)] ELSE r
        BY <2>1, <3>6
      <4>2. [r EXCEPT !.pc = Held(r)].pc = Held(r)
        BY <3>3
      <4> QED
        BY <3>2, <3>4, <4>1, <4>2
    <3> QED
      BY <3>1, <3>5, <3>6
  <2>15. ASSUME NEW terminal \in BOOLEAN, Replayed(t, terminal)
         PROVE  turn'[t].doneSeen \/ ui'.error = t
    <3> DEFINE fs == Replay(t)
               ends == \E n \in 1..Len(fs) : fs[n] = Done
               said == \E n \in 1..Len(fs) : fs[n].ev = "answer"
               r == [turn[t] EXCEPT !.seen = Len(run[t].log), !.applied = @ + Len(fs),
                                    !.doneSeen = ends, !.spoken = @ \/ said]
               after == dispatchAll(ui, t, fs)
               completes == Completes(t, terminal)
    <3>1. \/ turn' = [turn EXCEPT ![t] = [r EXCEPT !.pc = Held(r)]]
          \/ leave(t, "ended", r) /\ (completes \/ ui' = endTurnWithError(after, t))
      <4> HIDE DEF r, fs, after, completes
      <4> QED
        BY <2>15 DEF Replayed, r, fs, after, completes
    <3>2. after \in UI
      BY <2>1, ReplayKeeps, DispatchAllKeeps
    <3>3. endTurnWithError(after, t).error = t
      BY <3>2 DEF endTurnWithError, endTurn, UI
    <3>4. completes => ends
      BY DEF Completes
    <3>5. r.doneSeen = ends /\ "pc" \in DOMAIN r
      BY <2>1 DEF Call
    <3>6. Held(r) # "ended"
      BY DEF Held
    <3> HIDE DEF r, fs, after, completes, ends
    <3>7. CASE leave(t, "ended", r) /\ (completes \/ ui' = endTurnWithError(after, t))
      BY <2>2, <3>3, <3>4, <3>5, <3>7
    <3>8. CASE turn' = [turn EXCEPT ![t] = [r EXCEPT !.pc = Held(r)]]
      <4>1. turn'[t] = [r EXCEPT !.pc = Held(r)]
        BY <2>1, <3>8
      <4> QED
        BY <3>5, <3>6, <4>1
    <3> QED
      BY <3>1, <3>7, <3>8
  <2> QED
    BY <2>6, <2>7, <2>9, <2>10, <2>11, <2>12, <2>13, <2>14, <2>15 DEF Browser
<1> QED
  BY <1>1, TurnInvHolds, PTL DEF Spec, EndsAreTold
=============================================================================
