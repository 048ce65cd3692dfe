------------------------- MODULE SpeechPlaybackProofs -----------------------
(***************************************************************************)
(* Speech out and in, for any number of turns, presses and chunks.         *)
(*                                                                         *)
(* One voice: a call that speaks and was not aborted is the one            *)
(* speakController belongs to, and that is the turn in flight              *)
(* (VoiceIsTurns); while the microphone is open it is also the last one    *)
(* that began since, for opening it took the controller away.  The         *)
(* accounts of the player are those of the call that owns it               *)
(* (CountsAreOwners): what is pending is in the worklet or reported and    *)
(* not counted yet, which is why a drained play was heard, and the counter *)
(* the two-phase rule reads is the utterance's own.  A live device stream  *)
(* is the one the microphone wants (StreamIsWanted).                       *)
(***************************************************************************)
EXTENDS SpeechPlayback, TLAPS

Pcs == {"unused", "refused", "ended"} \cup Waiting \cup Speaking
Outs == {"", "spoken", "quiet", "silenced", "told"}
Utt == [pc : Pcs, signal : BOOLEAN, known : BOOLEAN, fed : Nat, pending : Nat,
        queue : Nat, reports : Nat, out : Outs]
Voice == Utterances \cup {None}
Player == [owner : Voice, graph : Voice, held : BOOLEAN, ready : Voice,
           frames : Nat, played : Nat]
Wishes == Attaches \cup {None}
Mic == [stop : BOOLEAN, owner : Wishes, running : Int, stopped : Int, heard : Int,
        over : Voice]
Steps == {"unused", "device", "resume", "resumed", "attached", "over"}

SpeechTypeOK ==
  /\ utt \in [Utterances -> Utt]
  /\ turnRef \in Voice /\ ctrl \in Voice /\ engine \in Voice
  /\ player \in Player /\ mic \in Mic /\ attach \in [Attaches -> Steps]

\* A stream that is live is the one asked for last, and the button is on.
StreamIsWanted ==
  /\ \A a \in Attaches : attach[a] = "attached" => mic.owner = a
  /\ mic.owner # None => mic.stop

\* Who speaks and was not aborted has the controller, which is of the turn in
\* flight; the engine and the player serve nobody who was aborted.
VoiceIsTurns ==
  /\ \A u \in Utterances :
       /\ utt[u].pc \in Speaking /\ ~utt[u].signal => ctrl = u
       /\ utt[u].pc \in Waiting => turnRef = u
       /\ engine = u => /\ turnRef = u /\ ~utt[u].signal
                        /\ mic.stop => mic.over = u
                        /\ utt[u].pc \in {"synth", "ended"}
       /\ player.owner = u => ~utt[u].signal
  /\ ctrl # None => /\ utt[ctrl].pc \in Speaking /\ turnRef = ctrl
                    /\ mic.stop => mic.over = ctrl
  /\ player.graph # None => player.graph = player.owner

\* Nothing was fed before the body, and nothing is left after the end.
Silent == {"unused", "asked", "answering", "fetch", "synth", "refused", "resume", "resumed",
           "module"}

Counted(c, u, p) ==
  /\ c.fed <= MaxChunks
  /\ c.pc \in Silent => c.fed = 0 /\ c.pending = 0 /\ c.queue = 0 /\ c.reports = 0
  /\ c.pc = "ended" => c.queue = 0
  /\ c.out # "" => c.pc = "ended"
  /\ c.out = "told" => c.fed = 0
  /\ p.owner = u /\ c.pc \in Playing =>
       /\ c.pending = c.queue + c.reports /\ p.played + c.pending = c.fed
       /\ p.frames = c.fed

CountsAreOwners == \A u \in Utterances : Counted(utt[u], u, player)

SpeechInv ==
  SpeechTypeOK /\ StreamIsWanted /\ VoiceIsTurns /\ CountsAreOwners

LEMMA SpeechInitInv == Init => SpeechInv
<1> SUFFICES ASSUME Init PROVE SpeechInv
  OBVIOUS
<1>a. Unused \in Utt /\ None \in Voice /\ "unused" \in Steps
  BY DEF Unused, Utt, Pcs, Waiting, Outs, Voice, Steps
<1>b. \A u \in Utterances : utt[u] = Unused
  BY DEF Init
<1>c. Unused.pc = "unused" /\ Unused.fed = 0 /\ Unused.pending = 0 /\ Unused.queue = 0
      /\ Unused.reports = 0 /\ Unused.out = ""
  BY DEF Unused
<1>d. turnRef = None /\ ctrl = None /\ engine = None /\ player.owner = None
      /\ player.graph = None /\ mic.owner = None /\ ~mic.stop
      /\ \A a \in Attaches : attach[a] = "unused"
  BY DEF Init
<1>e. "unused" \notin Speaking /\ "unused" \notin Playing /\ "unused" \notin Waiting
  BY DEF Speaking, Playing, Waiting
<1>f. \A u \in Utterances : u # None
  BY DEF Utterances, None
<1>1. SpeechTypeOK
  <2>0. None \in Wishes
    BY DEF Wishes
  <2>1. player \in Player
    BY <1>a DEF Init, Player
  <2>3. mic \in Mic
    <3>1. mic = [stop |-> FALSE, owner |-> None, running |-> 0, stopped |-> 0,
                 heard |-> 0, over |-> None]
      BY DEF Init
    <3>2. 0 \in Int /\ FALSE \in BOOLEAN
      OBVIOUS
    <3> QED
      BY <1>a, <2>0, <3>1, <3>2, Zenon DEF Mic
  <2>2. utt \in [Utterances -> Utt] /\ attach \in [Attaches -> Steps]
    BY <1>a DEF Init
  <2> QED
    BY <1>a, <1>d, <2>1, <2>2, <2>3 DEF SpeechTypeOK
<1>2. StreamIsWanted /\ VoiceIsTurns
  BY <1>b, <1>c, <1>d, <1>e, <1>f DEF StreamIsWanted, VoiceIsTurns
<1>3. CountsAreOwners
  <2>1. 0 <= MaxChunks
    BY SpeechAssumption
  <2> QED
    BY <1>b, <1>c, <1>e, <2>1 DEF CountsAreOwners, Counted
<1> QED
  BY <1>1, <1>2, <1>3 DEF SpeechInv

\* What the invariant is for.
LEMMA InvGivesOneVoice ==
  ASSUME SpeechInv PROVE OneVoice
<1>1. ASSUME NEW u \in Utterances, Audible(u)
      PROVE  turnRef = u /\ ~utt[u].signal /\ (mic.stop => mic.over = u)
  <2>1. CASE engine = u
    BY <2>1 DEF SpeechInv, VoiceIsTurns
  <2>2. CASE player.graph = u /\ utt[u].queue > 0
    <3>1. player.owner = u /\ ~utt[u].signal
      BY <2>2 DEF SpeechInv, VoiceIsTurns, Utterances, None
    <3>2. utt[u] \in Utt /\ Counted(utt[u], u, player)
      BY DEF SpeechInv, SpeechTypeOK, CountsAreOwners
    <3>3. utt[u].pc \in Speaking
      <4>1. utt[u].queue # 0
        BY <2>2
      <4>2. utt[u].pc \notin Silent /\ utt[u].pc # "ended"
        BY <4>1, <3>2 DEF Counted
      <4>3. utt[u].pc \in Pcs
        BY <3>2 DEF Utt
      <4> QED
        BY <4>2, <4>3 DEF Silent, Pcs, Waiting, Speaking, Playing
    <3>4. ctrl = u /\ u # None
      BY <3>1, <3>3 DEF SpeechInv, VoiceIsTurns, Utterances, None
    <3>5. turnRef = u /\ (mic.stop => mic.over = u)
      BY <3>4 DEF SpeechInv, VoiceIsTurns
    <3> QED
      BY <3>1, <3>5
  <2> QED
    BY <1>1, <2>1, <2>2 DEF Audible
<1>2. ASSUME NEW u \in Utterances, engine = u PROVE utt[u].queue = 0
  <2>1. utt[u].pc \in {"synth", "ended"} /\ Counted(utt[u], u, player)
    BY <1>2 DEF SpeechInv, VoiceIsTurns, CountsAreOwners
  <2> QED
    BY <2>1 DEF Counted, Silent
<1> QED
  BY <1>1, <1>2 DEF OneVoice

LEMMA InvGivesRest ==
  ASSUME SpeechInv PROVE NeverTwice /\ EndedMeansHeard /\ MicFollowsWish
<1>1. NeverTwice
  BY DEF SpeechInv, CountsAreOwners, Counted, NeverTwice, Silent
<1>2. EndedMeansHeard
  BY DEF SpeechInv, CountsAreOwners, Counted, EndedMeansHeard
<1>3. MicFollowsWish
  BY DEF SpeechInv, StreamIsWanted, MicFollowsWish, isMicAttached, Attaches, None
<1> QED
  BY <1>1, <1>2, <1>3
----------------------------------------------------------------------------
(* Steps of one call.                                                       *)

\* The step makes a call's record one with these fields.
Uttered(c, p, kn, f, pe, q, r, o) ==
  [c EXCEPT !.pc = p, !.known = kn, !.fed = f, !.pending = pe, !.queue = q,
            !.reports = r, !.out = o]

Reads(k, c, p, f, pe, q, r, o) ==
  /\ k \in Utt /\ k.pc = p /\ k.signal = c.signal /\ k.fed = f /\ k.pending = pe
  /\ k.queue = q /\ k.reports = r /\ k.out = o

LEMMA UttUpdates ==
  \A c \in Utt, p \in Pcs, kn \in BOOLEAN, f \in Nat, pe \in Nat, q \in Nat, r \in Nat, o \in Outs :
    Reads(Uttered(c, p, kn, f, pe, q, r, o), c, p, f, pe, q, r, o)
<1> SUFFICES ASSUME NEW c \in Utt, NEW p \in Pcs, NEW kn \in BOOLEAN, NEW f \in Nat,
                    NEW pe \in Nat, NEW q \in Nat, NEW r \in Nat, NEW o \in Outs
             PROVE  Reads(Uttered(c, p, kn, f, pe, q, r, o), c, p, f, pe, q, r, o)
  OBVIOUS
<1> QED
  BY DEF Utt, Uttered, Reads

\* One call changes, and its record reads so afterwards.
Goes(u, p, f, pe, q, r, o) ==
  /\ utt' \in [Utterances -> Utt] /\ \A w \in Utterances \ {u} : utt'[w] = utt[w]
  /\ Reads(utt'[u], utt[u], p, f, pe, q, r, o)

LEMMA UttGoes ==
  ASSUME SpeechTypeOK, NEW u \in Utterances, NEW p \in Pcs, NEW kn \in BOOLEAN,
         NEW f \in Nat, NEW pe \in Nat, NEW q \in Nat, NEW r \in Nat, NEW o \in Outs,
         utt' = [utt EXCEPT ![u] = Uttered(@, p, kn, f, pe, q, r, o)]
  PROVE  Goes(u, p, f, pe, q, r, o)
<1>1. utt \in [Utterances -> Utt] /\ utt[u] \in Utt
  BY DEF SpeechTypeOK
<1> DEFINE k == Uttered(utt[u], p, kn, f, pe, q, r, o)
<1>2. Reads(k, utt[u], p, f, pe, q, r, o)
  BY <1>1, UttUpdates, Zenon
<1>3. utt' = [utt EXCEPT ![u] = k] /\ k \in Utt
  BY <1>2 DEF Reads
<1> HIDE DEF k
<1>4. utt'[u] = k /\ utt' \in [Utterances -> Utt] /\ \A w \in Utterances \ {u} : utt'[w] = utt[w]
  BY <1>1, <1>3
<1> QED
  BY <1>2, <1>4 DEF Goes

\* A player that belongs to nobody new keeps the accounts of any other owner.
SamePlayer(p, u) ==
  /\ p \in Player /\ p.owner = player.owner /\ p.graph \in {None, player.graph}
  /\ player.owner # u => p.frames = player.frames /\ p.played = player.played

\* A call settles, or is refused: its controller goes with it.
LEMMA EndsKeeps ==
  ASSUME SpeechInv, NEW u \in Utterances, NEW o \in Outs, NEW pe, NEW r,
         NEW p \in {"ended", "refused"}, Goes(u, p, utt[u].fed, pe, 0, r, o),
         o = "told" => utt[u].fed = 0,
         p = "refused" => utt[u].pc = "fetch" /\ Counted(utt'[u], u, player'),
         ctrl' = IF ctrl = u THEN None ELSE ctrl,
         engine' \in {engine, None}, SamePlayer(player', u), UNCHANGED mine
  PROVE  SpeechInv'
<1>1. SpeechTypeOK /\ VoiceIsTurns /\ CountsAreOwners /\ StreamIsWanted
      /\ turnRef' = turnRef /\ mic' = mic /\ attach' = attach /\ None \in Voice
  BY DEF SpeechInv, mine, Voice
<1>2. SpeechTypeOK'
  BY <1>1 DEF SpeechTypeOK, Goes, SamePlayer
<1>3. /\ \A w \in Utterances \ {u} : utt'[w] = utt[w]
      /\ utt'[u].pc = p /\ utt'[u].signal = utt[u].signal
      /\ utt'[u].fed = utt[u].fed /\ utt'[u].queue = 0 /\ utt'[u].out = o
  BY DEF Goes, Reads
<1>4. player'.owner = player.owner /\ player'.graph \in {None, player.graph}
      /\ (player.owner # u => player'.frames = player.frames /\ player'.played = player.played)
  BY DEF SamePlayer
<1>5. VoiceIsTurns'
  <2>1. p \notin Speaking /\ p \notin Waiting
    BY DEF Speaking, Playing, Waiting
  <2>3. ASSUME NEW w \in Utterances
        PROVE  /\ utt'[w].pc \in Speaking /\ ~utt'[w].signal => ctrl' = w
               /\ utt'[w].pc \in Waiting => turnRef' = w
               /\ engine' = w => /\ turnRef' = w /\ ~utt'[w].signal
                                 /\ mic'.stop => mic'.over = w
                                 /\ utt'[w].pc \in {"synth", "ended"}
               /\ player'.owner = w => ~utt'[w].signal
    <3>1. CASE w # u
      <4>1. utt'[w] = utt[w]
        BY <1>3, <3>1
      <4>2. engine' = w => engine = w
        BY DEF Utterances, None
      <4> QED
        BY <1>1, <1>4, <3>1, <4>1, <4>2 DEF VoiceIsTurns
    <3>2. CASE w = u
      <4>2. engine' = u => engine = u
        BY DEF Utterances, None
      <4>3. engine = u => p = "ended"
        BY <1>1 DEF VoiceIsTurns
      <4> QED
        BY <1>1, <1>3, <1>4, <2>1, <3>2, <4>2, <4>3 DEF VoiceIsTurns
    <3> QED
      BY <3>1, <3>2
  <2>4. ctrl' # None => /\ utt'[ctrl'].pc \in Speaking /\ turnRef' = ctrl'
                        /\ mic'.stop => mic'.over = ctrl'
    <3>1. CASE ctrl' # None
      <4>1. ctrl' = ctrl /\ ctrl # u /\ ctrl \in Utterances
        BY <1>1, <3>1 DEF SpeechTypeOK, Voice
      <4> QED
        BY <1>1, <1>3, <3>1, <4>1 DEF VoiceIsTurns
    <3> QED
      BY <3>1
  <2>5. player'.graph # None => player'.graph = player'.owner
    BY <1>1, <1>4 DEF VoiceIsTurns
  <2> QED
    BY <2>3, <2>4, <2>5 DEF VoiceIsTurns
<1>6. ASSUME NEW w \in Utterances PROVE Counted(utt'[w], w, player')
  <2>1. Counted(utt[w], w, player)
    BY <1>1 DEF CountsAreOwners
  <2>2. CASE w # u
    BY <1>3, <1>4, <2>1, <2>2 DEF Counted
  <2>3. CASE w = u
    <3>1. CASE p = "ended"
      BY <1>3, <2>1, <2>3, <3>1 DEF Counted, Silent, Playing
    <3>2. CASE p = "refused"
      BY <2>3, <3>2
    <3> QED
      BY <3>1, <3>2
  <2> QED
    BY <2>2, <2>3
<1>7. CountsAreOwners' /\ StreamIsWanted'
  BY <1>1, <1>6 DEF CountsAreOwners, StreamIsWanted
<1> QED
  BY <1>2, <1>5, <1>7 DEF SpeechInv

\* The engine takes over a call of which nothing was fed.
LEMMA ReadsKeeps ==
  ASSUME SpeechInv, NEW u \in Utterances, utt[u].pc \in Speaking, ~utt[u].signal,
         Goes(u, "synth", 0, 0, 0, 0, utt[u].out),
         engine' = u, ctrl' = ctrl, SamePlayer(player', u), UNCHANGED mine
  PROVE  SpeechInv'
<1>1. SpeechTypeOK /\ VoiceIsTurns /\ CountsAreOwners /\ StreamIsWanted
      /\ turnRef' = turnRef /\ mic' = mic /\ attach' = attach /\ None \in Voice
  BY DEF SpeechInv, mine, Voice
<1>2. SpeechTypeOK'
  BY <1>1 DEF SpeechTypeOK, Goes, SamePlayer, Voice
<1>3. /\ \A w \in Utterances \ {u} : utt'[w] = utt[w]
      /\ utt'[u].pc = "synth" /\ utt'[u].signal = utt[u].signal
      /\ utt'[u].fed = 0 /\ utt'[u].queue = 0 /\ utt'[u].out = utt[u].out
      /\ utt'[u].pending = 0 /\ utt'[u].reports = 0
  BY DEF Goes, Reads
<1>4. player'.owner = player.owner /\ player'.graph \in {None, player.graph}
      /\ (player.owner # u => player'.frames = player.frames /\ player'.played = player.played)
  BY DEF SamePlayer
<1>5. VoiceIsTurns'
  <2>1. "synth" \in Speaking /\ u # None /\ "synth" \notin Waiting
    BY DEF Speaking, Playing, Waiting, Utterances, None
  <2>2. ctrl = u /\ turnRef = u
    BY <1>1, <2>1 DEF VoiceIsTurns
  <2>3. mic.stop => mic.over = u
    BY <1>1, <2>1, <2>2 DEF VoiceIsTurns
  <2> QED
    BY <1>1, <1>3, <1>4, <2>1, <2>2, <2>3 DEF VoiceIsTurns
<1>6. ASSUME NEW w \in Utterances PROVE Counted(utt'[w], w, player')
  <2>1. Counted(utt[w], w, player)
    BY <1>1 DEF CountsAreOwners
  <2>2. CASE w # u
    BY <1>3, <1>4, <2>1, <2>2 DEF Counted
  <2>3. CASE w = u
    <3>0. utt[u].pc # "ended"
      BY DEF Speaking, Playing
    <3>1. utt[u].out = ""
      BY <2>1, <2>3, <3>0 DEF Counted
    <3>2. 0 <= MaxChunks
      BY SpeechAssumption
    <3> QED
      BY <1>3, <2>1, <2>3, <3>1, <3>2 DEF Counted, Silent, Playing
  <2> QED
    BY <2>2, <2>3
<1>7. CountsAreOwners' /\ StreamIsWanted'
  BY <1>1, <1>6 DEF CountsAreOwners, StreamIsWanted
<1> QED
  BY <1>2, <1>5, <1>7 DEF SpeechInv

\* A call goes on speaking; the player stays whose it is or becomes the call's.
LEMMA MovesKeeps ==
  ASSUME SpeechInv, NEW u \in Utterances, NEW p \in Playing, NEW f, NEW pe, NEW q, NEW r,
         utt[u].pc \in {"fetch"} \cup Playing,
         Goes(u, p, f, pe, q, r, utt[u].out), Counted(utt'[u], u, player'),
         player' \in Player,
         \/ /\ player'.owner = player.owner
            /\ \/ player'.frames = player.frames /\ player'.played = player.played
               \/ player.owner = u
         \/ player'.owner = u /\ ~utt[u].signal,
         player'.graph \in {None, player'.owner},
         UNCHANGED <<engine, ctrl, mine>>
  PROVE  SpeechInv'
<1>1. SpeechTypeOK /\ VoiceIsTurns /\ CountsAreOwners /\ StreamIsWanted
      /\ turnRef' = turnRef /\ mic' = mic /\ attach' = attach /\ engine' = engine
      /\ ctrl' = ctrl
  BY DEF SpeechInv, mine
<1>2. SpeechTypeOK'
  BY <1>1 DEF SpeechTypeOK, Goes
<1>3. /\ \A w \in Utterances \ {u} : utt'[w] = utt[w]
      /\ utt'[u].pc = p /\ utt'[u].signal = utt[u].signal
  BY DEF Goes, Reads
<1>4. VoiceIsTurns'
  <2>1. p \in Speaking /\ p \notin Waiting /\ utt[u].pc \in Speaking
        /\ utt[u].pc \notin {"synth", "ended"}
    BY DEF Speaking, Playing, Waiting
  <2>2. engine # u
    BY <1>1, <2>1 DEF VoiceIsTurns
  <2> QED
    BY <1>1, <1>3, <2>1, <2>2 DEF VoiceIsTurns, SpeechTypeOK, Voice
<1>5. ASSUME NEW w \in Utterances PROVE Counted(utt'[w], w, player')
  <2>1. Counted(utt[w], w, player)
    BY <1>1 DEF CountsAreOwners
  <2>2. CASE w # u
    <3>0. utt'[w] = utt[w]
      BY <1>3, <2>2
    <3>1. CASE player'.owner = w
      <4>1. player'.owner = player.owner /\ player'.frames = player.frames
            /\ player'.played = player.played
        BY <2>2, <3>1
      <4> QED
        BY <2>1, <3>0, <4>1 DEF Counted
    <3>2. CASE player'.owner # w
      BY <2>1, <3>0, <3>2 DEF Counted
    <3> QED
      BY <3>1, <3>2
  <2>3. CASE w = u
    BY <2>3
  <2> QED
    BY <2>2, <2>3
<1>6. CountsAreOwners' /\ StreamIsWanted'
  BY <1>1, <1>5 DEF CountsAreOwners, StreamIsWanted
<1> QED
  BY <1>2, <1>4, <1>6 DEF SpeechInv

LEMMA UttSettles ==
  ASSUME SpeechInv, NEW u \in Utterances, NEW o \in Outs, Settles(u, o),
         o = "spoken" => utt[u].queue = 0
  PROVE  Goes(u, "ended", utt[u].fed, 0, 0, utt[u].reports, o)
<1>1. SpeechTypeOK
  BY DEF SpeechInv
<1>2. utt \in [Utterances -> Utt] /\ utt[u] \in Utt
  BY <1>1 DEF SpeechTypeOK
<1>3. utt[u].fed \in Nat /\ utt[u].reports \in Nat /\ 0 \in Nat /\ "ended" \in Pcs
      /\ FALSE \in BOOLEAN
  BY <1>2 DEF Utt, Pcs
<1>4. utt' = [utt EXCEPT ![u] = Uttered(utt[u], "ended", FALSE, utt[u].fed, 0, 0, utt[u].reports, o)]
  BY <1>2 DEF Settles, Uttered, Utt
<1> QED
  BY <1>1, <1>3, <1>4, UttGoes, Zenon

LEMMA UttMoves ==
  ASSUME SpeechInv, NEW u \in Utterances, NEW p \in Pcs, NEW kn \in BOOLEAN,
         \/ utt' = [utt EXCEPT ![u].pc = p]
         \/ utt' = [utt EXCEPT ![u].pc = p, ![u].known = kn]
  PROVE  Goes(u, p, utt[u].fed, utt[u].pending, utt[u].queue, utt[u].reports, utt[u].out)
<1> DEFINE c == utt[u]
<1>1. SpeechTypeOK
  BY DEF SpeechInv
<1>2. utt \in [Utterances -> Utt] /\ c \in Utt
  BY <1>1 DEF SpeechTypeOK
<1>3. c.fed \in Nat /\ c.reports \in Nat /\ c.pending \in Nat /\ c.queue \in Nat
      /\ c.out \in Outs /\ c.known \in BOOLEAN
  BY <1>2 DEF Utt
<1>4. PICK k \in BOOLEAN :
        utt' = [utt EXCEPT ![u] = Uttered(c, p, k, c.fed, c.pending, c.queue, c.reports, c.out)]
  <2>1. CASE utt' = [utt EXCEPT ![u].pc = p]
    <3>1. utt' = [utt EXCEPT ![u] = Uttered(c, p, c.known, c.fed, c.pending, c.queue, c.reports, c.out)]
      BY <1>2, <2>1 DEF Uttered, Utt
    <3> QED
      BY <1>3, <3>1, Zenon
  <2>2. CASE utt' = [utt EXCEPT ![u].pc = p, ![u].known = kn]
    <3>1. utt' = [utt EXCEPT ![u] = Uttered(c, p, kn, c.fed, c.pending, c.queue, c.reports, c.out)]
      BY <1>2, <2>2 DEF Uttered, Utt
    <3> QED
      BY <3>1, Zenon
  <2> QED
    BY <2>1, <2>2
<1> QED
  BY <1>1, <1>3, <1>4, UttGoes, Zenon

\* A move that keeps the accounts is one the invariant survives: the player
\* stays, or its graph is the mover's.
LEMMA AccountsKept ==
  ASSUME SpeechInv, NEW u \in Utterances, NEW p \in Playing, utt[u].pc # "ended",
         Goes(u, p, utt[u].fed, utt[u].pending, utt[u].queue, utt[u].reports, utt[u].out),
         utt[u].pc \in Playing \/ player'.owner # u,
         player'.owner = player.owner, player'.frames = player.frames,
         player'.played = player.played, p \in Silent => utt[u].pc \in Silent
  PROVE  Counted(utt'[u], u, player')
<1>1. Counted(utt[u], u, player)
  BY DEF SpeechInv, CountsAreOwners
<1> DEFINE k == utt'[u]
<1>2. k.pc = p /\ k.fed = utt[u].fed /\ k.pending = utt[u].pending /\ k.queue = utt[u].queue
      /\ k.reports = utt[u].reports /\ k.out = utt[u].out
  BY DEF Goes, Reads
<1>3. p # "ended"
  BY DEF Playing
<1> HIDE DEF k
<1>4. Counted(k, u, player')
  <2>1. k.pc \in Silent => utt[u].pc \in Silent
    BY <1>2
  <2>2. player'.owner = u => utt[u].pc \in Playing /\ player.owner = u
    OBVIOUS
  <2> QED
    BY <1>1, <1>2, <1>3, <2>1, <2>2 DEF Counted
<1> QED
  BY <1>4 DEF k

\* The promise of a speak call settles; the player is given back or stays.
LEMMA SettlesKeeps ==
  ASSUME SpeechInv, NEW u \in Utterances, NEW o \in Outs, Settles(u, o),
         o = "spoken" => utt[u].queue = 0, o = "told" => utt[u].fed = 0,
         engine' \in {engine, None}, SamePlayer(player', u), UNCHANGED mine
  PROVE  SpeechInv'
<1>1. Goes(u, "ended", utt[u].fed, 0, 0, utt[u].reports, o)
  BY UttSettles
<1>2. ctrl' = IF ctrl = u THEN None ELSE ctrl
  BY DEF Settles
<1> QED
  BY <1>1, <1>2, EndsKeeps

LEMMA PlayerKept ==
  ASSUME SpeechInv, NEW u \in Utterances,
         UNCHANGED player \/ player' = [player EXCEPT !.held = FALSE] \/ Catch(u)
  PROVE  SamePlayer(player', u)
<1>1. player \in Player
  BY DEF SpeechInv, SpeechTypeOK
<1>2. CASE UNCHANGED player
  BY <1>1, <1>2 DEF SamePlayer
<1>3. CASE player' = [player EXCEPT !.held = FALSE]
  BY <1>1, <1>3 DEF SamePlayer, Player
<1>4. CASE Catch(u)
  <2>1. CASE player.owner = u
    <3>1. player' = [player EXCEPT !.graph = None, !.held = FALSE]
      BY <1>4, <2>1 DEF Catch, caught
    <3> QED
      BY <1>1, <3>1 DEF SamePlayer, Player, Voice
  <2>2. CASE player.owner # u
    <3>1. player' = player
      BY <1>4, <2>2 DEF Catch, caught
    <3> QED
      BY <1>1, <3>1 DEF SamePlayer
  <2> QED
    BY <2>1, <2>2
<1> QED
  BY <1>2, <1>3, <1>4

\* What is pending of a play was fed; with nothing pending the worklet is empty.
LEMMA DrainedIsHeard ==
  ASSUME SpeechInv, NEW u \in Utterances, utt[u].pc \in Playing, player.owner = u,
         NEW known, Drained(u, known)
  PROVE  utt[u].queue = 0
<1>1. Counted(utt[u], u, player) /\ utt[u] \in Utt /\ player \in Player
  BY DEF SpeechInv, SpeechTypeOK, CountsAreOwners
<1>2. /\ utt[u].pending = utt[u].queue + utt[u].reports
      /\ player.played + utt[u].pending = utt[u].fed /\ utt[u].fed <= MaxChunks
  BY <1>1 DEF Counted
<1>3. /\ utt[u].queue \in Nat /\ utt[u].reports \in Nat /\ utt[u].pending \in Nat
      /\ utt[u].fed \in Nat /\ player.played \in Nat /\ MaxChunks \in Nat
  BY <1>1, SpeechAssumption DEF Utt, Player
<1>4. utt[u].pending = 0 \/ player.played >= MaxChunks
  BY DEF Drained
<1> DEFINE q == utt[u].queue
           r == utt[u].reports
           pe == utt[u].pending
           f == utt[u].fed
           pl == player.played
<1>5. q \in Nat /\ r \in Nat /\ pe \in Nat /\ f \in Nat /\ pl \in Nat /\ MaxChunks \in Nat
  BY <1>3
<1>6. pe = q + r /\ pl + pe = f /\ f <= MaxChunks /\ (pe = 0 \/ pl >= MaxChunks)
  BY <1>2, <1>4
<1> HIDE DEF q, r, pe, f, pl
<1>7. q = 0
  BY <1>5, <1>6
<1> QED
  BY <1>7 DEF q

LEMMA GivesUpInv ==
  ASSUME SpeechInv, NEW u \in Utterances, GivesUp(u) PROVE SpeechInv'
<1>1. /\ Settles(u, "silenced") /\ player' = [player EXCEPT !.held = FALSE]
      /\ UNCHANGED <<engine, mine>> /\ "silenced" \in Outs
  BY DEF GivesUp, Outs
<1>2. SamePlayer(player', u)
  BY <1>1, PlayerKept
<1> QED
  BY <1>1, <1>2, SettlesKeeps

LEMMA SaysNothingInv ==
  ASSUME SpeechInv, NEW u \in Utterances, SaysNothing(u) PROVE SpeechInv'
<1>1. /\ utt[u].pc \in Waiting /\ utt' = [utt EXCEPT ![u].pc = "ended"]
      /\ UNCHANGED <<ctrl, player, engine, ctx, mine>> /\ "ended" \in Pcs
  BY DEF SaysNothing, Pcs
<1>2. Goes(u, "ended", utt[u].fed, utt[u].pending, utt[u].queue, utt[u].reports, utt[u].out)
  BY <1>1, UttMoves
<1>3. utt[u].queue = 0 /\ utt[u].fed = 0 /\ utt[u].out \in Outs
  BY <1>1 DEF SpeechInv, CountsAreOwners, Counted, Silent, Waiting, SpeechTypeOK, Utt
<1>4. ctrl' = IF ctrl = u THEN None ELSE ctrl
  <2>1. u # None /\ utt[u].pc \notin Speaking
    BY <1>1 DEF Utterances, None, Waiting, Speaking, Playing
  <2> QED
    BY <1>1, <2>1 DEF SpeechInv, VoiceIsTurns
<1>5. SamePlayer(player', u)
  BY <1>1, PlayerKept
<1> QED
  BY <1>1, <1>2, <1>3, <1>4, <1>5, EndsKeeps

\* Frames come in: the turn goes on waiting, or only the machine moves.
LEMMA FirstFrameInv ==
  ASSUME SpeechInv, NEW u \in Utterances, FirstFrame(u) PROVE SpeechInv'
<1>1. /\ SpeechTypeOK /\ StreamIsWanted /\ VoiceIsTurns /\ CountsAreOwners
      /\ turnRef = u /\ utt[u].pc = "asked" /\ utt' = [utt EXCEPT ![u].pc = "answering"]
      /\ UNCHANGED <<ctrl, player, engine, turnRef, mic, attach>> /\ "answering" \in Pcs
  BY DEF SpeechInv, FirstFrame, mine, Pcs, Waiting
<1>2. Goes(u, "answering", utt[u].fed, utt[u].pending, utt[u].queue, utt[u].reports, utt[u].out)
  BY <1>1, UttMoves
<1>3. /\ utt' \in [Utterances -> Utt]
      /\ \A w \in Utterances \ {u} : utt'[w] = utt[w]
      /\ utt'[u].pc = "answering" /\ utt'[u].signal = utt[u].signal /\ utt'[u].fed = utt[u].fed
      /\ utt'[u].pending = utt[u].pending /\ utt'[u].queue = utt[u].queue
      /\ utt'[u].reports = utt[u].reports /\ utt'[u].out = utt[u].out
  BY <1>2 DEF Goes, Reads
<1>4. SpeechTypeOK' /\ StreamIsWanted'
  BY <1>1, <1>3 DEF SpeechTypeOK, StreamIsWanted
<1>5. VoiceIsTurns'
  <2>1. "answering" \notin Speaking /\ "asked" \notin Speaking /\ "asked" \notin {"synth", "ended"}
    BY DEF Speaking, Playing
  <2>2. (ctrl # u /\ engine # u) \/ u = None
    BY <1>1, <2>1 DEF VoiceIsTurns
  <2>3. u # None
    BY DEF Utterances, None
  <2>4. ctrl # None => ctrl \in Utterances
    BY <1>1 DEF SpeechTypeOK, Voice
  <2> QED
    BY <1>1, <1>3, <2>1, <2>2, <2>3, <2>4 DEF VoiceIsTurns
<1>6. ASSUME NEW w \in Utterances PROVE Counted(utt'[w], w, player')
  <2>1. Counted(utt[w], w, player) /\ player' = player
    BY <1>1 DEF CountsAreOwners
  <2>2. "answering" \in Silent /\ "asked" \in Silent /\ "answering" \notin Playing
    BY DEF Silent, Playing
  <2>3. CASE w = u
    BY <1>1, <1>3, <2>1, <2>2, <2>3 DEF Counted
  <2>4. CASE w # u
    BY <1>3, <2>1, <2>4
  <2> QED
    BY <2>3, <2>4
<1>7. CountsAreOwners'
  BY <1>6 DEF CountsAreOwners
<1> QED
  BY <1>4, <1>5, <1>7 DEF SpeechInv

LEMMA RefusedInv ==
  ASSUME SpeechInv, NEW u \in Utterances, Refused(u) PROVE SpeechInv'
<1>1. /\ utt[u].pc = "fetch" /\ ~utt[u].signal /\ utt' = [utt EXCEPT ![u].pc = "refused"]
      /\ ctrl' = None /\ UNCHANGED <<player, engine, ctx, mine>> /\ "refused" \in Pcs
  BY DEF Refused, calm, Pcs
<1>2. Goes(u, "refused", utt[u].fed, utt[u].pending, utt[u].queue, utt[u].reports, utt[u].out)
  BY <1>1, UttMoves
<1>3. Counted(utt[u], u, player) /\ utt[u].out \in Outs
  BY DEF SpeechInv, CountsAreOwners, SpeechTypeOK, Utt
<1>4. utt[u].queue = 0 /\ utt[u].fed = 0
  BY <1>1, <1>3 DEF Counted, Silent
<1>5. ctrl' = IF ctrl = u THEN None ELSE ctrl
  BY <1>1 DEF SpeechInv, VoiceIsTurns, Speaking
<1>6. SamePlayer(player', u)
  BY <1>1, PlayerKept
<1>7. Counted(utt'[u], u, player')
  <2>1. /\ utt'[u].pc = "refused" /\ utt'[u].fed = utt[u].fed /\ utt'[u].pending = utt[u].pending
        /\ utt'[u].queue = utt[u].queue /\ utt'[u].reports = utt[u].reports
        /\ utt'[u].out = utt[u].out
    BY <1>2 DEF Goes, Reads
  <2>2. "refused" \notin Playing /\ "fetch" \in Silent /\ "refused" # "ended"
    BY DEF Playing, Silent
  <2> QED
    BY <1>1, <1>3, <2>1, <2>2 DEF Counted
<1> QED
  BY <1>1, <1>2, <1>3, <1>4, <1>5, <1>6, <1>7, EndsKeeps

\* The play of a call that took over the player, or of one that lost it.
LEMMA ResumedInv ==
  ASSUME SpeechInv, NEW u \in Utterances, Resumed(u) PROVE SpeechInv'
<1>1. CASE GivesUp(u)
  BY <1>1, GivesUpInv
<1>2. CASE ~GivesUp(u)
  <2>1. /\ utt[u].pc = "resumed" /\ utt' = [utt EXCEPT ![u].pc = "module"]
        /\ UNCHANGED <<ctrl, player, engine, ctx, mine>>
        /\ "module" \in Pcs /\ "module" \in Playing /\ "resumed" \in Playing
        /\ "resumed" \in Silent /\ "resumed" # "ended"
    BY <1>2 DEF Resumed, calm, Pcs, Playing, Speaking, Silent
  <2>2. Goes(u, "module", utt[u].fed, utt[u].pending, utt[u].queue, utt[u].reports, utt[u].out)
    BY <2>1, UttMoves
  <2>3. player' = player /\ player \in Player /\ player.graph \in {None, player.owner}
    BY <2>1 DEF SpeechInv, SpeechTypeOK, VoiceIsTurns
  <2>4. Counted(utt'[u], u, player')
    BY <2>1, <2>2, <2>3, AccountsKept
  <2> QED
    BY <2>1, <2>2, <2>3, <2>4, MovesKeeps
<1> QED
  BY <1>1, <1>2

LEMMA ModuleLoadsInv ==
  ASSUME SpeechInv, NEW u \in Utterances, ModuleLoads(u) PROVE SpeechInv'
<1>1. CASE GivesUp(u)
  BY <1>1, GivesUpInv
<1>2. CASE ~GivesUp(u)
  <2>1. /\ utt[u].pc = "module" /\ utt' = [utt EXCEPT ![u].pc = "body"]
        /\ player' = [player EXCEPT !.graph = u] /\ player.owner = u
        /\ UNCHANGED <<ctrl, engine, ctx, mine>>
        /\ "body" \in Pcs /\ "body" \in Playing /\ "module" \in Playing
        /\ "body" \notin Silent /\ "module" # "ended"
    BY <1>2 DEF ModuleLoads, calm, aborted, Pcs, Playing, Speaking, Silent
  <2>2. Goes(u, "body", utt[u].fed, utt[u].pending, utt[u].queue, utt[u].reports, utt[u].out)
    BY <2>1, UttMoves
  <2>3. player' \in Player /\ player'.owner = player.owner /\ player'.graph = u
        /\ player'.frames = player.frames /\ player'.played = player.played
    BY <2>1 DEF SpeechInv, SpeechTypeOK, Player, Voice
  <2>4. Counted(utt'[u], u, player')
    BY <2>1, <2>2, <2>3, AccountsKept
  <2>5. player'.graph \in {None, player'.owner}
    BY <2>1, <2>3
  <2> QED
    BY <2>1, <2>2, <2>3, <2>4, <2>5, MovesKeeps
<1> QED
  BY <1>1, <1>2

LEMMA FetchedInv ==
  ASSUME SpeechInv, NEW u \in Utterances, Fetched(u) PROVE SpeechInv'
<1> DEFINE p == IF ctx.state = "suspended" THEN "resume" ELSE "module"
<1>1. /\ utt[u].pc = "fetch" /\ ~utt[u].signal /\ utt' = [utt EXCEPT ![u].pc = p]
      /\ player' = [owner |-> u, graph |-> None, held |-> TRUE,
                    ready |-> None, frames |-> 0, played |-> 0]
      /\ UNCHANGED <<ctrl, engine, mine>>
  BY DEF Fetched, calm
<1>2. p \in Playing /\ p \in Pcs /\ p \in Silent /\ p # "ended" /\ "fetch" \in Silent
  BY DEF Playing, Pcs, Speaking, Silent
<1> HIDE DEF p
<1>3. Goes(u, p, utt[u].fed, utt[u].pending, utt[u].queue, utt[u].reports, utt[u].out)
  BY <1>1, <1>2, UttMoves
<1>4. /\ player' \in Player /\ player'.owner = u /\ player'.graph = None
      /\ player'.frames = 0 /\ player'.played = 0
  BY <1>1 DEF Player, Voice
<1>5. Counted(utt[u], u, player)
  BY DEF SpeechInv, CountsAreOwners
<1>6. /\ utt[u].fed = 0 /\ utt[u].pending = 0 /\ utt[u].queue = 0 /\ utt[u].reports = 0
      /\ utt[u].out = "" /\ utt[u].fed <= MaxChunks
  BY <1>1, <1>2, <1>5 DEF Counted
<1>7. Counted(utt'[u], u, player')
  <2> DEFINE k == utt'[u]
  <2>1. k.pc = p /\ k.fed = 0 /\ k.pending = 0 /\ k.queue = 0
        /\ k.reports = 0 /\ k.out = "" /\ k.fed <= MaxChunks
    BY <1>3, <1>6 DEF Goes, Reads
  <2> HIDE DEF k
  <2>2. Counted(k, u, player')
    <3>1. player'.owner = u => /\ k.pending = k.queue + k.reports
                               /\ player'.played + k.pending = k.fed
                               /\ player'.frames = k.fed
      <4>1. 0 = 0 + 0
        OBVIOUS
      <4>2. k.queue + k.reports = 0 + 0 /\ player'.played + k.pending = 0 + 0
        BY <1>4, <2>1, Zenon
      <4> QED
        BY <1>4, <2>1, <4>1, <4>2, Zenon
    <3>2. k.pc # "ended" /\ k.out # "told"
      BY <1>2, <2>1
    <3> QED
      BY <2>1, <3>1, <3>2 DEF Counted
  <2> QED
    BY <2>2 DEF k
<1> QED
  BY <1>1, <1>2, <1>3, <1>4, <1>7, MovesKeeps

\* The two-phase rule: the engine reads only what was not fed, because the
\* counter is the call's own once it owns the player, and nothing is fed before.
LEMMA FallsBackKeeps ==
  ASSUME SpeechInv, NEW u \in Utterances, FallsBack(u), ~utt[u].signal,
         utt[u].pc \in {"fetch", "module"} \/ (utt[u].pc = "body" /\ player.owner = u),
         SamePlayer(player', u), UNCHANGED mine
  PROVE  SpeechInv'
<1>1. CASE player.frames > 0
  <2>1. Settles(u, "quiet") /\ engine' \in {engine, None} /\ "quiet" \in Outs
    BY <1>1 DEF FallsBack, Outs
  <2> QED
    BY <2>1, SettlesKeeps
<1>2. CASE ~(player.frames > 0)
  <2>1. utt' = [utt EXCEPT ![u].pc = "synth"] /\ engine' = u /\ ctrl' = ctrl
    BY <1>2 DEF FallsBack, ReadsAloud
  <2>2. "synth" \in Pcs /\ utt[u].pc \in Speaking
    BY DEF Pcs, Speaking, Playing
  <2>3. Goes(u, "synth", utt[u].fed, utt[u].pending, utt[u].queue, utt[u].reports, utt[u].out)
    BY <2>1, <2>2, UttMoves
  <2>4. Counted(utt[u], u, player) /\ utt[u] \in Utt /\ player \in Player
    BY DEF SpeechInv, SpeechTypeOK, CountsAreOwners
  <2>5. utt[u].fed = 0 /\ utt[u].pending = 0 /\ utt[u].queue = 0 /\ utt[u].reports = 0
    <3>1. CASE utt[u].pc \in {"fetch", "module"}
      <4>1. utt[u].pc \in Silent
        BY <3>1 DEF Silent
      <4> QED
        BY <2>4, <4>1 DEF Counted
    <3>2. CASE utt[u].pc = "body" /\ player.owner = u
      <4>1. utt[u].pc \in Playing
        BY <3>2 DEF Playing
      <4>2. utt[u].pending = utt[u].queue + utt[u].reports /\ player.frames = utt[u].fed
            /\ player.played + utt[u].pending = utt[u].fed
        BY <2>4, <3>2, <4>1 DEF Counted
      <4>3. /\ utt[u].queue \in Nat /\ utt[u].reports \in Nat /\ utt[u].pending \in Nat
            /\ utt[u].fed \in Nat /\ player.played \in Nat /\ player.frames \in Nat
        BY <2>4 DEF Utt, Player
      <4> DEFINE q == utt[u].queue
                 r == utt[u].reports
                 pe == utt[u].pending
                 f == utt[u].fed
                 pl == player.played
                 fr == player.frames
      <4>4. q \in Nat /\ r \in Nat /\ pe \in Nat /\ f \in Nat /\ pl \in Nat /\ fr \in Nat
        BY <4>3
      <4>5. pe = q + r /\ fr = f /\ pl + pe = f /\ ~(fr > 0)
        BY <4>2, <1>2
      <4> HIDE DEF q, r, pe, f, pl, fr
      <4>6. f = 0 /\ pe = 0 /\ q = 0 /\ r = 0
        BY <4>4, <4>5
      <4> QED
        BY <4>6 DEF q, r, pe, f
    <3> QED
      BY <3>1, <3>2
  <2>6. Goes(u, "synth", 0, 0, 0, 0, utt[u].out)
    BY <2>3, <2>5
  <2> QED
    BY <2>1, <2>2, <2>6, ReadsKeeps
<1> QED
  BY <1>1, <1>2

LEMMA FailuresInv ==
  ASSUME SpeechInv, NEW u \in Utterances, FetchFails(u) \/ ModuleFails(u) \/ BodyBreaks(u)
  PROVE  SpeechInv'
<1>1. CASE FetchFails(u)
  <2>1. FallsBack(u) /\ ~utt[u].signal /\ utt[u].pc = "fetch" /\ UNCHANGED <<player, mine>>
    BY <1>1 DEF FetchFails
  <2>2. SamePlayer(player', u)
    BY <2>1, PlayerKept
  <2> QED
    BY <2>1, <2>2, FallsBackKeeps
<1>2. CASE ModuleFails(u)
  <2>1. utt[u].pc = "module" /\ UNCHANGED <<player, mine>>
    BY <1>2 DEF ModuleFails
  <2>2. SamePlayer(player', u)
    BY <2>1, PlayerKept
  <2>3. CASE utt[u].signal
    <3>1. Settles(u, "silenced") /\ engine' \in {engine, None} /\ "silenced" \in Outs
      BY <1>2, <2>3 DEF ModuleFails, Outs
    <3> QED
      BY <2>1, <2>2, <3>1, SettlesKeeps
  <2>4. CASE ~utt[u].signal
    <3>1. FallsBack(u)
      BY <1>2, <2>4 DEF ModuleFails
    <3> QED
      BY <2>1, <2>2, <2>4, <3>1, FallsBackKeeps
  <2> QED
    BY <2>3, <2>4
<1>3. CASE BodyBreaks(u)
  <2>1. /\ utt[u].pc = "body" /\ player.owner = u /\ ~utt[u].signal
        /\ Catch(u) /\ FallsBack(u) /\ UNCHANGED mine
    BY <1>3 DEF BodyBreaks, aborted
  <2>2. SamePlayer(player', u)
    BY <2>1, PlayerKept
  <2> QED
    BY <2>1, <2>2, FallsBackKeeps
<1> QED
  BY <1>1, <1>2, <1>3

LEMMA EndingsInv ==
  ASSUME SpeechInv, NEW u \in Utterances,
         BodyEnds(u) \/ Drain(u) \/ TimesOut(u) \/ Unwinds(u) \/ SynthEnds(u)
  PROVE  SpeechInv'
<1>0. {"spoken", "silenced", "quiet", "told"} \subseteq Outs
  BY DEF Outs
<1>1. CASE BodyEnds(u)
  <2>1. /\ utt[u].pc = "body" /\ player.owner = u /\ UNCHANGED <<player, engine, ctx, mine>>
    BY <1>1 DEF BodyEnds, aborted
  <2>2. PICK known \in BOOLEAN :
          IF Drained(u, known) THEN Settles(u, "spoken")
          ELSE /\ utt' = [utt EXCEPT ![u].pc = "drain", ![u].known = known]
               /\ UNCHANGED ctrl
    BY <1>1 DEF BodyEnds
  <2>3. "body" \in Playing /\ "drain" \in Playing /\ "drain" \in Pcs /\ "drain" \notin Silent
    BY DEF Pcs, Speaking, Playing, Silent
  <2>4. CASE Drained(u, known)
    <3>1. SamePlayer(player', u)
      BY <2>1, PlayerKept
    <3>2. utt[u].queue = 0
      BY <2>1, <2>3, <2>4, DrainedIsHeard
    <3>3. Settles(u, "spoken") /\ engine' \in {engine, None} /\ "spoken" \in Outs /\ UNCHANGED mine
      BY <1>0, <2>1, <2>2, <2>4
    <3> QED
      BY <3>1, <3>2, <3>3, SettlesKeeps
  <2>5. CASE ~Drained(u, known)
    <3>1. utt' = [utt EXCEPT ![u].pc = "drain", ![u].known = known] /\ UNCHANGED ctrl
      BY <2>2, <2>5
    <3>2. Goes(u, "drain", utt[u].fed, utt[u].pending, utt[u].queue, utt[u].reports, utt[u].out)
      BY <2>3, <3>1, UttMoves
    <3>3. player' = player /\ player \in Player /\ player.graph \in {None, player.owner}
      BY <2>1 DEF SpeechInv, SpeechTypeOK, VoiceIsTurns
    <3>4. Counted(utt'[u], u, player')
      BY <2>1, <2>3, <3>2, <3>3, AccountsKept
    <3> QED
      BY <2>1, <2>3, <3>1, <3>2, <3>3, <3>4, MovesKeeps
  <2> QED
    BY <2>4, <2>5
<1>2. CASE Drain(u)
  <2>1. /\ utt[u].pc = "drain" /\ player.owner = u /\ UNCHANGED <<player, engine, ctx, mine>>
        /\ Drained(u, utt[u].known) /\ Settles(u, "spoken")
    BY <1>2 DEF Drain, aborted
  <2>2. SamePlayer(player', u)
    BY <2>1, PlayerKept
  <2>3. utt[u].queue = 0
    <3>1. utt[u].pc \in Playing
      BY <2>1 DEF Playing
    <3> QED
      BY <2>1, <3>1, DrainedIsHeard
  <2>4. "spoken" \in Outs /\ engine' \in {engine, None} /\ UNCHANGED mine
    BY <1>0, <2>1
  <2> QED
    BY <2>1, <2>2, <2>3, <2>4, SettlesKeeps
<1>3. CASE TimesOut(u)
  <2>1. Catch(u) /\ Settles(u, "quiet") /\ UNCHANGED <<engine, mine>>
    BY <1>3 DEF TimesOut
  <2>2. SamePlayer(player', u)
    BY <2>1, PlayerKept
  <2>3. "quiet" \in Outs /\ engine' \in {engine, None} /\ UNCHANGED mine
    BY <1>0, <2>1
  <2> QED
    BY <2>1, <2>2, <2>3, SettlesKeeps
<1>4. CASE Unwinds(u)
  <2>1. (Catch(u) \/ UNCHANGED player) /\ Settles(u, "silenced") /\ UNCHANGED <<engine, mine>>
    BY <1>4 DEF Unwinds
  <2>2. SamePlayer(player', u)
    BY <2>1, PlayerKept
  <2>3. "silenced" \in Outs /\ engine' \in {engine, None} /\ UNCHANGED mine
    BY <1>0, <2>1
  <2> QED
    BY <2>1, <2>2, <2>3, SettlesKeeps
<1>5. CASE SynthEnds(u)
  <2>1. /\ utt[u].pc = "synth" /\ Settles(u, "told") /\ engine' \in {engine, None}
        /\ UNCHANGED <<player, ctx, mine>>
    BY <1>5 DEF SynthEnds
  <2>2. SamePlayer(player', u)
    BY <2>1, PlayerKept
  <2>3. utt[u].fed = 0
    BY <2>1 DEF SpeechInv, CountsAreOwners, Counted, Silent
  <2>4. "told" \in Outs /\ UNCHANGED mine
    BY <1>0, <2>1
  <2> QED
    BY <2>1, <2>2, <2>3, <2>4, SettlesKeeps
<1> QED
  BY <1>1, <1>2, <1>3, <1>4, <1>5

\* Chunks flow through a play that owns the player.
LEMMA FlowsKeeps ==
  ASSUME SpeechInv, NEW u \in Utterances, NEW p \in Playing, p \notin Silent,
         utt[u].pc \in Playing, player.owner = u,
         NEW f \in Nat, NEW pe \in Nat, NEW q \in Nat, NEW r \in Nat,
         Goes(u, p, f, pe, q, r, utt[u].out), pe = q + r, f <= MaxChunks,
         player' \in Player, player'.owner = player.owner, player'.graph = player.graph,
         player'.frames = f, player'.played + pe = f, UNCHANGED <<engine, ctrl, mine>>
  PROVE  SpeechInv'
<1>1. utt[u].out = ""
  <2>1. Counted(utt[u], u, player) /\ "ended" \notin Playing
    BY DEF SpeechInv, CountsAreOwners, Playing
  <2> QED
    BY <2>1 DEF Counted
<1>2. Counted(utt'[u], u, player')
  <2> DEFINE k == utt'[u]
  <2>1. k.pc = p /\ k.fed = f /\ k.pending = pe /\ k.queue = q /\ k.reports = r /\ k.out = ""
    BY <1>1 DEF Goes, Reads
  <2>2. p # "ended"
    BY DEF Playing
  <2> HIDE DEF k
  <2>3. /\ k.fed <= MaxChunks /\ k.pending = k.queue + k.reports
        /\ player'.played + k.pending = k.fed /\ player'.frames = k.fed
    BY <2>1, Zenon
  <2>4. Counted(k, u, player')
    BY <2>1, <2>2, <2>3 DEF Counted
  <2> QED
    BY <2>4 DEF k
<1>3. player'.graph \in {None, player'.owner}
  BY DEF SpeechInv, VoiceIsTurns
<1> QED
  BY <1>2, <1>3, MovesKeeps

\* What the accounts of a play that owns the player say in numbers.
LEMMA Accounts ==
  ASSUME SpeechInv, NEW u \in Utterances
  PROVE  /\ utt \in [Utterances -> Utt] /\ utt[u] \in Utt /\ player \in Player
         /\ utt[u].fed \in Nat /\ utt[u].pending \in Nat /\ utt[u].queue \in Nat
         /\ utt[u].reports \in Nat /\ player.frames \in Nat /\ player.played \in Nat
         /\ utt[u].out \in Outs /\ utt[u].known \in BOOLEAN /\ MaxChunks \in Nat
         /\ utt[u].pc \in Pcs /\ utt[u].fed <= MaxChunks
         /\ player.owner = u /\ utt[u].pc \in Playing =>
              /\ utt[u].pending = utt[u].queue + utt[u].reports
              /\ player.played + utt[u].pending = utt[u].fed
              /\ player.frames = utt[u].fed
<1>1. utt \in [Utterances -> Utt] /\ utt[u] \in Utt /\ player \in Player
      /\ Counted(utt[u], u, player)
  BY DEF SpeechInv, SpeechTypeOK, CountsAreOwners
<1>2. /\ utt[u].fed \in Nat /\ utt[u].pending \in Nat /\ utt[u].queue \in Nat
      /\ utt[u].reports \in Nat /\ utt[u].out \in Outs /\ utt[u].known \in BOOLEAN
      /\ utt[u].pc \in Pcs
  BY <1>1 DEF Utt
<1>3. player.frames \in Nat /\ player.played \in Nat /\ MaxChunks \in Nat
  BY <1>1, SpeechAssumption DEF Player
<1> QED
  BY <1>1, <1>2, <1>3 DEF Counted

LEMMA ChunkInv ==
  ASSUME SpeechInv, NEW u \in Utterances, Chunk(u) PROVE SpeechInv'
<1> DEFINE c == utt[u]
           parks == c.pending + 1 > MaxPending
           p == IF parks THEN "parked" ELSE c.pc
<1>1. /\ c.pc = "body" /\ player.owner = u /\ c.fed < MaxChunks
      /\ utt' = [utt EXCEPT ![u].fed = @ + 1, ![u].pending = @ + 1,
                   ![u].queue = @ + 1, ![u].pc = IF parks THEN "parked" ELSE @]
      /\ player' = [player EXCEPT !.frames = @ + 1, !.ready = IF parks THEN u ELSE @]
      /\ UNCHANGED <<ctrl, engine, ctx, mine>>
  BY DEF Chunk, calm, aborted
<1>2. p \in Playing /\ p \in Pcs /\ p \notin Silent /\ c.pc \in Playing
  BY <1>1 DEF Playing, Pcs, Speaking, Silent
<1>3. /\ utt \in [Utterances -> Utt] /\ c \in Utt /\ player \in Player
      /\ c.fed \in Nat /\ c.pending \in Nat /\ c.queue \in Nat /\ c.reports \in Nat
      /\ player.frames \in Nat /\ player.played \in Nat /\ c.out \in Outs
      /\ c.known \in BOOLEAN /\ MaxChunks \in Nat
      /\ c.pending = c.queue + c.reports /\ player.played + c.pending = c.fed
      /\ player.frames = c.fed
  BY <1>1, <1>2, Accounts
<1>4. utt' = [utt EXCEPT ![u] = Uttered(c, p, c.known, c.fed + 1, c.pending + 1, c.queue + 1,
                                        c.reports, c.out)]
  BY <1>1, <1>3 DEF Uttered, Utt
<1>5. /\ player' \in Player /\ player'.owner = player.owner /\ player'.graph = player.graph
      /\ player'.frames = player.frames + 1 /\ player'.played = player.played
  <2>1. PICK rd \in Voice : player' = [player EXCEPT !.frames = @ + 1, !.ready = rd]
    <3>1. CASE parks
      BY <1>1, <3>1 DEF Voice
    <3>2. CASE ~parks
      BY <1>1, <1>3, <3>2 DEF Player
    <3> QED
      BY <3>1, <3>2
  <2> DEFINE n == player.frames + 1
  <2>2. n \in Nat /\ player' = [player EXCEPT !.frames = n, !.ready = rd]
    BY <1>3, <2>1
  <2> HIDE DEF n
  <2>3. player' \in Player /\ player'.owner = player.owner /\ player'.graph = player.graph
        /\ player'.frames = n /\ player'.played = player.played
    BY <1>3, <2>2 DEF Player
  <2> QED
    BY <2>3 DEF n
<1> DEFINE f == c.fed
           pe == c.pending
           q == c.queue
           r == c.reports
           pl == player.played
<1>6. f \in Nat /\ pe \in Nat /\ q \in Nat /\ r \in Nat /\ pl \in Nat /\ MaxChunks \in Nat
      /\ pe = q + r /\ pl + pe = f /\ f < MaxChunks
  BY <1>1, <1>3
<1> HIDE DEF f, pe, q, r, pl, p, parks
<1>7. f + 1 \in Nat /\ pe + 1 \in Nat /\ q + 1 \in Nat /\ f + 1 <= MaxChunks
      /\ pe + 1 = (q + 1) + r /\ pl + (pe + 1) = f + 1
  BY <1>6
<1>8. utt' = [utt EXCEPT ![u] = Uttered(@, p, c.known, f + 1, pe + 1, q + 1, r, c.out)]
  BY <1>4 DEF f, pe, q, r
<1>9. Goes(u, p, f + 1, pe + 1, q + 1, r, c.out)
  <2>1. SpeechTypeOK
    BY DEF SpeechInv
  <2> QED
    BY <2>1, <1>2, <1>3, <1>6, <1>7, <1>8, UttGoes, Zenon
<1>10. player'.frames = f + 1 /\ player'.played + (pe + 1) = f + 1
  <2>1. player'.frames = f + 1 /\ player'.played = pl
    BY <1>3, <1>5 DEF f, pl
  <2> QED
    BY <1>7, <2>1
<1>11. UNCHANGED <<engine, ctrl, mine>>
  BY <1>1
<1> QED
  BY <1>1, <1>2, <1>5, <1>6, <1>7, <1>9, <1>10, <1>11, FlowsKeeps

\* Nothing changes but how the player sleeps, and the context.
LEMMA SleepKeeps ==
  ASSUME SpeechInv, UNCHANGED <<utt, turnRef, ctrl, engine, mic, attach>>,
         UNCHANGED player \/ \E rd \in Voice : player' = [player EXCEPT !.ready = rd]
  PROVE  SpeechInv'
<1>1. SpeechTypeOK /\ StreamIsWanted /\ VoiceIsTurns /\ CountsAreOwners /\ player \in Player
  BY DEF SpeechInv, SpeechTypeOK
<1>2. /\ player' \in Player /\ player'.owner = player.owner /\ player'.graph = player.graph
      /\ player'.frames = player.frames /\ player'.played = player.played
  <2>1. CASE UNCHANGED player
    BY <1>1, <2>1
  <2>2. CASE \E rd \in Voice : player' = [player EXCEPT !.ready = rd]
    BY <1>1, <2>2 DEF Player
  <2> QED
    BY <2>1, <2>2
<1>3. SpeechTypeOK' /\ StreamIsWanted'
  BY <1>1, <1>2 DEF SpeechTypeOK, StreamIsWanted
<1>4. VoiceIsTurns'
  BY <1>1, <1>2 DEF VoiceIsTurns
<1>5. CountsAreOwners'
  <2>1. ASSUME NEW u \in Utterances PROVE Counted(utt'[u], u, player')
    <3>1. Counted(utt[u], u, player) /\ utt'[u] = utt[u]
      BY <1>1 DEF CountsAreOwners
    <3> QED
      BY <1>2, <3>1 DEF Counted
  <2> QED
    BY <2>1 DEF CountsAreOwners
<1> QED
  BY <1>3, <1>4, <1>5 DEF SpeechInv

LEMMA UnparkInv ==
  ASSUME SpeechInv, NEW u \in Utterances, Unpark(u) PROVE SpeechInv'
<1>1. /\ utt[u].pc = "parked" /\ player.owner = u /\ UNCHANGED <<ctrl, engine, mine>>
  BY DEF Unpark, calm, aborted
<1>2. CASE utt[u].pending > MaxPending
  <2>1. player' = [player EXCEPT !.ready = u] /\ UNCHANGED utt /\ u \in Voice
    BY <1>2 DEF Unpark, calm, Voice
  <2>2. UNCHANGED <<utt, turnRef, ctrl, engine, mic, attach>>
    BY <1>1, <2>1 DEF mine
  <2> QED
    BY <2>1, <2>2, SleepKeeps
<1>3. CASE ~(utt[u].pending > MaxPending)
  <2>1. utt' = [utt EXCEPT ![u].pc = "body"] /\ UNCHANGED player
    BY <1>3 DEF Unpark
  <2>2. "body" \in Pcs /\ "body" \in Playing /\ "parked" \in Playing /\ "body" \notin Silent
        /\ "parked" # "ended"
    BY DEF Pcs, Speaking, Playing, Silent
  <2>3. Goes(u, "body", utt[u].fed, utt[u].pending, utt[u].queue, utt[u].reports, utt[u].out)
    BY <2>1, <2>2, UttMoves
  <2>4. player' = player /\ player \in Player /\ player.graph \in {None, player.owner}
    BY <2>1 DEF SpeechInv, SpeechTypeOK, VoiceIsTurns
  <2>5. Counted(utt'[u], u, player')
    BY <1>1, <2>2, <2>3, <2>4, AccountsKept
  <2> QED
    BY <1>1, <2>2, <2>3, <2>4, <2>5, MovesKeeps
<1> QED
  BY <1>2, <1>3

LEMMA ReadyInv ==
  ASSUME SpeechInv, NEW u \in Utterances, Ready(u) PROVE SpeechInv'
<1>1. player' = [player EXCEPT !.ready = None] /\ UNCHANGED <<utt, turnRef, ctrl, engine, mic, attach>>
  BY DEF Ready, calm, mine
<1>2. None \in Voice
  BY DEF Voice
<1> QED
  BY <1>1, <1>2, SleepKeeps

\* Only a call that plays has chunks in the worklet, or was told of any.
LEMMA OnlyPlaysSound ==
  ASSUME SpeechInv, NEW u \in Utterances,
         utt[u].queue # 0 \/ (utt[u].reports # 0 /\ utt[u].pc # "ended")
  PROVE  utt[u].pc \in Playing /\ utt[u].pc \notin Silent
<1>1. Counted(utt[u], u, player) /\ utt[u].pc \in Pcs
  BY Accounts DEF SpeechInv, CountsAreOwners
<1>2. utt[u].pc \notin Silent /\ utt[u].pc # "ended"
  BY <1>1 DEF Counted
<1> QED
  BY <1>1, <1>2 DEF Pcs, Waiting, Speaking, Playing, Silent

LEMMA ConsumeInv ==
  ASSUME SpeechInv, NEW u \in Utterances, Consume(u) PROVE SpeechInv'
<1> DEFINE c == utt[u]
<1>1. /\ player.graph = u /\ c.queue > 0
      /\ utt' = [utt EXCEPT ![u].queue = @ - 1, ![u].reports = @ + 1]
      /\ UNCHANGED <<ctrl, player, engine, ctx, mine>>
  BY DEF Consume, calm
<1>2. player.owner = u
  BY <1>1 DEF SpeechInv, VoiceIsTurns, Utterances, None
<1>3. c.pc \in Playing /\ c.pc \notin Silent
  BY <1>1, OnlyPlaysSound
<1>4. /\ utt \in [Utterances -> Utt] /\ c \in Utt /\ player \in Player
      /\ c.fed \in Nat /\ c.pending \in Nat /\ c.queue \in Nat /\ c.reports \in Nat
      /\ player.frames \in Nat /\ player.played \in Nat /\ c.out \in Outs
      /\ c.known \in BOOLEAN /\ c.pc \in Pcs /\ c.fed <= MaxChunks
      /\ c.pending = c.queue + c.reports /\ player.played + c.pending = c.fed
      /\ player.frames = c.fed
  BY <1>2, <1>3, Accounts
<1>5. utt' = [utt EXCEPT ![u] = Uttered(c, c.pc, c.known, c.fed, c.pending, c.queue - 1,
                                        c.reports + 1, c.out)]
  BY <1>1, <1>4 DEF Uttered, Utt
<1> DEFINE q == c.queue
           r == c.reports
<1>6. q \in Nat /\ r \in Nat /\ q > 0 /\ c.pending = q + r
  BY <1>1, <1>4
<1> HIDE DEF q, r
<1>7. q - 1 \in Nat /\ r + 1 \in Nat /\ q + r = (q - 1) + (r + 1)
  BY <1>6
<1>8. c.pending = (q - 1) + (r + 1)
  BY <1>6, <1>7
<1>9. utt' = [utt EXCEPT ![u] = Uttered(@, c.pc, c.known, c.fed, c.pending, q - 1, r + 1, c.out)]
  BY <1>5 DEF q, r
<1>10. Goes(u, c.pc, c.fed, c.pending, q - 1, r + 1, c.out)
  <2>1. SpeechTypeOK
    BY DEF SpeechInv
  <2> QED
    BY <2>1, <1>4, <1>7, <1>9, UttGoes, Zenon
<1>11. /\ player' = player /\ player'.frames = c.fed /\ player'.played + c.pending = c.fed
       /\ UNCHANGED <<engine, ctrl, mine>>
  BY <1>1, <1>4
<1> QED
  BY <1>2, <1>3, <1>4, <1>7, <1>8, <1>10, <1>11, FlowsKeeps

LEMMA ReportedInv ==
  ASSUME SpeechInv, NEW u \in Utterances, Reported(u) PROVE SpeechInv'
<1> DEFINE c == utt[u]
           pe == IF player.owner = u THEN (IF c.pending = 0 THEN 0 ELSE c.pending - 1)
                 ELSE c.pending
           r == c.reports - 1
           q == c.queue
<1>1. c.reports > 0 /\ UNCHANGED <<ctrl, engine, ctx, mine>>
  BY DEF Reported, calm
<1>2. /\ utt \in [Utterances -> Utt] /\ c \in Utt /\ player \in Player
      /\ c.fed \in Nat /\ c.pending \in Nat /\ c.queue \in Nat /\ c.reports \in Nat
      /\ player.frames \in Nat /\ player.played \in Nat /\ c.out \in Outs
      /\ c.known \in BOOLEAN /\ c.pc \in Pcs /\ c.fed <= MaxChunks
      /\ player.owner = u /\ c.pc \in Playing =>
           /\ c.pending = c.queue + c.reports
           /\ player.played + c.pending = c.fed
           /\ player.frames = c.fed
  BY Accounts
<1>3. pe \in Nat /\ r \in Nat /\ q \in Nat
  BY <1>1, <1>2
<1>4. utt' = [utt EXCEPT ![u] = Uttered(c, c.pc, c.known, c.fed, pe, q, r, c.out)]
  <2>1. CASE player.owner = u
    <3>1. utt' = [utt EXCEPT ![u].reports = @ - 1,
                         ![u].pending = IF @ = 0 THEN 0 ELSE @ - 1]
      BY <2>1 DEF Reported, ownsPlayer
    <3> QED
      BY <1>2, <2>1, <3>1 DEF Uttered, Utt
  <2>2. CASE player.owner # u
    <3>1. utt' = [utt EXCEPT ![u].reports = @ - 1]
      BY <2>2 DEF Reported, ownsPlayer
    <3> QED
      BY <1>2, <2>2, <3>1 DEF Uttered, Utt
  <2> QED
    BY <2>1, <2>2
<1>5. Goes(u, c.pc, c.fed, pe, q, r, c.out)
  <2>1. SpeechTypeOK
    BY DEF SpeechInv
  <2> HIDE DEF pe, q, r
  <2> QED
    BY <2>1, <1>2, <1>3, <1>4, UttGoes, Zenon
<1>6. /\ player' \in Player /\ player'.owner = player.owner /\ player'.graph = player.graph
      /\ player'.frames = player.frames
      /\ player'.played = (IF player.owner = u THEN player.played + 1 ELSE player.played)
  <2>1. CASE player.owner = u
    <3> DEFINE n == player.played + 1
    <3>1. player' = [player EXCEPT !.played = n, !.ready = None] /\ n \in Nat /\ None \in Voice
      BY <1>2, <2>1 DEF Reported, ownsPlayer, Voice
    <3> HIDE DEF n
    <3>2. player' \in Player /\ player'.owner = player.owner /\ player'.graph = player.graph
          /\ player'.frames = player.frames /\ player'.played = n
      BY <1>2, <3>1 DEF Player
    <3> QED
      BY <2>1, <3>2 DEF n
  <2>2. CASE player.owner # u
    <3>1. UNCHANGED player
      BY <2>2 DEF Reported, ownsPlayer
    <3> QED
      BY <1>2, <2>2, <3>1
  <2> QED
    BY <2>1, <2>2
<1>7. Counted(c, u, player) /\ VoiceIsTurns
  BY DEF SpeechInv, CountsAreOwners
<1>8. CASE c.pc = "ended"
  <2>1. Goes(u, "ended", c.fed, pe, 0, r, c.out) /\ (c.out = "told" => c.fed = 0)
    BY <1>5, <1>7, <1>8 DEF Counted
  <2>2. ctrl' = IF ctrl = u THEN None ELSE ctrl
    <3>1. "ended" \notin Speaking /\ u # None
      BY DEF Speaking, Playing, Utterances, None
    <3> QED
      BY <1>1, <1>7, <1>8, <3>1 DEF VoiceIsTurns
  <2>3. SamePlayer(player', u)
    BY <1>6 DEF SamePlayer
  <2> HIDE DEF pe, r
  <2>4. c.out \in Outs /\ engine' \in {engine, None} /\ UNCHANGED mine
    BY <1>1, <1>2
  <2> QED
    BY <2>1, <2>2, <2>3, <2>4, EndsKeeps
<1>9. CASE c.pc # "ended"
  <2>1. c.pc \in Playing /\ c.pc \notin Silent
    BY <1>1, <1>2, <1>9, OnlyPlaysSound
  <2>2. CASE player.owner = u
    <3> DEFINE pn == c.pending
               rp == c.reports
               pl == player.played
               f == c.fed
    <3>1. pn \in Nat /\ rp \in Nat /\ q \in Nat /\ pl \in Nat /\ f \in Nat /\ rp > 0
          /\ pn = q + rp /\ pl + pn = f
      BY <1>1, <1>2, <2>1, <2>2
    <3>2. pe = (IF pn = 0 THEN 0 ELSE pn - 1) /\ r = rp - 1
      BY <2>2
    <3>3. player'.frames = f /\ player'.played = pl + 1
      BY <1>2, <1>6, <2>1, <2>2
    <3> HIDE DEF pn, rp, pl, pe, q, r, f
    <3>4. pe = q + r /\ (pl + 1) + pe = f
      BY <3>1, <3>2
    <3>5. player'.played + pe = f
      BY <3>3, <3>4
    <3> USE DEF f
    <3> QED
      BY <1>1, <1>2, <1>3, <1>5, <1>6, <2>1, <2>2, <3>3, <3>4, <3>5, FlowsKeeps
  <2>3. CASE player.owner # u
    <3>1. Counted(utt'[u], u, player')
      <4> DEFINE k == utt'[u]
      <4>1. k.pc = c.pc /\ k.fed = c.fed /\ k.out = c.out
        BY <1>5 DEF Goes, Reads
      <4>2. player'.owner # u
        BY <1>6, <2>3
      <4> HIDE DEF k
      <4>3. Counted(k, u, player')
        BY <1>7, <1>9, <2>1, <4>1, <4>2 DEF Counted
      <4> QED
        BY <4>3 DEF k
    <3>2. player'.graph \in {None, player'.owner} /\ player'.played = player.played
      BY <1>6, <1>7, <2>3 DEF VoiceIsTurns
    <3> HIDE DEF pe, q, r
    <3>3. UNCHANGED <<engine, ctrl, mine>>
      BY <1>1
    <3> QED
      BY <1>5, <1>6, <2>1, <3>1, <3>2, <3>3, MovesKeeps
  <2> QED
    BY <2>2, <2>3
<1> QED
  BY <1>8, <1>9

----------------------------------------------------------------------------
(* stopSpeaking, and the microphone.                                        *)

Aborted(c) == [c EXCEPT !.signal = TRUE]

LEMMA UttAborts ==
  \A c \in Utt : /\ Aborted(c) \in Utt /\ Aborted(c).signal = TRUE
                 /\ Reads(Aborted(c), [c EXCEPT !.signal = TRUE], c.pc, c.fed, c.pending,
                          c.queue, c.reports, c.out)
<1> SUFFICES ASSUME NEW c \in Utt
             PROVE  /\ Aborted(c) \in Utt /\ Aborted(c).signal = TRUE
                    /\ Reads(Aborted(c), [c EXCEPT !.signal = TRUE], c.pc, c.fed, c.pending,
                             c.queue, c.reports, c.out)
  OBVIOUS
<1> QED
  BY DEF Aborted, Utt, Reads

LEMMA PlayerStops ==
  \A p \in Player : /\ stop(p) \in Player /\ stop(p).owner = None /\ stop(p).graph = None
<1> SUFFICES ASSUME NEW p \in Player
             PROVE  stop(p) \in Player /\ stop(p).owner = None /\ stop(p).graph = None
  OBVIOUS
<1>1. None \in Voice
  BY DEF Voice
<1> QED
  BY <1>1 DEF stop, Player

\* A record that was just asked for, or was before its turn was replaced.
Blank(c) ==
  /\ c \in Utt /\ c.pc \in {"asked", "ended"} /\ c.fed = 0 /\ c.pending = 0
  /\ c.queue = 0 /\ c.reports = 0 /\ c.out = ""

LEMMA StopKeeps ==
  ASSUME SpeechInv, NEW us,
         \A w \in Utterances : us[w] = utt[w] \/ Blank(us[w]),
         \A w \in Utterances : us[w].pc \in Waiting => turnRef' = w,
         stopSpeaking(us), turnRef' \in Voice, mic' \in Mic,
         attach' \in [Attaches -> Steps], StreamIsWanted'
  PROVE  SpeechInv'
<1>1. SpeechTypeOK /\ VoiceIsTurns /\ CountsAreOwners /\ utt \in [Utterances -> Utt]
      /\ player \in Player
  BY DEF SpeechInv, SpeechTypeOK
<1>2. /\ utt' = [w \in Utterances |-> IF w = ctrl THEN Aborted(us[w]) ELSE us[w]]
      /\ ctrl' = None /\ engine' = None
      /\ player' = (IF Listens(ctrl) THEN stop(stop(player)) ELSE stop(player))
  BY DEF stopSpeaking, Aborted
<1>3. player' \in Player /\ player'.owner = None /\ player'.graph = None
  <2>1. stop(player) \in Player
    BY <1>1, PlayerStops
  <2>2. CASE Listens(ctrl)
    BY <1>2, <2>1, <2>2, PlayerStops
  <2>3. CASE ~Listens(ctrl)
    BY <1>1, <1>2, <2>3, PlayerStops
  <2> QED
    BY <2>2, <2>3
<1>4. ASSUME NEW w \in Utterances
      PROVE  /\ us[w] \in Utt /\ utt'[w] \in Utt
             /\ utt'[w].pc = us[w].pc /\ utt'[w].fed = us[w].fed
             /\ utt'[w].pending = us[w].pending /\ utt'[w].queue = us[w].queue
             /\ utt'[w].reports = us[w].reports /\ utt'[w].out = us[w].out
             /\ (utt'[w].signal = us[w].signal \/ w = ctrl)
             /\ (w = ctrl => utt'[w].signal)
  <2>1. us[w] \in Utt
    BY <1>1 DEF Blank
  <2>2. CASE w = ctrl
    <3>1. utt'[w] = Aborted(us[w])
      BY <1>2, <2>2
    <3>2. Aborted(us[w]) \in Utt /\ Aborted(us[w]).signal = TRUE
          /\ Reads(Aborted(us[w]), [us[w] EXCEPT !.signal = TRUE], us[w].pc, us[w].fed,
                   us[w].pending, us[w].queue, us[w].reports, us[w].out)
      BY <2>1, UttAborts, Zenon
    <3> QED
      BY <2>1, <2>2, <3>1, <3>2 DEF Reads
  <2>3. CASE w # ctrl
    BY <1>2, <2>1, <2>3
  <2> QED
    BY <2>2, <2>3
<1>5. SpeechTypeOK'
  <2>1. None \in Voice
    BY DEF Voice
  <2>2. utt' \in [Utterances -> Utt]
    BY <1>2, <1>4
  <2> QED
    BY <1>2, <1>3, <2>1, <2>2 DEF SpeechTypeOK
<1>6. VoiceIsTurns'
  <2>1. ASSUME NEW w \in Utterances
        PROVE  /\ ~(utt'[w].pc \in Speaking /\ ~utt'[w].signal)
               /\ utt'[w].pc \in Waiting => turnRef' = w
               /\ engine' # w /\ player'.owner # w
    <3>1. w # None
      BY DEF Utterances, None
    <3>2. CASE us[w] = utt[w]
      <4>1. utt[w].pc \in Speaking /\ ~utt[w].signal => ctrl = w
        BY <1>1 DEF VoiceIsTurns
      <4>2. utt'[w].pc = utt[w].pc /\ (utt'[w].signal = utt[w].signal \/ w = ctrl)
            /\ (w = ctrl => utt'[w].signal)
        BY <1>4, <3>2
      <4>3. ~(utt'[w].pc \in Speaking /\ ~utt'[w].signal)
        BY <4>1, <4>2
      <4> QED
        BY <1>2, <1>3, <1>4, <3>1, <4>3
    <3>3. CASE Blank(us[w])
      <4>1. utt'[w].pc \notin Speaking
        BY <1>4, <3>3 DEF Blank, Speaking, Playing
      <4> QED
        BY <1>2, <1>3, <1>4, <3>1, <4>1
    <3> QED
      BY <3>2, <3>3
  <2> QED
    BY <1>2, <1>3, <2>1 DEF VoiceIsTurns
<1>7. CountsAreOwners'
  <2>1. ASSUME NEW w \in Utterances PROVE Counted(utt'[w], w, player')
    <3> DEFINE k == utt'[w]
    <3>1. player'.owner # w
      BY <1>3 DEF Utterances, None
    <3>2. CASE us[w] = utt[w]
      <4>1. Counted(utt[w], w, player)
        BY <1>1 DEF CountsAreOwners
      <4>2. k.pc = utt[w].pc /\ k.fed = utt[w].fed /\ k.pending = utt[w].pending
            /\ k.queue = utt[w].queue /\ k.reports = utt[w].reports /\ k.out = utt[w].out
        BY <1>4, <3>2
      <4> HIDE DEF k
      <4>3. Counted(k, w, player')
        BY <3>1, <4>1, <4>2 DEF Counted
      <4> QED
        BY <4>3 DEF k
    <3>3. CASE Blank(us[w])
      <4>1. k.fed = 0 /\ k.pending = 0 /\ k.queue = 0 /\ k.reports = 0 /\ k.out = ""
        BY <1>4, <3>3 DEF Blank
      <4>2. 0 <= MaxChunks
        BY SpeechAssumption
      <4> HIDE DEF k
      <4>3. Counted(k, w, player')
        BY <3>1, <4>1, <4>2 DEF Counted
      <4> QED
        BY <4>3 DEF k
    <3> QED
      BY <3>2, <3>3
  <2> QED
    BY <2>1 DEF CountsAreOwners
<1> QED
  BY <1>5, <1>6, <1>7 DEF SpeechInv

\* The microphone moves, and is not opened by it.
LEMMA MicKeeps ==
  ASSUME SpeechInv, UNCHANGED <<utt, turnRef, ctrl, player, engine>>, mic' \in Mic,
         attach' \in [Attaches -> Steps], StreamIsWanted',
         mic'.stop => mic.stop /\ mic'.over = mic.over
  PROVE  SpeechInv'
<1>1. SpeechTypeOK /\ VoiceIsTurns /\ CountsAreOwners
  BY DEF SpeechInv
<1>2. SpeechTypeOK'
  BY <1>1 DEF SpeechTypeOK
<1>3. VoiceIsTurns'
  BY <1>1 DEF VoiceIsTurns
<1>4. CountsAreOwners'
  BY <1>1 DEF CountsAreOwners
<1> QED
  BY <1>2, <1>3, <1>4 DEF SpeechInv

LEMMA DetachedTypes ==
  ASSUME SpeechInv, attach' = [a \in Attaches |-> detached(a)], mic'.owner = None
  PROVE  attach' \in [Attaches -> Steps] /\ StreamIsWanted'
<1>1. attach \in [Attaches -> Steps]
  BY DEF SpeechInv, SpeechTypeOK
<1>2. \A a \in Attaches : detached(a) \in Steps /\ detached(a) # "attached"
  BY <1>1 DEF detached, Steps
<1>3. attach' \in [Attaches -> Steps] /\ \A a \in Attaches : attach'[a] # "attached"
  BY <1>2
<1> QED
  BY <1>3 DEF StreamIsWanted

\* The microphone's record, with recognisers come and gone.
Heard(m, st, o, n, e, h, v) ==
  [m EXCEPT !.stop = st, !.owner = o, !.running = n, !.stopped = e, !.heard = h, !.over = v]

LEMMA MicMoves ==
  \A m \in Mic, st \in BOOLEAN, o \in Wishes, n \in Int, e \in Int, h \in Int, v \in Voice :
    /\ Heard(m, st, o, n, e, h, v) \in Mic /\ Heard(m, st, o, n, e, h, v).stop = st
    /\ Heard(m, st, o, n, e, h, v).owner = o /\ Heard(m, st, o, n, e, h, v).over = v
<1> SUFFICES ASSUME NEW m \in Mic, NEW st \in BOOLEAN, NEW o \in Wishes, NEW n \in Int,
                    NEW e \in Int, NEW h \in Int, NEW v \in Voice
             PROVE  /\ Heard(m, st, o, n, e, h, v) \in Mic /\ Heard(m, st, o, n, e, h, v).stop = st
                    /\ Heard(m, st, o, n, e, h, v).owner = o /\ Heard(m, st, o, n, e, h, v).over = v
  OBVIOUS
<1> QED
  BY DEF Heard, Mic

LEMMA MicCloses ==
  ASSUME SpeechInv, NEW n \in Int, NEW e \in Int, NEW h \in Int,
         mic' = Heard(mic, FALSE, None, n, e, h, None)
  PROVE  mic' \in Mic /\ mic'.stop = FALSE /\ mic'.owner = None
<1> DEFINE k == Heard(mic, FALSE, None, n, e, h, None)
<1>1. mic \in Mic /\ None \in Wishes /\ FALSE \in BOOLEAN /\ None \in Voice
  BY DEF SpeechInv, SpeechTypeOK, Wishes, Voice
<1>2. k \in Mic /\ k.stop = FALSE /\ k.owner = None
  BY <1>1 DEF Heard, Mic
<1> QED
  BY <1>2

LEMMA MicClosed ==
  ASSUME SpeechInv,
         \/ mic' = [closed EXCEPT !.running = @ - 1]
         \/ mic' = [closed EXCEPT !.stopped = @ - 1]
         \/ mic' = [closed EXCEPT !.heard = @ - 1]
         \/ mic' = [closed EXCEPT !.running = @ - 1, !.stopped = @ + 1]
         \/ mic' = [closed EXCEPT !.running = @ - 1, !.heard = @ + 1]
  PROVE  mic' \in Mic /\ mic'.stop = FALSE /\ mic'.owner = None
<1> DEFINE n == mic.running
           e == mic.stopped
           h == mic.heard
<1>1. mic \in Mic /\ n \in Int /\ e \in Int /\ h \in Int
  BY DEF SpeechInv, SpeechTypeOK, Mic
<1>2. \/ mic' = Heard(mic, FALSE, None, n - 1, e, h, None)
      \/ mic' = Heard(mic, FALSE, None, n, e - 1, h, None)
      \/ mic' = Heard(mic, FALSE, None, n, e, h - 1, None)
      \/ mic' = Heard(mic, FALSE, None, n - 1, e + 1, h, None)
      \/ mic' = Heard(mic, FALSE, None, n - 1, e, h + 1, None)
  <2>1. CASE mic' = [closed EXCEPT !.running = @ - 1]
    BY <1>1, <2>1 DEF closed, Heard, Mic
  <2>2. CASE mic' = [closed EXCEPT !.stopped = @ - 1]
    BY <1>1, <2>2 DEF closed, Heard, Mic
  <2>3. CASE mic' = [closed EXCEPT !.heard = @ - 1]
    BY <1>1, <2>3 DEF closed, Heard, Mic
  <2>4. CASE mic' = [closed EXCEPT !.running = @ - 1, !.stopped = @ + 1]
    BY <1>1, <2>4 DEF closed, Heard, Mic
  <2>5. CASE mic' = [closed EXCEPT !.running = @ - 1, !.heard = @ + 1]
    BY <1>1, <2>5 DEF closed, Heard, Mic
  <2> QED
    BY <2>1, <2>2, <2>3, <2>4, <2>5
<1> HIDE DEF n, e, h
<1>3. n - 1 \in Int /\ e - 1 \in Int /\ h - 1 \in Int /\ e + 1 \in Int /\ h + 1 \in Int
  BY <1>1
<1>4. PICK i \in Int, j \in Int, k \in Int : mic' = Heard(mic, FALSE, None, i, j, k, None)
  BY <1>1, <1>2, <1>3, Zenon
<1> QED
  BY <1>4, MicCloses

LEMMA MicOffInv ==
  ASSUME SpeechInv, MicOff \/ RecogniserEnds PROVE SpeechInv'
<1>1. mic' \in Mic /\ mic'.stop = FALSE /\ mic'.owner = None
  BY MicClosed DEF MicOff, RecogniserEnds
<1>2. attach' = [a \in Attaches |-> detached(a)] /\ UNCHANGED <<utt, turnRef, ctrl, player, engine>>
  BY DEF MicOff, RecogniserEnds, detachMic
<1>3. attach' \in [Attaches -> Steps] /\ StreamIsWanted'
  BY <1>1, <1>2, DetachedTypes
<1> QED
  BY <1>1, <1>2, <1>3, MicKeeps

LEMMA DeviceInv ==
  ASSUME SpeechInv, NEW a \in Attaches, DeviceOpens(a) \/ DeviceDenied(a) \/ AttachResumed(a)
  PROVE  SpeechInv'
<1>1. attach \in [Attaches -> Steps] /\ mic \in Mic /\ StreamIsWanted
  BY DEF SpeechInv, SpeechTypeOK
<1>2. UNCHANGED <<utt, turnRef, ctrl, player, engine>> /\ mic' = mic
  BY DEF DeviceOpens, DeviceDenied, AttachResumed
<1>3. PICK st \in Steps : /\ attach' = [attach EXCEPT ![a] = st]
                          /\ st = "attached" => mic.owner = a
  <2>1. {"over", "resume", "attached"} \subseteq Steps
    BY DEF Steps
  <2>2. CASE DeviceOpens(a)
    BY <2>1, <2>2 DEF DeviceOpens
  <2>3. CASE DeviceDenied(a)
    BY <2>1, <2>3 DEF DeviceDenied
  <2>4. CASE AttachResumed(a)
    BY <2>1, <2>4 DEF AttachResumed
  <2> QED
    BY <2>2, <2>3, <2>4
<1>4. attach' \in [Attaches -> Steps]
  BY <1>1, <1>3
<1>5. StreamIsWanted'
  <2>1. ASSUME NEW b \in Attaches, attach'[b] = "attached" PROVE mic.owner = b
    <3>1. CASE b = a
      BY <1>1, <1>3, <2>1, <3>1
    <3>2. CASE b # a
      BY <1>1, <1>3, <2>1, <3>2 DEF StreamIsWanted
    <3> QED
      BY <3>1, <3>2
  <2> QED
    BY <1>1, <1>2, <2>1 DEF StreamIsWanted
<1> QED
  BY <1>1, <1>2, <1>4, <1>5, MicKeeps

\* The button opens it: whoever speaks is silenced, and no stream is live.
LEMMA MicOnInv ==
  ASSUME SpeechInv, MicOn PROVE SpeechInv'
<1>1. /\ utt \in [Utterances -> Utt] /\ turnRef \in Voice /\ attach \in [Attaches -> Steps]
      /\ mic \in Mic /\ mic.running \in Int /\ mic.stopped \in Int /\ mic.heard \in Int
      /\ mic.owner \in Wishes /\ mic.over \in Voice
      /\ StreamIsWanted /\ VoiceIsTurns
  BY DEF SpeechInv, SpeechTypeOK, Mic
<1>2. ~mic.stop /\ stopSpeaking(utt) /\ turnRef' = turnRef
  BY DEF MicOn
<1>3. ~isMicAttached
  <2>1. \A a \in Attaches : a # None
    BY DEF Attaches, None
  <2> QED
    BY <1>1, <1>2, <2>1 DEF StreamIsWanted, isMicAttached
<1>4. PICK a \in NextAttach : /\ mic' = startListening([mic EXCEPT !.owner = a])
                              /\ attach' = [attach EXCEPT ![a] = "device"]
  BY <1>3 DEF MicOn
<1>5. a \in Attaches /\ a \in Wishes /\ "device" \in Steps /\ TRUE \in BOOLEAN
      /\ mic.running + 1 \in Int
  BY <1>1 DEF NextAttach, Wishes, Steps
<1>6. mic' = Heard(mic, TRUE, a, mic.running + 1, mic.stopped, mic.heard, mic.over)
  BY <1>1, <1>4 DEF startListening, Heard, Mic
<1>7. mic' \in Mic /\ mic'.stop
  BY <1>1, <1>5, <1>6, MicMoves, Zenon
<1>8. attach' \in [Attaches -> Steps]
  BY <1>1, <1>4, <1>5
<1>9. StreamIsWanted'
  <2>1. \A b \in Attaches : attach'[b] # "attached"
    BY <1>1, <1>3, <1>4, <1>5 DEF isMicAttached
  <2> QED
    BY <1>7, <2>1 DEF StreamIsWanted
<1>10. \A w \in Utterances : utt[w].pc \in Waiting => turnRef' = w
  BY <1>1, <1>2 DEF VoiceIsTurns
<1> QED
  BY <1>1, <1>2, <1>7, <1>8, <1>9, <1>10, StopKeeps

\* A turn nobody answers any more has nothing to its name.
LEMMA DroppedIsBlank ==
  ASSUME SpeechInv, NEW w \in Utterances
  PROVE  /\ dropped[w] = utt[w] \/ Blank(dropped[w])
         /\ dropped[w].pc \notin Waiting
<1>1. utt[w] \in Utt /\ Counted(utt[w], w, player)
  BY DEF SpeechInv, SpeechTypeOK, CountsAreOwners
<1>2. CASE utt[w].pc \in Waiting
  <2>1. utt[w].fed = 0 /\ utt[w].pending = 0 /\ utt[w].queue = 0 /\ utt[w].reports = 0
        /\ utt[w].out = ""
    BY <1>1, <1>2 DEF Counted, Silent, Waiting
  <2>2. "ended" \in Pcs /\ "ended" \notin Waiting
    BY DEF Pcs, Waiting
  <2>3. dropped[w] = [utt[w] EXCEPT !.pc = "ended"]
    BY <1>2 DEF dropped
  <2> QED
    BY <1>1, <2>1, <2>2, <2>3 DEF Blank, Utt
<1>3. CASE utt[w].pc \notin Waiting
  BY <1>3 DEF dropped
<1> QED
  BY <1>2, <1>3

LEMMA EscapeInv ==
  ASSUME SpeechInv, Escape PROVE SpeechInv'
<1> DEFINE us == dropped
<1>1. stopSpeaking(us) /\ turnRef' = None /\ UNCHANGED <<mic, attach>>
  BY DEF Escape
<1>2. \A w \in Utterances : (us[w] = utt[w] \/ Blank(us[w])) /\ us[w].pc \notin Waiting
  BY DroppedIsBlank
<1> HIDE DEF us
<1>3. turnRef' \in Voice /\ mic' \in Mic /\ attach' \in [Attaches -> Steps] /\ StreamIsWanted'
  BY <1>1 DEF SpeechInv, SpeechTypeOK, StreamIsWanted, Voice
<1> QED
  BY <1>1, <1>2, <1>3, StopKeeps

LEMMA PhraseInv ==
  ASSUME SpeechInv, Phrase PROVE SpeechInv'
<1> DEFINE new == [Unused EXCEPT !.pc = "asked"]
<1>1. PICK u \in NextTurn : stopSpeaking([dropped EXCEPT ![u] = new]) /\ turnRef' = u
  BY DEF Phrase
<1>2. u \in Utterances /\ turnRef' \in Voice
  BY <1>1 DEF NextTurn, Voice
<1>3. Blank(new)
  BY DEF Unused, Blank, Utt, Pcs, Waiting, Outs
<1> DEFINE us == [dropped EXCEPT ![u] = new]
<1> HIDE DEF new
<1>4. ASSUME NEW w \in Utterances
      PROVE  us[w] = IF w = u THEN new ELSE dropped[w]
  BY DEF dropped
<1>5. \A w \in Utterances : us[w] = utt[w] \/ Blank(us[w])
  BY <1>3, <1>4, DroppedIsBlank
<1>6. \A w \in Utterances : us[w].pc \in Waiting => turnRef' = w
  BY <1>1, <1>4, DroppedIsBlank
<1>7. stopSpeaking(us)
  BY <1>1
<1> HIDE DEF us
<1>8. mic' \in Mic /\ mic'.stop = FALSE /\ mic'.owner = None
  <2>1. mic' = [closed EXCEPT !.running = @ - 1, !.heard = @ + 1]
    BY DEF Phrase
  <2> QED
    BY <2>1, MicClosed
<1>9. attach' = [a \in Attaches |-> detached(a)]
  BY DEF Phrase
<1>10. attach' \in [Attaches -> Steps] /\ StreamIsWanted'
  BY <1>8, <1>9, DetachedTypes
<1> QED
  BY <1>2, <1>5, <1>6, <1>7, <1>8, <1>10, StopKeeps

\* The context wakes: whoever waited on it comes back, with its accounts.
Woken(c) == [c EXCEPT !.pc = "resumed"]

LEMMA UttWakes ==
  \A c \in Utt : Reads(Woken(c), c, "resumed", c.fed, c.pending, c.queue, c.reports, c.out)
<1> SUFFICES ASSUME NEW c \in Utt
             PROVE Reads(Woken(c), c, "resumed", c.fed, c.pending, c.queue, c.reports, c.out)
  OBVIOUS
<1>1. "resumed" \in Pcs
  BY DEF Pcs, Speaking, Playing
<1> QED
  BY <1>1 DEF Woken, Utt, Reads

LEMMA ResumeLandsInv ==
  ASSUME SpeechInv, ResumeLands PROVE SpeechInv'
<1>1. /\ utt' = [u \in Utterances |-> IF utt[u].pc = "resume" THEN Woken(utt[u]) ELSE utt[u]]
      /\ attach' = [a \in Attaches |-> IF attach[a] = "resume" THEN "resumed" ELSE attach[a]]
      /\ UNCHANGED <<turnRef, ctrl, player, engine, mic>>
  BY DEF ResumeLands, Woken
<1>2. SpeechTypeOK /\ StreamIsWanted /\ VoiceIsTurns /\ CountsAreOwners
      /\ utt \in [Utterances -> Utt] /\ attach \in [Attaches -> Steps]
  BY DEF SpeechInv, SpeechTypeOK
<1>3. ASSUME NEW u \in Utterances
      PROVE  /\ utt'[u] \in Utt /\ utt'[u].signal = utt[u].signal
             /\ utt'[u].fed = utt[u].fed /\ utt'[u].pending = utt[u].pending
             /\ utt'[u].queue = utt[u].queue /\ utt'[u].reports = utt[u].reports
             /\ utt'[u].out = utt[u].out
             /\ \/ utt'[u].pc = utt[u].pc
                \/ utt[u].pc = "resume" /\ utt'[u].pc = "resumed"
  <2>1. CASE utt[u].pc = "resume"
    <3>1. utt'[u] = Woken(utt[u])
      BY <1>1, <2>1
    <3>2. Reads(Woken(utt[u]), utt[u], "resumed", utt[u].fed, utt[u].pending, utt[u].queue,
                utt[u].reports, utt[u].out)
      BY <1>2, UttWakes, Zenon
    <3> QED
      BY <2>1, <3>1, <3>2 DEF Reads
  <2>2. CASE utt[u].pc # "resume"
    BY <1>1, <1>2, <2>2
  <2> QED
    BY <2>1, <2>2
<1>4. ASSUME NEW u \in Utterances
      PROVE  /\ utt'[u].pc \in Speaking <=> utt[u].pc \in Speaking
             /\ utt'[u].pc \in Playing <=> utt[u].pc \in Playing
             /\ utt'[u].pc \in Silent <=> utt[u].pc \in Silent
             /\ utt'[u].pc = "ended" <=> utt[u].pc = "ended"
             /\ utt'[u].pc \in Waiting <=> utt[u].pc \in Waiting
             /\ utt'[u].pc = "synth" <=> utt[u].pc = "synth"
  BY <1>3 DEF Speaking, Playing, Silent, Waiting
<1>5. attach' \in [Attaches -> Steps]
      /\ \A a \in Attaches : attach'[a] = "attached" => attach[a] = "attached"
  BY <1>1, <1>2 DEF Steps
<1>6. SpeechTypeOK'
  <2>1. utt' \in [Utterances -> Utt]
    BY <1>1, <1>3
  <2> QED
    BY <1>1, <1>2, <1>5, <2>1 DEF SpeechTypeOK
<1>7. StreamIsWanted'
  BY <1>1, <1>2, <1>5 DEF StreamIsWanted
<1>8. VoiceIsTurns'
  <2>2. ASSUME NEW u \in Utterances
        PROVE  /\ utt'[u].pc \in Speaking /\ ~utt'[u].signal => ctrl' = u
               /\ utt'[u].pc \in Waiting => turnRef' = u
               /\ engine' = u => /\ turnRef' = u /\ ~utt'[u].signal
                                 /\ mic'.stop => mic'.over = u
                                 /\ utt'[u].pc \in {"synth", "ended"}
               /\ player'.owner = u => ~utt'[u].signal
    <3>1. /\ utt[u].pc \in Speaking /\ ~utt[u].signal => ctrl = u
          /\ utt[u].pc \in Waiting => turnRef = u
          /\ engine = u => /\ turnRef = u /\ ~utt[u].signal
                           /\ mic.stop => mic.over = u
                           /\ utt[u].pc \in {"synth", "ended"}
          /\ player.owner = u => ~utt[u].signal
      BY <1>2 DEF VoiceIsTurns
    <3> QED
      BY <1>1, <1>3, <1>4, <3>1
  <2>3. ctrl' # None => /\ utt'[ctrl'].pc \in Speaking /\ turnRef' = ctrl'
                        /\ mic'.stop => mic'.over = ctrl'
    <3>1. CASE ctrl # None
      <4>1. /\ ctrl \in Utterances /\ utt[ctrl].pc \in Speaking /\ turnRef = ctrl
            /\ mic.stop => mic.over = ctrl
        BY <1>2, <3>1 DEF VoiceIsTurns, SpeechTypeOK, Voice
      <4> QED
        BY <1>1, <1>4, <4>1
    <3> QED
      BY <1>1, <3>1
  <2>4. player'.graph # None => player'.graph = player'.owner
    BY <1>1, <1>2 DEF VoiceIsTurns
  <2> QED
    BY <2>2, <2>3, <2>4 DEF VoiceIsTurns
<1>9. CountsAreOwners'
  <2>1. ASSUME NEW u \in Utterances PROVE Counted(utt'[u], u, player')
    <3>1. Counted(utt[u], u, player) /\ player' = player
      BY <1>1, <1>2 DEF CountsAreOwners
    <3> QED
      BY <1>3, <1>4, <3>1 DEF Counted
  <2> QED
    BY <2>1 DEF CountsAreOwners
<1> QED
  BY <1>6, <1>7, <1>8, <1>9 DEF SpeechInv

\* speak begins: nobody has the controller, for whoever had it has settled or
\* was stopped when the turn was asked for.
LEMMA SpeakInv ==
  ASSUME SpeechInv, NEW u \in Utterances, Speak(u) PROVE SpeechInv'
<1>1. SpeechTypeOK /\ StreamIsWanted /\ VoiceIsTurns /\ CountsAreOwners
      /\ utt \in [Utterances -> Utt] /\ player \in Player
  BY DEF SpeechInv, SpeechTypeOK
<1>2. /\ turnRef = u /\ utt[u].pc = "answering" /\ UNCHANGED <<engine, turnRef, attach>>
      /\ ctrl' = u /\ mic' = [mic EXCEPT !.over = IF mic.stop THEN u ELSE mic.over]
  BY DEF Speak
<1>3. ctrl = None
  <2>1. "answering" \notin Speaking
    BY DEF Speaking, Playing
  <2> QED
    BY <1>1, <1>2, <2>1 DEF VoiceIsTurns
<1>4. \A w \in Utterances : w # None
  BY DEF Utterances, None
<1>5. player' = player
  BY <1>3 DEF Speak, Listens
<1>6. utt' = [utt EXCEPT ![u].pc = "fetch"]
  BY <1>1, <1>3, <1>4 DEF Speak
<1>7. Goes(u, "fetch", utt[u].fed, utt[u].pending, utt[u].queue, utt[u].reports, utt[u].out)
  <2>1. "fetch" \in Pcs
    BY DEF Pcs, Speaking
  <2> QED
    BY <1>6, <2>1, UttMoves
<1>8. /\ \A w \in Utterances \ {u} : utt'[w] = utt[w]
      /\ utt' \in [Utterances -> Utt]
      /\ utt'[u].pc = "fetch" /\ utt'[u].signal = utt[u].signal /\ utt'[u].fed = utt[u].fed
      /\ utt'[u].pending = utt[u].pending /\ utt'[u].queue = utt[u].queue
      /\ utt'[u].reports = utt[u].reports /\ utt'[u].out = utt[u].out
  BY <1>7 DEF Goes, Reads
<1>9. /\ turnRef' = turnRef /\ engine' = engine /\ attach' = attach /\ mic' \in Mic
      /\ mic'.stop = mic.stop /\ mic'.owner = mic.owner /\ (mic.stop => mic'.over = u)
  <2>1. mic \in Mic /\ u \in Voice
    BY <1>1 DEF SpeechTypeOK, Voice
  <2>2. PICK v \in Voice : mic' = [mic EXCEPT !.over = v] /\ (mic.stop => v = u)
    BY <1>2, <2>1 DEF Mic
  <2>3. mic' \in Mic /\ mic'.stop = mic.stop /\ mic'.owner = mic.owner /\ mic'.over = v
    BY <2>1, <2>2 DEF Mic
  <2> QED
    BY <1>2, <2>2, <2>3
<1>10. SpeechTypeOK' /\ StreamIsWanted'
  BY <1>1, <1>2, <1>5, <1>8, <1>9 DEF SpeechTypeOK, StreamIsWanted, Voice
<1>11. VoiceIsTurns'
  <2>1. "fetch" \in Speaking /\ "fetch" \notin Waiting
    BY DEF Speaking, Waiting
  <2>2. \A w \in Utterances : engine = w => w = u /\ FALSE
    <3>1. "answering" \notin {"synth", "ended"}
      OBVIOUS
    <3> QED
      BY <1>1, <1>2, <3>1 DEF VoiceIsTurns
  <2>3. ASSUME NEW w \in Utterances
        PROVE  /\ utt'[w].pc \in Speaking /\ ~utt'[w].signal => ctrl' = w
               /\ utt'[w].pc \in Waiting => turnRef' = w
               /\ engine' = w => /\ turnRef' = w /\ ~utt'[w].signal
                                 /\ mic'.stop => mic'.over = w
                                 /\ utt'[w].pc \in {"synth", "ended"}
               /\ player'.owner = w => ~utt'[w].signal
    <3>1. /\ utt[w].pc \in Speaking /\ ~utt[w].signal => ctrl = w
          /\ utt[w].pc \in Waiting => turnRef = w
          /\ engine = w => /\ turnRef = w /\ ~utt[w].signal
                           /\ mic.stop => mic.over = w
                           /\ utt[w].pc \in {"synth", "ended"}
          /\ player.owner = w => ~utt[w].signal
      BY <1>1 DEF VoiceIsTurns
    <3>2. CASE w = u
      BY <1>2, <1>5, <1>8, <1>9, <2>1, <2>2, <3>1, <3>2
    <3>3. CASE w # u
      BY <1>3, <1>4, <1>5, <1>8, <1>9, <2>2, <3>1, <3>3
    <3> QED
      BY <3>2, <3>3
  <2>4. ctrl' # None => /\ utt'[ctrl'].pc \in Speaking /\ turnRef' = ctrl'
                        /\ mic'.stop => mic'.over = ctrl'
    BY <1>2, <1>8, <1>9, <2>1
  <2>5. player'.graph # None => player'.graph = player'.owner
    BY <1>1, <1>5 DEF VoiceIsTurns
  <2> QED
    BY <2>3, <2>4, <2>5 DEF VoiceIsTurns
<1>12. CountsAreOwners'
  <2>1. ASSUME NEW w \in Utterances PROVE Counted(utt'[w], w, player')
    <3>1. Counted(utt[w], w, player)
      BY <1>1 DEF CountsAreOwners
    <3>2. CASE w = u
      <4>1. "fetch" \in Silent /\ "answering" \in Silent /\ "fetch" \notin Playing
        BY DEF Silent, Playing
      <4> QED
        BY <1>2, <1>8, <3>1, <3>2, <4>1 DEF Counted
    <3>3. CASE w # u
      BY <1>5, <1>8, <3>1, <3>3
    <3> QED
      BY <3>2, <3>3
  <2> QED
    BY <2>1 DEF CountsAreOwners
<1> QED
  BY <1>10, <1>11, <1>12 DEF SpeechInv

LEMMA EngineEndsInv ==
  ASSUME SpeechInv, EngineEnds PROVE SpeechInv'
<1>1. SpeechTypeOK /\ StreamIsWanted /\ VoiceIsTurns /\ CountsAreOwners
  BY DEF SpeechInv
<1>2. engine' = None /\ UNCHANGED <<utt, turnRef, ctrl, player, mic, attach>>
  BY DEF EngineEnds, calm, mine
<1>3. SpeechTypeOK' /\ StreamIsWanted' /\ CountsAreOwners'
  BY <1>1, <1>2 DEF SpeechTypeOK, StreamIsWanted, CountsAreOwners, Voice
<1>4. VoiceIsTurns'
  <2>1. \A u \in Utterances : engine' # u
    BY <1>2 DEF Utterances, None
  <2> QED
    BY <1>1, <1>2, <2>1 DEF VoiceIsTurns
<1> QED
  BY <1>3, <1>4 DEF SpeechInv

LEMMA SpeechStepInv == SpeechInv /\ [Next]_vars => SpeechInv'
<1> SUFFICES ASSUME SpeechInv, [Next]_vars PROVE SpeechInv'
  OBVIOUS
<1>1. CASE UNCHANGED vars
  BY <1>1, SleepKeeps DEF vars
<1>2. CASE Cue \/ SuspendLands
  <2>1. UNCHANGED <<utt, turnRef, ctrl, player, engine, mic, attach>>
    BY <1>2 DEF Cue, SuspendLands
  <2> QED
    BY <2>1, SleepKeeps
<1>3. CASE ResumeLands
  BY <1>3, ResumeLandsInv
<1>4. CASE MicOn
  BY <1>4, MicOnInv
<1>5. CASE MicOff \/ RecogniserEnds
  BY <1>5, MicOffInv
<1>6. CASE Phrase
  BY <1>6, PhraseInv
<1>7. CASE Escape
  BY <1>7, EscapeInv
<1>8. CASE EngineEnds
  BY <1>8, EngineEndsInv
<1>9. CASE \E a \in Attaches : DeviceOpens(a) \/ DeviceDenied(a) \/ AttachResumed(a)
  BY <1>9, DeviceInv
<1>10. ASSUME NEW u \in Utterances, Turn(u) PROVE SpeechInv'
  <2>1. CASE Speak(u)
    BY <2>1, SpeakInv
  <2>14. CASE FirstFrame(u)
    BY <2>14, FirstFrameInv
  <2>15. CASE Frame(u)
    BY <2>15, SleepKeeps DEF Frame, mine
  <2>2. CASE SaysNothing(u)
    BY <2>2, SaysNothingInv
  <2>3. CASE Fetched(u)
    BY <2>3, FetchedInv
  <2>4. CASE FetchFails(u) \/ ModuleFails(u) \/ BodyBreaks(u)
    BY <2>4, FailuresInv
  <2>5. CASE Refused(u)
    BY <2>5, RefusedInv
  <2>6. CASE Resumed(u)
    BY <2>6, ResumedInv
  <2>7. CASE ModuleLoads(u)
    BY <2>7, ModuleLoadsInv
  <2>8. CASE Chunk(u)
    BY <2>8, ChunkInv
  <2>9. CASE Unpark(u)
    BY <2>9, UnparkInv
  <2>10. CASE BodyEnds(u) \/ Drain(u) \/ TimesOut(u) \/ Unwinds(u) \/ SynthEnds(u)
    BY <2>10, EndingsInv
  <2>11. CASE Consume(u)
    BY <2>11, ConsumeInv
  <2>12. CASE Reported(u)
    BY <2>12, ReportedInv
  <2>13. CASE Ready(u)
    BY <2>13, ReadyInv
  <2> QED
    BY <1>10, <2>1, <2>2, <2>3, <2>4, <2>5, <2>6, <2>7, <2>8, <2>9, <2>10, <2>11, <2>12,
       <2>13, <2>14, <2>15 DEF Turn
<1> QED
  BY <1>1, <1>2, <1>3, <1>4, <1>5, <1>6, <1>7, <1>8, <1>9, <1>10 DEF Next

LEMMA SpeechInvHolds == Spec => []SpeechInv
<1> QED
  BY SpeechInitInv, SpeechStepInv, PTL DEF Spec

----------------------------------------------------------------------------

\* Whoever can be heard is of the turn in flight, was not aborted, is alone, is
\* heard by one way, and began after the microphone was opened if it is open:
\* stopSpeaking comes before whatever takes its place, at any point of any call.
THEOREM OneVoiceHolds == Spec => []OneVoice
<1> QED
  BY SpeechInvHolds, InvGivesOneVoice, PTL

\* The two-phase rule of speak holds though the counter it reads is the
\* player's: an answer of which a chunk was fed is never read out again.
THEOREM NeverTwiceHolds == Spec => []NeverTwice
<1> QED
  BY SpeechInvHolds, InvGivesRest, PTL

\* A call that ended as spoken left nothing in the worklet, whatever messages
\* of earlier ports came in between.
THEOREM EndedMeansHeardHolds == Spec => []EndedMeansHeard
<1> QED
  BY SpeechInvHolds, InvGivesRest, PTL

\* A device stream is live only while the button is on, and no more than one,
\* whenever getUserMedia and resume answer.
THEOREM MicFollowsWishHolds == Spec => []MicFollowsWish
<1> QED
  BY SpeechInvHolds, InvGivesRest, PTL
=============================================================================
