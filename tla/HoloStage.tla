----------------------------- MODULE HoloStage -----------------------------
(***************************************************************************)
(* The hologram stage under the map: the list of visualizations in the     *)
(* store, the 3D scene React mounts from it, the globes that take turns at *)
(* the one camera, the selection, the hand-over between globe and map, and *)
(* a canvas that is mounted again after its graphics context was lost.     *)
(*                                                                         *)
(* A store change and the effects of the commit it causes are one step     *)
(* while a scene is mounted (zustand updates commit before the next task). *)
(* After a lost context the old tree goes away piece by piece, and the new *)
(* one mounts when its renderer is there: their effects mix in any order.  *)
(*                                                                         *)
(* Identifiers only have to differ, and only those of globes are looked    *)
(* at: a new globe takes the least number nothing holds, any other entry   *)
(* the number 0.  Left out: rotation, inertia and easing, the look of a    *)
(* hologram, its place on the stage, the docked core.                      *)
(***************************************************************************)
EXTENDS MapMode, Integers, FiniteSets, Sequences, SequencesExt

CONSTANTS
  Specs,       \* visualizations: a type, a title, and the place of a map spec
  Elements,    \* what can be selected in a hologram
  Handoff,     \* the request of a globe that was pushed past its limit
  Keep,        \* entries the list keeps; 3 in the store
  MaxGlobes,   \* bound: globes in one list
  MaxLosses    \* bound: lost graphics contexts

ASSUME StageAssumption ==
  /\ \A s \in Specs : s.type = "map" => s.req \in Requests \cup {NoRequest}
  /\ Handoff \in Requests
  /\ {MaxGlobes, MaxLosses} \subseteq Nat
  /\ Keep \in Nat \ {0}

VARIABLES
  entries,   \* store.visualizations: id, spec, preview, lifecycle
  real,      \* the last visualizations that were no previews (ghost)
  canvas,    \* the canvas: which one it is, and "up", "lost" or "creating"
  globes,    \* globes of this canvas: the distance each wants for the camera
  dying,     \* globes of a canvas that was replaced, not yet cleaned up
  owner,     \* globeCameraOwner
  holders,   \* store.globeCameraHolders
  focus      \* store.focus: the element selected, and its owner

vars == <<view, stage, entries, real, canvas, globes, dying, owner,
          holders, focus>>

NoOwner == <<0, 0>>

\* A selection names its owner, so that elements of two never collide.
makeFocus(by, key) == [owner |-> by, key |-> key]
None == makeFocus("none", 0)

\* Picking the selected element releases it, another one replaces it.
toggleFocus(current, next) == IF current = next THEN None ELSE next

\* Only the owner's selection is cleared, never another's.
releaseFocus(current, by) ==
  IF current.owner = by THEN None ELSE current

\* Entries drawn on the 3D stage: the map layer draws a map.
sceneEntries(es) == {e \in Range(es) : e.spec.type # "map"}

\* A hologram lives as long as its entry in one canvas; these are the globes.
Here(es) == {<<e.id, canvas.nr>> :
               e \in {x \in sceneEntries(es) : x.spec.type = "globe"}}
Live == DOMAIN globes

\* The rig writes the camera in a frame unless a globe has it.
RigDrives == holders = 0

\* The least identifier that no entry and no mounted globe holds.
NewId ==
  LET held == {e.id : e \in Range(entries)} \cup {g[1] : g \in Live \cup dying}
  IN  CHOOSE i \in 1..(Cardinality(held) + 1) :
        i \notin held /\ \A j \in 1..(i - 1) : j \in held

Id(spec) == IF spec.type = "globe" THEN NewId ELSE 0

Entry(spec, preview) ==
  [id |-> Id(spec), spec |-> spec, preview |-> preview,
   lifecycle |-> "materializing"]

Active(es) == [i \in DOMAIN es |-> [es[i] EXCEPT !.lifecycle = "active"]]

\* The entries at the positions in K, in order.
Picked(es, K) ==
  [r \in 1..Cardinality(K) |->
     es[CHOOSE k \in K : Cardinality({i \in K : i <= k}) = r]]

\* The list without its previews.
Kept(es) == Picked(es, {k \in DOMAIN es : ~es[k].preview})

Latest(s) == SubSeq(s, IF Len(s) > Keep THEN Len(s) - Keep + 1 ELSE 1, Len(s))

\* A new globe starts at its home distance, as it is after a map: outside the
\* limit.
AtHome == "far"

\* Slip: a flag where the count is, so the last to go speaks for all.
RemountedFlagSlip(gone, new) ==
  /\ globes' = [g \in (DOMAIN globes \ gone) \cup new |->
                  IF g \in new \/ (view.mode # "leaving" /\ view'.mode = "leaving")
                  THEN AtHome ELSE globes[g]]
  /\ holders' = (IF gone # {} THEN 0 ELSE holders) + Cardinality(new)
  /\ dying' = dying \ gone
  /\ owner' \in IF new # {} THEN new
                ELSE IF owner \in gone THEN {NoOwner} ELSE {owner}

\* Slip: the dive is not undone when the map leaves.
RemountedDivedSlip(gone, new) ==
  /\ globes' = [g \in (DOMAIN globes \ gone) \cup new |->
                  IF g \in new THEN AtHome ELSE globes[g]]
  /\ holders' =
       (IF Cardinality(gone) > holders THEN 0 ELSE holders - Cardinality(gone))
       + Cardinality(new)
  /\ dying' = dying \ gone
  /\ owner' \in IF new # {} THEN new
                ELSE IF owner \in gone THEN {NoOwner} ELSE {owner}

\* Effects of unmounting the globes in gone, then of mounting those in new:
\* the count goes down and up, and the last one mounted owns the camera.
Remounted(gone, new) ==
  /\ globes' = [g \in (DOMAIN globes \ gone) \cup new |->
                  IF g \in new \/ (view.mode # "leaving" /\ view'.mode = "leaving")
                  THEN AtHome ELSE globes[g]]
  /\ holders' =
       (IF Cardinality(gone) > holders THEN 0 ELSE holders - Cardinality(gone))
       + Cardinality(new)
  /\ dying' = dying \ gone
  /\ owner' \in IF new # {} THEN new
                ELSE IF owner \in gone THEN {NoOwner} ELSE {owner}

\* vizKey: what is on the stage, in order.
VizKey(es) == [i \in 1..Len(es) |-> <<es[i].spec.type, es[i].spec.title>>]

\* Slip: only a list of another length drops the selection.
ShownSlip(es) ==
  /\ entries' = es
  /\ IF canvas.state = "creating"
     THEN Remounted({}, {}) /\ UNCHANGED focus
     ELSE /\ Remounted(Live \ Here(es), Here(es) \ Live)
          /\ focus' = IF Len(es) # Len(entries) THEN None ELSE focus
  /\ UNCHANGED canvas

\* The commit of a new list: holograms come and go, and a selection made in
\* other company is dropped.
Shown(es) ==
  /\ entries' = es
  /\ IF canvas.state = "creating"
     THEN Remounted({}, {}) /\ UNCHANGED focus
     ELSE /\ Remounted(Live \ Here(es), Here(es) \ Live)
          /\ focus' = IF VizKey(es) # VizKey(entries) THEN None ELSE focus
  /\ UNCHANGED canvas

\* The globes hear of a map that begins to leave, and face where it looked.
StageUnchanged ==
  /\ Remounted({}, {})
  /\ UNCHANGED <<entries, real, canvas, focus>>

FewGlobes(es) ==
  Cardinality({i \in 1..Len(es) : es[i].spec.type = "globe"}) <= MaxGlobes

\* Slip: previews are kept like the others.
addBesideSlip(spec, preview) ==
  LET es == Latest(Append(Active(entries), Entry(spec, preview)))
  IN  /\ FewGlobes(es)
      /\ view' = mapViewAfterSpec(view, spec)
      /\ stage' = StageFor(view')
      /\ real' = IF preview THEN real ELSE Latest(Append(real, spec))
      /\ Shown(es)

\* A visualization arrives: it takes the place of a preview, and the list
\* keeps the last Keep.
addVisualization(spec, preview) ==
  LET es == Latest(Append(Active(Kept(entries)), Entry(spec, preview)))
  IN  /\ FewGlobes(es)
      /\ view' = mapViewAfterSpec(view, spec)
      /\ stage' = StageFor(view')
      /\ real' = IF preview THEN real ELSE Latest(Append(real, spec))
      /\ Shown(es)

\* The list is replaced; its only caller brings one visualization.
setVisualizations(spec) ==
  /\ view' = mapViewAfterSpec(view, spec)
  /\ stage' = StageFor(view')
  /\ real' = <<spec>>
  /\ Shown(<<Entry(spec, FALSE)>>)

\* A sample from the development rail, for any type of visualization.
VizRail == \E s \in Specs : setVisualizations(s)

\* Without a visualization the page's address may ask for a sample of one.
VizDeepLink == entries = <<>> /\ \E s \in Specs : addVisualization(s, FALSE)

\* Under a settled map frames are drawn on demand only.
FramesRun == canvas.state = "up" /\ view.mode # "map"

Settled(es, i) == [es EXCEPT ![i].lifecycle = "active"]

\* The entrance of a hologram has played.
settleVisualization(i) ==
  /\ FramesRun
  /\ entries[i] \in sceneEntries(entries)
  /\ entries[i].lifecycle = "materializing"
  /\ entries' = Settled(entries, i)
  /\ UNCHANGED <<view, stage, real, canvas, globes, dying, owner, holders,
                 focus>>

\* A turn starts with an empty list; the map stays.
clearVisualizations ==
  /\ entries # <<>>
  /\ real' = <<>>
  /\ UNCHANGED <<view, stage>>
  /\ Shown(<<>>)

\* One frame: a globe claims a camera nobody owns, and the owner dives while
\* the map comes in.  One drawn on demand does the same.
Frame ==
  /\ canvas.state = "up" /\ Live # {}
  /\ owner' \in IF owner = NoOwner THEN Live ELSE {owner}
  /\ globes' = IF view.mode = "entering" /\ owner' \in Live
               THEN [globes EXCEPT ![owner'] = "dive"] ELSE globes
  /\ UNCHANGED <<view, stage, entries, real, canvas, dying, holders, focus>>

\* Pushing on at the nearest distance: enough pushes in a row open the map.
PushPastLimit ==
  /\ view.mode = "globe"
  /\ OpenMap(Handoff)

\* A notch inward by wheel, pinch or key.  At the nearest distance it
\* also pushes towards the map.
ZoomIn(g) ==
  /\ canvas.state = "up"
  /\ globes' = [globes EXCEPT ![g] = "near"]
  /\ \/ UNCHANGED mapVars
     \/ globes[g] # "far" /\ PushPastLimit
  /\ UNCHANGED <<entries, real, canvas, dying, owner, holders, focus>>

\* A notch outward: further away than the limit.
ZoomOut(g) ==
  /\ canvas.state = "up"
  /\ globes[g] # "far"
  /\ globes' = [globes EXCEPT ![g] = "far"]
  /\ UNCHANGED <<view, stage, entries, real, canvas, dying, owner, holders,
                 focus>>

\* The camera is to fly to a place: nearer than home, outside the limit.
focusOn(g) == globes' = [globes EXCEPT ![g] = "far"]

\* A double click or R: the camera flies home.
reset(g) ==
  /\ canvas.state = "up"
  /\ focusOn(g)
  /\ UNCHANGED <<view, stage, entries, real, canvas, dying, owner, holders,
                 focus>>

\* A click on a marker of globe g: the camera flies there, and it is selected.
FocusMarker(g, key) ==
  /\ canvas.state = "up"
  /\ focusOn(g)
  /\ focus' = makeFocus("globe", key)
  /\ UNCHANGED <<view, stage, entries, real, canvas, dying, owner, holders>>

\* A click on an element of another hologram on the stage, no preview.
Pick(type, key) ==
  /\ canvas.state = "up"
  /\ type # "globe"
  /\ \E e \in sceneEntries(entries) : e.spec.type = type /\ ~e.preview
  /\ focus' = toggleFocus(focus, makeFocus(type, key))
  /\ UNCHANGED <<view, stage, entries, real, canvas, globes, dying, owner,
                 holders>>

\* Escape or a click beside its elements: a mounted hologram releases its own
\* selection.
release(type) ==
  focus' = IF canvas.state # "creating"
                /\ \E e \in sceneEntries(entries) : e.spec.type = type
           THEN releaseFocus(focus, type) ELSE focus

\* A click that misses every element of a hologram but a globe.
PointerMissed(type) ==
  /\ canvas.state = "up"
  /\ focus.owner = type /\ type # "globe"
  /\ release(type)
  /\ UNCHANGED <<view, stage, entries, real, canvas, globes, dying, owner,
                 holders>>

\* Escape: every hologram that selects hears it, and so does the map: it closes
\* its directions first, then itself.
Escape ==
  /\ focus # None \/ stage.up
  /\ release(focus.owner)
  /\ CASE stage.route # NoRequest -> CloseDirections
       [] stage.route = NoRequest /\ stage.up -> CloseMap
       [] ~stage.up -> UNCHANGED mapVars
  /\ Remounted({}, {})
  /\ UNCHANGED <<entries, real, canvas>>

\* The graphics context is lost; one remount is queued.
ContextLost ==
  /\ canvas.state = "up"
  /\ canvas.nr < MaxLosses
  /\ canvas' = [canvas EXCEPT !.state = "lost"]
  /\ UNCHANGED <<view, stage, entries, real, globes, dying, owner, holders,
                 focus>>

\* 50 ms later the canvas is replaced: its tree is to go, a new one to come.
Remount ==
  /\ canvas.state = "lost"
  /\ canvas' = [nr |-> canvas.nr + 1, state |-> "creating"]
  /\ globes' = <<>>
  /\ dying' = dying \cup Live
  /\ UNCHANGED <<view, stage, entries, real, owner, holders, focus>>

\* The effects of a globe in a canvas that was replaced are cleaned up.
OldGlobeGone(g) ==
  /\ UNCHANGED <<view, stage, entries, real, canvas, focus>>
  /\ Remounted({g}, {})

\* The renderer is created: the scene mounts, and drops the selection.
Created ==
  /\ canvas.state = "creating"
  /\ canvas' = [canvas EXCEPT !.state = "up"]
  /\ focus' = None
  /\ UNCHANGED <<view, stage, entries, real>>
  /\ Remounted({}, Here(entries))

Init ==
  /\ MapInit
  /\ entries = <<>> /\ real = <<>>
  /\ canvas = [nr |-> 0, state |-> "creating"]
  /\ globes = <<>> /\ dying = {} /\ owner = NoOwner /\ holders = 0
  /\ focus = None

\* The map layer by itself, and its directions and itself closed by hand.
MapMoves ==
  (Driven \/ Leave \/ ZoomedOut \/ CloseDirections) /\ StageUnchanged

Viz ==
  \/ \E s \in Specs, p \in BOOLEAN : addVisualization(s, p)
  \/ VizRail \/ VizDeepLink \/ clearVisualizations
  \/ \E i \in DOMAIN entries : settleVisualization(i)

Operator ==
  \/ \E g \in Live : ZoomIn(g) \/ ZoomOut(g) \/ reset(g)
  \/ \E g \in Live, k \in Elements : FocusMarker(g, k)
  \/ \E s \in Specs, k \in Elements : Pick(s.type, k)
  \/ \E s \in Specs : PointerMissed(s.type)
  \/ Escape

Canvas ==
  \/ ContextLost \/ Remount \/ Created \/ Frame
  \/ \E g \in dying : OldGlobeGone(g)

Next == MapMoves \/ Viz \/ Operator \/ Canvas

Spec == Init /\ [][Next]_vars
----------------------------------------------------------------------------
\* Every mounted globe, of either canvas, holds the camera once, and nobody
\* who is gone owns it: the rig writes the camera again when the last globe
\* has gone, and no globe waits for a ghost (useGlobeInteraction.ts:41,
\* store.ts:162).
GlobeOwnsCamera ==
  /\ holders = Cardinality(Live \cup dying)
  /\ RigDrives <=> Live \cup dying = {}
  /\ owner \in Live \cup dying \cup {NoOwner}

\* The dive below the nearest distance is undone whenever the map hands back:
\* outside map mode no globe keeps the camera inside its limit
\* (useGlobeInteraction.ts:181, :310).
CameraBackOutside ==
  view.mode \in {"leaving", "globe"} =>
    \A g \in DOMAIN globes : globes[g] # "dive"

\* The scene holds what it would hold without previews, less what makes room
\* for one preview on show at its end (store.ts:226).
PreviewCostsNoSlot ==
  LET shown == Kept(entries)
      previews == Len(entries) - Len(shown)
  IN  /\ previews <= 1 /\ (previews = 1 => Last(entries).preview)
      /\ \/ [i \in 1..Len(shown) |-> shown[i].spec] = real
         \/ /\ previews = 1 /\ Len(real) = Keep
            /\ [i \in 1..Len(shown) |-> shown[i].spec] = Tail(real)

\* A selection belongs to a hologram that is on the stage: it does not
\* outlive a swap (FridayVisualization.tsx:141).
FocusOnStage ==
  canvas.state = "up" /\ focus # None =>
    \E e \in Range(entries) : e.spec.type = focus.owner
============================================================================
