------------------------------ MODULE MapMode ------------------------------
(***************************************************************************)
(* Map mode: the state machine of lib/mapView.ts behind the store's        *)
(* openMap, closeMap and settleMap, and the part of map/MapLayer.tsx that  *)
(* drives it: one MapLibre instance per opening, its load and its failure, *)
(* the timers that settle a transition and hand a failed map back, the     *)
(* effect that applies each accepted request, directions and their answer, *)
(* and the ways out.                                                       *)
(*                                                                         *)
(* The store changes and the effects of the render they cause are one      *)
(* step: React commits such a change before the next task.  A timer is     *)
(* armed exactly while the effect that set it is current, so "armed" is a  *)
(* condition on the state; only the failure timer, whose effect depends on *)
(* `failed' alone, needs a flag of its own.                                *)
(*                                                                         *)
(* A place is shown by sending the camera there.  A route only opens its   *)
(* directions: their panel asks for it and sends the camera when the       *)
(* answer comes.  A later place neither closes the directions nor stops    *)
(* that answer.                                                            *)
(*                                                                         *)
(* Left out: lengths of the transitions and of camera flights, a change of *)
(* the reduced-motion setting, and what the operator asks the map for      *)
(* himself: his own directions, searches and panning (MapPanels).          *)
(***************************************************************************)
EXTENDS Naturals

CONSTANTS
  Requests,   \* what openMap may be asked to show: centre, zoom, view, points
  Routes,     \* those whose view carries a route
  NoRequest   \* nothing shown yet, or a map spec that names no place

ASSUME MapAssumption == NoRequest \notin Requests /\ Routes \subseteq Requests

VARIABLES
  view,   \* store.mapView: its mode and the request accepted last
  stage   \* the mounted MapStage, or NoStage

mapVars == <<view, stage>>

Modes == {"globe", "entering", "map", "leaving"}

\* slow: the chip that says it is loading; due: the failure timer is running;
\* aimed: the request the camera was last sent for; route: the request whose
\* directions are open; asking: their answer is outstanding; older (ghost): the
\* directions that were open already when the last request was applied.
NoStage ==
  [up |-> FALSE, ready |-> FALSE, slow |-> FALSE, failed |-> FALSE,
   due |-> FALSE, aimed |-> NoRequest, route |-> NoRequest, asking |-> FALSE,
   older |-> NoRequest]

isOpen(v) == v.mode \in {"entering", "map"}

\* A repeat of the request under way is ignored; any other is accepted, and
\* an open map stays in its mode.
openMapState(v, req) ==
  IF isOpen(v) /\ v.req = req THEN v
  ELSE [mode |-> IF isOpen(v) THEN v.mode ELSE "entering", req |-> req]

closeMapState(v) == IF isOpen(v) THEN [v EXCEPT !.mode = "leaving"] ELSE v

settleMapState(v) ==
  CASE v.mode = "entering" -> [v EXCEPT !.mode = "map"]
    [] v.mode = "leaving" -> [v EXCEPT !.mode = "globe"]
    [] OTHER -> v

\* A map spec opens or re-aims the map unless it names no place; any other
\* visualization closes it.
mapViewAfterSpec(v, spec) ==
  IF spec.type # "map" THEN closeMapState(v)
  ELSE IF spec.req = NoRequest THEN v ELSE openMapState(v, spec.req)

\* The effect on a loaded map: open the directions of a route, or send the
\* camera to the place.
Apply(s, req) ==
  IF req \in Routes
  THEN [s EXCEPT !.route = req, !.asking = TRUE, !.older = NoRequest]
  ELSE [s EXCEPT !.aimed = req, !.older = s.route]

\* The view's rev has changed: openMap accepted a request.
Accepted(v) == isOpen(v) /\ (~isOpen(view) \/ v.req # view.req)

\* Slip: a request is applied when the map loads, and never again.
StageForSlip(v) == IF v.mode = "globe" THEN NoStage ELSE stage

\* The stage after the effects of the render for view v: gone with mode
\* "globe", and applied to what was accepted if it is loaded.
StageFor(v) ==
  IF v.mode = "globe" THEN NoStage
  ELSE IF stage.ready /\ Accepted(v) THEN Apply(stage, v.req)
  ELSE stage

OpenMap(req) ==
  /\ view' = openMapState(view, req)
  /\ stage' = StageFor(view')

CloseMap ==
  /\ view' = closeMapState(view)
  /\ stage' = StageFor(view')

SettleMap ==
  /\ view' = settleMapState(view)
  /\ stage' = StageFor(view')

\* One MapLibre instance per opening, of which nothing has loaded.
FreshStage == [NoStage EXCEPT !.up = TRUE]

\* The component mounts: at once, or when its chunk has been loaded.
MountStage ==
  /\ view.mode # "globe"
  /\ ~stage.up
  /\ stage' = FreshStage
  /\ UNCHANGED view

\* MapLibre's load event: the map is ready, and the request is applied.
Load ==
  /\ stage.up
  /\ ~stage.ready
  /\ stage' = Apply([stage EXCEPT !.ready = TRUE, !.slow = FALSE], view.req)
  /\ UNCHANGED view

\* The directions have their answer: a route to frame, or none.
RouteAnswered ==
  /\ stage.asking
  /\ \E aimed \in {stage.route, stage.aimed} :
       stage' = [stage EXCEPT !.asking = FALSE, !.aimed = aimed]
  /\ UNCHANGED view

\* The panel's button or Escape: its request is aborted.
CloseDirections ==
  /\ stage.route # NoRequest
  /\ stage' = [stage EXCEPT !.route = NoRequest, !.asking = FALSE]
  /\ UNCHANGED view

\* SLOW_MS after the mount, unless the load came first.
SlowTimer ==
  /\ stage.up
  /\ ~stage.ready
  /\ ~stage.slow
  /\ stage' = [stage EXCEPT !.slow = TRUE]
  /\ UNCHANGED view

\* An error before the load; later ones are MapLibre's to retry.  Only the
\* first one changes `failed' and starts the timer.
LoadError ==
  /\ stage.up
  /\ ~stage.ready
  /\ ~stage.failed
  /\ stage' = [stage EXCEPT !.failed = TRUE, !.due = TRUE]
  /\ UNCHANGED view

\* FAIL_MS after the failure: back to the globe, if the map is open then.
FailTimer ==
  /\ stage.due
  /\ view' = closeMapState(view)
  /\ stage' = [StageFor(view') EXCEPT !.due = FALSE]

\* Slip: no transition ends on a map that has not loaded.
SettleReadySlip ==
  /\ stage.ready
  /\ view.mode \in {"leaving", "entering"}
  /\ SettleMap

\* ENTER_MS or LEAVE_MS after the transition began (or became able to end).
SettleTimer ==
  /\ stage.up
  /\ view.mode = "leaving" \/ (view.mode = "entering" /\ stage.ready)
  /\ SettleMap

\* The button, or Escape with no panel open.
Leave ==
  /\ stage.up
  /\ CloseMap

\* Zooming the map out past its limit; only once it is settled.
ZoomedOut ==
  /\ stage.ready
  /\ view.mode = "map"
  /\ CloseMap

InitialView == [mode |-> "globe", req |-> NoRequest]

MapInit == view = InitialView /\ stage = NoStage

\* What the layer does by itself, without a user or an agent.
Driven ==
  \/ MountStage \/ Load \/ SlowTimer \/ LoadError \/ FailTimer \/ SettleTimer
  \/ RouteAnswered

MapNext ==
  \/ \E req \in Requests : OpenMap(req)
  \/ Leave
  \/ ZoomedOut
  \/ CloseDirections
  \/ Driven

\* The chunk arrives and timers fire; that the style loads is not promised.
MapFairness ==
  /\ WF_mapVars(MountStage)
  /\ WF_mapVars(FailTimer)
  /\ WF_mapVars(SettleTimer)

MapSpec == MapInit /\ [][MapNext]_mapVars /\ MapFairness
----------------------------------------------------------------------------
\* "Apply each accepted open request: camera, or directions when it carries a
\* route" (MapLayer.tsx:138, :147), in whatever phase it came: mode "map",
\* which stops the scene behind it, has a loaded map, and on an open, loaded
\* map the request accepted last is the one applied.  After a route the
\* directions are its own, until they are closed.  After a place the camera was
\* last sent there; only directions that were open already when it came may
\* still be there, and send the camera to their route once that has its answer.
LatestRequestApplied ==
  /\ view.mode = "map" => stage.ready
  /\ isOpen(view) /\ stage.ready =>
       IF view.req \in Routes
       THEN stage.route \in {view.req, NoRequest}
       ELSE /\ stage.route \in {stage.older, NoRequest}
            /\ \/ stage.aimed = view.req
               \/ stage.older \in Routes /\ stage.aimed = stage.older

\* No transition lasts for ever once the map has loaded: leaving ends, and so
\* does entering (MapLayer.tsx:138).
TransitionsEnd ==
  /\ view.mode = "leaving" ~> view.mode # "leaving"
  /\ view.mode = "entering" /\ stage.ready ~> view.mode # "entering"

\* Expected to fail: "A failed style load shows its message this long, then
\* hands back" (MapLayer.tsx:31).  A map that failed to load does not stay in
\* front with its message.
FailedLoadHandsBack ==
  view.mode = "entering" /\ stage.failed
    ~> view.mode # "entering" \/ stage.ready
============================================================================
