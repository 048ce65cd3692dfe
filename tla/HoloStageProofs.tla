--------------------------- MODULE HoloStageProofs ---------------------------
(***************************************************************************)
(* The map and the stage under it, for any set of requests and specs, any  *)
(* number of globes and of lost contexts, and a list of any length.        *)
(*                                                                         *)
(* MapInv is about the map alone; the stage moves the view by its steps,   *)
(* and only leaving ends a map (ViewMoves).  CameraInv: every globe of a   *)
(* canvas that was replaced carries an older number, so what mounts is     *)
(* never among what is still to go, and counting is plain arithmetic.      *)
(* ListInv says of the list, position by position, what                    *)
(* PreviewCostsNoSlot says of the lists drawn from it.                     *)
(***************************************************************************)
EXTENDS HoloStage, FiniteSetTheorems, SequenceTheorems, WellFoundedInduction,
        TLAPS

------------------------------------------------------------------------------
(* The map by itself.                                                        *)

AnyRequest == Requests \union {NoRequest}
AnyRoute == Routes \union {NoRequest}

StageRec ==
  [up : BOOLEAN, ready : BOOLEAN, slow : BOOLEAN, failed : BOOLEAN, due : BOOLEAN,
   aimed : AnyRequest, route : AnyRoute, asking : BOOLEAN, older : AnyRoute]

MapTypeOK ==
  /\ view \in [mode : Modes, req : AnyRequest]
  /\ stage \in StageRec

LoadedIsUp == stage.ready => stage.up

\* An answer is on its way only to directions that are open.
AsksForRoute == stage.asking => stage.route \in Routes

\* What is on a loaded map s for request req.
Shows(s, req) ==
  IF req \in Routes
  THEN s.route \in {req, NoRequest}
  ELSE /\ s.route \in {s.older, NoRequest}
       /\ s.aimed = req \/ (s.older \in Routes /\ s.aimed = s.older)

MapInv == MapTypeOK /\ LoadedIsUp /\ AsksForRoute /\ LatestRequestApplied

\* The invariant in terms of the stage record.
LEMMA AppliedIsShown ==
  LatestRequestApplied <=>
    /\ view.mode = "map" => stage.ready
    /\ isOpen(view) /\ stage.ready => Shows(stage, view.req)
  BY DEF LatestRequestApplied, Shows

\* The initial state satisfies the inductive invariant.
LEMMA MapInitInv == MapInit => MapInv
  BY DEF MapInit, InitialView, MapInv, MapTypeOK, LoadedIsUp, AsksForRoute,
     LatestRequestApplied, isOpen, NoStage, AnyRequest, AnyRoute, StageRec, Modes

\* Applying a request shows it.
LEMMA AppliesIt ==
  ASSUME NEW s \in StageRec, NEW req \in AnyRequest
  PROVE  /\ Apply(s, req) \in StageRec /\ Shows(Apply(s, req), req)
         /\ Apply(s, req).up = s.up /\ Apply(s, req).ready = s.ready
         /\ Apply(s, req).asking => Apply(s, req).route \in Routes \/
              (s.asking /\ Apply(s, req).route = s.route)
<1>1. CASE req \in Routes
  BY <1>1, MapAssumption DEF Apply, StageRec, Shows, AnyRoute, AnyRequest
<1>2. CASE req \notin Routes
  BY <1>2, MapAssumption DEF Apply, StageRec, Shows, AnyRoute, AnyRequest
<1> QED
  BY <1>1, <1>2

\* The functions of lib/mapView.ts yield a view again.
LEMMA ViewsAreViews ==
  ASSUME MapTypeOK, NEW req \in Requests
  PROVE  /\ openMapState(view, req) \in [mode : Modes, req : AnyRequest]
         /\ closeMapState(view) \in [mode : Modes, req : AnyRequest]
         /\ settleMapState(view) \in [mode : Modes, req : AnyRequest]
  BY DEF MapTypeOK, openMapState, closeMapState, settleMapState, isOpen,
     AnyRequest, Modes

\* Every view change of the store keeps the invariant, if it enters "map" only
\* from a loaded stage: StageFor applies what was accepted to what is loaded.
LEMMA StageFollows ==
  ASSUME MapInv, view' \in [mode : Modes, req : AnyRequest],
         stage' = StageFor(view'), view'.mode = "map" => stage.ready
  PROVE  MapInv'
<1>1. /\ stage \in StageRec /\ (stage.ready => stage.up) /\ view'.req \in AnyRequest
      /\ stage.asking => stage.route \in Routes
      /\ isOpen(view) /\ stage.ready => Shows(stage, view.req)
  BY AppliedIsShown DEF MapInv, MapTypeOK, LoadedIsUp, AsksForRoute
<1>2. SUFFICES /\ stage' \in StageRec /\ (stage'.ready => stage'.up)
               /\ stage'.asking => stage'.route \in Routes
               /\ view'.mode = "map" => stage'.ready
               /\ isOpen(view') /\ stage'.ready => Shows(stage', view'.req)
  BY DEF MapInv, MapTypeOK, LoadedIsUp, AsksForRoute, LatestRequestApplied, Shows
<1>3. CASE view'.mode = "globe"
  BY <1>3 DEF StageFor, NoStage, StageRec, isOpen, AnyRequest, AnyRoute
<1>4. CASE view'.mode # "globe" /\ stage.ready /\ Accepted(view')
  <2>1. stage' = Apply(stage, view'.req)
    BY <1>4 DEF StageFor
  <2> QED
    BY <1>1, <1>4, <2>1, AppliesIt
<1>5. CASE view'.mode # "globe" /\ ~(stage.ready /\ Accepted(view'))
  <2>1. stage' = stage
    BY <1>5 DEF StageFor
  <2> QED
    BY <1>1, <1>5, <2>1 DEF Accepted
<1> QED
  BY <1>3, <1>4, <1>5

\* Closing leaves "map".
LEMMA CloseKeeps ==
  ASSUME MapInv, view' = closeMapState(view), stage' = StageFor(view')
  PROVE  MapInv'
<1>1. view' \in [mode : Modes, req : AnyRequest]
  BY DEF MapInv, MapTypeOK, closeMapState, isOpen, AnyRequest, Modes
<1>2. view'.mode # "map"
  BY DEF MapInv, MapTypeOK, closeMapState, isOpen
<1> QED
  BY <1>1, <1>2, StageFollows

\* Every step keeps the invariant.
LEMMA MapStepInv == MapInv /\ [MapNext]_mapVars => MapInv'
<1> SUFFICES ASSUME MapInv, [MapNext]_mapVars PROVE MapInv'
  OBVIOUS
<1>1. ASSUME NEW req \in Requests, OpenMap(req) PROVE MapInv'
  <2>1. view' \in [mode : Modes, req : AnyRequest]
    BY <1>1, ViewsAreViews DEF OpenMap, MapInv
  <2>2. view'.mode = "map" => stage.ready
    BY <1>1 DEF OpenMap, openMapState, isOpen, MapInv, MapTypeOK,
       LatestRequestApplied
  <2> QED
    BY <1>1, <2>1, <2>2, StageFollows DEF OpenMap
<1>2. CASE Leave \/ ZoomedOut
  BY <1>2, CloseKeeps DEF Leave, ZoomedOut, CloseMap
<1>3. CASE MountStage
  BY <1>3 DEF MountStage, FreshStage, NoStage, MapInv, MapTypeOK, LoadedIsUp,
     AsksForRoute, LatestRequestApplied, isOpen, AnyRequest, AnyRoute, StageRec
<1>4. CASE Load
  <2> DEFINE loaded == [stage EXCEPT !.ready = TRUE, !.slow = FALSE]
  <2>1. /\ loaded \in StageRec /\ loaded.up /\ loaded.ready /\ view.req \in AnyRequest
        /\ loaded.asking = stage.asking /\ loaded.route = stage.route
        /\ stage.asking => stage.route \in Routes
        /\ stage' = Apply(loaded, view.req) /\ view' = view
    BY <1>4 DEF Load, MapInv, MapTypeOK, AsksForRoute, StageRec
  <2> HIDE DEF loaded
  <2>2. /\ stage' \in StageRec /\ Shows(stage', view.req) /\ stage'.up /\ stage'.ready
        /\ stage'.asking => stage'.route \in Routes
    BY <2>1, AppliesIt
  <2> QED
    BY <2>1, <2>2 DEF MapInv, MapTypeOK, LoadedIsUp, AsksForRoute,
       LatestRequestApplied, Shows
<1>5. CASE SlowTimer
  BY <1>5 DEF SlowTimer, MapInv, MapTypeOK, LoadedIsUp, AsksForRoute,
     LatestRequestApplied, isOpen, StageRec
<1>6. CASE LoadError
  BY <1>6 DEF LoadError, MapInv, MapTypeOK, LoadedIsUp, AsksForRoute,
     LatestRequestApplied, isOpen, StageRec
<1>7. CASE FailTimer
  <2>1. view' \in [mode : Modes, req : AnyRequest] /\ ~isOpen(view')
    BY <1>7 DEF FailTimer, MapInv, MapTypeOK, closeMapState, isOpen,
       AnyRequest, Modes
  <2>2. CASE view'.mode = "globe"
    BY <1>7, <2>1, <2>2 DEF FailTimer, StageFor, NoStage, MapInv, MapTypeOK,
       LoadedIsUp, AsksForRoute, LatestRequestApplied, isOpen, AnyRequest,
       AnyRoute, StageRec
  <2>3. CASE view'.mode # "globe"
    BY <1>7, <2>1, <2>3 DEF FailTimer, StageFor, Accepted, MapInv, MapTypeOK,
       LoadedIsUp, AsksForRoute, LatestRequestApplied, isOpen, AnyRequest, StageRec
  <2> QED
    BY <2>2, <2>3
<1>8. CASE SettleTimer
  <2>1. view' \in [mode : Modes, req : AnyRequest]
    BY <1>8 DEF SettleTimer, SettleMap, settleMapState, MapInv, MapTypeOK, Modes
  <2>2. view'.mode = "map" => stage.ready
    BY <1>8 DEF SettleTimer, SettleMap, settleMapState, MapInv, MapTypeOK
  <2> QED
    BY <1>8, <2>1, <2>2, StageFollows DEF SettleTimer, SettleMap
<1>9. CASE UNCHANGED mapVars
  BY <1>9 DEF mapVars, MapInv, MapTypeOK, LoadedIsUp, AsksForRoute,
     LatestRequestApplied, isOpen
<1>10. CASE RouteAnswered
  <2>1. /\ stage \in StageRec /\ stage.route \in Routes /\ view' = view
        /\ stage.ready => stage.up
        /\ view.mode = "map" => stage.ready
        /\ isOpen(view) /\ stage.ready => Shows(stage, view.req)
    BY <1>10, AppliedIsShown DEF RouteAnswered, MapInv, MapTypeOK, LoadedIsUp,
       AsksForRoute
  <2>2. PICK aimed \in {stage.route, stage.aimed} :
          stage' = [stage EXCEPT !.asking = FALSE, !.aimed = aimed]
    BY <1>10 DEF RouteAnswered
  <2>3. /\ stage' \in StageRec /\ stage'.up = stage.up /\ stage'.ready = stage.ready
        /\ stage'.route = stage.route /\ stage'.older = stage.older
        /\ stage'.aimed = aimed /\ ~stage'.asking
    BY <2>1, <2>2, MapAssumption DEF StageRec, AnyRequest, AnyRoute
  <2>4. Shows(stage, view.req) => Shows(stage', view.req)
    BY <2>1, <2>2, <2>3, MapAssumption DEF Shows
  <2> QED
    BY <2>1, <2>3, <2>4 DEF MapInv, MapTypeOK, LoadedIsUp, AsksForRoute,
       LatestRequestApplied, Shows
<1>11. CASE CloseDirections
  BY <1>11 DEF CloseDirections, MapInv, MapTypeOK, LoadedIsUp, AsksForRoute,
     LatestRequestApplied, isOpen, StageRec, AnyRoute
<1> QED
  BY <1>1, <1>2, <1>3, <1>4, <1>5, <1>6, <1>7, <1>8, <1>9, <1>10, <1>11
     DEF MapNext, Driven

\* Whatever is opened, re-aimed, failed or left, a settled map has loaded and
\* on an open, loaded one the request accepted last is applied: its directions
\* and no older ones, or the camera at its place, which only directions opened
\* before it may still move (MapLayer.tsx:138, :147), for any set of requests.
THEOREM MapAppliesRequest == MapSpec => []LatestRequestApplied
<1>1. MapInit => MapInv
  BY MapInitInv
<1>2. MapInv /\ [MapNext]_mapVars => MapInv'
  BY MapStepInv
<1>3. MapInv => LatestRequestApplied
  BY DEF MapInv
<1> QED
  BY <1>1, <1>2, <1>3, PTL DEF MapSpec

------------------------------------------------------------------------------
(* The stage: lists and identifiers.                                         *)

Distances == {"near", "far", "dive"}

EntryType == [id : Nat, spec : Specs, preview : BOOLEAN,
              lifecycle : {"materializing", "active"}]

ListTypeOK == entries \in Seq(EntryType) /\ real \in Seq(Specs)

\* Of a list with at most one preview, at its end: the entries before it.
Solid(es) ==
  IF Len(es) > 0 /\ es[Len(es)].preview THEN Len(es) - 1 ELSE Len(es)

\* PreviewCostsNoSlot, position by position: without previews the list shows
\* what rs has, or all but its first when a preview fills the last place.
PreviewOK(es, rs) ==
  /\ \A i \in 1..Solid(es) : ~es[i].preview
  /\ Len(es) <= Keep
  /\ Len(rs) <= Keep
  /\ \/ /\ Len(rs) = Solid(es)
        /\ \A i \in 1..Solid(es) : es[i].spec = rs[i]
     \/ /\ Solid(es) = Len(es) - 1
        /\ Len(es) = Keep
        /\ Len(rs) = Keep
        /\ \A i \in 1..Solid(es) : es[i].spec = rs[i + 1]

PreviewInv == PreviewOK(entries, real)

StageTypeOK ==
  /\ canvas \in [nr : Nat, state : {"up", "lost", "creating"}]
  /\ globes \in [Live -> Distances]
  /\ IsFiniteSet(Live) /\ IsFiniteSet(dying) /\ holders \in Nat

\* The globes of this canvas are those of the list, and the globes still to
\* go are of canvases before it.
CanvasInv ==
  /\ \A g \in Live : g[2] = canvas.nr
  /\ \A g \in dying : g[2] \in 0..(canvas.nr - 1)
  /\ IF canvas.state = "creating" THEN Live = {} ELSE Live = Here(entries)

CameraInv == StageTypeOK /\ CanvasInv /\ GlobeOwnsCamera /\ CameraBackOutside

ListInv == ListTypeOK /\ PreviewInv

StageInv == MapInv /\ ListInv /\ CameraInv /\ FocusOnStage

\* The image of a list is finite.
LEMMA ImageFinite ==
  ASSUME NEW n \in Nat, NEW f, NEW T,
         \A x \in T : \E i \in 1..n : x = f[i]
  PROVE  IsFiniteSet(T)
<1> DEFINE U == {f[i] : i \in 1..n}
           h == [i \in 1..n |-> f[i]]
<1>1. h \in Surjection(1..n, U)
  BY DEF Surjection
<1>2. IsFiniteSet(1..n)
  BY FS_Interval
<1>3. IsFiniteSet(U)
  BY <1>1, <1>2, FS_Surjection
<1>4. T \in SUBSET U
  OBVIOUS
<1> QED
  BY <1>3, <1>4, FS_Subset

\* The globes of a list in this canvas are finitely many.
LEMMA HereFinite ==
  ASSUME NEW S, NEW es \in Seq(S)
  PROVE  IsFiniteSet(Here(es))
<1> DEFINE f == [i \in 1..Len(es) |-> <<es[i].id, canvas.nr>>]
<1>1. Len(es) \in Nat /\ DOMAIN es = 1..Len(es)
  BY LenProperties
<1>2. \A g \in Here(es) : \E i \in 1..Len(es) : g = f[i]
  <2> TAKE g \in Here(es)
  <2>1. PICK e \in Range(es) : g = <<e.id, canvas.nr>>
    BY DEF Here, sceneEntries
  <2>2. PICK i \in 1..Len(es) : e = es[i]
    BY <1>1, <2>1 DEF Range
  <2>3. g = f[i]
    BY <2>1, <2>2
  <2> QED
    BY <2>3
<1> HIDE DEF f
<1> QED
  BY <1>1, <1>2, ImageFinite

\* A new globe gets a number nobody holds.
LEMMA NewIdIsNew ==
  ASSUME ListTypeOK, StageTypeOK
  PROVE  /\ NewId \in Nat
         /\ \A e \in Range(entries) : NewId # e.id
         /\ \A g \in Live \cup dying : NewId # g[1]
<1> DEFINE E == {e.id : e \in Range(entries)}
           G == {g[1] : g \in Live \cup dying}
           held == E \cup G
           K == {i \in Nat : i > 0 /\ i \notin held}
<1>1. IsFiniteSet(held)
  <2>1. IsFiniteSet(E)
    <3> DEFINE f == [i \in 1..Len(entries) |-> entries[i].id]
    <3>1. Len(entries) \in Nat /\ DOMAIN entries = 1..Len(entries)
      BY LenProperties DEF ListTypeOK
    <3>2. \A x \in E : \E i \in 1..Len(entries) : x = f[i]
      BY <3>1 DEF Range
    <3> HIDE DEF f, E
    <3> QED
      BY <3>1, <3>2, ImageFinite
  <2>2. IsFiniteSet(G)
    <3> DEFINE U == Live \cup dying
               h == [g \in U |-> g[1]]
    <3>1. IsFiniteSet(U)
      BY FS_Union DEF StageTypeOK
    <3>2. h \in Surjection(U, G)
      BY DEF Surjection
    <3> HIDE DEF U, h, G
    <3> QED
      BY <3>1, <3>2, FS_Surjection
  <2> HIDE DEF E, G
  <2> QED
    BY <2>1, <2>2, FS_Union
<1> DEFINE n == Cardinality(held)
<1>2. NewId = CHOOSE i \in 1..(n + 1) : i \notin held /\ \A j \in 1..(i - 1) : j \in held
  BY DEF NewId
<1> HIDE DEF held
<1>3. n \in Nat
  BY <1>1, FS_CardinalityType
<1>4. ~(1..(n + 1) \subseteq held)
  <2> SUFFICES ASSUME 1..(n + 1) \subseteq held PROVE FALSE
    OBVIOUS
  <2>1. Cardinality(1..(n + 1)) <= n
    BY <1>1, FS_Subset
  <2>2. Cardinality(1..(n + 1)) = n + 1
    <3>1. 1 \in Int /\ n + 1 \in Int /\ ~(1 > n + 1) /\ (n + 1) - 1 + 1 = n + 1
      BY <1>3
    <3> QED
      BY <3>1, FS_Interval
  <2> QED
    BY <1>3, <2>1, <2>2
<1> HIDE DEF n
<1>5. PICK i \in K : \A j \in K : ~(<<j, i>> \in OpToRel(<, Nat))
  <2>1. K \subseteq Nat /\ K # {}
    BY <1>3, <1>4
  <2> HIDE DEF K
  <2> QED
    BY <2>1, NatLessThanWellFounded, WFMin
<1>6. \A j \in K : i <= j
  <2>1. \A a, b \in Nat : ~(<<b, a>> \in OpToRel(<, Nat)) => a <= b
    BY DEF OpToRel
  <2>2. K \subseteq Nat
    OBVIOUS
  <2> HIDE DEF K
  <2> QED
    BY <1>5, <2>1, <2>2
<1>7. i \in 1..(n + 1) /\ i \notin held /\ \A j \in 1..(i - 1) : j \in held
  <2>1. PICK k \in 1..(n + 1) : k \notin held
    BY <1>4
  <2>2. k \in Nat /\ k > 0 /\ k <= n + 1
    BY <1>3
  <2>3. k \in K
    BY <2>1, <2>2
  <2>4. i <= k
    BY <1>6, <2>3
  <2>5. i \in Nat /\ i > 0 /\ i \notin held
    BY <1>5
  <2>6. i \in 1..(n + 1)
    BY <1>3, <2>2, <2>4, <2>5
  <2>7. ASSUME NEW j \in 1..(i - 1) PROVE j \in held
    <3>1. j \in Nat /\ j > 0 /\ ~(i <= j)
      BY <2>5
    <3>2. j \notin K
      BY <1>6, <3>1
    <3> QED
      BY <3>1, <3>2
  <2> QED
    BY <2>5, <2>6, <2>7
<1>8. NewId \in 1..(n + 1) /\ NewId \notin held
  BY <1>2, <1>7
<1>9. /\ \A e \in Range(entries) : e.id \in held
      /\ \A g \in Live \cup dying : g[1] \in held
  BY DEF held
<1> QED
  BY <1>3, <1>8, <1>9

------------------------------------------------------------------------------
(* The stage: previews.                                                      *)

\* All or all but one.
LEMMA OneLess ==
  ASSUME NEW n \in Nat, NEW m, m = n \/ (m = n - 1 /\ n > 0)
  PROVE  m \in 0..n
<1>1. CASE m = n
  BY <1>1
<1>2. CASE m = n - 1 /\ n > 0
  <2>1. n - 1 \in Nat /\ n - 1 <= n
    BY <1>2
  <2> QED
    BY <1>2, <2>1
<1> QED
  BY <1>1, <1>2

\* The entries of a list that are no previews, when those come last.
LEMMA KeptAreFirst ==
  ASSUME NEW es \in Seq(EntryType), NEW rs \in Seq(Specs), PreviewOK(es, rs)
  PROVE  /\ Solid(es) \in 0..Len(es)
         /\ Kept(es) = [i \in 1..Solid(es) |-> es[i]]
<1> DEFINE m == Solid(es)
           K == {k \in DOMAIN es : ~es[k].preview}
<1>1. Len(es) \in Nat /\ DOMAIN es = 1..Len(es)
  BY LenProperties
<1>2. m \in 0..Len(es)
  <2>1. m = Len(es) \/ (m = Len(es) - 1 /\ Len(es) > 0)
    BY DEF Solid
  <2> HIDE DEF m
  <2> QED
    BY <1>1, <2>1, OneLess
<1>3. K = 1..m
  <2>1. \A i \in 1..m : ~es[i].preview
    BY ONLY PreviewOK(es, rs) DEF PreviewOK
  <2>2. ASSUME NEW i \in 1..Len(es), i \notin 1..m
        PROVE  i = Len(es) /\ es[i].preview
    <3>1. CASE Len(es) > 0 /\ es[Len(es)].preview
      <4>1. m = Len(es) - 1
        BY <3>1 DEF Solid
      <4>2. i \in Nat /\ i > 0 /\ i <= Len(es) /\ ~(i <= m)
        BY <1>1, <1>2, <2>2
      <4>3. m \in Nat
        BY <1>1, <1>2
      <4> DEFINE n == Len(es)
      <4>4. n \in Nat /\ i <= n /\ m = n - 1
        BY <1>1, <4>1, <4>2
      <4> HIDE DEF m, n
      <4>5. i = n
        BY <4>2, <4>3, <4>4
      <4> QED
        BY <3>1, <4>5 DEF n
    <3>2. CASE ~(Len(es) > 0 /\ es[Len(es)].preview)
      <4>1. m = Len(es)
        BY <3>2 DEF Solid
      <4> HIDE DEF m
      <4> QED
        BY <2>2, <4>1
    <3> QED
      BY <3>1, <3>2
  <2>3. \A i \in 1..m : i \in 1..Len(es)
    BY <1>1, <1>2
  <2> HIDE DEF m
  <2> QED
    BY <1>1, <2>1, <2>2, <2>3
<1> HIDE DEF m
<1>4. ASSUME NEW k \in 1..m PROVE Cardinality({i \in 1..m : i <= k}) = k
  <2>1. {i \in 1..m : i <= k} = 1..k
    BY <1>1, <1>2
  <2>2. 1 \in Int /\ k \in Int /\ ~(1 > k) /\ k - 1 + 1 = k
    BY <1>1, <1>2
  <2>3. Cardinality(1..k) = k
    BY <2>2, FS_Interval
  <2> QED
    BY <2>1, <2>3
<1>5. m \in Nat
  BY <1>1, <1>2
<1>6. Cardinality(1..m) = m
  <2>1. CASE m = 0
    BY <2>1, FS_EmptySet
  <2>2. CASE m # 0
    <3>1. m \in 1..m
      BY <1>5, <2>2
    <3>2. {i \in 1..m : i <= m} = 1..m
      BY <1>5
    <3> QED
      BY <1>4, <3>1, <3>2
  <2> QED
    BY <2>1, <2>2
<1>7. \A r \in 1..m :
        (CHOOSE k \in 1..m : Cardinality({i \in 1..m : i <= k}) = r) = r
  BY <1>4
<1>8. Kept(es) = Picked(es, 1..m)
  BY <1>3 DEF Kept
<1>9. Picked(es, 1..m) =
        [r \in 1..m |->
           es[CHOOSE k \in 1..m : Cardinality({i \in 1..m : i <= k}) = r]]
  BY <1>6 DEF Picked
<1>10. Picked(es, 1..m) = [r \in 1..m |-> es[r]]
  BY <1>7, <1>9
<1> QED
  BY <1>2, <1>8, <1>10 DEF m

\* The last Keep of a list.
LEMMA LatestOf ==
  ASSUME NEW S, NEW s \in Seq(S), Keep \in Nat \ {0}
  PROVE  LET d == IF Len(s) > Keep THEN Len(s) - Keep ELSE 0
         IN  /\ Latest(s) \in Seq(S)
             /\ Len(Latest(s)) = Len(s) - d
             /\ \A i \in 1..(Len(s) - d) : Latest(s)[i] = s[i + d]
<1> DEFINE d == IF Len(s) > Keep THEN Len(s) - Keep ELSE 0
<1>1. Len(s) \in Nat
  BY LenProperties
<1>2. d \in Nat /\ d <= Len(s)
  BY <1>1
<1>3. Latest(s) = SubSeq(s, d + 1, Len(s))
  BY <1>1 DEF Latest
<1> HIDE DEF d
<1>4. \A i \in (d + 1)..Len(s) : s[i] \in S
  BY <1>1, <1>2, ElementOfSeq
<1>5. SubSeq(s, d + 1, Len(s)) = [i \in 1..(Len(s) - d) |-> s[i + d]]
  BY <1>1, <1>2
<1>6. /\ Latest(s) = [i \in 1..(Len(s) - d) |-> s[i + d]]
      /\ Len(s) - d \in Nat
  BY <1>1, <1>2, <1>3, <1>5
<1>7. \A i \in 1..(Len(s) - d) : s[i + d] \in S
  BY <1>1, <1>2, <1>4
<1>8. Latest(s) \in Seq(S) /\ Len(Latest(s)) = Len(s) - d
  BY <1>6, <1>7
<1> QED
  BY <1>6, <1>8 DEF d

\* What the list and the ghost of it hold after a visualization is added.
LEMMA AddedOK ==
  ASSUME Keep \in Nat \ {0}, NEW es \in Seq(EntryType), NEW rs \in Seq(Specs),
         PreviewOK(es, rs), NEW e \in EntryType
  PROVE  LET ns == Latest(Append(Active(Kept(es)), e))
             nr == IF e.preview THEN rs ELSE Latest(Append(rs, e.spec))
         IN  /\ ns \in Seq(EntryType)
             /\ nr \in Seq(Specs)
             /\ PreviewOK(ns, nr)
<1> DEFINE m == Solid(es)
           q == Append(Active(Kept(es)), e)
           ns == Latest(q)
           r == Append(rs, e.spec)
           nr == IF e.preview THEN rs ELSE Latest(r)
<1> SUFFICES /\ ns \in Seq(EntryType)
             /\ nr \in Seq(Specs)
             /\ PreviewOK(ns, nr)
  OBVIOUS
<1>1. Len(es) \in Nat /\ Len(rs) \in Nat /\ m \in 0..Len(es)
  BY LenProperties, KeptAreFirst
<1>2. Kept(es) = [i \in 1..m |-> es[i]]
  BY KeptAreFirst
<1> HIDE DEF m
<1>3. m \in Nat /\ m <= Len(es)
  BY <1>1
<1>4. \A i \in 1..m : es[i] \in EntryType
  BY <1>1, <1>3, ElementOfSeq
<1>5. Active(Kept(es)) = [i \in 1..m |-> [es[i] EXCEPT !.lifecycle = "active"]]
  BY <1>2 DEF Active
<1>6. \A i \in 1..m : [es[i] EXCEPT !.lifecycle = "active"] \in EntryType
  BY <1>4 DEF EntryType
<1>7. /\ Active(Kept(es)) \in Seq(EntryType)
      /\ Len(Active(Kept(es))) = m
  <2> DEFINE a == Active(Kept(es))
  <2>1. \A i \in 1..m : a[i] \in EntryType
    BY <1>5, <1>6
  <2>2. a = [i \in 1..m |-> a[i]]
    BY <1>5
  <2> HIDE DEF a
  <2>3. a \in Seq(EntryType) /\ Len(a) = m
    BY <1>3, <2>1, <2>2
  <2> QED
    BY <2>3 DEF a
<1>8. \A i \in 1..m : /\ Active(Kept(es))[i].spec = es[i].spec
                      /\ Active(Kept(es))[i].preview = es[i].preview
  BY <1>4, <1>5 DEF EntryType
<1>9. /\ q \in Seq(EntryType) /\ Len(q) = m + 1 /\ q[m + 1] = e
      /\ \A i \in 1..m : q[i] = Active(Kept(es))[i]
  BY <1>3, <1>7, AppendProperties
<1>10. /\ r \in Seq(Specs) /\ Len(r) = Len(rs) + 1 /\ r[Len(rs) + 1] = e.spec
       /\ \A i \in 1..Len(rs) : r[i] = rs[i]
  BY AppendProperties DEF EntryType
<1>11. /\ \A i \in 1..m : ~es[i].preview
       /\ Len(es) <= Keep /\ Len(rs) <= Keep
       /\ \/ Len(rs) = m /\ \A i \in 1..m : es[i].spec = rs[i]
          \/ /\ m = Len(es) - 1 /\ Len(es) = Keep /\ Len(rs) = Keep
             /\ \A i \in 1..m : es[i].spec = rs[i + 1]
  BY DEF PreviewOK, m
<1>12. \A i \in 1..m : q[i].spec = es[i].spec /\ ~q[i].preview
  BY <1>8, <1>9, <1>11
<1> DEFINE d == IF m + 1 > Keep THEN m + 1 - Keep ELSE 0
           f == IF Len(rs) + 1 > Keep THEN Len(rs) + 1 - Keep ELSE 0
<1> HIDE DEF q, r
<1>13. /\ ns \in Seq(EntryType) /\ Len(ns) = m + 1 - d
       /\ \A i \in 1..(m + 1 - d) : ns[i] = q[i + d]
  <2> DEFINE x == IF Len(q) > Keep THEN Len(q) - Keep ELSE 0
  <2>1. /\ ns \in Seq(EntryType) /\ Len(ns) = Len(q) - x
        /\ \A i \in 1..(Len(q) - x) : ns[i] = q[i + x]
    BY <1>9, LatestOf
  <2> HIDE DEF ns
  <2>2. Len(q) = m + 1
    BY <1>9
  <2>3. x = d /\ d \in Nat
    BY <1>3, <2>2
  <2> HIDE DEF x, d
  <2>4. Len(q) - x = m + 1 - d
    BY <1>3, <2>2, <2>3
  <2> QED
    BY <2>1, <2>3, <2>4
<1>14. /\ Latest(r) \in Seq(Specs) /\ Len(Latest(r)) = Len(rs) + 1 - f
       /\ \A i \in 1..(Len(rs) + 1 - f) : Latest(r)[i] = r[i + f]
  <2> DEFINE x == IF Len(r) > Keep THEN Len(r) - Keep ELSE 0
  <2>1. /\ Latest(r) \in Seq(Specs) /\ Len(Latest(r)) = Len(r) - x
        /\ \A i \in 1..(Len(r) - x) : Latest(r)[i] = r[i + x]
    BY <1>10, LatestOf
  <2>2. Len(r) = Len(rs) + 1
    BY <1>10
  <2>3. x = f /\ f \in Nat
    BY <1>1, <2>2
  <2> HIDE DEF x, f
  <2>4. Len(r) - x = Len(rs) + 1 - f
    BY <1>1, <2>2, <2>3
  <2> QED
    BY <2>1, <2>3, <2>4
<1> HIDE DEF ns
<1>15. d \in {0, 1} /\ (d = 1 <=> m = Keep) /\ m <= Keep
  BY <1>1, <1>3, <1>11
<1>16. f \in {0, 1} /\ (f = 1 <=> Len(rs) = Keep)
  BY <1>1, <1>11
<1> HIDE DEF d, f
<1>17. ns[Len(ns)] = e /\ Len(ns) \in Nat /\ Len(ns) > 0
  <2>1. m + 1 - d \in 1..(m + 1 - d) /\ m + 1 - d + d = m + 1
    BY <1>3, <1>15
  <2> QED
    BY <1>9, <1>13, <2>1
<1>18. \A i \in 1..(m - d) : /\ ns[i] = q[i + d] /\ i + d \in 1..m
  BY <1>3, <1>13, <1>15
<1>19. \A i \in 1..(m - d) : ~ns[i].preview /\ ns[i].spec = es[i + d].spec
  BY <1>12, <1>18
<1>20. CASE e.preview
  <2>0. nr = rs
    BY <1>20
  <2> HIDE DEF nr
  <2>1. Solid(ns) = m - d /\ Solid(ns) = Len(ns) - 1
    <3>1. Solid(ns) = Len(ns) - 1
      BY <1>17, <1>20 DEF Solid
    <3> QED
      BY <1>3, <1>13, <1>15, <3>1
  <2>2. Len(ns) <= Keep
    BY <1>3, <1>13, <1>15
  <2>3. CASE Len(rs) = m /\ d = 0 /\ \A i \in 1..m : es[i].spec = rs[i]
    <3>1. m - d = m /\ \A i \in 1..m : i + d = i
      BY <1>3, <2>3
    <3>2. \A i \in 1..Solid(ns) : ns[i].spec = rs[i]
      BY <1>19, <2>1, <2>3, <3>1
    <3> QED
      BY <1>11, <1>13, <1>19, <2>0, <2>1, <2>2, <2>3, <3>1, <3>2
         DEF PreviewOK
  <2>4. CASE /\ Len(rs) = Keep
             /\ m - d = Keep - 1
             /\ \A i \in 1..(m - d) : es[i + d].spec = rs[i + 1]
    <3>1. Len(ns) = Keep
      BY <1>3, <1>13, <1>15, <2>4
    <3>2. \A i \in 1..Solid(ns) : ns[i].spec = rs[i + 1]
      BY <1>19, <2>1, <2>4
    <3> QED
      BY <1>11, <1>13, <1>19, <2>0, <2>1, <2>2, <2>4, <3>1, <3>2
         DEF PreviewOK
  <2>5. CASE Len(rs) = m /\ \A i \in 1..m : es[i].spec = rs[i]
    <3>1. CASE d = 1
      <4>1. m = Keep /\ m - d = Keep - 1
        BY <1>3, <1>15, <3>1
      <4>2. \A i \in 1..(m - d) : i + d = i + 1 /\ i + 1 \in 1..m
        BY <1>3, <3>1
      <4> QED
        BY <2>4, <2>5, <4>1, <4>2
    <3>2. CASE d = 0
      BY <2>3, <2>5, <3>2
    <3> QED
      BY <1>15, <3>1, <3>2
  <2>6. CASE /\ m = Len(es) - 1 /\ Len(es) = Keep /\ Len(rs) = Keep
             /\ \A i \in 1..m : es[i].spec = rs[i + 1]
    <3>1. d = 0 /\ m - d = Keep - 1 /\ m - d = m
      BY <1>1, <1>3, <1>15, <2>6
    <3>2. \A i \in 1..m : i + d = i
      BY <3>1
    <3> QED
      BY <2>4, <2>6, <3>1, <3>2
  <2> QED
    BY <1>11, <2>5, <2>6
<1>21. CASE ~e.preview
  <2>1. Solid(ns) = Len(ns) /\ nr = Latest(r)
    BY <1>17, <1>21 DEF Solid
  <2> HIDE DEF nr
  <2>2. Len(ns) <= Keep /\ Len(Latest(r)) <= Keep
    BY <1>1, <1>3, <1>11, <1>13, <1>14, <1>15, <1>16
  <2>3. \A i \in 1..Len(ns) : ~ns[i].preview
    <3>1. \A i \in 1..Len(ns) : i = Len(ns) \/ i \in 1..(m - d)
      BY <1>3, <1>13, <1>15
    <3> QED
      BY <1>17, <1>19, <1>21, <3>1
  <2>4. /\ Len(Latest(r)) = Len(ns)
        /\ \A i \in 1..Len(ns) : ns[i].spec = Latest(r)[i]
    <3>1. CASE Len(rs) = m /\ \A i \in 1..m : es[i].spec = rs[i]
      <4>1. d = f
        BY <1>3, <1>15, <1>16, <3>1
      <4>2. \A i \in 1..(m - d) : i + d \in 1..m
        BY <1>3, <1>15
      <4>3. \A i \in 1..(m - d) : ns[i].spec = r[i + d]
        BY <1>10, <1>19, <3>1, <4>2
      <4>4. ns[m + 1 - d].spec = r[m + 1 - d + d]
        <5>1. m + 1 - d + d = m + 1
          BY <1>3, <1>15
        <5> QED
          BY <1>10, <1>13, <1>17, <3>1, <5>1
      <4>5. \A i \in 1..(m + 1 - d) : i = m + 1 - d \/ i \in 1..(m - d)
        <5>1. m \in Nat /\ d \in Nat /\ d <= m + 1
          BY <1>3, <1>15
        <5> QED
          BY ONLY <5>1
      <4>6. m + 1 - d = Len(rs) + 1 - f
        BY <3>1, <4>1
      <4>7. Len(Latest(r)) = Len(ns) /\ Len(ns) = m + 1 - d
        BY <1>13, <1>14, <4>6
      <4>8. \A i \in 1..(m + 1 - d) : ns[i].spec = r[i + d]
        BY <4>3, <4>4, <4>5
      <4>9. \A i \in 1..(m + 1 - d) : Latest(r)[i] = r[i + d]
        BY <1>14, <4>1, <4>6
      <4> QED
        BY <4>7, <4>8, <4>9
    <3>2. CASE /\ m = Len(es) - 1 /\ Len(es) = Keep /\ Len(rs) = Keep
               /\ \A i \in 1..m : es[i].spec = rs[i + 1]
      <4>1. d = 0 /\ f = 1 /\ m = Keep - 1 /\ Len(rs) = m + 1
        BY <1>1, <1>3, <1>15, <1>16, <3>2
      <4>2. m + 1 - d = m + 1 /\ Len(rs) + 1 - f = m + 1
        BY <1>3, <4>1
      <4>3. \A i \in 1..m : i + d = i /\ i + f = i + 1 /\ i + 1 \in 1..Len(rs)
                            /\ i \in 1..(m - d)
        BY <1>3, <4>1
      <4>4. \A i \in 1..m : ns[i].spec = r[i + f]
        <5> TAKE i \in 1..m
        <5>1. ns[i].spec = es[i].spec
          BY <1>19, <4>3
        <5>2. es[i].spec = rs[i + 1]
          BY <3>2
        <5>3. r[i + f] = rs[i + 1]
          BY <1>10, <4>3
        <5> QED
          BY <5>1, <5>2, <5>3
      <4>5. ns[m + 1].spec = r[m + 1 + f]
        <5>1. m + 1 + f = Len(rs) + 1
          BY <1>3, <4>1
        <5> QED
          BY <1>10, <1>13, <1>17, <4>2, <5>1
      <4>6. \A i \in 1..(m + 1) : i = m + 1 \/ i \in 1..m
        BY <1>3
      <4> QED
        BY <1>13, <1>14, <4>2, <4>4, <4>5, <4>6
    <3> QED
      BY <1>11, <3>1, <3>2
  <2> QED
    BY <1>13, <1>14, <2>1, <2>2, <2>3, <2>4 DEF PreviewOK
<1> QED
  BY <1>20, <1>21

\* The invariant of the list is the property.
LEMMA PreviewImplies == ListTypeOK /\ PreviewInv => PreviewCostsNoSlot
<1> SUFFICES ASSUME ListTypeOK, PreviewInv PROVE PreviewCostsNoSlot
  OBVIOUS
<1> DEFINE m == Solid(entries)
           n == Len(entries)
<1>1. n \in Nat /\ m \in 0..n /\ Kept(entries) = [i \in 1..m |-> entries[i]]
  BY KeptAreFirst, LenProperties DEF ListTypeOK, PreviewInv
<1>2. Len(Kept(entries)) = m
  BY <1>1
<1>3. m = n \/ (m = n - 1 /\ n > 0 /\ entries[n].preview)
  BY DEF Solid
<1>4. [i \in 1..m |-> Kept(entries)[i].spec] = [i \in 1..m |-> entries[i].spec]
  BY <1>1
<1>5. \/ Len(real) = m /\ \A i \in 1..m : entries[i].spec = real[i]
      \/ /\ m = n - 1 /\ Len(real) = Keep /\ n = Keep
         /\ \A i \in 1..m : entries[i].spec = real[i + 1]
  BY DEF PreviewInv, PreviewOK
<1> HIDE DEF m, n
<1>6. n - m <= 1 /\ (n - m = 1 => Last(entries).preview)
  BY <1>1, <1>3 DEF Last, n
<1>7. CASE Len(real) = m /\ \A i \in 1..m : entries[i].spec = real[i]
  <2>1. real = [i \in 1..m |-> real[i]]
    BY <1>7 DEF ListTypeOK
  <2>2. [i \in 1..m |-> entries[i].spec] = real
    BY <1>7, <2>1
  <2> QED
    BY <1>2, <1>4, <1>6, <2>2 DEF PreviewCostsNoSlot, n
<1>8. CASE /\ m = n - 1 /\ Len(real) = Keep /\ n = Keep
           /\ \A i \in 1..m : entries[i].spec = real[i + 1]
  <2>1. Tail(real) = [i \in 1..(Len(real) - 1) |-> real[i + 1]]
    <3>1. real \in Seq(Specs) /\ Len(real) > 0
      BY <1>1, <1>3, <1>8 DEF ListTypeOK
    <3>2. real # <<>>
      BY <3>1
    <3>3. /\ Tail(real) \in Seq(Specs)
          /\ Len(Tail(real)) = Len(real) - 1
          /\ \A i \in 1..Len(Tail(real)) : Tail(real)[i] = real[i + 1]
      BY <3>1, <3>2, HeadTailProperties
    <3> DEFINE u == Tail(real)
    <3>4. /\ u \in Seq(Specs)
          /\ Len(u) = Len(real) - 1
          /\ \A i \in 1..Len(u) : u[i] = real[i + 1]
      BY <3>3
    <3> HIDE DEF u
    <3>5. u = [i \in 1..(Len(real) - 1) |-> real[i + 1]]
      BY <3>4
    <3> QED
      BY <3>5 DEF u
  <2>2. Len(real) - 1 = m /\ n - m = 1
    BY <1>1, <1>8
  <2>3. [i \in 1..m |-> entries[i].spec] = Tail(real)
    BY <1>8, <2>1, <2>2
  <2> QED
    BY <1>2, <1>4, <1>6, <1>8, <2>2, <2>3 DEF PreviewCostsNoSlot, n
<1> QED
  BY <1>5, <1>7, <1>8

------------------------------------------------------------------------------
(* The stage: the map above it.                                              *)

\* A map goes away only by leaving.
ViewMoves == view'.mode = "globe" => view.mode \in {"globe", "leaving"}

\* The map's own steps move the view that way.
LEMMA MapStepMoves ==
  ASSUME MapInv, [MapNext]_mapVars
  PROVE  ViewMoves
<1> SUFFICES ASSUME view'.mode = "globe" PROVE view.mode \in {"globe", "leaving"}
  BY DEF ViewMoves
<1>1. view.mode \in Modes
  BY DEF MapInv, MapTypeOK
<1>2. CASE view' = closeMapState(view)
  BY <1>1, <1>2 DEF closeMapState, isOpen, MapInv, MapTypeOK
<1>3. ASSUME NEW req \in Requests, OpenMap(req)
      PROVE  view.mode \in {"globe", "leaving"}
  BY <1>1, <1>3 DEF OpenMap, openMapState, isOpen
<1>4. CASE SettleTimer
  BY <1>4 DEF SettleTimer, SettleMap, settleMapState, MapInv, MapTypeOK
<1>5. CASE view' = view
  BY <1>5
<1>6. CASE Leave \/ ZoomedOut
  BY <1>2, <1>6 DEF Leave, ZoomedOut, CloseMap
<1>7. CASE \/ MountStage \/ Load \/ SlowTimer \/ LoadError
           \/ RouteAnswered \/ CloseDirections
  BY <1>5, <1>7 DEF MountStage, Load, SlowTimer, LoadError, RouteAnswered,
     CloseDirections
<1>8. CASE FailTimer
  BY <1>2, <1>8 DEF FailTimer
<1>9. CASE UNCHANGED mapVars
  BY <1>5, <1>9 DEF mapVars
<1> QED
  BY <1>3, <1>4, <1>6, <1>7, <1>8, <1>9 DEF MapNext, Driven

\* What a visualization does to the map keeps its invariant too.
LEMMA SpecKeepsMap ==
  ASSUME StageAssumption, MapInv, NEW s \in Specs,
         view' = mapViewAfterSpec(view, s), stage' = StageFor(view')
  PROVE  MapInv' /\ ViewMoves
<1>1. CASE s.type # "map"
  <2>1. view' = closeMapState(view)
    BY <1>1 DEF mapViewAfterSpec
  <2>2. view'.mode = "globe" => view.mode = "globe"
    BY <2>1 DEF closeMapState, isOpen, MapInv, MapTypeOK
  <2> QED
    BY <2>1, <2>2, CloseKeeps DEF ViewMoves
<1>2. CASE s.type = "map" /\ s.req = NoRequest
  <2>1. view' = view
    BY <1>2 DEF mapViewAfterSpec
  <2>2. /\ view' \in [mode : Modes, req : AnyRequest]
        /\ view'.mode = "map" => stage.ready
    BY <2>1 DEF MapInv, MapTypeOK, LatestRequestApplied
  <2> QED
    BY <2>1, <2>2, StageFollows DEF ViewMoves
<1>3. CASE s.type = "map" /\ s.req # NoRequest
  <2>1. s.req \in Requests
    BY <1>3 DEF StageAssumption
  <2>2. OpenMap(s.req)
    BY <1>3 DEF mapViewAfterSpec, OpenMap
  <2>3. [MapNext]_mapVars
    BY <2>1, <2>2 DEF MapNext
  <2> QED
    BY <2>3, MapStepInv, MapStepMoves
<1> QED
  BY <1>1, <1>2, <1>3

\* Every step of the stage keeps the map's invariant.
LEMMA StageStepMap ==
  ASSUME StageAssumption, MapInv, [Next]_vars
  PROVE  MapInv' /\ ViewMoves
<1>1. CASE [MapNext]_mapVars
  BY <1>1, MapStepInv, MapStepMoves
<1>2. ASSUME NEW s \in Specs, view' = mapViewAfterSpec(view, s),
             stage' = StageFor(view')
      PROVE  MapInv' /\ ViewMoves
  BY <1>2, SpecKeepsMap
<1>3. CASE MapMoves
  BY <1>1, <1>3 DEF MapMoves, MapNext
<1>4. CASE Viz
  <2>1. ASSUME NEW s \in Specs, NEW p \in BOOLEAN, addVisualization(s, p)
        PROVE  MapInv' /\ ViewMoves
    BY <1>2, <2>1 DEF addVisualization
  <2>2. ASSUME NEW s \in Specs, setVisualizations(s)
        PROVE  MapInv' /\ ViewMoves
    BY <1>2, <2>2 DEF setVisualizations
  <2>3. CASE clearVisualizations
    BY <1>1, <2>3 DEF clearVisualizations, mapVars
  <2>4. ASSUME NEW i \in DOMAIN entries, settleVisualization(i)
        PROVE  MapInv' /\ ViewMoves
    BY <1>1, <2>4 DEF settleVisualization, mapVars
  <2>5. CASE VizDeepLink
    BY <2>1, <2>5 DEF VizDeepLink
  <2> QED
    BY <1>4, <2>1, <2>2, <2>3, <2>4, <2>5 DEF Viz, VizRail
<1>5. CASE Operator
  <2>1. ASSUME NEW g \in Live, ZoomIn(g) PROVE [MapNext]_mapVars
    <3>1. CASE UNCHANGED mapVars
      BY <3>1
    <3>2. CASE PushPastLimit
      BY <3>2 DEF PushPastLimit, MapNext, StageAssumption
    <3> QED
      BY <2>1, <3>1, <3>2 DEF ZoomIn
  <2>2. ASSUME NEW g \in Live, ZoomOut(g) PROVE [MapNext]_mapVars
    BY <2>2 DEF ZoomOut, mapVars
  <2>3. ASSUME NEW g \in Live, reset(g) PROVE [MapNext]_mapVars
    BY <2>3 DEF reset, mapVars
  <2>4. ASSUME NEW g \in Live, NEW k \in Elements, FocusMarker(g, k)
        PROVE  [MapNext]_mapVars
    BY <2>4 DEF FocusMarker, mapVars
  <2>5. ASSUME NEW s \in Specs, NEW k \in Elements, Pick(s.type, k)
        PROVE  [MapNext]_mapVars
    BY <2>5 DEF Pick, mapVars
  <2>6. ASSUME NEW s \in Specs, PointerMissed(s.type) PROVE [MapNext]_mapVars
    BY <2>6 DEF PointerMissed, mapVars
  <2>7. CASE Escape
    <3>1. \/ CloseDirections
          \/ stage.up /\ CloseMap
          \/ UNCHANGED mapVars
      BY <2>7 DEF Escape
    <3>2. [MapNext]_mapVars
      BY <3>1 DEF MapNext, Leave
    <3> QED
      BY <1>1, <3>2
  <2> QED
    BY <1>1, <1>5, <2>1, <2>2, <2>3, <2>4, <2>5, <2>6, <2>7 DEF Operator
<1>6. CASE Canvas
  <2>1. UNCHANGED <<view, stage>>
    BY <1>6 DEF Canvas, ContextLost, Remount, Created, Frame, OldGlobeGone
  <2> QED
    BY <1>1, <2>1 DEF mapVars
<1>7. CASE UNCHANGED vars
  <2>1. UNCHANGED <<view, stage>>
    BY <1>7 DEF vars
  <2> QED
    BY <1>1, <2>1 DEF mapVars
<1> QED
  BY <1>3, <1>4, <1>5, <1>6, <1>7 DEF Next

------------------------------------------------------------------------------
(* The stage: the camera.                                                    *)

\* Unmounting and mounting keep the count right and the owner among those
\* there, and undo the dive when the map leaves.
LEMMA RemountedKeeps ==
  ASSUME StageTypeOK, GlobeOwnsCamera, CameraBackOutside, ViewMoves,
         view.mode \in Modes,
         NEW gone \in SUBSET (Live \cup dying), NEW new, IsFiniteSet(new),
         new \cap (Live \cup dying) = {},
         Remounted(gone, new)
  PROVE  /\ Live' = (Live \ gone) \cup new
         /\ dying' = dying \ gone
         /\ globes' \in [Live' -> Distances]
         /\ IsFiniteSet(Live') /\ IsFiniteSet(dying') /\ holders' \in Nat
         /\ GlobeOwnsCamera' /\ CameraBackOutside'
<1> DEFINE all == Live \cup dying
           leaves == view.mode # "leaving" /\ view'.mode = "leaving"
<1>1. /\ globes' = [g \in (Live \ gone) \cup new |->
                      IF g \in new \/ leaves THEN AtHome ELSE globes[g]]
      /\ dying' = dying \ gone
  BY DEF Remounted, Live
<1>2. Live' = (Live \ gone) \cup new
  BY <1>1 DEF Live
<1>3. globes' \in [Live' -> Distances]
  <2>1. \A g \in Live : globes[g] \in Distances
    BY DEF StageTypeOK
  <2>2. \A g \in (Live \ gone) \cup new :
          (IF g \in new \/ leaves THEN AtHome ELSE globes[g]) \in Distances
    BY <2>1 DEF AtHome, Distances
  <2> QED
    BY <1>1, <1>2, <2>2
<1>4. /\ IsFiniteSet(all) /\ IsFiniteSet(gone)
      /\ IsFiniteSet(Live \ gone) /\ IsFiniteSet(dying \ gone)
  BY FS_Union, FS_Subset, FS_Difference DEF StageTypeOK
<1>5. IsFiniteSet(Live') /\ IsFiniteSet(dying')
  BY <1>1, <1>2, <1>4, FS_Union
<1>6. (Live \cup dying)' = (all \ gone) \cup new
  BY <1>1, <1>2
<1>7. /\ Cardinality(all \ gone) = Cardinality(all) - Cardinality(gone)
      /\ Cardinality(gone) <= Cardinality(all)
      /\ Cardinality(gone) \in Nat /\ Cardinality(all) \in Nat
      /\ Cardinality(new) \in Nat
      /\ IsFiniteSet(all \ gone)
  <2>1. all \cap gone = gone
    OBVIOUS
  <2>2. Cardinality(all \ gone) = Cardinality(all) - Cardinality(all \cap gone)
    BY <1>4, FS_Difference
  <2>3. gone \in SUBSET all
    OBVIOUS
  <2>4. Cardinality(gone) <= Cardinality(all)
    BY <1>4, <2>3, FS_Subset
  <2>5. IsFiniteSet(all \ gone)
    BY <1>4, FS_Difference
  <2> HIDE DEF all
  <2> QED
    BY <1>4, <2>1, <2>2, <2>4, <2>5, FS_CardinalityType
<1>8. Cardinality((all \ gone) \cup new) = Cardinality(all \ gone) + Cardinality(new)
  <2>1. (all \ gone) \cap new = {}
    OBVIOUS
  <2>2. Cardinality((all \ gone) \cup new) =
          Cardinality(all \ gone) + Cardinality(new)
            - Cardinality((all \ gone) \cap new)
    BY <1>7, FS_Union
  <2>3. Cardinality((all \ gone) \cap new) = 0
    BY <2>1, FS_EmptySet
  <2>4. Cardinality(all \ gone) \in Nat
    BY <1>7, FS_CardinalityType
  <2> HIDE DEF all
  <2> QED
    BY <1>7, <2>2, <2>3, <2>4
<1>9. holders = Cardinality(all)
  BY DEF GlobeOwnsCamera
<1>10. holders' = Cardinality((all \ gone) \cup new) /\ holders' \in Nat
  <2>1. holders' = (IF Cardinality(gone) > holders THEN 0
                    ELSE holders - Cardinality(gone)) + Cardinality(new)
    BY DEF Remounted
  <2> HIDE DEF all
  <2>2. holders' = Cardinality(all) - Cardinality(gone) + Cardinality(new)
    BY <1>7, <1>9, <2>1
  <2> QED
    BY <1>7, <1>8, <2>2
<1>11. (holders' = 0) <=> (Live \cup dying)' = {}
  <2>1. IsFiniteSet((all \ gone) \cup new)
    BY <1>7, FS_Union
  <2>2. Cardinality((all \ gone) \cup new) = 0 <=> (all \ gone) \cup new = {}
    BY <2>1, FS_EmptySet
  <2> QED
    BY <1>6, <1>10, <2>2
<1>12. owner' \in (all \ gone) \cup new \cup {NoOwner}
  <2>1. owner' \in IF new # {} THEN new
                   ELSE IF owner \in gone THEN {NoOwner} ELSE {owner}
    BY DEF Remounted
  <2>2. owner \in all \cup {NoOwner}
    BY DEF GlobeOwnsCamera
  <2> HIDE DEF all
  <2> QED
    BY <2>1, <2>2
<1>13. GlobeOwnsCamera'
  <2>1. NoOwner' = NoOwner
    BY DEF NoOwner
  <2> HIDE DEF all
  <2> QED
    BY <1>6, <1>10, <1>11, <1>12, <2>1 DEF GlobeOwnsCamera, RigDrives
<1>14. CameraBackOutside'
  <2> SUFFICES ASSUME view'.mode \in {"leaving", "globe"}, NEW g \in Live'
               PROVE  globes'[g] # "dive"
    BY DEF CameraBackOutside, Live
  <2>1. globes'[g] = IF g \in new \/ leaves THEN AtHome ELSE globes[g]
    BY <1>1, <1>2
  <2>2. CASE g \in new \/ leaves
    BY <2>1, <2>2 DEF AtHome
  <2>3. CASE ~(g \in new \/ leaves)
    <3>1. view.mode \in {"leaving", "globe"}
      BY <2>3 DEF ViewMoves
    <3>2. g \in Live
      BY <1>2, <2>3
    <3>3. globes[g] # "dive"
      BY <3>1, <3>2 DEF CameraBackOutside, Live
    <3> QED
      BY <2>1, <2>3, <3>3
  <2> QED
    BY <2>2, <2>3
<1> QED
  BY <1>1, <1>2, <1>3, <1>5, <1>10, <1>13, <1>14

\* The globes of a canvas have its number.
LEMMA HereIsOfCanvas ==
  ASSUME NEW es, NEW g \in Here(es)
  PROVE  g[2] = canvas.nr
<1>1. PICK e \in sceneEntries(es) : g = <<e.id, canvas.nr>>
  BY DEF Here
<1> QED
  BY <1>1

\* Effects of a commit that neither mounts nor unmounts a globe.
LEMMA StillMounted ==
  ASSUME CameraInv, ViewMoves, view.mode \in Modes, Remounted({}, {}),
         UNCHANGED <<entries, canvas>>
  PROVE  CameraInv'
<1>1. /\ IsFiniteSet({}) /\ {} \cap (Live \cup dying) = {}
      /\ {} \in SUBSET (Live \cup dying)
  BY FS_EmptySet
<1>2. /\ Live' = (Live \ {}) \cup {} /\ dying' = dying \ {}
      /\ globes' \in [Live' -> Distances]
      /\ IsFiniteSet(Live') /\ IsFiniteSet(dying') /\ holders' \in Nat
      /\ GlobeOwnsCamera' /\ CameraBackOutside'
  BY <1>1, RemountedKeeps DEF CameraInv
<1>3. Live' = Live /\ dying' = dying
  BY <1>2
<1>4. Here(entries)' = Here(entries)
  BY DEF Here, sceneEntries
<1>5. CanvasInv'
  BY <1>3, <1>4 DEF CameraInv, CanvasInv
<1>6. StageTypeOK'
  BY <1>2 DEF CameraInv, StageTypeOK
<1> QED
  BY <1>2, <1>5, <1>6 DEF CameraInv

\* The globes stay, and only how far away they want the camera changes.
LEMMA CameraMoves ==
  ASSUME CameraInv, globes' \in [Live -> Distances], UNCHANGED <<dying, holders>>,
         canvas' \in [nr : Nat, state : {"up", "lost", "creating"}],
         canvas'.nr = canvas.nr,
         (canvas'.state = "creating") <=> (canvas.state = "creating"),
         Here(entries)' = Here(entries), owner' \in {owner} \cup Live,
         CameraBackOutside'
  PROVE  CameraInv'
<1>1. Live' = Live
  BY DEF Live
<1>2. StageTypeOK'
  BY <1>1 DEF CameraInv, StageTypeOK
<1>3. CanvasInv'
  BY <1>1 DEF CameraInv, CanvasInv
<1>4. GlobeOwnsCamera'
  BY <1>1 DEF CameraInv, GlobeOwnsCamera, RigDrives, NoOwner
<1> QED
  BY <1>2, <1>3, <1>4 DEF CameraInv

\* Two lists with one key have the same types of holograms on the stage.
LEMMA SameKeySameTypes ==
  ASSUME NEW es \in Seq(EntryType), NEW fs \in Seq(EntryType),
         VizKey(es) = VizKey(fs), NEW e \in Range(es)
  PROVE  \E f \in Range(fs) : f.spec.type = e.spec.type
<1>1. /\ Len(es) \in Nat /\ DOMAIN es = 1..Len(es)
      /\ Len(fs) \in Nat /\ DOMAIN fs = 1..Len(fs)
  BY LenProperties
<1>2. PICK i \in 1..Len(es) : e = es[i]
  BY <1>1 DEF Range
<1>3. DOMAIN VizKey(es) = 1..Len(es) /\ DOMAIN VizKey(fs) = 1..Len(fs)
  BY DEF VizKey
<1>4. i \in 1..Len(fs)
  BY <1>2, <1>3
<1>5. VizKey(es)[i] = <<es[i].spec.type, es[i].spec.title>>
  BY <1>2 DEF VizKey
<1>6. VizKey(fs)[i] = <<fs[i].spec.type, fs[i].spec.title>>
  BY <1>4 DEF VizKey
<1>7. fs[i].spec.type = es[i].spec.type
  BY <1>5, <1>6
<1>8. fs[i] \in Range(fs)
  BY <1>1, <1>4 DEF Range
<1> QED
  BY <1>2, <1>7, <1>8

\* The commit of a new list.
LEMMA ShownKeeps ==
  ASSUME ListTypeOK, CameraInv, FocusOnStage, ViewMoves, view.mode \in Modes,
         NEW es \in Seq(EntryType), Shown(es)
  PROVE  CameraInv' /\ FocusOnStage'
<1>1. entries' = es /\ canvas' = canvas
  BY DEF Shown
<1>2. /\ canvas \in [nr : Nat, state : {"up", "lost", "creating"}]
      /\ IsFiniteSet(Live) /\ IsFiniteSet(dying)
  BY DEF CameraInv, StageTypeOK
<1>3. CASE canvas.state = "creating"
  <2>1. Remounted({}, {})
    BY <1>3 DEF Shown
  <2>2. /\ IsFiniteSet({}) /\ {} \cap (Live \cup dying) = {}
        /\ {} \in SUBSET (Live \cup dying)
    BY FS_EmptySet
  <2>3. /\ Live' = (Live \ {}) \cup {} /\ dying' = dying \ {}
        /\ globes' \in [Live' -> Distances]
        /\ IsFiniteSet(Live') /\ IsFiniteSet(dying') /\ holders' \in Nat
        /\ GlobeOwnsCamera' /\ CameraBackOutside'
    BY <2>1, <2>2, RemountedKeeps DEF CameraInv
  <2>4. Live' = Live /\ dying' = dying
    BY <2>3
  <2>5. CanvasInv'
    BY <1>1, <1>3, <2>4 DEF CameraInv, CanvasInv
  <2>6. StageTypeOK'
    BY <1>1, <1>2, <2>3 DEF StageTypeOK
  <2>7. FocusOnStage'
    BY <1>1, <1>3 DEF FocusOnStage
  <2> QED
    BY <2>3, <2>5, <2>6, <2>7 DEF CameraInv
<1>4. CASE canvas.state # "creating"
  <2> DEFINE gone == Live \ Here(es)
             new == Here(es) \ Live
  <2>1. /\ Remounted(gone, new)
        /\ focus' = IF VizKey(es) # VizKey(entries) THEN None ELSE focus
    BY <1>4 DEF Shown
  <2>2. IsFiniteSet(Here(es))
    BY HereFinite
  <2>3. IsFiniteSet(new)
    BY <2>2, FS_Difference
  <2>4. \A g \in Here(es) : g \notin dying
    <3> SUFFICES ASSUME NEW g \in Here(es), g \in dying PROVE FALSE
      OBVIOUS
    <3>1. g[2] = canvas.nr
      BY HereIsOfCanvas
    <3>2. g[2] \in 0..(canvas.nr - 1)
      BY DEF CameraInv, CanvasInv
    <3>3. canvas.nr \in Nat
      BY <1>2
    <3> QED
      BY <3>1, <3>2, <3>3
  <2>5. new \cap (Live \cup dying) = {} /\ gone \in SUBSET (Live \cup dying)
    BY <2>4
  <2> HIDE DEF gone, new
  <2>6. /\ Live' = (Live \ gone) \cup new /\ dying' = dying \ gone
        /\ globes' \in [Live' -> Distances]
        /\ IsFiniteSet(Live') /\ IsFiniteSet(dying') /\ holders' \in Nat
        /\ GlobeOwnsCamera' /\ CameraBackOutside'
    BY <2>1, <2>3, <2>5, RemountedKeeps DEF CameraInv
  <2>7. Live' = Here(es)
    BY <2>6 DEF gone, new
  <2>8. Here(entries)' = Here(es)
    BY <1>1 DEF Here, sceneEntries
  <2>9. CanvasInv'
    <3>1. \A g \in Live' : g[2] = canvas.nr
      BY <2>7, HereIsOfCanvas
    <3>2. \A g \in dying' : g[2] \in 0..(canvas.nr - 1)
      BY <2>6 DEF CameraInv, CanvasInv
    <3> QED
      BY <1>1, <1>4, <2>7, <2>8, <3>1, <3>2 DEF CanvasInv
  <2>10. StageTypeOK'
    BY <1>1, <1>2, <2>6 DEF StageTypeOK
  <2>11. FocusOnStage'
    <3> SUFFICES ASSUME canvas'.state = "up", focus' # None
                 PROVE  \E f \in Range(es) : f.spec.type = focus'.owner
      BY <1>1 DEF FocusOnStage, None, makeFocus
    <3>1. VizKey(es) = VizKey(entries) /\ focus' = focus
      BY <2>1
    <3>2. PICK e \in Range(entries) : e.spec.type = focus.owner
      BY <1>1, <3>1 DEF FocusOnStage
    <3>3. \E f \in Range(es) : f.spec.type = e.spec.type
      BY <3>1, SameKeySameTypes DEF ListTypeOK
    <3> QED
      BY <3>1, <3>2, <3>3
  <2> QED
    BY <2>6, <2>9, <2>10, <2>11 DEF CameraInv
<1> QED
  BY <1>3, <1>4

------------------------------------------------------------------------------
(* The stage: every step keeps the invariant.                                *)

\* An entry made of a spec is one.
LEMMA EntryIsEntry ==
  ASSUME ListTypeOK, StageTypeOK, NEW s \in Specs, NEW p \in BOOLEAN
  PROVE  /\ Entry(s, p) \in EntryType
         /\ Entry(s, p).spec = s /\ Entry(s, p).preview = p
<1>1. Id(s) \in Nat
  BY NewIdIsNew DEF Id
<1> QED
  BY <1>1 DEF Entry, EntryType

\* What adding a visualization does to the list.
LEMMA AddKeeps ==
  ASSUME StageAssumption, StageInv, ViewMoves,
         NEW s \in Specs, NEW p \in BOOLEAN, addVisualization(s, p)
  PROVE  ListInv' /\ CameraInv' /\ FocusOnStage'
<1> DEFINE e == Entry(s, p)
           es == Latest(Append(Active(Kept(entries)), e))
           rs == IF p THEN real ELSE Latest(Append(real, s))
<1>1. e \in EntryType /\ e.spec = s /\ e.preview = p
  BY EntryIsEntry DEF StageInv, ListInv, CameraInv
<1>2. Shown(es) /\ real' = rs
  BY DEF addVisualization
<1> HIDE DEF e
<1>3. /\ entries \in Seq(EntryType) /\ real \in Seq(Specs)
      /\ PreviewOK(entries, real) /\ Keep \in Nat \ {0}
  BY DEF StageInv, ListInv, ListTypeOK, PreviewInv, StageAssumption
<1>4. es \in Seq(EntryType) /\ rs \in Seq(Specs) /\ PreviewOK(es, rs)
  BY <1>1, <1>3, AddedOK
<1> HIDE DEF es, rs
<1>5. view.mode \in Modes
  BY DEF StageInv, MapInv, MapTypeOK
<1>6. CameraInv' /\ FocusOnStage'
  BY <1>2, <1>4, <1>5, ShownKeeps DEF StageInv, ListInv
<1>7. entries' = es
  BY <1>2 DEF Shown
<1> QED
  BY <1>2, <1>4, <1>6, <1>7 DEF ListInv, ListTypeOK, PreviewInv

\* What replacing the list does.
LEMMA SetKeeps ==
  ASSUME StageAssumption, StageInv, ViewMoves,
         NEW s \in Specs, setVisualizations(s)
  PROVE  ListInv' /\ CameraInv' /\ FocusOnStage'
<1> DEFINE e == Entry(s, FALSE)
           es == <<e>>
           rs == <<s>>
<1>1. e \in EntryType /\ e.spec = s /\ e.preview = FALSE
  BY EntryIsEntry DEF StageInv, ListInv, CameraInv
<1>2. Shown(es) /\ real' = rs
  BY DEF setVisualizations
<1> HIDE DEF e
<1>3. /\ es \in Seq(EntryType) /\ rs \in Seq(Specs)
      /\ Len(es) = 1 /\ Len(rs) = 1 /\ es[1] = e /\ rs[1] = s
  BY <1>1
<1> HIDE DEF es, rs
<1>4. Solid(es) = 1
  BY <1>1, <1>3 DEF Solid
<1>5. Keep \in Nat /\ 1 <= Keep
  BY DEF StageAssumption
<1>6. PreviewOK(es, rs)
  BY <1>1, <1>3, <1>4, <1>5 DEF PreviewOK
<1>7. view.mode \in Modes
  BY DEF StageInv, MapInv, MapTypeOK
<1>8. CameraInv' /\ FocusOnStage'
  BY <1>2, <1>3, <1>7, ShownKeeps DEF StageInv, ListInv
<1>9. entries' = es
  BY <1>2 DEF Shown
<1> QED
  BY <1>2, <1>3, <1>6, <1>8, <1>9 DEF ListInv, ListTypeOK, PreviewInv

\* The empty list shows what nothing has.
LEMMA EmptyOK ==
  ASSUME StageAssumption
  PROVE  PreviewOK(<<>>, <<>>)
<1>1. Solid(<<>>) = 0
  BY DEF Solid
<1>2. Keep \in Nat
  BY DEF StageAssumption
<1> QED
  BY <1>1, <1>2 DEF PreviewOK

\* What clearing the list does.
LEMMA ClearKeeps ==
  ASSUME StageAssumption, StageInv, ViewMoves, clearVisualizations
  PROVE  ListInv' /\ CameraInv' /\ FocusOnStage'
<1>1. Shown(<<>>) /\ real' = <<>>
  BY DEF clearVisualizations
<1>2. <<>> \in Seq(EntryType) /\ <<>> \in Seq(Specs)
  OBVIOUS
<1>3. view.mode \in Modes
  BY DEF StageInv, MapInv, MapTypeOK
<1>4. CameraInv' /\ FocusOnStage'
  BY <1>1, <1>2, <1>3, ShownKeeps DEF StageInv, ListInv
<1>5. entries' = <<>>
  BY <1>1 DEF Shown
<1> QED
  BY <1>1, <1>2, <1>4, <1>5, EmptyOK DEF ListInv, ListTypeOK, PreviewInv

\* An entrance that has played changes nothing but the entry's lifecycle.
LEMMA SettleKeeps ==
  ASSUME StageInv, NEW i \in DOMAIN entries, settleVisualization(i)
  PROVE  ListInv' /\ CameraInv' /\ FocusOnStage'
<1> DEFINE es == Settled(entries, i)
<1>1. /\ entries' = es
      /\ UNCHANGED <<view, stage, real, canvas, globes, dying, owner, holders,
                     focus>>
  BY DEF settleVisualization
<1>2. /\ entries \in Seq(EntryType) /\ real \in Seq(Specs)
      /\ Len(entries) \in Nat /\ DOMAIN entries = 1..Len(entries)
  BY LenProperties DEF StageInv, ListInv, ListTypeOK
<1>3. \A j \in 1..Len(entries) :
        /\ es[j] \in EntryType
        /\ es[j].id = entries[j].id /\ es[j].spec = entries[j].spec
        /\ es[j].preview = entries[j].preview
  <2> TAKE j \in 1..Len(entries)
  <2>1. entries[j] \in EntryType
    BY <1>2, ElementOfSeq
  <2>2. es[j] = IF i = j THEN [entries[j] EXCEPT !.lifecycle = "active"]
                ELSE entries[j]
    BY <1>2 DEF Settled
  <2> HIDE DEF es
  <2> QED
    BY <2>1, <2>2 DEF EntryType
<1>4. DOMAIN es = 1..Len(entries) /\ es = [j \in 1..Len(entries) |-> es[j]]
  BY <1>2 DEF Settled
<1> HIDE DEF es
<1>5. es \in Seq(EntryType) /\ Len(es) = Len(entries)
  BY <1>2, <1>3, <1>4
<1>6. Solid(es) = Solid(entries)
  BY <1>2, <1>3, <1>5 DEF Solid
<1>7. \A j \in 1..Solid(entries) : j \in 1..Len(entries)
  BY <1>2 DEF Solid
<1>8. PreviewOK(es, real)
  <2>1. PreviewOK(entries, real)
    BY DEF StageInv, ListInv, PreviewInv
  <2> QED
    BY <1>3, <1>5, <1>6, <1>7, <2>1 DEF PreviewOK
<1>9. ListInv'
  BY <1>1, <1>2, <1>5, <1>8 DEF ListInv, ListTypeOK, PreviewInv
<1>10. Here(es) = Here(entries)
  <2>1. \A g \in Here(es) : g \in Here(entries)
    <3> TAKE g \in Here(es)
    <3>1. PICK x \in Range(es) : /\ x.spec.type # "map" /\ x.spec.type = "globe"
                                 /\ g = <<x.id, canvas.nr>>
      BY DEF Here, sceneEntries
    <3>2. PICK j \in 1..Len(entries) : x = es[j]
      BY <1>4 DEF Range
    <3>3. entries[j] \in Range(entries)
      BY <1>2 DEF Range
    <3> QED
      BY <1>3, <3>1, <3>2, <3>3 DEF Here, sceneEntries
  <2>2. \A g \in Here(entries) : g \in Here(es)
    <3> TAKE g \in Here(entries)
    <3>1. PICK x \in Range(entries) :
            /\ x.spec.type # "map" /\ x.spec.type = "globe"
            /\ g = <<x.id, canvas.nr>>
      BY DEF Here, sceneEntries
    <3>2. PICK j \in 1..Len(entries) : x = entries[j]
      BY <1>2 DEF Range
    <3>3. es[j] \in Range(es)
      BY <1>4 DEF Range
    <3> QED
      BY <1>3, <3>1, <3>2, <3>3 DEF Here, sceneEntries
  <2> QED
    BY <2>1, <2>2
<1>11. CameraInv'
  <2>1. Here(entries)' = Here(es)
    BY <1>1 DEF Here, sceneEntries
  <2>2. CameraBackOutside'
    BY <1>1 DEF StageInv, CameraInv, CameraBackOutside
  <2>3. /\ globes' \in [Live -> Distances]
        /\ canvas' \in [nr : Nat, state : {"up", "lost", "creating"}]
    BY <1>1 DEF StageInv, CameraInv, StageTypeOK
  <2> QED
    BY <1>1, <1>10, <2>1, <2>2, <2>3, CameraMoves DEF StageInv
<1>12. FocusOnStage'
  <2> SUFFICES ASSUME canvas'.state = "up", focus' # None
               PROVE  \E f \in Range(es) : f.spec.type = focus'.owner
    BY <1>1 DEF FocusOnStage, None, makeFocus
  <2>1. PICK x \in Range(entries) : x.spec.type = focus.owner
    BY <1>1 DEF StageInv, FocusOnStage
  <2>2. PICK j \in 1..Len(entries) : x = entries[j]
    BY <1>2, <2>1 DEF Range
  <2>3. es[j] \in Range(es)
    BY <1>4 DEF Range
  <2> QED
    BY <1>1, <1>3, <2>1, <2>2, <2>3
<1> QED
  BY <1>9, <1>11, <1>12

\* The list and the canvas stay, and at most the selection is dropped.
LEMMA ListStays ==
  ASSUME StageInv, UNCHANGED <<entries, real>>
  PROVE  /\ ListInv'
         /\ canvas' = canvas /\ focus' \in {focus, None} => FocusOnStage'
<1>1. ListInv'
  BY DEF StageInv, ListInv, ListTypeOK, PreviewInv
<1>2. ASSUME canvas' = canvas, focus' \in {focus, None} PROVE FocusOnStage'
  <2>1. CASE focus' = focus
    BY <1>2, <2>1 DEF StageInv, FocusOnStage, None, makeFocus
  <2>2. CASE focus' = None
    BY <2>2 DEF FocusOnStage, None, makeFocus
  <2> QED
    BY <1>2, <2>1, <2>2
<1> QED
  BY <1>1, <1>2

\* One globe of this canvas wants another distance, and it is no dive.
LEMMA OneGlobeMoves ==
  ASSUME StageInv, NEW g \in Live, NEW d \in {"near", "far"},
         globes' = [globes EXCEPT ![g] = d],
         UNCHANGED <<entries, canvas, dying, owner, holders>>,
         view'.mode \in {"leaving", "globe"} => view.mode \in {"leaving", "globe"}
  PROVE  CameraInv'
<1>1. globes \in [Live -> Distances]
  BY DEF StageInv, CameraInv, StageTypeOK
<1>2. globes' \in [Live -> Distances]
  BY <1>1 DEF Distances
<1>3. Here(entries)' = Here(entries)
  BY DEF Here, sceneEntries
<1>4. CameraBackOutside'
  <2> SUFFICES ASSUME view'.mode \in {"leaving", "globe"}, NEW h \in Live
               PROVE  globes'[h] # "dive"
    BY <1>2 DEF CameraBackOutside
  <2>1. globes'[h] = IF h = g THEN d ELSE globes[h]
    BY <1>1
  <2>2. globes[h] # "dive"
    BY DEF StageInv, CameraInv, CameraBackOutside, Live
  <2> QED
    BY <2>1, <2>2
<1>5. canvas' \in [nr : Nat, state : {"up", "lost", "creating"}]
  BY DEF StageInv, CameraInv, StageTypeOK
<1> QED
  BY <1>2, <1>3, <1>4, <1>5, CameraMoves DEF StageInv

\* A marker that is clicked is one of a globe in the list.
LEMMA LiveIsListed ==
  ASSUME StageInv, NEW g \in Live
  PROVE  \E e \in Range(entries) : e.spec.type = "globe"
<1>1. g \in Here(entries)
  BY DEF StageInv, CameraInv, CanvasInv
<1> QED
  BY <1>1 DEF Here, sceneEntries

\* What the operator does.
LEMMA OperatorKeeps ==
  ASSUME StageInv, ViewMoves, Operator
  PROVE  ListInv' /\ CameraInv' /\ FocusOnStage'
<1>0. view.mode \in Modes
  BY DEF StageInv, MapInv, MapTypeOK
<1>1. ASSUME NEW g \in Live, ZoomIn(g)
      PROVE  ListInv' /\ CameraInv' /\ FocusOnStage'
  <2>1. view'.mode \in {"leaving", "globe"} => view.mode \in {"leaving", "globe"}
    <3>1. CASE UNCHANGED mapVars
      BY <3>1 DEF mapVars
    <3>2. CASE PushPastLimit
      BY <3>2 DEF PushPastLimit, OpenMap, openMapState
    <3> QED
      BY <1>1, <3>1, <3>2 DEF ZoomIn
  <2>2. CameraInv'
    BY <1>1, <2>1, OneGlobeMoves DEF ZoomIn
  <2> QED
    BY <1>1, <2>2, ListStays DEF ZoomIn
<1>2. ASSUME NEW g \in Live, ZoomOut(g)
      PROVE  ListInv' /\ CameraInv' /\ FocusOnStage'
  <2>1. CameraInv'
    BY <1>2, OneGlobeMoves DEF ZoomOut
  <2> QED
    BY <1>2, <2>1, ListStays DEF ZoomOut
<1>3. ASSUME NEW g \in Live, reset(g)
      PROVE  ListInv' /\ CameraInv' /\ FocusOnStage'
  <2>1. CameraInv'
    BY <1>3, OneGlobeMoves DEF reset, focusOn
  <2> QED
    BY <1>3, <2>1, ListStays DEF reset
<1>4. ASSUME NEW g \in Live, NEW k \in Elements, FocusMarker(g, k)
      PROVE  ListInv' /\ CameraInv' /\ FocusOnStage'
  <2>1. CameraInv'
    BY <1>4, OneGlobeMoves DEF FocusMarker, focusOn
  <2>2. FocusOnStage'
    BY <1>4, LiveIsListed DEF FocusMarker, FocusOnStage, makeFocus
  <2> QED
    BY <1>4, <2>1, <2>2, ListStays DEF FocusMarker
<1>5. ASSUME UNCHANGED <<view, stage, entries, real, canvas, globes, dying,
                         owner, holders>>
      PROVE  CameraInv' /\ ListInv'
  <2>1. Here(entries)' = Here(entries)
    BY <1>5 DEF Here, sceneEntries
  <2>2. CameraBackOutside'
    BY <1>5 DEF StageInv, CameraInv, CameraBackOutside
  <2>3. /\ globes' \in [Live -> Distances]
        /\ canvas' \in [nr : Nat, state : {"up", "lost", "creating"}]
    BY <1>5 DEF StageInv, CameraInv, StageTypeOK
  <2> QED
    BY <1>5, <2>1, <2>2, <2>3, CameraMoves, ListStays DEF StageInv
<1>6. ASSUME NEW s \in Specs, NEW k \in Elements, Pick(s.type, k)
      PROVE  ListInv' /\ CameraInv' /\ FocusOnStage'
  <2>1. focus' = None \/ focus' = makeFocus(s.type, k)
    BY <1>6 DEF Pick, toggleFocus
  <2>2. \E e \in Range(entries) : e.spec.type = s.type
    BY <1>6 DEF Pick, sceneEntries
  <2>3. FocusOnStage'
    BY <1>6, <2>1, <2>2 DEF Pick, FocusOnStage, None, makeFocus
  <2> QED
    BY <1>5, <1>6, <2>3 DEF Pick
<1>7. ASSUME NEW type, release(type) PROVE focus' \in {focus, None}
  BY <1>7 DEF release, releaseFocus
<1>8. ASSUME NEW s \in Specs, PointerMissed(s.type)
      PROVE  ListInv' /\ CameraInv' /\ FocusOnStage'
  <2>1. focus' \in {focus, None}
    BY <1>7, <1>8 DEF PointerMissed
  <2> QED
    BY <1>5, <1>8, <2>1, ListStays DEF PointerMissed
<1>9. CASE Escape
  <2>1. focus' \in {focus, None}
    BY <1>7, <1>9 DEF Escape
  <2>2. CameraInv'
    BY <1>0, <1>9, StillMounted DEF Escape, StageInv
  <2> QED
    BY <1>9, <2>1, <2>2, ListStays DEF Escape
<1> QED
  BY <1>1, <1>2, <1>3, <1>4, <1>6, <1>8, <1>9 DEF Operator

\* What the canvas does: frames, its loss, its replacement.
LEMMA CanvasKeeps ==
  ASSUME StageInv, ViewMoves, Canvas
  PROVE  ListInv' /\ CameraInv' /\ FocusOnStage'
<1>0. /\ view.mode \in Modes
      /\ canvas \in [nr : Nat, state : {"up", "lost", "creating"}]
      /\ globes \in [Live -> Distances]
      /\ IsFiniteSet(Live) /\ IsFiniteSet(dying) /\ holders \in Nat
  BY DEF StageInv, MapInv, MapTypeOK, CameraInv, StageTypeOK
<1>1. CASE ContextLost
  <2>1. /\ canvas' \in [nr : Nat, state : {"up", "lost", "creating"}]
        /\ canvas'.nr = canvas.nr /\ canvas'.state = "lost"
        /\ canvas.state = "up"
    BY <1>0, <1>1 DEF ContextLost
  <2>2. Here(entries)' = Here(entries)
    BY <1>1, <2>1 DEF ContextLost, Here, sceneEntries
  <2>3. CameraBackOutside'
    BY <1>1 DEF ContextLost, StageInv, CameraInv, CameraBackOutside
  <2>4. CameraInv'
    BY <1>0, <1>1, <2>1, <2>2, <2>3, CameraMoves DEF ContextLost, StageInv
  <2>5. FocusOnStage'
    BY <2>1 DEF FocusOnStage
  <2> QED
    BY <1>1, <2>4, <2>5, ListStays DEF ContextLost
<1>2. CASE Remount
  <2>1. /\ canvas' = [nr |-> canvas.nr + 1, state |-> "creating"]
        /\ globes' = <<>> /\ dying' = dying \cup Live
        /\ UNCHANGED <<view, stage, entries, real, owner, holders, focus>>
    BY <1>2 DEF Remount
  <2>2. Live' = {}
    BY <2>1 DEF Live
  <2>3. IsFiniteSet(dying') /\ IsFiniteSet(Live')
    BY <1>0, <2>1, <2>2, FS_Union, FS_EmptySet
  <2>4. canvas'.nr = canvas.nr + 1 /\ canvas'.state = "creating"
    BY <2>1
  <2>5. StageTypeOK'
    <3>1. globes' \in [Live' -> Distances]
      BY <2>1, <2>2
    <3>2. canvas' \in [nr : Nat, state : {"up", "lost", "creating"}]
      BY <1>0, <2>1
    <3> QED
      BY <1>0, <2>1, <2>3, <3>1, <3>2 DEF StageTypeOK
  <2>6. CanvasInv'
    <3>1. ASSUME NEW g \in dying' PROVE g[2] \in 0..(canvas.nr + 1 - 1)
      <4>1. CASE g \in dying
        <5>1. g[2] \in 0..(canvas.nr - 1)
          BY <4>1 DEF StageInv, CameraInv, CanvasInv
        <5>2. canvas.nr \in Nat
          BY <1>0
        <5> QED
          BY <5>1, <5>2
      <4>2. CASE g \in Live
        <5>1. g[2] = canvas.nr
          BY <4>2 DEF StageInv, CameraInv, CanvasInv
        <5>2. canvas.nr \in Nat
          BY <1>0
        <5> QED
          BY <5>1, <5>2
      <4> QED
        BY <2>1, <4>1, <4>2
    <3>2. canvas.nr \in Nat
      BY <1>0
    <3>3. \A g \in dying' : g[2] \in 0..(canvas'.nr - 1)
      BY <2>4, <3>1, <3>2
    <3>4. (\A g \in Live : g[2] = canvas.nr)'
      BY <2>2
    <3> QED
      BY <2>2, <2>4, <3>3, <3>4 DEF CanvasInv
  <2>7. (Live \cup dying)' = Live \cup dying
    BY <2>1, <2>2
  <2>8. GlobeOwnsCamera'
    BY <2>1, <2>7 DEF StageInv, CameraInv, GlobeOwnsCamera, RigDrives, NoOwner
  <2>9. CameraBackOutside'
    BY <2>2 DEF CameraBackOutside, Live
  <2>10. FocusOnStage'
    BY <2>4 DEF FocusOnStage
  <2> QED
    BY <2>1, <2>5, <2>6, <2>8, <2>9, <2>10, ListStays DEF CameraInv
<1>3. CASE Created
  <2>1. /\ canvas.state = "creating" /\ focus' = None
        /\ canvas' = [canvas EXCEPT !.state = "up"]
        /\ UNCHANGED <<view, stage, entries, real>>
        /\ Remounted({}, Here(entries))
    BY <1>3 DEF Created
  <2>2. /\ canvas' \in [nr : Nat, state : {"up", "lost", "creating"}]
        /\ canvas'.nr = canvas.nr /\ canvas'.state = "up"
    BY <1>0, <2>1
  <2>3. Live = {}
    BY <2>1 DEF StageInv, CameraInv, CanvasInv
  <2>4. entries \in Seq(EntryType)
    BY DEF StageInv, ListInv, ListTypeOK
  <2>5. IsFiniteSet(Here(entries))
    BY <2>4, HereFinite
  <2>6. Here(entries) \cap (Live \cup dying) = {}
    <3> SUFFICES ASSUME NEW g \in Here(entries), g \in dying PROVE FALSE
      BY <2>3
    <3>1. g[2] = canvas.nr
      BY HereIsOfCanvas
    <3>2. g[2] \in 0..(canvas.nr - 1)
      BY DEF StageInv, CameraInv, CanvasInv
    <3>3. canvas.nr \in Nat
      BY <1>0
    <3> QED
      BY <3>1, <3>2, <3>3
  <2>7. {} \in SUBSET (Live \cup dying)
    OBVIOUS
  <2>8. /\ Live' = (Live \ {}) \cup Here(entries) /\ dying' = dying \ {}
        /\ globes' \in [Live' -> Distances]
        /\ IsFiniteSet(Live') /\ IsFiniteSet(dying') /\ holders' \in Nat
        /\ GlobeOwnsCamera' /\ CameraBackOutside'
    BY <1>0, <2>1, <2>5, <2>6, <2>7, RemountedKeeps DEF StageInv, CameraInv
  <2>9. Live' = Here(entries) /\ dying' = dying
    BY <2>3, <2>8
  <2>10. Here(entries)' = Here(entries)
    BY <2>1, <2>2 DEF Here, sceneEntries
  <2>11. CanvasInv'
    <3>1. \A g \in Live' : g[2] = canvas.nr
      BY <2>9, HereIsOfCanvas
    <3>2. \A g \in dying' : g[2] \in 0..(canvas.nr - 1)
      BY <2>9 DEF StageInv, CameraInv, CanvasInv
    <3> QED
      BY <2>2, <2>9, <2>10, <3>1, <3>2 DEF CanvasInv
  <2>12. StageTypeOK'
    BY <2>2, <2>8 DEF StageTypeOK
  <2>13. FocusOnStage'
    BY <2>1 DEF FocusOnStage, None, makeFocus
  <2> QED
    BY <2>1, <2>8, <2>11, <2>12, <2>13, ListStays DEF CameraInv
<1>4. CASE Frame
  <2>1. /\ owner' \in IF owner = NoOwner THEN Live ELSE {owner}
        /\ globes' = IF view.mode = "entering" /\ owner' \in Live
                     THEN [globes EXCEPT ![owner'] = "dive"] ELSE globes
        /\ UNCHANGED <<view, stage, entries, real, canvas, dying, holders,
                       focus>>
    BY <1>4 DEF Frame
  <2>2. globes' \in [Live -> Distances]
    BY <1>0, <2>1 DEF Distances
  <2>3. CameraBackOutside'
    <3> SUFFICES ASSUME view.mode \in {"leaving", "globe"}, NEW g \in Live
                 PROVE  globes'[g] # "dive"
      BY <2>1, <2>2 DEF CameraBackOutside
    <3>1. globes' = globes
      BY <2>1
    <3> QED
      BY <3>1 DEF StageInv, CameraInv, CameraBackOutside, Live
  <2>4. Here(entries)' = Here(entries)
    BY <2>1 DEF Here, sceneEntries
  <2>5. owner' \in {owner} \cup Live
    BY <2>1
  <2>6. CameraInv'
    BY <1>0, <2>1, <2>2, <2>3, <2>4, <2>5, CameraMoves DEF StageInv
  <2> QED
    BY <2>1, <2>6, ListStays
<1>5. ASSUME NEW g \in dying, OldGlobeGone(g)
      PROVE  ListInv' /\ CameraInv' /\ FocusOnStage'
  <2>1. /\ UNCHANGED <<view, stage, entries, real, canvas, focus>>
        /\ Remounted({g}, {})
    BY <1>5 DEF OldGlobeGone
  <2>2. /\ IsFiniteSet({}) /\ {} \cap (Live \cup dying) = {}
        /\ {g} \in SUBSET (Live \cup dying)
    BY FS_EmptySet
  <2>3. /\ Live' = (Live \ {g}) \cup {} /\ dying' = dying \ {g}
        /\ globes' \in [Live' -> Distances]
        /\ IsFiniteSet(Live') /\ IsFiniteSet(dying') /\ holders' \in Nat
        /\ GlobeOwnsCamera' /\ CameraBackOutside'
    BY <1>0, <2>1, <2>2, RemountedKeeps DEF StageInv, CameraInv
  <2>4. g \notin Live
    <3> SUFFICES ASSUME g \in Live PROVE FALSE
      OBVIOUS
    <3>1. g[2] = canvas.nr /\ g[2] \in 0..(canvas.nr - 1)
      BY DEF StageInv, CameraInv, CanvasInv
    <3> QED
      BY <1>0, <3>1
  <2>5. Live' = Live
    BY <2>3, <2>4
  <2>6. Here(entries)' = Here(entries)
    BY <2>1 DEF Here, sceneEntries
  <2>7. CanvasInv'
    BY <2>1, <2>3, <2>5, <2>6 DEF StageInv, CameraInv, CanvasInv
  <2>8. StageTypeOK'
    BY <1>0, <2>1, <2>3 DEF StageTypeOK
  <2> QED
    BY <2>1, <2>3, <2>7, <2>8, ListStays DEF CameraInv
<1> QED
  BY <1>1, <1>2, <1>3, <1>4, <1>5 DEF Canvas

\* Every step keeps the invariant of the stage.
LEMMA StageStep ==
  ASSUME StageAssumption, StageInv, [Next]_vars
  PROVE  StageInv'
<1>1. MapInv' /\ ViewMoves
  BY StageStepMap DEF StageInv
<1>2. CASE MapMoves
  <2>1. Remounted({}, {}) /\ UNCHANGED <<entries, real, canvas, focus>>
    BY <1>2 DEF MapMoves, StageUnchanged
  <2>2. view.mode \in Modes
    BY DEF StageInv, MapInv, MapTypeOK
  <2>3. CameraInv'
    BY <1>1, <2>1, <2>2, StillMounted DEF StageInv
  <2>4. ListInv' /\ FocusOnStage'
    BY <2>1, ListStays
  <2> QED
    BY <1>1, <2>3, <2>4 DEF StageInv
<1>3. CASE Viz
  <2>1. ListInv' /\ CameraInv' /\ FocusOnStage'
    BY <1>1, <1>3, AddKeeps, SetKeeps, ClearKeeps, SettleKeeps
       DEF Viz, VizRail, VizDeepLink
  <2> QED
    BY <1>1, <2>1 DEF StageInv
<1>4. CASE Operator
  BY <1>1, <1>4, OperatorKeeps DEF StageInv
<1>5. CASE Canvas
  BY <1>1, <1>5, CanvasKeeps DEF StageInv
<1>6. CASE UNCHANGED vars
  <2>1. UNCHANGED <<view, stage, entries, real, canvas, globes, dying, owner,
                    holders, focus>>
    BY <1>6 DEF vars
  <2>2. Here(entries)' = Here(entries)
    BY <2>1 DEF Here, sceneEntries
  <2>3. CameraBackOutside'
    BY <2>1 DEF StageInv, CameraInv, CameraBackOutside
  <2>4. /\ globes' \in [Live -> Distances]
        /\ canvas' \in [nr : Nat, state : {"up", "lost", "creating"}]
    BY <2>1 DEF StageInv, CameraInv, StageTypeOK
  <2>5. CameraInv'
    BY <2>1, <2>2, <2>3, <2>4, CameraMoves DEF StageInv
  <2>6. ListInv' /\ FocusOnStage'
    BY <2>1, ListStays
  <2> QED
    BY <1>1, <2>5, <2>6 DEF StageInv
<1> QED
  BY <1>2, <1>3, <1>4, <1>5, <1>6 DEF Next

\* The initial state satisfies it.
LEMMA StageInitInv ==
  ASSUME StageAssumption, Init
  PROVE  StageInv
<1>1. MapInv
  BY MapInitInv DEF Init
<1>2. /\ entries = <<>> /\ real = <<>>
      /\ canvas = [nr |-> 0, state |-> "creating"]
      /\ globes = <<>> /\ dying = {} /\ owner = NoOwner /\ holders = 0
  BY DEF Init
<1>3. ListInv
  <2>1. <<>> \in Seq(EntryType) /\ <<>> \in Seq(Specs)
    OBVIOUS
  <2> QED
    BY <1>2, <2>1, EmptyOK DEF ListInv, ListTypeOK, PreviewInv
<1>4. Live = {}
  BY <1>2 DEF Live
<1>5. CameraInv
  <2>1. StageTypeOK
    BY <1>2, <1>4, FS_EmptySet DEF StageTypeOK
  <2>2. CanvasInv
    BY <1>2, <1>4 DEF CanvasInv
  <2>3. GlobeOwnsCamera
    BY <1>2, <1>4, FS_EmptySet DEF GlobeOwnsCamera, RigDrives
  <2>4. CameraBackOutside
    BY <1>4 DEF CameraBackOutside, Live
  <2> QED
    BY <2>1, <2>2, <2>3, <2>4 DEF CameraInv
<1>6. FocusOnStage
  BY <1>2 DEF FocusOnStage
<1> QED
  BY <1>1, <1>3, <1>5, <1>6 DEF StageInv

\* What holds in every reachable state of the stage.
THEOREM StageHolds == Spec => []StageInv
<1>1. Init => StageInv
  BY StageAssumption, StageInitInv
<1>2. StageInv /\ [Next]_vars => StageInv'
  BY StageAssumption, StageStep
<1> QED
  BY <1>1, <1>2, PTL DEF Spec

\* Over the stage too, a settled map has loaded and on an open, loaded one the
\* request accepted last is applied, whether the agent, the operator's zoom or a
\* map spec asked for it (MapLayer.tsx:138, store.ts:229).
THEOREM StageAppliesRequest == Spec => []LatestRequestApplied
<1>1. StageInv => LatestRequestApplied
  BY DEF StageInv, MapInv
<1> QED
  BY <1>1, StageHolds, PTL

\* The globes mounted are counted right and one of them, or nobody, owns the
\* camera, through any losses of the graphics context and with any number of
\* globes (useGlobeInteraction.ts:41, store.ts:162).
THEOREM GlobeOwnsCameraHolds == Spec => []GlobeOwnsCamera
<1>1. StageInv => GlobeOwnsCamera
  BY DEF StageInv, CameraInv
<1> QED
  BY <1>1, StageHolds, PTL

\* Whenever the map has handed back, no globe keeps the camera inside its
\* limit (useGlobeInteraction.ts:181, :310).
THEOREM CameraBackOutsideHolds == Spec => []CameraBackOutside
<1>1. StageInv => CameraBackOutside
  BY DEF StageInv, CameraInv
<1> QED
  BY <1>1, StageHolds, PTL

\* A preview costs the list at most the one place it is shown in, for a list
\* of any length (store.ts:226).
THEOREM PreviewCostsNoSlotHolds == Spec => []PreviewCostsNoSlot
<1>1. StageInv => PreviewCostsNoSlot
  BY PreviewImplies DEF StageInv, ListInv
<1> QED
  BY <1>1, StageHolds, PTL

\* What is selected belongs to a hologram of the list
\* (FridayVisualization.tsx:141).
THEOREM FocusOnStageHolds == Spec => []FocusOnStage
<1>1. StageInv => FocusOnStage
  BY DEF StageInv
<1> QED
  BY <1>1, StageHolds, PTL

==============================================================================
