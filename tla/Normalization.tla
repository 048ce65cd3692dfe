--------------------------- MODULE Normalization ---------------------------
(***************************************************************************)
(* lib/visualization/normalization.ts: what becomes of the data of a       *)
(* visualization that arrived from the orchestrator, for the fields whose  *)
(* entries refer to each other: nodes and the links that index into them,  *)
(* the points of a globe and the routes that name them (globe/geo.ts       *)
(* resolves those when they are drawn), series and the labels that key     *)
(* them, events in their order, the route of a map.                        *)
(*                                                                         *)
(* A label is a sequence: a name, and the numbers appended to it with      *)
(* dashes, so <<"A", 2>> is "A-2".  <<>> is a label, an id or an entry of  *)
(* the wrong shape, and <<"", n>> refers to a point by its index.  Names   *)
(* differ in more than case.  A number is <<n>>, and <<>> is what is none  *)
(* or not finite; a scale and a position on the rail are in hundredths.    *)
(*                                                                         *)
(* Left out: units, colours of single points, animation and interaction,   *)
(* status, rate and the values of points and routes, each repaired alone.  *)
(***************************************************************************)
EXTENDS Integers, Sequences, SequencesExt, FiniteSetsExt, TLC

\* A list, of whatever.
IsList(seq) == Len(seq) \in Nat /\ seq = [i \in 1..Len(seq) |-> seq[i]]

Numbers == {n \in Seq(Int) : Len(n) <= 1}

\* Where a place is, if it has the shape of one.
Places == {p \in Seq([lat : Numbers, lon : Numbers]) : Len(p) <= 1}

\* What stands for the JSON of a visualization here.
IsSpec(spec) ==
  LET data == spec.data
      IsView(v) ==
        /\ v = [center |-> v.center, zoom |-> v.zoom, bbox |-> v.bbox,
                route |-> v.route]
        /\ v.center \in Places /\ v.zoom \in Numbers /\ v.bbox \in Seq(Numbers)
        /\ IsList(v.route)
        /\ \A r \in ToSet(v.route) :
             r.waypoints \in Seq(Places) /\ IsList(r.avoid)
  IN  /\ spec.scale \in Numbers /\ spec.position \in Seq(Numbers)
      /\ IsList(data.metrics) /\ IsList(data.nodes) /\ IsList(data.points)
      /\ IsList(data.routes) /\ IsList(data.series) /\ IsList(data.events)
      /\ IsList(data.map) /\ data.links \in Seq(Seq(Int))
      /\ \A m \in ToSet(data.metrics) :
           m = [label |-> m.label, value |-> m.value] /\ m.value \in Numbers
      /\ \A p \in ToSet(data.points) :
           /\ p = [lat |-> p.lat, lon |-> p.lon, id |-> p.id, label |-> p.label]
           /\ {p.lat, p.lon} \subseteq Numbers
      /\ \A s \in ToSet(data.series) :
           /\ s = [label |-> s.label, points |-> s.points]
           /\ IsList(s.label) /\ s.points \in BOOLEAN
      /\ \A e \in ToSet(data.events) :
           e = [label |-> e.label, at |-> e.at] /\ e.at \in Int
      /\ \A v \in ToSet(data.map) : IsView(v)

\* The members of S as Precedes orders them: SetToSortSeq, by rank.
InOrder(S, Precedes(_, _)) ==
  [r \in 1..Cardinality(S) |->
     CHOOSE x \in S : Cardinality({y \in S : Precedes(y, x)}) = r - 1]

\* The entries at the positions in K, in their order.
Picked(seq, K) ==
  LET at == InOrder(K, LAMBDA i, j : i < j)
  IN  [r \in DOMAIN at |-> seq[at[r]]]

\* The entries that pass the test: SelectSeq, by rank.
Where(seq, Test(_)) == Picked(seq, {i \in DOMAIN seq : Test(seq[i])})

sanitizeLabel(label, fallback) == IF label = <<>> THEN fallback ELSE label

Clamped(number, low, high, fallback) ==
  IF number = <<>> THEN fallback ELSE <<Max({low, Min({high, number[1]})})>>

sanitizeScale(scale) == Clamped(scale, 25, 400, <<100>>)

\* Renderers take a hex colour only.
sanitizeColor(color) == IF color = "hex" THEN color ELSE "none"

sanitizeTheme(theme) == [part \in DOMAIN theme |-> sanitizeColor(theme[part])]

\* Three finite numbers, or the stage is laid out without it.
sanitizePosition(position) ==
  IF Len(position) = 3 /\ <<>> \notin ToSet(position) THEN position ELSE <<>>

\* A metric needs a label; a gauge runs from 0 to 100.
sanitizeMetrics(metrics) ==
  LET kept == Where(metrics, LAMBDA m : m.label # <<>>)
  IN  [i \in DOMAIN kept |->
         [kept[i] EXCEPT !.value = Clamped(@, 0, 100, <<0>>)]]

\* Slip: a node without an id is dropped.
sanitizeNodesSlip(nodes) == Where(nodes, LAMBDA n : n # <<>>)

\* Length is preserved with fallback ids, because links index into it.
sanitizeNodes(nodes) ==
  [i \in DOMAIN nodes |-> sanitizeLabel(nodes[i], <<"node", i - 1>>)]

\* Pairs of indices into the nodes; the others are dropped.
sanitizeLinks(links, nodes) ==
  LET InRange(pair) ==
        Len(pair) >= 2 /\ \A i \in 1..2 : pair[i] \in 0..Len(nodes) - 1
  IN  Where(links, InRange)

\* The remainder takes the sign of the number.
Rem(number, by) == IF number >= 0 THEN number % by ELSE -((-number) % by)

\* Around the globe into -180..179.
sanitizeLon(lon) == IF lon = <<>> THEN <<0>> ELSE <<Rem(lon[1] + 540, 360) - 180>>

\* A point is known by its id, by its label without one, or by its place in
\* the list; none is dropped.
sanitizePoints(points) ==
  [i \in DOMAIN points |->
     [points[i] EXCEPT
        !.lat = Clamped(@, -90, 90, <<0>>),
        !.lon = sanitizeLon(@),
        !.id = sanitizeLabel(@, sanitizeLabel(points[i].label,
                                              <<"point", i - 1>>))]]

\* Only the shape of a route is looked at here.
sanitizeRoutes(routes) ==
  Where(routes, LAMBDA r : r.from # <<>> /\ r.to # <<>>)

\* The position of the point an end refers to: by index, by id, by label; 0
\* for none.
resolveEndpoint(points, ref) ==
  LET Having(field) == {i \in DOMAIN points : points[i][field] = ref}
  IN  CASE ref[1] = "" ->
             IF ref[2] + 1 \in DOMAIN points THEN ref[2] + 1 ELSE 0
        [] ref[1] # "" /\ Having("id") # {} -> Min(Having("id"))
        [] OTHER -> Min(Having("label") \cup {Len(points) + 1})
                      % (Len(points) + 1)

\* What a route joins; one that does not join two points is not drawn.
resolveGlobeRoute(points, route) ==
  LET a == resolveEndpoint(points, route.from)
      b == resolveEndpoint(points, route.to)
  IN  IF 0 \in {a, b} \/ a = b THEN <<>> ELSE <<a, b>>

\* The routes drawn: of the first ROUTE_MAX, those that join two points.
ROUTE_MAX == 24

resolved(points, routes) ==
  Where(SubSeq(routes, 1, Min({ROUTE_MAX, Len(routes)})),
        LAMBDA route : resolveGlobeRoute(points, route) # <<>>)

\* The points drawn: the operator's own location comes last, unless it is among
\* them.
withOperator(points, located) ==
  IF ~located \/ \E i \in DOMAIN points : points[i].id = <<"you">> THEN points
  ELSE Append(points, [id |-> <<"you">>, label |-> <<"YOU">>])

\* Slip: the number is not looked up.
FreshSlip(label, used) ==
  IF label \notin used THEN label ELSE Append(label, 2)

\* The label itself, or with the first number from 2 that makes it new.
Fresh(label, used) ==
  IF label \notin used THEN label
  ELSE Append(label,
              Min({n \in 2..Cardinality(used) + 2 :
                     Append(label, n) \notin used}))

uniqueLabels(labels) ==
  LET unique[i \in DOMAIN labels] ==
        Fresh(labels[i], {unique[j] : j \in 1..i - 1})
  IN  unique

\* A series without points is dropped; labels key what is drawn.
sanitizeSeries(series) ==
  LET numbered == [i \in DOMAIN series |->
                     [series[i] EXCEPT
                        !.label = sanitizeLabel(@, <<"SERIES", i - 1>>)]]
      kept == Where(numbered, LAMBDA s : s.points)
      labels == uniqueLabels([i \in DOMAIN kept |-> kept[i].label])
  IN  [i \in DOMAIN kept |-> [kept[i] EXCEPT !.label = labels[i]]]

\* An event needs a label; positions are clamped, then sorted (stably).
sanitizeEvents(events) ==
  LET kept == Where(events, LAMBDA e : e.label # <<>>)
      clamped == [i \in DOMAIN kept |->
                    [kept[i] EXCEPT !.at = Max({0, Min({100, @})})]]
      Before(i, j) == \/ clamped[i].at < clamped[j].at
                      \/ clamped[i].at = clamped[j].at /\ i < j
      order == InOrder(DOMAIN clamped, Before)
  IN  [i \in DOMAIN order |-> clamped[order[i]]]

\* A time that carries its offset; any other would mean another instant on
\* each server.
sanitizeTime(time) == IF time = "offset" THEN time ELSE "none"

MAP_PROFILES == {"auto", "motor_scooter", "bicycle", "pedestrian"}
MAP_AVOID == {"tolls", "motorways", "ferries", "unpaved"}

finiteIn(number, low, high) == number # <<>> /\ number[1] \in low..high

\* A place on the globe, or none.
sanitizeLatLon(place) ==
  Where(place, LAMBDA p : finiteIn(p.lat, -90, 90)
                                /\ finiteIn(p.lon, -180, 180))

Once(seq) ==
  Picked(seq, {i \in DOMAIN seq : seq[i] \notin {seq[j] : j \in 1..i - 1}})

\* Two to five usable waypoints, else there is no route; a departure wins
\* over an arrival.
sanitizeRoute(route) ==
  LET places == [i \in DOMAIN route.waypoints |->
                   sanitizeLatLon(route.waypoints[i])]
      stops == Where(places, LAMBDA p : p # <<>>)
      depart == sanitizeTime(route.depart)
  IN  IF Len(stops) \notin 2..5 THEN <<>>
      ELSE <<[waypoints |-> stops,
              profile |-> IF route.profile \in MAP_PROFILES THEN route.profile
                          ELSE "motor_scooter",
              avoid |-> Once(Where(route.avoid, LAMBDA a : a \in MAP_AVOID)),
              depart |-> depart,
              arrive |-> IF depart # "none" THEN "none"
                         ELSE sanitizeTime(route.arrive)]>>

\* West, south, east, north; it may cross the date line, not the poles.
sanitizeBox(box) ==
  IF /\ Len(box) = 4
     /\ \A i \in {1, 3} : finiteIn(box[i], -180, 180)
     /\ \A i \in {2, 4} : finiteIn(box[i], -90, 90)
     /\ box[2][1] < box[4][1]
  THEN box ELSE <<>>

\* What the map can use; nothing at all if none of it can be used.
sanitizeMapView(map) ==
  IF map = <<>> THEN <<>>
  ELSE LET v == [center |-> sanitizeLatLon(map[1].center),
                 zoom |-> IF finiteIn(map[1].zoom, 0, 20) THEN map[1].zoom
                          ELSE <<>>,
                 bbox |-> sanitizeBox(map[1].bbox),
                 route |-> IF map[1].route = <<>> THEN <<>>
                           ELSE sanitizeRoute(map[1].route[1])]
       IN  IF \A part \in DOMAIN v : v[part] = <<>> THEN <<>> ELSE <<v>>

sanitizeData(data) ==
  LET nodes == sanitizeNodes(data.nodes)
  IN  [metrics |-> sanitizeMetrics(data.metrics),
       nodes |-> nodes,
       links |-> sanitizeLinks(data.links, nodes),
       points |-> sanitizePoints(data.points),
       routes |-> sanitizeRoutes(data.routes),
       series |-> sanitizeSeries(data.series),
       events |-> sanitizeEvents(data.events),
       map |-> sanitizeMapView(data.map)]

normalizeVisualization(spec) ==
  [data |-> sanitizeData(spec.data),
   scale |-> sanitizeScale(spec.scale),
   theme |-> sanitizeTheme(spec.theme),
   position |-> sanitizePosition(spec.position)]
=============================================================================
