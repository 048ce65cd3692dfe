--------------------------- MODULE MCEventStream ---------------------------
\* Bodies and data for EventStream: every body is rendered from the events the
\* orchestrator means, with one newline throughout, as the server writes it.
EXTENDS EventStream, TLC

\* A flat payload that has what the given event types need.
Flat(types) == [Empty EXCEPT !.fields = types]

\* The same in an envelope.
Wrapped(version, event, types) ==
  [Empty EXCEPT !.version = version, !.event = event,
                !.payload = <<Flat(types)>>]

JsonValues ==
  (<<"{}">> :> Empty) @@ (<<"state">> :> Flat({"state"}))
    @@ (<<"spec">> :> Flat({"viz", "preview"}))
    @@ (<<"spec, upper half", "lower half">> :> Flat({"viz", "preview"}))
    @@ (<<"enveloped spec">> :> Wrapped("1", "viz", {"viz", "preview"}))
    @@ (<<"version 2">> :> Wrapped("2", "viz", {"viz", "preview"}))
    @@ (<<"list">> :> [Empty EXCEPT !.json = "other"])

Means(type, types) == <<[type |-> type, fields |-> types]>>

\* What is written for one event, and the event it means.
Written(event, data, meant) ==
  [lines |-> <<Token("event", event)>>
               \o [i \in DOMAIN data |-> Token("data", data[i])],
   meant |-> meant]

Viz == Means("viz", {"viz", "preview"})
State == Written("state", <<"state">>, Means("state", {"state"}))
Plain == Written("viz", <<"spec">>, Viz)
TwoLines == Written("preview", <<"spec, upper half", "lower half">>,
                    Means("preview", {"viz", "preview"}))
Enveloped == Written("viz", <<"enveloped spec">>, Viz)
Newer == Written("viz", <<"version 2">>, Means("protocol", {}))
Mismatch == Written("tool", <<"enveloped spec">>, Means("protocol", {}))
Odd == Written("state", <<"list">>, <<>>)
Broken == Written("answer", <<"{ half">>, Means("error", {}))
Answer == Written("answer", <<"{}">>, Means("answer", {}))
Done == Written("done", <<"{}">>, Means("done", {}))
Ping == [lines |-> <<Token("comment", "ping")>>, meant |-> <<>>]

\* `whole': the last frame is followed by its blank line.
Body(frames, nl, whole) ==
  LET Line(token) == <<token>> \o nl
      Frame(f) == FlattenSeq([i \in DOMAIN f.lines |-> Line(f.lines[i])]) \o nl
      text == FlattenSeq([i \in DOMAIN frames |-> Frame(frames[i])])
  IN  [tokens |-> IF whole THEN text
                  ELSE SubSeq(text, 1, Len(text) - 2 * Len(nl)),
       meant |-> FlattenSeq([i \in DOMAIN frames |-> frames[i].meant])]

Bodies ==
  {Body(frames, nl, whole) :
     frames \in {<<State, TwoLines, Answer>>, <<Ping, Plain, Done>>,
                 <<Ping, Newer, Enveloped, Done>>, <<Odd, Broken, Mismatch>>},
     nl \in {<<LF>>, <<CR, LF>>}, whole \in BOOLEAN}

NoData == [metrics |-> <<>>, nodes |-> <<>>, links |-> <<>>, points |-> <<>>,
           routes |-> <<>>, series |-> <<>>, events |-> <<>>, map |-> <<>>]

Plainly(data) ==
  [data |-> data, scale |-> <<>>, position |-> <<>>,
   theme |-> [color |-> "hex", accent |-> "none"]]

Graphs == [nodes : {<<>>, <<<<"a">>>>, <<<<>>, <<"a">>>>, <<<<"a">>, <<>>, <<"b">>>>},
           links : SeqOf({<<0, 1>>, <<1, 2>>, <<2, 0>>, <<1>>}, 2)]

At(lat, lon, id, label) == [lat |-> lat, lon |-> lon, id |-> id, label |-> label]

Points == {At(<<0>>, <<0>>, <<>>, <<"hanoi">>), At(<<0>>, <<0>>, <<>>, <<>>),
           At(<<0>>, <<0>>, <<"p">>, <<>>)}

Refs == {<<>>, <<"", 0>>, <<"", 1>>, <<"p">>, <<"hanoi">>, <<"point", 0>>}

Labels == {<<>>, <<"A">>, <<"A", 2>>, <<"SERIES", 1>>}

Here == <<[lat |-> <<21>>, lon |-> <<106>>]>>
Beyond == <<[lat |-> <<91>>, lon |-> <<106>>]>>

NoView == [center |-> <<>>, zoom |-> <<>>, bbox |-> <<>>, route |-> <<>>]

Ride(stops, depart, arrive) ==
  [waypoints |-> stops, profile |-> "hovercraft", depart |-> depart,
   arrive |-> arrive, avoid |-> <<"tolls", "rain", "tolls">>]

Views ==
  {[NoView EXCEPT !.center = c, !.zoom = z] :
     c \in {<<>>, Here, Beyond}, z \in {<<>>, <<20>>, <<21>>}}
  \union {[NoView EXCEPT !.bbox = <<<<170>>, <<s>>, <<w>>, <<10>>>>] :
            s \in {9, 10}, w \in {-170, 181}}
  \union {[NoView EXCEPT !.route = <<Ride(stops, d, a)>>] :
            stops \in SeqOf({<<>>, Here, Beyond}, 3),
            d \in {"none", "naive", "offset"}, a \in {"none", "offset"}}

Specs ==
  {Plainly([NoData EXCEPT !.nodes = g.nodes, !.links = g.links]) : g \in Graphs}
  \union {Plainly([NoData EXCEPT !.points = p, !.routes = <<r>>]) :
            p \in SeqOf(Points, 2), r \in [from : Refs, to : Refs]}
  \union {Plainly([NoData EXCEPT !.points = <<At(lat, lon, <<"p">>, <<>>)>>]) :
            lat \in {<<>>, <<-91>>, <<21>>},
            lon \in {<<>>, <<-600>>, <<-540>>, <<-181>>, <<180>>, <<900>>}}
  \union {Plainly([NoData EXCEPT !.series = s]) :
            s \in SeqOf([label : Labels, points : BOOLEAN], 3)}
  \union {Plainly([NoData EXCEPT !.events = e]) :
            e \in SeqOf([label : {<<>>, <<"e">>, <<"f">>}, at : {-20, 30, 120}], 2)}
  \union {Plainly([NoData EXCEPT !.metrics = m]) :
            m \in SeqOf([label : {<<>>, <<"cpu">>},
                         value : {<<>>, <<-1>>, <<101>>}], 2)}
  \union {Plainly([NoData EXCEPT !.map = <<v>>]) : v \in Views}
  \union {[Plainly(NoData) EXCEPT !.scale = s, !.position = p,
                                  !.theme = [color |-> c, accent |-> "hex"]] :
            s \in {<<>>, <<24>>, <<401>>}, c \in {"none", "red"},
            p \in {<<>>, <<<<0>>, <<1>>>>, <<<<0>>, <<>>, <<2>>>>,
                   <<<<0>>, <<1>>, <<2>>>>}}
=============================================================================
