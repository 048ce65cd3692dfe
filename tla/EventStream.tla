---------------------------- MODULE EventStream ----------------------------
(***************************************************************************)
(* How the page reads one answer of the orchestrator: the network cuts the *)
(* bytes of the body where it likes, lib/api/sse.ts puts frames together   *)
(* again, lib/api/fridayClient.ts takes each out of its envelope and has   *)
(* lib/agent/events.ts decode it, and a visualization is normalized before *)
(* it is stored (lib/agentStream.ts:188).                                  *)
(*                                                                         *)
(* The body is a sequence of tokens: CR, LF, and what stands on one line.  *)
(* A line that is cut in the middle is put together by appending to the    *)
(* buffer, like everything else, so tokens are not cut.  JSON is a         *)
(* constant: the value a data text parses to.                              *)
(*                                                                         *)
(* Left out: id: and retry: fields, which are parsed and read by nobody,   *)
(* spaces around a line, bytes of a character split between two chunks.    *)
(***************************************************************************)
EXTENDS Normalization, FiniteSets

CONSTANTS
  Streams,     \* bodies the orchestrator sends: [tokens, meant]
  Json,        \* the values that data texts (sequences of data lines) parse to
  VizSpecs,    \* visualizations a frame may carry
  MaxBuffer    \* MAX_BUFFER, in tokens

VARIABLES
  stream,   \* the body being read; its `meant' is for the specification only
  wire,     \* what of it has not arrived
  buffer,   \* the tail that is not yet a frame
  phase,    \* "reading", "splitting" the buffer, "closed"
  ended,    \* "" until the stream was broken off, aborted or cut down
  events,   \* what the turn was given: [type, data]
  shown     \* the last visualization, as sent and as stored

vars == <<stream, wire, buffer, phase, ended, events, shown>>

Token(field, value) == [field |-> field, value |-> value]
CR == Token("CR", "")
LF == Token("LF", "")

\* "\r\n" becomes "\n"; a CR at the end waits for what follows it.
crlf(text) ==
  LET Pair(i) == text[i] = CR /\ i < Len(text) /\ text[i + 1] = LF
  IN  Picked(text, {i \in DOMAIN text : ~Pair(i)})

\* Where "\n\n" starts.
Separators(text) ==
  {i \in 1..Len(text) - 1 : text[i] = LF /\ text[i + 1] = LF}

Blank(token) == token \in {CR, LF}

trim(text) ==
  LET solid == {i \in DOMAIN text : ~Blank(text[i])}
  IN  IF solid = {} THEN <<>> ELSE SubSeq(text, Min(solid), Max(solid))

\* The last event line names it, the data lines are joined.  <<>> if there is
\* nothing to dispatch.
parseFrame(text) ==
  LET Values(f) ==
        LET lines == SelectSeq(text, LAMBDA t : t.field = f)
        IN  [i \in DOMAIN lines |-> lines[i].value]
      named == Values("event")
      event == IF named = <<>> THEN "message" ELSE Last(named)
      data == Values("data")
  IN  IF data = <<>> /\ event = "message" THEN <<>>
      ELSE <<[event |-> event, data |-> data]>>
----------------------------------------------------------------------------
\* Decoding.  A JSON value is [json, version, event, payload, fields]: its
\* shape ("bad", "object", "other"), the envelope keys it has, and the event
\* types whose required fields it carries.

Empty == [json |-> "object", version |-> "none", event |-> "", payload |-> <<>>,
          wellFormed |-> TRUE, fields |-> {}]

JsonParse(data) ==
  CASE data = <<>> -> Empty
    [] data # <<>> /\ data \in DOMAIN Json -> Json[data]
    [] OTHER -> [Empty EXCEPT !.json = "bad"]

\* Flat frames pass unchanged; an envelope has to be version 1, to name the
\* event of its frame, and to carry an object.
unwrapEnvelope(frame) ==
  LET obj == JsonParse(frame.data)
  IN  IF obj.json # "object" \/ obj.version = "none"
        THEN [kind |-> "flat", event |-> frame.event, value |-> obj]
      ELSE IF obj.version # "1" \/ obj.event # frame.event
                \/ obj.payload = <<>> \/ ~obj.wellFormed
        THEN [kind |-> "rejected", event |-> frame.event, value |-> obj]
      ELSE [kind |-> "enveloped", event |-> frame.event,
            value |-> obj.payload[1]]

Event(type, value) == <<[type |-> type, fields |-> value.fields]>>

\* Any JSON will do for an answer or an error; the others are dropped unless
\* what they need is there and known.
parseFridayEvent(event, value) ==
  IF event = "done" THEN Event("done", Empty)
  ELSE IF value.json = "bad" THEN Event("error", Empty)
  ELSE IF event \in {"answer", "error"} \/ event \in value.fields
    THEN Event(event, value)
  ELSE <<>>

IsDone(got) == \E e \in ToSet(got) : e.type = "done"

\* One turn of the loop over the frames: what onEvent and onError are given.
Decoded(frame) ==
  LET u == unwrapEnvelope(frame)
  IN  IF u.kind = "rejected" THEN <<[type |-> "protocol", fields |-> {}]>>
      ELSE parseFridayEvent(u.event, u.value)

\* What a whole body tells: its frames end at blank lines, what is left is one
\* more, and after done nothing counts.
Meaning(tokens) ==
  LET text == crlf(tokens)
      Told(frame) == IF frame = <<>> THEN <<>> ELSE Decoded(frame[1])
      from[p \in 1..Len(text) + 1] ==
        LET ends == {i \in Separators(text) : i >= p}
            end == Min(ends)
            told == Told(parseFrame(SubSeq(text, p, end - 1)))
        IN  CASE ends = {} ->
                   Told(parseFrame(trim(SubSeq(text, p, Len(text)))))
              [] ends # {} /\ IsDone(told) -> told
              [] OTHER -> told \o from[end + 2]
  IN  from[1]

\* The orchestrator never writes "\r" twice in a row, and means what it writes.
ASSUME StreamAssumption ==
  /\ MaxBuffer \in Nat \ {0}
  /\ \A s \in Streams :
       /\ IsList(s.tokens)
       /\ \A i \in 1..Len(s.tokens) - 1 : ~(s.tokens[i] = CR /\ s.tokens[i + 1] = CR)
       /\ s.meant = Meaning(s.tokens)
  /\ \A d \in VizSpecs : IsSpec(d)

\* A frame reaches the loop.  After the abort, and after done, the loop ends
\* and with it the reading.
Deliver(frame) ==
  LET got == IF frame = <<>> \/ ended = "aborted" THEN <<>>
             ELSE Decoded(frame[1])
  IN  /\ events' = events \o got
      /\ IF got # <<>> /\ got[1].type \in {"viz", "preview"}
           THEN \E d \in VizSpecs :
                  shown' = <<[sent |-> d, stored |-> normalizeVisualization(d)]>>
           ELSE UNCHANGED shown
      /\ phase' = IF frame # <<>>
                       /\ (ended = "aborted" \/ IsDone(got))
                    THEN "closed"
                  ELSE IF phase = "splitting" THEN phase ELSE "closed"
----------------------------------------------------------------------------
\* Slip: newlines are normalized in the chunk, before it joins the buffer.
ReadSlip(n) ==
  LET text == buffer \o crlf(SubSeq(wire, 1, n))
  IN  /\ phase = "reading" /\ ended # "aborted"
      /\ wire' = SubSeq(wire, n + 1, Len(wire))
      /\ buffer' = IF Len(text) > MaxBuffer THEN <<>> ELSE text
      /\ ended' = IF Len(text) > MaxBuffer THEN "cut" ELSE ended
      /\ phase' = "splitting"
      /\ UNCHANGED <<stream, events, shown>>

\* reader.read() gives the next chunk.  A tail longer than MaxBuffer is
\* dropped.
Read(n) ==
  LET text == crlf(buffer \o SubSeq(wire, 1, n))
  IN  /\ phase = "reading" /\ ended # "aborted"
      /\ wire' = SubSeq(wire, n + 1, Len(wire))
      /\ buffer' = IF Len(text) > MaxBuffer THEN <<>> ELSE text
      /\ ended' = IF Len(text) > MaxBuffer THEN "cut" ELSE ended
      /\ phase' = "splitting"
      /\ UNCHANGED <<stream, events, shown>>

\* One frame off the buffer; yielding it is where an abort can come between.
Split ==
  LET sep == Min(Separators(buffer))
  IN  /\ phase = "splitting"
      /\ Separators(buffer) # {}
      /\ buffer' = SubSeq(buffer, sep + 2, Len(buffer))
      /\ Deliver(parseFrame(SubSeq(buffer, 1, sep - 1)))
      /\ UNCHANGED <<stream, wire, ended>>

NoMore ==
  /\ phase = "splitting"
  /\ Separators(buffer) = {}
  /\ phase' = "reading"
  /\ UNCHANGED <<stream, wire, buffer, ended, events, shown>>

\* The body ended, or the abort was seen: what is left is a frame too.
Flush ==
  /\ phase = "reading"
  /\ wire = <<>> \/ ended = "aborted"
  /\ buffer' = <<>>
  /\ Deliver(parseFrame(trim(buffer)))
  /\ UNCHANGED <<stream, wire, ended>>

\* The connection breaks: read() rejects and nothing is flushed.
Break ==
  /\ phase = "reading" /\ ended = "" /\ wire # <<>>
  /\ ended' = "broken"
  /\ phase' = "closed"
  /\ UNCHANGED <<stream, wire, buffer, events, shown>>

Abort ==
  /\ phase # "closed" /\ ended = ""
  /\ ended' = "aborted"
  /\ UNCHANGED <<stream, wire, buffer, phase, events, shown>>

Init ==
  /\ stream \in Streams
  /\ wire = stream.tokens
  /\ buffer = <<>> /\ phase = "reading" /\ ended = ""
  /\ events = <<>>
  /\ shown = <<>>

Next ==
  \/ \E n \in 1..Len(wire) : Read(n)
  \/ Split \/ NoMore \/ Flush \/ Break \/ Abort

Spec == Init /\ [][Next]_vars
----------------------------------------------------------------------------
\* The turn is given exactly the events the orchestrator meant, in order,
\* wherever the network cut the body, with either newline, with comments
\* between, in envelopes or without; an aborted or broken turn is given the
\* first of them (sse.ts:3).
EventsAsSent ==
  ended # "cut" =>
    /\ IsPrefix(events, stream.meant)
    /\ phase = "closed" /\ ended = "" => events = stream.meant

LinksKept ==
  \A s \in ToSet(shown) :
    LET sent == s.sent.data
        stored == s.stored.data
        Node(data, index) == data.nodes[index + 1]
        sound == {pair \in ToSet(sent.links) :
                    Len(pair) >= 2
                      /\ \A i \in 1..2 : pair[i] + 1 \in DOMAIN sent.nodes}
    IN  /\ ToSet(stored.links) = sound
        /\ \A pair \in sound : \A i \in 1..2 :
             Node(sent, pair[i]) \in {<<>>, Node(stored, pair[i])}

\* The points an id or a label stands for.
Named(points, ref) ==
  {i \in DOMAIN points : ref \in {points[i].id, points[i].label}}

RoutesKept ==
  \A s \in ToSet(shown), located \in BOOLEAN :
    \A r \in ToSet(s.sent.data.routes) :
      LET points == s.sent.data.points
          drawn == withOperator(s.stored.data.points, located)
          plain == \A ref \in {r.from, r.to} :
                     ref # <<>> /\ Cardinality(Named(drawn, ref)) <= 1
          joined == resolveGlobeRoute(points, r)
          routes == s.stored.data.routes
      IN  plain /\ joined # <<>> =>
            /\ resolveGlobeRoute(drawn, r) = joined
            /\ r \in ToSet(routes)
            /\ Len(routes) <= ROUTE_MAX => r \in ToSet(resolved(drawn, routes))

\* A link stored joins the two nodes it joined when it was sent, and no link
\* between nodes that were sent is lost; a route whose ends each name one of
\* the points drawn is drawn between the two it joined when it was sent,
\* whether the operator's own marker is among them or not, unless there are
\* more than are drawn at all (normalization.ts:157, :168, operator.ts:4).
LinksJoinTheSameNodes ==
  /\ LinksKept
  /\ RoutesKept

\* Longitudes the code turns into its range; one below leaves it.
Turnable(points) ==
  \A i \in DOMAIN points : points[i].lon = <<>> \/ points[i].lon[1] >= -540

\* A point keeps its place on the globe, written in -180..179.
PlacesKept(sent, stored) ==
  \A i \in DOMAIN sent :
    sent[i].lon # <<>> =>
      /\ stored[i].lon[1] \in -180..179
      /\ (stored[i].lon[1] - sent[i].lon[1]) % 360 = 0

\* What is stored is in normal form: normalizing it again changes nothing, no
\* two series share a label, whatever labels were sent, and points are where
\* they were, longitudes below -540 apart (normalization.ts:144, :173).
NormalFormIsStable ==
  \A s \in ToSet(shown) :
    LET labels == [i \in DOMAIN s.stored.data.series |->
                     s.stored.data.series[i].label]
    IN  /\ IsInjective(labels)
        /\ Turnable(s.sent.data.points) =>
             /\ normalizeVisualization(s.stored) = s.stored
             /\ PlacesKept(s.sent.data.points, s.stored.data.points)
=============================================================================
