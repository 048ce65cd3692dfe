----------------------------- MODULE MapPanels -----------------------------
(***************************************************************************)
(* What the operator does on an open map: place card and context menu      *)
(* (map/PlacePanel.tsx), directions (map/DirectionsPanel.tsx), a search    *)
(* box (map/MapSearch.tsx) and the layer that holds them (MapLayer.tsx),   *)
(* with the requests each sends through map/mapApi.ts: addresses, routes,  *)
(* suggestions and the place behind a suggestion.                          *)
(*                                                                         *)
(* The directions asked for (stops, mode, avoided roads, time) are one     *)
(* question; editing one of them makes another question.  An effect whose  *)
(* cause is a click has run before the next event; after a promise it may  *)
(* run later, which matters for the route request (Ask).                   *)
(*                                                                         *)
(* MapLibre answers isStyleLoaded with no while anything is loading, so a  *)
(* draw may be skipped at any time.  Left out: camera flights, positions,  *)
(* the cards' layout, the location button (Device has it), what differs    *)
(* between two answers to one question.                                    *)
(***************************************************************************)
EXTENDS FiniteSets

CONSTANTS
  Questions,   \* complete directions: all stops chosen
  Places,      \* places the operator points at or finds
  Texts,       \* search texts long enough to ask for
  Reasons,     \* reasons fetchRoute gives for having no route
  None,        \* nothing there
  Blank        \* directions with a stop missing; a list of no routes

ASSUME PanelsAssumption ==
  /\ "error" \in Reasons /\ "ok" \notin Reasons
  /\ Blank # None /\ None \notin Questions

VARIABLES
  place,    \* MapLayer: the place of the card
  menu,     \* MapLayer: the context menu is open
  dir,      \* MapLayer: directions asked for, or None: no panel
  card,     \* the address on the card, and the lookups under way
  asked,    \* DirectionsPanel: the question its effect last ran for
  req,      \* its route request: to which question, how far
  answer,   \* its status and routes (named by the question they answer)
  drawn,    \* the route layers on the map: None, or of which routes
  style,    \* the map's style: "loaded" or "swapping"
  box,      \* a search box: text, open, its list, requests under way
  picks     \* picked suggestions whose place is being fetched, by target

panel == <<asked, req, answer, drawn>>
vars == <<place, menu, dir, card, panel, style, box, picks>>

NoReq == [q |-> None, phase |-> "none"]
NoAnswer == [status |-> "idle", routes |-> Blank]
NoCard == [address |-> None, lookups |-> {}]
NoBox == [text |-> None, open |-> FALSE, list |-> None, asks |-> {}]
----------------------------------------------------------------------------
(* Place card: shown unless directions are, it looks its address up unless *)
(* the place came with one.                                                *)

CardOf(p, d) == IF d = None THEN p ELSE None

\* Slip: an older lookup is not aborted.
CardForSlip(p, known) ==
  IF p = None THEN NoCard
  ELSE IF known THEN [address |-> p, lookups |-> {}]
  ELSE [address |-> None, lookups |-> card.lookups \cup {p}]

\* The effect of the card on a new place: an older lookup is aborted.
CardFor(p, known) ==
  IF p = None THEN NoCard
  ELSE IF known THEN [address |-> p, lookups |-> {}]
  ELSE [address |-> None, lookups |-> {p}]

Carded ==
  card' = IF CardOf(place', dir') = CardOf(place, dir) THEN card
          ELSE CardFor(CardOf(place', dir'), FALSE)

\* A place without an address of its own.
setPlace(p) ==
  /\ place' = p
  /\ card' = IF dir = None THEN CardFor(p, FALSE) ELSE card
  /\ UNCHANGED <<dir, panel, style, box, picks>>

\* A click on a named feature of the map; it closes the menu.
Feature(p) == setPlace(p) /\ menu' = FALSE

\* A click on a pin of the request never reaches the map.  The pins are hidden
\* while directions draw their own.
Pin(p) == dir = None /\ setPlace(p) /\ UNCHANGED menu

ContextMenu ==
  /\ ~menu
  /\ menu' = TRUE
  /\ UNCHANGED <<place, dir, card, panel, style, box, picks>>

\* A click where nothing is.
EmptyClick ==
  /\ menu
  /\ menu' = FALSE
  /\ UNCHANGED <<place, dir, card, panel, style, box, picks>>

\* An item of the menu does its work and closes it.
Item == menu /\ menu' = FALSE

WhatsHere(p) == Item /\ setPlace(p)

CopyCoords == Item /\ UNCHANGED <<place, dir, card, panel, style, box, picks>>

\* The card's close button.
ClosePlace ==
  /\ place # None /\ dir = None
  /\ place' = None
  /\ card' = NoCard
  /\ UNCHANGED <<menu, dir, panel, style, box, picks>>

\* The answer to a lookup; without an address nothing changes.
Reversed(p) ==
  /\ p \in card.lookups
  /\ card' \in {[address |-> p, lookups |-> card.lookups \ {p}],
                [card EXCEPT !.lookups = @ \ {p}]}
  /\ UNCHANGED <<place, menu, dir, panel, style, box, picks>>
----------------------------------------------------------------------------
(* The directions panel.                                                   *)

\* Slip: the panel goes and leaves its layers.
clearRoutesSlip == UNCHANGED drawn

\* clearRoutes as the panel goes; in the middle of a swap MapLibre may refuse.
clearRoutes == drawn' \in IF style = "loaded" THEN {None} ELSE {None, drawn}

\* The panel goes: its request is aborted, its layers are removed.
Unmounted ==
  /\ asked' = None
  /\ req' = NoReq
  /\ answer' = NoAnswer
  /\ clearRoutes

\* The effect of a redraw: drawn now, unless the map says it is loading.
Draw == drawn' \in {answer'.routes, drawn}

\* Aborting a request that is reading the body of a refusal: the abort is
\* swallowed, and told as the error of the question that replaced it.
Aborts(status, routes) ==
  answer' = IF req.phase = "refused"
            THEN [status |-> "error", routes |-> Blank]
            ELSE [status |-> status, routes |-> routes]

\* Slip: the request under way is not aborted, and its answer is taken.
AskForSlip(q) ==
  /\ asked' = q
  /\ req' = IF req.phase # "none" THEN req
            ELSE IF q = Blank THEN NoReq ELSE [q |-> q, phase |-> "sent"]
  /\ IF q = Blank THEN Aborts("idle", Blank)
     ELSE Aborts("loading", answer.routes)
  /\ Draw

\* The effect of a new question: the old request is aborted, a complete
\* question is sent, an incomplete one has no routes.
AskFor(q) ==
  /\ asked' = q
  /\ req' = IF q = Blank THEN NoReq ELSE [q |-> q, phase |-> "sent"]
  /\ IF q = Blank THEN Aborts("idle", Blank)
     ELSE Aborts("loading", answer.routes)
  /\ Draw

\* The panel after setDirections(d) by a click, whose effect runs at once.
Clicked(d) ==
  /\ dir' = d
  /\ IF d = None THEN IF dir = None THEN UNCHANGED panel ELSE Unmounted
     ELSE AskFor(d)

\* setDirections by a promise or by the layer's own effect: Ask comes later.
Promised(d) ==
  /\ dir' = d
  /\ UNCHANGED panel

\* Slip: the effect runs for the first directions only.
AskSlip ==
  /\ dir # None /\ asked = None
  /\ AskFor(dir)
  /\ UNCHANGED <<place, menu, dir, card, style, box, picks>>

Ask ==
  /\ dir \notin {None, asked}
  /\ AskFor(dir)
  /\ UNCHANGED <<place, menu, dir, card, style, box, picks>>

\* Directions to or from a place.  The other stop may be missing.
directionsTo(d) ==
  /\ place' = None
  /\ Clicked(d)
  /\ Carded
  /\ UNCHANGED <<style, box, picks>>

ByMenu(d) == Item /\ directionsTo(d)

ByCard(d) == CardOf(place, dir) # None /\ directionsTo(d) /\ UNCHANGED menu

\* The button starts new directions, also over those on show.
ByButton(d) == directionsTo(d) /\ UNCHANGED menu

\* Another mode, time, avoided road, order or position of the stops.
Edit(q) ==
  /\ dir \notin {None, q}
  /\ Clicked(q)
  /\ UNCHANGED <<place, menu, card, style, box, picks>>

\* An accepted request of the agent carries a route.
RouteRequest(q) ==
  /\ dir # q
  /\ place' = None
  /\ Promised(q)
  /\ Carded
  /\ UNCHANGED <<menu, style, box, picks>>

Close ==
  /\ dir # None
  /\ UNCHANGED <<place, menu, style, box, picks>>
  /\ Clicked(None)
  /\ Carded

\* The orchestrator refuses; the body that says why is still to be read.
Refused ==
  /\ req.phase = "sent"
  /\ req' = [req EXCEPT !.phase = "refused"]
  /\ UNCHANGED <<place, menu, dir, card, asked, answer, drawn, style, box, picks>>

\* fetchRoute returns: routes, a reason, or an answer nobody can read, which
\* leaves the routes alone.
RouteAnswer ==
  /\ req.phase # "none"
  /\ req' = NoReq
  /\ \/ /\ req.phase = "sent"
        /\ answer' \in {[status |-> "ok", routes |-> req.q],
                        [status |-> "error", routes |-> answer.routes]}
     \/ \E r \in Reasons : answer' = [status |-> r, routes |-> Blank]
  /\ Draw
  /\ UNCHANGED <<place, menu, dir, card, asked, style, box, picks>>

\* An alternative is selected, or a step is pointed at: drawn again.
Select ==
  /\ answer.status = "ok"
  /\ drawn # answer.routes
  /\ UNCHANGED answer
  /\ Draw
  /\ UNCHANGED <<place, menu, dir, card, asked, req, style, box, picks>>

\* A click on a grey alternative selects it; the map takes the click as well.
ClickRoute ==
  /\ asked # None /\ drawn # None
  /\ place' \in Places \cup {place}
  /\ menu' = FALSE
  /\ UNCHANGED answer
  /\ Draw
  /\ UNCHANGED <<dir, card, asked, req, style, box, picks>>

\* Another style, or the traffic layer switched.
ChooseStyle ==
  /\ style = "loaded"
  /\ style' = "swapping"
  /\ UNCHANGED <<place, menu, dir, card, panel, box, picks>>

\* The new style has none of the layers; a mounted panel draws them again.
StyleLoad ==
  /\ style = "swapping"
  /\ style' = "loaded"
  /\ drawn' = IF asked = None THEN None ELSE answer.routes
  /\ UNCHANGED <<place, menu, dir, card, asked, req, answer, box, picks>>
----------------------------------------------------------------------------
(* A search box.  Its effect runs for a new text and when it opens or      *)
(* closes: timer and request of the old one go.  An open box asks for its  *)
(* text; the pause before the request is part of the time it takes.        *)

\* Slip: a request for an older text goes on.
BoxForSlip(text, open) ==
  [text |-> text, open |-> open,
   asks |-> box.asks \cup (IF open /\ text # None THEN {text} ELSE {}),
   list |-> IF open /\ text # None THEN box.list ELSE None]

BoxFor(text, open) ==
  [text |-> text, open |-> open,
   asks |-> IF open /\ text # None THEN {text} ELSE {},
   list |-> IF open /\ text # None THEN box.list ELSE None]

Type(t) ==
  /\ <<t, TRUE>> # <<box.text, box.open>>
  /\ box' = BoxFor(t, TRUE)
  /\ UNCHANGED <<place, menu, dir, card, panel, style, picks>>

\* Escape in the box, or some time after it lost the focus.
BoxCloses ==
  /\ box.open
  /\ box' = BoxFor(box.text, FALSE)
  /\ UNCHANGED <<place, menu, dir, card, panel, style, picks>>

\* Suggestions, a notice instead of them, or a failure that keeps the list.
Suggested(t) ==
  /\ t \in box.asks
  /\ \E l \in {t, None, box.list} :
       box' = [box EXCEPT !.asks = @ \ {t}, !.list = l]
  /\ UNCHANGED <<place, menu, dir, card, panel, style, picks>>

\* The list is on the screen.
Offered == box.open /\ box.list # None

\* A suggestion is picked for the card or for a stop: its place is fetched,
\* and nothing can call that off.
Pick(target) ==
  /\ Offered
  /\ target = "stop" => dir # None
  /\ box' = BoxFor(box.list, FALSE)
  /\ picks' = picks \cup {target}
  /\ UNCHANGED <<place, menu, dir, card, panel, style>>

\* The box of a stop offers the operator's own location first, if known: the
\* stop is set at once and the box shows its label.
PickMe(q, label) ==
  /\ box.open
  /\ dir \notin {None, q}
  /\ box' = BoxFor(label, FALSE)
  /\ Clicked(q)
  /\ UNCHANGED <<place, menu, card, style, picks>>

\* The place arrives for the card.
PlaceFound(p) ==
  /\ "place" \in picks
  /\ picks' \in {picks \ {"place"}, picks}
  /\ place' = p
  /\ menu' = FALSE
  /\ card' = IF dir = None THEN CardFor(p, TRUE) ELSE card
  /\ UNCHANGED <<dir, panel, style, box>>

\* The place arrives for a stop: it goes into the directions as they were
\* when it was picked, also over newer ones or a panel closed since.
StopFound(d) ==
  /\ "stop" \in picks
  /\ picks' \in {picks \ {"stop"}, picks}
  /\ UNCHANGED <<place, menu, style, box>>
  /\ Promised(d)
  /\ Carded

\* It cannot be fetched: a notice.
NotFound(target) ==
  /\ target \in picks
  /\ picks' = picks \ {target}
  /\ UNCHANGED <<place, menu, dir, card, panel, style, box>>

\* Escape closes the innermost thing first; with none open the map leaves.
Escape ==
  /\ menu \/ dir # None \/ place # None
  /\ menu' = FALSE
  /\ IF menu THEN UNCHANGED <<place, dir, card, panel>>
     ELSE /\ place' = IF dir # None THEN place ELSE None
          /\ Clicked(None)
          /\ Carded
  /\ UNCHANGED <<style, box, picks>>

Init ==
  /\ place = None /\ menu = FALSE /\ dir = None
  /\ card = NoCard
  /\ asked = None /\ req = NoReq /\ answer = NoAnswer /\ drawn = None
  /\ style = "loaded"
  /\ box = NoBox
  /\ picks = {}

\* The map has handed back to the globe: everything unmounts, and a later
\* opening starts afresh.
MapGone ==
  /\ place' = None /\ menu' = FALSE /\ dir' = None
  /\ card' = NoCard
  /\ asked' = None /\ req' = NoReq /\ answer' = NoAnswer /\ drawn' = None
  /\ style' = "loaded"
  /\ box' = NoBox
  /\ picks' = {}

Cards ==
  \/ \E p \in Places :
       Feature(p) \/ Pin(p) \/ WhatsHere(p) \/ Reversed(p) \/ PlaceFound(p)
  \/ ClosePlace \/ ContextMenu \/ EmptyClick \/ CopyCoords \/ Escape

Routes ==
  \/ \E d \in Questions \cup {Blank} :
       ByMenu(d) \/ ByCard(d) \/ ByButton(d) \/ StopFound(d)
  \/ \E q \in Questions : Edit(q) \/ RouteRequest(q)
  \/ Close \/ Ask \/ Refused \/ RouteAnswer \/ Select \/ ClickRoute
  \/ ChooseStyle \/ StyleLoad

Search ==
  \/ \E t \in Texts : Suggested(t)
  \/ \E t \in Texts \cup {None} : Type(t)
  \/ BoxCloses
  \/ \E target \in {"place", "stop"} : Pick(target) \/ NotFound(target)
  \/ \E q \in Questions, label \in Texts : PickMe(q, label)

Next == Cards \/ Routes \/ Search \/ MapGone

\* Effects run, and the orchestrator answers or the fetch fails.
Fairness == WF_vars(Ask) /\ WF_vars(RouteAnswer)

Spec == Init /\ [][Next]_vars /\ Fairness
----------------------------------------------------------------------------
\* A route on show answers the question on show: no answer to an older one
\* is taken for it once the panel has asked (DirectionsPanel.tsx:148).
RouteAnswersQuestion ==
  answer.status = "ok" /\ asked = dir => answer.routes = dir

\* Every question the operator leaves standing is asked and answered
\* (DirectionsPanel.tsx:148).
AnsweredInTheEnd ==
  \A q \in Questions :
    dir = q ~> \/ dir # q
               \/ asked = q /\ req = NoReq /\ answer.status \notin {"idle", "loading"}

\* No line of a route outlives its panel on a loaded map
\* (DirectionsPanel.tsx:177).
NoLineLeftBehind == asked = None /\ style = "loaded" => drawn = None

\* The address on the card is the address of its place, however late the
\* answers come (PlacePanel.tsx:35).
AddressIsOfPlace ==
  card.address # None => card.address = CardOf(place, dir)

\* A list of suggestions that appears was asked for the text in the box
\* (MapSearch.tsx:44).
LateSuggestionNeverShown ==
  [][box'.list \in {None, box.list, box.text}]_vars
============================================================================
