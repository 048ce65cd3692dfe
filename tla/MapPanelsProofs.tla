-------------------------- MODULE MapPanelsProofs --------------------------
(***************************************************************************)
(* What the panels of an open map show, for any sets of questions, places, *)
(* texts and reasons.  None of the four properties is inductive.           *)
(*                                                                         *)
(* Routes: the answer the panel holds is to the question it asked, and so  *)
(* will be the one it waits for (AnswerIsOfAsked); a panel that has asked  *)
(* is mounted, and one that has not waits for nothing and holds nothing    *)
(* that could be drawn (OnlyTheAskedWaits).                                *)
(* Card and search box: whatever is under way is for the place or the text *)
(* on show (LookupsAreOfPlace, AsksAreOfText), because a newer one aborts  *)
(* it.                                                                     *)
(***************************************************************************)
EXTENDS MapPanels, TLAPS

Asks == Questions \cup {Blank}
Statuses == Reasons \cup {"idle", "loading", "ok", "error"}

PanelsTypeOK ==
  /\ place \in Places \cup {None}
  /\ dir \in Asks \cup {None}
  /\ card \in [address : Places \cup {None}, lookups : SUBSET (Places \cup {None})]
  /\ asked \in Asks \cup {None}
  /\ req \in [q : Asks \cup {None}, phase : {"none", "sent", "refused"}]
  /\ answer \in [status : Statuses, routes : Asks]
  /\ drawn \in Asks \cup {None}
  /\ style \in {"loaded", "swapping"}
  /\ box \in [text : Texts \cup {None}, open : BOOLEAN,
              list : Texts \cup {None}, asks : SUBSET (Texts \cup {None})]

AnswerIsOfAsked ==
  /\ answer.status = "ok" => answer.routes = asked
  /\ req.phase # "none" => req.q = asked

OnlyTheAskedWaits ==
  /\ asked # None => dir # None
  /\ asked = None => answer.status # "ok" /\ req.phase = "none"

LookupsAreOfPlace == \A p \in card.lookups : p = CardOf(place, dir)

AsksAreOfText == \A t \in box.asks : t = box.text

PanelsInv ==
  /\ PanelsTypeOK
  /\ AnswerIsOfAsked /\ OnlyTheAskedWaits /\ NoLineLeftBehind
  /\ LookupsAreOfPlace /\ AddressIsOfPlace
  /\ AsksAreOfText
----------------------------------------------------------------------------
\* The initial state satisfies the inductive invariant.
LEMMA PanelsInitInv == Init => PanelsInv
  BY DEF Init, PanelsInv, PanelsTypeOK, AnswerIsOfAsked, OnlyTheAskedWaits,
     NoLineLeftBehind, LookupsAreOfPlace, AddressIsOfPlace, AsksAreOfText,
     NoCard, NoReq, NoAnswer, NoBox, Asks, Statuses

\* What the panel knows of its routes, which it keeps apart from card and box.
RoutesInv ==
  /\ dir \in Asks \cup {None}
  /\ asked \in Asks \cup {None}
  /\ req \in [q : Asks \cup {None}, phase : {"none", "sent", "refused"}]
  /\ answer \in [status : Statuses, routes : Asks]
  /\ drawn \in Asks \cup {None}
  /\ style \in {"loaded", "swapping"}
  /\ AnswerIsOfAsked /\ OnlyTheAskedWaits /\ NoLineLeftBehind

\* Asking a question aborts the request before it: the one that is left, and
\* the answer it will bring, are to the question asked.
LEMMA AskForKeeps ==
  ASSUME RoutesInv, NEW q \in Asks, AskFor(q), dir' = q, UNCHANGED style
  PROVE  RoutesInv'
  BY PanelsAssumption DEF RoutesInv, AskFor, Aborts, Draw, NoReq, Asks,
     Statuses, AnswerIsOfAsked, OnlyTheAskedWaits, NoLineLeftBehind

\* A click that sets the directions asks for them, or unmounts the panel.
LEMMA ClickedKeeps ==
  ASSUME RoutesInv, NEW d \in Asks \cup {None}, Clicked(d), UNCHANGED style
  PROVE  RoutesInv'
<1>1. CASE d # None
  BY <1>1, AskForKeeps DEF Clicked
<1>2. CASE d = None /\ dir = None
  BY <1>2 DEF Clicked, panel, RoutesInv, AnswerIsOfAsked, OnlyTheAskedWaits,
     NoLineLeftBehind
<1>3. CASE d = None /\ dir # None
  BY <1>3 DEF Clicked, Unmounted, clearRoutes, NoReq, NoAnswer, RoutesInv,
     Asks, Statuses, AnswerIsOfAsked, OnlyTheAskedWaits, NoLineLeftBehind
<1> QED
  BY <1>1, <1>2, <1>3

\* Directions that a promise sets are not asked for yet: nothing else moves.
LEMMA PromisedKeeps ==
  ASSUME RoutesInv, NEW d \in Asks, Promised(d), UNCHANGED style
  PROVE  RoutesInv'
  BY PanelsAssumption DEF Promised, panel, RoutesInv, Asks, AnswerIsOfAsked,
     OnlyTheAskedWaits, NoLineLeftBehind

\* Every step keeps what the panel knows of its routes.
LEMMA RoutesStep == PanelsTypeOK /\ RoutesInv /\ [Next]_vars => RoutesInv'
<1> SUFFICES ASSUME PanelsTypeOK, RoutesInv, [Next]_vars PROVE RoutesInv'
  OBVIOUS
<1>1. CASE UNCHANGED <<dir, panel, style>>
  BY <1>1 DEF panel, RoutesInv, AnswerIsOfAsked, OnlyTheAskedWaits,
     NoLineLeftBehind
<1>2. ASSUME NEW p \in Places,
             Feature(p) \/ Pin(p) \/ WhatsHere(p) \/ Reversed(p) \/ PlaceFound(p)
      PROVE  RoutesInv'
  BY <1>1, <1>2 DEF Feature, Pin, WhatsHere, Reversed, PlaceFound, setPlace
<1>3. CASE ClosePlace \/ ContextMenu \/ EmptyClick \/ CopyCoords
  BY <1>1, <1>3 DEF ClosePlace, ContextMenu, EmptyClick, CopyCoords
<1>4. CASE Escape
  BY <1>1, <1>4, ClickedKeeps DEF Escape
<1>5. ASSUME NEW d \in Asks,
             ByMenu(d) \/ ByCard(d) \/ ByButton(d) \/ StopFound(d)
      PROVE  RoutesInv'
  BY <1>5, ClickedKeeps, PromisedKeeps
     DEF ByMenu, ByCard, ByButton, StopFound, directionsTo
<1>6. ASSUME NEW q \in Questions, Edit(q) \/ RouteRequest(q)
      PROVE  RoutesInv'
  BY <1>6, ClickedKeeps, PromisedKeeps DEF Edit, RouteRequest, Asks
<1>7. CASE Close
  BY <1>7, ClickedKeeps DEF Close
<1>8. CASE Ask
  BY <1>8, AskForKeeps DEF Ask, RoutesInv
<1>9. CASE Refused
  BY <1>9 DEF Refused, RoutesInv, AnswerIsOfAsked, OnlyTheAskedWaits,
     NoLineLeftBehind
<1>10. CASE RouteAnswer
  BY <1>10, PanelsAssumption DEF RouteAnswer, Draw, NoReq, RoutesInv, Asks,
     Statuses, AnswerIsOfAsked, OnlyTheAskedWaits, NoLineLeftBehind
<1>11. CASE Select \/ ClickRoute
  BY <1>11 DEF Select, ClickRoute, Draw, RoutesInv, AnswerIsOfAsked,
     OnlyTheAskedWaits, NoLineLeftBehind
<1>12. CASE ChooseStyle \/ StyleLoad
  BY <1>12 DEF ChooseStyle, StyleLoad, panel, RoutesInv, AnswerIsOfAsked,
     OnlyTheAskedWaits, NoLineLeftBehind
<1>13. CASE \/ \E t \in Texts : Suggested(t)
            \/ \E t \in Texts \cup {None} : Type(t)
            \/ BoxCloses
            \/ \E target \in {"place", "stop"} : Pick(target) \/ NotFound(target)
  BY <1>1, <1>13 DEF Suggested, Type, BoxCloses, Pick, NotFound
<1>14. ASSUME NEW q \in Questions, NEW label \in Texts, PickMe(q, label)
       PROVE  RoutesInv'
  BY <1>14, ClickedKeeps DEF PickMe, Asks
<1>15. CASE MapGone
  BY <1>15 DEF MapGone, NoReq, NoAnswer, RoutesInv, Asks, Statuses,
     AnswerIsOfAsked, OnlyTheAskedWaits, NoLineLeftBehind
<1>16. CASE UNCHANGED vars
  BY <1>1, <1>16 DEF vars
<1> QED
  BY <1>2, <1>3, <1>4, <1>5, <1>6, <1>7, <1>8, <1>9, <1>10, <1>11, <1>12,
     <1>13, <1>14, <1>15, <1>16 DEF Next, Cards, Routes, Search, Asks
----------------------------------------------------------------------------
\* What the card knows of its address.
CardInv ==
  /\ place \in Places \cup {None}
  /\ card \in [address : Places \cup {None}, lookups : SUBSET (Places \cup {None})]
  /\ LookupsAreOfPlace /\ AddressIsOfPlace

\* The effect of the card on another place starts from nothing.
LEMMA CardedKeeps ==
  ASSUME CardInv, place' \in Places \cup {None}, Carded
  PROVE  CardInv'
  BY DEF CardInv, Carded, CardFor, CardOf, NoCard, LookupsAreOfPlace,
     AddressIsOfPlace

\* Every step keeps what the card knows of its address.
LEMMA CardStep == PanelsInv /\ CardInv /\ [Next]_vars => CardInv'
<1> SUFFICES ASSUME PanelsInv, CardInv, [Next]_vars PROVE CardInv'
  OBVIOUS
<1> USE DEF CardInv, LookupsAreOfPlace, AddressIsOfPlace, CardOf
<1>1. CASE UNCHANGED <<place, dir, card>>
  BY <1>1
<1>2. ASSUME UNCHANGED <<place, card>>, dir # None, dir' # None
      PROVE  CardInv'
  BY <1>2
<1>3. ASSUME NEW p \in Places, setPlace(p)
      PROVE  CardInv'
  BY <1>3 DEF setPlace, CardFor, NoCard
<1>4. ASSUME NEW p \in Places, Reversed(p)
      PROVE  CardInv'
  BY <1>4 DEF Reversed
<1>5. ASSUME NEW p \in Places, PlaceFound(p)
      PROVE  CardInv'
  BY <1>5 DEF PlaceFound, CardFor, NoCard
<1>6. CASE ClosePlace
  BY <1>6 DEF ClosePlace, NoCard
<1>7. CASE ContextMenu \/ EmptyClick \/ CopyCoords
  BY <1>1, <1>7 DEF ContextMenu, EmptyClick, CopyCoords
<1>8. CASE Escape
  BY <1>1, <1>8, CardedKeeps DEF Escape
<1>9. ASSUME NEW d \in Asks,
             ByMenu(d) \/ ByCard(d) \/ ByButton(d) \/ StopFound(d)
      PROVE  CardInv'
  BY <1>9, CardedKeeps DEF ByMenu, ByCard, ByButton, StopFound, directionsTo
<1>10. ASSUME NEW q \in Questions, Edit(q) \/ RouteRequest(q)
       PROVE  CardInv'
  BY <1>2, <1>10, CardedKeeps, PanelsAssumption
     DEF Edit, RouteRequest, Clicked
<1>11. CASE Close
  BY <1>11, CardedKeeps DEF Close
<1>12. CASE Ask \/ Refused \/ RouteAnswer \/ Select \/ ChooseStyle \/ StyleLoad
  BY <1>1, <1>12 DEF Ask, Refused, RouteAnswer, Select, ChooseStyle, StyleLoad
<1>13. CASE ClickRoute
  <2>1. asked # None /\ dir' = dir /\ card' = card /\ place' \in Places \cup {place}
    BY <1>13, Zenon DEF ClickRoute
  <2>2. dir # None
    BY <2>1 DEF PanelsInv, OnlyTheAskedWaits
  <2> QED
    BY <2>1, <2>2
<1>14. CASE \/ \E t \in Texts : Suggested(t)
            \/ \E t \in Texts \cup {None} : Type(t)
            \/ BoxCloses
            \/ \E target \in {"place", "stop"} : Pick(target) \/ NotFound(target)
  BY <1>1, <1>14 DEF Suggested, Type, BoxCloses, Pick, NotFound
<1>15. ASSUME NEW q \in Questions, NEW label \in Texts, PickMe(q, label)
       PROVE  CardInv'
  BY <1>2, <1>15, PanelsAssumption DEF PickMe, Clicked
<1>16. CASE MapGone
  BY <1>16 DEF MapGone, NoCard
<1>17. CASE UNCHANGED vars
  BY <1>1, <1>17 DEF vars
<1>18. CASE Cards
  BY <1>3, <1>4, <1>5, <1>6, <1>7, <1>8, <1>18 DEF Cards, Feature, Pin, WhatsHere
<1>19. CASE Routes
  BY <1>9, <1>10, <1>11, <1>12, <1>13, <1>19 DEF Routes, Asks
<1>20. CASE Search
  BY <1>14, <1>15, <1>20 DEF Search
<1> QED
  BY <1>16, <1>17, <1>18, <1>19, <1>20 DEF Next
----------------------------------------------------------------------------
\* What the search box knows of its requests.
BoxInv ==
  /\ box \in [text : Texts \cup {None}, open : BOOLEAN,
              list : Texts \cup {None}, asks : SUBSET (Texts \cup {None})]
  /\ AsksAreOfText

\* A new text or another opening leaves the box with its own request only, and
\* with the list it had or none.
LEMMA BoxForKeeps ==
  ASSUME BoxInv, NEW text \in Texts \cup {None}, NEW open \in BOOLEAN,
         box' = BoxFor(text, open)
  PROVE  BoxInv' /\ box'.list \in {None, box.list, box.text}
  BY DEF BoxInv, BoxFor, AsksAreOfText

\* Every step keeps what the box knows of its requests, and only the list it
\* asked for appears.
LEMMA BoxStep ==
  ASSUME BoxInv, [Next]_vars
  PROVE  BoxInv' /\ box'.list \in {None, box.list, box.text}
<1>1. CASE UNCHANGED box
  BY <1>1 DEF BoxInv, AsksAreOfText
<1>2. ASSUME NEW t \in Texts \cup {None}, Type(t)
      PROVE  BoxInv' /\ box'.list \in {None, box.list, box.text}
  BY <1>2, BoxForKeeps DEF Type
<1>3. CASE BoxCloses
  BY <1>3, BoxForKeeps DEF BoxCloses, BoxInv
<1>4. ASSUME NEW t \in Texts, Suggested(t)
      PROVE  BoxInv' /\ box'.list \in {None, box.list, box.text}
  <2>1. PICK l \in {t, None, box.list} :
          t \in box.asks /\ box' = [box EXCEPT !.asks = @ \ {t}, !.list = l]
    BY <1>4 DEF Suggested
  <2>2. t = box.text
    BY <2>1 DEF BoxInv, AsksAreOfText
  <2>3. /\ box'.text = box.text /\ box'.open = box.open
        /\ box'.asks = box.asks \ {t} /\ box'.list = l
        /\ box' \in [text : Texts \cup {None}, open : BOOLEAN,
                     list : Texts \cup {None}, asks : SUBSET (Texts \cup {None})]
    BY <1>4, <2>1 DEF BoxInv
  <2> QED
    BY <2>2, <2>3 DEF BoxInv, AsksAreOfText
<1>5. ASSUME NEW target \in {"place", "stop"}, Pick(target)
      PROVE  BoxInv' /\ box'.list \in {None, box.list, box.text}
  BY <1>5, BoxForKeeps DEF Pick, BoxInv
<1>6. ASSUME NEW q \in Questions, NEW label \in Texts, PickMe(q, label)
      PROVE  BoxInv' /\ box'.list \in {None, box.list, box.text}
  BY <1>6, BoxForKeeps DEF PickMe
<1>7. CASE MapGone
  BY <1>7 DEF MapGone, NoBox, BoxInv, AsksAreOfText
<1>8. CASE Cards \/ \E target \in {"place", "stop"} : NotFound(target)
  BY <1>1, <1>8 DEF Cards, NotFound, Feature, Pin, WhatsHere, Reversed,
     PlaceFound, setPlace, ClosePlace, ContextMenu, EmptyClick, CopyCoords, Escape
<1>10. CASE \E d \in Questions \cup {Blank} :
              ByMenu(d) \/ ByCard(d) \/ ByButton(d) \/ StopFound(d)
  BY <1>1, <1>10 DEF ByMenu, ByCard, ByButton, StopFound, directionsTo
<1>11. CASE \E q \in Questions : Edit(q) \/ RouteRequest(q)
  BY <1>1, <1>11 DEF Edit, RouteRequest
<1>12. CASE Close \/ Ask \/ Refused \/ RouteAnswer \/ Select \/ ClickRoute
              \/ ChooseStyle \/ StyleLoad
  BY <1>1, <1>12 DEF Close, Ask, Refused, RouteAnswer, Select, ClickRoute,
     ChooseStyle, StyleLoad
<1>9. CASE UNCHANGED vars
  BY <1>1, <1>9 DEF vars
<1> QED
  BY <1>2, <1>3, <1>4, <1>5, <1>6, <1>7, <1>8, <1>9, <1>10, <1>11, <1>12
  DEF Next, Routes, Search
----------------------------------------------------------------------------
\* Every step keeps the inductive invariant.
LEMMA PanelsStepInv == PanelsInv /\ [Next]_vars => PanelsInv'
<1> SUFFICES ASSUME PanelsInv, [Next]_vars PROVE PanelsInv'
  OBVIOUS
<1>1. RoutesInv'
  BY RoutesStep DEF PanelsInv, PanelsTypeOK, RoutesInv
<1>2. CardInv'
  BY CardStep DEF PanelsInv, PanelsTypeOK, CardInv
<1>3. BoxInv'
  BY BoxStep DEF PanelsInv, PanelsTypeOK, BoxInv
<1> QED
  BY <1>1, <1>2, <1>3 DEF PanelsInv, PanelsTypeOK, RoutesInv, CardInv, BoxInv

\* The inductive invariant holds of every reachable state.
LEMMA PanelsInvHolds == Spec => []PanelsInv
  BY PanelsInitInv, PanelsStepInv, PTL DEF Spec

\* A route on show answers the question on show, whatever was asked before it,
\* refused, aborted or answered late (DirectionsPanel.tsx:148).
THEOREM RouteAnswersQuestionHolds == Spec => []RouteAnswersQuestion
<1>1. PanelsInv => RouteAnswersQuestion
  BY DEF PanelsInv, AnswerIsOfAsked, RouteAnswersQuestion
<1> QED
  BY <1>1, PanelsInvHolds, PTL

\* No line of a route outlives its panel on a loaded map
\* (DirectionsPanel.tsx:177).
THEOREM NoLineLeftBehindHolds == Spec => []NoLineLeftBehind
<1>1. PanelsInv => NoLineLeftBehind
  BY DEF PanelsInv
<1> QED
  BY <1>1, PanelsInvHolds, PTL

\* The address on the card is the address of its place (PlacePanel.tsx:35).
THEOREM AddressIsOfPlaceHolds == Spec => []AddressIsOfPlace
<1>1. PanelsInv => AddressIsOfPlace
  BY DEF PanelsInv
<1> QED
  BY <1>1, PanelsInvHolds, PTL

\* A list of suggestions that appears was asked for the text in the box
\* (MapSearch.tsx:44).
THEOREM LateSuggestionNeverShownHolds == Spec => LateSuggestionNeverShown
<1>1. PanelsInv /\ [Next]_vars => [box'.list \in {None, box.list, box.text}]_vars
  BY BoxStep DEF PanelsInv, PanelsTypeOK, BoxInv
<1> QED
  BY <1>1, PanelsInvHolds, PTL DEF Spec, LateSuggestionNeverShown
=============================================================================
