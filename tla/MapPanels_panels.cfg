SPECIFICATION Spec
CONSTANTS
  Questions = {q1, q2}
  Places = {p1, p2}
  Texts = {t1, t2}
  Reasons = {"error"}
  None = None
  Blank = Blank
INVARIANTS
  RouteAnswersQuestion
  NoLineLeftBehind
  AddressIsOfPlace
PROPERTIES
  LateSuggestionNeverShown
  AnsweredInTheEnd
CHECK_DEADLOCK FALSE
