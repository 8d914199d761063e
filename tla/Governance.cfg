SPECIFICATION MCSpec
CONSTANTS
  Month = {1, 2, 3}
  TokenOf <- MCTokenOf
  NoToken = "none"
  Line <- MCLine
  Legacy <- MCLegacy
  Governed = {"bronze", "staging"}
  Principal = {"p", "q"}
  Roster = {"q"}
  MaxAdmin = 2
INVARIANTS
  OnlyAReplaceUncovers
PROPERTIES
  NamesArriveWhole
  DoneIsTrue
  GovernedWhenGranted
CHECK_DEADLOCK FALSE
