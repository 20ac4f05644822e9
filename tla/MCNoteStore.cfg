SPECIFICATION FairSpec
CONSTANTS
  n1 = n1  n2 = n2  n3 = n3
  Notes <- AllNotes
  Made <- FirstNotes
  Windows = {w1, w2}
  Decisions = {d1}
  MaxRevs = 3
  MaxEvents = 3
  MaxDeaths = 1
INVARIANTS EditsAreChained PagesAreWhole DecisionsAreLogged
PROPERTIES DeletedAsConsented LoggedWithTheChange ServesAgain
CHECK_DEADLOCK FALSE
