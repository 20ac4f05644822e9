SPECIFICATION HostSpec
CONSTANTS
  c1 = c1
  c2 = c2
  Commands = {c1, c2}
  MaxIds = 2
  Hosts = {"codex", "claude-code", "claude-desktop"}
  MaxEdits = 1
SYMMETRY Interchangeable
INVARIANTS AnswersAreTrue
PROPERTIES StrangersAreKept ReplacedAsApproved
CHECK_DEADLOCK FALSE
