SPECIFICATION AllSpec
CONSTANTS
  N = 4
  Guests = {0, 1, 2, 3}
  Nobody = 99
  Client = {1, 2}
  Method = {"conn", "send", "recv", "stop", "rstop"}
  MaxLines = 4
  Tests = 2
  Rounds = 1
  Attempts = 2
  Proc = {"g"}
INVARIANTS
  NeighboursNeverEatTogether
  ChatRight
  PassIsEarned
PROPERTIES
  WaitingEnds
CHECK_DEADLOCK FALSE
