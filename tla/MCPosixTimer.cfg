SPECIFICATION FairSpec
CONSTANTS
  s1 = s1
  s2 = s2
  n1 = n1
  n2 = n2
  Starters <- TwoClients
  Stoppers <- TwoClients
  Notifiers <- TwoNotifiers
  Restarting = TRUE
  Durations <- ZeroOrOne
  ClientStarts = 4
  MaxStarts = 4
INVARIANTS
  ActiveHasCause
  OneShot
  RunningIsActive
PROPERTIES
  ActiveEnds
