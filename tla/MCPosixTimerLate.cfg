SPECIFICATION Spec
CONSTANTS
  s1 = s1
  s2 = s2
  n1 = n1
  n2 = n2
  Starters <- OneClient
  Stoppers <- OneClient
  Notifiers <- TwoNotifiers
  Restarting = FALSE
  Durations <- ZeroOrOne
  ClientStarts = 4
  MaxStarts = 4
INVARIANTS
  StartedIsActive
