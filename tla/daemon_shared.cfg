\* Logins of two containers.
SPECIFICATION Spec
CONSTANTS
  A = A
  B = B
  l1 = l1
  l2 = l2
  p1 = p1
  p2 = p2
  p3 = p3
  Containers <- TwoContainers
  Logins <- TwoLogins
  Home <- InTwo
  Pids <- SomePids
  PidReuse = FALSE
  MaxStops = 0
  MaxRestarts = 0
  None = None
INVARIANT
  OwnRouter
