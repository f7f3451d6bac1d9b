\* Two logins of one container, a router stopped or killed, a restart.
SPECIFICATION Spec
CONSTANTS
  A = A
  B = B
  l1 = l1
  l2 = l2
  p1 = p1
  p2 = p2
  p3 = p3
  Containers <- OneContainer
  Logins <- TwoLogins
  Home <- InOne
  Pids <- SomePids
  PidReuse = FALSE
  MaxStops = 1
  MaxRestarts = 1
  None = None
INVARIANTS
  TypeOK
  LoginServed
  CalmInv
PROPERTY
  KeepsWorkingRouter
