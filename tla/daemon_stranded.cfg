\* Two logins of one container that overlap, and both end well.
SPECIFICATION Spec
CONSTANTS
  A = A
  B = B
  l1 = l1
  l2 = l2
  p1 = p1
  p2 = p2
  p3 = p3
  Containers <- OneContainer
  Logins <- TwoLogins
  Home <- InOne
  Pids <- MCPids
  PidReuse = FALSE
  MaxStops = 0
  MaxRestarts = 0
  None = None
INVARIANT
  LoginsStayServed
SYMMETRY Symmetry
