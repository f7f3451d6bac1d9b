\* A run that is stopped while nothing goes wrong.
SPECIFICATION Spec
CONSTANTS
  wayland = wayland
  xauth = xauth
  Links <- OneLink
  Globbed <- NoGlob
  MaxRuns = 1
  MaxFaults = 0
INVARIANT
  MountsUndone
