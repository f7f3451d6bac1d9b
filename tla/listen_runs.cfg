\* Two runs of the daemon, with three things going wrong.
SPECIFICATION FairSpec
CONSTANTS
  wayland = wayland
  xauth = xauth
  Links <- AuthLink
  Globbed <- MCGlobbed
  MaxRuns = 2
  MaxFaults = 3
INVARIANTS
  TypeOK
  ExitTellsTruth
  FailsOnlyForCause
  NoSocketLeft
  SourceNotEmptied
  ListenInv
PROPERTY
  EndsWhenTold
