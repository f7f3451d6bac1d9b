--------------------------- MODULE MCRouterDaemon ---------------------------
(***************************************************************************)
(* Instances of RouterDaemon for TLC.                                      *)
(***************************************************************************)
EXTENDS RouterDaemon, TLC

CONSTANTS A, B, l1, l2, p1, p2, p3

OneContainer  == {A}
TwoContainers == {A, B}
TwoLogins     == {l1, l2}
InOne         == [l \in Logins |-> A]
InTwo         == [l \in Logins |-> IF l = l1 THEN A ELSE B]
MCPids        == {p1, p2}
SomePids      == {p1, p2, p3}

\* Pids are only compared.
Symmetry == Permutations(Pids)
=============================================================================
