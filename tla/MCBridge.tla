------------------------------ MODULE MCBridge ------------------------------
(***************************************************************************)
(* Instances of Bridge for TLC.                                            *)
(***************************************************************************)
EXTENDS Bridge

CONSTANTS a, b

OneClient  == {a}
TwoClients == {a, b}

\* Waiting makes a difference to programs that run only.
MCRequests == {r \in Request : r.wait \/ r.what = "program"}
=============================================================================
