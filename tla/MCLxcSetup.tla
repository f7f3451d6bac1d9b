----------------------------- MODULE MCLxcSetup -----------------------------
(* Instances of LxcSetup for TLC: two setups, of containers one of whose names *)
(* begins the other's, and a run or a stop beside them.                        *)
EXTENDS LxcSetup

CONSTANTS dev, devel

MCProcs == {"first", "second", "other"}
MCContainers == {dev, devel}
MCBegins == {<<dev, devel>>}
MCDoes == [p \in MCProcs |-> IF p = "other" THEN {"stop", "run"} ELSE {"setup"}]
MCOf  == [p \in MCProcs |-> IF p = "second" THEN devel ELSE dev]
=============================================================================
