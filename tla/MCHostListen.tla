---------------------------- MODULE MCHostListen ----------------------------
(***************************************************************************)
(* Instances of HostListen for TLC: one link that names its source and one *)
(* that looks it up by a pattern.                                          *)
(***************************************************************************)
EXTENDS HostListen

CONSTANTS wayland, xauth

MCLinks   == {wayland, xauth}
OneLink   == {wayland}
MCGlobbed == {xauth}
NoGlob    == {}
AuthLink  == {xauth}
=============================================================================
