-------------------------- MODULE MCRouterSession --------------------------
(***************************************************************************)
(* Instances of RouterSession for TLC: one name of each kind, one peer on  *)
(* each bus, one request for each case of the router's dispatch.           *)
(***************************************************************************)
EXTENDS RouterSession, TLC

CONSTANTS portal, mpris, app, h1, c1

Call(dest, member, arg, via) ==
  [type |-> "call", dest |-> dest, member |-> member, arg |-> arg, via |-> via]

\* A message of the application to the peer it met as u on bus b.
ToPeer(type, u, b) ==
  [type |-> type, dest |-> u, member |-> "Plain", arg |-> NoName, via |-> b]

ToPeers == {ToPeer(t, p[1], p[2]) : t \in {"call", "return", "signal"},
                                    p \in {<<h1, "host">>, <<c1, "cont">>}}

MCRequests ==
  {Call(DBus, "Hello", NoName, "none"),
   Call(DBus, "AddMatch", portal, "none"),
   Call(DBus, "RequestName", mpris, "none"),
   Call(DBus, "GetNameOwner", portal, "none"),
   Call(DBus, "GetNameOwner", app, "none"),
   Call(DBus, "ListNames", NoName, "none"),
   Call(portal, "Plain", NoName, "none"),
   [Call(portal, "Plain", NoName, "none") EXCEPT !.type = "oneway"],
   Call(app, "Plain", NoName, "none"),
   [Call(NoName, "Plain", NoName, "none") EXCEPT !.type = "signal"]}
  \cup ToPeers

\* What it takes to meet a peer and to address it.
PeerRequests ==
  {r \in MCRequests : r.member \in {"Hello", "GetNameOwner"} \/ r \in ToPeers}

\* Calls of each kind of destination, one of them with NO_REPLY_EXPECTED, for the
\* run that loses connections.
CallsOnly ==
  {Call(DBus, "Hello", NoName, "none"),
   Call(DBus, "GetNameOwner", portal, "none"),
   Call(DBus, "ListNames", NoName, "none"),
   Call(portal, "Plain", NoName, "none"),
   [Call(portal, "Plain", NoName, "none") EXCEPT !.type = "oneway"]}

Emitted(b, type, member, sender, arg, owner) ==
  [type |-> type, reply |-> 0, member |-> member, arg |-> arg, owner |-> owner,
   sender |-> sender, from |-> {b}]

MCEmissions ==
  [b \in Bus |->
    IF b = "host"
    THEN {Emitted(b, "signal", "NameOwnerChanged", DBus, portal, h1),
          Emitted(b, "signal", "NameOwnerChanged", DBus, portal, NoName),
          Emitted(b, "signal", "NameOwnerChanged", DBus, app, h1),
          Emitted(b, "signal", "Plain", h1, NoName, NoName),
          Emitted(b, "call", "Plain", h1, NoName, NoName)}
    ELSE {Emitted(b, "signal", "NameOwnerChanged", DBus, app, c1),
          Emitted(b, "call", "Plain", c1, NoName, NoName)}]

PeerEmissions ==
  [b \in Bus |-> {m \in MCEmissions[b] : m.type = "call" \/ m.owner # NoName}]

\* Any request after Hello; one more when the buses are silent and it addresses a peer
\* the application has just asked about.
ThirdIsToPeer ==
  Len(sent') = MaxSent => /\ sent'[MaxSent - 1].member = "GetNameOwner"
                          /\ sent'[MaxSent] \in ToPeers
                          /\ \A b \in Bus : emitted'[b] = 0

Portal == {portal}
Mpris  == {mpris}
App    == {app}
HPeers == {h1}
CPeers == {c1}
=============================================================================
