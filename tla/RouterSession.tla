--------------------------- MODULE RouterSession ---------------------------
(***************************************************************************)
(* One client session of the D-Bus router that lxg runs inside a container *)
(* (container/dbus/router.go, ClientSession and handleClient).             *)
(*                                                                         *)
(* An application connects to the router instead of a bus.  The router     *)
(* opens one connection to the container's bus and, if it can, one to the  *)
(* host's bus, and makes the two look like one.  Three goroutines share    *)
(* the session: "client" (handleClient's own loop, which dispatches what   *)
(* the application sends), "cont" and "host" (which pass on what each bus  *)
(* sends).  Any of them may find its connection dead and close the session *)
(* under the other two.                                                    *)
(*                                                                         *)
(* A step is one access to shared state (a map under the session's mutex,  *)
(* a write to a socket, the closed flag); work on a goroutine's own data   *)
(* is part of the step before it.  The application, the two buses and      *)
(* their peers are the environment.                                        *)
(***************************************************************************)
EXTENDS Naturals, Sequences, FiniteSets

CONSTANTS
  HostTalk,     \* well-known names RouteDestination sends to the host
  HostOwn,      \* well-known names RouteOwnership lets the client own there
  ContNames,    \* well-known names that match no rule
  HostPeers,    \* unique names (":1.N") in use on the host bus
  ContPeers,    \* unique names in use on the container bus
  Requests,     \* what the application may send
  Emissions,    \* what each bus may send unasked
  MaxSent,      \* bound: messages the application sends
  MaxEmitted,   \* bound: unasked messages of each bus
  MaxDrops,     \* bound: connections lost at their other end
  NoMsg         \* "no message in hand"

Bus  == {"cont", "host"}
Link == {"client", "cont", "host"}
DBus == "org.freedesktop.DBus"
NoName == ""

\* A unique name starts with ":", so no rule and no well-known name is one.
Unique == HostPeers \cup ContPeers
Peers  == [b \in Bus |-> IF b = "host" THEN HostPeers ELSE ContPeers]
Names  == HostTalk \cup HostOwn \cup ContNames \cup Unique

\* Members of org.freedesktop.DBus the router tells apart, one for each case
\* of its switch: AddMatch is also RemoveMatch, RequestName also ReleaseName,
\* NameHasOwner also StartServiceByName and the GetConnection... queries,
\* ListNames also ListActivatableNames, NameAcquired also NameLost.
Calls      == {"Hello", "AddMatch", "RequestName", "GetNameOwner", "ListNames",
               "NameHasOwner", "OtherCall"}
BusSignals == {"NameOwnerChanged", "NameAcquired", "OtherBusSignal"}
Members    == Calls \cup BusSignals \cup {"Plain"}

\* What the application sends: its serial is its place in `sent`.  `via` is not
\* on the wire: when the destination is a unique name it is the bus of the peer
\* the application means, or "hostSender" for a peer of the host bus of which it
\* knows only that a signal came from it.  "oneway" is a call flagged
\* NO_REPLY_EXPECTED, and "return" stands for an error reply too.
Request == [type: {"call", "oneway", "return", "signal"},
            dest: Names \cup {DBus, NoName},
            member: Members, arg: Names \cup {NoName},
            via: Bus \cup {"hostSender", "none"}]

\* What a bus sends, or the router hands to the application.  `arg` is the first
\* string of the body and `owner` the third.  `from` says whose answer it
\* carries: {} is the router's own error, both buses a merged name list.
Message == [type: {"call", "return", "error", "signal"}, reply: Nat,
            member: Members, arg: Names \cup {NoName}, owner: Names \cup {NoName},
            sender: Names \cup {DBus, NoName}, from: SUBSET Bus]

IsCall(m)  == m.type \in {"call", "oneway"}   \* msg.Type == TypeMethodCall
IsReply(m) == m.type \in {"return", "error"}

ASSUME SessionAssumption ==
  /\ (HostTalk \cup HostOwn \cup ContNames) \cap Unique = {}
  /\ {DBus, NoName} \cap Names = {}
  /\ (HostTalk \cup HostOwn) \cap ContNames = {}
  /\ Requests \subseteq Request
  /\ \A r \in Requests : r.dest \in Unique <=> r.via # "none"
  /\ Emissions \in [Bus -> SUBSET Message]
  /\ \A b \in Bus : \A m \in Emissions[b] :
        /\ m.type \in {"call", "signal"}
        /\ m.from = {b}
        /\ m.sender \in Peers[b] \cup {NoName, DBus}
        /\ m.owner \in Peers[b] \cup {NoName}
        /\ m.owner # NoName => m.type = "signal" /\ m.member = "NameOwnerChanged"
  /\ MaxSent \in Nat /\ MaxEmitted \in Nat /\ MaxDrops \in Nat
  /\ NoMsg \notin Message

VARIABLES
  pc,               \* where each goroutine is
  conn,             \* the session's connections: "none" is nil
  peer,             \* the remote end of each connection is still there
  closed,           \* ClientSession.closed
  hostPending,      \* ClientSession.hostPending, as records with their key
  merges,           \* ClientSession.merges, as records with their key
  hostUniqueNames,  \* ClientSession.hostUniqueNames
  sent,             \* everything the application sent, in order
  nread,            \* how much of it the client goroutine has read
  wire,             \* what each bus sent and its goroutine has not read
  held,             \* the message each upstream goroutine has in hand
  wrote,            \* serials written to each bus
  replies,          \* replies each bus has made
  emitted,          \* how many unasked messages each bus has sent
  inbox             \* everything the application received, in order

vars == <<pc, conn, peer, closed, hostPending, merges, hostUniqueNames, sent,
          nread, wire, held, wrote, replies, emitted, inbox>>

goVars    == <<hostPending, merges, hostUniqueNames>>
envVars   == <<peer, sent, wire, replies, emitted>>
closeVars == <<conn, closed>>

Serials == 1..Len(sent)

\* A write fails when this side closed the connection or the other one has.
CanWrite(l) == conn[l] = "open" /\ peer[l]

HostConn == conn["host"] # "none"

-----------------------------------------------------------------------------
(* Rules of rules.go over the names of this instance. *)

RouteDestination(n) == n \in HostTalk
RouteOwnership(n)   == n \in HostOwn

\* A match rule is represented by the name it mentions.
MatchSignalRuleHost(n) == n \in HostTalk

\* ClientSession.routeDestination.
routeDestination(n) ==
  RouteDestination(n) \/ RouteOwnership(n) \/ n \in hostUniqueNames

\* What DispatchClientMessage, dispatchSignal and handleDBusManagement do with
\* a message, as the next step of the client goroutine:
\*   swallow      note the serial, copy to the host, then write to the container
\*   merge        open a merge, copy to the host, then write to the container
\*   broadcast    copy to the host, then write to the container
\*   forward      write to the host only, noting the serial of a call
\*   unavailable  answer with an error: a host name, and no host connection
\*   cont         write to the container
Plan(m) ==
  LET onHost(yes) == IF yes /\ HostConn THEN "forward" ELSE "cont" IN
  CASE m.type = "signal" /\ m.dest = NoName ->
         IF HostConn /\ m.member \notin BusSignals THEN "broadcast" ELSE "cont"
    [] m.type = "signal" /\ m.dest # NoName ->
         onHost(m.dest # DBus /\ routeDestination(m.dest))
    [] m.type # "signal" /\ m.dest = DBus ->
         CASE m.member = "Hello" -> IF HostConn THEN "swallow" ELSE "cont"
           [] m.member = "AddMatch" ->
                IF MatchSignalRuleHost(m.arg) /\ HostConn THEN "swallow" ELSE "cont"
           [] m.member = "RequestName" -> onHost(RouteOwnership(m.arg))
           [] m.member \in {"GetNameOwner", "NameHasOwner"} ->
                onHost(routeDestination(m.arg))
           [] m.member = "ListNames" -> IF HostConn THEN "merge" ELSE "cont"
           [] OTHER -> "cont"
    [] OTHER ->
         IF ~routeDestination(m.dest) THEN "cont"
         ELSE IF HostConn THEN "forward" ELSE "unavailable"

\* Mutant: forwarded calls are not noted.
NoteSwallowedOnly(s, plan) ==
  IF plan = "swallow"
  THEN hostPending \cup {[serial |-> s, kind |-> plan, member |-> sent[s].member]}
  ELSE hostPending

\* noteHostPending, at the start of the two plans that call it.
NoteHostPending(s, plan) ==
  LET m == sent[s] IN
  IF plan = "swallow" \/ (plan = "forward" /\ IsCall(m))
  THEN {p \in hostPending : p.serial # s}
         \cup {[serial |-> s, kind |-> plan, member |-> m.member]}
  ELSE hostPending

NoteMerge(s, plan) ==
  IF plan = "merge"
  THEN {st \in merges : st.serial # s}
         \cup {[serial |-> s, part |-> [b \in Bus |-> {}]]}
  ELSE merges

Forget(S, s) == {x \in S : x.serial # s}

-----------------------------------------------------------------------------
Init ==
  /\ pc      = [l \in Link |-> IF l = "client" THEN "auth" ELSE "none"]
  /\ conn    = [l \in Link |-> IF l = "client" THEN "open" ELSE "none"]
  /\ peer    = [l \in Link |-> TRUE]
  /\ closed  = FALSE
  /\ hostPending = {} /\ merges = {} /\ hostUniqueNames = {}
  /\ sent    = <<>> /\ nread = 0
  /\ wire    = [b \in Bus |-> <<>>]
  /\ held    = [b \in Bus |-> NoMsg]
  /\ wrote   = [b \in Bus |-> {}]
  /\ replies = [b \in Bus |-> {}]
  /\ emitted = [b \in Bus |-> 0]
  /\ inbox   = <<>>

Goto(l, place) == pc' = [pc EXCEPT ![l] = place]

(***************************************************************************)
(* handleClient before its loop: authenticate the client, connect to the   *)
(* container bus (fatal if it fails) and to the host bus (nil if it        *)
(* fails), then start the goroutines.                                      *)
(***************************************************************************)
AuthenticateClient ==
  /\ pc["client"] = "auth"
  /\ \E next \in {"dialCont", "close"} : Goto("client", next)
  /\ UNCHANGED <<conn, peer, closed, goVars, sent, nread, wire, held, wrote,
                 replies, emitted, inbox>>

ConnectContainer ==
  /\ pc["client"] = "dialCont"
  /\ \/ \* connected and authenticated
        /\ conn' = [conn EXCEPT !["cont"] = "open"]
        /\ Goto("client", "dialHost")
     \/ \* dial error
        /\ UNCHANGED conn
        /\ Goto("client", "close")
     \/ \* authentication error: session.containerConn is already set
        /\ conn' = [conn EXCEPT !["cont"] = "open"]
        /\ Goto("client", "close")
  /\ UNCHANGED <<peer, closed, goVars, sent, nread, wire, held, wrote, replies,
                 emitted, inbox>>

\* A dial or authentication error leaves session.hostConn nil.
ConnectHost ==
  /\ pc["client"] = "dialHost"
  /\ \E up \in BOOLEAN :
       /\ conn' = [conn EXCEPT !["host"] = IF up THEN "open" ELSE "none"]
       /\ pc'   = [l \in Link |-> IF l = "host" /\ ~up THEN "none" ELSE "read"]
  /\ UNCHANGED <<peer, closed, goVars, sent, nread, wire, held, wrote, replies,
                 emitted, inbox>>

(***************************************************************************)
(* The client goroutine: read a message and dispatch it.  What the plan    *)
(* reads and the note it makes are one step: the note is of a serial that  *)
(* no other goroutine can meet before the write that follows.              *)
(***************************************************************************)
ReadClient ==
  /\ pc["client"] = "read"
  /\ nread < Len(sent)
  /\ nread' = nread + 1
  /\ LET plan == Plan(sent[nread + 1]) IN
       /\ hostPending' = NoteHostPending(nread + 1, plan)
       /\ merges' = NoteMerge(nread + 1, plan)
       /\ Goto("client", plan)
  /\ UNCHANGED <<closeVars, envVars, hostUniqueNames, held, wrote, inbox>>

\* Mutant: a failed copy leaves its note behind.
WriteHostCopyKeepsNote ==
  /\ pc["client"] \in {"swallow", "merge", "broadcast"}
  /\ wrote' = IF CanWrite("host") THEN [wrote EXCEPT !["host"] = @ \cup {nread}] ELSE wrote
  /\ Goto("client", "cont")
  /\ UNCHANGED <<closeVars, envVars, goVars, nread, held, inbox>>

\* writeHostCopy: when it fails the note is taken back and the container still
\* gets the message.
WriteHostCopy ==
  /\ pc["client"] \in {"swallow", "merge", "broadcast"}
  /\ \/ /\ CanWrite("host")
        /\ wrote' = [wrote EXCEPT !["host"] = @ \cup {nread}]
        /\ UNCHANGED <<hostPending, merges>>
     \/ /\ ~CanWrite("host")
        /\ hostPending' = Forget(hostPending, nread)
        /\ merges' = Forget(merges, nread)
        /\ UNCHANGED wrote
  /\ Goto("client", "cont")
  /\ UNCHANGED <<closeVars, envVars, hostUniqueNames, nread, held, inbox>>

\* sendToHost: a failed write takes the note back and ends the session.
SendToHost ==
  /\ pc["client"] = "forward"
  /\ \/ /\ CanWrite("host")
        /\ wrote' = [wrote EXCEPT !["host"] = @ \cup {nread}]
        /\ Goto("client", "read")
        /\ UNCHANGED hostPending
     \/ /\ ~CanWrite("host")
        /\ hostPending' = Forget(hostPending, nread)
        /\ Goto("client", "close")
        /\ UNCHANGED wrote
  /\ UNCHANGED <<closeVars, envVars, merges, hostUniqueNames, nread, held, inbox>>

WriteContainer ==
  /\ pc["client"] = "cont"
  /\ \/ /\ CanWrite("cont")
        /\ wrote' = [wrote EXCEPT !["cont"] = @ \cup {nread}]
        /\ Goto("client", "read")
     \/ /\ ~CanWrite("cont")
        /\ Goto("client", "close")
        /\ UNCHANGED wrote
  /\ UNCHANGED <<closeVars, envVars, goVars, nread, held, inbox>>

\* NewErrorMessage(..., ServiceUnknown, ...)
ServiceUnknown(s) ==
  [type |-> "error", reply |-> s, member |-> "Plain", arg |-> NoName,
   owner |-> NoName, sender |-> NoName, from |-> {}]

ReplyUnavailable ==
  /\ pc["client"] = "unavailable"
  /\ \/ /\ CanWrite("client")
        /\ inbox' = Append(inbox, ServiceUnknown(nread))
        /\ Goto("client", "read")
     \/ /\ ~CanWrite("client")
        /\ Goto("client", "close")
        /\ UNCHANGED inbox
  /\ UNCHANGED <<closeVars, envVars, goVars, nread, held, wrote>>

(***************************************************************************)
(* The upstream goroutines: handleUpstream.                                *)
(***************************************************************************)
\* Mutant: the container's list is taken for the whole list.
ContainerListWins(c, h) == IF c.type = "return" THEN c ELSE h

\* mergeNameListReplies: the names of every reply that is not an error.
MergeNameListReplies(c, h) ==
  LET lists == {m \in {c, h} : m.type = "return"}
      base  == IF c.type = "return" \/ h.type # "return" THEN c ELSE h
  IN  IF lists = {} THEN c
      ELSE [base EXCEPT !.from = UNION {m.from : m \in lists}]

\* Mutant: the merge is not removed when it is complete.
TakeMergeKeepsEntry(b, m, st) ==
  LET part == [st.part EXCEPT ![b] = {m}] IN
  /\ merges' = Forget(merges, m.reply) \cup {[st EXCEPT !.part = part]}
  /\ IF \E o \in Bus : part[o] = {}
     THEN UNCHANGED <<held, pc>>
     ELSE /\ \E c \in part["cont"], h \in part["host"] :
               held' = [held EXCEPT ![b] = MergeNameListReplies(c, h)]
          /\ Goto(b, "sendMerged")

\* takeMerge keeps the first reply; with the second the merge is removed and
\* the merged list is to be sent.
TakeMerge(b, m, st) ==
  LET part == [st.part EXCEPT ![b] = {m}] IN
  IF \E o \in Bus : part[o] = {}
  THEN /\ merges' = Forget(merges, m.reply) \cup {[st EXCEPT !.part = part]}
       /\ UNCHANGED <<held, pc>>
  ELSE /\ merges' = Forget(merges, m.reply)
       /\ \E c \in part["cont"], h \in part["host"] :
            held' = [held EXCEPT ![b] = MergeNameListReplies(c, h)]
       /\ Goto(b, "sendMerged")

Hold(b, m, place) ==
  /\ held' = [held EXCEPT ![b] = m]
  /\ Goto(b, place)

\* Mutant: the kind of the note is ignored.
TakeHostReplyPassesAll(m, p) ==
  hostPending' = hostPending \ {p} /\ Hold("host", m, "send")

\* Mutant: the owner in a GetNameOwner reply is not remembered.
TakeHostReplyForgetsOwner(m, p) ==
  /\ hostPending' = hostPending \ {p}
  /\ IF p.kind = "swallow" THEN UNCHANGED <<held, pc>> ELSE Hold("host", m, "send")

\* A reply from the host is wanted only if it was noted; a swallowed one is not
\* passed on, but a Hello's tells the client's own name there.
TakeHostReply(m, p) ==
  /\ hostPending' = hostPending \ {p}
  /\ CASE p.kind = "swallow" /\ p.member = "Hello" /\ m.type = "return" ->
            Hold("host", m, "learn")
       [] p.kind = "swallow" /\ ~(p.member = "Hello" /\ m.type = "return") ->
            UNCHANGED <<held, pc>>
       [] p.kind = "forward" /\ p.member = "GetNameOwner" /\ m.type = "return" ->
            Hold("host", m, "remember")
       [] OTHER -> Hold("host", m, "send")

\* shouldForwardHostSignal, whose remembering of a new owner is the next step.
ForwardHostSignal(m) ==
  /\ m.type = "signal"
  /\ m.member \in BusSignals =>
       /\ m.member \in {"NameOwnerChanged", "NameAcquired"}
       /\ RouteDestination(m.arg) \/ RouteOwnership(m.arg)

\* ReadMessage returns the next message; data already read from the socket may
\* be returned after the connection is closed.
Take(b) ==
  /\ pc[b] = "read"
  /\ wire[b] # <<>>
  /\ wire' = [wire EXCEPT ![b] = Tail(@)]
  /\ LET m == Head(wire[b]) IN
       \/ \E st \in merges :
            /\ IsReply(m) /\ st.serial = m.reply
            /\ TakeMerge(b, m, st)
            /\ UNCHANGED hostPending
       \/ /\ IsReply(m) /\ b = "host"
          /\ \A st \in merges : st.serial # m.reply
          /\ \E p \in hostPending : p.serial = m.reply /\ TakeHostReply(m, p)
          /\ UNCHANGED merges
       \/ \* a host reply nobody asked for, or a host message not to forward
          /\ b = "host"
          /\ IF IsReply(m) THEN \A x \in merges \cup hostPending : x.serial # m.reply
                           ELSE ~ForwardHostSignal(m)
          /\ UNCHANGED <<hostPending, merges, held, pc>>
       \/ /\ IF IsReply(m) THEN b = "cont" /\ \A st \in merges : st.serial # m.reply
                           ELSE b = "host" => ForwardHostSignal(m)
          /\ Hold(b, m, IF b = "host" /\ m.member = "NameOwnerChanged"
                        THEN "remember" ELSE "send")
          /\ UNCHANGED <<hostPending, merges>>
  /\ UNCHANGED <<closeVars, peer, sent, replies, emitted, hostUniqueNames, nread,
                 wrote, inbox>>

\* rememberHostUnique ignores what is not a unique name.  hostUniqueName, which
\* is written here for a Hello and read nowhere, is left out.
NameIn(m) == IF IsReply(m) THEN m.arg ELSE m.owner

\* Mutant: names that do not start with ":" are remembered too.
RememberAnyName ==
  /\ pc["host"] \in {"learn", "remember"}
  /\ hostUniqueNames' = hostUniqueNames \cup {NameIn(held["host"])}
  /\ IF pc["host"] = "remember"
     THEN Goto("host", "send") /\ UNCHANGED held
     ELSE Hold("host", NoMsg, "read")
  /\ UNCHANGED <<closeVars, envVars, hostPending, merges, nread, wrote, inbox>>

RememberHostUnique ==
  /\ pc["host"] \in {"learn", "remember"}
  /\ hostUniqueNames' = hostUniqueNames \cup ({NameIn(held["host"])} \cap Unique)
  /\ IF pc["host"] = "remember"
     THEN Goto("host", "send") /\ UNCHANGED held
     ELSE Hold("host", NoMsg, "read")
  /\ UNCHANGED <<closeVars, envVars, hostPending, merges, nread, wrote, inbox>>

\* SendToClient; takeMerge ignores its error, handleUpstream does not.
SendToClient(b) ==
  /\ pc[b] \in {"send", "sendMerged"}
  /\ \/ /\ CanWrite("client")
        /\ inbox' = Append(inbox, held[b])
        /\ Hold(b, NoMsg, "read")
     \/ /\ ~CanWrite("client")
        /\ Hold(b, NoMsg, IF pc[b] = "send" THEN "close" ELSE "read")
        /\ UNCHANGED inbox
  /\ UNCHANGED <<closeVars, envVars, goVars, nread, wrote>>

(***************************************************************************)
(* The end of a goroutine and of the session.                              *)
(***************************************************************************)
\* ReadMessage fails on a connection closed here, or closed by the other end
\* and empty.
ReadFails(l) ==
  /\ pc[l] = "read"
  /\ \/ conn[l] = "closed"
     \/ /\ ~peer[l]
        /\ IF l = "client" THEN nread = Len(sent) ELSE wire[l] = <<>>
  /\ Goto(l, "close")
  /\ UNCHANGED <<closeVars, envVars, goVars, nread, held, wrote, inbox>>

\* After Close an upstream goroutine is done (its deferred wg.Done runs after
\* its deferred Close); handleClient goes on to wg.Wait.
AfterClose(l) == IF l = "client" THEN "wait" ELSE "done"

\* Mutant: the CompareAndSwap result is read the wrong way round.
CloseInverted(l) ==
  /\ pc[l] = "close"
  /\ closed' = TRUE
  /\ Goto(l, IF closed THEN "closing" ELSE AfterClose(l))
  /\ UNCHANGED <<conn, envVars, goVars, nread, held, wrote, inbox>>

\* ClientSession.Close: the one whose CompareAndSwap succeeds closes them all.
Close(l) ==
  /\ pc[l] = "close"
  /\ closed' = TRUE
  /\ Goto(l, IF closed THEN AfterClose(l) ELSE "closing")
  /\ UNCHANGED <<conn, envVars, goVars, nread, held, wrote, inbox>>

CloseOrder == [client |-> 1, host |-> 2, cont |-> 3]

CloseConn(l) ==
  /\ pc[l] = "closing"
  /\ \E c \in Link :
       /\ conn[c] = "open"
       /\ \A d \in Link : conn[d] = "open" => CloseOrder[c] <= CloseOrder[d]
       /\ conn' = [conn EXCEPT ![c] = "closed"]
  /\ UNCHANGED <<pc, closed, envVars, goVars, nread, held, wrote, inbox>>

CloseReturns(l) ==
  /\ pc[l] = "closing"
  /\ \A c \in Link : conn[c] # "open"
  /\ Goto(l, AfterClose(l))
  /\ UNCHANGED <<closeVars, envVars, goVars, nread, held, wrote, inbox>>

\* Mutant: handleClient does not wait for its goroutines.
FinishAtOnce ==
  /\ pc["client"] = "wait"
  /\ Goto("client", "done")
  /\ UNCHANGED <<closeVars, envVars, goVars, nread, held, wrote, inbox>>

\* wg.Wait, then the readers are closed and handleClient returns.
Finish ==
  /\ pc["client"] = "wait"
  /\ \A b \in Bus : pc[b] \in {"none", "done"}
  /\ Goto("client", "done")
  /\ UNCHANGED <<closeVars, envVars, goVars, nread, held, wrote, inbox>>

\* handleClient has returned, or every goroutine waits for something to read.
Rest ==
  /\ \/ pc["client"] = "done"
     \/ /\ \A l \in Link : pc[l] \in {"none", "read"}
        /\ nread = Len(sent)
        /\ \A b \in Bus : wire[b] = <<>>
  /\ UNCHANGED vars

-----------------------------------------------------------------------------
(***************************************************************************)
(* The environment: the application, the buses and their peers.            *)
(***************************************************************************)
\* The unique names a message gives the application that has sent q: the owner
\* of a name, the caller of a call, the sender of a signal of the container.  The
\* sender of a signal of the host is a case of its own.
Tells(m, q) ==
  CASE m.type = "return" ->
         IF q[m.reply].member = "GetNameOwner" THEN {m.arg} ELSE {}
    [] m.type = "call"   -> {m.sender}
    [] m.type = "signal" -> {m.owner} \cup (IF m.from = {"cont"} THEN {m.sender} ELSE {})
    [] OTHER -> {}

Learned(u, via) ==
  \E i \in 1..Len(inbox) :
    IF via = "hostSender"
    THEN inbox[i].type = "signal" /\ inbox[i].from = {"host"} /\ inbox[i].sender = u
    ELSE inbox[i].from = {via} /\ u \in Tells(inbox[i], sent)

\* Hello comes first and only first; a unique name is addressed only when
\* learned, and replied to only when a call came from it.
ClientSend(r) ==
  /\ peer["client"] /\ conn["client"] = "open" /\ pc["client"] # "auth"
  /\ Len(sent) < MaxSent
  /\ (r.member = "Hello") <=> (sent = <<>>)
  /\ r.via # "none" => Learned(r.dest, r.via)
  /\ r.type = "return" => \E i \in 1..Len(inbox) :
       /\ inbox[i].type = "call" /\ inbox[i].sender = r.dest
       /\ inbox[i].from = {r.via}
  /\ sent' = Append(sent, r)
  /\ UNCHANGED <<pc, conn, peer, closed, goVars, nread, wire, held, wrote, replies,
                 emitted, inbox>>

\* The strings a bus may answer with: the caller's own name, a name's owner.
ReplyArgs(b, m) ==
  IF m.member \in {"Hello", "GetNameOwner"} /\ m.dest = DBus THEN Peers[b] ELSE {NoName}

\* The serials bus b has replied to.
Replied(b) == {m.reply : m \in replies[b]}

BusReply(b, s) ==
  /\ CanWrite(b)
  /\ s \in wrote[b] /\ sent[s].type = "call" /\ s \notin Replied(b)
  /\ \E t \in {"return", "error"} :
     \E a \in IF t = "return" THEN ReplyArgs(b, sent[s]) ELSE {NoName} :
       LET m == [type |-> t, reply |-> s, member |-> "Plain", arg |-> a,
                 owner |-> NoName, sender |-> NoName, from |-> {b}]
       IN  /\ wire'    = [wire EXCEPT ![b] = Append(@, m)]
           /\ replies' = [replies EXCEPT ![b] = @ \cup {m}]
  /\ UNCHANGED <<pc, conn, peer, closed, goVars, sent, nread, held, wrote, emitted,
                 inbox>>

\* A bus sends a client nothing before its Hello.
BusEmit(b) ==
  /\ CanWrite(b)
  /\ 1 \in wrote[b]
  /\ emitted[b] < MaxEmitted
  /\ \E m \in Emissions[b] : wire' = [wire EXCEPT ![b] = Append(@, m)]
  /\ emitted' = [emitted EXCEPT ![b] = @ + 1]
  /\ UNCHANGED <<pc, conn, peer, closed, goVars, sent, nread, held, wrote, replies,
                 inbox>>

Drop(l) ==
  /\ CanWrite(l)
  /\ Cardinality({d \in Link : ~peer[d]}) < MaxDrops
  /\ peer' = [peer EXCEPT ![l] = FALSE]
  /\ UNCHANGED <<pc, conn, closed, goVars, sent, nread, wire, held, wrote, replies,
                 emitted, inbox>>

-----------------------------------------------------------------------------
Setup == AuthenticateClient \/ ConnectContainer \/ ConnectHost

Dispatch == ReadClient \/ WriteHostCopy \/ SendToHost \/ WriteContainer
              \/ ReplyUnavailable

Upstream(b) == Take(b) \/ SendToClient(b)

Teardown(l) == ReadFails(l) \/ Close(l) \/ CloseConn(l) \/ CloseReturns(l)

Environment ==
  \/ \E r \in Requests : ClientSend(r)
  \/ \E b \in Bus : \E s \in Serials : BusReply(b, s)
  \/ \E b \in Bus : BusEmit(b)
  \/ \E l \in Link : Drop(l)

Next ==
  \/ Setup
  \/ Dispatch
  \/ \E b \in Bus : Upstream(b)
  \/ RememberHostUnique
  \/ \E l \in Link : Teardown(l)
  \/ Finish
  \/ Environment
  \/ Rest

Spec == Init /\ [][Next]_vars

\* Go's scheduler runs every goroutine that can run, and reads and writes on
\* these sockets return.  A bus answers a call it was sent.  Nobody is obliged
\* to send, emit or disconnect.
Fairness ==
  /\ WF_vars(Setup) /\ WF_vars(Dispatch) /\ WF_vars(RememberHostUnique)
  /\ WF_vars(Finish)
  /\ \A b \in Bus : WF_vars(Upstream(b))
  /\ \A l \in Link : WF_vars(Teardown(l))
  /\ \A b \in Bus : \A s \in 1..MaxSent : WF_vars(s \in Serials /\ BusReply(b, s))

FairSpec == Spec /\ Fairness

-----------------------------------------------------------------------------
(***************************************************************************)
(* Properties.                                                             *)
(***************************************************************************)
Places == {"none", "auth", "dialCont", "dialHost", "read", "swallow", "merge",
           "broadcast", "forward", "unavailable", "cont", "learn", "remember",
           "send", "sendMerged", "close", "closing", "wait", "done"}

ControlOK ==
  /\ pc \in [Link -> Places]
  /\ conn \in [Link -> {"none", "open", "closed"}]
  /\ peer \in [Link -> BOOLEAN]
  /\ closed \in BOOLEAN

TablesOK ==
  /\ hostPending \subseteq
       [serial: Nat, kind: {"swallow", "forward"}, member: Members]
  /\ merges \subseteq [serial: Nat, part: [Bus -> SUBSET Message]]
  /\ hostUniqueNames \subseteq Unique

TrafficOK ==
  /\ sent \in Seq(Requests)
  /\ nread \in 0..Len(sent)
  /\ wire \in [Bus -> Seq(Message)]
  /\ wrote \in [Bus -> SUBSET (1..nread)]
  /\ replies \in [Bus -> SUBSET Message]
  /\ emitted \in [Bus -> Nat]
  /\ inbox \in Seq(Message)

HandsOK ==
  /\ held \in [Bus -> Message \cup {NoMsg}]
  /\ \A b \in Bus :
       pc[b] \in {"learn", "remember", "send", "sendMerged"} => held[b] # NoMsg
  /\ pc["client"] \in {"swallow", "merge", "broadcast", "forward", "cont",
                       "unavailable"} => nread > 0
  /\ pc["client"] \in {"auth", "dialCont", "dialHost"} => nread = 0

\* The session's maps and connections hold what their Go types say, and a
\* goroutine that is about to use a message has one.
TypeOK == ControlOK /\ TablesOK /\ TrafficOK /\ HandsOK

\* No two replies in a stream have one serial.
OncePerSerial(q) ==
  \A i, j \in 1..Len(q) :
    IsReply(q[i]) /\ IsReply(q[j]) /\ q[i].reply = q[j].reply => i = j

\* The application never gets two answers to one call, although Hello, AddMatch
\* and ListNames are sent to both buses and both answer.
AtMostOneAnswer == OncePerSerial(inbox)

HostHas(s) == s \in wrote["host"]
ReplyOf(b, s) == CHOOSE m \in replies[b] : m.reply = s

\* A question to the bus itself that is about a name of the host.
AsksHost(r) ==
  /\ r.type = "call" /\ r.dest = DBus
  /\ \/ r.member = "RequestName" /\ RouteOwnership(r.arg)
     \/ /\ r.member \in {"GetNameOwner", "NameHasOwner"}
        /\ RouteDestination(r.arg) \/ RouteOwnership(r.arg)

\* The answer m is that of the bus that owns what was asked: the container for the
\* application's identity and matches, the host for messages to host names and, when
\* there is a connection to it, for questions about them, and for a list of names
\* every bus that was asked and gave a list.
FromOwner(m) ==
  LET r == sent[m.reply] IN
  /\ \A b \in m.from : m.reply \in wrote[b] \cap Replied(b)
  /\ m.from = {} => \A b \in Bus : m.reply \notin wrote[b]
  /\ r.dest = DBus /\ r.member \in {"Hello", "AddMatch"} => m.from = {"cont"}
  /\ r.dest \in HostTalk /\ m.from # {} => m.from = {"host"}
  /\ AsksHost(r) /\ HostConn => m.from = {"host"}
  /\ r.dest = DBus /\ r.member = "ListNames" =>
       LET asked == {b \in Bus : m.reply \in wrote[b]}
           gave  == {b \in asked : ReplyOf(b, m.reply).type = "return"}
       IN  /\ \A b \in asked : m.reply \in Replied(b)
           /\ m.from = IF gave = {} THEN {"cont"} ELSE gave

\* The application gets the answer of the bus that owns what it asked, whichever of
\* the two were asked, and never one that is stale or made up.
AnsweredByOwner ==
  \A i \in 1..Len(inbox) : IsReply(inbox[i]) => FromOwner(inbox[i])

\* A message to a peer of the host bus that the application was told of as an
\* owner never goes to the container, whatever peer bears the same name there: the
\* router knows the name before the application can use it.  A message to a peer
\* of the container goes to the host only if the host bus has a peer of that name.
RoutesPeers ==
  \A s \in Serials :
    /\ sent[s].via = "host" => s \notin wrote["cont"]
    /\ sent[s].via = "cont" /\ s \in wrote["host"] => sent[s].dest \in HostPeers

\* DispatchClientMessage, "routes an incoming client message to the appropriate
\* upstream": a message to a unique name goes to the bus where the application met
\* that name, as an owner, a caller or a sender.
UniqueDestinationsReachTheirPeer ==
  \A s \in Serials : \A b \in Bus :
    sent[s].via # "none" /\ s \in wrote[b] =>
      b = IF sent[s].via = "hostSender" THEN "host" ELSE sent[s].via

\* The serials whose reply from bus b is on the wire.
RepliesIn(q) == {q[i].reply : i \in {j \in 1..Len(q) : IsReply(q[j])}}
OnWire(b) == RepliesIn(wire[b])

\* Bus b has been sent the call s, and no answer to it has been read.
Unanswered(b, s) ==
  /\ s \in wrote[b] /\ IsCall(sent[s])
  /\ s \notin Replied(b) \/ s \in OnWire(b)

\* Bus b has to answer s, or its answer is not yet read.
Owes(b, s) == Unanswered(b, s) /\ sent[s].type = "call"

\* A call that no bus answers, as its flags ask for: what is noted of it stays.
Lingers(b, s) == Unanswered(b, s) /\ sent[s].type = "oneway"

\* The client goroutine has noted s and not yet written it to the host.
AboutToWrite(s) == s = nread /\ pc["client"] \in {"swallow", "merge", "forward"}

\* The router's tables say exactly what it is waiting for.  A reply the host
\* owes finds its note (so none is dropped as not asked for), the entry of a call
\* that expects an answer outlives neither its reply nor a failed write, and a
\* merge has the part of each bus that is no longer owed.  The entries of calls
\* flagged NO_REPLY_EXPECTED are the only others: noteHostPending does not look at
\* the flag, and they stay as long as the session.
TablesMatchDebts ==
  LET noted  == {p.serial : p \in hostPending}
      merged == {st.serial : st \in merges}
  IN  /\ noted \cap merged = {}
      /\ \A s \in noted :
           /\ IsCall(sent[s])
           /\ AboutToWrite(s) \/ Owes("host", s) \/ Lingers("host", s)
      /\ \A s \in wrote["host"] :
           Owes("host", s) \/ Lingers("host", s) => s \in noted \cup merged
      /\ \A st \in merges :
           LET s == st.serial IN
             /\ AboutToWrite(s) \/ HostHas(s)
             /\ HostHas(s) => (st.part["host"] = {} <=> Unanswered("host", s))
             /\ st.part["cont"] # {} => s \in Replied("cont") /\ ~Unanswered("cont", s)
             /\ \E b \in Bus : st.part[b] = {}

\* When handleClient returns, and its readers are released, every connection
\* is closed and no goroutine of the session is left to use them.
CleanExit ==
  pc["client"] = "done" =>
    /\ closed
    /\ \A l \in Link : conn[l] # "open"
    /\ \A b \in Bus : pc[b] \in {"none", "done"}

Answered(s) == \E i \in 1..Len(inbox) : IsReply(inbox[i]) /\ inbox[i].reply = s

\* Every call the application sends is answered, unless the session ends.
EveryCallAnswered ==
  \A s \in 1..MaxSent :
    (s \in Serials /\ sent[s].type = "call") ~> (Answered(s) \/ closed)

\* Once one goroutine finds its connection dead, all of them end.
TeardownCompletes ==
  (\E l \in Link : ~peer[l] \/ pc[l] = "close") ~> pc["client"] = "done"

\* The messages of the inbox that answer one of the application's, and which.
AnswersIn(q) == {<<i, q[i].reply>> : i \in {j \in 1..Len(q) : IsReply(q[j])}}

\* The application sees one bus.
Promise == INSTANCE BusPromise WITH
  asked   <- Len(sent),
  got     <- Len(inbox),
  answers <- AnswersIn(inbox),
  open    <- conn["client"] = "open"

\* The session implements BusPromise: whatever the two buses and the three
\* goroutines do, the application's end of it behaves like a single bus
\* (handleClient, DispatchClientMessage, handleUpstream, Close).
KeepsPromise == Promise!Spec

-----------------------------------------------------------------------------
(***************************************************************************)
(* Why RoutesPeers holds: the names of owners on the host that the         *)
(* application has been told are in hostUniqueNames, which holds names of  *)
(* the host bus only.                                                      *)
(***************************************************************************)
Sound(m, q, known) ==
  /\ m.type = "return" => m.reply \in 1..Len(q)
  /\ m.from = {"host"} => Tells(m, q) \cap Unique \subseteq known
  /\ m.from = {"cont"} => Tells(m, q) \cap Unique \subseteq ContPeers

\* What bus b may send to an application that has sent q.
FromBus(m, b, q) ==
  /\ m.from = {b}
  /\ IsReply(m) => m.reply \in 1..Len(q)
  /\ m.type = "return" => m.arg \in Peers[b] \cup {NoName}
  /\ m.sender \in Peers[b] \cup {NoName, DBus}
  /\ m.owner \in Peers[b] \cup {NoName}
  /\ m.owner # NoName => m.type = "signal" /\ m.member = "NameOwnerChanged"

TrafficSound ==
  /\ \A b \in Bus : \A i \in 1..Len(wire[b]) : FromBus(wire[b][i], b, sent)
  /\ \A i \in 1..Len(inbox) : Sound(inbox[i], sent, hostUniqueNames)
  /\ \A b \in Bus : pc[b] \in {"send", "sendMerged"} =>
       Sound(held[b], sent, hostUniqueNames)
  /\ pc["host"] \in {"learn", "remember"} =>
       FromBus(held["host"], "host", sent) /\ held["host"].type \in {"return", "signal"}

TablesSound ==
  /\ hostUniqueNames \subseteq HostPeers
  /\ pc["client"] \in {"auth", "dialCont", "dialHost"} => ~HostConn
  /\ pc["host"] # "none" => HostConn
  /\ hostUniqueNames # {} => HostConn
  /\ \A p \in hostPending : p.serial \in Serials /\ p.member = sent[p.serial].member
  /\ \A st \in merges :
       /\ st.serial \in Serials
       /\ sent[st.serial].member = "ListNames"
       /\ \A b \in Bus : \A m \in st.part[b] : IsReply(m) /\ m.reply = st.serial

SentSound ==
  \A s \in Serials :
    /\ sent[s].via = "host" => sent[s].dest \in hostUniqueNames
    /\ sent[s].via = "cont" => sent[s].dest \in ContPeers

PlanSound ==
  /\ pc["client"] \in {"swallow", "merge", "broadcast"} => sent[nread].via = "none"
  /\ pc["client"] = "forward" /\ sent[nread].via = "cont" => sent[nread].dest \in HostPeers
  /\ pc["client"] = "cont" => sent[nread].via # "host"

\* Inductive, together with TypeOK.
RoutingInv ==
  /\ TrafficSound
  /\ TablesSound
  /\ SentSound
  /\ PlanSound
  /\ RoutesPeers

-----------------------------------------------------------------------------
(***************************************************************************)
(* Why AtMostOneAnswer holds: as long as an answer to s may still come     *)
(* from somewhere, none is on its way to the application.                  *)
(***************************************************************************)
Busy == {"swallow", "merge", "broadcast", "forward", "cont", "unavailable"}

\* Goroutine b is about to hand a reply to the application.
Delivering(b) == pc[b] \in {"remember", "send", "sendMerged"} /\ IsReply(held[b])

\* The serials to which an answer may still arise: not dispatched yet, the
\* host's reply is to be forwarded, a merge is open, or the container's reply
\* is outstanding.
Unsettled ==
  {s \in Nat :
    \/ s > nread
    \/ s = nread /\ pc["client"] \in Busy
    \/ \E p \in hostPending : p.serial = s /\ p.kind = "forward"
    \/ \E st \in merges : st.serial = s
    \/ s \in wrote["cont"] /\ (s \notin Replied("cont") \/ s \in OnWire("cont"))}

\* A bus replies once to what it was sent.
StreamsOnce ==
  \A b \in Bus :
    /\ OncePerSerial(wire[b])
    /\ OnWire(b) \subseteq Replied(b)
    /\ Replied(b) \subseteq wrote[b]

TablesOnce ==
  /\ \A p \in hostPending : p.serial \in 1..nread
  /\ \A p \in hostPending : p.kind = "forward" =>
       /\ p.serial \notin wrote["cont"]
       /\ \A st \in merges : st.serial # p.serial
       /\ p.serial = nread /\ pc["client"] \in Busy => pc["client"] = "forward"
  /\ \A st \in merges :
       /\ st.serial \in 1..nread
       /\ st.serial = nread /\ pc["client"] \in Busy => pc["client"] \in {"merge", "cont"}
       /\ \A b \in Bus : \A m \in st.part[b] : IsReply(m) /\ m.reply = st.serial
       /\ \A b \in Bus : st.part[b] # {} =>
            st.serial \in Replied(b) \ OnWire(b)
  /\ \A p, q \in hostPending : p.serial = q.serial => p = q
  /\ \A st, tt \in merges : st.serial = tt.serial => st = tt
  /\ pc["client"] \in Busy => nread \notin wrote["cont"]
  /\ pc["client"] = "forward" => nread \notin wrote["host"]

AnswersOnce ==
  /\ AtMostOneAnswer
  /\ \A i \in 1..Len(inbox) : IsReply(inbox[i]) => inbox[i].reply \notin Unsettled
  /\ \A b \in Bus : Delivering(b) =>
       /\ held[b].reply \notin Unsettled
       /\ \A i \in 1..Len(inbox) :
            IsReply(inbox[i]) => inbox[i].reply # held[b].reply
  /\ Delivering("cont") /\ Delivering("host") =>
       held["cont"].reply # held["host"].reply

\* Inductive, together with TypeOK.
AnswerInv == StreamsOnce /\ TablesOnce /\ AnswersOnce

-----------------------------------------------------------------------------
(***************************************************************************)
(* Why CleanExit holds: who has won the CompareAndSwap of Close closes     *)
(* every connection before its goroutine ends, and none is opened later.   *)
(***************************************************************************)
ExitInv ==
  /\ pc["client"] \in {"auth", "dialCont", "dialHost"} =>
       ~closed /\ \A b \in Bus : pc[b] = "none"
  /\ \A l \in Link : pc[l] \in {"closing", "wait", "done"} => closed
  /\ closed => \/ \E l \in Link : pc[l] = "closing"
               \/ \A l \in Link : conn[l] # "open"
  /\ CleanExit

-----------------------------------------------------------------------------
(***************************************************************************)
(* Why TablesMatchDebts holds: what the client goroutine has planned for a *)
(* message is noted before it is written, and returns are never noted.     *)
(***************************************************************************)
ReturnsGoToPeers ==
  \A s \in Serials : sent[s].type = "return" => sent[s].dest \in Unique

PlannedDebts ==
  LET r == sent[nread] IN
  /\ pc["client"] \in Busy \ {"cont"} => nread \notin wrote["host"]
  /\ pc["client"] = "swallow" => \E p \in hostPending : p.serial = nread
  /\ pc["client"] = "forward" /\ IsCall(r) => \E p \in hostPending : p.serial = nread
  /\ pc["client"] = "merge" => IsCall(r) /\ \E st \in merges : st.serial = nread
  /\ pc["client"] = "broadcast" => ~IsCall(r)

\* Inductive, together with TypeOK and AnswerInv.
DebtsInv == ReturnsGoToPeers /\ PlannedDebts /\ TablesMatchDebts

-----------------------------------------------------------------------------
(***************************************************************************)
(* Why AnsweredByOwner holds: each table leads only to answers of the bus  *)
(* that owns what was asked.                                               *)
(***************************************************************************)
ListCall(r) == r.type = "call" /\ r.dest = DBus /\ r.member = "ListNames"

\* A bus makes one reply to a call, in its own name; the rest of what it sends
\* replies to nothing.
RepliesOwned ==
  \A b \in Bus :
    /\ \A m \in replies[b] : /\ m.reply \in Nat /\ IsReply(m) /\ m.from = {b}
                             /\ sent[m.reply].type = "call"
    /\ \A m, n \in replies[b] : m.reply = n.reply => m = n
    /\ \A i \in 1..Len(wire[b]) : IsReply(wire[b][i]) => wire[b][i] \in replies[b]

TablesOwned ==
  /\ \A p \in hostPending : p.kind = "forward" =>
       LET r == sent[p.serial] IN
         ~(r.dest = DBus /\ r.member \in {"Hello", "AddMatch", "ListNames"})
  /\ \A st \in merges :
       /\ sent[st.serial].dest = DBus /\ sent[st.serial].member = "ListNames"
       /\ \A b \in Bus : st.part[b] \subseteq replies[b]

\* No call for a host name is in the container's hands, nor a question about one as
\* long as there is a host, and a list the host was asked for is merged.
WritesOwned ==
  /\ \A s \in wrote["cont"] :
       /\ sent[s].type = "call" => sent[s].dest \notin HostTalk
       /\ AsksHost(sent[s]) => ~HostConn
  /\ \A s \in wrote["host"] : ListCall(sent[s]) =>
       (\E st \in merges : st.serial = s) \/ s \in Replied("cont") \ OnWire("cont")

PlanOwned ==
  LET r == sent[nread] IN
  /\ pc["client"] \in {"swallow", "merge", "broadcast", "cont"} /\ r.type = "call"
       => r.dest \notin HostTalk
  /\ pc["client"] \in {"swallow", "merge", "broadcast", "cont"} /\ AsksHost(r) => ~HostConn
  /\ pc["client"] \in {"swallow", "broadcast", "forward"} => ~ListCall(r)
  /\ pc["client"] = "unavailable" => r.dest # DBus

HandsOwned ==
  /\ AnsweredByOwner
  /\ \A i \in 1..Len(inbox) : IsReply(inbox[i]) => inbox[i].reply \in 1..nread
  /\ \A b \in Bus : Delivering(b) => FromOwner(held[b]) /\ held[b].reply \in 1..nread

\* Inductive, together with TypeOK, AnswerInv and PlannedDebts.
OwnerInv == RepliesOwned /\ TablesOwned /\ WritesOwned /\ PlanOwned /\ HandsOwned
=============================================================================
