----------------------- MODULE RouterSession_proofs -----------------------
(***************************************************************************)
(* Theorems about RouterSession, for every choice of names, peers,         *)
(* requests, emissions and bounds.                                         *)
(***************************************************************************)
EXTENDS RouterSession, TLAPS

\* Appending keeps the type of a sequence.
LEMMA AppendType ==
  ASSUME NEW S, NEW q \in Seq(S), NEW x \in S
  PROVE  Append(q, x) \in Seq(S)
OBVIOUS

\* Taking the first message of a stream leaves a stream.
LEMMA TakeType ==
  ASSUME NEW S, NEW q \in Seq(S), q # <<>>
  PROVE  Head(q) \in S /\ Tail(q) \in Seq(S)
OBVIOUS

\* The error the router makes up is a message.
LEMMA ServiceUnknownType ==
  ASSUME NEW s \in Nat
  PROVE  ServiceUnknown(s) \in Message
BY DEF ServiceUnknown, Message, Members, BusSignals, Calls

\* A merged list of names is a message, and names no bus that sent neither list.
LEMMA MergedType ==
  ASSUME NEW c \in Message, NEW h \in Message
  PROVE  MergeNameListReplies(c, h) \in Message
<1> DEFINE lists == {m \in {c, h} : m.type = "return"}
           base  == IF c.type = "return" \/ h.type # "return" THEN c ELSE h
           whole == UNION {m.from : m \in lists}
<1>1. base \in Message
  OBVIOUS
<1>2. whole \in SUBSET Bus
  BY DEF Message
<1>3. [base EXCEPT !.from = whole] \in Message
  <2> HIDE DEF base, whole
  <2> QED BY <1>1, <1>2 DEF Message
<1> QED BY <1>3 DEF MergeNameListReplies

\* A goroutine goes to a place and the others stay where they are.
LEMMA GotoType ==
  ASSUME ControlOK, NEW l \in Link, NEW place \in Places, Goto(l, place)
  PROVE  /\ pc' \in [Link -> Places]
         /\ pc'[l] = place
         /\ \A k \in Link \ {l} : pc'[k] = pc[k]
<1> HIDE DEF Places, Link
<1> QED BY DEF Goto, ControlOK

THEOREM InitTypeOK == Init => TypeOK
<1> SUFFICES ASSUME Init PROVE TypeOK
  OBVIOUS
<1>1. ControlOK
  BY DEF Init, ControlOK, Link, Places
<1>2. TablesOK
  BY DEF Init, TablesOK
<1>3. TrafficOK
  BY DEF Init, TrafficOK
<1>4. HandsOK
  BY DEF Init, HandsOK, Link, Bus
<1> QED BY <1>1, <1>2, <1>3, <1>4 DEF TypeOK

LEMMA SetupTypeOK == TypeOK /\ Setup => TypeOK'
<1> SUFFICES ASSUME TypeOK, Setup PROVE TypeOK'
  OBVIOUS
<1> USE DEF TypeOK
<1>1. ControlOK'
  BY DEF Setup, AuthenticateClient, ConnectContainer, ConnectHost, Goto, ControlOK, Link, Places
<1>2. TablesOK'
  BY DEF Setup, AuthenticateClient, ConnectContainer, ConnectHost, goVars, TablesOK
<1>3. TrafficOK'
  BY DEF Setup, AuthenticateClient, ConnectContainer, ConnectHost, TrafficOK
<1>4. HandsOK'
  BY DEF Setup, AuthenticateClient, ConnectContainer, ConnectHost, Goto, ControlOK, HandsOK, Link, Bus
<1> QED BY <1>1, <1>2, <1>3, <1>4

LEMMA DispatchTypeOK == TypeOK /\ Dispatch => TypeOK'
<1> SUFFICES ASSUME TypeOK, Dispatch PROVE TypeOK'
  OBVIOUS
<1> USE DEF TypeOK
<1>1. CASE ReadClient
  <2>1. Plan(sent[nread + 1]) \in {"swallow", "merge", "broadcast", "forward",
                                   "unavailable", "cont"}
    BY DEF Plan
  <2>2. nread + 1 \in Nat /\ nread + 1 \in 1..Len(sent) /\ sent[nread + 1] \in Requests
    BY <1>1 DEF ReadClient, TrafficOK
  <2>3. sent[nread + 1].member \in Members
    BY <2>2, SessionAssumption DEF Request
  <2>4. ControlOK'
    BY <1>1, <2>1, GotoType DEF ReadClient, ControlOK, Link, closeVars, envVars, Places
  <2>5. TablesOK'
    <3>1. Plan(sent[nread + 1]) \in {"swallow", "forward"} =>
            [serial |-> nread + 1, kind |-> Plan(sent[nread + 1]),
             member |-> sent[nread + 1].member]
              \in [serial: Nat, kind: {"swallow", "forward"}, member: Members]
      BY <2>2, <2>3
    <3>2. hostPending' \subseteq
             [serial: Nat, kind: {"swallow", "forward"}, member: Members]
      BY <1>1, <3>1 DEF ReadClient, NoteHostPending, TablesOK
    <3>3. [serial |-> nread + 1, part |-> [b \in Bus |-> {}]]
            \in [serial: Nat, part: [Bus -> SUBSET Message]]
      BY <2>2
    <3>4. merges' \subseteq [serial: Nat, part: [Bus -> SUBSET Message]]
      BY <1>1, <3>3 DEF ReadClient, NoteMerge, TablesOK
    <3> QED BY <1>1, <3>2, <3>4 DEF ReadClient, TablesOK
  <2>6. TrafficOK'
    BY <1>1, <2>2 DEF ReadClient, TrafficOK, closeVars, envVars
  <2>7. HandsOK'
    BY <1>1, <2>1, <2>2, GotoType DEF ReadClient, HandsOK, Link, Bus, Places
  <2> QED BY <2>4, <2>5, <2>6, <2>7
<1>2. CASE WriteHostCopy
  <2>1. ControlOK'
    BY <1>2, GotoType DEF WriteHostCopy, ControlOK, Link, closeVars, envVars, Places
  <2>2. TablesOK'
    BY <1>2 DEF WriteHostCopy, TablesOK, Forget
  <2>3. TrafficOK'
    BY <1>2 DEF WriteHostCopy, TrafficOK, HandsOK, envVars, Bus
  <2>4. HandsOK'
    BY <1>2, GotoType DEF WriteHostCopy, HandsOK, Link, Bus, Places
  <2> QED BY <2>1, <2>2, <2>3, <2>4
<1>3. CASE SendToHost
  <2>1. ControlOK'
    BY <1>3, GotoType DEF SendToHost, ControlOK, Link, closeVars, envVars, Places
  <2>2. TablesOK'
    BY <1>3 DEF SendToHost, TablesOK, Forget
  <2>3. TrafficOK'
    BY <1>3 DEF SendToHost, TrafficOK, HandsOK, envVars, Bus
  <2>4. HandsOK'
    BY <1>3, GotoType DEF SendToHost, HandsOK, Link, Bus, Places
  <2> QED BY <2>1, <2>2, <2>3, <2>4
<1>4. CASE WriteContainer
  <2>1. ControlOK'
    BY <1>4, GotoType DEF WriteContainer, ControlOK, Link, closeVars, envVars, Places
  <2>2. TablesOK'
    BY <1>4 DEF WriteContainer, TablesOK, goVars
  <2>3. TrafficOK'
    BY <1>4 DEF WriteContainer, TrafficOK, HandsOK, envVars, Bus
  <2>4. HandsOK'
    BY <1>4, GotoType DEF WriteContainer, HandsOK, Link, Bus, Places
  <2> QED BY <2>1, <2>2, <2>3, <2>4
<1>5. CASE ReplyUnavailable
  <2>1. ControlOK'
    BY <1>5, GotoType DEF ReplyUnavailable, ControlOK, Link, closeVars, envVars, Places
  <2>2. TablesOK'
    BY <1>5 DEF ReplyUnavailable, TablesOK, goVars
  <2>3. nread \in Nat
    BY DEF TrafficOK
  <2>4. TrafficOK'
    <3>1. inbox' \in Seq(Message)
      BY <1>5, <2>3, ServiceUnknownType, AppendType DEF ReplyUnavailable, TrafficOK
    <3> QED BY <1>5, <3>1 DEF ReplyUnavailable, TrafficOK, envVars
  <2>5. HandsOK'
    BY <1>5, GotoType DEF ReplyUnavailable, HandsOK, Link, Bus, Places
  <2> QED BY <2>1, <2>2, <2>4, <2>5
<1> QED BY <1>1, <1>2, <1>3, <1>4, <1>5 DEF Dispatch

LEMMA TakeTypeOK ==
  ASSUME TypeOK, NEW b \in Bus, Take(b)
  PROVE  TypeOK'
<1> USE DEF TypeOK
<1> DEFINE m == Head(wire[b])
<1>1. /\ m \in Message
      /\ Tail(wire[b]) \in Seq(Message)
      /\ m.reply \in Nat
  <2>1. wire[b] \in Seq(Message) /\ wire[b] # <<>>
    BY DEF Take, TrafficOK
  <2>2. m \in Message /\ Tail(wire[b]) \in Seq(Message)
    BY <2>1, TakeType
  <2> HIDE DEF m
  <2> QED BY <2>2 DEF Message
<1> HIDE DEF m
<1>2. b \in Link
  BY DEF Link, Bus
<1>3. TrafficOK'
  BY <1>1 DEF Take, TrafficOK, m
<1>4. m # NoMsg
  BY <1>1, SessionAssumption
<1> USE DEF ControlOK
<1>5. ASSUME NEW x \in Message, NEW place \in Places, Hold(b, x, place)
      PROVE  ControlOK' /\ HandsOK'
  <2>1. x # NoMsg
    BY SessionAssumption
  <2>2. ControlOK'
    BY <1>2, <1>5, GotoType DEF Hold, Take, closeVars
  <2>3. HandsOK'
    BY <1>2, <1>5, <2>1, GotoType DEF Hold, Take, HandsOK, Link, Bus
  <2> QED BY <2>2, <2>3
<1>6. ASSUME UNCHANGED <<held, pc>>
      PROVE  ControlOK' /\ HandsOK'
  BY <1>6 DEF Take, HandsOK, closeVars
<1>7. CASE \E st \in merges : IsReply(m) /\ st.serial = m.reply /\ TakeMerge(b, m, st)
           /\ UNCHANGED hostPending
  <2> PICK st \in merges : TakeMerge(b, m, st) /\ UNCHANGED hostPending
    BY <1>7
  <2> DEFINE part == [st.part EXCEPT ![b] = {m}]
  <2>1. /\ st \in [serial: Nat, part: [Bus -> SUBSET Message]]
        /\ part \in [Bus -> SUBSET Message]
    BY <1>1 DEF TablesOK
  <2>2. [st EXCEPT !.part = part] \in [serial: Nat, part: [Bus -> SUBSET Message]]
    BY <2>1
  <2>3. TablesOK'
    BY <2>2 DEF TakeMerge, TablesOK, Forget, Take
  <2>4. CASE \E o \in Bus : part[o] = {}
    BY <2>4, <1>6, <2>3, <1>3 DEF TakeMerge
  <2>5. CASE ~(\E o \in Bus : part[o] = {})
    <3>1. PICK c \in part["cont"], h \in part["host"] :
             held' = [held EXCEPT ![b] = MergeNameListReplies(c, h)]
      BY <2>5 DEF TakeMerge
    <3>2. c \in Message /\ h \in Message
      BY <2>1 DEF Bus
    <3>3. Hold(b, MergeNameListReplies(c, h), "sendMerged")
      BY <2>5, <3>1 DEF TakeMerge, Hold
    <3> QED BY <1>3, <1>5, <2>3, <3>2, <3>3, MergedType DEF Places
  <2> QED BY <2>4, <2>5
<1>8. CASE /\ UNCHANGED merges
           /\ \E p \in hostPending : TakeHostReply(m, p)
           /\ b = "host"
  <2> PICK p \in hostPending : TakeHostReply(m, p)
    BY <1>8
  <2>1. TablesOK'
    BY <1>8 DEF TakeHostReply, TablesOK, Take
  <2>2. \/ UNCHANGED <<held, pc>>
        \/ \E place \in {"learn", "remember", "send"} : Hold(b, m, place)
    BY <1>8 DEF TakeHostReply
  <2> QED BY <1>1, <1>3, <1>5, <1>6, <2>1, <2>2 DEF Places
<1>9. CASE UNCHANGED <<hostPending, merges, held, pc>>
  BY <1>3, <1>6, <1>9 DEF TablesOK, Take
<1>10. CASE /\ UNCHANGED <<hostPending, merges>>
            /\ \E place \in {"remember", "send"} : Hold(b, m, place)
  <2>1. TablesOK'
    BY <1>10 DEF TablesOK, Take
  <2> QED BY <1>1, <1>3, <1>5, <1>10, <2>1 DEF Places
<1> QED BY <1>7, <1>8, <1>9, <1>10 DEF Take, m

LEMMA HandOverTypeOK ==
  TypeOK /\ (RememberHostUnique \/ \E b \in Bus : SendToClient(b)) => TypeOK'
<1> SUFFICES ASSUME TypeOK,
                    RememberHostUnique \/ \E b \in Bus : SendToClient(b)
             PROVE  TypeOK'
  OBVIOUS
<1> USE DEF TypeOK
<1>1. CASE RememberHostUnique
  <2>1. /\ "host" \in Link
        /\ \E place \in {"send", "read"} : Goto("host", place)
    BY <1>1 DEF RememberHostUnique, Hold, Link
  <2>2. ControlOK'
    BY <1>1, <2>1, GotoType DEF RememberHostUnique, ControlOK, closeVars, envVars, Places
  <2>3. TablesOK'
    BY <1>1 DEF RememberHostUnique, TablesOK
  <2>4. TrafficOK'
    BY <1>1 DEF RememberHostUnique, TrafficOK, envVars
  <2>5. HandsOK'
    <3>1. CASE pc["host"] = "remember"
      BY <1>1, <2>1, <3>1, GotoType DEF RememberHostUnique, HandsOK, Link, Bus, Places
    <3>2. CASE pc["host"] # "remember"
      BY <1>1, <2>1, <3>2, GotoType DEF RememberHostUnique, Hold, HandsOK, Link, Bus, Places
    <3> QED BY <3>1, <3>2
  <2> QED BY <2>2, <2>3, <2>4, <2>5
<1>2. CASE \E b \in Bus : SendToClient(b)
  <2> PICK b \in Bus : SendToClient(b)
    BY <1>2
  <2>1. b \in Link
    BY DEF Bus, Link
  <2>2. \E place \in {"close", "read"} : Goto(b, place)
    BY DEF SendToClient, Hold
  <2>3. held' = [held EXCEPT ![b] = NoMsg]
    BY DEF SendToClient, Hold
  <2>4. ControlOK'
    BY <2>1, <2>2, GotoType DEF SendToClient, ControlOK, closeVars, envVars, Places
  <2>5. TablesOK'
    BY DEF SendToClient, TablesOK, goVars
  <2>6. held[b] \in Message
    BY DEF SendToClient, HandsOK
  <2>7. TrafficOK'
    <3>1. inbox' \in Seq(Message)
      BY <2>6, AppendType DEF SendToClient, TrafficOK
    <3> QED BY <3>1 DEF SendToClient, TrafficOK, envVars
  <2>8. HandsOK'
    BY <2>1, <2>2, <2>3, GotoType DEF SendToClient, HandsOK, Link, Bus, Places
  <2> QED BY <2>4, <2>5, <2>7, <2>8
<1> QED BY <1>1, <1>2

LEMMA EndTypeOK == TypeOK /\ (Finish \/ \E l \in Link : Teardown(l)) => TypeOK'
<1> SUFFICES ASSUME TypeOK, Finish \/ \E l \in Link : Teardown(l)
             PROVE  TypeOK'
  OBVIOUS
<1> USE DEF TypeOK
<1>1. TablesOK' /\ TrafficOK'
  BY DEF Finish, Teardown, ReadFails, Close, CloseConn, CloseReturns, TablesOK,
         TrafficOK, goVars, envVars
<1>2. ControlOK'
  <2>1. pc' \in [Link -> Places]
    BY GotoType DEF Finish, Teardown, ReadFails, Close, CloseConn, CloseReturns,
       AfterClose, ControlOK, Link, Places
  <2>2. /\ conn' \in [Link -> {"none", "open", "closed"}]
        /\ peer' \in [Link -> BOOLEAN]
        /\ closed' \in BOOLEAN
    BY DEF Finish, Teardown, ReadFails, Close, CloseConn, CloseReturns, ControlOK,
       closeVars, envVars
  <2> QED BY <2>1, <2>2 DEF ControlOK
<1>3. HandsOK'
  BY GotoType DEF Finish, Teardown, ReadFails, Close, CloseConn, CloseReturns, AfterClose,
     ControlOK, HandsOK, Link, Bus, Places
<1> QED BY <1>1, <1>2, <1>3

LEMMA EnvironmentTypeOK == TypeOK /\ Environment => TypeOK'
<1> SUFFICES ASSUME TypeOK, Environment PROVE TypeOK'
  OBVIOUS
<1> USE DEF TypeOK
<1>1. TablesOK'
  BY DEF Environment, ClientSend, BusReply, BusEmit, Drop, TablesOK, goVars
<1>2. ControlOK'
  BY DEF Environment, ClientSend, BusReply, BusEmit, Drop, ControlOK
<1>3. HandsOK'
  BY DEF Environment, ClientSend, BusReply, BusEmit, Drop, HandsOK
<1>4. CASE \E r \in Requests : ClientSend(r)
  <2>1. TrafficOK'
    BY <1>4 DEF ClientSend, TrafficOK
  <2> QED BY <1>1, <1>2, <1>3, <2>1
<1>5. ASSUME NEW b \in Bus, NEW s \in Serials, BusReply(b, s)
      PROVE  TypeOK'
  <2>1. PICK t \in {"return", "error"} :
         \E a \in IF t = "return" THEN ReplyArgs(b, sent[s]) ELSE {NoName} :
           LET m == [type |-> t, reply |-> s, member |-> "Plain", arg |-> a,
                     owner |-> NoName, sender |-> NoName, from |-> {b}]
           IN  /\ wire'    = [wire EXCEPT ![b] = Append(@, m)]
               /\ replies' = [replies EXCEPT ![b] = @ \cup {m}]
    BY <1>5 DEF BusReply
  <2> PICK a \in IF t = "return" THEN ReplyArgs(b, sent[s]) ELSE {NoName} :
           LET m == [type |-> t, reply |-> s, member |-> "Plain", arg |-> a,
                     owner |-> NoName, sender |-> NoName, from |-> {b}]
           IN  /\ wire'    = [wire EXCEPT ![b] = Append(@, m)]
               /\ replies' = [replies EXCEPT ![b] = @ \cup {m}]
    BY <2>1
  <2>2. a \in Names \cup {NoName} /\ s \in Nat
    BY DEF ReplyArgs, Peers, Names, Unique, Serials, TrafficOK
  <2> DEFINE m == [type |-> t, reply |-> s, member |-> "Plain", arg |-> a,
                   owner |-> NoName, sender |-> NoName, from |-> {b}]
  <2>3. m \in Message
    BY <2>2 DEF Message, Members
  <2> HIDE DEF m
  <2>4. wire' = [wire EXCEPT ![b] = Append(@, m)] /\ replies' = [replies EXCEPT ![b] = @ \cup {m}]
    BY DEF m
  <2>5. wire' \in [Bus -> Seq(Message)]
    BY <2>3, <2>4, AppendType DEF TrafficOK
  <2>6. replies' \in [Bus -> SUBSET Message]
    BY <2>3, <2>4 DEF TrafficOK
  <2>7. TrafficOK'
    BY <1>5, <2>5, <2>6 DEF BusReply, TrafficOK
  <2> QED BY <1>1, <1>2, <1>3, <2>7
<1>6. CASE \E b \in Bus : BusEmit(b)
  <2>1. TrafficOK'
    <3> PICK b \in Bus : BusEmit(b)
      BY <1>6
    <3>1. Emissions[b] \subseteq Message
      BY SessionAssumption
    <3>2. wire' \in [Bus -> Seq(Message)]
      BY <3>1, AppendType DEF BusEmit, TrafficOK
    <3>3. emitted' \in [Bus -> Nat]
      BY DEF BusEmit, TrafficOK
    <3> QED BY <3>2, <3>3 DEF BusEmit, TrafficOK
  <2> QED BY <1>1, <1>2, <1>3, <2>1
<1>7. CASE \E l \in Link : Drop(l)
  BY <1>1, <1>2, <1>3, <1>7 DEF Drop, TrafficOK
<1> QED BY <1>4, <1>5, <1>6, <1>7 DEF Environment

THEOREM NextTypeOK == TypeOK /\ [Next]_vars => TypeOK'
<1> SUFFICES ASSUME TypeOK, [Next]_vars PROVE TypeOK'
  OBVIOUS
<1>1. CASE UNCHANGED vars
  BY <1>1 DEF vars, TypeOK, ControlOK, TablesOK, TrafficOK, HandsOK
<1> QED BY <1>1, SetupTypeOK, DispatchTypeOK, TakeTypeOK, HandOverTypeOK, EndTypeOK,
           EnvironmentTypeOK DEF Next, Upstream, Rest

\* The session's state has its type in every reachable state: in particular a
\* goroutine never hands over a message it does not hold.
THEOREM SessionTypeOK == Spec => []TypeOK
BY InitTypeOK, NextTypeOK, PTL DEF Spec

-----------------------------------------------------------------------------
(***************************************************************************)
(* Messages to a peer of the host never go to the container.               *)
(***************************************************************************)
\* No peer is called "" or org.freedesktop.DBus, and no rule names one.
LEMMA PeerNames ==
  /\ NoName \notin Unique /\ DBus \notin Unique
  /\ HostTalk \cap Unique = {} /\ HostOwn \cap Unique = {}
BY SessionAssumption DEF Names

\* What the application has been told stays good as it sends more and as the
\* router remembers more.
LEMMA SoundGrows ==
  ASSUME NEW q \in Seq(Requests), NEW r \in Requests, NEW m \in Message,
         NEW known, NEW more, known \subseteq more, Sound(m, q, known)
  PROVE  Sound(m, q, more) /\ Sound(m, Append(q, r), known)
<1>1. m.type = "return" => m.reply \in 1..Len(q)
  BY DEF Sound
<1>2. m.type = "return" => m.reply \in 1..Len(Append(q, r))
                           /\ Append(q, r)[m.reply] = q[m.reply]
  BY <1>1
<1>3. Tells(m, Append(q, r)) = Tells(m, q)
  BY <1>2 DEF Tells
<1> QED BY <1>2, <1>3 DEF Sound

LEMMA FromBusGrows ==
  ASSUME NEW q \in Seq(Requests), NEW r \in Requests, NEW m \in Message,
         NEW b \in Bus, FromBus(m, b, q)
  PROVE  FromBus(m, b, Append(q, r))
<1>1. IsReply(m) => m.reply \in 1..Len(Append(q, r))
  BY DEF FromBus
<1> QED BY <1>1 DEF FromBus

\* All that the container bus sends may be passed on.
LEMMA ContSound ==
  ASSUME NEW q, NEW known, NEW m \in Message, FromBus(m, "cont", q)
  PROVE  Sound(m, q, known)
<1>1. Tells(m, q) \subseteq ContPeers \cup {NoName, DBus}
  BY DEF Tells, FromBus, Peers, Bus
<1> QED BY <1>1, PeerNames DEF Sound, FromBus, IsReply

\* What the host bus sends and names no peer may be passed on.
LEMMA HostSound ==
  ASSUME NEW q, NEW known, NEW m \in Message, FromBus(m, "host", q),
         \/ m.type = "error"
         \/ m.type = "return" /\ q[m.reply].member # "GetNameOwner"
         \/ m.type = "signal" /\ m.member # "NameOwnerChanged"
  PROVE  Sound(m, q, known)
<1>1. Tells(m, q) \subseteq {NoName}
  BY DEF Tells, FromBus
<1> QED BY <1>1, PeerNames DEF Sound, FromBus, IsReply

\* What names a peer may be passed on once the name is remembered.
LEMMA RememberedSound ==
  ASSUME NEW q, NEW known, NEW m \in Message, FromBus(m, "host", q),
         m.type \in {"return", "signal"}, {NameIn(m)} \cap Unique \subseteq known
  PROVE  Sound(m, q, known)
<1>1. Tells(m, q) \subseteq {NameIn(m)}
  BY DEF Tells, FromBus, NameIn, IsReply
<1> QED BY <1>1 DEF Sound, FromBus, IsReply

\* A merged list names no peer as the owner of a name.
LEMMA MergedSound ==
  ASSUME NEW q, NEW known, NEW s \in 1..Len(q), q[s].member = "ListNames",
         NEW c \in Message, NEW h \in Message,
         IsReply(c), IsReply(h), c.reply = s, h.reply = s
  PROVE  Sound(MergeNameListReplies(c, h), q, known)
<1> DEFINE m == MergeNameListReplies(c, h)
<1>1. /\ m.type \in {"return", "error"}
      /\ m.reply = s
  <2>1. CASE {x \in {c, h} : x.type = "return"} = {}
    BY <2>1 DEF MergeNameListReplies, IsReply
  <2>2. CASE {x \in {c, h} : x.type = "return"} # {}
    <3> DEFINE base == IF c.type = "return" \/ h.type # "return" THEN c ELSE h
               whole == UNION {x.from : x \in {y \in {c, h} : y.type = "return"}}
    <3>1. m = [base EXCEPT !.from = whole]
      BY <2>2 DEF MergeNameListReplies
    <3>2. base \in Message /\ base.type \in {"return", "error"} /\ base.reply = s
      BY DEF IsReply
    <3> HIDE DEF base, whole, m
    <3> QED BY <3>1, <3>2 DEF Message
  <2> QED BY <2>1, <2>2
<1> HIDE DEF m
<1>2. Tells(m, q) = {}
  BY <1>1 DEF Tells
<1> QED BY <1>1, <1>2 DEF Sound, m

\* Where the router sends a message to a unique name.
LEMMA PlanOfPeer ==
  ASSUME NEW r \in Requests, hostUniqueNames \subseteq HostPeers,
         hostUniqueNames # {} => HostConn,
         r.via = "host" => r.dest \in hostUniqueNames
  PROVE  /\ r.via = "host" => Plan(r) = "forward"
         /\ r.via # "none" /\ Plan(r) = "forward" => r.dest \in HostPeers
         /\ Plan(r) \in {"swallow", "merge", "broadcast"} => r.via = "none"
<1>1. r.via # "none" => r.dest \in Unique
  BY SessionAssumption
<1>2. r.via # "none" => r.dest # NoName /\ r.dest # DBus
  BY <1>1, PeerNames
<1>3. r.via = "host" => routeDestination(r.dest) /\ HostConn
  BY DEF routeDestination
<1>4. r.via # "none" /\ routeDestination(r.dest) => r.dest \in HostPeers
  BY <1>1, PeerNames DEF routeDestination, RouteDestination, RouteOwnership
<1>5. r.via = "host" => Plan(r) = "forward"
  BY <1>2, <1>3 DEF Plan
<1>6. r.via # "none" /\ Plan(r) = "forward" => r.dest \in HostPeers
  BY <1>2, <1>4 DEF Plan
<1>7. Plan(r) \in {"swallow", "merge", "broadcast"} => r.via = "none"
  BY <1>2 DEF Plan
<1> QED BY <1>5, <1>6, <1>7

-----------------------------------------------------------------------------
(* What a step leaves alone. *)

LEMMA TrafficSoundKept ==
  ASSUME TypeOK, TrafficSound, UNCHANGED <<wire, inbox, held, sent>>,
         hostUniqueNames \subseteq hostUniqueNames',
         \A b \in Bus : pc'[b] \in {"learn", "remember", "send", "sendMerged"}
                          => pc'[b] = pc[b]
  PROVE  TrafficSound'
<1>1. \A m \in Message : Sound(m, sent, hostUniqueNames)
                           => Sound(m, sent, hostUniqueNames')
  BY DEF Sound
<1>2. \A i \in 1..Len(inbox) : inbox[i] \in Message
  BY DEF TypeOK, TrafficOK
<1>3. \A b \in Bus : pc[b] \in {"send", "sendMerged"} => held[b] \in Message
  BY DEF TypeOK, HandsOK
<1> QED BY <1>1, <1>2, <1>3 DEF TrafficSound, Bus

LEMMA TablesSoundKept ==
  ASSUME TablesSound, UNCHANGED <<hostUniqueNames, sent>>,
         hostPending' \subseteq hostPending, merges' \subseteq merges,
         HostConn => HostConn', pc'["host"] # "none" => HostConn',
         pc'["client"] \in {"auth", "dialCont", "dialHost"} => ~HostConn'
  PROVE  TablesSound'
BY DEF TablesSound, Serials

LEMMA SentSoundKept ==
  ASSUME SentSound, UNCHANGED sent, hostUniqueNames \subseteq hostUniqueNames'
  PROVE  SentSound'
BY DEF SentSound, Serials

LEMMA WrittenKept ==
  ASSUME RoutesPeers, UNCHANGED <<sent, wrote>>
  PROVE  RoutesPeers'
BY DEF RoutesPeers, Serials

THEOREM InitRoutingInv == Init => RoutingInv
<1> SUFFICES ASSUME Init PROVE RoutingInv
  OBVIOUS
<1>1. TrafficSound
  BY DEF Init, TrafficSound, Bus, Link
<1>2. TablesSound
  BY DEF Init, TablesSound, Link, HostConn
<1>3. SentSound /\ RoutesPeers
  BY DEF Init, SentSound, RoutesPeers, Serials
<1>4. PlanSound
  BY DEF Init, PlanSound, Link
<1> QED BY <1>1, <1>2, <1>3, <1>4 DEF RoutingInv

LEMMA QuietRouting ==
  ASSUME TypeOK, RoutingInv,
         Setup \/ Finish \/ (\E l \in Link : Teardown(l)) \/ (\E l \in Link : Drop(l))
  PROVE  RoutingInv'
<1>1. /\ UNCHANGED <<wire, inbox, held, sent, hostUniqueNames, hostPending, merges,
                     wrote, nread>>
      /\ \A b \in Bus : pc'[b] \in {"learn", "remember", "send", "sendMerged"}
                          => pc'[b] = pc[b]
      /\ pc'["client"] \in {"swallow", "merge", "broadcast", "forward", "cont"}
           => pc'["client"] = pc["client"]
  <2> USE DEF TypeOK, ControlOK, Goto, goVars, envVars, closeVars, Link, Bus
  <2>1. CASE Setup
    BY <2>1 DEF Setup, AuthenticateClient, ConnectContainer, ConnectHost
  <2>2. CASE Finish \/ \E l \in Link : Teardown(l)
    BY <2>2 DEF Finish, Teardown, ReadFails, Close, CloseConn, CloseReturns, AfterClose
  <2>3. CASE \E l \in Link : Drop(l)
    BY <2>3 DEF Drop
  <2> QED BY <2>1, <2>2, <2>3
<1>2. /\ HostConn => HostConn'
      /\ pc'["host"] # "none" => HostConn'
      /\ pc'["client"] \in {"auth", "dialCont", "dialHost"} => ~HostConn'
  <2> USE DEF TypeOK, ControlOK, Goto, goVars, envVars, closeVars, Link, Bus, HostConn,
              RoutingInv, TablesSound
  <2>1. CASE AuthenticateClient \/ ConnectContainer
    BY <2>1 DEF AuthenticateClient, ConnectContainer
  <2>2. CASE ConnectHost
    BY <2>2 DEF ConnectHost
  <2>3. CASE Finish \/ \E l \in Link : Teardown(l)
    BY <2>3 DEF Finish, Teardown, ReadFails, Close, CloseConn, CloseReturns, AfterClose
  <2>4. CASE \E l \in Link : Drop(l)
    BY <2>4 DEF Drop
  <2> QED BY <2>1, <2>2, <2>3, <2>4 DEF Setup
<1>3. PlanSound'
  BY <1>1 DEF RoutingInv, PlanSound
<1> QED BY <1>1, <1>2, <1>3, TrafficSoundKept, TablesSoundKept, SentSoundKept,
           WrittenKept DEF RoutingInv

LEMMA DispatchRouting ==
  ASSUME TypeOK, RoutingInv, Dispatch
  PROVE  RoutingInv'
<1> USE DEF RoutingInv
<1>1. ASSUME NEW place \in Places, Goto("client", place),
             place \notin {"auth", "dialCont", "dialHost"}, UNCHANGED conn
      PROVE  /\ \A b \in Bus : pc'[b] = pc[b]
             /\ pc'["client"] = place
             /\ HostConn => HostConn'
             /\ pc'["host"] # "none" => HostConn'
             /\ pc'["client"] \notin {"auth", "dialCont", "dialHost"}
  BY <1>1, GotoType DEF TypeOK, Bus, Link, HostConn, TablesSound
<1>2. CASE ReadClient
  <2> DEFINE r == sent[nread + 1]
             plan == Plan(r)
  <2>1. nread + 1 \in Serials /\ r \in Requests
    BY <1>2 DEF ReadClient, TypeOK, TrafficOK, Serials
  <2>2. plan \in {"swallow", "merge", "broadcast", "forward", "unavailable", "cont"}
    BY DEF Plan
  <2>3. /\ r.via = "host" => plan = "forward"
        /\ r.via = "cont" /\ plan = "forward" => r.dest \in HostPeers
        /\ plan \in {"swallow", "merge", "broadcast"} => r.via = "none"
    BY <2>1, PlanOfPeer DEF TablesSound, SentSound
  <2>4. plan = "merge" => r.member = "ListNames"
    BY DEF Plan
  <2> HIDE DEF r, plan
  <2>5. /\ Goto("client", plan) /\ plan \in Places
        /\ plan \notin {"auth", "dialCont", "dialHost"}
    BY <1>2, <2>2 DEF ReadClient, r, plan, Places
  <2>6. UNCHANGED <<conn, wire, inbox, held, sent, hostUniqueNames, wrote>>
    BY <1>2 DEF ReadClient, closeVars, envVars
  <2>7. TrafficSound'
    BY <1>1, <2>5, <2>6, TrafficSoundKept
  <2>8. PlanSound'
    BY <1>1, <1>2, <2>2, <2>3, <2>5, <2>6 DEF PlanSound, ReadClient, r
  <2>9. TablesSound'
    <3>1. \A p \in hostPending' : p.serial \in Serials' /\ p.member = sent'[p.serial].member
      BY <1>2, <2>1, <2>6 DEF ReadClient, NoteHostPending, TablesSound, Serials
    <3>2. \A st \in merges' :
            /\ st.serial \in Serials' /\ sent'[st.serial].member = "ListNames"
            /\ \A b \in Bus : \A m \in st.part[b] : IsReply(m) /\ m.reply = st.serial
      <4>1. SUFFICES ASSUME NEW st \in merges', st \notin merges
                     PROVE  /\ st.serial \in Serials
                            /\ sent[st.serial].member = "ListNames"
                            /\ \A b \in Bus : st.part[b] = {}
        BY <2>6 DEF TablesSound, Serials
      <4>2. plan = "merge"
            /\ st = [serial |-> nread + 1, part |-> [b \in Bus |-> {}]]
        BY <1>2, <4>1 DEF ReadClient, NoteMerge, plan, r
      <4> QED BY <2>1, <2>4, <4>2 DEF r
    <3> QED BY <1>1, <2>5, <2>6, <3>1, <3>2 DEF TablesSound
  <2> QED BY <2>6, <2>7, <2>8, <2>9, SentSoundKept, WrittenKept
<1>3. ASSUME NEW b \in Bus, NEW place \in {"read", "cont", "close"}, Goto("client", place),
             nread \in Serials, b = "cont" => sent[nread].via # "host",
             b = "host" /\ sent[nread].via = "cont" => sent[nread].dest \in HostPeers,
             place = "cont" => sent[nread].via = "none",
             wrote' \in {wrote, [wrote EXCEPT ![b] = @ \cup {nread}]},
             hostPending' \subseteq hostPending, merges' \subseteq merges,
             UNCHANGED <<conn, wire, inbox, held, sent, hostUniqueNames, nread>>
      PROVE  RoutingInv'
  <2>1. place \in Places /\ place \notin {"auth", "dialCont", "dialHost"}
    BY DEF Places
  <2>2. TrafficSound' /\ TablesSound' /\ SentSound'
    BY <1>1, <1>3, <2>1, TrafficSoundKept, TablesSoundKept, SentSoundKept
  <2>3. PlanSound'
    BY <1>1, <1>3, <2>1 DEF PlanSound
  <2>4. RoutesPeers'
    <3>1. wrote \in [Bus -> SUBSET (1..nread)]
      BY DEF TypeOK, TrafficOK
    <3>2. \A s \in Serials : \A c \in Bus :
            s \in wrote'[c] => s \in wrote[c] \/ (c = b /\ s = nread)
      BY <1>3, <3>1
    <3> QED BY <1>3, <3>2 DEF RoutesPeers, Serials, Bus
  <2> QED BY <2>2, <2>3, <2>4
<1>4. pc["client"] \in {"swallow", "merge", "broadcast", "forward", "cont"}
        => nread \in Serials
  BY DEF TypeOK, HandsOK, TrafficOK, Serials
<1>5. CASE WriteHostCopy
  <2>1. pc["client"] \in {"swallow", "merge", "broadcast"} /\ Goto("client", "cont")
    BY <1>5 DEF WriteHostCopy
  <2>2. nread \in Serials /\ sent[nread].via = "none"
    BY <1>4, <2>1 DEF PlanSound
  <2>3. /\ wrote' \in {wrote, [wrote EXCEPT !["host"] = @ \cup {nread}]}
        /\ hostPending' \subseteq hostPending /\ merges' \subseteq merges
        /\ UNCHANGED <<conn, wire, inbox, held, sent, hostUniqueNames, nread>>
    BY <1>5 DEF WriteHostCopy, Forget, closeVars, envVars
  <2> QED BY <1>3, <2>1, <2>2, <2>3 DEF Bus
<1>6. CASE SendToHost
  <2>1. \E place \in {"read", "close"} : Goto("client", place)
    BY <1>6 DEF SendToHost
  <2>2. nread \in Serials /\ (sent[nread].via = "cont" => sent[nread].dest \in HostPeers)
    BY <1>4, <1>6 DEF PlanSound, SendToHost
  <2>3. /\ wrote' \in {wrote, [wrote EXCEPT !["host"] = @ \cup {nread}]}
        /\ hostPending' \subseteq hostPending /\ merges' \subseteq merges
        /\ UNCHANGED <<conn, wire, inbox, held, sent, hostUniqueNames, nread>>
    BY <1>6 DEF SendToHost, Forget, closeVars, envVars
  <2> QED BY <1>3, <2>1, <2>2, <2>3 DEF Bus
<1>7. CASE WriteContainer
  <2>1. \E place \in {"read", "close"} : Goto("client", place)
    BY <1>7 DEF WriteContainer
  <2>2. nread \in Serials /\ sent[nread].via # "host"
    BY <1>4, <1>7 DEF PlanSound, WriteContainer
  <2>3. /\ wrote' \in {wrote, [wrote EXCEPT !["cont"] = @ \cup {nread}]}
        /\ hostPending' \subseteq hostPending /\ merges' \subseteq merges
        /\ UNCHANGED <<conn, wire, inbox, held, sent, hostUniqueNames, nread>>
    BY <1>7 DEF WriteContainer, goVars, closeVars, envVars
  <2> QED BY <1>3, <2>1, <2>2, <2>3 DEF Bus
<1>8. CASE ReplyUnavailable
  <2>1. PICK place \in {"read", "close"} : Goto("client", place)
    BY <1>8 DEF ReplyUnavailable
  <2>2. place \in Places /\ place \notin {"auth", "dialCont", "dialHost"}
    BY DEF Places
  <2>3. UNCHANGED <<conn, hostPending, merges, hostUniqueNames, wire, sent, held, wrote>>
    BY <1>8 DEF ReplyUnavailable, closeVars, envVars, goVars
  <2>4. \A i \in 1..Len(inbox') : Sound(inbox'[i], sent, hostUniqueNames)
    <3>1. inbox' \in {inbox, Append(inbox, ServiceUnknown(nread))}
      BY <1>8 DEF ReplyUnavailable
    <3>2. Sound(ServiceUnknown(nread), sent, hostUniqueNames)
      BY DEF Sound, ServiceUnknown
    <3>3. inbox \in Seq(Message)
      BY DEF TypeOK, TrafficOK
    <3> QED BY <3>1, <3>2, <3>3 DEF TrafficSound
  <2>5. TrafficSound'
    BY <1>1, <2>1, <2>2, <2>3, <2>4 DEF TrafficSound, Bus
  <2>6. TablesSound' /\ SentSound' /\ RoutesPeers'
    BY <1>1, <2>1, <2>2, <2>3, TablesSoundKept, SentSoundKept, WrittenKept
  <2>7. PlanSound'
    BY <1>1, <2>1, <2>2, <2>3 DEF PlanSound
  <2> QED BY <2>5, <2>6, <2>7
<1> QED BY <1>2, <1>5, <1>6, <1>7, <1>8 DEF Dispatch

LEMMA EnvironmentRouting ==
  ASSUME TypeOK, RoutingInv, Environment
  PROVE  RoutingInv'
<1> USE DEF RoutingInv
<1>0. /\ sent \in Seq(Requests) /\ inbox \in Seq(Message)
      /\ wire \in [Bus -> Seq(Message)]
      /\ nread \in 0..Len(sent)
      /\ wrote \in [Bus -> SUBSET (1..nread)]
      /\ \A b \in Bus : pc[b] \in {"learn", "remember", "send", "sendMerged"}
                          => held[b] \in Message
      /\ pc["client"] \in {"swallow", "merge", "broadcast", "forward", "cont"} => nread > 0
  BY DEF TypeOK, TrafficOK, HandsOK
<1>1. ASSUME NEW r \in Requests, ClientSend(r)
      PROVE  RoutingInv'
  <2>1. /\ sent' = Append(sent, r)
        /\ UNCHANGED <<pc, conn, hostPending, merges, hostUniqueNames, nread, wire, held,
                       wrote, inbox>>
    BY <1>1 DEF ClientSend, goVars
  <2>2. \A s \in Serials : s \in Serials' /\ sent'[s] = sent[s]
    BY <1>0, <2>1 DEF Serials
  <2>3. \A s \in Serials' : s \in Serials \/ sent'[s] = r
    BY <1>0, <2>1 DEF Serials
  <2>4. /\ r.via = "host" => r.dest \in hostUniqueNames
        /\ r.via = "cont" => r.dest \in ContPeers
    <3>1. ASSUME r.via \in Bus
          PROVE  \E i \in 1..Len(inbox) :
                   inbox[i].from = {r.via} /\ r.dest \in Tells(inbox[i], sent) \cap Unique
      BY <1>1, <3>1, SessionAssumption DEF ClientSend, Learned, Bus
    <3> QED BY <3>1 DEF TrafficSound, Sound, Bus
  <2>5. SentSound'
    BY <2>1, <2>2, <2>3, <2>4 DEF SentSound
  <2>6. TablesSound'
    BY <2>1, <2>2 DEF TablesSound, HostConn
  <2>7. PlanSound'
    <3>1. nread > 0 => sent'[nread] = sent[nread]
      BY <1>0, <2>2 DEF Serials
    <3> QED BY <1>0, <2>1, <3>1 DEF PlanSound
  <2>8. TrafficSound'
    <3>1. \A m \in Message : Sound(m, sent, hostUniqueNames)
                               => Sound(m, sent', hostUniqueNames)
      BY <1>0, <2>1, SoundGrows
    <3>2. \A m \in Message, b \in Bus : FromBus(m, b, sent) => FromBus(m, b, sent')
      BY <1>0, <2>1, FromBusGrows
    <3>3. \A b \in Bus : \A i \in 1..Len(wire[b]) : wire[b][i] \in Message
      BY <1>0
    <3>4. \A i \in 1..Len(inbox) : inbox[i] \in Message
      BY <1>0
    <3> QED BY <1>0, <2>1, <3>1, <3>2, <3>3, <3>4 DEF TrafficSound, Bus
  <2>9. RoutesPeers'
    <3>1. \A b \in Bus : \A s \in wrote[b] : s \in Serials
      BY <1>0 DEF Serials
    <3> QED BY <2>1, <2>2, <3>1 DEF RoutesPeers, Bus
  <2> QED BY <2>5, <2>6, <2>7, <2>8, <2>9
<1>2. ASSUME NEW b \in Bus, NEW m \in Message, FromBus(m, b, sent),
             wire' = [wire EXCEPT ![b] = Append(@, m)],
             UNCHANGED <<pc, conn, hostPending, merges, hostUniqueNames, sent, nread, held,
                         wrote, inbox>>
      PROVE  RoutingInv'
  <2>1. \A c \in Bus : \A i \in 1..Len(wire'[c]) : FromBus(wire'[c][i], c, sent)
    BY <1>0, <1>2 DEF TrafficSound
  <2>2. TrafficSound'
    BY <1>2, <2>1 DEF TrafficSound
  <2>3. TablesSound' /\ SentSound' /\ PlanSound' /\ RoutesPeers'
    BY <1>2 DEF TablesSound, SentSound, PlanSound, RoutesPeers,
                HostConn, Serials
  <2> QED BY <2>2, <2>3
<1>3. ASSUME NEW b \in Bus, NEW s \in Serials, BusReply(b, s)
      PROVE  RoutingInv'
  <2>1. PICK t \in {"return", "error"} :
         \E a \in IF t = "return" THEN ReplyArgs(b, sent[s]) ELSE {NoName} :
           LET m == [type |-> t, reply |-> s, member |-> "Plain", arg |-> a,
                     owner |-> NoName, sender |-> NoName, from |-> {b}]
           IN  wire' = [wire EXCEPT ![b] = Append(@, m)]
    BY <1>3 DEF BusReply
  <2> PICK a \in IF t = "return" THEN ReplyArgs(b, sent[s]) ELSE {NoName} :
           LET m == [type |-> t, reply |-> s, member |-> "Plain", arg |-> a,
                     owner |-> NoName, sender |-> NoName, from |-> {b}]
           IN  wire' = [wire EXCEPT ![b] = Append(@, m)]
    BY <2>1
  <2> DEFINE m == [type |-> t, reply |-> s, member |-> "Plain", arg |-> a,
                   owner |-> NoName, sender |-> NoName, from |-> {b}]
  <2>2. a \in Peers[b] \cup {NoName} /\ a \in Names \cup {NoName} /\ s \in Nat
    BY <1>0 DEF ReplyArgs, Peers, Names, Unique, Serials
  <2>3. m \in Message
    BY <2>2 DEF Message, Members
  <2>4. FromBus(m, b, sent)
    BY <2>2 DEF FromBus, IsReply, Serials
  <2>5. wire' = [wire EXCEPT ![b] = Append(@, m)]
    OBVIOUS
  <2>6. UNCHANGED <<pc, conn, hostPending, merges, hostUniqueNames, sent, nread, held,
                    wrote, inbox>>
    BY <1>3 DEF BusReply, goVars
  <2> HIDE DEF m
  <2> QED BY <1>2, <2>3, <2>4, <2>5, <2>6
<1>4. ASSUME NEW b \in Bus, BusEmit(b)
      PROVE  RoutingInv'
  <2>1. PICK m \in Emissions[b] : wire' = [wire EXCEPT ![b] = Append(@, m)]
    BY <1>4 DEF BusEmit
  <2>2. m \in Message /\ FromBus(m, b, sent)
    BY SessionAssumption DEF FromBus, IsReply
  <2>3. UNCHANGED <<pc, conn, hostPending, merges, hostUniqueNames, sent, nread, held,
                    wrote, inbox>>
    BY <1>4 DEF BusEmit, goVars
  <2> QED BY <1>2, <2>1, <2>2, <2>3
<1> QED BY <1>1, <1>3, <1>4, QuietRouting DEF Environment

LEMMA TakeRouting ==
  ASSUME TypeOK, RoutingInv, NEW b \in Bus, Take(b)
  PROVE  RoutingInv'
<1> USE DEF RoutingInv
<1> DEFINE m == Head(wire[b])
<1>1. /\ wire[b] \in Seq(Message) /\ wire[b] # <<>>
      /\ wire \in [Bus -> Seq(Message)]
  BY DEF Take, TypeOK, TrafficOK
<1>2. m \in Message /\ FromBus(m, b, sent)
  BY <1>1 DEF TrafficSound
<1>3. /\ wire' = [wire EXCEPT ![b] = Tail(@)]
      /\ UNCHANGED <<conn, inbox, sent, hostUniqueNames, nread, wrote>>
  BY DEF Take, closeVars
<1>4. \A c \in Bus : \A i \in 1..Len(wire'[c]) : FromBus(wire'[c][i], c, sent)
  BY <1>1, <1>3 DEF TrafficSound
<1> HIDE DEF m
<1>5. SentSound' /\ RoutesPeers'
  BY <1>3, SentSoundKept, WrittenKept
<1>6. b \in Link /\ b # "client"
  BY DEF Bus, Link
<1>7. pc[b] = "read" /\ (b = "host" => HostConn)
  BY DEF Take, TablesSound
<1>8. ASSUME UNCHANGED <<held, pc>>
      PROVE  TrafficSound' /\ PlanSound'
  BY <1>3, <1>4, <1>8 DEF TrafficSound, PlanSound
<1>9. ASSUME NEW x \in Message, NEW place \in {"learn", "remember", "send", "sendMerged"},
             Hold(b, x, place),
             place \in {"send", "sendMerged"} => Sound(x, sent, hostUniqueNames),
             place \in {"learn", "remember"} => b = "host" /\ FromBus(x, "host", sent),
             place \in {"learn", "remember"} => x.type \in {"return", "signal"}
      PROVE  TrafficSound' /\ PlanSound'
  <2>1. place \in Places
    BY DEF Places
  <2>2. /\ pc'[b] = place
        /\ \A k \in Link \ {b} : pc'[k] = pc[k]
        /\ held' = [held EXCEPT ![b] = x]
    BY <1>6, <1>9, <2>1, GotoType DEF Hold, TypeOK
  <2>3. held'[b] = x /\ \A c \in Bus \ {b} : held'[c] = held[c]
    BY <2>2 DEF TypeOK, HandsOK
  <2>4. PlanSound'
    BY <1>3, <1>6, <2>2 DEF PlanSound, Link
  <2>5. TrafficSound'
    BY <1>3, <1>4, <1>9, <2>2, <2>3 DEF TrafficSound, Bus, Link
  <2> QED BY <2>4, <2>5
<1>10. ASSUME \A p \in hostPending' : p \in hostPending,
              \A st \in merges' : \/ st \in merges
                                  \/ /\ st.serial \in Serials
                                     /\ sent[st.serial].member = "ListNames"
                                     /\ \A c \in Bus : \A x \in st.part[c] :
                                          IsReply(x) /\ x.reply = st.serial,
              pc'["client"] = pc["client"], b # "host" => pc'["host"] = pc["host"]
       PROVE  TablesSound'
  BY <1>3, <1>7, <1>10 DEF TablesSound, Serials, HostConn
<1>11. /\ pc'["client"] = pc["client"]
       /\ b # "host" => pc'["host"] = pc["host"]
  BY <1>6 DEF Take, TakeMerge, TakeHostReply, Hold, Goto, TypeOK, ControlOK, Link
<1>12. CASE \E st \in merges : IsReply(m) /\ st.serial = m.reply /\ TakeMerge(b, m, st)
            /\ UNCHANGED hostPending
  <2> PICK st \in merges : IsReply(m) /\ st.serial = m.reply /\ TakeMerge(b, m, st)
                           /\ UNCHANGED hostPending
    BY <1>12
  <2> DEFINE part == [st.part EXCEPT ![b] = {m}]
  <2>1. st \in [serial: Nat, part: [Bus -> SUBSET Message]]
    BY DEF TypeOK, TablesOK
  <2>2. /\ st.serial \in Serials /\ sent[st.serial].member = "ListNames"
        /\ \A c \in Bus : \A x \in st.part[c] : IsReply(x) /\ x.reply = st.serial
    BY DEF TablesSound
  <2>3. part \in [Bus -> SUBSET Message]
    BY <1>2, <2>1
  <2>4. \A c \in Bus : \A x \in part[c] : IsReply(x) /\ x.reply = st.serial
    BY <2>1, <2>2
  <2>5. [st EXCEPT !.part = part].serial = st.serial /\ [st EXCEPT !.part = part].part = part
    BY <2>1
  <2>6. TablesSound'
    <3>1. \A y \in merges' : y \in merges \/ y = [st EXCEPT !.part = part]
      BY DEF TakeMerge, Forget
    <3> HIDE DEF part
    <3> QED BY <1>10, <1>11, <2>2, <2>4, <2>5, <3>1
  <2>7. CASE \E o \in Bus : part[o] = {}
    BY <1>5, <1>8, <2>6, <2>7 DEF TakeMerge
  <2>8. CASE ~(\E o \in Bus : part[o] = {})
    <3>1. PICK c \in part["cont"], h \in part["host"] :
             held' = [held EXCEPT ![b] = MergeNameListReplies(c, h)]
      BY <2>8 DEF TakeMerge
    <3>2. /\ c \in Message /\ h \in Message /\ IsReply(c) /\ IsReply(h)
          /\ c.reply = st.serial /\ h.reply = st.serial
      BY <2>3, <2>4 DEF Bus
    <3>3. Hold(b, MergeNameListReplies(c, h), "sendMerged")
      BY <2>8, <3>1 DEF TakeMerge, Hold
    <3>4. Sound(MergeNameListReplies(c, h), sent, hostUniqueNames)
      BY <2>2, <3>2, MergedSound DEF Serials
    <3>5. MergeNameListReplies(c, h) \in Message
      BY <3>2, MergedType
    <3> QED BY <1>5, <1>9, <2>6, <3>3, <3>4, <3>5
  <2> QED BY <2>7, <2>8
<1>13. CASE /\ UNCHANGED merges /\ IsReply(m) /\ b = "host"
            /\ \E p \in hostPending : p.serial = m.reply /\ TakeHostReply(m, p)
  <2> PICK p \in hostPending : p.serial = m.reply /\ TakeHostReply(m, p)
    BY <1>13
  <2>1. TablesSound'
    BY <1>10, <1>11, <1>13 DEF TakeHostReply
  <2>2. p.member = sent[m.reply].member
    BY DEF TablesSound
  <2>3. p.kind \in {"swallow", "forward"}
    BY DEF TypeOK, TablesOK
  <2>4. CASE UNCHANGED <<held, pc>>
    BY <1>5, <1>8, <2>1, <2>4
  <2>5. CASE m.type = "return" /\ \E place \in {"learn", "remember"} : Hold("host", m, place)
    BY <1>2, <1>5, <1>9, <1>13, <2>1, <2>5
  <2>6. CASE /\ Hold("host", m, "send")
             /\ ~(m.type = "return" /\ p.member = "GetNameOwner")
    <3>1. Sound(m, sent, hostUniqueNames)
      BY <1>2, <1>13, <2>2, <2>6, HostSound DEF IsReply
    <3> QED BY <1>2, <1>5, <1>9, <1>13, <2>1, <2>6, <3>1
  <2> QED BY <2>3, <2>4, <2>5, <2>6 DEF TakeHostReply
<1>14. CASE UNCHANGED <<hostPending, merges, held, pc>>
  BY <1>5, <1>8, <1>10, <1>14
<1>15. CASE /\ IF IsReply(m) THEN b = "cont"
                             ELSE b = "host" => ForwardHostSignal(m)
            /\ UNCHANGED <<hostPending, merges>>
            /\ Hold(b, m, IF b = "host" /\ m.member = "NameOwnerChanged"
                          THEN "remember" ELSE "send")
  <2>1. TablesSound'
    BY <1>10, <1>11, <1>15
  <2>2. CASE b = "host" /\ m.member = "NameOwnerChanged"
    <3>1. m.type = "signal" /\ Hold(b, m, "remember")
      BY <1>15, <2>2 DEF ForwardHostSignal
    <3> QED BY <1>2, <1>5, <1>9, <2>1, <2>2, <3>1
  <2>3. CASE b = "host" /\ m.member # "NameOwnerChanged"
    <3>1. m.type = "signal" /\ Hold(b, m, "send")
      BY <1>15, <2>3 DEF ForwardHostSignal
    <3>2. Sound(m, sent, hostUniqueNames)
      BY <1>2, <2>3, <3>1, HostSound
    <3> QED BY <1>2, <1>5, <1>9, <2>1, <3>1, <3>2
  <2>4. CASE b = "cont"
    <3>1. Hold(b, m, "send") /\ Sound(m, sent, hostUniqueNames)
      BY <1>2, <1>15, <2>4, ContSound
    <3> QED BY <1>2, <1>5, <1>9, <2>1, <3>1
  <2> QED BY <2>2, <2>3, <2>4 DEF Bus
<1> QED BY <1>12, <1>13, <1>14, <1>15 DEF Take, m

LEMMA RememberRouting ==
  ASSUME TypeOK, RoutingInv, RememberHostUnique
  PROVE  RoutingInv'
<1> USE DEF RoutingInv
<1> DEFINE m == held["host"]
<1>1. m \in Message /\ FromBus(m, "host", sent) /\ HostConn /\ m.type \in {"return", "signal"}
  BY DEF RememberHostUnique, TrafficSound, TablesSound, TypeOK, HandsOK, Bus
<1>2. /\ hostUniqueNames' = hostUniqueNames \cup ({NameIn(m)} \cap Unique)
      /\ UNCHANGED <<conn, wire, inbox, sent, hostPending, merges, nread, wrote>>
  BY DEF RememberHostUnique, closeVars, envVars
<1>3. NameIn(m) \in Unique => NameIn(m) \in HostPeers
  BY <1>1, PeerNames DEF NameIn, IsReply, FromBus, Message, Peers, Bus
<1>4. /\ pc'["host"] \in {"send", "read"}
      /\ pc'["client"] = pc["client"] /\ pc'["cont"] = pc["cont"]
      /\ held'["cont"] = held["cont"]
      /\ pc'["host"] = "send" => pc["host"] = "remember" /\ held' = held
  BY DEF RememberHostUnique, Hold, Goto, TypeOK, ControlOK, HandsOK, Link, Bus
<1>5. TablesSound'
  BY <1>1, <1>2, <1>3, <1>4 DEF TablesSound, HostConn, Serials
<1>6. SentSound' /\ RoutesPeers' /\ PlanSound'
  BY <1>2, <1>4, SentSoundKept, WrittenKept DEF PlanSound
<1>7. \A x \in Message : Sound(x, sent, hostUniqueNames)
                           => Sound(x, sent, hostUniqueNames')
  BY <1>2 DEF Sound
<1>8. pc'["host"] = "send" => Sound(m, sent, hostUniqueNames')
  BY <1>1, <1>2, <1>4, RememberedSound DEF TrafficSound
<1>9. \A i \in 1..Len(inbox) : inbox[i] \in Message
  BY DEF TypeOK, TrafficOK
<1>10. pc["cont"] \in {"send", "sendMerged"} => held["cont"] \in Message
  BY DEF TypeOK, HandsOK, Bus
<1>11. TrafficSound'
  <2>1. \A c \in Bus : \A i \in 1..Len(wire'[c]) : FromBus(wire'[c][i], c, sent')
    BY <1>2 DEF TrafficSound
  <2>2. \A i \in 1..Len(inbox') : Sound(inbox'[i], sent', hostUniqueNames')
    BY <1>2, <1>7, <1>9 DEF TrafficSound
  <2>3. \A c \in Bus : pc'[c] \in {"send", "sendMerged"} =>
          Sound(held'[c], sent', hostUniqueNames')
    BY <1>2, <1>4, <1>7, <1>8, <1>10 DEF TrafficSound, Bus
  <2> QED BY <1>4, <2>1, <2>2, <2>3 DEF TrafficSound
<1> QED BY <1>5, <1>6, <1>11

LEMMA SendRouting ==
  ASSUME TypeOK, RoutingInv, NEW b \in Bus, SendToClient(b)
  PROVE  RoutingInv'
<1> USE DEF RoutingInv
<1>1. UNCHANGED <<conn, wire, sent, hostUniqueNames, hostPending, merges, nread, wrote>>
  BY DEF SendToClient, closeVars, envVars, goVars
<1>2. /\ pc'[b] \in {"read", "close"}
      /\ \A l \in Link \ {b} : pc'[l] = pc[l]
      /\ \A c \in Bus \ {b} : held'[c] = held[c]
  BY DEF SendToClient, Hold, Goto, TypeOK, ControlOK, HandsOK, Link, Bus
<1>3. b \in Link /\ b # "client"
  BY DEF Bus, Link
<1>4. TablesSound'
  <2>1. pc[b] # "none" /\ pc'["client"] = pc["client"]
    BY <1>2, <1>3 DEF SendToClient, Link
  <2>2. pc'["host"] # "none" => pc["host"] # "none"
    BY <1>2, <1>3, <2>1 DEF Link
  <2> QED BY <1>1, <2>1, <2>2 DEF TablesSound, HostConn, Serials
<1>5. SentSound' /\ RoutesPeers' /\ PlanSound'
  BY <1>1, <1>2, <1>3, SentSoundKept, WrittenKept DEF PlanSound, Link
<1>6. \A i \in 1..Len(inbox') : Sound(inbox'[i], sent, hostUniqueNames)
  <2>1. inbox' \in {inbox, Append(inbox, held[b])}
    BY DEF SendToClient
  <2>2. Sound(held[b], sent, hostUniqueNames)
    BY DEF SendToClient, TrafficSound
  <2>3. inbox \in Seq(Message)
    BY DEF TypeOK, TrafficOK
  <2> QED BY <2>1, <2>2, <2>3 DEF TrafficSound
<1>7. TrafficSound'
  BY <1>1, <1>2, <1>6 DEF TrafficSound, Bus, Link
<1> QED BY <1>4, <1>5, <1>7

THEOREM NextRoutingInv ==
  TypeOK /\ RoutingInv /\ [Next]_vars => RoutingInv'
<1> SUFFICES ASSUME TypeOK, RoutingInv, [Next]_vars PROVE RoutingInv'
  OBVIOUS
<1>1. CASE UNCHANGED vars
  BY <1>1 DEF vars, RoutingInv, TrafficSound, TablesSound, SentSound, PlanSound,
              RoutesPeers, HostConn, Serials
<1> QED BY <1>1, QuietRouting, DispatchRouting, TakeRouting, RememberRouting, SendRouting,
           EnvironmentRouting DEF Next, Upstream, Rest

\* Whatever the names, also when one is in use on both buses, and whatever the
\* interleaving of the three goroutines: a message to a peer of the host bus that the
\* application was told of as an owner is never written to the container, and one to
\* a peer of the container is written to the host only if that name is in use there
\* too (routeDestination, rememberHostUnique).
THEOREM SessionRoutesPeers == Spec => []RoutesPeers
<1>1. TypeOK /\ RoutingInv /\ [Next]_vars => (TypeOK /\ RoutingInv)'
  BY NextTypeOK, NextRoutingInv
<1>2. Init => TypeOK /\ RoutingInv
  BY InitTypeOK, InitRoutingInv
<1>3. RoutingInv => RoutesPeers
  BY DEF RoutingInv
<1> QED BY <1>1, <1>2, <1>3, PTL DEF Spec

\* Every host owner the application has been told of is in hostUniqueNames, which
\* holds names of the host bus only, and every message is planned by it: the
\* invariant SessionRoutesPeers rests on (rememberHostUnique, routeDestination).
THEOREM SessionRoutingInv == Spec => []RoutingInv
<1>1. TypeOK /\ RoutingInv /\ [Next]_vars => (TypeOK /\ RoutingInv)'
  BY NextTypeOK, NextRoutingInv
<1>2. Init => TypeOK /\ RoutingInv
  BY InitTypeOK, InitRoutingInv
<1> QED BY <1>1, <1>2, PTL DEF Spec
=============================================================================
