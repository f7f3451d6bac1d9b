----------------------- MODULE RouterSession_answers -----------------------
(***************************************************************************)
(* No call is answered twice, and a session implements BusPromise, for     *)
(* every choice of names, peers, requests, emissions and bounds.           *)
(***************************************************************************)
EXTENDS RouterSession_proofs

-----------------------------------------------------------------------------
(* Streams of messages. *)

LEMMA RepliesInAppend ==
  ASSUME NEW q \in Seq(Message), NEW m \in Message
  PROVE  /\ IsReply(m) => RepliesIn(Append(q, m)) = RepliesIn(q) \cup {m.reply}
         /\ ~IsReply(m) => RepliesIn(Append(q, m)) = RepliesIn(q)
<1>1. /\ Len(Append(q, m)) = Len(q) + 1
      /\ Append(q, m)[Len(q) + 1] = m
      /\ \A i \in 1..Len(q) : Append(q, m)[i] = q[i]
  OBVIOUS
<1> QED BY <1>1 DEF RepliesIn

LEMMA OnceAppend ==
  ASSUME NEW q \in Seq(Message), NEW m \in Message, OncePerSerial(q),
         IsReply(m) => m.reply \notin RepliesIn(q)
  PROVE  OncePerSerial(Append(q, m))
<1>1. /\ Len(Append(q, m)) = Len(q) + 1
      /\ Append(q, m)[Len(q) + 1] = m
      /\ \A i \in 1..Len(q) : Append(q, m)[i] = q[i]
  OBVIOUS
<1> QED BY <1>1 DEF RepliesIn, OncePerSerial

LEMMA RepliesInTail ==
  ASSUME NEW q \in Seq(Message), q # <<>>, OncePerSerial(q)
  PROVE  /\ OncePerSerial(Tail(q))
         /\ RepliesIn(Tail(q)) \subseteq RepliesIn(q)
         /\ IsReply(Head(q)) => /\ Head(q).reply \in RepliesIn(q)
                                /\ Head(q).reply \notin RepliesIn(Tail(q))
<1>1. /\ Len(Tail(q)) = Len(q) - 1 /\ Len(q) \in Nat \ {0}
      /\ Head(q) = q[1]
      /\ \A i \in 1..Len(Tail(q)) : Tail(q)[i] = q[i + 1] /\ i + 1 \in 1..Len(q)
  OBVIOUS
<1>2. OncePerSerial(Tail(q))
  BY <1>1 DEF OncePerSerial
<1>3. RepliesIn(Tail(q)) \subseteq RepliesIn(q)
  BY <1>1 DEF RepliesIn
<1>4. ASSUME IsReply(Head(q))
      PROVE  /\ Head(q).reply \in RepliesIn(q)
             /\ Head(q).reply \notin RepliesIn(Tail(q))
  <2>1. Head(q).reply \in RepliesIn(q)
    BY <1>1, <1>4 DEF RepliesIn
  <2>2. ASSUME NEW i \in 1..Len(Tail(q)), IsReply(Tail(q)[i]),
               Tail(q)[i].reply = Head(q).reply
        PROVE  FALSE
    BY <1>1, <1>4, <2>2 DEF OncePerSerial
  <2> QED BY <2>1, <2>2 DEF RepliesIn
<1> QED BY <1>2, <1>3, <1>4

-----------------------------------------------------------------------------
(* What a step must respect to keep the answers apart. *)

\* Nothing new is handed over and nothing settled is opened again.
LEMMA AnswersKept ==
  ASSUME AnswersOnce, Unsettled' \subseteq Unsettled, inbox' = inbox,
         \A b \in Bus : Delivering(b)' => Delivering(b) /\ held'[b] = held[b]
  PROVE  AnswersOnce'
BY DEF AnswersOnce, AtMostOneAnswer, Bus

\* A goroutine takes up an answer that settles its call.
LEMMA AnswersTaken ==
  ASSUME AnswersOnce, Unsettled' \subseteq Unsettled, inbox' = inbox,
         NEW b \in Bus, NEW x \in Message, held'[b] = x,
         IsReply(x) => x.reply \in Unsettled \ Unsettled',
         \A c \in Bus \ {b} : Delivering(c)' => Delivering(c) /\ held'[c] = held[c]
  PROVE  AnswersOnce'
<1>1. Delivering(b)' => IsReply(x)
  BY DEF Delivering
<1>2. \A i \in 1..Len(inbox) :
        IsReply(inbox[i]) => inbox[i].reply \notin Unsettled
  BY DEF AnswersOnce
<1>3. \A c \in Bus \ {b} : Delivering(c)' => held'[c].reply \notin Unsettled
  BY DEF AnswersOnce
<1>4. AtMostOneAnswer'
  BY DEF AnswersOnce, AtMostOneAnswer
<1>5. \A c \in Bus : Delivering(c)' =>
        /\ held'[c].reply \notin Unsettled'
        /\ \A i \in 1..Len(inbox') : IsReply(inbox'[i]) => inbox'[i].reply # held'[c].reply
  BY <1>1, <1>2, <1>3 DEF AnswersOnce
<1>6. Delivering("cont")' /\ Delivering("host")' =>
        held'["cont"].reply # held'["host"].reply
  BY <1>1, <1>3 DEF Bus
<1> QED BY <1>2, <1>4, <1>5, <1>6 DEF AnswersOnce

\* What one bus owes, and the tables, when a step only takes entries away.
LEMMA TablesOnceKept ==
  ASSUME TablesOnce, UNCHANGED <<nread, replies>>,
         wrote'["cont"] = wrote["cont"], wrote'["host"] = wrote["host"],
         \A b \in Bus : OnWire(b)' \subseteq OnWire(b),
         hostPending' \subseteq hostPending, merges' \subseteq merges,
         pc'["client"] \in Busy => pc'["client"] = pc["client"]
  PROVE  TablesOnce' /\ Unsettled' \subseteq Unsettled
<1>1. \A b \in Bus : Replied(b)' = Replied(b)
  BY DEF Replied
<1>2. TablesOnce'
  <2>1. /\ \A p \in hostPending' : p.serial \in 1..nread'
        /\ \A p \in hostPending' : p.kind = "forward" =>
             /\ p.serial \notin wrote'["cont"]
             /\ \A st \in merges' : st.serial # p.serial
             /\ p.serial = nread' /\ pc'["client"] \in Busy => pc'["client"] = "forward"
        /\ \A p, q \in hostPending' : p.serial = q.serial => p = q
    BY DEF TablesOnce
  <2>2. \A st \in merges' :
          /\ st.serial \in 1..nread'
          /\ st.serial = nread' /\ pc'["client"] \in Busy
               => pc'["client"] \in {"merge", "cont"}
          /\ \A b \in Bus : \A m \in st.part[b] : IsReply(m) /\ m.reply = st.serial
    BY DEF TablesOnce
  <2>3. \A st \in merges' : \A b \in Bus : st.part[b] # {} =>
          st.serial \in Replied(b)' \ OnWire(b)'
    BY <1>1 DEF TablesOnce
  <2>4. /\ \A st, tt \in merges' : st.serial = tt.serial => st = tt
        /\ pc'["client"] \in Busy => nread' \notin wrote'["cont"]
        /\ pc'["client"] = "forward" => nread' \notin wrote'["host"]
    BY DEF TablesOnce, Busy
  <2> QED BY <2>1, <2>2, <2>3, <2>4 DEF TablesOnce
<1>3. Unsettled' \subseteq Unsettled
  BY <1>1 DEF Unsettled, Bus
<1> QED BY <1>2, <1>3

LEMMA StreamsOnceKept ==
  ASSUME StreamsOnce, UNCHANGED <<wire, replies>>,
         \A b \in Bus : wrote[b] \subseteq wrote'[b]
  PROVE  StreamsOnce' /\ \A b \in Bus : OnWire(b)' = OnWire(b)
BY DEF StreamsOnce, OnWire, Replied

THEOREM InitAnswerInv == Init => AnswerInv
<1> SUFFICES ASSUME Init PROVE AnswerInv
  OBVIOUS
<1>1. StreamsOnce
  BY DEF Init, StreamsOnce, OncePerSerial, OnWire, RepliesIn, Replied
<1>2. TablesOnce
  BY DEF Init, TablesOnce, Busy, Link
<1>3. AnswersOnce
  BY DEF Init, AnswersOnce, AtMostOneAnswer, OncePerSerial, Delivering, Bus, Link
<1> QED BY <1>1, <1>2, <1>3 DEF AnswerInv

\* Connecting, ending, losing a link and sending a request answer nothing.
LEMMA QuietAnswers ==
  ASSUME TypeOK, AnswerInv,
         \/ Setup \/ Finish \/ (\E l \in Link : Teardown(l)) \/ (\E l \in Link : Drop(l))
         \/ \E r \in Requests : ClientSend(r)
  PROVE  AnswerInv'
<1>1. /\ UNCHANGED <<wire, inbox, held, hostPending, merges, wrote, replies, nread>>
      /\ \A b \in Bus : pc'[b] \in {"remember", "send", "sendMerged"} => pc'[b] = pc[b]
      /\ pc'["client"] \in Busy => pc'["client"] = pc["client"]
  <2> USE DEF TypeOK, ControlOK, Goto, goVars, envVars, closeVars, Link, Bus, Busy
  <2>1. CASE Setup
    BY <2>1 DEF Setup, AuthenticateClient, ConnectContainer, ConnectHost
  <2>2. CASE Finish \/ \E l \in Link : Teardown(l)
    BY <2>2 DEF Finish, Teardown, ReadFails, Close, CloseConn, CloseReturns, AfterClose
  <2>3. CASE (\E l \in Link : Drop(l)) \/ \E r \in Requests : ClientSend(r)
    BY <2>3 DEF Drop, ClientSend
  <2> QED BY <2>1, <2>2, <2>3
<1>2. StreamsOnce' /\ \A b \in Bus : OnWire(b)' = OnWire(b)
  BY <1>1, StreamsOnceKept DEF AnswerInv
<1>3. TablesOnce' /\ Unsettled' \subseteq Unsettled
  BY <1>1, <1>2, TablesOnceKept DEF AnswerInv
<1>4. AnswersOnce'
  BY <1>1, <1>3, AnswersKept DEF AnswerInv, Delivering
<1> QED BY <1>2, <1>3, <1>4 DEF AnswerInv

\* Bus b sends m: a reply to a call it has, and only once, or something unasked.
Sends(b, m) ==
  /\ wire' = [wire EXCEPT ![b] = Append(@, m)]
  /\ replies' = IF IsReply(m) THEN [replies EXCEPT ![b] = @ \cup {m}] ELSE replies
  /\ IsReply(m) => /\ m.from = {b} /\ m.reply \in wrote[b] \ Replied(b)
                   /\ m.reply \in Nat /\ sent[m.reply].type = "call"

LEMMA BusSends ==
  ASSUME TypeOK,
         \/ \E b \in Bus : \E s \in Serials : BusReply(b, s)
         \/ \E b \in Bus : BusEmit(b)
  PROVE  /\ UNCHANGED <<pc, hostPending, merges, sent, nread, held, wrote, inbox>>
         /\ \E b \in Bus, m \in Message : Sends(b, m)
<1>1. ASSUME NEW b \in Bus, NEW s \in Serials, BusReply(b, s)
      PROVE  \E m \in Message : Sends(b, m)
  <2>1. \A t : (IF t = "return" THEN ReplyArgs(b, sent[s]) ELSE {NoName}) \subseteq Names \cup {NoName}
    BY DEF ReplyArgs, Peers, Names, Unique
  <2>2. PICK t \in {"return", "error"}, a \in Names \cup {NoName} :
          LET m == [type |-> t, reply |-> s, member |-> "Plain", arg |-> a,
                    owner |-> NoName, sender |-> NoName, from |-> {b}]
          IN  /\ wire' = [wire EXCEPT ![b] = Append(@, m)]
              /\ replies' = [replies EXCEPT ![b] = @ \cup {m}]
    BY <1>1, <2>1 DEF BusReply
  <2> DEFINE m == [type |-> t, reply |-> s, member |-> "Plain", arg |-> a,
                   owner |-> NoName, sender |-> NoName, from |-> {b}]
  <2>3. s \in Nat /\ m \in Message /\ IsReply(m) /\ m.from = {b} /\ m.reply = s
    BY DEF Message, Members, IsReply, Serials, TypeOK, TrafficOK
  <2>4. /\ wire' = [wire EXCEPT ![b] = Append(@, m)]
        /\ replies' = [replies EXCEPT ![b] = @ \cup {m}]
    BY <2>2
  <2>5. s \in wrote[b] \ Replied(b) /\ sent[s].type = "call"
    BY <1>1 DEF BusReply
  <2> HIDE DEF m
  <2> QED BY <2>3, <2>4, <2>5 DEF Sends
<1>2. ASSUME NEW b \in Bus, BusEmit(b)
      PROVE  \E m \in Message : Sends(b, m)
  <2>1. PICK m \in Emissions[b] : wire' = [wire EXCEPT ![b] = Append(@, m)]
    BY <1>2 DEF BusEmit
  <2>2. m \in Message /\ ~IsReply(m)
    BY SessionAssumption DEF IsReply
  <2>3. replies' = replies
    BY <1>2 DEF BusEmit
  <2> QED BY <2>1, <2>2, <2>3 DEF Sends
<1>3. UNCHANGED <<pc, hostPending, merges, sent, nread, held, wrote, inbox>>
  BY DEF BusReply, BusEmit, goVars
<1> QED BY <1>1, <1>2, <1>3

\* A bus replies to a call it has, and only once.
LEMMA BusAnswers ==
  ASSUME TypeOK, AnswerInv,
         \/ \E b \in Bus : \E s \in Serials : BusReply(b, s)
         \/ \E b \in Bus : BusEmit(b)
  PROVE  AnswerInv'
<1> USE DEF AnswerInv
<1>0. wire \in [Bus -> Seq(Message)] /\ replies \in [Bus -> SUBSET Message]
  BY DEF TypeOK, TrafficOK
<1>1. ASSUME NEW b \in Bus, NEW m \in Message,
             wire' = [wire EXCEPT ![b] = Append(@, m)],
             IF IsReply(m) THEN m.reply \in wrote[b] \ Replied(b) ELSE TRUE,
             replies' = IF IsReply(m) THEN [replies EXCEPT ![b] = @ \cup {m}] ELSE replies,
             UNCHANGED <<pc, hostPending, merges, nread, held, wrote, inbox>>
      PROVE  AnswerInv'
  <2>1. /\ Replied(b)' = IF IsReply(m) THEN Replied(b) \cup {m.reply} ELSE Replied(b)
        /\ OnWire(b)'  = IF IsReply(m) THEN OnWire(b) \cup {m.reply} ELSE OnWire(b)
    BY <1>0, <1>1, RepliesInAppend DEF Replied, OnWire
  <2>2. \A c \in Bus \ {b} : Replied(c)' = Replied(c) /\ OnWire(c)' = OnWire(c)
    BY <1>0, <1>1 DEF Replied, OnWire
  <2>3. StreamsOnce'
    <3>1. OncePerSerial(wire'[b])
      BY <1>0, <1>1, OnceAppend DEF StreamsOnce, OnWire
    <3>2. \A c \in Bus : OncePerSerial(wire'[c])
      BY <1>0, <1>1, <3>1 DEF StreamsOnce
    <3>3. \A c \in Bus : OnWire(c)' \subseteq Replied(c)' /\ Replied(c)' \subseteq wrote[c]
      BY <1>1, <2>1, <2>2 DEF StreamsOnce
    <3> QED BY <1>1, <3>2, <3>3 DEF StreamsOnce
  <2>4. \A c \in Bus : Replied(c) \ OnWire(c) \subseteq Replied(c)' \ OnWire(c)'
    BY <1>1, <2>1, <2>2
  <2>5. TablesOnce'
    BY <1>1, <2>4 DEF TablesOnce
  <2>6. Unsettled' \subseteq Unsettled
    BY <1>1, <2>4 DEF Unsettled, Bus
  <2>7. AnswersOnce'
    BY <1>1, <2>6, AnswersKept DEF Delivering
  <2> QED BY <2>3, <2>5, <2>7
<1> QED BY <1>1, BusSends DEF Sends

\* Dispatching keeps a call unsettled until it is answered or noted nowhere.
LEMMA DispatchAnswers ==
  ASSUME TypeOK, AnswerInv, Dispatch
  PROVE  AnswerInv'
<1> USE DEF AnswerInv
<1>0. /\ wrote \in [Bus -> SUBSET (1..nread)]
      /\ nread \in Nat /\ inbox \in Seq(Message)
      /\ pc["client"] \in Busy => nread \in 1..nread
  BY DEF TypeOK, TrafficOK, HandsOK, Busy
<1>1. ASSUME NEW place \in Places, Goto("client", place)
      PROVE  (\A b \in Bus : pc'[b] = pc[b]) /\ pc'["client"] = place
  BY <1>1, GotoType DEF TypeOK, Bus, Link
<1>2. CASE ReadClient
  <2> DEFINE plan == Plan(sent[nread + 1])
  <2>1. plan \in Busy
    BY DEF Plan, Busy
  <2> HIDE DEF plan
  <2>2. (\A b \in Bus : pc'[b] = pc[b]) /\ pc'["client"] = plan
    BY <1>1, <1>2, <2>1 DEF ReadClient, Busy, Places, plan
  <2>3. /\ nread' = nread + 1
        /\ UNCHANGED <<wire, replies, wrote, inbox, held>>
    BY <1>2 DEF ReadClient, envVars
  <2>4. StreamsOnce' /\ \A b \in Bus : OnWire(b)' = OnWire(b) /\ Replied(b)' = Replied(b)
    BY <2>3, StreamsOnceKept DEF Replied
  <2>5. \A p \in hostPending' : \/ p \in hostPending /\ p.serial \in 1..nread
                                \/ p.serial = nread + 1 /\ p.kind = plan
                                   /\ plan \in {"swallow", "forward"}
    BY <1>2 DEF ReadClient, NoteHostPending, TablesOnce, plan
  <2> DEFINE entry == [serial |-> nread + 1, part |-> [b \in Bus |-> {}]]
  <2>a. entry.serial = nread + 1 /\ \A b \in Bus : entry.part[b] = {}
    OBVIOUS
  <2> HIDE DEF entry
  <2>b. \A st \in merges' : st \in merges \/ (plan = "merge" /\ st = entry)
    BY <1>2 DEF ReadClient, NoteMerge, plan, entry
  <2>6. \A st \in merges' : \/ st \in merges /\ st.serial \in 1..nread
                            \/ plan = "merge" /\ st.serial = nread + 1
                               /\ \A b \in Bus : st.part[b] = {}
    BY <2>a, <2>b DEF TablesOnce
  <2>7. /\ \A p, q \in hostPending' : p.serial = q.serial => p = q
        /\ \A st, tt \in merges' : st.serial = tt.serial => st = tt
    <3>1. \A p, q \in hostPending' : p.serial = q.serial => p = q
      BY <1>2 DEF ReadClient, NoteHostPending, TablesOnce
    <3>2. \A st, tt \in merges' : st.serial = tt.serial => st = tt
      BY <1>0, <2>a, <2>b DEF TablesOnce
    <3> QED BY <3>1, <3>2
  <2>8. TablesOnce'
    <3>1. \A p \in hostPending' : p.serial \in 1..nread'
      BY <1>0, <2>3, <2>5
    <3>2. \A p \in hostPending' : p.kind = "forward" =>
             /\ p.serial \notin wrote'["cont"]
             /\ \A st \in merges' : st.serial # p.serial
             /\ p.serial = nread' /\ pc'["client"] \in Busy => pc'["client"] = "forward"
      BY <1>0, <2>2, <2>3, <2>5, <2>6 DEF TablesOnce, Bus
    <3>3. \A st \in merges' :
            /\ st.serial \in 1..nread'
            /\ st.serial = nread' /\ pc'["client"] \in Busy
                 => pc'["client"] \in {"merge", "cont"}
            /\ \A b \in Bus : \A m \in st.part[b] : IsReply(m) /\ m.reply = st.serial
      BY <1>0, <2>2, <2>3, <2>6 DEF TablesOnce
    <3>4. \A st \in merges' : \A b \in Bus : st.part[b] # {} =>
            st.serial \in Replied(b)' \ OnWire(b)'
      BY <2>4, <2>6 DEF TablesOnce
    <3>5. /\ pc'["client"] \in Busy => nread' \notin wrote'["cont"]
          /\ pc'["client"] = "forward" => nread' \notin wrote'["host"]
      BY <1>0, <2>3 DEF Bus
    <3> QED BY <2>7, <3>1, <3>2, <3>3, <3>4, <3>5 DEF TablesOnce
  <2>9. Unsettled' \subseteq Unsettled
    BY <1>0, <2>3, <2>4, <2>5, <2>6 DEF Unsettled, Bus
  <2>10. AnswersOnce'
    BY <2>2, <2>3, <2>9, AnswersKept DEF Delivering
  <2> QED BY <2>4, <2>8, <2>10
<1>3. ASSUME NEW b \in Bus, NEW place \in {"read", "cont", "close"}, Goto("client", place),
             pc["client"] \in Busy \ {"unavailable"},
             place = "cont" => b = "host" /\ pc["client"] \in {"swallow", "merge", "broadcast"},
             b = "cont" => pc["client"] = "cont",
             wrote' \in {wrote, [wrote EXCEPT ![b] = @ \cup {nread}]},
             hostPending' \subseteq hostPending, merges' \subseteq merges,
             UNCHANGED <<wire, replies, inbox, held, nread>>
      PROVE  AnswerInv'
  <2>1. (\A c \in Bus : pc'[c] = pc[c]) /\ pc'["client"] = place
    BY <1>1, <1>3 DEF Places
  <2>2. \A c \in Bus : /\ wrote[c] \subseteq wrote'[c]
                       /\ wrote'[c] \subseteq wrote[c] \cup (IF c = b THEN {nread} ELSE {})
    BY <1>0, <1>3
  <2>3. StreamsOnce' /\ \A c \in Bus : OnWire(c)' = OnWire(c) /\ Replied(c)' = Replied(c)
    BY <1>3, <2>2, StreamsOnceKept DEF Replied
  <2>4. TablesOnce'
    <3>1. /\ \A p \in hostPending' : p.serial \in 1..nread'
          /\ \A p, q \in hostPending' : p.serial = q.serial => p = q
          /\ \A st, tt \in merges' : st.serial = tt.serial => st = tt
      BY <1>3 DEF TablesOnce
    <3>2. \A p \in hostPending' : p.kind = "forward" =>
             /\ p.serial \notin wrote'["cont"]
             /\ \A st \in merges' : st.serial # p.serial
             /\ p.serial = nread' /\ pc'["client"] \in Busy => pc'["client"] = "forward"
      BY <1>3, <2>1, <2>2 DEF TablesOnce, Bus, Busy
    <3>3. \A st \in merges' :
            /\ st.serial \in 1..nread'
            /\ st.serial = nread' /\ pc'["client"] \in Busy
                 => pc'["client"] \in {"merge", "cont"}
            /\ \A c \in Bus : \A m \in st.part[c] : IsReply(m) /\ m.reply = st.serial
      BY <1>3, <2>1 DEF TablesOnce, Busy
    <3>4. \A st \in merges' : \A c \in Bus : st.part[c] # {} =>
            st.serial \in Replied(c)' \ OnWire(c)'
      BY <1>3, <2>3 DEF TablesOnce
    <3>5. /\ pc'["client"] \in Busy => nread' \notin wrote'["cont"]
          /\ pc'["client"] = "forward" => nread' \notin wrote'["host"]
      BY <1>3, <2>1, <2>2 DEF TablesOnce, Bus, Busy
    <3> QED BY <3>1, <3>2, <3>3, <3>4, <3>5 DEF TablesOnce
  <2>5. Unsettled' \subseteq Unsettled
    BY <1>3, <2>2, <2>3 DEF Unsettled, Bus
  <2>6. AnswersOnce'
    BY <1>3, <2>1, <2>5, AnswersKept DEF Delivering
  <2> QED BY <2>3, <2>4, <2>6
<1>4. CASE WriteHostCopy
  <2>1. /\ Goto("client", "cont") /\ pc["client"] \in {"swallow", "merge", "broadcast"}
        /\ wrote' \in {wrote, [wrote EXCEPT !["host"] = @ \cup {nread}]}
        /\ hostPending' \subseteq hostPending /\ merges' \subseteq merges
        /\ UNCHANGED <<wire, replies, inbox, held, nread>>
    BY <1>4 DEF WriteHostCopy, Forget, envVars
  <2> QED BY <1>3, <2>1 DEF Bus, Busy
<1>5. CASE SendToHost
  <2>1. /\ \E place \in {"read", "close"} : Goto("client", place)
        /\ pc["client"] = "forward"
        /\ wrote' \in {wrote, [wrote EXCEPT !["host"] = @ \cup {nread}]}
        /\ hostPending' \subseteq hostPending /\ merges' \subseteq merges
        /\ UNCHANGED <<wire, replies, inbox, held, nread>>
    BY <1>5 DEF SendToHost, Forget, envVars
  <2> QED BY <1>3, <2>1 DEF Bus, Busy
<1>6. CASE WriteContainer
  <2>1. /\ \E place \in {"read", "close"} : Goto("client", place)
        /\ pc["client"] = "cont"
        /\ wrote' \in {wrote, [wrote EXCEPT !["cont"] = @ \cup {nread}]}
        /\ hostPending' \subseteq hostPending /\ merges' \subseteq merges
        /\ UNCHANGED <<wire, replies, inbox, held, nread>>
    BY <1>6 DEF WriteContainer, goVars, envVars
  <2> QED BY <1>3, <2>1 DEF Bus, Busy
<1>7. CASE ReplyUnavailable
  <2>1. /\ pc["client"] = "unavailable"
        /\ inbox' \in {inbox, Append(inbox, ServiceUnknown(nread))}
        /\ UNCHANGED <<wire, replies, held, nread, hostPending, merges, wrote>>
        /\ \E place \in {"read", "close"} : Goto("client", place)
    BY <1>7 DEF ReplyUnavailable, goVars, envVars
  <2>2. (\A c \in Bus : pc'[c] = pc[c]) /\ pc'["client"] \in {"read", "close"}
    BY <1>1, <2>1 DEF Places
  <2>3. StreamsOnce' /\ \A c \in Bus : OnWire(c)' = OnWire(c) /\ Replied(c)' = Replied(c)
    BY <2>1, StreamsOnceKept DEF Replied
  <2>4. TablesOnce' /\ Unsettled' \subseteq Unsettled
    BY <2>1, <2>2, <2>3, TablesOnceKept DEF Busy
  <2>5. nread \in Unsettled \ Unsettled'
    BY <1>0, <2>1, <2>2, <2>3 DEF Unsettled, TablesOnce, Busy
  <2>6. IsReply(ServiceUnknown(nread)) /\ ServiceUnknown(nread).reply = nread
    BY DEF ServiceUnknown, IsReply
  <2>7. \A i \in 1..Len(inbox') :
          \/ i \in 1..Len(inbox) /\ inbox'[i] = inbox[i]
          \/ inbox'[i] = ServiceUnknown(nread) /\ i = Len(inbox) + 1
    BY <1>0, <2>1
  <2>8. AtMostOneAnswer'
    BY <2>5, <2>6, <2>7 DEF AnswersOnce, AtMostOneAnswer, OncePerSerial
  <2>9. \A i \in 1..Len(inbox') : IsReply(inbox'[i]) => inbox'[i].reply \notin Unsettled'
    BY <2>4, <2>5, <2>6, <2>7 DEF AnswersOnce
  <2>10. \A b \in Bus : Delivering(b)' = Delivering(b) /\ held'[b] = held[b]
    BY <2>1, <2>2 DEF Delivering
  <2>11. \A b \in Bus : Delivering(b)' =>
           /\ held'[b].reply \notin Unsettled'
           /\ \A i \in 1..Len(inbox') : IsReply(inbox'[i]) => inbox'[i].reply # held'[b].reply
    BY <2>4, <2>5, <2>6, <2>7, <2>10 DEF AnswersOnce
  <2>12. AnswersOnce'
    BY <2>8, <2>9, <2>10, <2>11 DEF AnswersOnce, Bus
  <2> QED BY <2>3, <2>4, <2>12
<1> QED BY <1>2, <1>4, <1>5, <1>6, <1>7 DEF Dispatch

\* Handing over ends what the goroutine holds.
LEMMA HandOverAnswers ==
  ASSUME TypeOK, AnswerInv, RememberHostUnique \/ \E b \in Bus : SendToClient(b)
  PROVE  AnswerInv'
<1> USE DEF AnswerInv
<1>1. /\ UNCHANGED <<wire, replies, hostPending, merges, nread, wrote>>
      /\ pc'["client"] = pc["client"]
  BY DEF RememberHostUnique, SendToClient, Hold, Goto, goVars, envVars, TypeOK, ControlOK,
         Bus, Link
<1>2. StreamsOnce' /\ \A b \in Bus : OnWire(b)' = OnWire(b)
  BY <1>1, StreamsOnceKept
<1>3. TablesOnce' /\ Unsettled' \subseteq Unsettled
  BY <1>1, <1>2, TablesOnceKept
<1>4. CASE RememberHostUnique
  <2>1. \A b \in Bus : Delivering(b)' => Delivering(b) /\ held'[b] = held[b]
    BY <1>4 DEF RememberHostUnique, Hold, Goto, Delivering, TypeOK, ControlOK, HandsOK,
                Bus, Link
  <2>2. inbox' = inbox
    BY <1>4 DEF RememberHostUnique
  <2> QED BY <1>2, <1>3, <2>1, <2>2, AnswersKept
<1>5. ASSUME NEW b \in Bus, SendToClient(b)
      PROVE  AnswerInv'
  <2>1. /\ pc'[b] \in {"read", "close"}
        /\ \A c \in Bus \ {b} : pc'[c] = pc[c] /\ held'[c] = held[c]
        /\ pc[b] \in {"send", "sendMerged"}
        /\ inbox' \in {inbox, Append(inbox, held[b])}
    BY <1>5 DEF SendToClient, Hold, Goto, TypeOK, ControlOK, HandsOK, Bus, Link
  <2>2. /\ ~Delivering(b)'
        /\ \A c \in Bus \ {b} : Delivering(c)' => Delivering(c) /\ held'[c] = held[c]
    BY <2>1 DEF Delivering
  <2>3. \A i \in 1..Len(inbox') :
          \/ i \in 1..Len(inbox) /\ inbox'[i] = inbox[i]
          \/ inbox'[i] = held[b] /\ i = Len(inbox) + 1
    <3>1. inbox \in Seq(Message) /\ held[b] \in Message
      BY <2>1 DEF TypeOK, TrafficOK, HandsOK
    <3> QED BY <2>1, <3>1
  <2>4. IsReply(held[b]) =>
          /\ held[b].reply \notin Unsettled
          /\ \A i \in 1..Len(inbox) : IsReply(inbox[i]) => inbox[i].reply # held[b].reply
          /\ \A c \in Bus \ {b} : Delivering(c) => held[c].reply # held[b].reply
    BY <2>1 DEF AnswersOnce, Delivering, Bus
  <2>5. AtMostOneAnswer'
    BY <2>3, <2>4 DEF AnswersOnce, AtMostOneAnswer, OncePerSerial
  <2>6. \A i \in 1..Len(inbox') : IsReply(inbox'[i]) => inbox'[i].reply \notin Unsettled'
    BY <1>3, <2>3, <2>4 DEF AnswersOnce
  <2>7. \A c \in Bus : Delivering(c)' =>
           /\ held'[c].reply \notin Unsettled'
           /\ \A i \in 1..Len(inbox') : IsReply(inbox'[i]) => inbox'[i].reply # held'[c].reply
    BY <1>3, <2>2, <2>3, <2>4 DEF AnswersOnce
  <2>8. AnswersOnce'
    BY <2>2, <2>5, <2>6, <2>7 DEF AnswersOnce, Bus
  <2> QED BY <1>2, <1>3, <2>8
<1> QED BY <1>4, <1>5

\* Taking up a reply settles its call, whether it is passed on, kept for a merge
\* or dropped.
LEMMA TakeAnswers ==
  ASSUME TypeOK, AnswerInv, NEW b \in Bus, Take(b)
  PROVE  AnswerInv'
<1> USE DEF AnswerInv
<1> DEFINE m == Head(wire[b])
<1>1. /\ wire[b] \in Seq(Message) /\ wire[b] # <<>> /\ m \in Message
      /\ wire \in [Bus -> Seq(Message)]
      /\ wrote \in [Bus -> SUBSET (1..nread)] /\ nread \in Nat
      /\ hostPending \subseteq [serial: Nat, kind: {"swallow", "forward"}, member: Members]
      /\ merges \subseteq [serial: Nat, part: [Bus -> SUBSET Message]]
  BY TakeType DEF Take, TypeOK, TrafficOK, TablesOK
<1>2. /\ wire' = [wire EXCEPT ![b] = Tail(@)]
      /\ UNCHANGED <<replies, nread, wrote, inbox>>
  BY DEF Take
<1>3. /\ IsReply(m) => m.reply \in OnWire(b) /\ m.reply \notin OnWire(b)'
      /\ OnWire(b)' \subseteq OnWire(b)
      /\ \A c \in Bus \ {b} : OnWire(c)' = OnWire(c)
      /\ \A c \in Bus : Replied(c)' = Replied(c)
  BY <1>1, <1>2, RepliesInTail DEF OnWire, Replied, StreamsOnce
<1>4. StreamsOnce'
  <2>1. \A c \in Bus : OncePerSerial(wire'[c])
    BY <1>1, <1>2, RepliesInTail DEF StreamsOnce
  <2> QED BY <1>2, <1>3, <2>1 DEF StreamsOnce
<1> HIDE DEF m
<1>5. b \in Link /\ b # "client"
  BY DEF Bus, Link
<1>6. pc'["client"] = pc["client"]
  <2>1. pc' = pc \/ \E place \in Places : pc' = [pc EXCEPT ![b] = place]
    BY DEF Take, TakeMerge, TakeHostReply, Hold, Goto, Places
  <2> QED BY <1>5, <2>1 DEF TypeOK, ControlOK, Link
<1>7. ASSUME NEW x \in Message, NEW place \in Places, Hold(b, x, place)
      PROVE  /\ held'[b] = x /\ pc'[b] = place
             /\ \A c \in Bus \ {b} : Delivering(c)' => Delivering(c) /\ held'[c] = held[c]
  <2>1. pc'[b] = place /\ \A k \in Link \ {b} : pc'[k] = pc[k]
    BY <1>5, <1>7, GotoType DEF Hold, TypeOK
  <2>2. held'[b] = x /\ \A c \in Bus \ {b} : held'[c] = held[c]
    BY <1>7 DEF Hold, TypeOK, HandsOK
  <2> QED BY <2>1, <2>2 DEF Delivering, Bus, Link
<1>8. ASSUME hostPending' \subseteq hostPending, merges' \subseteq merges
      PROVE  TablesOnce' /\ Unsettled' \subseteq Unsettled
  BY <1>2, <1>3, <1>6, <1>8, TablesOnceKept
<1>9. ASSUME UNCHANGED <<held, pc>>, Unsettled' \subseteq Unsettled
      PROVE  AnswersOnce'
  BY <1>2, <1>9, AnswersKept DEF Delivering
<1>10. \* a reply of a bus is to something written to it
       /\ IsReply(m) => m.reply \in wrote[b]
       /\ \A c \in Bus : \A s \in Replied(c) : s \in wrote[c] /\ s \in 1..nread
  BY <1>1, <1>3 DEF StreamsOnce
<1>11. CASE \E st \in merges : IsReply(m) /\ st.serial = m.reply /\ TakeMerge(b, m, st)
            /\ UNCHANGED hostPending
  <2> PICK st \in merges : IsReply(m) /\ st.serial = m.reply /\ TakeMerge(b, m, st)
                           /\ UNCHANGED hostPending
    BY <1>11
  <2> DEFINE part  == [st.part EXCEPT ![b] = {m}]
             entry == [st EXCEPT !.part = part]
  <2>1. /\ st \in [serial: Nat, part: [Bus -> SUBSET Message]]
        /\ part \in [Bus -> SUBSET Message]
        /\ part[b] = {m} /\ \A c \in Bus \ {b} : part[c] = st.part[c]
    BY <1>1
  <2>2. entry.serial = st.serial /\ entry.part = part
    BY <2>1
  <2>3. \A c \in Bus : /\ \A x \in part[c] : IsReply(x) /\ x.reply = st.serial
                       /\ part[c] # {} => st.serial \in Replied(c)' \ OnWire(c)'
    <3>1. st.serial \in Replied(b)' \ OnWire(b)'
      BY <1>3 DEF StreamsOnce
    <3>2. \A c \in Bus \ {b} : /\ \A x \in part[c] : IsReply(x) /\ x.reply = st.serial
                               /\ part[c] # {} => st.serial \in Replied(c)' \ OnWire(c)'
      BY <1>3, <2>1 DEF TablesOnce
    <3> QED BY <2>1, <3>1, <3>2
  <2>4. CASE \E o \in Bus : part[o] = {}
    <3>1. /\ merges' = Forget(merges, m.reply) \cup {entry}
          /\ UNCHANGED <<held, pc>>
      BY <2>4 DEF TakeMerge
    <3> HIDE DEF entry, part
    <3>2. \A y \in merges' : \/ y \in merges /\ y.serial # st.serial
                             \/ y = entry
      BY <3>1 DEF Forget
    <3>3. TablesOnce'
      <4>1. /\ \A p \in hostPending' : p.serial \in 1..nread'
            /\ \A p \in hostPending' : p.kind = "forward" =>
                 /\ p.serial \notin wrote'["cont"]
                 /\ \A y \in merges' : y.serial # p.serial
                 /\ p.serial = nread' /\ pc'["client"] \in Busy => pc'["client"] = "forward"
            /\ \A p, q \in hostPending' : p.serial = q.serial => p = q
        BY <1>2, <1>6, <2>2, <3>2 DEF TablesOnce
      <4>2. \A y \in merges' :
              /\ y.serial \in 1..nread'
              /\ y.serial = nread' /\ pc'["client"] \in Busy
                   => pc'["client"] \in {"merge", "cont"}
              /\ \A c \in Bus : \A x \in y.part[c] : IsReply(x) /\ x.reply = y.serial
              /\ \A c \in Bus : y.part[c] # {} => y.serial \in Replied(c)' \ OnWire(c)'
        BY <1>2, <1>3, <1>6, <2>2, <2>3, <3>2 DEF TablesOnce
      <4>3. /\ \A y, z \in merges' : y.serial = z.serial => y = z
            /\ pc'["client"] \in Busy => nread' \notin wrote'["cont"]
            /\ pc'["client"] = "forward" => nread' \notin wrote'["host"]
        BY <1>2, <1>6, <2>2, <3>2 DEF TablesOnce
      <4> QED BY <4>1, <4>2, <4>3 DEF TablesOnce
    <3>4. Unsettled' \subseteq Unsettled
      BY <1>2, <1>3, <1>6, <2>2, <3>2 DEF Unsettled, Bus
    <3> QED BY <1>4, <1>9, <3>1, <3>3, <3>4
  <2>5. CASE ~(\E o \in Bus : part[o] = {})
    <3>1. merges' = Forget(merges, m.reply)
      BY <2>5 DEF TakeMerge
    <3>2. PICK c \in part["cont"], h \in part["host"] :
             Hold(b, MergeNameListReplies(c, h), "sendMerged")
      BY <2>5 DEF TakeMerge, Hold
    <3>3. /\ c \in Message /\ h \in Message /\ IsReply(c) /\ IsReply(h)
          /\ c.reply = st.serial /\ h.reply = st.serial
      BY <2>1, <2>3 DEF Bus
    <3> DEFINE x == MergeNameListReplies(c, h)
    <3>4. x \in Message
      BY <3>3, MergedType
    <3>5. x.reply = st.serial
      <4> DEFINE base  == IF c.type = "return" \/ h.type # "return" THEN c ELSE h
                 lists == {y \in {c, h} : y.type = "return"}
                 whole == UNION {y.from : y \in lists}
      <4>1. base.reply = st.serial /\ base \in Message
        BY <3>3
      <4>2. x = IF lists = {} THEN c ELSE [base EXCEPT !.from = whole]
        BY DEF MergeNameListReplies
      <4> HIDE DEF base, lists, whole, x
      <4> QED BY <3>3, <4>1, <4>2 DEF Message
    <3> HIDE DEF x, part
    <3>6. TablesOnce' /\ Unsettled' \subseteq Unsettled
      BY <1>8, <3>1 DEF Forget
    <3>7. st.serial \in Unsettled
      BY <1>1 DEF Unsettled
    <3>8. st.serial \notin Unsettled'
      <4>1. st.serial \in wrote["cont"] /\ st.serial \in 1..nread
        BY <1>3, <1>10, <2>3, <2>5 DEF Bus
      <4>2. ~(st.serial = nread' /\ pc'["client"] \in Busy)
        BY <1>2, <1>6, <4>1 DEF TablesOnce
      <4>3. ~\E p \in hostPending' : p.serial = st.serial /\ p.kind = "forward"
        BY DEF TablesOnce
      <4>4. ~\E y \in merges' : y.serial = st.serial
        BY <3>1 DEF Forget
      <4>5. st.serial \in Replied("cont")' \ OnWire("cont")'
        BY <2>3, <2>5 DEF Bus
      <4> QED BY <1>1, <1>2, <4>1, <4>2, <4>3, <4>4, <4>5 DEF Unsettled
    <3>9. /\ held'[b] = x
          /\ \A k \in Bus \ {b} : Delivering(k)' => Delivering(k) /\ held'[k] = held[k]
      BY <1>7, <3>2, <3>4 DEF Places, x
    <3>10. AnswersOnce'
      BY <1>2, <3>4, <3>5, <3>6, <3>7, <3>8, <3>9, AnswersTaken
    <3> QED BY <1>4, <3>6, <3>10
  <2> QED BY <2>4, <2>5
<1>12. CASE /\ IsReply(m) /\ b = "host"
            /\ \A st \in merges : st.serial # m.reply
            /\ \E p \in hostPending : p.serial = m.reply /\ TakeHostReply(m, p)
            /\ UNCHANGED merges
  <2> PICK p \in hostPending : p.serial = m.reply /\ TakeHostReply(m, p)
    BY <1>12
  <2>1. hostPending' = hostPending \ {p}
    BY DEF TakeHostReply
  <2>2. TablesOnce' /\ Unsettled' \subseteq Unsettled
    BY <1>8, <1>12, <2>1
  <2>3. CASE p.kind = "swallow"
    <3>1. CASE UNCHANGED <<held, pc>>
      BY <1>4, <1>9, <2>2, <3>1
    <3>2. CASE Hold("host", m, "learn")
      <4>1. /\ pc'["host"] = "learn"
            /\ \A c \in Bus \ {"host"} : Delivering(c)' => Delivering(c) /\ held'[c] = held[c]
        BY <1>1, <1>7, <1>12, <3>2 DEF Places
      <4>2. AnswersOnce'
        BY <1>2, <2>2, <4>1, AnswersKept DEF Delivering, Bus
      <4> QED BY <1>4, <2>2, <4>2
    <3> QED BY <2>3, <3>1, <3>2 DEF TakeHostReply
  <2>4. CASE p.kind = "forward"
    <3>1. PICK place \in {"remember", "send"} : Hold("host", m, place)
      BY <2>4 DEF TakeHostReply
    <3>2. m.reply \in Unsettled
      BY <1>1, <2>4 DEF Unsettled
    <3>3. m.reply \notin Unsettled'
      <4>1. m.reply \in wrote["host"] /\ m.reply \in 1..nread
        BY <1>1, <1>10, <1>12
      <4>2. ~(m.reply = nread' /\ pc'["client"] \in Busy)
        BY <1>2, <1>6, <2>4, <4>1 DEF TablesOnce
      <4>3. ~\E q \in hostPending' : q.serial = m.reply /\ q.kind = "forward"
        BY <2>1 DEF TablesOnce
      <4>4. ~\E y \in merges' : y.serial = m.reply
        BY <1>12
      <4>5. m.reply \notin wrote'["cont"]
        BY <1>2, <2>4 DEF TablesOnce
      <4> QED BY <1>1, <1>2, <4>1, <4>2, <4>3, <4>4, <4>5 DEF Unsettled
    <3>4. /\ held'[b] = m
          /\ \A k \in Bus \ {b} : Delivering(k)' => Delivering(k) /\ held'[k] = held[k]
      BY <1>1, <1>7, <1>12, <3>1 DEF Places
    <3>5. AnswersOnce'
      BY <1>1, <1>2, <2>2, <3>2, <3>3, <3>4, AnswersTaken
    <3> QED BY <1>4, <2>2, <3>5
  <2> QED BY <1>1, <2>3, <2>4
<1>13. CASE UNCHANGED <<hostPending, merges, held, pc>>
  BY <1>4, <1>8, <1>9, <1>13
<1>14. CASE /\ IsReply(m) => b = "cont" /\ \A st \in merges : st.serial # m.reply
            /\ UNCHANGED <<hostPending, merges>>
            /\ \E place \in {"remember", "send"} : Hold(b, m, place)
  <2>1. TablesOnce' /\ Unsettled' \subseteq Unsettled
    BY <1>8, <1>14
  <2>2. /\ held'[b] = m
        /\ \A k \in Bus \ {b} : Delivering(k)' => Delivering(k) /\ held'[k] = held[k]
    BY <1>1, <1>7, <1>14 DEF Places
  <2>3. ASSUME IsReply(m)
        PROVE  m.reply \in Unsettled \ Unsettled'
    <3>1. b = "cont" /\ m.reply \in wrote["cont"] /\ m.reply \in 1..nread
      BY <1>1, <1>10, <1>14, <2>3
    <3>2. m.reply \in Unsettled
      BY <1>3, <2>3, <3>1 DEF Unsettled
    <3>3. m.reply \in Replied("cont")' \ OnWire("cont")'
      BY <1>3, <2>3, <3>1 DEF StreamsOnce
    <3>4. m.reply \notin Unsettled'
      BY <1>1, <1>2, <1>6, <1>14, <2>3, <3>1, <3>3 DEF Unsettled, TablesOnce
    <3> QED BY <3>2, <3>4
  <2>4. AnswersOnce'
    BY <1>1, <1>2, <2>1, <2>2, <2>3, AnswersTaken
  <2> QED BY <1>4, <2>1, <2>4
<1> QED BY <1>11, <1>12, <1>13, <1>14 DEF Take, m

THEOREM NextAnswerInv == TypeOK /\ AnswerInv /\ [Next]_vars => AnswerInv'
<1> SUFFICES ASSUME TypeOK, AnswerInv, [Next]_vars PROVE AnswerInv'
  OBVIOUS
<1>1. CASE UNCHANGED vars
  <2>1. UNCHANGED <<wire, replies, hostPending, merges, nread, wrote, inbox, held, pc>>
    BY <1>1 DEF vars
  <2>2. StreamsOnce' /\ \A b \in Bus : OnWire(b)' = OnWire(b)
    BY <2>1, StreamsOnceKept DEF AnswerInv
  <2>3. TablesOnce' /\ Unsettled' \subseteq Unsettled
    BY <2>1, <2>2, TablesOnceKept DEF AnswerInv
  <2>4. AnswersOnce'
    BY <2>1, <2>3, AnswersKept DEF AnswerInv, Delivering
  <2> QED BY <2>2, <2>3, <2>4 DEF AnswerInv
<1> QED BY <1>1, QuietAnswers, BusAnswers, DispatchAnswers, HandOverAnswers, TakeAnswers
        DEF Next, Upstream, Environment, Rest

\* Whatever the names, the requests and the interleaving, the application never
\* gets two answers to one call.
THEOREM SessionAnswersOnce == Spec => []AtMostOneAnswer
<1>1. TypeOK /\ AnswerInv /\ [Next]_vars => (TypeOK /\ AnswerInv)'
  BY NextTypeOK, NextAnswerInv
<1>2. Init => TypeOK /\ AnswerInv
  BY InitTypeOK, InitAnswerInv
<1>3. AnswerInv => AtMostOneAnswer
  BY DEF AnswerInv, AnswersOnce
<1> QED BY <1>1, <1>2, <1>3, PTL DEF Spec

\* While an answer to a call may still come from somewhere (the host's note, an open
\* merge, the container), none is in the application's hands or on its way there:
\* the invariant of hostPending and merges that SessionAnswersOnce rests on.
THEOREM SessionAnswerInv == Spec => []AnswerInv
<1>1. TypeOK /\ AnswerInv /\ [Next]_vars => (TypeOK /\ AnswerInv)'
  BY NextTypeOK, NextAnswerInv
<1>2. Init => TypeOK /\ AnswerInv
  BY InitTypeOK, InitAnswerInv
<1> QED BY <1>1, <1>2, PTL DEF Spec

-----------------------------------------------------------------------------
(***************************************************************************)
(* A session implements BusPromise: to its application it is a single bus  *)
(* that answers each message at most once.                                 *)
(***************************************************************************)
\* An answer on its way to the application answers something it sent.
HeldAsked ==
  \A b \in Bus : Delivering(b) => held[b].reply \in 1..nread

PromiseInv == TypeOK /\ AnswerInv /\ HeldAsked

LEMMA InitPromiseInv == Init => PromiseInv
<1> SUFFICES ASSUME Init PROVE HeldAsked
  BY InitTypeOK, InitAnswerInv DEF PromiseInv
<1> QED
  BY DEF Init, HeldAsked, Delivering, Link, Bus

\* What a bus sent and nobody has read answers something the router wrote.
LEMMA WireAsked ==
  ASSUME TypeOK, AnswerInv, NEW b \in Bus, wire[b] # <<>>, IsReply(Head(wire[b]))
  PROVE  Head(wire[b]).reply \in 1..nread
<1>1. wire[b] \in Seq(Message) /\ wrote[b] \subseteq 1..nread /\ OncePerSerial(wire[b])
  BY DEF TypeOK, TrafficOK, AnswerInv, StreamsOnce
<1>2. Head(wire[b]).reply \in OnWire(b)
  BY <1>1, RepliesInTail DEF OnWire
<1> QED
  BY <1>1, <1>2 DEF AnswerInv, StreamsOnce

LEMMA TakeAsked ==
  ASSUME PromiseInv, NEW b \in Bus, Take(b)
  PROVE  HeldAsked'
<1> DEFINE m == Head(wire[b])
<1>1. m \in Message /\ nread' = nread /\ wire[b] # <<>>
  BY DEF Take, PromiseInv, TypeOK, TrafficOK
<1>2. IsReply(m) => m.reply \in 1..nread
  BY <1>1, WireAsked DEF PromiseInv
<1>3. \A c \in Bus \ {b} : pc'[c] = pc[c] /\ held'[c] = held[c]
  BY DEF Take, TakeMerge, TakeHostReply, Hold, Goto, PromiseInv, TypeOK, ControlOK, HandsOK, Bus, Link
<1>4. Delivering(b)' => held'[b].reply \in 1..nread
  <2>1. CASE \E st \in merges : IsReply(m) /\ st.serial = m.reply /\ TakeMerge(b, m, st)
    <3>1. PICK st \in merges : IsReply(m) /\ st.serial = m.reply /\ TakeMerge(b, m, st)
      BY <2>1
    <3> DEFINE part == [st.part EXCEPT ![b] = {m}]
    <3>2. CASE \E o \in Bus : part[o] = {}
      <4>1. pc'[b] = "read"
        BY <3>1, <3>2 DEF TakeMerge, Take
      <4> QED
        BY <4>1 DEF Delivering
    <3>3. CASE ~\E o \in Bus : part[o] = {}
      <4>1. PICK c \in part["cont"], h \in part["host"] :
              held' = [held EXCEPT ![b] = MergeNameListReplies(c, h)]
        BY <3>1, <3>3 DEF TakeMerge
      <4>2. held'[b] = MergeNameListReplies(c, h)
        BY <4>1 DEF PromiseInv, TypeOK, HandsOK
      <4>3. /\ st.part \in [Bus -> SUBSET Message]
            /\ \A d \in Bus : \A x \in st.part[d] : IsReply(x) /\ x.reply = st.serial
        BY DEF PromiseInv, TypeOK, TablesOK, AnswerInv, TablesOnce
      <4>4. /\ c \in Message /\ h \in Message
            /\ c.reply = m.reply /\ h.reply = m.reply
        BY <1>1, <3>1, <4>1, <4>3 DEF Bus
      <4>5. MergeNameListReplies(c, h).reply = m.reply
        BY <4>4 DEF MergeNameListReplies, Message
      <4> QED
        BY <1>2, <3>1, <4>2, <4>5
    <3> QED
      BY <3>2, <3>3
  <2>2. CASE ~(\E st \in merges : IsReply(m) /\ st.serial = m.reply /\ TakeMerge(b, m, st))
    <3>1. \/ pc'[b] = pc[b] /\ held'[b] = held[b]
          \/ held'[b] = m
      BY <2>2 DEF Take, TakeHostReply, Hold, Goto, PromiseInv, TypeOK, ControlOK, HandsOK, Bus, Link
    <3>2. pc[b] = "read"
      BY DEF Take
    <3> QED
      BY <1>2, <3>1, <3>2 DEF Delivering
  <2> QED
    BY <2>1, <2>2
<1> QED
  BY <1>1, <1>3, <1>4 DEF HeldAsked, Delivering, PromiseInv

\* Only a read gives a goroutine a reply to deliver.
LEMMA OthersDeliver ==
  ASSUME TypeOK, [Next]_vars, ~\E b \in Bus : Take(b)
  PROVE  \A b \in Bus : Delivering(b)' => Delivering(b) /\ held'[b] = held[b]
<1> USE DEF TypeOK, ControlOK, HandsOK, Delivering, Bus, Link, Goto
<1>1. CASE Setup
  BY <1>1 DEF Setup, AuthenticateClient, ConnectContainer, ConnectHost
<1>2. CASE Dispatch
  BY <1>2 DEF Dispatch, ReadClient, WriteHostCopy, SendToHost, WriteContainer, ReplyUnavailable, Plan
<1>3. CASE RememberHostUnique
  BY <1>3 DEF RememberHostUnique, Hold
<1>4. ASSUME NEW c \in Bus, SendToClient(c)
      PROVE  \A b \in Bus : Delivering(b)' => Delivering(b) /\ held'[b] = held[b]
  BY <1>4 DEF SendToClient, Hold
<1>5. ASSUME NEW l \in Link, Teardown(l)
      PROVE  \A b \in Bus : Delivering(b)' => Delivering(b) /\ held'[b] = held[b]
  BY <1>5 DEF Teardown, ReadFails, Close, AfterClose, CloseConn, CloseReturns
<1>6. CASE Finish
  BY <1>6 DEF Finish
<1>7. CASE Environment
  BY <1>7 DEF Environment, ClientSend, BusReply, BusEmit, Drop
<1>8. CASE Rest \/ UNCHANGED vars
  BY <1>8 DEF Rest, vars
<1> QED
  BY <1>1, <1>2, <1>3, <1>4, <1>5, <1>6, <1>7, <1>8 DEF Next, Upstream

LEMMA OthersAsked ==
  ASSUME PromiseInv, [Next]_vars, ~\E b \in Bus : Take(b)
  PROVE  HeldAsked'
<1>0. nread \in Nat /\ nread' \in Nat /\ nread <= nread'
  <2>1. nread' = nread \/ nread' = nread + 1
    BY DEF PromiseInv, TypeOK, TrafficOK, Next, Setup, AuthenticateClient, ConnectContainer,
       ConnectHost, Dispatch, ReadClient, WriteHostCopy, SendToHost, WriteContainer, ReplyUnavailable,
       Upstream, SendToClient, RememberHostUnique, Teardown, ReadFails, Close, CloseConn, CloseReturns,
       Finish, Environment, ClientSend, BusReply, BusEmit, Drop, Rest, vars
  <2>2. nread \in Nat
    BY DEF PromiseInv, TypeOK, TrafficOK
  <2> QED
    BY <2>1, <2>2
<1>1. \A b \in Bus : Delivering(b)' => Delivering(b) /\ held'[b] = held[b]
  BY OthersDeliver DEF PromiseInv
<1> QED
  BY <1>0, <1>1 DEF HeldAsked, PromiseInv

LEMMA NextPromiseInv == PromiseInv /\ [Next]_vars => PromiseInv'
  BY NextTypeOK, NextAnswerInv, TakeAsked, OthersAsked DEF PromiseInv

-----------------------------------------------------------------------------
LEMMA InitPromise == Init => Promise!Init
  BY DEF Init, Promise!Init, AnswersIn, Link

\* A message received adds itself to the answers, if it is one.
LEMMA AnswersInAppend ==
  ASSUME NEW q \in Seq(Message), NEW m \in Message
  PROVE  AnswersIn(Append(q, m)) =
           IF IsReply(m) THEN AnswersIn(q) \cup {<<Len(q) + 1, m.reply>>} ELSE AnswersIn(q)
<1> DEFINE r == Append(q, m)
           at(w) == {j \in 1..Len(w) : IsReply(w[j])}
<1>1. /\ Len(r) = Len(q) + 1 /\ r[Len(q) + 1] = m
      /\ \A i \in 1..Len(q) : r[i] = q[i]
      /\ Len(q) \in Nat
  OBVIOUS
<1>2. at(r) = IF IsReply(m) THEN at(q) \cup {Len(q) + 1} ELSE at(q)
  BY <1>1
<1>3. \A i \in at(q) : r[i] = q[i]
  BY <1>1
<1>4. CASE IsReply(m)
  <2>1. at(r) = at(q) \cup {Len(q) + 1}
    BY <1>2, <1>4
  <2> QED
    BY <1>1, <1>3, <1>4, <2>1 DEF AnswersIn
<1>5. CASE ~IsReply(m)
  <2>1. at(r) = at(q)
    BY <1>2, <1>5
  <2> QED
    BY <1>3, <1>5, <2>1 DEF AnswersIn
<1> QED
  BY <1>4, <1>5

\* A message reaches the application: a reply is the first to its serial.
LEMMA DeliveryAnswers ==
  ASSUME TypeOK, NEW m \in Message, inbox' = Append(inbox, m), conn["client"] = "open",
         UNCHANGED <<sent, conn>>,
         IsReply(m) => m.reply \in 1..Len(sent) /\ m.reply \notin RepliesIn(inbox)
  PROVE  Promise!Next
<1>1. inbox \in Seq(Message)
  BY DEF TypeOK, TrafficOK
<1>2. Len(inbox') = Len(inbox) + 1
  BY <1>1
<1>3. AnswersIn(inbox)' = IF IsReply(m) THEN AnswersIn(inbox) \cup {<<Len(inbox) + 1, m.reply>>}
                                        ELSE AnswersIn(inbox)
  BY <1>1, AnswersInAppend
<1>4. CASE IsReply(m)
  <2>1. \A a \in AnswersIn(inbox) : a[2] # m.reply
    BY <1>4 DEF AnswersIn, RepliesIn
  <2>2. Promise!Answer(m.reply)
    BY <1>2, <1>3, <1>4, <2>1 DEF Promise!Answer
  <2> QED
    BY <1>4, <2>2 DEF Promise!Next
<1>5. CASE ~IsReply(m)
  <2>1. Promise!Tell
    BY <1>2, <1>3, <1>5 DEF Promise!Tell
  <2> QED
    BY <2>1 DEF Promise!Next
<1> QED
  BY <1>4, <1>5

LEMMA NextPromise == PromiseInv /\ [Next]_vars => [Promise!Next]_(Promise!promise)
<1> SUFFICES ASSUME PromiseInv, [Next]_vars
             PROVE  Promise!Next \/ UNCHANGED Promise!promise
  OBVIOUS
<1>0. /\ inbox \in Seq(Message) /\ sent \in Seq(Requests) /\ nread \in 0..Len(sent)
      /\ conn \in [Link -> {"none", "open", "closed"}]
  BY DEF PromiseInv, TypeOK, TrafficOK, ControlOK
<1>1. ASSUME NEW r \in Requests, ClientSend(r) PROVE Promise!Next
  <2>1. Len(sent') = Len(sent) + 1 /\ conn["client"] = "open" /\ UNCHANGED <<inbox, conn>>
    BY <1>0, <1>1 DEF ClientSend
  <2> QED
    BY <2>1 DEF Promise!Next, Promise!Ask
<1>2. ASSUME NEW b \in Bus, SendToClient(b)
      PROVE  Promise!Next \/ UNCHANGED Promise!promise
  <2>1. CASE CanWrite("client")
    <3>1. /\ inbox' = Append(inbox, held[b]) /\ conn["client"] = "open"
          /\ UNCHANGED <<sent, conn>> /\ held[b] \in Message
      BY <1>2, <2>1 DEF SendToClient, CanWrite, closeVars, envVars, PromiseInv, TypeOK, HandsOK
    <3>2. IsReply(held[b]) => held[b].reply \in 1..nread /\ held[b].reply \notin RepliesIn(inbox)
      BY <1>2 DEF SendToClient, PromiseInv, HeldAsked, AnswerInv, AnswersOnce, Delivering, RepliesIn
    <3> QED
      BY <1>0, <3>1, <3>2, DeliveryAnswers DEF PromiseInv
  <2>2. CASE ~CanWrite("client")
    BY <1>2, <2>2 DEF SendToClient, closeVars, envVars, Promise!promise
  <2> QED
    BY <2>1, <2>2
<1>3. CASE ReplyUnavailable
  <2>1. CASE CanWrite("client")
    <3>1. /\ inbox' = Append(inbox, ServiceUnknown(nread)) /\ conn["client"] = "open"
          /\ UNCHANGED <<sent, conn>> /\ pc["client"] = "unavailable"
      BY <1>3, <2>1 DEF ReplyUnavailable, CanWrite, closeVars, envVars
    <3>2. nread \in Unsettled /\ nread > 0
      BY <1>0, <3>1 DEF Unsettled, Busy, PromiseInv, TypeOK, HandsOK
    <3>3. nread \notin RepliesIn(inbox)
      BY <3>2 DEF RepliesIn, PromiseInv, AnswerInv, AnswersOnce
    <3>4. ServiceUnknown(nread) \in Message /\ ServiceUnknown(nread).reply = nread
      BY <1>0, ServiceUnknownType DEF ServiceUnknown
    <3> QED
      BY <1>0, <3>1, <3>2, <3>3, <3>4, DeliveryAnswers DEF PromiseInv
  <2>2. CASE ~CanWrite("client")
    BY <1>3, <2>2 DEF ReplyUnavailable, closeVars, envVars, Promise!promise
  <2> QED
    BY <2>1, <2>2
<1>4. ASSUME NEW l \in Link, CloseConn(l)
      PROVE  Promise!Next \/ UNCHANGED Promise!promise
  <2>1. PICK c \in Link : conn[c] = "open" /\ conn' = [conn EXCEPT ![c] = "closed"]
    BY <1>4 DEF CloseConn
  <2>2. UNCHANGED <<inbox, sent>>
    BY <1>4 DEF CloseConn, envVars
  <2>3. CASE c = "client"
    <3>1. conn["client"] = "open" /\ conn'["client"] = "closed"
      BY <1>0, <2>1, <2>3
    <3> QED
      BY <2>2, <3>1 DEF Promise!Next, Promise!End
  <2>4. CASE c # "client"
    <3>1. conn'["client"] = conn["client"]
      BY <1>0, <2>1, <2>4 DEF Link
    <3> QED
      BY <2>2, <3>1 DEF Promise!promise
  <2> QED
    BY <2>3, <2>4
<1>5. CASE \/ Setup \/ ReadClient \/ WriteHostCopy \/ SendToHost \/ WriteContainer
           \/ RememberHostUnique \/ Finish \/ Rest \/ UNCHANGED vars
           \/ \E b \in Bus : Take(b)
           \/ \E l \in Link : ReadFails(l) \/ Close(l) \/ CloseReturns(l) \/ Drop(l)
           \/ \E b \in Bus : \E s \in Serials : BusReply(b, s)
           \/ \E b \in Bus : BusEmit(b)
  <2>1. UNCHANGED <<inbox, sent>> /\ conn'["client"] = conn["client"]
    BY <1>0, <1>5 DEF Setup, AuthenticateClient, ConnectContainer, ConnectHost, ReadClient, WriteHostCopy,
       SendToHost, WriteContainer, RememberHostUnique, Finish, Rest, vars, Take, ReadFails, Close,
       CloseReturns, Drop, BusReply, BusEmit, closeVars, envVars, Link
  <2> QED
    BY <2>1 DEF Promise!promise
<1> QED
  BY <1>1, <1>2, <1>3, <1>4, <1>5 DEF Next, Dispatch, Upstream, Teardown, Environment

\* To its application a session is one bus: it answers only what it was sent, each
\* message at most once, and nothing after the connection's end, for any rules,
\* any traffic and any lost connections (handleClient and its goroutines).
THEOREM SessionKeepsPromise == Spec => KeepsPromise
<1>1. Spec => []PromiseInv
  BY InitPromiseInv, NextPromiseInv, PTL DEF Spec
<1> QED
  BY <1>1, InitPromise, NextPromise, PTL DEF Spec, KeepsPromise, Promise!Spec
=============================================================================
