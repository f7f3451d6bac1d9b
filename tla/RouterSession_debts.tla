------------------------ MODULE RouterSession_debts ------------------------
(***************************************************************************)
(* What a session has when it ends, what its tables hold, and whose the    *)
(* answers are, for every choice of names, peers, requests, emissions and  *)
(* bounds.                                                                 *)
(***************************************************************************)
EXTENDS RouterSession_answers

-----------------------------------------------------------------------------
(* The end. *)

LEMMA InitExitInv == Init => ExitInv
BY DEF Init, ExitInv, CleanExit, Link, Bus

\* Steps that do not end anything.
LEMMA ExitKept ==
  ASSUME TypeOK, ExitInv, UNCHANGED <<conn, closed>>,
         \A l \in Link : pc'[l] = pc[l] \/ (pc[l] \notin {"none", "closing", "wait", "done"}
           /\ pc'[l] \notin {"none", "auth", "dialCont", "dialHost", "closing", "wait", "done"})
  PROVE  ExitInv'
BY DEF ExitInv, CleanExit, Link, Bus

LEMMA SetupExit ==
  ASSUME TypeOK, ExitInv, Setup
  PROVE  ExitInv'
<1> USE DEF TypeOK, ControlOK
<1>1. CASE AuthenticateClient
  BY <1>1 DEF AuthenticateClient, Goto, ExitInv, CleanExit, Link, Bus
<1>2. CASE ConnectContainer
  BY <1>2 DEF ConnectContainer, Goto, ExitInv, CleanExit, Link, Bus
<1>3. CASE ConnectHost
  BY <1>3 DEF ConnectHost, ExitInv, CleanExit, Link, Bus
<1> QED BY <1>1, <1>2, <1>3 DEF Setup

LEMMA TeardownExit ==
  ASSUME TypeOK, ExitInv, NEW l \in Link, Teardown(l) \/ Finish
  PROVE  ExitInv'
<1> USE DEF TypeOK, ControlOK
<1>1. CASE ReadFails(l)
  BY <1>1 DEF ReadFails, Goto, closeVars, ExitInv, CleanExit, Link, Bus
<1>2. CASE Close(l)
  BY <1>2 DEF Close, AfterClose, Goto, ExitInv, CleanExit, Link, Bus
<1>3. CASE CloseConn(l)
  BY <1>3 DEF CloseConn, ExitInv, CleanExit, Link, Bus
<1>4. CASE CloseReturns(l)
  BY <1>4 DEF CloseReturns, AfterClose, Goto, closeVars, ExitInv, CleanExit, Link, Bus
<1>5. CASE Finish
  BY <1>5 DEF Finish, Goto, closeVars, ExitInv, CleanExit, Link, Bus
<1> QED BY <1>1, <1>2, <1>3, <1>4, <1>5 DEF Teardown

\* Where the goroutines go while the session works.
LEMMA WorkingSteps ==
  ASSUME TypeOK,
         \/ Dispatch \/ RememberHostUnique \/ Environment
         \/ \E b \in Bus : Upstream(b)
  PROVE  /\ UNCHANGED <<conn, closed>>
         /\ \A l \in Link : pc'[l] = pc[l] \/ (pc[l] \notin {"none", "closing", "wait", "done"}
           /\ pc'[l] \notin {"none", "auth", "dialCont", "dialHost", "closing", "wait", "done"})
<1> USE DEF TypeOK, ControlOK, Goto, Hold, closeVars, Link, Bus
<1>1. CASE Dispatch
  BY <1>1 DEF Dispatch, ReadClient, Plan, WriteHostCopy, SendToHost, WriteContainer, ReplyUnavailable
<1>2. CASE RememberHostUnique
  BY <1>2 DEF RememberHostUnique
<1>3. CASE Environment
  BY <1>3 DEF Environment, ClientSend, BusReply, BusEmit, Drop
<1>4. ASSUME NEW b \in Bus, SendToClient(b)
      PROVE  /\ UNCHANGED <<conn, closed>>
             /\ \A l \in Link : pc'[l] = pc[l] \/ (pc[l] \notin {"none", "closing", "wait", "done"}
               /\ pc'[l] \notin {"none", "auth", "dialCont", "dialHost", "closing", "wait", "done"})
  BY <1>4 DEF SendToClient
<1>5. ASSUME NEW b \in Bus, Take(b)
      PROVE  /\ UNCHANGED <<conn, closed>>
             /\ \A l \in Link : pc'[l] = pc[l] \/ (pc[l] \notin {"none", "closing", "wait", "done"}
               /\ pc'[l] \notin {"none", "auth", "dialCont", "dialHost", "closing", "wait", "done"})
  <2>1. \/ UNCHANGED pc
        \/ \E place \in {"learn", "remember", "send", "sendMerged"} : pc' = [pc EXCEPT ![b] = place]
    BY <1>5 DEF Take, TakeMerge, TakeHostReply
  <2> QED BY <1>5, <2>1 DEF Take
<1> QED BY <1>1, <1>2, <1>3, <1>4, <1>5 DEF Upstream

LEMMA NextExitInv == TypeOK /\ ExitInv /\ [Next]_vars => ExitInv'
<1> SUFFICES ASSUME TypeOK, ExitInv, [Next]_vars PROVE ExitInv'
  OBVIOUS
<1>1. CASE Setup
  BY <1>1, SetupExit
<1>2. CASE Finish \/ \E l \in Link : Teardown(l)
  BY <1>2, TeardownExit DEF Link
<1>3. CASE \/ Dispatch \/ RememberHostUnique \/ Environment
           \/ \E b \in Bus : Upstream(b)
  BY <1>3, WorkingSteps, ExitKept
<1>4. CASE Rest \/ UNCHANGED vars
  BY <1>4, ExitKept DEF Rest, vars
<1> QED BY <1>1, <1>2, <1>3, <1>4 DEF Next

\* However a session ends, by either end of either connection, and whichever of the
\* three goroutines calls Close first, no connection stays open and no goroutine is
\* left when handleClient returns.
THEOREM SessionEndsClean == Spec => []CleanExit
<1>1. TypeOK /\ ExitInv /\ [Next]_vars => (TypeOK /\ ExitInv)'
  BY NextTypeOK, NextExitInv
<1>2. Init => TypeOK /\ ExitInv
  BY InitTypeOK, InitExitInv
<1>3. ExitInv => CleanExit
  BY DEF ExitInv
<1> QED BY <1>1, <1>2, <1>3, PTL DEF Spec
-----------------------------------------------------------------------------
(* Debts: TablesMatchDebts in terms of the sets of serials it is about. *)

Noted   == {p.serial : p \in hostPending}
Merged  == {st.serial : st \in merges}
AtHand  == {s \in {nread} : pc["client"] \in {"swallow", "merge", "forward"}}
Due(b)  == {s \in wrote[b] : IsCall(sent[s]) /\ (s \notin Replied(b) \/ s \in OnWire(b))}
HostDue == Due("host")
ContDue == Due("cont")

MergeMatches(st) ==
  /\ st.serial \in AtHand \cup wrote["host"]
  /\ st.serial \in wrote["host"] => (st.part["host"] = {} <=> st.serial \in HostDue)
  /\ st.part["cont"] # {} => st.serial \in Replied("cont") \ ContDue
  /\ \E b \in Bus : st.part[b] = {}

Match ==
  /\ Noted \cap Merged = {}
  /\ \A s \in Noted : IsCall(sent[s]) /\ s \in AtHand \cup HostDue
  /\ HostDue \subseteq Noted \cup Merged
  /\ \A st \in merges : MergeMatches(st)

LEMMA MatchMeans == Match <=> TablesMatchDebts
<1>1. \A s : Unanswered("host", s) <=> s \in HostDue
  BY DEF Unanswered, HostDue, Due
<1>2. \A s : Unanswered("cont", s) <=> s \in ContDue
  BY DEF Unanswered, ContDue, Due
<1>3. \A s : AboutToWrite(s) <=> s \in AtHand
  BY DEF AboutToWrite, AtHand
<1>4. HostDue \subseteq wrote["host"]
  BY DEF HostDue, Due
<1>5. ASSUME NEW st
      PROVE  MergeMatches(st) <=>
               /\ AboutToWrite(st.serial) \/ HostHas(st.serial)
               /\ HostHas(st.serial) => 
                    (st.part["host"] = {} <=> Unanswered("host", st.serial))
               /\ st.part["cont"] # {}
                    => st.serial \in Replied("cont") /\ ~Unanswered("cont", st.serial)
               /\ \E b \in Bus : st.part[b] = {}
  BY <1>1, <1>2, <1>3 DEF MergeMatches, HostHas
<1> HIDE DEF MergeMatches, HostHas
<1>6. Noted = {p.serial : p \in hostPending} /\ Merged = {st.serial : st \in merges}
  BY DEF Noted, Merged
<1>7. \A s : Owes("host", s) \/ Lingers("host", s) <=> s \in HostDue
  BY <1>1 DEF Owes, Lingers, Unanswered, IsCall
<1> QED BY <1>1, <1>3, <1>4, <1>5, <1>6, <1>7 DEF Match, TablesMatchDebts

LEMMA MatchMeansNext == Match' <=> TablesMatchDebts'
BY MatchMeans, PTL

LEMMA InitDebts == Init => DebtsInv
<1> SUFFICES ASSUME Init PROVE DebtsInv
  OBVIOUS
<1>1. ReturnsGoToPeers /\ PlannedDebts
  BY DEF Init, ReturnsGoToPeers, Serials, PlannedDebts, Busy, Link
<1>2. Match
  BY DEF Init, Match, Noted, Merged, HostDue, Due, Bus
<1> QED BY <1>1, <1>2, MatchMeans DEF DebtsInv

\* A step that moves no message between the session, its tables and the buses.
LEMMA DebtsKept ==
  ASSUME TypeOK, DebtsInv,
         UNCHANGED <<sent, nread, wire, replies, wrote, hostPending, merges>>,
         \/ pc'["client"] = pc["client"]
         \/ /\ pc["client"] \notin {"swallow", "merge", "broadcast", "forward"}
            /\ pc'["client"] \notin Busy
  PROVE  DebtsInv'
<1>1. AtHand' = AtHand
  BY DEF AtHand, Busy
<1>2. HostDue' = HostDue /\ ContDue' = ContDue /\ Replied("cont")' = Replied("cont")
  BY DEF HostDue, ContDue, Due, Replied, OnWire
<1>3. Match
  BY MatchMeans DEF DebtsInv
<1>4. Match'
  BY <1>1, <1>2, <1>3 DEF Match, MergeMatches, Noted, Merged
<1>5. ReturnsGoToPeers' /\ PlannedDebts'
  BY DEF DebtsInv, ReturnsGoToPeers, Serials, PlannedDebts, Busy
<1>6. TablesMatchDebts'
  BY <1>4, MatchMeansNext
<1> QED BY <1>5, <1>6 DEF DebtsInv
\* The tables' serials are of messages that were read, and a reply was asked for.
LEMMA Asked ==
  ASSUME TypeOK, AnswerInv
  PROVE  /\ nread \in Nat /\ Noted \subseteq 1..nread /\ Merged \subseteq 1..nread
         /\ nread \in 0..Len(sent) /\ sent \in Seq(Requests)
         /\ \A b \in Bus : /\ wrote[b] \subseteq 1..nread
                           /\ OnWire(b) \subseteq Replied(b) /\ Replied(b) \subseteq wrote[b]
         /\ \A st \in merges : \A b \in Bus :
              st.part[b] # {} => st.serial \in Replied(b) \ OnWire(b)
         /\ pc["client"] \in Busy => nread \in Serials /\ nread \notin wrote["cont"]
<1>1. nread \in Nat /\ nread \in 0..Len(sent) /\ sent \in Seq(Requests)
      /\ \A b \in Bus : wrote[b] \subseteq 1..nread
  BY DEF TypeOK, TrafficOK
<1>2. Noted \subseteq 1..nread /\ Merged \subseteq 1..nread
  BY DEF AnswerInv, TablesOnce, Noted, Merged
<1>3. pc["client"] \in Busy => nread \in Serials /\ nread \notin wrote["cont"]
  BY <1>1 DEF AnswerInv, TablesOnce, TypeOK, HandsOK, Busy, Serials
<1> QED BY <1>1, <1>2, <1>3 DEF AnswerInv, TablesOnce, StreamsOnce

\* A call or a signal that is new may be planned and noted: nothing is owed for it.
LEMMA ReadDebts ==
  ASSUME TypeOK, AnswerInv, DebtsInv, ReadClient
  PROVE  DebtsInv'
<1> DEFINE s == nread + 1
           plan == Plan(sent[s])
<1>1. /\ nread \in Nat /\ Noted \subseteq 1..nread /\ Merged \subseteq 1..nread
      /\ wrote["host"] \subseteq 1..nread
      /\ s \in Serials /\ sent[s] \in Requests /\ s \notin 1..nread
  BY Asked DEF ReadClient, Serials, Bus
<1>2. plan \in Busy
  BY DEF Plan, Busy
<1>3. /\ plan = "swallow" \/ plan = "merge" => sent[s].type # "signal" /\ sent[s].dest = DBus
      /\ plan = "broadcast" => ~IsCall(sent[s])
  BY DEF Plan, IsCall
<1>4. plan \in {"swallow", "merge"} => IsCall(sent[s])
  <2>1. sent[s].type \in {"call", "oneway", "return", "signal"}
    BY <1>1, SessionAssumption DEF Request
  <2>2. sent[s].type = "return" => sent[s].dest \in Unique
    BY <1>1 DEF DebtsInv, ReturnsGoToPeers
  <2>3. DBus \notin Unique
    BY SessionAssumption DEF Names
  <2> QED BY <1>3, <2>1, <2>2, <2>3 DEF IsCall
<1>5. /\ UNCHANGED <<sent, wire, replies, wrote>>
      /\ nread' = s /\ pc["client"] = "read" /\ pc'["client"] = plan
      /\ hostPending' = NoteHostPending(s, plan) /\ merges' = NoteMerge(s, plan)
  BY <1>2 DEF ReadClient, envVars, Goto, TypeOK, ControlOK, Link
<1> HIDE DEF s, plan
<1>6. /\ AtHand = {}
      /\ AtHand' = IF plan \in {"swallow", "merge", "forward"} THEN {s} ELSE {}
  BY <1>5 DEF AtHand
<1>7. HostDue' = HostDue /\ ContDue' = ContDue /\ Replied("cont")' = Replied("cont")
  BY <1>5 DEF HostDue, ContDue, Due, Replied, OnWire
<1>8. Noted' = IF plan = "swallow" \/ (plan = "forward" /\ IsCall(sent[s]))
               THEN Noted \cup {s} ELSE Noted
  <2>1. \A p \in hostPending : p.serial # s
    BY <1>1 DEF Noted
  <2>2. CASE plan = "swallow" \/ (plan = "forward" /\ IsCall(sent[s]))
    <3>1. hostPending' = hostPending
                \cup {[serial |-> s, kind |-> plan, member |-> sent[s].member]}
      BY <1>5, <2>1, <2>2 DEF NoteHostPending
    <3> DEFINE note == [serial |-> s, kind |-> plan, member |-> sent[s].member]
    <3>2. note.serial = s
      OBVIOUS
    <3> HIDE DEF note
    <3>3. {p.serial : p \in hostPending \cup {note}} = {p.serial : p \in hostPending} \cup {s}
      BY <3>2
    <3>4. Noted' = {p.serial : p \in hostPending'}
      BY DEF Noted
    <3> QED BY <2>2, <3>1, <3>3, <3>4 DEF Noted, note
  <2>3. CASE ~(plan = "swallow" \/ (plan = "forward" /\ IsCall(sent[s])))
    BY <1>5, <2>3 DEF NoteHostPending, Noted
  <2> QED BY <2>2, <2>3
<1>9. merges' = IF plan = "merge"
                THEN merges \cup {[serial |-> s, part |-> [b \in Bus |-> {}]]} ELSE merges
  <2>1. \A st \in merges : st.serial # s
    BY <1>1 DEF Merged
  <2> QED BY <1>5, <2>1 DEF NoteMerge
<1>10. Merged' = IF plan = "merge" THEN Merged \cup {s} ELSE Merged
  <2>1. CASE plan = "merge"
    <3> DEFINE entry == [serial |-> s, part |-> [b \in Bus |-> {}]]
    <3>1. entry.serial = s
      OBVIOUS
    <3>2. merges' = merges \cup {entry}
      BY <1>9, <2>1
    <3> HIDE DEF entry
    <3>3. {st.serial : st \in merges \cup {entry}} = {st.serial : st \in merges} \cup {s}
      BY <3>1
    <3>4. Merged' = {st.serial : st \in merges'}
      BY DEF Merged
    <3> QED BY <2>1, <3>2, <3>3, <3>4 DEF Merged
  <2>2. CASE plan # "merge"
    BY <1>9, <2>2 DEF Merged
  <2> QED BY <2>1, <2>2
<1>11. Match
  BY MatchMeans DEF DebtsInv
<1>12. ASSUME NEW st \in merges' PROVE MergeMatches(st)'
  <2>1. CASE st \in merges
    BY <1>5, <1>6, <1>7, <1>11, <2>1 DEF Match, MergeMatches
  <2>2. CASE plan = "merge" /\ st = [serial |-> s, part |-> [b \in Bus |-> {}]]
    <3>1. st.serial = s /\ \A b \in Bus : st.part[b] = {}
      BY <2>2
    <3>2. s \notin wrote'["host"] /\ s \in AtHand'
      BY <1>1, <1>5, <1>6, <2>2
    <3> QED BY <3>1, <3>2 DEF MergeMatches, Bus
  <2> QED BY <1>9, <2>1, <2>2
<1>13. Match'
  BY <1>1, <1>4, <1>5, <1>6, <1>7, <1>8, <1>10, <1>11, <1>12 DEF Match
<1>14. PlannedDebts'
  <2>1. nread' \notin wrote'["host"]
    BY <1>1, <1>5
  <2>2. pc'["client"] = "swallow" => nread' \in Noted'
    BY <1>5, <1>8
  <2>3. pc'["client"] = "forward" /\ IsCall(sent'[nread']) => nread' \in Noted'
    BY <1>5, <1>8
  <2>4. pc'["client"] = "merge" => IsCall(sent'[nread']) /\ nread' \in Merged'
    BY <1>4, <1>5, <1>10
  <2>5. pc'["client"] = "broadcast" => ~IsCall(sent'[nread'])
    BY <1>3, <1>5 DEF s, plan
  <2> QED BY <2>1, <2>2, <2>3, <2>4, <2>5 DEF PlannedDebts, Noted, Merged
<1>15. ReturnsGoToPeers'
  BY <1>5 DEF DebtsInv, ReturnsGoToPeers, Serials
<1> QED BY <1>13, <1>14, <1>15, MatchMeansNext DEF DebtsInv

\* Mentioned in a table or not, what the host is sent it owes an answer if it is a call.
LEMMA HostWriteDebts ==
  ASSUME TypeOK, AnswerInv, DebtsInv, pc["client"] \in {"swallow", "merge", "broadcast", "forward"},
         pc'["client"] \in {"cont", "read"},
         UNCHANGED <<sent, nread, wire, replies, hostPending, merges>>,
         wrote' = [wrote EXCEPT !["host"] = @ \cup {nread}]
  PROVE  DebtsInv'
<1>0. pc["client"] \in Busy /\ nread \in Serials
  BY Asked DEF Busy
<1>1. wrote'["host"] = wrote["host"] \cup {nread} /\ wrote'["cont"] = wrote["cont"]
  BY DEF TypeOK, TrafficOK, Bus
<1>2. nread \notin wrote["host"]
  BY <1>0 DEF DebtsInv, PlannedDebts, Busy
<1>3. nread \notin Replied("host")
  BY <1>2, Asked DEF Bus
<1>4. /\ \A b \in Bus : Replied(b)' = Replied(b) /\ OnWire(b)' = OnWire(b)
      /\ AtHand' = {} /\ AtHand \subseteq {nread}
  BY DEF Replied, OnWire, AtHand
<1>5. /\ HostDue' = IF IsCall(sent[nread]) THEN HostDue \cup {nread} ELSE HostDue
      /\ ContDue' = ContDue
  BY <1>1, <1>3, <1>4 DEF HostDue, ContDue, Due, Bus
<1>6. Noted' = Noted /\ Merged' = Merged
  BY DEF Noted, Merged
<1>7. Match
  BY MatchMeans DEF DebtsInv
<1>8. IsCall(sent[nread]) => nread \in Noted \cup Merged
  BY DEF DebtsInv, PlannedDebts, Noted, Merged
<1>9. ASSUME NEW st \in merges PROVE MergeMatches(st)'
  <2>1. CASE st.serial = nread
    <3>1. pc["client"] = "merge"
      BY <1>0, <2>1 DEF AnswerInv, TablesOnce
    <3>2. IsCall(sent[nread])
      BY <3>1 DEF DebtsInv, PlannedDebts
    <3>3. st.part["host"] = {}
      BY <1>3, <2>1, Asked DEF Bus
    <3> QED BY <1>1, <1>4, <1>5, <1>7, <2>1, <3>2, <3>3 DEF Match, MergeMatches, Bus
  <2>2. CASE st.serial # nread
    BY <1>1, <1>4, <1>5, <1>7, <2>2 DEF Match, MergeMatches, Bus
  <2> QED BY <2>1, <2>2
<1>10. Match'
  <2>1. \A q \in Noted' : IsCall(sent'[q]) /\ q \in AtHand' \cup HostDue'
    BY <1>4, <1>5, <1>6, <1>7 DEF Match
  <2> QED BY <1>5, <1>6, <1>7, <1>8, <1>9, <2>1 DEF Match
<1>11. ReturnsGoToPeers' /\ PlannedDebts'
  BY DEF DebtsInv, ReturnsGoToPeers, Serials, PlannedDebts, Busy
<1> QED BY <1>10, <1>11, MatchMeansNext DEF DebtsInv

\* What the host could not be sent is taken out of the tables.
LEMMA HostFailDebts ==
  ASSUME TypeOK, AnswerInv, DebtsInv, pc["client"] \in {"swallow", "merge", "broadcast", "forward"},
         pc'["client"] \in {"cont", "close"},
         UNCHANGED <<sent, nread, wire, replies, wrote>>,
         hostPending' = Forget(hostPending, nread),
         \/ merges' = Forget(merges, nread)
         \/ merges' = merges /\ pc["client"] = "forward"
  PROVE  DebtsInv'
<1>0. pc["client"] \in Busy
  BY DEF Busy
<1>1. merges' = Forget(merges, nread)
  BY <1>0 DEF AnswerInv, TablesOnce, Forget
<1>2. Noted' = Noted \ {nread} /\ Merged' = Merged \ {nread}
  BY <1>1 DEF Noted, Merged, Forget
<1>3. nread \notin wrote["host"]
  BY <1>0 DEF DebtsInv, PlannedDebts, Busy
<1>4. /\ HostDue' = HostDue /\ ContDue' = ContDue /\ Replied("cont")' = Replied("cont")
      /\ AtHand' = {} /\ AtHand \subseteq {nread} /\ nread \notin HostDue
  BY <1>3 DEF HostDue, ContDue, Due, Replied, OnWire, AtHand
<1>5. Match
  BY MatchMeans DEF DebtsInv
<1>6. ASSUME NEW st \in merges' PROVE MergeMatches(st)'
  BY <1>1, <1>4, <1>5 DEF Match, MergeMatches, Forget
<1>7. Match'
  BY <1>2, <1>4, <1>5, <1>6 DEF Match
<1>8. ReturnsGoToPeers' /\ PlannedDebts'
  BY DEF DebtsInv, ReturnsGoToPeers, Serials, PlannedDebts, Busy
<1> QED BY <1>7, <1>8, MatchMeansNext DEF DebtsInv

LEMMA ContWriteDebts ==
  ASSUME TypeOK, AnswerInv, DebtsInv, pc["client"] = "cont", pc'["client"] = "read",
         UNCHANGED <<sent, nread, wire, replies, hostPending, merges>>,
         wrote' = [wrote EXCEPT !["cont"] = @ \cup {nread}]
  PROVE  DebtsInv'
<1>0. nread \notin wrote["cont"]
  BY Asked DEF Busy
<1>1. wrote'["cont"] = wrote["cont"] \cup {nread} /\ wrote'["host"] = wrote["host"]
  BY DEF TypeOK, TrafficOK, Bus
<1>2. nread \notin Replied("cont")
  BY <1>0, Asked DEF Bus
<1>3. /\ \A b \in Bus : Replied(b)' = Replied(b) /\ OnWire(b)' = OnWire(b)
      /\ AtHand' = {} /\ AtHand = {}
  BY DEF Replied, OnWire, AtHand
<1>4. HostDue' = HostDue /\ ContDue' \subseteq ContDue \cup {nread}
  BY <1>1, <1>3 DEF HostDue, ContDue, Due, Bus
<1>5. Match
  BY MatchMeans DEF DebtsInv
<1>6. ASSUME NEW st \in merges PROVE MergeMatches(st)'
  BY <1>1, <1>2, <1>3, <1>4, <1>5 DEF Match, MergeMatches, Bus
<1>7. Match'
  BY <1>3, <1>4, <1>5, <1>6 DEF Match, Noted, Merged
<1>8. ReturnsGoToPeers' /\ PlannedDebts'
  BY DEF DebtsInv, ReturnsGoToPeers, Serials, PlannedDebts, Busy
<1> QED BY <1>7, <1>8, MatchMeansNext DEF DebtsInv

LEMMA DispatchDebts ==
  ASSUME TypeOK, AnswerInv, DebtsInv, Dispatch
  PROVE  DebtsInv'
<1> USE DEF closeVars, envVars, goVars
<1>0. ASSUME NEW place, Goto("client", place) PROVE pc'["client"] = place
  BY <1>0 DEF Goto, TypeOK, ControlOK, Link
<1>1. CASE ReadClient
  BY <1>1, ReadDebts
<1>2. CASE WriteHostCopy
  <2>1. pc'["client"] = "cont"
    BY <1>0, <1>2 DEF WriteHostCopy
  <2> QED BY <1>2, <2>1, HostWriteDebts, HostFailDebts DEF WriteHostCopy
<1>3. CASE SendToHost
  <2>1. pc'["client"] = IF CanWrite("host") THEN "read" ELSE "close"
    BY <1>0, <1>3 DEF SendToHost
  <2> QED BY <1>3, <2>1, HostWriteDebts, HostFailDebts DEF SendToHost
<1>4. CASE WriteContainer
  <2>1. pc'["client"] \in {"read", "close"} /\ pc["client"] = "cont"
    BY <1>0, <1>4 DEF WriteContainer
  <2>2. UNCHANGED <<sent, nread, wire, replies, hostPending, merges>>
    BY <1>4 DEF WriteContainer
  <2>3. CASE CanWrite("cont")
    <3>1. wrote' = [wrote EXCEPT !["cont"] = @ \cup {nread}] /\ pc'["client"] = "read"
      BY <1>0, <1>4, <2>3 DEF WriteContainer
    <3> QED BY <2>1, <2>2, <3>1, ContWriteDebts
  <2>4. CASE ~CanWrite("cont")
    <3>1. wrote' = wrote
      BY <1>4, <2>4 DEF WriteContainer
    <3> QED BY <2>1, <2>2, <3>1, DebtsKept DEF Busy
  <2> QED BY <2>3, <2>4
<1>5. CASE ReplyUnavailable
  <2>1. pc'["client"] \in {"read", "close"} /\ pc["client"] = "unavailable"
    BY <1>0, <1>5 DEF ReplyUnavailable
  <2> QED BY <1>5, <2>1, DebtsKept DEF ReplyUnavailable, Busy
<1> QED BY <1>1, <1>2, <1>3, <1>4, <1>5 DEF Dispatch
\* The application sends, a bus replies or speaks: what is owed stays what it was.
LEMMA EnvironmentDebts ==
  ASSUME TypeOK, AnswerInv, DebtsInv, Environment
  PROVE  DebtsInv'
<1>1. ASSUME NEW l \in Link, Drop(l) PROVE DebtsInv'
  BY <1>1, DebtsKept DEF Drop, goVars
<1>2. ASSUME UNCHANGED <<pc, nread, wrote, hostPending, merges>>,
             \A s \in 1..nread : IsCall(sent'[s]) <=> IsCall(sent[s]),
             \A b \in Bus : \A s \in wrote[b] :
               (s \notin Replied(b)' \/ s \in OnWire(b)') <=> (s \notin Replied(b) \/ s \in OnWire(b)),
             Replied("cont") \subseteq Replied("cont")', ReturnsGoToPeers'
      PROVE  DebtsInv'
  <2>1. AtHand' = AtHand /\ Noted' = Noted /\ Merged' = Merged
    BY <1>2 DEF AtHand, Noted, Merged
  <2>2. HostDue' = HostDue /\ ContDue' = ContDue
    BY <1>2, Asked DEF HostDue, ContDue, Due, Bus
  <2>3. Match
    BY MatchMeans DEF DebtsInv
  <2>4. \A s \in Noted : s \in 1..nread
    BY Asked
  <2>5. ASSUME NEW st \in merges PROVE MergeMatches(st)'
    BY <1>2, <2>1, <2>2, <2>3 DEF Match, MergeMatches
  <2>6. Match'
    BY <1>2, <2>1, <2>2, <2>3, <2>4, <2>5 DEF Match
  <2>7. PlannedDebts'
    <3>1. pc["client"] \in Busy => nread \in 1..nread
      BY Asked DEF Serials
    <3>2. pc["client"] \in {"merge", "forward", "broadcast"} => pc["client"] \in Busy
      BY DEF Busy
    <3>3. pc["client"] \in {"merge", "forward", "broadcast"}
            => (IsCall(sent'[nread]) <=> IsCall(sent[nread]))
      BY <1>2, <3>1, <3>2
    <3> QED BY <1>2, <3>3 DEF DebtsInv, PlannedDebts
  <2> QED BY <1>2, <2>6, <2>7, MatchMeansNext DEF DebtsInv
<1>3. ASSUME NEW r \in Requests, ClientSend(r) PROVE DebtsInv'
  <2>1. sent' = Append(sent, r) /\ sent \in Seq(Requests) /\ nread \in 0..Len(sent)
    BY <1>3, Asked DEF ClientSend
  <2>2. /\ Len(sent') = Len(sent) + 1 /\ sent'[Len(sent) + 1] = r
        /\ \A s \in 1..Len(sent) : sent'[s] = sent[s]
        /\ \A s \in 1..nread : sent'[s] = sent[s]
    BY <2>1
  <2>3. UNCHANGED <<pc, nread, wrote, hostPending, merges, wire, replies>>
    BY <1>3 DEF ClientSend, goVars
  <2>4. r.type = "return" => r.dest \in Unique
    <3> SUFFICES ASSUME r.type = "return" PROVE r.dest \in Unique
      OBVIOUS
    <3>1. PICK i \in 1..Len(inbox) : inbox[i].from = {r.via}
      BY <1>3 DEF ClientSend
    <3>2. inbox[i] \in Message
      BY DEF TypeOK, TrafficOK
    <3>3. r.via # "none"
      BY <3>1, <3>2 DEF Message, Bus
    <3> QED BY <3>3, SessionAssumption
  <2>5. ReturnsGoToPeers'
    <3>1. ASSUME NEW s \in 1..Len(sent') PROVE sent'[s].type = "return" => sent'[s].dest \in Unique
      <4>1. CASE s \in 1..Len(sent)
        BY <2>2, <4>1 DEF DebtsInv, ReturnsGoToPeers, Serials
      <4>2. CASE s = Len(sent) + 1
        BY <2>2, <2>4, <4>2
      <4> QED BY <2>1, <2>2, <4>1, <4>2
    <3> QED BY <3>1 DEF ReturnsGoToPeers, Serials
  <2>6. \A b \in Bus : Replied(b)' = Replied(b) /\ OnWire(b)' = OnWire(b)
    BY <2>3 DEF Replied, OnWire
  <2> QED BY <1>2, <2>2, <2>3, <2>5, <2>6 DEF IsCall, Bus
<1>4. ASSUME NEW b \in Bus, NEW m \in Message,
             wire' = [wire EXCEPT ![b] = Append(@, m)],
             replies' = IF IsReply(m) THEN [replies EXCEPT ![b] = @ \cup {m}] ELSE replies,
             IsReply(m) => m.reply \notin Replied(b),
             UNCHANGED <<pc, nread, sent, wrote, hostPending, merges>>
      PROVE  DebtsInv'
  <2>1. wire[b] \in Seq(Message)
        /\ wire \in [Bus -> Seq(Message)] /\ replies \in [Bus -> SUBSET Message]
    BY DEF TypeOK, TrafficOK
  <2>2. /\ Replied(b)' = IF IsReply(m) THEN Replied(b) \cup {m.reply} ELSE Replied(b)
        /\ OnWire(b)'  = IF IsReply(m) THEN OnWire(b) \cup {m.reply} ELSE OnWire(b)
    BY <1>4, <2>1, RepliesInAppend DEF Replied, OnWire
  <2>3. \A c \in Bus \ {b} : Replied(c)' = Replied(c) /\ OnWire(c)' = OnWire(c)
    BY <1>4, <2>1 DEF Replied, OnWire
  <2>4. ReturnsGoToPeers'
    BY <1>4 DEF DebtsInv, ReturnsGoToPeers, Serials
  <2>5. \A c \in Bus : \A s \in wrote[c] :
          (s \notin Replied(c)' \/ s \in OnWire(c)') <=> (s \notin Replied(c) \/ s \in OnWire(c))
    BY <1>4, <2>2, <2>3
  <2>6. Replied("cont") \subseteq Replied("cont")'
    BY <2>2, <2>3 DEF Bus
  <2> QED BY <1>2, <1>4, <2>4, <2>5, <2>6
<1>5. CASE \/ \E b \in Bus : \E s \in Serials : BusReply(b, s)
           \/ \E b \in Bus : BusEmit(b)
  BY <1>4, <1>5, BusSends DEF Sends
<1> QED BY <1>1, <1>3, <1>5 DEF Environment

\* What a read takes off the wire of bus b.
LEMMA TakenReply ==
  ASSUME TypeOK, AnswerInv, NEW b \in Bus, Take(b), NEW m, m = Head(wire[b])
  PROVE  /\ m \in Message
         /\ OnWire(b)' = IF IsReply(m) THEN OnWire(b) \ {m.reply} ELSE OnWire(b)
         /\ IsReply(m) => m.reply \in OnWire(b)
         /\ \A c \in Bus \ {b} : OnWire(c)' = OnWire(c)
         /\ \A c \in Bus : Replied(c)' = Replied(c)
<1>1. /\ wire[b] \in Seq(Message) /\ wire[b] # <<>> /\ wire \in [Bus -> Seq(Message)]
      /\ OncePerSerial(wire[b]) /\ wire' = [wire EXCEPT ![b] = Tail(@)] /\ replies' = replies
  BY DEF Take, TypeOK, TrafficOK, AnswerInv, StreamsOnce
<1>2. PICK q \in Seq(Message) : q = wire[b] /\ q # <<>> /\ OncePerSerial(q)
  BY <1>1
<1>3. wire'[b] = Tail(q) /\ \A c \in Bus \ {b} : wire'[c] = wire[c]
  BY <1>1, <1>2
<1>4. m = Head(q) /\ m \in Message
  BY <1>2, TakeType
<1>5. RepliesIn(Tail(q)) = IF IsReply(m) THEN RepliesIn(q) \ {m.reply} ELSE RepliesIn(q)
  <2>1. /\ RepliesIn(Tail(q)) \subseteq RepliesIn(q)
        /\ IsReply(m) => m.reply \in RepliesIn(q) /\ m.reply \notin RepliesIn(Tail(q))
    BY <1>2, <1>4, RepliesInTail
  <2>2. /\ Len(Tail(q)) = Len(q) - 1 /\ Len(q) \in Nat \ {0} /\ m = q[1]
        /\ \A i \in 1..Len(Tail(q)) : Tail(q)[i] = q[i + 1]
    BY <1>2, <1>4
  <2>3. ASSUME NEW i \in 1..Len(q), IsReply(q[i]), i # 1
        PROVE  q[i].reply \in RepliesIn(Tail(q))
    <3>1. PICK j \in 1..Len(Tail(q)) : i = j + 1
      <4>1. i - 1 \in 1..Len(Tail(q)) /\ i = (i - 1) + 1
        BY <2>2, <2>3
      <4> QED BY <4>1
    <3> QED BY <2>2, <2>3, <3>1 DEF RepliesIn
  <2>4. \A s \in RepliesIn(q) : s \in RepliesIn(Tail(q)) \/ (IsReply(m) /\ s = m.reply)
    BY <2>2, <2>3 DEF RepliesIn
  <2> QED BY <2>1, <2>4
<1>6. IsReply(m) => m.reply \in RepliesIn(q)
  BY <1>2, <1>4, RepliesInTail
<1> QED BY <1>1, <1>2, <1>3, <1>4, <1>5, <1>6 DEF OnWire, Replied

\* A reply is read: what is owed for it is owed no longer, and the tables say so.
LEMMA TakeDebts ==
  ASSUME TypeOK, AnswerInv, DebtsInv, NEW b \in Bus, Take(b)
  PROVE  DebtsInv'
<1>1. PICK m : m = Head(wire[b])
  OBVIOUS
<1>2. /\ m \in Message
      /\ OnWire(b)' = IF IsReply(m) THEN OnWire(b) \ {m.reply} ELSE OnWire(b)
      /\ IsReply(m) => m.reply \in OnWire(b)
      /\ \A c \in Bus \ {b} : OnWire(c)' = OnWire(c)
      /\ \A c \in Bus : Replied(c)' = Replied(c)
  BY <1>1, TakenReply
<1>3. /\ UNCHANGED <<sent, nread, wrote, replies>>
      /\ pc'["client"] = pc["client"]
  <2>1. pc' = pc \/ \E place \in Places : pc' = [pc EXCEPT ![b] = place]
    BY DEF Take, TakeMerge, TakeHostReply, Hold, Goto, Places
  <2> QED BY <2>1 DEF Take, TypeOK, ControlOK, Link, Bus
<1>4. IsReply(m) => m.reply \in Replied(b) /\ m.reply \in wrote[b]
  BY <1>2, Asked
<1>5. /\ AtHand' = AtHand
      /\ Due(b)' = IF IsReply(m) THEN Due(b) \ {m.reply} ELSE Due(b)
      /\ \A c \in Bus \ {b} : Due(c)' = Due(c)
  BY <1>2, <1>3, <1>4 DEF AtHand, Due
<1>6. Match
  BY MatchMeans DEF DebtsInv
<1>7. ReturnsGoToPeers'
  BY <1>3 DEF DebtsInv, ReturnsGoToPeers, Serials
<1>8. /\ HostDue = Due("host") /\ HostDue' = Due("host")' /\ ContDue = Due("cont")
      /\ ContDue' = Due("cont")' /\ b \in {"host", "cont"} /\ Bus = {"host", "cont"}
  BY DEF HostDue, ContDue, Bus
<1> HIDE DEF Due, HostDue, ContDue
<1>9. ContDue' \subseteq ContDue /\ HostDue' \subseteq HostDue
  BY <1>5, <1>8
<1>10. \* what is planned has not been answered
       pc["client"] \in {"swallow", "merge", "forward"} /\ IsReply(m) /\ b = "host"
         => m.reply # nread
  BY <1>4 DEF DebtsInv, PlannedDebts, Busy
<1>11. pc["client"] \in {"swallow", "merge", "forward"} /\ IsReply(m) => m.reply # nread
  <2>1. pc["client"] \in {"swallow", "merge", "forward"} => nread \notin wrote["cont"]
    BY Asked DEF Busy
  <2> QED BY <1>4, <1>8, <1>10, <2>1
<1>12. ASSUME Match', \A x \in Noted : x \in Noted' \/ (IsReply(m) /\ x = m.reply),
              \A x \in Merged : x \in Merged' \/ (IsReply(m) /\ x = m.reply)
       PROVE  DebtsInv'
  <2>1. pc["client"] \in {"swallow", "forward"} /\ nread \in Noted => nread \in Noted'
    BY <1>11, <1>12
  <2>2. pc["client"] = "merge" /\ nread \in Merged => nread \in Merged'
    BY <1>11, <1>12
  <2>3. PlannedDebts'
    BY <1>3, <2>1, <2>2 DEF DebtsInv, PlannedDebts, Noted, Merged
  <2> QED BY <1>7, <1>12, <2>3, MatchMeansNext DEF DebtsInv
<1>13. ASSUME NEW st \in merges, IsReply(m), st.serial = m.reply, TakeMerge(b, m, st),
              UNCHANGED hostPending
       PROVE  DebtsInv'
  <2> DEFINE part  == [st.part EXCEPT ![b] = {m}]
             entry == [st EXCEPT !.part = part]
  <2>1. /\ st \in [serial: Nat, part: [Bus -> SUBSET Message]]
        /\ part \in [Bus -> SUBSET Message]
        /\ part[b] = {m} /\ \A c \in Bus \ {b} : part[c] = st.part[c]
    BY <1>2 DEF TypeOK, TablesOK
  <2>2. entry.serial = st.serial /\ entry.part = part
    BY <2>1
  <2>3. merges' \subseteq Forget(merges, m.reply) \cup {entry}
        /\ ((\E o \in Bus : part[o] = {}) => entry \in merges')
        /\ (~(\E o \in Bus : part[o] = {}) => merges' = Forget(merges, m.reply))
        /\ Forget(merges, m.reply) \subseteq merges'
    BY <1>13 DEF TakeMerge
  <2> HIDE DEF entry, part
  <2>4. Noted' = Noted /\ m.reply \notin Noted /\ m.reply \in Merged
    <3>1. Noted' = Noted /\ m.reply \in Merged
      BY <1>13 DEF Noted, Merged
    <3> QED BY <1>6, <3>1 DEF Match
  <2>5. \A x \in Merged : x \in Merged' \/ x = m.reply
    BY <2>3 DEF Merged, Forget
  <2>6. Merged' \subseteq Merged
    BY <1>13, <2>2, <2>3 DEF Merged, Forget
  <2>7. ASSUME NEW y \in merges', y.serial # m.reply PROVE MergeMatches(y)'
    <3>1. y \in merges /\ MergeMatches(y)
      BY <1>6, <1>13, <2>2, <2>3, <2>7 DEF Forget, Match
    <3>2. y.serial \in HostDue' <=> y.serial \in HostDue
      BY <1>5, <1>8, <2>7
    <3> QED BY <1>2, <1>3, <1>5, <1>8, <1>9, <3>1, <3>2 DEF MergeMatches
  <2>8. ASSUME entry \in merges', \E o \in Bus : part[o] = {} PROVE MergeMatches(entry)'
    <3>1. MergeMatches(st)
      BY <1>6 DEF Match
    <3>2. entry.serial \in AtHand' \cup wrote'["host"]
      BY <1>3, <1>5, <2>2, <3>1 DEF MergeMatches
    <3>3. CASE b = "host"
      <4>1. part["host"] # {} /\ st.serial \notin HostDue' /\ part["cont"] = st.part["cont"]
        BY <1>5, <1>8, <1>13, <2>1, <3>3
      <4>2. ContDue' = ContDue
        BY <1>5, <1>8, <3>3
      <4> QED BY <1>2, <1>8, <2>2, <2>8, <3>1, <3>2, <4>1, <4>2 DEF MergeMatches
    <3>4. CASE b = "cont"
      <4>1. part["host"] = st.part["host"] /\ HostDue' = HostDue
        BY <1>5, <1>8, <2>1, <3>4
      <4>2. st.serial \in Replied("cont")' /\ st.serial \notin ContDue'
        BY <1>2, <1>4, <1>5, <1>8, <1>13, <3>4
      <4> QED BY <1>3, <2>2, <2>8, <3>1, <3>2, <4>1, <4>2 DEF MergeMatches
    <3> QED BY <1>8, <3>3, <3>4
  <2>9. ASSUME NEW y \in merges' PROVE MergeMatches(y)'
    <3>1. CASE y.serial # m.reply
      BY <2>7, <3>1
    <3>2. CASE y.serial = m.reply
      <4>1. y = entry /\ \E o \in Bus : part[o] = {}
        BY <2>3, <3>2 DEF Forget
      <4> QED BY <2>8, <4>1
    <3> QED BY <3>1, <3>2
  <2>10. HostDue' \subseteq Noted' \cup Merged'
    <3>1. CASE \E o \in Bus : part[o] = {}
      <4>1. Merged \subseteq Merged'
        BY <1>13, <2>2, <2>3, <2>5, <3>1 DEF Merged
      <4> QED BY <1>6, <1>9, <2>4, <4>1 DEF Match
    <3>2. CASE ~ \E o \in Bus : part[o] = {}
      <4>1. m.reply \notin HostDue'
        <5>1. CASE b = "host"
          BY <1>5, <1>8, <1>13, <5>1
        <5>2. CASE b = "cont"
          <6>1. st.part["host"] # {}
            BY <1>8, <2>1, <3>2, <5>2
          <6>2. st.serial \in wrote["host"]
            BY <1>8, <6>1, Asked
          <6> QED BY <1>6, <1>9, <1>13, <6>1, <6>2 DEF Match, MergeMatches
        <5> QED BY <1>8, <5>1, <5>2
      <4> QED BY <1>6, <1>9, <2>4, <2>5, <4>1 DEF Match
    <3> QED BY <3>1, <3>2
  <2>11. \A s \in Noted' : IsCall(sent'[s]) /\ s \in AtHand' \cup HostDue'
    BY <1>3, <1>5, <1>6, <1>8, <2>4 DEF Match
  <2>12. Match'
    BY <1>6, <2>4, <2>6, <2>9, <2>10, <2>11 DEF Match
  <2> QED BY <1>12, <1>13, <2>4, <2>5, <2>12
<1>14. ASSUME merges' = merges, hostPending' \subseteq hostPending,
              IsReply(m) => m.reply \notin Merged,
              IsReply(m) /\ b = "host" => m.reply \notin Noted',
              \A x \in Noted : x \in Noted' \/ (IsReply(m) /\ x = m.reply /\ b = "host")
       PROVE  DebtsInv'
  <2>1. Merged' = Merged /\ Noted' \subseteq Noted
    BY <1>14 DEF Merged, Noted
  <2>2. ASSUME NEW st \in merges PROVE MergeMatches(st)'
    <3>1. MergeMatches(st) /\ (IsReply(m) => st.serial # m.reply)
      BY <1>6, <1>14 DEF Match, Merged
    <3>2. st.serial \in HostDue' <=> st.serial \in HostDue
      BY <1>5, <1>8, <3>1
    <3> QED BY <1>2, <1>3, <1>5, <1>8, <1>9, <3>1, <3>2 DEF MergeMatches
  <2>3. HostDue' \subseteq Noted' \cup Merged'
    <3>1. CASE IsReply(m) /\ b = "host"
      BY <1>5, <1>6, <1>8, <1>14, <2>1, <3>1 DEF Match
    <3>2. CASE ~(IsReply(m) /\ b = "host")
      BY <1>6, <1>9, <1>14, <2>1, <3>2 DEF Match
    <3> QED BY <3>1, <3>2
  <2>4. ASSUME NEW s \in Noted' PROVE IsCall(sent'[s]) /\ s \in AtHand' \cup HostDue'
    <3>1. s \in Noted /\ (IsReply(m) /\ b = "host" => s # m.reply)
      BY <1>14, <2>1
    <3>2. s \in HostDue => s \in HostDue'
      BY <1>5, <1>8, <3>1
    <3> QED BY <1>3, <1>5, <1>6, <3>1, <3>2 DEF Match
  <2>5. Match'
    BY <1>6, <1>14, <2>1, <2>2, <2>3, <2>4 DEF Match
  <2> QED BY <1>12, <1>14, <2>1, <2>5
<1>15. ASSUME NEW p \in hostPending, IsReply(m), b = "host", p.serial = m.reply,
              \A st \in merges : st.serial # m.reply, hostPending' = hostPending \ {p},
              merges' = merges
       PROVE  DebtsInv'
  <2>1. m.reply \notin Merged
    BY <1>15 DEF Merged
  <2>2. m.reply \notin Noted'
    BY <1>15 DEF Noted, AnswerInv, TablesOnce
  <2>3. \A x \in Noted : x \in Noted' \/ x = m.reply
    BY <1>15 DEF Noted
  <2> QED BY <1>14, <1>15, <2>1, <2>2, <2>3
<1>16. ASSUME UNCHANGED <<hostPending, merges>>, IsReply(m) => m.reply \notin Merged,
              IsReply(m) /\ b = "host" => m.reply \notin Noted
       PROVE  DebtsInv'
  <2>1. Noted' = Noted
    BY <1>16 DEF Noted
  <2> QED BY <1>14, <1>16, <2>1
<1>17. \/ \E st \in merges : /\ IsReply(m) /\ st.serial = m.reply
                             /\ TakeMerge(b, m, st) /\ UNCHANGED hostPending
       \/ /\ IsReply(m) /\ b = "host" /\ \A st \in merges : st.serial # m.reply
          /\ \E p \in hostPending : p.serial = m.reply /\ TakeHostReply(m, p)
          /\ UNCHANGED merges
       \/ /\ UNCHANGED <<hostPending, merges>>
          /\ IsReply(m) => \A st \in merges : st.serial # m.reply
          /\ IsReply(m) /\ b = "host" => \A p \in hostPending : p.serial # m.reply
  BY <1>1 DEF Take
<1>18. CASE /\ IsReply(m) /\ b = "host" /\ \A st \in merges : st.serial # m.reply
            /\ \E p \in hostPending : p.serial = m.reply /\ TakeHostReply(m, p)
            /\ UNCHANGED merges
  <2>1. PICK p \in hostPending : p.serial = m.reply /\ TakeHostReply(m, p)
    BY <1>18
  <2>2. hostPending' = hostPending \ {p}
    BY <2>1 DEF TakeHostReply
  <2> QED BY <1>15, <1>18, <2>1, <2>2
<1>19. CASE /\ UNCHANGED <<hostPending, merges>>
            /\ IsReply(m) => \A st \in merges : st.serial # m.reply
            /\ IsReply(m) /\ b = "host" => \A p \in hostPending : p.serial # m.reply
  BY <1>16, <1>19 DEF Noted, Merged
<1> QED BY <1>13, <1>17, <1>18, <1>19

LEMMA NextDebtsInv == TypeOK /\ AnswerInv /\ DebtsInv /\ [Next]_vars => DebtsInv'
<1> SUFFICES ASSUME TypeOK, AnswerInv, DebtsInv, [Next]_vars PROVE DebtsInv'
  OBVIOUS
<1> USE DEF TypeOK, ControlOK, Goto, Hold, goVars, envVars, closeVars, Link, Bus, Busy
<1>1. CASE Setup
  BY <1>1, DebtsKept DEF Setup, AuthenticateClient, ConnectContainer, ConnectHost
<1>2. CASE RememberHostUnique
  BY <1>2, DebtsKept DEF RememberHostUnique
<1>3. ASSUME NEW b \in Bus, SendToClient(b) PROVE DebtsInv'
  BY <1>3, DebtsKept DEF SendToClient
<1>4. CASE Finish \/ \E l \in Link : Teardown(l)
  BY <1>4, DebtsKept DEF Finish, Teardown, ReadFails, Close, CloseConn, CloseReturns, AfterClose
<1>5. CASE Rest \/ UNCHANGED vars
  BY <1>5, DebtsKept DEF Rest, vars
<1> QED BY <1>1, <1>2, <1>3, <1>4, <1>5, DispatchDebts, EnvironmentDebts, TakeDebts
        DEF Next, Upstream

\* For any requests, any replies in any order and any failed write, hostPending and
\* merges name exactly the calls whose answers are still to come (noteHostPending,
\* handleDBusManagement, sendToHost, handleUpstream and takeMerge).
THEOREM SessionTablesMatch == Spec => []TablesMatchDebts
<1>1. TypeOK /\ AnswerInv /\ DebtsInv /\ [Next]_vars => (TypeOK /\ AnswerInv /\ DebtsInv)'
  BY NextTypeOK, NextAnswerInv, NextDebtsInv
<1>2. Init => TypeOK /\ AnswerInv /\ DebtsInv
  BY InitTypeOK, InitAnswerInv, InitDebts
<1>3. DebtsInv => TablesMatchDebts
  BY DEF DebtsInv
<1> QED BY <1>1, <1>2, <1>3, PTL DEF Spec
-----------------------------------------------------------------------------
(* Owners: whose answers the application gets. *)

\* What every step respects: what was sent, written and replied stays so, and only the
\* message in the client goroutine's hand is written.
Grows ==
  /\ nread \in Nat /\ nread' \in Nat /\ nread <= nread'
  /\ nread > 0 => HostConn' = HostConn
  /\ \A s \in 1..Len(sent) : s \in 1..Len(sent') /\ sent'[s] = sent[s]
  /\ \A b \in Bus : /\ wrote[b] \subseteq wrote'[b] /\ replies[b] \subseteq replies'[b]
                    /\ \A s \in wrote'[b] :
                         s \in wrote[b] \/ (s = nread /\ pc["client"] \in Busy)

LEMMA StepsGrow ==
  ASSUME TypeOK, AnswerInv, [Next]_vars
  PROVE  Grows
<1>1. nread \in Nat /\ nread \in 0..Len(sent) /\ sent \in Seq(Requests)
      /\ wrote \in [Bus -> SUBSET (1..nread)] /\ replies \in [Bus -> SUBSET Message]
  BY DEF TypeOK, TrafficOK
<1>2. nread' \in {nread, nread + 1}
  BY DEF Next, Setup, AuthenticateClient, ConnectContainer, ConnectHost, Dispatch, ReadClient,
         WriteHostCopy, SendToHost, WriteContainer, ReplyUnavailable, Upstream, Take,
         SendToClient, RememberHostUnique, Teardown, ReadFails, Close, CloseConn,
         CloseReturns, Finish, Environment, ClientSend, BusReply, BusEmit, Drop, Rest, vars
<1>3. sent' = sent \/ \E r \in Requests : sent' = Append(sent, r)
  BY DEF Next, Setup, AuthenticateClient, ConnectContainer, ConnectHost, Dispatch, ReadClient,
         WriteHostCopy, SendToHost, WriteContainer, ReplyUnavailable, Upstream, Take,
         SendToClient, RememberHostUnique, Teardown, ReadFails, Close, CloseConn,
         CloseReturns, Finish, Environment, ClientSend, BusReply, BusEmit, Drop, Rest, vars,
         envVars
<1>4. \/ wrote' = wrote
      \/ /\ \E b \in Bus : wrote' = [wrote EXCEPT ![b] = @ \cup {nread}]
         /\ pc["client"] \in Busy
  BY DEF Next, Setup, AuthenticateClient, ConnectContainer, ConnectHost, Dispatch, ReadClient,
         WriteHostCopy, SendToHost, WriteContainer, ReplyUnavailable, Upstream, Take,
         SendToClient, RememberHostUnique, Teardown, ReadFails, Close, CloseConn,
         CloseReturns, Finish, Environment, ClientSend, BusReply, BusEmit, Drop, Rest, vars,
         Busy, Bus
<1>5. \/ replies' = replies
      \/ \E b \in Bus : \E m : replies' = [replies EXCEPT ![b] = @ \cup {m}]
  <2>1. CASE Environment
    BY <2>1 DEF Environment, ClientSend, BusReply, BusEmit, Drop
  <2>2. CASE ~Environment
    BY <2>2 DEF Next, Setup, AuthenticateClient, ConnectContainer, ConnectHost, Dispatch,
         ReadClient, WriteHostCopy, SendToHost, WriteContainer, ReplyUnavailable, Upstream, Take,
         SendToClient, RememberHostUnique, Teardown, ReadFails, Close, CloseConn,
         CloseReturns, Finish, Rest, vars, envVars
  <2> QED BY <2>1, <2>2
<1>6. \A s \in 1..Len(sent) : s \in 1..Len(sent') /\ sent'[s] = sent[s]
  <2>1. CASE sent' = sent
    BY <2>1
  <2>2. ASSUME NEW r \in Requests, sent' = Append(sent, r)
        PROVE  \A s \in 1..Len(sent) : s \in 1..Len(sent') /\ sent'[s] = sent[s]
    BY <1>1, <2>2
  <2> QED BY <1>3, <2>1, <2>2
<1>7. \A b \in Bus : /\ wrote[b] \subseteq wrote'[b]
                     /\ \A s \in wrote'[b] :
                          s \in wrote[b] \/ (s = nread /\ pc["client"] \in Busy)
  BY <1>1, <1>4
<1>8. \A b \in Bus : replies[b] \subseteq replies'[b]
  BY <1>1, <1>5
<1>9. nread > 0 => HostConn' = HostConn
  <2> USE DEF TypeOK, ControlOK, HandsOK, HostConn, Link
  <2>1. CASE Setup
    BY <2>1 DEF Setup, AuthenticateClient, ConnectContainer, ConnectHost
  <2>2. CASE \E l \in Link : Teardown(l)
    BY <2>2 DEF Teardown, ReadFails, Close, CloseConn, CloseReturns, closeVars
  <2>3. CASE ~(Setup \/ \E l \in Link : Teardown(l))
    BY <2>3 DEF Next, Dispatch, ReadClient, WriteHostCopy, SendToHost, WriteContainer,
         ReplyUnavailable, Upstream, Take, SendToClient, RememberHostUnique, Finish,
         Environment, ClientSend, BusReply, BusEmit, Drop, Rest, vars, closeVars
  <2> QED BY <2>1, <2>2, <2>3
<1> QED BY <1>1, <1>2, <1>6, <1>7, <1>8, <1>9 DEF Grows

\* The one reply of a bus to a call.
LEMMA ReplyIs ==
  ASSUME RepliesOwned, NEW b \in Bus, NEW m \in replies[b]
  PROVE  ReplyOf(b, m.reply) = m
<1>1. \A n \in replies[b] : n.reply = m.reply => n = m
  BY DEF RepliesOwned
<1> QED BY <1>1 DEF ReplyOf

\* A reply on the wire, or kept by a merge, is to a call the router wrote to that bus.
LEMMA ReplyFacts ==
  ASSUME TypeOK, AnswerInv, RepliesOwned, NEW b \in Bus, NEW m \in replies[b]
  PROVE  /\ IsReply(m) /\ m.from = {b} /\ m.reply \in Replied(b) /\ m.reply \in wrote[b]
         /\ m.reply \in 1..nread /\ m.reply \in Serials
         /\ sent[m.reply].type = "call" /\ ReplyOf(b, m.reply) = m
<1>1. m.reply \in Replied(b)
  BY DEF Replied
<1>2. m.reply \in wrote[b] /\ m.reply \in 1..nread /\ nread \in 0..Len(sent)
  BY <1>1, Asked
<1>3. m.reply \in Serials
  BY <1>2 DEF Serials, TypeOK, TrafficOK
<1> QED BY <1>1, <1>2, <1>3, ReplyIs DEF RepliesOwned

\* Replies keep their owners when nobody replies.
LEMMA RepliesKept ==
  ASSUME TypeOK, AnswerInv, RepliesOwned, Grows, replies' = replies,
         \A b \in Bus : \A i \in 1..Len(wire'[b]) :
           IsReply(wire'[b][i]) => wire'[b][i] \in replies[b]
  PROVE  RepliesOwned'
<1>1. \A b \in Bus : \A m \in replies[b] : m.reply \in 1..Len(sent)
  BY ReplyFacts DEF Serials
<1>2. \A b \in Bus : \A m \in replies[b] : sent'[m.reply] = sent[m.reply]
  BY <1>1 DEF Grows
<1> QED BY <1>2 DEF RepliesOwned

LEMMA NextReplies ==
  ASSUME TypeOK, AnswerInv, RepliesOwned, [Next]_vars
  PROVE  RepliesOwned'
<1>0. Grows /\ wire \in [Bus -> Seq(Message)] /\ replies \in [Bus -> SUBSET Message]
      /\ \A b \in Bus : Replied(b) \subseteq wrote[b] /\ wrote[b] \subseteq 1..nread
      /\ nread \in 0..Len(sent)
  BY StepsGrow, Asked DEF TypeOK, TrafficOK
<1>1. CASE UNCHANGED <<wire, replies>>
  BY <1>0, <1>1, RepliesKept DEF RepliesOwned
<1>2. ASSUME NEW b \in Bus, Take(b) PROVE RepliesOwned'
  <2>1. wire' = [wire EXCEPT ![b] = Tail(@)] /\ wire[b] # <<>> /\ replies' = replies
    BY <1>2 DEF Take
  <2>2. PICK q \in Seq(Message) : q = wire[b] /\ q # <<>>
    BY <1>0, <2>1
  <2>3. \A i \in 1..Len(Tail(q)) : Tail(q)[i] = q[i + 1] /\ i + 1 \in 1..Len(q)
    BY <2>2
  <2>4. \A i \in 1..Len(q) : IsReply(q[i]) => q[i] \in replies[b]
    BY <2>2 DEF RepliesOwned
  <2>5. wire'[b] = Tail(q) /\ \A c \in Bus \ {b} : wire'[c] = wire[c]
    BY <1>0, <2>1, <2>2
  <2>6. \A c \in Bus : \A i \in 1..Len(wire'[c]) :
          IsReply(wire'[c][i]) => wire'[c][i] \in replies[c]
    <3> SUFFICES ASSUME NEW c \in Bus
                 PROVE  \A i \in 1..Len(wire'[c]) :
                          IsReply(wire'[c][i]) => wire'[c][i] \in replies[c]
      OBVIOUS
    <3>1. CASE c = b
      BY <2>3, <2>4, <2>5, <3>1
    <3>2. CASE c # b
      BY <2>5, <3>2 DEF RepliesOwned
    <3> QED BY <3>1, <3>2
  <2> QED BY <1>0, <2>1, <2>6, RepliesKept
<1>3. ASSUME NEW b \in Bus, NEW m \in Message,
             wire' = [wire EXCEPT ![b] = Append(@, m)],
             replies' = IF IsReply(m) THEN [replies EXCEPT ![b] = @ \cup {m}] ELSE replies,
             IsReply(m) => /\ m.reply \in Nat /\ m.from = {b} /\ m.reply \notin Replied(b)
                           /\ sent[m.reply].type = "call",
             sent' = sent
      PROVE  RepliesOwned'
  <2>1. PICK q \in Seq(Message) : q = wire[b]
    BY <1>0
  <2>2. /\ Len(Append(q, m)) = Len(q) + 1 /\ Append(q, m)[Len(q) + 1] = m
        /\ \A i \in 1..Len(q) : Append(q, m)[i] = q[i]
        /\ Len(q) \in Nat
    BY <2>1
  <2>3. wire'[b] = Append(q, m) /\ \A c \in Bus \ {b} : wire'[c] = wire[c]
    BY <1>0, <1>3, <2>1
  <2>4. /\ replies'[b] = IF IsReply(m) THEN replies[b] \cup {m} ELSE replies[b]
        /\ \A c \in Bus \ {b} : replies'[c] = replies[c]
    BY <1>0, <1>3
  <2>5. \A n \in replies[b] : IsReply(m) => n.reply # m.reply
    BY <1>3 DEF Replied
  <2>6. ASSUME NEW c \in Bus
        PROVE  /\ \A n \in replies'[c] : /\ n.reply \in Nat /\ IsReply(n) /\ n.from = {c}
                                         /\ sent[n.reply].type = "call"
               /\ \A n, o \in replies'[c] : n.reply = o.reply => n = o
               /\ \A i \in 1..Len(wire'[c]) : IsReply(wire'[c][i]) => wire'[c][i] \in replies'[c]
    <3>1. CASE c # b
      BY <2>3, <2>4, <3>1 DEF RepliesOwned
    <3>2. CASE c = b
      <4>1. \A n \in replies'[b] : /\ n.reply \in Nat /\ IsReply(n) /\ n.from = {b}
                                   /\ sent[n.reply].type = "call"
        BY <1>3, <2>4 DEF RepliesOwned
      <4>2. \A n, o \in replies'[b] : n.reply = o.reply => n = o
        BY <2>4, <2>5 DEF RepliesOwned
      <4>3. \A i \in 1..Len(wire'[b]) : IsReply(wire'[b][i]) => wire'[b][i] \in replies'[b]
        <5>1. \A i \in 1..Len(q) : IsReply(q[i]) => q[i] \in replies[b]
          BY <2>1 DEF RepliesOwned
        <5>2. \A i \in 1..(Len(q) + 1) : i \in 1..Len(q) \/ i = Len(q) + 1
          BY <2>2
        <5> QED BY <2>2, <2>3, <2>4, <5>1, <5>2
      <4> QED BY <3>2, <4>1, <4>2, <4>3
    <3> QED BY <3>1, <3>2
  <2> QED BY <1>3, <2>6 DEF RepliesOwned
<1>4. CASE \/ \E b \in Bus : \E s \in Serials : BusReply(b, s)
           \/ \E b \in Bus : BusEmit(b)
  BY <1>3, <1>4, BusSends DEF Sends
<1>5. \/ UNCHANGED <<wire, replies>> \/ (\E b \in Bus : Take(b))
      \/ (\E b \in Bus : \E s \in Serials : BusReply(b, s)) \/ (\E b \in Bus : BusEmit(b))
  BY DEF Next, Setup, AuthenticateClient, ConnectContainer, ConnectHost, Dispatch, ReadClient,
         WriteHostCopy, SendToHost, WriteContainer, ReplyUnavailable, Upstream,
         SendToClient, RememberHostUnique, Teardown, ReadFails, Close, CloseConn,
         CloseReturns, Finish, Environment, ClientSend, Drop, Rest, vars, envVars
<1> QED BY <1>1, <1>2, <1>4, <1>5
\* A message the application may have: not a reply, or one of the right owner.
Settled == {m \in Message : IsReply(m) => FromOwner(m) /\ m.reply \in 1..nread}

Hands ==
  /\ \A i \in 1..Len(inbox) : inbox[i] \in Settled
  /\ \A b \in Bus : Delivering(b) => held[b] \in Settled

LEMMA HandsMeans == TypeOK => (HandsOwned <=> Hands)
<1> SUFFICES ASSUME TypeOK PROVE HandsOwned <=> Hands
  OBVIOUS
<1>1. \A i \in 1..Len(inbox) : inbox[i] \in Message
  BY DEF TypeOK, TrafficOK
<1>2. \A b \in Bus : Delivering(b) => held[b] \in Message /\ IsReply(held[b])
  BY DEF TypeOK, HandsOK, Delivering
<1>3. \A m \in Message :
        m \in Settled <=> (IsReply(m) => FromOwner(m) /\ m.reply \in 1..nread)
  BY DEF Settled
<1> HIDE DEF Settled
<1>4. (\A i \in 1..Len(inbox) : inbox[i] \in Settled)
        <=> /\ AnsweredByOwner
            /\ \A i \in 1..Len(inbox) : IsReply(inbox[i]) => inbox[i].reply \in 1..nread
  BY <1>1, <1>3 DEF AnsweredByOwner
<1>5. (\A b \in Bus : Delivering(b) => held[b] \in Settled)
        <=> \A b \in Bus : Delivering(b) => FromOwner(held[b]) /\ held[b].reply \in 1..nread
  BY <1>2, <1>3
<1> QED BY <1>4, <1>5 DEF HandsOwned, Hands

LEMMA HandsMeansNext == TypeOK' => (HandsOwned' <=> Hands')
BY HandsMeans, PTL

\* What a message says stays said, once its call is settled.
LEMMA StaySettled ==
  ASSUME TypeOK, AnswerInv, RepliesOwned, RepliesOwned', Grows,
         NEW m \in Settled, IsReply(m) => m.reply \notin Unsettled
  PROVE  m \in Settled'
<1>1. CASE ~IsReply(m)
  BY <1>1 DEF Settled
<1>2. CASE IsReply(m)
  <2>1. PICK s : s = m.reply
    OBVIOUS
  <2>2. m \in Message /\ FromOwner(m) /\ s \in 1..nread /\ s \notin Unsettled
    BY <1>2, <2>1 DEF Settled
  <2>3. nread \in Nat /\ nread \in 0..Len(sent) /\ nread' \in Nat /\ nread <= nread'
        /\ Len(sent) \in Nat
    BY Asked DEF Grows
  <2>4. s \in Nat /\ s \in 1..nread' /\ s \in 1..Len(sent)
    BY <2>2, <2>3
  <2>5. sent'[s] = sent[s]
    BY <2>4 DEF Grows
  <2>6. ~(s = nread /\ pc["client"] \in Busy)
    BY <2>2, <2>4 DEF Unsettled
  <2>7. \A b \in Bus : s \in wrote'[b] <=> s \in wrote[b]
    BY <2>6 DEF Grows
  <2>8. \A b \in Bus : s \in Replied(b) =>
          s \in Replied(b)' /\ ReplyOf(b, s)' = ReplyOf(b, s)
    <3> SUFFICES ASSUME NEW b \in Bus, s \in Replied(b)
                 PROVE  s \in Replied(b)' /\ ReplyOf(b, s)' = ReplyOf(b, s)
      OBVIOUS
    <3>1. PICK n \in replies[b] : n.reply = s
      BY DEF Replied
    <3>2. n \in replies'[b]
      BY DEF Grows
    <3>3. s \in Replied(b)'
      BY <3>1, <3>2 DEF Replied
    <3>4. \A x \in replies'[b] : x.reply = s => x = n
      BY <3>1, <3>2 DEF RepliesOwned
    <3>5. ReplyOf(b, s)' = n
      BY <3>1, <3>2, <3>4 DEF ReplyOf
    <3>6. ReplyOf(b, s) = n
      BY <3>1, ReplyIs
    <3> QED BY <3>3, <3>5, <3>6
  <2>9. FromOwner(m)'
    <3> DEFINE asked == {b \in Bus : s \in wrote[b]}
               gave  == {b \in asked : ReplyOf(b, s).type = "return"}
    <3>1. /\ \A b \in m.from : s \in wrote[b] \cap Replied(b)
          /\ m.from = {} => \A b \in Bus : s \notin wrote[b]
          /\ sent[s].dest = DBus /\ sent[s].member \in {"Hello", "AddMatch"} => m.from = {"cont"}
          /\ sent[s].dest \in HostTalk /\ m.from # {} => m.from = {"host"}
          /\ AsksHost(sent[s]) /\ HostConn => m.from = {"host"}
          /\ sent[s].dest = DBus /\ sent[s].member = "ListNames" =>
               /\ \A b \in asked : s \in Replied(b)
               /\ m.from = IF gave = {} THEN {"cont"} ELSE gave
      BY <2>1, <2>2 DEF FromOwner
    <3>2. m.from \subseteq Bus
      BY <2>2 DEF Message
    <3>3. asked' = asked
      BY <2>7
    <3>4. (\A b \in asked : s \in Replied(b)) => gave' = gave
      BY <2>8, <3>3
    <3>5. \A b \in m.from : s \in wrote'[b] \cap Replied(b)'
      BY <2>7, <2>8, <3>1, <3>2
    <3>6. m.from = {} => \A b \in Bus : s \notin wrote'[b]
      BY <2>7, <3>1
    <3>7. sent'[s].dest = DBus /\ sent'[s].member = "ListNames" =>
               /\ \A b \in asked' : s \in Replied(b)'
               /\ m.from = IF gave' = {} THEN {"cont"} ELSE gave'
      <4> HIDE DEF gave
      <4> QED BY <2>5, <2>8, <3>1, <3>3, <3>4
    <3>8. AsksHost(sent'[s]) /\ HostConn' => m.from = {"host"}
      <4>1. HostConn' = HostConn
        BY <2>2, <2>3 DEF Grows
      <4> QED BY <2>5, <3>1, <4>1
    <3> QED BY <2>1, <2>5, <3>1, <3>5, <3>6, <3>7, <3>8 DEF FromOwner
  <2> QED BY <2>1, <2>2, <2>4, <2>9 DEF Settled
<1> QED BY <1>1, <1>2
\* The hands stay the owners' when whatever is new in them is settled.
LEMMA HandsKept ==
  ASSUME TypeOK, TypeOK', AnswerInv, RepliesOwned, RepliesOwned', Grows, HandsOwned,
         \A i \in 1..Len(inbox') :
           inbox'[i] \in Settled' \/ (i \in 1..Len(inbox) /\ inbox'[i] = inbox[i]),
         \A b \in Bus : Delivering(b)' =>
           held'[b] \in Settled' \/ (Delivering(b) /\ held'[b] = held[b])
  PROVE  HandsOwned'
<1>1. /\ \A i \in 1..Len(inbox) : inbox[i] \in Settled
      /\ \A b \in Bus : Delivering(b) => held[b] \in Settled
  BY HandsMeans DEF Hands
<1>2. /\ \A i \in 1..Len(inbox) : IsReply(inbox[i]) => inbox[i].reply \notin Unsettled
      /\ \A b \in Bus : Delivering(b) => held[b].reply \notin Unsettled
  BY DEF AnswerInv, AnswersOnce
<1>3. \A m \in Settled : (IsReply(m) => m.reply \notin Unsettled) => m \in Settled'
  BY StaySettled
<1>4. \A i \in 1..Len(inbox') : inbox'[i] \in Settled'
  BY <1>1, <1>2, <1>3
<1>5. \A b \in Bus : Delivering(b)' => held'[b] \in Settled'
  BY <1>1, <1>2, <1>3
<1>6. Hands'
  BY <1>4, <1>5 DEF Hands
<1> QED BY <1>6, HandsMeansNext

\* What a goroutine hands over was the right owner's when it was taken.
LEMMA HandOverOwned ==
  ASSUME TypeOK, TypeOK', AnswerInv, RepliesOwned, RepliesOwned', Grows, HandsOwned,
         NEW b \in Bus, SendToClient(b)
  PROVE  HandsOwned'
<1>1. inbox \in Seq(Message) /\ held[b] \in Message
  BY DEF TypeOK, TrafficOK, HandsOK, SendToClient
<1>2. \A c \in Bus : Delivering(c)' => Delivering(c) /\ held'[c] = held[c]
  BY DEF SendToClient, Hold, Goto, Delivering, TypeOK, ControlOK, HandsOK, Bus, Link
<1>3. held[b] \in Settled'
  <2>1. CASE IsReply(held[b])
    <3>1. Delivering(b)
      BY <2>1 DEF Delivering, SendToClient
    <3>2. held[b] \in Settled /\ held[b].reply \notin Unsettled
      BY <3>1, HandsMeans DEF Hands, AnswerInv, AnswersOnce
    <3> QED BY <3>2, StaySettled
  <2>2. CASE ~IsReply(held[b])
    BY <1>1, <2>2 DEF Settled
  <2> QED BY <2>1, <2>2
<1>4. \A i \in 1..Len(inbox') :
        inbox'[i] \in Settled' \/ (i \in 1..Len(inbox) /\ inbox'[i] = inbox[i])
  <2>1. CASE inbox' = inbox
    BY <2>1
  <2>2. CASE inbox' = Append(inbox, held[b])
    <3>1. PICK q \in Seq(Message), m \in Message : q = inbox /\ m = held[b]
      BY <1>1
    <3>2. \A i \in 1..Len(Append(q, m)) :
            Append(q, m)[i] = m \/ (i \in 1..Len(q) /\ Append(q, m)[i] = q[i])
      OBVIOUS
    <3>3. inbox' = Append(q, m) /\ m \in Settled'
      BY <1>3, <2>2, <3>1
    <3> QED BY <3>1, <3>2, <3>3
  <2> QED BY <2>1, <2>2 DEF SendToClient
<1> QED BY <1>2, <1>4, HandsKept

\* The router's own error answers a call it sent to nobody.
LEMMA UnavailableOwned ==
  ASSUME TypeOK, TypeOK', AnswerInv, PlannedDebts, RepliesOwned, RepliesOwned', Grows,
         PlanOwned, HandsOwned, ReplyUnavailable
  PROVE  HandsOwned'
<1>1. inbox \in Seq(Message) /\ nread \in Nat \ {0} /\ nread \in 1..nread
  BY DEF TypeOK, TrafficOK, HandsOK, ReplyUnavailable
<1>2. ServiceUnknown(nread) \in Message
  BY <1>1, ServiceUnknownType
<1>3. /\ \A c \in Bus : Delivering(c)' => Delivering(c) /\ held'[c] = held[c]
      /\ UNCHANGED <<sent, nread, wrote>>
  BY DEF ReplyUnavailable, envVars, Goto, Delivering, TypeOK, ControlOK, HandsOK, Bus, Link
<1>4. \A b \in Bus : nread \notin wrote[b]
  <2>1. nread \notin wrote["host"]
    BY DEF PlannedDebts, Busy, ReplyUnavailable
  <2>2. nread \notin wrote["cont"]
    BY DEF AnswerInv, TablesOnce, Busy, ReplyUnavailable
  <2> QED BY <2>1, <2>2 DEF Bus
<1>5. sent[nread].dest # DBus
  BY DEF PlanOwned, ReplyUnavailable
<1>6. ServiceUnknown(nread) \in Settled'
  <2>1. ServiceUnknown(nread).reply = nread /\ ServiceUnknown(nread).from = {}
    BY DEF ServiceUnknown
  <2>2. PICK m \in Message : m = ServiceUnknown(nread)
    BY <1>2
  <2>3. FromOwner(m)'
    BY <1>3, <1>4, <1>5, <2>1, <2>2 DEF FromOwner, AsksHost
  <2> QED BY <1>1, <1>3, <2>1, <2>2, <2>3 DEF Settled
<1>7. \A i \in 1..Len(inbox') :
        inbox'[i] \in Settled' \/ (i \in 1..Len(inbox) /\ inbox'[i] = inbox[i])
  <2>1. CASE inbox' = inbox
    BY <2>1
  <2>2. CASE inbox' = Append(inbox, ServiceUnknown(nread))
    <3>1. PICK q \in Seq(Message), m \in Message : q = inbox /\ m = ServiceUnknown(nread)
      BY <1>1, <1>2
    <3>2. \A i \in 1..Len(Append(q, m)) :
            Append(q, m)[i] = m \/ (i \in 1..Len(q) /\ Append(q, m)[i] = q[i])
      OBVIOUS
    <3>3. inbox' = Append(q, m) /\ m \in Settled'
      BY <1>6, <2>2, <3>1
    <3> QED BY <3>1, <3>2, <3>3
  <2> QED BY <2>1, <2>2 DEF ReplyUnavailable
<1> QED BY <1>3, <1>7, HandsKept
\* The container's reply, when no merge waits for it.
LEMMA ContainerReplyOwned ==
  ASSUME TypeOK, AnswerInv, RepliesOwned, WritesOwned, NEW m \in replies["cont"],
         m.reply \in OnWire("cont"), \A st \in merges : st.serial # m.reply
  PROVE  m \in Settled
<1>1. PICK s : s = m.reply
  OBVIOUS
<1>2. /\ m \in Message /\ m.from = {"cont"} /\ s \in Replied("cont") /\ s \in wrote["cont"]
      /\ s \in 1..nread /\ sent[s].type = "call" /\ ReplyOf("cont", s) = m
  BY <1>1, ReplyFacts DEF Bus, TypeOK, TrafficOK
<1>3. sent[s].dest \notin HostTalk /\ (AsksHost(sent[s]) => ~HostConn)
  BY <1>2 DEF WritesOwned
<1>4. sent[s].dest = DBus /\ sent[s].member = "ListNames" => s \notin wrote["host"]
  BY <1>1, <1>2 DEF WritesOwned, ListCall
<1>5. FromOwner(m)
  <2> DEFINE asked == {b \in Bus : s \in wrote[b]}
             gave  == {b \in asked : ReplyOf(b, s).type = "return"}
  <2>1. sent[s].dest = DBus /\ sent[s].member = "ListNames" =>
          /\ \A b \in asked : s \in Replied(b)
          /\ m.from = IF gave = {} THEN {"cont"} ELSE gave
    <3>1. SUFFICES ASSUME sent[s].dest = DBus /\ sent[s].member = "ListNames"
                   PROVE  /\ \A b \in asked : s \in Replied(b)
                          /\ m.from = IF gave = {} THEN {"cont"} ELSE gave
      OBVIOUS
    <3>2. asked = {"cont"}
      BY <1>2, <1>4, <3>1 DEF Bus
    <3>3. gave = {} \/ gave = {"cont"}
      BY <3>2
    <3> HIDE DEF asked, gave
    <3> QED BY <1>2, <3>2, <3>3
  <2> QED BY <1>1, <1>2, <1>3, <2>1 DEF FromOwner
<1> QED BY <1>1, <1>2, <1>5 DEF Settled

\* The host's reply, when it is one to pass on.
LEMMA HostReplyOwned ==
  ASSUME TypeOK, AnswerInv, RepliesOwned, TablesOwned, NEW m \in replies["host"],
         NEW p \in hostPending, p.serial = m.reply, p.kind = "forward"
  PROVE  m \in Settled
<1>1. PICK s : s = m.reply
  OBVIOUS
<1>2. /\ m \in Message /\ m.from = {"host"} /\ s \in Replied("host") /\ s \in wrote["host"]
      /\ s \in 1..nread
  BY <1>1, ReplyFacts DEF Bus, TypeOK, TrafficOK
<1>3. ~(sent[s].dest = DBus /\ sent[s].member \in {"Hello", "AddMatch", "ListNames"})
  BY <1>1 DEF TablesOwned
<1>4. FromOwner(m)
  BY <1>1, <1>2, <1>3 DEF FromOwner
<1> QED BY <1>1, <1>2, <1>4 DEF Settled

\* The merged list, of the two replies.
LEMMA MergedOwned ==
  ASSUME TypeOK, AnswerInv, RepliesOwned, NEW c \in replies["cont"], NEW h \in replies["host"],
         c.reply = h.reply, sent[c.reply].dest = DBus, sent[c.reply].member = "ListNames"
  PROVE  MergeNameListReplies(c, h) \in Settled
<1>1. PICK s : s = c.reply
  OBVIOUS
<1>2. /\ c \in Message /\ h \in Message
      /\ c.from = {"cont"} /\ h.from = {"host"} /\ IsReply(c) /\ IsReply(h)
      /\ \A b \in Bus : s \in Replied(b) /\ s \in wrote[b]
      /\ s \in 1..nread /\ ReplyOf("cont", s) = c /\ ReplyOf("host", s) = h
  BY <1>1, ReplyFacts DEF Bus, TypeOK, TrafficOK
<1>3. PICK x : x = MergeNameListReplies(c, h)
  OBVIOUS
<1>4. DBus \notin HostTalk
  BY SessionAssumption DEF Names
<1> DEFINE asked == {b \in Bus : s \in wrote[b]}
           gave  == {b \in asked : ReplyOf(b, s).type = "return"}
<1>5. asked = Bus
  BY <1>2
<1>6. gave = {b \in Bus : IF b = "cont" THEN c.type = "return" ELSE h.type = "return"}
  BY <1>2, <1>5 DEF Bus
<1>7. /\ x \in Message /\ x.reply = s
      /\ x.from = IF gave = {} THEN {"cont"} ELSE gave
  <2> HIDE DEF gave
  <2>1. CASE c.type = "return" /\ h.type = "return"
    <3>1. gave = {"cont", "host"}
      BY <1>6, <2>1 DEF Bus
    <3>2. {m \in {c, h} : m.type = "return"} = {c, h}
      BY <2>1
    <3>3. UNION {m.from : m \in {c, h}} = {"cont", "host"}
      BY <1>2
    <3>4. x = [c EXCEPT !.from = {"cont", "host"}]
      BY <1>3, <2>1, <3>2, <3>3 DEF MergeNameListReplies
    <3> QED BY <1>1, <1>2, <3>1, <3>4 DEF Message, Bus
  <2>2. CASE c.type = "return" /\ h.type # "return"
    <3>1. gave = {"cont"}
      BY <1>6, <2>2 DEF Bus
    <3>2. {m \in {c, h} : m.type = "return"} = {c}
      BY <2>2
    <3>3. UNION {m.from : m \in {c}} = {"cont"}
      BY <1>2
    <3>4. x = c \/ x = [c EXCEPT !.from = {"cont"}]
      BY <1>3, <2>2, <3>2, <3>3 DEF MergeNameListReplies
    <3> QED BY <1>1, <1>2, <3>1, <3>4 DEF Message, Bus
  <2>3. CASE c.type # "return" /\ h.type = "return"
    <3>1. gave = {"host"}
      BY <1>6, <2>3 DEF Bus
    <3>2. {m \in {c, h} : m.type = "return"} = {h}
      BY <2>3
    <3>3. UNION {m.from : m \in {h}} = {"host"}
      BY <1>2
    <3>4. x = h \/ x = [h EXCEPT !.from = {"host"}]
      BY <1>3, <2>3, <3>2, <3>3 DEF MergeNameListReplies
    <3> QED BY <1>1, <1>2, <3>1, <3>4 DEF Message, Bus
  <2>4. CASE c.type # "return" /\ h.type # "return"
    <3>1. gave = {}
      BY <1>6, <2>4 DEF Bus
    <3>2. {m \in {c, h} : m.type = "return"} = {}
      BY <2>4
    <3>3. x = c
      BY <1>3, <2>4, <3>2 DEF MergeNameListReplies
    <3> QED BY <1>1, <1>2, <3>1, <3>3
  <2> QED BY <2>1, <2>2, <2>3, <2>4
<1>8. FromOwner(x)
  <2>1. x.from \subseteq Bus /\ x.from # {}
    BY <1>7 DEF Bus
  <2> HIDE DEF gave
  <2>2. sent[x.reply].dest = DBus /\ sent[x.reply].member = "ListNames"
    BY <1>1, <1>7
  <2>3. \A b \in Bus : x.reply \in wrote[b] \cap Replied(b)
    BY <1>2, <1>7
  <2>4. /\ \A b \in asked : s \in Replied(b)
        /\ x.from = IF gave = {} THEN {"cont"} ELSE gave
    BY <1>2, <1>7
  <2>5. ~AsksHost(sent[x.reply])
    BY <2>2 DEF AsksHost
  <2> QED BY <1>4, <1>7, <2>1, <2>2, <2>3, <2>4, <2>5 DEF FromOwner, gave
<1> QED BY <1>2, <1>3, <1>7, <1>8 DEF Settled
\* What a read leaves in a goroutine's hands.
LEMMA TakeOwned ==
  ASSUME TypeOK, TypeOK', AnswerInv, RepliesOwned, RepliesOwned', Grows, TablesOwned,
         WritesOwned, HandsOwned, NEW b \in Bus, Take(b)
  PROVE  HandsOwned'
<1>1. PICK m : m = Head(wire[b])
  OBVIOUS
<1>2. m \in Message /\ (IsReply(m) => m.reply \in OnWire(b))
  BY <1>1, TakenReply
<1>3. IsReply(m) => m \in replies[b]
  <2>1. wire[b] \in Seq(Message) /\ wire[b] # <<>>
    BY DEF Take, TypeOK, TrafficOK
  <2>2. PICK q \in Seq(Message) : q = wire[b] /\ q # <<>>
    BY <2>1
  <2>3. m = q[1] /\ 1 \in 1..Len(q)
    BY <1>1, <2>2
  <2> QED BY <2>2, <2>3 DEF RepliesOwned
<1>4. /\ UNCHANGED <<inbox, sent, nread, wrote, replies, conn>> /\ pc[b] = "read"
      /\ \A c \in Bus \ {b} : pc'[c] = pc[c] /\ held'[c] = held[c]
  <2>1. UNCHANGED <<inbox, sent, nread, wrote, replies, conn>> /\ pc[b] = "read"
    BY DEF Take, closeVars
  <2>2. /\ pc' = pc \/ \E place : pc' = [pc EXCEPT ![b] = place]
        /\ held' = held \/ \E x : held' = [held EXCEPT ![b] = x]
    BY DEF Take, TakeMerge, TakeHostReply, Hold, Goto
  <2>3. \A c \in Bus \ {b} : pc'[c] = pc[c] /\ held'[c] = held[c]
    BY <2>2 DEF TypeOK, ControlOK, HandsOK, Bus, Link
  <2> QED BY <2>1, <2>3
<1>5. Settled' = Settled
  BY <1>4 DEF Settled, FromOwner, Replied, ReplyOf, HostConn, AsksHost, RouteDestination,
              RouteOwnership
<1>6. Delivering(b)' => held'[b] \in Settled
  <2>1. CASE UNCHANGED pc
    BY <1>4, <2>1 DEF Delivering
  <2>2. ASSUME NEW st \in merges, IsReply(m), st.serial = m.reply, TakeMerge(b, m, st),
               ~UNCHANGED pc
        PROVE  held'[b] \in Settled
    <3> DEFINE part == [st.part EXCEPT ![b] = {m}]
    <3>1. PICK c \in part["cont"], h \in part["host"] :
            held' = [held EXCEPT ![b] = MergeNameListReplies(c, h)]
      BY <2>2 DEF TakeMerge
    <3>2. held'[b] = MergeNameListReplies(c, h)
      BY <3>1 DEF TypeOK, HandsOK
    <3>3. /\ st.part \in [Bus -> SUBSET Message]
          /\ \A d \in Bus : \A x \in st.part[d] : x.reply = st.serial /\ x \in replies[d]
          /\ sent[st.serial].dest = DBus /\ sent[st.serial].member = "ListNames"
      BY DEF TypeOK, TablesOK, AnswerInv, TablesOnce, TablesOwned
    <3>4. \A d \in Bus : \A x \in part[d] : x.reply = st.serial /\ x \in replies[d]
      BY <1>3, <2>2, <3>3
    <3> HIDE DEF part
    <3>5. /\ c \in replies["cont"] /\ c.reply = st.serial
          /\ h \in replies["host"] /\ h.reply = st.serial
      BY <3>1, <3>4 DEF Bus
    <3>6. MergeNameListReplies(c, h) \in Settled
      BY <3>3, <3>5, MergedOwned
    <3> QED BY <3>2, <3>6
  <2>3. ASSUME IsReply(m), b = "host", NEW p \in hostPending, p.serial = m.reply,
               TakeHostReply(m, p)
        PROVE  Delivering(b)' => held'[b] \in Settled
    <3>1. CASE p.kind = "forward"
      <4>1. m \in Settled
        BY <1>3, <2>3, <3>1, HostReplyOwned
      <4>2. held'[b] = m
        BY <2>3, <3>1 DEF TakeHostReply, Hold, TypeOK, HandsOK
      <4> QED BY <4>1, <4>2
    <3>2. CASE p.kind # "forward"
      <4>1. p.kind = "swallow"
        BY <3>2 DEF TypeOK, TablesOK
      <4>2. pc'[b] \in {"read", "learn"}
        BY <1>4, <2>3, <4>1 DEF TakeHostReply, Hold, Goto, TypeOK, ControlOK, Link
      <4> QED BY <4>2 DEF Delivering
    <3> QED BY <3>1, <3>2
  <2>4. ASSUME IF IsReply(m) THEN b = "cont" /\ \A st \in merges : st.serial # m.reply
                             ELSE TRUE,
               held' = [held EXCEPT ![b] = m]
        PROVE  Delivering(b)' => held'[b] \in Settled
    <3>1. held'[b] = m
      BY <2>4 DEF TypeOK, HandsOK
    <3>2. CASE IsReply(m)
      BY <1>2, <1>3, <2>4, <3>1, <3>2, ContainerReplyOwned
    <3>3. CASE ~IsReply(m)
      BY <3>1, <3>3 DEF Delivering
    <3> QED BY <3>2, <3>3
  <2> QED
    <3>1. \/ UNCHANGED pc
          \/ \E st \in merges : IsReply(m) /\ st.serial = m.reply /\ TakeMerge(b, m, st)
          \/ /\ IsReply(m) /\ b = "host"
             /\ \E p \in hostPending : p.serial = m.reply /\ TakeHostReply(m, p)
          \/ /\ IF IsReply(m) THEN b = "cont" /\ \A st \in merges : st.serial # m.reply
                              ELSE TRUE
             /\ held' = [held EXCEPT ![b] = m]
      BY <1>1 DEF Take, Hold
    <3> QED BY <2>1, <2>2, <2>3, <2>4, <3>1
<1>7. \A c \in Bus : Delivering(c)' =>
        held'[c] \in Settled' \/ (Delivering(c) /\ held'[c] = held[c])
  BY <1>4, <1>5, <1>6 DEF Delivering
<1>8. \A i \in 1..Len(inbox') :
        inbox'[i] \in Settled' \/ (i \in 1..Len(inbox) /\ inbox'[i] = inbox[i])
  BY <1>4
<1> QED BY <1>7, <1>8, HandsKept

LEMMA NextHands ==
  ASSUME TypeOK, AnswerInv, PlannedDebts, RepliesOwned, TablesOwned, WritesOwned,
         PlanOwned, HandsOwned, [Next]_vars
  PROVE  HandsOwned'
<1>1. TypeOK' /\ RepliesOwned' /\ Grows
  BY NextTypeOK, NextReplies, StepsGrow
<1>2. CASE \E b \in Bus : Take(b)
  BY <1>1, <1>2, TakeOwned
<1>3. CASE \E b \in Bus : SendToClient(b)
  BY <1>1, <1>3, HandOverOwned
<1>4. CASE ReplyUnavailable
  BY <1>1, <1>4, UnavailableOwned
<1>5. CASE ~((\E b \in Bus : Take(b)) \/ (\E b \in Bus : SendToClient(b)) \/ ReplyUnavailable)
  <2>1. inbox' = inbox
    BY <1>5 DEF Next, Setup, AuthenticateClient, ConnectContainer, ConnectHost, Dispatch,
         ReadClient, WriteHostCopy, SendToHost, WriteContainer, Upstream,
         RememberHostUnique, Teardown, ReadFails, Close, CloseConn, CloseReturns, Finish,
         Environment, ClientSend, BusReply, BusEmit, Drop, Rest, vars
  <2>2. \A b \in Bus : Delivering(b)' => Delivering(b) /\ held'[b] = held[b]
    BY <1>5, OthersDeliver
  <2> QED BY <1>1, <2>1, <2>2, HandsKept
<1> QED BY <1>2, <1>3, <1>4, <1>5
\* Entries that were there are still about the same messages.
LEMMA TablesKept ==
  ASSUME TypeOK, AnswerInv, TablesOwned, Grows,
         \A p \in hostPending' : p \in hostPending \/
           (p.kind = "forward" => ~ /\ sent'[p.serial].dest = DBus
                                    /\ sent'[p.serial].member \in {"Hello", "AddMatch", "ListNames"}),
         \A st \in merges' : st \in merges \/
           /\ sent'[st.serial].dest = DBus /\ sent'[st.serial].member = "ListNames"
           /\ \A b \in Bus : st.part[b] \subseteq replies'[b]
  PROVE  TablesOwned'
<1>1. /\ \A s \in 1..nread : sent'[s] = sent[s]
      /\ \A b \in Bus : replies[b] \subseteq replies'[b]
  BY Asked DEF Grows
<1>2. /\ \A p \in hostPending : p.serial \in 1..nread
      /\ \A st \in merges : st.serial \in 1..nread
  BY DEF AnswerInv, TablesOnce
<1>3. ASSUME NEW p \in hostPending', p.kind = "forward"
      PROVE  ~(sent'[p.serial].dest = DBus
               /\ sent'[p.serial].member \in {"Hello", "AddMatch", "ListNames"})
  BY <1>1, <1>2, <1>3 DEF TablesOwned
<1>4. ASSUME NEW st \in merges'
      PROVE  /\ sent'[st.serial].dest = DBus /\ sent'[st.serial].member = "ListNames"
             /\ \A b \in Bus : st.part[b] \subseteq replies'[b]
  BY <1>1, <1>2, <1>4 DEF TablesOwned
<1> QED BY <1>3, <1>4 DEF TablesOwned

\* A note is forwarded, or a merge opened, only by what is planned so.
LEMMA ReadTables ==
  ASSUME TypeOK, AnswerInv, TablesOwned, Grows, ReadClient
  PROVE  TablesOwned'
<1> DEFINE s == nread + 1
           plan == Plan(sent[s])
           note  == [serial |-> s, kind |-> plan, member |-> sent[s].member]
           entry == [serial |-> s, part |-> [b \in Bus |-> {}]]
<1>1. /\ plan = "forward" /\ IsCall(sent[s]) =>
           ~(sent[s].dest = DBus /\ sent[s].member \in {"Hello", "AddMatch", "ListNames"})
      /\ plan = "merge" => sent[s].dest = DBus /\ sent[s].member = "ListNames"
  BY DEF Plan, IsCall
<1>2. sent' = sent
  BY DEF ReadClient, envVars
<1>3. /\ note.serial = s /\ note.kind = plan
      /\ entry.serial = s /\ \A b \in Bus : entry.part[b] = {}
  OBVIOUS
<1>4. /\ \A p \in hostPending' : p \in hostPending \/
           (p = note /\ (plan = "swallow" \/ (plan = "forward" /\ IsCall(sent[s]))))
      /\ \A st \in merges' : st \in merges \/ (st = entry /\ plan = "merge")
  BY DEF ReadClient, NoteHostPending, NoteMerge
<1> HIDE DEF s, plan, note, entry
<1> QED BY <1>1, <1>2, <1>3, <1>4, TablesKept

\* A merge gets the reply that was read.
LEMMA TakeTables ==
  ASSUME TypeOK, AnswerInv, RepliesOwned, TablesOwned, Grows, NEW b \in Bus, Take(b)
  PROVE  TablesOwned'
<1>1. PICK m : m = Head(wire[b])
  OBVIOUS
<1>2. IsReply(m) => m \in replies[b]
  <2>1. wire[b] \in Seq(Message) /\ wire[b] # <<>>
    BY DEF Take, TypeOK, TrafficOK
  <2>2. PICK q \in Seq(Message) : q = wire[b] /\ q # <<>>
    BY <2>1
  <2>3. m = q[1] /\ 1 \in 1..Len(q)
    BY <1>1, <2>2
  <2> QED BY <2>2, <2>3 DEF RepliesOwned
<1>3. UNCHANGED <<sent, replies>>
  BY DEF Take
<1>4. ASSUME NEW st \in merges, IsReply(m), TakeMerge(b, m, st), UNCHANGED hostPending
      PROVE  TablesOwned'
  <2> DEFINE part  == [st.part EXCEPT ![b] = {m}]
             entry == [st EXCEPT !.part = part]
  <2>1. /\ st \in [serial: Nat, part: [Bus -> SUBSET Message]]
        /\ part[b] = {m} /\ \A c \in Bus \ {b} : part[c] = st.part[c]
    BY DEF TypeOK, TablesOK
  <2>2. entry.serial = st.serial /\ entry.part = part
    BY <2>1
  <2>3. \A x \in merges' : x \in merges \/ x = entry
    BY <1>4 DEF TakeMerge, Forget
  <2> HIDE DEF part, entry
  <2>4. \A c \in Bus : entry.part[c] \subseteq replies'[c]
    BY <1>2, <1>3, <1>4, <2>1, <2>2 DEF TablesOwned
  <2>5. sent'[entry.serial].dest = DBus /\ sent'[entry.serial].member = "ListNames"
    BY <1>3, <2>2 DEF TablesOwned
  <2> QED BY <1>4, <2>3, <2>4, <2>5, TablesKept
<1>5. ASSUME hostPending' \subseteq hostPending, merges' = merges
      PROVE  TablesOwned'
  BY <1>5, TablesKept
<1> QED BY <1>1, <1>4, <1>5 DEF Take, TakeHostReply

LEMMA NextTables ==
  ASSUME TypeOK, AnswerInv, RepliesOwned, TablesOwned, [Next]_vars
  PROVE  TablesOwned'
<1>1. Grows
  BY StepsGrow
<1>2. CASE ReadClient
  BY <1>1, <1>2, ReadTables
<1>3. CASE \E b \in Bus : Take(b)
  BY <1>1, <1>3, TakeTables
<1>4. CASE ~(ReadClient \/ \E b \in Bus : Take(b))
  <2>1. hostPending' \subseteq hostPending /\ merges' \subseteq merges
    BY <1>4 DEF Next, Setup, AuthenticateClient, ConnectContainer, ConnectHost, Dispatch,
         WriteHostCopy, SendToHost, WriteContainer, ReplyUnavailable, Upstream, SendToClient,
         RememberHostUnique, Teardown, ReadFails, Close, CloseConn, CloseReturns, Finish,
         Environment, ClientSend, BusReply, BusEmit, Drop, Rest, vars, goVars, Forget
  <2> QED BY <1>1, <2>1, TablesKept
<1> QED BY <1>2, <1>3, <1>4

\* What is planned for a call, by the one who owns what it is about.
LEMMA PlanFits ==
  ASSUME NEW r
  PROVE  LET plan == Plan(r) IN
         /\ plan \in {"swallow", "merge", "broadcast", "cont"} /\ r.type = "call"
              => r.dest \notin HostTalk
         /\ plan \in {"swallow", "merge", "broadcast", "cont"} /\ AsksHost(r) => ~HostConn
         /\ plan \in {"swallow", "broadcast", "forward"} => ~ListCall(r)
         /\ plan = "unavailable" => r.dest # DBus
<1>1. DBus \notin HostTalk
  BY SessionAssumption DEF Names
<1> QED BY <1>1 DEF Plan, ListCall, AsksHost, routeDestination, RouteDestination,
                    RouteOwnership

LEMMA NextPlan ==
  ASSUME TypeOK, AnswerInv, PlanOwned, [Next]_vars
  PROVE  PlanOwned'
<1>1. CASE ReadClient
  <2>1. /\ pc'["client"] = Plan(sent[nread + 1]) /\ nread' = nread + 1 /\ sent' = sent
        /\ HostConn' = HostConn
    BY <1>1 DEF ReadClient, Goto, envVars, closeVars, HostConn, TypeOK, ControlOK, Link
  <2>2. PICK r : r = sent[nread + 1]
    OBVIOUS
  <2>3. AsksHost(r)' = AsksHost(r) /\ ListCall(r)' = ListCall(r)
    BY DEF AsksHost, ListCall, RouteDestination, RouteOwnership
  <2> QED BY <2>1, <2>2, PlanFits DEF PlanOwned
<1>2. CASE WriteHostCopy
  <2>1. /\ pc["client"] \in {"swallow", "merge", "broadcast"} /\ pc'["client"] = "cont"
        /\ nread' = nread /\ sent' = sent /\ HostConn' = HostConn
    BY <1>2 DEF WriteHostCopy, Goto, envVars, closeVars, HostConn, TypeOK, ControlOK, Link
  <2> QED BY <2>1 DEF PlanOwned
<1>3. CASE ~(ReadClient \/ WriteHostCopy)
  <2>1. /\ nread' = nread
        /\ pc'["client"] \in Busy => pc'["client"] = pc["client"]
    <3> USE DEF TypeOK, ControlOK, Goto, Hold, Busy, Link, Bus
    <3>1. CASE Setup
      BY <3>1 DEF Setup, AuthenticateClient, ConnectContainer, ConnectHost
    <3>2. CASE SendToHost \/ WriteContainer \/ ReplyUnavailable
      BY <3>2 DEF SendToHost, WriteContainer, ReplyUnavailable
    <3>3. CASE RememberHostUnique \/ Finish \/ Environment \/ Rest \/ UNCHANGED vars
      BY <3>3 DEF RememberHostUnique, Finish, Environment, ClientSend, BusReply, BusEmit,
                  Drop, Rest, vars
    <3>4. ASSUME NEW l \in Link, Teardown(l)
          PROVE  /\ nread' = nread
                 /\ pc'["client"] \in Busy => pc'["client"] = pc["client"]
      BY <3>4 DEF Teardown, ReadFails, Close, CloseConn, CloseReturns, AfterClose
    <3>5. ASSUME NEW b \in Bus, Upstream(b)
          PROVE  /\ nread' = nread
                 /\ pc'["client"] = pc["client"]
      <4>1. CASE SendToClient(b)
        BY <4>1 DEF SendToClient
      <4>2. CASE Take(b)
        BY <4>2 DEF Take, TakeMerge, TakeHostReply
      <4> QED BY <3>5, <4>1, <4>2 DEF Upstream
    <3> QED BY <1>3, <3>1, <3>2, <3>3, <3>4, <3>5 DEF Next, Dispatch
  <2>2. pc'["client"] \in Busy => sent'[nread] = sent[nread] /\ HostConn' = HostConn
    BY <2>1, Asked, StepsGrow DEF Grows, Serials
  <2>3. CASE pc'["client"] \in Busy
    BY <2>1, <2>2, <2>3 DEF PlanOwned
  <2>4. CASE pc'["client"] \notin Busy
    BY <2>4 DEF PlanOwned, Busy
  <2> QED BY <2>3, <2>4
<1> QED BY <1>1, <1>2, <1>3
\* A reply that was read is not sent again.
LEMMA ReadStaysRead ==
  ASSUME TypeOK, AnswerInv, [Next]_vars, NEW c \in Bus
  PROVE  Replied(c) \ OnWire(c) \subseteq Replied(c)' \ OnWire(c)'
<1>0. wire \in [Bus -> Seq(Message)] /\ replies \in [Bus -> SUBSET Message]
  BY DEF TypeOK, TrafficOK
<1>1. CASE UNCHANGED <<wire, replies>>
  BY <1>1 DEF Replied, OnWire
<1>2. ASSUME NEW b \in Bus, Take(b)
      PROVE  Replied(c) \ OnWire(c) \subseteq Replied(c)' \ OnWire(c)'
  <2>1. PICK m : m = Head(wire[b])
    OBVIOUS
  <2>2. /\ OnWire(b)' = IF IsReply(m) THEN OnWire(b) \ {m.reply} ELSE OnWire(b)
        /\ \A d \in Bus \ {b} : OnWire(d)' = OnWire(d)
        /\ \A d \in Bus : Replied(d)' = Replied(d)
    BY <1>2, <2>1, TakenReply
  <2> QED BY <2>2
<1>3. ASSUME NEW b \in Bus, NEW m \in Message,
             wire' = [wire EXCEPT ![b] = Append(@, m)],
             replies' = IF IsReply(m) THEN [replies EXCEPT ![b] = @ \cup {m}] ELSE replies,
             IsReply(m) => m.reply \notin Replied(b)
      PROVE  Replied(c) \ OnWire(c) \subseteq Replied(c)' \ OnWire(c)'
  <2>1. wire[b] \in Seq(Message)
    BY <1>0
  <2>2. /\ Replied(b)' = IF IsReply(m) THEN Replied(b) \cup {m.reply} ELSE Replied(b)
        /\ OnWire(b)'  = IF IsReply(m) THEN OnWire(b) \cup {m.reply} ELSE OnWire(b)
    BY <1>0, <1>3, <2>1, RepliesInAppend DEF Replied, OnWire
  <2>3. \A d \in Bus \ {b} : Replied(d)' = Replied(d) /\ OnWire(d)' = OnWire(d)
    BY <1>0, <1>3 DEF Replied, OnWire
  <2> QED BY <1>3, <2>2, <2>3
<1>4. CASE \/ \E b \in Bus : \E s \in Serials : BusReply(b, s)
           \/ \E b \in Bus : BusEmit(b)
  BY <1>3, <1>4, BusSends DEF Sends
<1>5. \/ UNCHANGED <<wire, replies>> \/ (\E b \in Bus : Take(b))
      \/ (\E b \in Bus : \E s \in Serials : BusReply(b, s)) \/ (\E b \in Bus : BusEmit(b))
  BY DEF Next, Setup, AuthenticateClient, ConnectContainer, ConnectHost, Dispatch, ReadClient,
         WriteHostCopy, SendToHost, WriteContainer, ReplyUnavailable, Upstream,
         SendToClient, RememberHostUnique, Teardown, ReadFails, Close, CloseConn,
         CloseReturns, Finish, Environment, ClientSend, Drop, Rest, vars, envVars
<1> QED BY <1>1, <1>2, <1>4, <1>5

\* The lists that are merged, or that the container has answered.
Listed == Merged \cup (Replied("cont") \ OnWire("cont"))

LEMMA WritesKept ==
  ASSUME TypeOK, AnswerInv, PlannedDebts, PlanOwned, WritesOwned, Grows,
         nread \in wrote'["cont"] \ wrote["cont"] => pc["client"] = "cont",
         nread \in wrote'["host"] \ wrote["host"] =>
           pc["client"] \in {"swallow", "merge", "broadcast", "forward"} /\ merges' = merges,
         \A s \in wrote["host"] : s \in Listed => s \in Listed'
  PROVE  WritesOwned'
<1>1. \A s \in 1..nread : sent'[s] = sent[s]
  BY Asked DEF Grows
<1>2. /\ \A b \in Bus : wrote[b] \subseteq 1..nread
      /\ pc["client"] \in Busy => nread \in 1..nread
  BY Asked DEF Serials
<1>3. ASSUME NEW s \in wrote'["cont"], sent'[s].type = "call"
      PROVE  sent'[s].dest \notin HostTalk /\ (AsksHost(sent'[s]) => ~HostConn')
  <2>0. HostConn' = HostConn
    <3>1. nread > 0
      BY <1>2, <1>3 DEF Grows, Bus
    <3> QED BY <3>1 DEF Grows
  <2>1. CASE s \in wrote["cont"]
    BY <1>1, <1>2, <1>3, <2>0, <2>1 DEF WritesOwned, Bus
  <2>2. CASE s \notin wrote["cont"]
    <3>1. s = nread /\ pc["client"] = "cont"
      BY <2>2 DEF Grows, Bus
    <3> QED BY <1>1, <1>2, <1>3, <2>0, <3>1 DEF PlanOwned, Busy
  <2> QED BY <2>1, <2>2
<1>4. ASSUME NEW s \in wrote'["host"], ListCall(sent'[s])
      PROVE  s \in Listed'
  <2>1. CASE s \in wrote["host"]
    <3>1. ListCall(sent[s])
      BY <1>1, <1>2, <1>4, <2>1 DEF Bus
    <3>2. s \in Listed
      BY <2>1, <3>1 DEF WritesOwned, Listed, Merged
    <3> QED BY <2>1, <3>2
  <2>2. CASE s \notin wrote["host"]
    <3>1. /\ s = nread /\ pc["client"] \in {"swallow", "merge", "broadcast", "forward"}
          /\ merges' = merges
      BY <2>2 DEF Grows, Bus
    <3>2. ListCall(sent[s])
      BY <1>1, <1>2, <1>4, <3>1 DEF Busy
    <3>3. pc["client"] = "merge"
      BY <3>1, <3>2 DEF PlanOwned
    <3>4. nread \in Merged
      BY <3>3 DEF PlannedDebts, Merged
    <3> QED BY <3>1, <3>4 DEF Listed, Merged
  <2> QED BY <2>1, <2>2
<1>5. ASSUME NEW s \in wrote'["cont"], AsksHost(sent'[s])
      PROVE  sent'[s].type = "call"
  BY <1>5 DEF AsksHost
<1> QED BY <1>3, <1>4, <1>5 DEF WritesOwned, Listed, Merged

\* A merge is over when the container's part, too, has been read.
LEMMA TakeListed ==
  ASSUME TypeOK, AnswerInv, NEW b \in Bus, Take(b)
  PROVE  Listed \subseteq Listed'
<1>1. PICK m : m = Head(wire[b])
  OBVIOUS
<1>2. /\ OnWire(b)' = IF IsReply(m) THEN OnWire(b) \ {m.reply} ELSE OnWire(b)
      /\ IsReply(m) => m.reply \in OnWire(b)
      /\ \A c \in Bus \ {b} : OnWire(c)' = OnWire(c)
      /\ \A c \in Bus : Replied(c)' = Replied(c)
  BY <1>1, TakenReply
<1>3. Replied("cont") \ OnWire("cont") \subseteq Replied("cont")' \ OnWire("cont")'
  BY <1>2 DEF Bus
<1>4. ASSUME NEW st \in merges, IsReply(m), st.serial = m.reply, TakeMerge(b, m, st)
      PROVE  Listed \subseteq Listed'
  <2> DEFINE part  == [st.part EXCEPT ![b] = {m}]
             entry == [st EXCEPT !.part = part]
  <2>1. /\ st \in [serial: Nat, part: [Bus -> SUBSET Message]]
        /\ \A c \in Bus \ {b} : part[c] = st.part[c]
    BY DEF TypeOK, TablesOK
  <2>2. entry.serial = m.reply
    BY <1>4, <2>1
  <2>3. Forget(merges, m.reply) \subseteq merges'
        /\ ((\E o \in Bus : part[o] = {}) => entry \in merges')
    BY <1>4 DEF TakeMerge
  <2>4. \A s \in Merged : s \in Merged' \/ s = m.reply
    BY <2>3 DEF Merged, Forget
  <2> HIDE DEF part, entry
  <2>5. CASE \E o \in Bus : part[o] = {}
    <3>1. m.reply \in Merged'
      BY <2>2, <2>3, <2>5 DEF Merged
    <3> QED BY <1>3, <2>4, <3>1 DEF Listed
  <2>6. CASE ~ \E o \in Bus : part[o] = {}
    <3>1. m.reply \in Replied("cont")' \ OnWire("cont")'
      <4>1. CASE b = "cont"
        BY <1>2, <1>4, <4>1, Asked
      <4>2. CASE b = "host"
        <5>1. st.part["cont"] # {}
          BY <2>1, <2>6, <4>2 DEF Bus
        <5>2. m.reply \in Replied("cont") \ OnWire("cont")
          BY <1>4, <5>1, Asked DEF Bus
        <5> QED BY <1>3, <5>2
      <4> QED BY <4>1, <4>2 DEF Bus
    <3> QED BY <1>3, <2>4, <3>1 DEF Listed
  <2> QED BY <2>5, <2>6
<1>5. CASE merges' = merges
  BY <1>3, <1>5 DEF Listed, Merged
<1> QED BY <1>1, <1>4, <1>5 DEF Take

LEMMA NextWrites ==
  ASSUME TypeOK, AnswerInv, PlannedDebts, PlanOwned, WritesOwned, [Next]_vars
  PROVE  WritesOwned'
<1>0. Grows /\ wrote \in [Bus -> SUBSET (1..nread)]
      /\ Replied("cont") \ OnWire("cont") \subseteq Replied("cont")' \ OnWire("cont")'
  BY StepsGrow, ReadStaysRead DEF TypeOK, TrafficOK, Bus
<1>1. CASE \E b \in Bus : Take(b)
  <2>1. wrote' = wrote /\ Listed \subseteq Listed'
    BY <1>1, TakeListed DEF Take
  <2> QED BY <1>0, <2>1, WritesKept
<1>2. CASE WriteHostCopy
  <2>1. wrote'["cont"] = wrote["cont"]
    BY <1>0, <1>2 DEF WriteHostCopy, Bus
  <2>2. nread \in wrote'["host"] \ wrote["host"] =>
          pc["client"] \in {"swallow", "merge", "broadcast", "forward"} /\ merges' = merges
    BY <1>2 DEF WriteHostCopy
  <2>3. nread \notin wrote["host"]
    BY <1>2 DEF WriteHostCopy, PlannedDebts, Busy
  <2>4. \A s \in Merged : s \in Merged' \/ s = nread
    BY <1>2 DEF WriteHostCopy, Merged, Forget
  <2>5. \A s \in wrote["host"] : s \in Listed => s \in Listed'
    BY <1>0, <2>3, <2>4 DEF Listed
  <2> QED BY <1>0, <2>1, <2>2, <2>5, WritesKept
<1>3. CASE ReadClient
  <2>1. wrote' = wrote
    BY <1>3 DEF ReadClient
  <2>2. \A st \in merges : st.serial # nread + 1
    BY Asked DEF AnswerInv, TablesOnce
  <2>3. merges \subseteq merges'
    BY <1>3, <2>2 DEF ReadClient, NoteMerge
  <2>4. Listed \subseteq Listed'
    BY <1>0, <2>3 DEF Listed, Merged
  <2> QED BY <1>0, <2>1, <2>4, WritesKept
<1>4. CASE SendToHost \/ WriteContainer
  <2>1. merges' = merges
    BY <1>4 DEF SendToHost, WriteContainer, goVars
  <2>2. /\ nread \in wrote'["cont"] \ wrote["cont"] => pc["client"] = "cont"
        /\ nread \in wrote'["host"] \ wrote["host"] => pc["client"] = "forward"
    BY <1>0, <1>4 DEF SendToHost, WriteContainer, Bus
  <2>3. Listed \subseteq Listed'
    BY <1>0, <2>1 DEF Listed, Merged
  <2> QED BY <1>0, <2>1, <2>2, <2>3, WritesKept
<1>5. CASE ~(\/ \E b \in Bus : Take(b)
             \/ WriteHostCopy \/ ReadClient \/ SendToHost \/ WriteContainer)
  <2>1. merges' = merges /\ wrote' = wrote
    BY <1>5 DEF Next, Setup, AuthenticateClient, ConnectContainer, ConnectHost, Dispatch,
         ReplyUnavailable, Upstream, SendToClient, RememberHostUnique, Teardown, ReadFails,
         Close, CloseConn, CloseReturns, Finish, Environment, ClientSend, BusReply, BusEmit,
         Drop, Rest, vars, goVars
  <2>2. Listed \subseteq Listed'
    BY <1>0, <2>1 DEF Listed, Merged
  <2> QED BY <1>0, <2>1, <2>2, WritesKept
<1> QED BY <1>1, <1>2, <1>3, <1>4, <1>5

LEMMA InitOwnerInv == Init => OwnerInv
<1> SUFFICES ASSUME Init PROVE OwnerInv
  OBVIOUS
<1>1. RepliesOwned /\ TablesOwned /\ WritesOwned
  BY DEF Init, RepliesOwned, TablesOwned, WritesOwned, Bus
<1>2. PlanOwned /\ HandsOwned
  BY DEF Init, PlanOwned, HandsOwned, AnsweredByOwner, Delivering, Link, Bus
<1> QED BY <1>1, <1>2 DEF OwnerInv

LEMMA NextOwnerInv ==
  TypeOK /\ AnswerInv /\ DebtsInv /\ OwnerInv /\ [Next]_vars => OwnerInv'
BY NextReplies, NextTables, NextWrites, NextPlan, NextHands DEF OwnerInv, DebtsInv

\* Whatever the interleaving of two buses and three goroutines, what answers a call
\* is the reply of the bus that owns what it asked, and the answer to a list of names
\* is made of every list the buses gave (DispatchClientMessage, handleDBusManagement,
\* handleUpstream and takeMerge).
THEOREM SessionAnswersOwned == Spec => []AnsweredByOwner
<1>1. TypeOK /\ AnswerInv /\ DebtsInv /\ OwnerInv /\ [Next]_vars
        => (TypeOK /\ AnswerInv /\ DebtsInv /\ OwnerInv)'
  BY NextTypeOK, NextAnswerInv, NextDebtsInv, NextOwnerInv
<1>2. Init => TypeOK /\ AnswerInv /\ DebtsInv /\ OwnerInv
  BY InitTypeOK, InitAnswerInv, InitDebts, InitOwnerInv
<1>3. OwnerInv => AnsweredByOwner
  BY DEF OwnerInv, HandsOwned
<1> QED BY <1>1, <1>2, <1>3, PTL DEF Spec
=============================================================================
