--------------------------- MODULE Bridge_proofs ---------------------------
(***************************************************************************)
(* Proofs about Bridge: its types, that a connection gets one answer, and  *)
(* that what a client may conclude from it is true.                        *)
(***************************************************************************)
EXTENDS Bridge, SequenceTheorems, TLAPS

Inv == TypeOK /\ BridgeInv

\* The parts of the invariant about one connection.
Knows(c) ==
  /\ HandlerKnows(c) /\ AnswerKnows(c)
  /\ Len(reply[c]) <= 1
  /\ cpc[c] = "success" =>
       IF request[c].wait THEN cmd[c] = "ok" /\ waited[c] ELSE cmd[c] # "none"
  /\ cpc[c] = "refused" => cmd[c] = "none" \/ (request[c].wait /\ cmd[c] = "bad")

LEMMA InvByClient == BridgeInv <=> \A c \in Clients : Knows(c)
  BY DEF BridgeInv, Knows, OneAnswer, ClientLearnsTruth

\* An answer is written where none has been.
LEMMA FirstAnswer ==
  ASSUME NEW q \in Seq(Answer), q = <<>>, NEW r \in Answer
  PROVE  /\ Append(q, r) \in Seq(Answer)
         /\ Append(q, r) # <<>>
         /\ Len(Append(q, r)) = 1
         /\ Head(Append(q, r)) = r
  OBVIOUS

LEMMA InitOK == Init => Inv
<1> SUFFICES ASSUME Init PROVE Inv
  OBVIOUS
<1>1. TypeOK
  <2>1. <<>> \in Seq(Answer)
    OBVIOUS
  <2>2. reply \in [Clients -> Seq(Answer)]
    BY <2>1, Zenon DEF Init
  <2> QED
    BY <2>2 DEF Init, TypeOK
<1>2. ASSUME NEW c \in Clients PROVE Knows(c)
  BY DEF Init, Knows, HandlerKnows, AnswerKnows
<1> QED
  BY <1>1, <1>2, InvByClient DEF Inv

-----------------------------------------------------------------------------
\* A step of c's client or handler leaves the other connections as they are.
Same(d) ==
  /\ conn'[d] = conn[d] /\ cpc'[d] = cpc[d] /\ request'[d] = request[d] /\ handler'[d] = handler[d]
  /\ reply'[d] = reply[d] /\ cmd'[d] = cmd[d] /\ waited'[d] = waited[d]

LEMMA SameKnows ==
  ASSUME NEW d \in Clients, Same(d), Knows(d)
  PROVE  Knows(d)'
  BY DEF Same, Knows, HandlerKnows, AnswerKnows

OneClientStep(c) ==
  \/ Client(c) \/ Kill(c) \/ Accept(c) \/ Handler(c) \/ Deadline(c) \/ Wait(c)
  \/ CommandEnds(c)

LEMMA OthersSame ==
  ASSUME TypeOK, NEW c \in Clients, OneClientStep(c), NEW d \in Clients, d # c
  PROVE  Same(d)
  BY DEF TypeOK, OneClientStep, Client, Handler, Stat, Dial, Encode, Decode, Kill,
     ClientGoto, HandlerGoto, Accept, CheckPeer, ReadRequest, Deadline, StartCommand,
     Wait, WriteAnswer, WriteError, CloseConn, CommandEnds, Same, clientVars, cmdVars,
     daemonVars

LEMMA StepTypes == TypeOK /\ [Next]_vars => TypeOK'
<1> SUFFICES ASSUME TypeOK, [Next]_vars PROVE TypeOK'
  OBVIOUS
<1> USE DEF TypeOK, clientVars, cmdVars, daemonVars, ClientGoto, HandlerGoto, Ended
<1>1. ASSUME NEW c \in Clients, Client(c) PROVE TypeOK'
  BY <1>1 DEF Client, Stat, Dial, Encode, Decode
<1>2. ASSUME NEW c \in Clients, Kill(c) \/ Accept(c) \/ Deadline(c) \/ Wait(c) \/ CommandEnds(c)
      PROVE  TypeOK'
  <2>1. CASE Kill(c)
    BY <2>1 DEF Kill
  <2>2. CASE Accept(c) \/ Deadline(c)
    BY <2>2 DEF Accept, Deadline
  <2>3. CASE Wait(c)
    BY <2>3 DEF Wait
  <2>4. CASE CommandEnds(c)
    BY <2>4 DEF CommandEnds
  <2> QED
    BY <1>2, <2>1, <2>2, <2>3, <2>4
<1>3. ASSUME NEW c \in Clients, Handler(c) PROVE TypeOK'
  <2>1. CASE CheckPeer(c) \/ ReadRequest(c) \/ StartCommand(c) \/ CloseConn(c)
    BY <2>1 DEF CheckPeer, ReadRequest, StartCommand, CloseConn
  <2>2. CASE WriteAnswer(c) \/ WriteError(c)
    <3>1. Response(c) \in Answer /\ Failure \in Answer
      BY DEF Response, Answer
    <3>2. reply' \in [Clients -> Seq(Answer)]
      <4>1. ASSUME NEW r \in Answer
            PROVE  [reply EXCEPT ![c] = Append(@, r)] \in [Clients -> Seq(Answer)]
        OBVIOUS
      <4> QED
        BY <2>2, <3>1, <4>1, Zenon DEF WriteAnswer, WriteError
    <3> QED
      BY <2>2, <3>2 DEF WriteAnswer, WriteError
  <2> QED
    BY <1>3, <2>1, <2>2 DEF Handler
<1>4. CASE RemoveOld \/ Listen \/ CloseListener
  <2>1. CASE RemoveOld
    <3>1. runs' \in Nat
      BY <2>1 DEF RemoveOld
    <3> QED
      BY <2>1, <3>1, Zenon DEF RemoveOld
  <2>3. CASE Listen
    BY <2>3 DEF Listen
  <2>2. CASE CloseListener
    BY <2>2 DEF CloseListener
  <2> QED
    BY <1>4, <2>1, <2>2, <2>3
<1>5. CASE Exit \/ Crash
  BY <1>5 DEF Exit, Crash, Gone
<1>6. CASE Rest \/ UNCHANGED vars
  BY <1>6 DEF Rest, vars
<1> QED
  BY <1>1, <1>2, <1>3, <1>4, <1>5, <1>6 DEF Next

LEMMA StepKnows == Inv /\ [Next]_vars => BridgeInv'
<1> SUFFICES ASSUME Inv, [Next]_vars PROVE BridgeInv'
  OBVIOUS
<1> USE DEF Inv
<1>0. TypeOK'
  BY StepTypes
<1>1. \A c \in Clients : Knows(c)
  BY InvByClient
<1>2. ASSUME NEW c \in Clients, OneClientStep(c) PROVE Knows(c)'
  <2>0. Knows(c)
    BY <1>1
  <2> USE DEF TypeOK, clientVars, cmdVars, daemonVars, ClientGoto, HandlerGoto, Ended,
          Knows, HandlerKnows
  <2>1. CASE Stat(c) \/ Dial(c) \/ Encode(c) \/ Kill(c)
    BY <2>0, <2>1 DEF Stat, Dial, Encode, Kill, AnswerKnows
  <2>2. CASE Decode(c)
    BY <2>0, <2>2 DEF Decode, AnswerKnows
  <2>3. CASE Accept(c) \/ CheckPeer(c) \/ ReadRequest(c) \/ Deadline(c) \/ CloseConn(c)
    <3>2. CASE Accept(c)
      <4>1. handler[c] = "none" /\ handler'[c] = "peer"
        BY <2>0, <3>2 DEF Accept
      <4> QED
        BY <2>0, <3>2, <4>1 DEF Accept, AnswerKnows
    <3>3. CASE CheckPeer(c) \/ Deadline(c)
      BY <2>0, <3>3 DEF CheckPeer, Deadline, AnswerKnows
    <3>4. CASE ReadRequest(c)
      BY <2>0, <3>4 DEF ReadRequest, AnswerKnows
    <3>5. CASE CloseConn(c)
      BY <2>0, <3>5 DEF CloseConn, AnswerKnows
    <3> QED
      BY <2>3, <3>2, <3>3, <3>4, <3>5
  <2>4. CASE StartCommand(c)
    <3>1. CASE request[c].what = "missing"
      BY <2>0, <2>4, <3>1 DEF StartCommand, AnswerKnows
    <3>2. CASE request[c].what = "program"
      <4>1. reply'[c] = <<>>
        BY <2>0, <2>4 DEF StartCommand
      <4>2. HandlerKnows(c)'
        BY <2>0, <2>4, <3>2, <4>1 DEF StartCommand
      <4>3. cpc'[c] = cpc[c] /\ cmd[c] = "none" /\ cmd'[c] = "running" /\ waited'[c] = waited[c]
            /\ request'[c] = request[c]
        BY <2>0, <2>4, <3>2 DEF StartCommand
      <4>4. cpc[c] \notin {"success", "refused"}
        BY <2>0, <2>4 DEF StartCommand, AnswerKnows
      <4>5. AnswerKnows(c)' /\ Len(reply'[c]) <= 1
        BY <4>1, <4>3, <4>4 DEF AnswerKnows
      <4> QED
        BY <4>2, <4>3, <4>4, <4>5
    <3> QED
      BY <2>4, <3>1, <3>2 DEF StartCommand
  <2>5. CASE Wait(c) \/ CommandEnds(c)
    BY <2>0, <2>5 DEF Wait, CommandEnds, AnswerKnows
  <2>6. CASE WriteAnswer(c)
    <3>1. CASE cpc[c] \in Ended
      BY <2>0, <2>6, <3>1 DEF WriteAnswer, AnswerKnows
    <3>2. CASE cpc[c] \notin Ended
      <4>1. Response(c) \in Answer /\ reply[c] = <<>>
        BY <2>0, <2>6 DEF WriteAnswer, Response, Answer
      <4>2. /\ reply'[c] = Append(reply[c], Response(c)) /\ handler'[c] = "close"
            /\ UNCHANGED <<clientVars, cmdVars, conn>>
        BY <2>6, <3>2 DEF WriteAnswer
      <4>3. reply'[c] # <<>> /\ Len(reply'[c]) = 1 /\ Head(reply'[c]) = Response(c)
        BY <4>1, <4>2, FirstAnswer
      <4>4. AnswerKnows(c)'
        BY <2>0, <2>6, <4>2, <4>3 DEF AnswerKnows, Response, WriteAnswer, Success, Failure
      <4> QED
        BY <2>0, <2>6, <4>2, <4>3, <4>4 DEF WriteAnswer
    <3> QED
      BY <3>1, <3>2
  <2>7. CASE WriteError(c)
    <3>1. CASE cpc[c] \in Ended
      BY <2>0, <2>7, <3>1 DEF WriteError, AnswerKnows
    <3>2. CASE cpc[c] \notin Ended
      <4>1. /\ Failure \in Answer /\ reply[c] = <<>> /\ cmd[c] = "none"
            /\ handler[c] = "refuse"
        BY <2>0, <2>7, <3>2 DEF WriteError, Answer
      <4>2. /\ reply'[c] = Append(reply[c], Failure) /\ handler'[c] = "close"
            /\ UNCHANGED <<clientVars, cmdVars, conn>>
        BY <2>7, <3>2 DEF WriteError
      <4>3. reply'[c] # <<>> /\ Len(reply'[c]) = 1 /\ Head(reply'[c]) = Failure
        BY <4>1, <4>2, FirstAnswer
      <4>4. AnswerKnows(c)'
        BY <4>1, <4>2, <4>3 DEF AnswerKnows, Success, Failure
      <4>5. HandlerKnows(c)'
        BY <2>0, <3>2, <4>1, <4>2
      <4>6. cpc'[c] \notin {"success", "refused"}
        BY <3>2, <4>2
      <4> QED
        BY <4>3, <4>4, <4>5, <4>6
    <3> QED
      BY <3>1, <3>2
  <2> QED
    BY <1>2, <2>1, <2>2, <2>3, <2>4, <2>5, <2>6, <2>7 DEF OneClientStep, Client, Handler
<1>3. ASSUME NEW c \in Clients, OneClientStep(c), NEW d \in Clients PROVE Knows(d)'
  BY <1>1, <1>2, <1>3, OthersSame, SameKnows
<1>4. ASSUME NEW d \in Clients,
             RemoveOld \/ Listen \/ Rest \/ UNCHANGED vars
      PROVE  Knows(d)'
  <2>1. Same(d)
    BY <1>4 DEF RemoveOld, Listen, Rest, vars, Same, clientVars, cmdVars
  <2> QED
    BY <1>1, <2>1, SameKnows
<1>5. ASSUME NEW d \in Clients, Exit \/ Crash \/ CloseListener PROVE Knows(d)'
  <2>1. Knows(d)
    BY <1>1
  <2>2. /\ conn'[d] = conn[d] \/ (conn[d] # "none" /\ conn'[d] = "closed")
        /\ UNCHANGED <<clientVars, reply, cmdVars>>
    BY <1>5 DEF Exit, Crash, Gone, CloseListener, TypeOK
  <2>3. handler'[d] = handler[d] \/ (handler'[d] = "dead" /\ conn'[d] # "queued" /\ handler[d] # "none")
    BY <1>5, <2>1 DEF Exit, Crash, Gone, CloseListener, TypeOK, Over, Knows, HandlerKnows
  <2>4. handler'[d] = "dead" => conn'[d] \notin {"none", "queued"}
    BY <1>5, <2>1, <2>2, <2>3 DEF Knows, HandlerKnows
  <2>5. /\ handler'[d] \in {handler[d], "dead"}
        /\ UNCHANGED <<cpc, request, cmd, waited, reply>>
    BY <2>2, <2>3 DEF clientVars, cmdVars
  <2>6. HandlerKnows(d)'
    BY <2>1, <2>2, <2>4, <2>5 DEF Knows, HandlerKnows
  <2>7. AnswerKnows(d)'
    BY <2>1, <2>5 DEF Knows, AnswerKnows
  <2> QED
    BY <2>1, <2>5, <2>6, <2>7 DEF Knows
<1>6. \A d \in Clients : Knows(d)'
  BY <1>3, <1>4, <1>5 DEF Next, OneClientStep
<1>7. (\A d \in Clients : Knows(d))' => BridgeInv'
  BY DEF BridgeInv, Knows, OneAnswer, ClientLearnsTruth
<1> QED
  BY <1>6, <1>7

LEMMA BridgeInvariance == Spec => []Inv
<1>1. Inv /\ [Next]_vars => Inv'
  BY StepTypes, StepKnows DEF Inv
<1> QED
  BY InitOK, <1>1, PTL DEF Spec

-----------------------------------------------------------------------------
\* The sockets, processes and goroutines stay where the code can have them
\* (host/bridge, container/client.go).
THEOREM BridgeTypeOK == Spec => []TypeOK
  BY BridgeInvariance, PTL DEF Inv

\* What a client concludes from its exit is true of its command, whatever is
\* killed and however late a request arrives (HandleRequest, BridgeRequest).
THEOREM BridgeTellsTruth == Spec => []ClientLearnsTruth
<1>1. Inv => ClientLearnsTruth
  BY DEF Inv, BridgeInv
<1> QED
  BY BridgeInvariance, <1>1, PTL

\* A connection gets one answer at most (HandleRequest, WriteError).
THEOREM BridgeAnswersOnce == Spec => []OneAnswer
<1>1. Inv => OneAnswer
  BY DEF Inv, BridgeInv
<1> QED
  BY BridgeInvariance, <1>1, PTL

\* What handlers and answers say at each place, on which the two rest.
THEOREM BridgeHandlersKnow == Spec => []BridgeInv
  BY BridgeInvariance, PTL DEF Inv
=============================================================================
