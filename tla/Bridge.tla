------------------------------- MODULE Bridge -------------------------------
(***************************************************************************)
(* The bridge: "lxg container request" asks the daemon of the host to run  *)
(* a command (container/client.go), and the daemon's bridge service        *)
(* accepts the connection, checks who asks, reads the request within ten   *)
(* seconds, runs the command and answers (host/bridge).  Each connection   *)
(* has a goroutine of its own, which nobody waits for when the daemon      *)
(* ends.                                                                   *)
(*                                                                         *)
(* A step is one system call of a client or of a handler.  The daemon is   *)
(* stopped, crashes and is started again; clients are killed or stall.     *)
(* How it makes and removes its socket step by step, beside its other      *)
(* services, is in HostListen.                                             *)
(***************************************************************************)
EXTENDS Naturals, Sequences, FiniteSets

CONSTANTS
  Clients,    \* processes that call the bridge, each once
  Owner,      \* those that run under the daemon's uid
  Requests,   \* what they may ask
  Linked,     \* somebody linked lxg.bridge, which clients open, to lxg/bridge
  MaxRuns,    \* bound: starts of the daemon
  MaxFaults   \* bound: daemons that crash and clients that are killed

\* What a client may ask: nothing, a name of spaces, more than 64 KiB, a program
\* that is not there, a program that runs; and whether it waits for the end.
Request == [what: {"nothing", "blank", "huge", "missing", "program"}, wait: BOOLEAN]

\* The daemon's answers: code 1 stands for every code but 0.
Failure == [ok |-> FALSE, code |-> 1]
Success == [ok |-> TRUE, code |-> 0]
Answer  == {Failure, Success}

ASSUME BridgeAssumption ==
  /\ IsFiniteSet(Clients) /\ Owner \subseteq Clients
  /\ Requests \subseteq Request
  /\ Linked \in BOOLEAN
  /\ MaxRuns \in Nat /\ MaxFaults \in Nat

VARIABLES
  daemon,    \* "down", "starting", "up", "closing"
  file,      \* the socket file is there
  cpc,       \* where each client is, or how it ended
  request,   \* what it asks
  conn,      \* the daemon's end of its connection
  arrived,   \* its request is on the connection
  handler,   \* where the goroutine of its connection is
  reply,     \* the answers written to it
  cmd,       \* its command: "none", "running", "ok" or "bad" once it has ended
  waited,    \* cmd.Wait has returned
  runs, faults

clientVars == <<cpc, request, arrived>>
cmdVars    == <<cmd, waited>>
daemonVars == <<daemon, file, runs, faults>>
vars == <<daemonVars, clientVars, conn, handler, reply, cmdVars>>

Ended == {"isolated", "usage", "lost", "refused", "success", "killed"}

Init ==
  /\ daemon = "down" /\ file = FALSE /\ runs = 0 /\ faults = 0
  /\ cpc     = [c \in Clients |-> "stat"]
  /\ request \in [Clients -> Requests]
  /\ conn    = [c \in Clients |-> "none"]
  /\ arrived = [c \in Clients |-> FALSE]
  /\ handler = [c \in Clients |-> "none"]
  /\ reply   = [c \in Clients |-> <<>>]
  /\ cmd     = [c \in Clients |-> "none"]
  /\ waited  = [c \in Clients |-> FALSE]

-----------------------------------------------------------------------------
(* The client: BridgeRequest. *)

ClientGoto(c, place) == cpc' = [cpc EXCEPT ![c] = place]

\* os.Stat(socketPath): no such file is taken for an isolated container.
Stat(c) ==
  /\ cpc[c] = "stat"
  /\ ClientGoto(c, IF ~(Linked /\ file) THEN "isolated"
                   ELSE IF request[c].what = "nothing" THEN "usage" ELSE "dial")
  /\ UNCHANGED <<daemonVars, request, arrived, conn, handler, reply, cmdVars>>

\* net.Dial: refused when nobody listens.
Dial(c) ==
  /\ cpc[c] = "dial"
  /\ \/ /\ daemon = "up"
        /\ conn' = [conn EXCEPT ![c] = "queued"]
        /\ ClientGoto(c, "encode")
     \/ /\ daemon # "up"
        /\ ClientGoto(c, "lost")
        /\ UNCHANGED conn
  /\ UNCHANGED <<daemonVars, request, arrived, handler, reply, cmdVars>>

\* Encode(request): fails when the daemon's end is closed.
Encode(c) ==
  /\ cpc[c] = "encode"
  /\ \/ /\ conn[c] # "closed"
        /\ arrived' = [arrived EXCEPT ![c] = TRUE]
        /\ ClientGoto(c, "decode")
     \/ /\ conn[c] = "closed"
        /\ ClientGoto(c, "lost")
        /\ UNCHANGED arrived
  /\ UNCHANGED <<daemonVars, request, conn, handler, reply, cmdVars>>

\* Decode(&response), and os.Exit(response.ExitCode) if it is OK.
Decode(c) ==
  /\ cpc[c] = "decode"
  /\ \/ /\ reply[c] # <<>>
        /\ ClientGoto(c, IF Head(reply[c]) = Success THEN "success" ELSE "refused")
     \/ /\ reply[c] = <<>> /\ conn[c] = "closed"
        /\ ClientGoto(c, "lost")
  /\ UNCHANGED <<daemonVars, request, arrived, conn, handler, reply, cmdVars>>

Kill(c) ==
  /\ cpc[c] \notin Ended /\ faults < MaxFaults
  /\ ClientGoto(c, "killed")
  /\ faults' = faults + 1
  /\ UNCHANGED <<daemon, file, runs, request, arrived, conn, handler, reply, cmdVars>>

-----------------------------------------------------------------------------
(* The goroutine of a connection: HandleRequest, and WriteError if it fails. *)

HandlerGoto(c, place) == handler' = [handler EXCEPT ![c] = place]

\* Mutant: connections are handled one after the other.
AcceptOneByOne(c) ==
  /\ daemon = "up" /\ conn[c] = "queued"
  /\ \A d \in Clients : conn[d] # "open"
  /\ conn' = [conn EXCEPT ![c] = "open"]
  /\ HandlerGoto(c, "peer")
  /\ UNCHANGED <<daemonVars, clientVars, reply, cmdVars>>

Accept(c) ==
  /\ daemon = "up" /\ conn[c] = "queued"
  /\ conn' = [conn EXCEPT ![c] = "open"]
  /\ HandlerGoto(c, "peer")
  /\ UNCHANGED <<daemonVars, clientVars, reply, cmdVars>>

\* SO_PEERCRED, and SetReadDeadline.
CheckPeer(c) ==
  /\ handler[c] = "peer"
  /\ HandlerGoto(c, IF c \in Owner THEN "read" ELSE "refuse")
  /\ UNCHANGED <<daemonVars, clientVars, conn, reply, cmdVars>>

\* Decode(&request) through a LimitReader, or the end of what a dead client sent.
ReadRequest(c) ==
  /\ handler[c] = "read"
  /\ \/ /\ arrived[c]
        /\ HandlerGoto(c, IF request[c].what \in {"huge", "blank"}
                          THEN "refuse" ELSE "start")
     \/ /\ ~arrived[c] /\ cpc[c] \in Ended
        /\ HandlerGoto(c, "refuse")
  /\ UNCHANGED <<daemonVars, clientVars, conn, reply, cmdVars>>

\* Mutant: the deadline is that of the connection and cuts the command short.
DeadlineAtAnyTime(c) ==
  /\ handler[c] \in {"read", "wait"}
  /\ HandlerGoto(c, "refuse")
  /\ UNCHANGED <<daemonVars, clientVars, conn, reply, cmdVars>>

\* Mutant: only a client that has gone is given up.
DeadlineOfTheDead(c) ==
  /\ handler[c] = "read" /\ cpc[c] \in Ended
  /\ HandlerGoto(c, "refuse")
  /\ UNCHANGED <<daemonVars, clientVars, conn, reply, cmdVars>>

\* Ten seconds have passed since CheckPeer, whatever has arrived by now.
Deadline(c) ==
  /\ handler[c] = "read"
  /\ HandlerGoto(c, "refuse")
  /\ UNCHANGED <<daemonVars, clientVars, conn, reply, cmdVars>>

\* cmd.Start.
StartCommand(c) ==
  /\ handler[c] = "start"
  /\ \/ /\ request[c].what = "missing"
        /\ HandlerGoto(c, "refuse")
        /\ UNCHANGED cmd
     \/ /\ request[c].what = "program"
        /\ cmd' = [cmd EXCEPT ![c] = "running"]
        /\ HandlerGoto(c, IF request[c].wait THEN "wait" ELSE "answer")
  /\ UNCHANGED <<daemonVars, clientVars, conn, reply, waited>>

\* Mutant: a command nobody waits for is not waited for.
WaitInHandler(c) ==
  /\ handler[c] = "wait" /\ cmd[c] \in {"ok", "bad"}
  /\ waited' = [waited EXCEPT ![c] = TRUE]
  /\ HandlerGoto(c, "answer")
  /\ UNCHANGED <<daemonVars, clientVars, conn, reply, cmd>>

\* cmd.Wait: in the handler, or in a goroutine of its own when the client does
\* not wait.
Wait(c) ==
  /\ cmd[c] \in {"ok", "bad"} /\ ~waited[c]
  /\ \/ /\ handler[c] = "wait"
        /\ HandlerGoto(c, "answer")
     \/ /\ ~request[c].wait /\ handler[c] # "dead"
        /\ UNCHANGED handler
  /\ waited' = [waited EXCEPT ![c] = TRUE]
  /\ UNCHANGED <<daemonVars, clientVars, conn, reply, cmd>>

\* Mutant: the code of an answer to a client that does not wait stays that of
\* NewResponse.
ResponseKeepsDefault(c) ==
  IF ~request[c].wait THEN [ok |-> TRUE, code |-> 1]
  ELSE IF cmd[c] = "bad" THEN Failure ELSE Success

\* The response of HandleRequest.
Response(c) == IF request[c].wait /\ cmd[c] = "bad" THEN Failure ELSE Success

\* Mutant: an error is written after the answer.
AnswerThenError(c) ==
  /\ handler[c] = "answer"
  /\ reply' = IF cpc[c] \in Ended THEN reply ELSE [reply EXCEPT ![c] = Append(@, Response(c))]
  /\ HandlerGoto(c, "refuse")
  /\ UNCHANGED <<daemonVars, clientVars, conn, cmdVars>>

\* WriteJSON: when it fails the error is to be written too.
WriteAnswer(c) ==
  /\ handler[c] = "answer"
  /\ \/ /\ cpc[c] \notin Ended
        /\ reply' = [reply EXCEPT ![c] = Append(@, Response(c))]
        /\ HandlerGoto(c, "close")
     \/ /\ cpc[c] \in Ended
        /\ HandlerGoto(c, "refuse")
        /\ UNCHANGED reply
  /\ UNCHANGED <<daemonVars, clientVars, conn, cmdVars>>

\* WriteError, whose own error is only printed.
WriteError(c) ==
  /\ handler[c] = "refuse"
  /\ reply' = IF cpc[c] \in Ended THEN reply ELSE [reply EXCEPT ![c] = Append(@, Failure)]
  /\ HandlerGoto(c, "close")
  /\ UNCHANGED <<daemonVars, clientVars, conn, cmdVars>>

\* The deferred conn.Close.
CloseConn(c) ==
  /\ handler[c] = "close"
  /\ conn' = [conn EXCEPT ![c] = "closed"]
  /\ HandlerGoto(c, "done")
  /\ UNCHANGED <<daemonVars, clientVars, reply, cmdVars>>

\* A command ends by itself, or is killed with the service's processes.
CommandEnds(c) ==
  /\ cmd[c] = "running"
  /\ \E how \in {"ok", "bad"} : cmd' = [cmd EXCEPT ![c] = how]
  /\ UNCHANGED <<daemonVars, clientVars, conn, handler, reply, waited>>

-----------------------------------------------------------------------------
(* The daemon: InitSocket, and the process around it. *)

RemoveOld ==
  /\ daemon = "down" /\ runs < MaxRuns
  /\ daemon' = "starting" /\ file' = FALSE /\ runs' = runs + 1
  /\ UNCHANGED <<faults, clientVars, conn, handler, reply, cmdVars>>

Listen ==
  /\ daemon = "starting"
  /\ daemon' = "up" /\ file' = TRUE
  /\ UNCHANGED <<runs, faults, clientVars, conn, handler, reply, cmdVars>>

\* listener.Close and the removal of the file: connections nobody accepted are
\* closed, handlers go on.
CloseListener ==
  /\ daemon = "up"
  /\ daemon' = "closing" /\ file' = FALSE
  /\ conn' = [c \in Clients |-> IF conn[c] = "queued" THEN "closed" ELSE conn[c]]
  /\ UNCHANGED <<runs, faults, clientVars, handler, reply, cmdVars>>

\* No goroutine of the connection is left, not even one that waits for its command.
Over(c) == handler[c] \in {"none", "done"} /\ (cmd[c] = "none" \/ waited[c])

\* The process is gone with every goroutine and connection of it; the commands
\* it started are left.
Gone ==
  /\ daemon' = "down"
  /\ conn' = [c \in Clients |-> IF conn[c] = "none" THEN "none" ELSE "closed"]
  /\ handler' = [c \in Clients |-> IF Over(c) THEN handler[c] ELSE "dead"]
  /\ UNCHANGED <<runs, clientVars, reply, cmdVars>>

Exit  == daemon = "closing" /\ Gone /\ UNCHANGED <<file, faults>>
Crash == daemon # "down" /\ faults < MaxFaults /\ Gone /\ faults' = faults + 1 /\ UNCHANGED file

\* Nobody has anything left to do.
Rest ==
  /\ \A c \in Clients : cpc[c] \in Ended /\ handler[c] \in {"none", "done", "dead"}
  /\ UNCHANGED vars

-----------------------------------------------------------------------------
Client(c)  == Stat(c) \/ Dial(c) \/ Encode(c) \/ Decode(c)
Handler(c) == \/ CheckPeer(c) \/ ReadRequest(c) \/ StartCommand(c)
              \/ WriteAnswer(c) \/ WriteError(c) \/ CloseConn(c)

Next ==
  \/ \E c \in Clients : \/ Client(c) \/ Kill(c) \/ Accept(c) \/ Handler(c)
                        \/ Deadline(c) \/ Wait(c) \/ CommandEnds(c)
  \/ RemoveOld \/ Listen \/ CloseListener \/ Exit \/ Crash
  \/ Rest

Spec == Init /\ [][Next]_vars

\* Goroutines run, the deadline passes, an answer is read.  A client need not
\* send its request, a command need not end, nor a daemon be started or stopped.
Fairness ==
  \A c \in Clients :
    /\ WF_vars(Accept(c)) /\ WF_vars(Handler(c)) /\ WF_vars(Deadline(c))
    /\ WF_vars(Wait(c)) /\ WF_vars(Decode(c))

FairSpec == Spec /\ Fairness

-----------------------------------------------------------------------------
(***************************************************************************)
(* Properties.                                                             *)
(***************************************************************************)
\* The sockets, processes and goroutines are where the code can have them.
TypeOK ==
  /\ daemon \in {"down", "starting", "up", "closing"} /\ file \in BOOLEAN
  /\ runs \in Nat /\ faults \in Nat
  /\ cpc \in [Clients -> {"stat", "dial", "encode", "decode"} \cup Ended]
  /\ request \in [Clients -> Requests]
  /\ conn \in [Clients -> {"none", "queued", "open", "closed"}]
  /\ arrived \in [Clients -> BOOLEAN]
  /\ handler \in [Clients -> {"none", "peer", "read", "start", "wait", "answer",
                              "refuse", "close", "done", "dead"}]
  /\ reply \in [Clients -> Seq(Answer)]
  /\ cmd \in [Clients -> {"none", "running", "ok", "bad"}]
  /\ waited \in [Clients -> BOOLEAN]

\* What a client may conclude from how it ends.  It exits with 0 only if its
\* command was started and, unless it did not want to wait, ended well; when it
\* is refused its command never ran or ended badly and is not running now, so
\* asking again cannot run it twice at once.  Killed clients, lost daemons and
\* late requests do not change that (HandleRequest, BridgeRequest).
ClientLearnsTruth ==
  \A c \in Clients :
    /\ cpc[c] = "success" =>
         IF request[c].wait THEN cmd[c] = "ok" /\ waited[c] ELSE cmd[c] # "none"
    /\ cpc[c] = "refused" =>
         \/ cmd[c] = "none"
         \/ request[c].wait /\ cmd[c] = "bad"

\* A connection gets at most one answer, although a handler that fails to answer
\* writes an error: what a client reads first is all there is (HandleRequest and
\* the goroutine around it).
OneAnswer == \A c \in Clients : Len(reply[c]) <= 1

\* A client that waits for an answer gets one, or learns that the daemon is gone,
\* unless its command does not end (Accept, CloseListener).
ClientsEnd ==
  \A c \in Clients : cpc[c] = "decode" ~> (cpc[c] \in Ended \/ cmd[c] = "running")

\* A client that stalls does not hold its handler and its connection: they end,
\* unless a command runs in them (SetReadDeadline, conn.Close).
HandlersEnd ==
  \A c \in Clients :
    handler[c] = "read" ~> (conn[c] = "closed" \/ cmd[c] = "running")

\* Every command that ends is waited for while the daemon lives, also when its
\* client did not wait or has gone: none stays a zombie (cmd.Wait).
CommandsReaped ==
  \A c \in Clients : (cmd[c] \in {"ok", "bad"}) ~> (waited[c] \/ handler[c] = "dead")

\* client.go:19: "Isolated containers does not have the bridge socket".  While the
\* daemon serves, a client of any other container is not told that it is isolated.
OnlyIsolatedAreTold ==
  [][\A c \in Clients : file /\ cpc[c] = "stat" => cpc'[c] # "isolated"]_vars

-----------------------------------------------------------------------------
(***************************************************************************)
(* Why ClientLearnsTruth and OneAnswer hold: what a handler has done when  *)
(* it is at each place, and what its answer says.                          *)
(***************************************************************************)
HandlerKnows(c) ==
  /\ cpc[c] \in {"stat", "dial"} => conn[c] = "none"
  /\ conn[c] \in {"none", "queued"} => handler[c] = "none"
  /\ handler[c] \in {"none", "peer", "read", "start"} => cmd[c] = "none"
  /\ handler[c] \in {"wait", "answer"} => cmd[c] # "none"
  /\ handler[c] = "wait" => request[c].wait
  /\ handler[c] = "answer" /\ request[c].wait => cmd[c] \in {"ok", "bad"} /\ waited[c]
  /\ handler[c] = "refuse" => cmd[c] = "none" \/ cpc[c] \in Ended
  /\ reply[c] # <<>> => handler[c] \in {"close", "done", "dead"}
  /\ waited[c] => cmd[c] \in {"ok", "bad"}

AnswerKnows(c) ==
  /\ cpc[c] \in {"success", "refused"} => reply[c] # <<>>
  /\ reply[c] # <<>> =>
       IF Head(reply[c]) = Success
       THEN IF request[c].wait THEN cmd[c] = "ok" /\ waited[c] ELSE cmd[c] # "none"
       ELSE cmd[c] = "none" \/ (request[c].wait /\ cmd[c] = "bad")

\* Inductive, together with TypeOK.
BridgeInv ==
  /\ \A c \in Clients : HandlerKnows(c) /\ AnswerKnows(c)
  /\ OneAnswer
  /\ ClientLearnsTruth
=============================================================================
