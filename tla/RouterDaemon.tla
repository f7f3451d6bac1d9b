---------------------------- MODULE RouterDaemon ----------------------------
(***************************************************************************)
(* How a login shell of a container finds or starts the D-Bus router       *)
(* (container/init.go, container/dbus/daemon.go), and how the router       *)
(* process starts, records itself and goes down (Router.Start).            *)
(*                                                                         *)
(* Every login runs "lxg container init".  Logins and routers are          *)
(* processes that share nothing but files: the link /run/user/UID/lxg of   *)
(* their container, and, behind it, the router's socket and pid file.  The *)
(* link leads to one directory of the host that all containers mount.      *)
(* Process ids are those of each container's own namespace.                *)
(*                                                                         *)
(* A step is one system call on a shared file or process.  The router that *)
(* a login starts, if it starts one, goes by the name of that login.       *)
(***************************************************************************)
EXTENDS Naturals, FiniteSets

CONSTANTS
  Containers,
  Logins,       \* runs of "lxg container init"
  Home,         \* the container of each login
  Pids,         \* process ids
  PidReuse,     \* a pid may be given again, and to any process after a restart
  MaxStops,     \* bound: routers killed or told to stop
  MaxRestarts,  \* bound: restarts of containers
  None

Shared == "host"                  \* the host's /run/user/UID/lxg
Dirs   == Containers \cup {Shared}

ASSUME DaemonAssumption ==
  /\ Home \in [Logins -> Containers]
  /\ Shared \notin Containers
  /\ PidReuse \in BOOLEAN
  /\ MaxStops \in Nat /\ MaxRestarts \in Nat
  /\ None \notin Logins \cup Pids

VARIABLES
  entry,    \* what /run/user/UID/lxg is in each container: "none", "link", "dir"
  sock,     \* the router socket in each directory: the router that bound it
  pidFile,  \* the pid file in each directory: its creator and its content
  proxy,    \* the host's proxy socket lxg/bus exists
  others,   \* pids of other processes of the user in each container
  lpc,      \* where each login is
  seen,     \* the pid a login has read
  addr,     \* DBUS_SESSION_BUS_ADDRESS each login exports
  rpc,      \* where each router is
  rpid,     \* its pid
  up,       \* routers whose listener is open
  file,     \* the pid file a router has open
  term,     \* routers that got SIGTERM or SIGINT
  stops, restarts,
  calm,     \* history: nothing else has happened since this login began
  truth     \* history: the files told the truth when this login began

fileVars   == <<entry, sock, pidFile>>
loginVars  == <<lpc, seen, addr>>
routerVars == <<rpc, rpid, up, file, term>>
envVars    == <<proxy, others, stops, restarts>>
history    == <<calm, truth>>
vars == <<fileVars, loginVars, routerVars, envVars, history>>

\* The directory a path below /run/user/UID/lxg leads to, if any.
Dir(c) == CASE entry[c] = "link" -> {Shared} [] entry[c] = "dir" -> {c}
            [] OTHER -> {}

\* os.Remove of the socket, of the pid file: nothing happens if it is not there.
RemoveSocket(c) == sock' = [d \in Dirs |-> IF d \in Dir(c) THEN None ELSE sock[d]]
RemovePid(c)    == pidFile' = [d \in Dirs |-> IF d \in Dir(c) THEN None ELSE pidFile[d]]

Alive(r)  == rpc[r] \notin {"none", "gone"}
\* Pids in use in container c.
Used(c)   == others[c] \cup {rpid[r] : r \in {x \in Logins : Home[x] = c /\ Alive(x)}}

Free(c)   == Pids \ (IF PidReuse THEN Used(c)
                     ELSE {rpid[r] : r \in {x \in Logins : Home[x] = c}})

\* A client of container c that connects to the router socket is served by r.
ServedBy(c, r) == r \in up /\ \E d \in Dir(c) : sock[d] = r

Active(l) == lpc[l] \notin {"idle", "done", "failed"}
Settled(r) == ~Alive(r) \/ (rpc[r] = "accept" /\ r \notin term)

\* If the shared pid file names a process of c and there is a socket, then a
\* router listens on it: what routerRunning takes for granted.
FilesTrue(c) ==
  LET p == pidFile[Shared] IN
  p # None /\ sock[Shared] # None =>
    (p.pid \in Used(c) => sock[Shared] \in up)

Init ==
  /\ entry = [c \in Containers |-> "none"]
  /\ sock = [d \in Dirs |-> None] /\ pidFile = [d \in Dirs |-> None]
  /\ proxy \in BOOLEAN
  /\ others = [c \in Containers |-> {}]
  /\ lpc = [l \in Logins |-> "idle"]
  /\ seen = [l \in Logins |-> None] /\ addr = [l \in Logins |-> "none"]
  /\ rpc = [l \in Logins |-> "none"] /\ rpid = [l \in Logins |-> None]
  /\ up = {} /\ file = [l \in Logins |-> None] /\ term = {}
  /\ stops = 0 /\ restarts = 0
  /\ calm = [l \in Logins |-> FALSE] /\ truth = [l \in Logins |-> FALSE]

Goto(l, place) == lpc' = [lpc EXCEPT ![l] = place]

-----------------------------------------------------------------------------
(* Init of container/init.go. *)

Begin(l) ==
  /\ lpc[l] = "idle"
  /\ Goto(l, "unlink")
  /\ calm'  = [m \in Logins |->
                 /\ m = l
                 /\ \A x \in Logins : ~Active(x) /\ Settled(x)]
  /\ truth' = [truth EXCEPT ![l] = FilesTrue(Home[l])]
  /\ UNCHANGED <<fileVars, seen, addr, routerVars, envVars>>

\* SymLinkRun: os.Remove takes away a link or an empty directory.
Unlink(l) ==
  LET c == Home[l] IN
  /\ lpc[l] = "unlink"
  /\ IF entry[c] = "dir" /\ (sock[c] # None \/ pidFile[c] # None)
     THEN Goto(l, "failed") /\ UNCHANGED entry
     ELSE Goto(l, "symlink") /\ entry' = [entry EXCEPT ![c] = "none"]
  /\ UNCHANGED <<sock, pidFile, seen, addr, routerVars, envVars, history>>

\* SymLinkRun: os.Symlink fails if something is there again.
Symlink(l) ==
  LET c == Home[l] IN
  /\ lpc[l] = "symlink"
  /\ IF entry[c] # "none"
     THEN Goto(l, "failed") /\ UNCHANGED entry
     ELSE Goto(l, "statProxy") /\ entry' = [entry EXCEPT ![c] = "link"]
  /\ UNCHANGED <<sock, pidFile, seen, addr, routerVars, envVars, history>>

\* EnsureRouter returns at once where there is no host proxy.
StatProxy(l) ==
  /\ lpc[l] = "statProxy"
  /\ Goto(l, IF proxy /\ entry[Home[l]] = "link" THEN "readPid" ELSE "env")
  /\ UNCHANGED <<fileVars, seen, addr, routerVars, envVars, history>>

-----------------------------------------------------------------------------
(* routerRunning: three system calls, before and after starting a router. *)

NotRunning(l) == IF rpc[l] = "none" THEN "rmSocket" ELSE "poll"

\* readPidFile: an absent, empty or half-written pid file is an error.
PidIn(c) == {pidFile[d].pid : d \in {x \in Dir(c) : pidFile[x] # None}} \ {None}

ReadPid(l) ==
  /\ lpc[l] = "readPid"
  /\ \/ /\ PidIn(Home[l]) = {}
        /\ Goto(l, NotRunning(l))
        /\ UNCHANGED seen
     \/ /\ \E p \in PidIn(Home[l]) : seen' = [seen EXCEPT ![l] = p]
        /\ Goto(l, "pidAlive")
  /\ UNCHANGED <<fileVars, addr, routerVars, envVars, history>>

\* Mutant: the pid is not checked.
PidTrusted(l) ==
  /\ lpc[l] = "pidAlive"
  /\ Goto(l, "statSocket")
  /\ seen' = [seen EXCEPT ![l] = None]
  /\ UNCHANGED <<fileVars, addr, routerVars, envVars, history>>

PidAlive(l) ==
  /\ lpc[l] = "pidAlive"
  /\ Goto(l, IF seen[l] \in Used(Home[l]) THEN "statSocket" ELSE NotRunning(l))
  /\ seen' = [seen EXCEPT ![l] = None]
  /\ UNCHANGED <<fileVars, addr, routerVars, envVars, history>>

\* Mutant: the result of os.Stat is read the wrong way round.
StatSocketInverted(l) ==
  /\ lpc[l] = "statSocket"
  /\ Goto(l, IF \E d \in Dir(Home[l]) : sock[d] # None THEN NotRunning(l) ELSE "env")
  /\ UNCHANGED <<fileVars, seen, addr, routerVars, envVars, history>>

StatSocket(l) ==
  /\ lpc[l] = "statSocket"
  /\ Goto(l, IF \E d \in Dir(Home[l]) : sock[d] # None THEN "env" ELSE NotRunning(l))
  /\ UNCHANGED <<fileVars, seen, addr, routerVars, envVars, history>>

-----------------------------------------------------------------------------
(* EnsureRouter, when no router is running. *)

\* Mutant: the old socket is left for the router to remove.
RmSocketSkipped(l) ==
  /\ lpc[l] = "rmSocket"
  /\ Goto(l, "rmPid")
  /\ UNCHANGED <<fileVars, seen, addr, routerVars, envVars, history>>

RmSocket(l) ==
  /\ lpc[l] = "rmSocket"
  /\ RemoveSocket(Home[l])
  /\ Goto(l, "rmPid")
  /\ UNCHANGED <<entry, pidFile, seen, addr, routerVars, envVars, history>>

RmPid(l) ==
  /\ lpc[l] = "rmPid"
  /\ RemovePid(Home[l])
  /\ Goto(l, "spawn")
  /\ UNCHANGED <<entry, sock, seen, addr, routerVars, envVars, history>>

Spawn(l) ==
  /\ lpc[l] = "spawn"
  /\ \E p \in Free(Home[l]) : rpid' = [rpid EXCEPT ![l] = p]
  /\ rpc' = [rpc EXCEPT ![l] = "remove"]
  /\ Goto(l, "poll")
  /\ UNCHANGED <<fileVars, seen, addr, up, file, term, envVars, history>>

\* cmd.Start fails.
SpawnFails(l) ==
  /\ lpc[l] = "spawn"
  /\ Goto(l, "failed")
  /\ UNCHANGED <<fileVars, seen, addr, routerVars, envVars, history>>

\* One turn of the loop: the router's exit, if its waiter has reported it, ends
\* it; so does the deadline of two seconds, which may come at any turn.
Poll(l) ==
  /\ lpc[l] = "poll"
  /\ Goto(l, "readPid")
  /\ UNCHANGED <<fileVars, seen, addr, routerVars, envVars, history>>

GiveUp(l) ==
  /\ lpc[l] = "poll"
  /\ Goto(l, "failed")
  /\ UNCHANGED <<fileVars, seen, addr, routerVars, envVars, history>>

\* InitEnvironment takes the first bus address whose path exists: the router,
\* the host proxy, the container's own bus.
Environment(l) ==
  LET c == Home[l] IN
  /\ lpc[l] = "env"
  /\ addr' = [addr EXCEPT ![l] =
       IF \E d \in Dir(c) : sock[d] # None THEN "router"
       ELSE IF proxy /\ entry[c] = "link" THEN "proxy" ELSE "native"]
  /\ Goto(l, "done")
  /\ UNCHANGED <<fileVars, seen, routerVars, envVars, history>>

-----------------------------------------------------------------------------
(* Router.Start. *)

GotoR(r, place) == rpc' = [rpc EXCEPT ![r] = place]

StartRemove(r) ==
  /\ rpc[r] = "remove"
  /\ RemoveSocket(Home[r])
  /\ GotoR(r, "mkdir")
  /\ UNCHANGED <<entry, pidFile, loginVars, rpid, up, file, term, envVars, history>>

\* os.MkdirAll of the socket's directory accepts the link, and makes a
\* directory where there is nothing.
Mkdir(r) ==
  LET c == Home[r] IN
  /\ rpc[r] = "mkdir"
  /\ entry' = IF entry[c] = "none" THEN [entry EXCEPT ![c] = "dir"] ELSE entry
  /\ GotoR(r, "listen")
  /\ UNCHANGED <<sock, pidFile, loginVars, rpid, up, file, term, envVars, history>>

\* Binding fails if the path exists or its directory does not.
Listen(r) ==
  /\ rpc[r] = "listen"
  /\ IF \E d \in Dir(Home[r]) : sock[d] = None
     THEN /\ \E d \in Dir(Home[r]) : sock' = [sock EXCEPT ![d] = r]
          /\ up' = up \cup {r}
          /\ GotoR(r, "createPid")
     ELSE GotoR(r, "gone") /\ UNCHANGED <<sock, up>>
  /\ UNCHANGED <<entry, pidFile, loginVars, rpid, file, term, envVars, history>>

\* Mutant: the error of opening the pid file is ignored.
CreatePidUnchecked(r) ==
  /\ rpc[r] = "createPid"
  /\ IF Dir(Home[r]) = {}
     THEN UNCHANGED <<pidFile, file>>
     ELSE \E d \in Dir(Home[r]) :
            LET f == IF pidFile[d] = None THEN r ELSE pidFile[d].file IN
            /\ pidFile' = [pidFile EXCEPT ![d] = [file |-> f, pid |-> None]]
            /\ file' = [file EXCEPT ![r] = f]
  /\ GotoR(r, "writePid")
  /\ UNCHANGED <<entry, sock, loginVars, rpid, up, term, envVars, history>>

\* os.WriteFile opens the pid file, creating or emptying it, and then writes.
CreatePid(r) ==
  /\ rpc[r] = "createPid"
  /\ IF Dir(Home[r]) = {}
     THEN GotoR(r, "dropSocket") /\ UNCHANGED <<pidFile, file>>
     ELSE \E d \in Dir(Home[r]) :
            LET f == IF pidFile[d] = None THEN r ELSE pidFile[d].file IN
            /\ pidFile' = [pidFile EXCEPT ![d] = [file |-> f, pid |-> None]]
            /\ file' = [file EXCEPT ![r] = f]
            /\ GotoR(r, "writePid")
  /\ UNCHANGED <<entry, sock, loginVars, rpid, up, term, envVars, history>>

\* What is written to a file that was removed meanwhile is lost.
WritePid(r) ==
  /\ rpc[r] = "writePid"
  /\ pidFile' = [d \in Dirs |->
       IF pidFile[d] # None /\ pidFile[d].file = file[r]
       THEN [pidFile[d] EXCEPT !.pid = rpid[r]] ELSE pidFile[d]]
  /\ file' = [file EXCEPT ![r] = None]
  /\ GotoR(r, "chmod")
  /\ UNCHANGED <<entry, sock, loginVars, rpid, up, term, envVars, history>>

\* os.Chmod fails if the socket was removed meanwhile.
Chmod(r) ==
  /\ rpc[r] = "chmod"
  /\ GotoR(r, IF \E d \in Dir(Home[r]) : sock[d] # None THEN "accept" ELSE "dropPid")
  /\ UNCHANGED <<fileVars, loginVars, rpid, up, file, term, envVars, history>>

\* The goroutine that waits for the context closes the listener, which removes
\* whatever is at the path, and Accept fails.
CloseListener(r) ==
  /\ rpc[r] = "accept" /\ r \in term
  /\ RemoveSocket(Home[r])
  /\ up' = up \ {r}
  /\ GotoR(r, "dropPid")
  /\ UNCHANGED <<entry, pidFile, loginVars, rpid, file, term, envVars, history>>

\* The deferred calls, last one first.
DropPid(r) ==
  /\ rpc[r] = "dropPid"
  /\ RemovePid(Home[r])
  /\ GotoR(r, "dropSocket")
  /\ UNCHANGED <<entry, sock, loginVars, rpid, up, file, term, envVars, history>>

DropSocket(r) ==
  /\ rpc[r] = "dropSocket"
  /\ RemoveSocket(Home[r])
  /\ GotoR(r, "exit")
  /\ UNCHANGED <<entry, pidFile, loginVars, rpid, up, file, term, envVars, history>>

\* listener.Close removes the path only the first time.
Exit(r) ==
  /\ rpc[r] = "exit"
  /\ IF r \in up THEN RemoveSocket(Home[r]) ELSE UNCHANGED sock
  /\ up' = up \ {r}
  /\ GotoR(r, "gone")
  /\ UNCHANGED <<entry, pidFile, loginVars, rpid, file, term, envVars, history>>

-----------------------------------------------------------------------------
(* The environment: signals, crashes and restarts. *)

Disturb == calm' = [l \in Logins |-> FALSE] /\ UNCHANGED truth

Term(r) ==
  /\ Alive(r) /\ r \notin term /\ stops < MaxStops
  /\ term' = term \cup {r} /\ stops' = stops + 1
  /\ Disturb
  /\ UNCHANGED <<fileVars, loginVars, rpc, rpid, up, file, proxy, others, restarts>>

\* SIGKILL, or a panic: the files stay.
Crash(r) ==
  /\ Alive(r) /\ stops < MaxStops
  /\ GotoR(r, "gone") /\ up' = up \ {r} /\ stops' = stops + 1
  /\ Disturb
  /\ UNCHANGED <<fileVars, loginVars, rpid, file, term, proxy, others, restarts>>

\* Everything in the container ends and its /run is empty again; the host's
\* directory stays as it is.
Restart(c) ==
  /\ restarts < MaxRestarts
  /\ restarts' = restarts + 1
  /\ entry' = [entry EXCEPT ![c] = "none"]
  /\ sock' = [sock EXCEPT ![c] = None] /\ pidFile' = [pidFile EXCEPT ![c] = None]
  /\ lpc' = [l \in Logins |-> IF Home[l] = c /\ lpc[l] # "idle" THEN "failed" ELSE lpc[l]]
  /\ rpc' = [r \in Logins |-> IF Home[r] = c /\ Alive(r) THEN "gone" ELSE rpc[r]]
  /\ up' = {r \in up : Home[r] # c}
  /\ \E S \in SUBSET Pids :
       others' = [others EXCEPT ![c] = IF PidReuse THEN S ELSE {}]
  /\ Disturb
  /\ UNCHANGED <<seen, addr, rpid, file, term, proxy, stops>>

Login(l) ==
  \/ Begin(l) \/ Unlink(l) \/ Symlink(l) \/ StatProxy(l)
  \/ ReadPid(l) \/ PidAlive(l) \/ StatSocket(l)
  \/ RmSocket(l) \/ RmPid(l) \/ Spawn(l) \/ SpawnFails(l) \/ Poll(l) \/ GiveUp(l)
  \/ Environment(l)

RouterStep(r) ==
  \/ StartRemove(r) \/ Mkdir(r) \/ Listen(r) \/ CreatePid(r) \/ WritePid(r)
  \/ Chmod(r) \/ CloseListener(r) \/ DropPid(r) \/ DropSocket(r) \/ Exit(r)

Disturbance ==
  \/ \E r \in Logins : Term(r) \/ Crash(r)
  \/ \E c \in Containers : Restart(c)

\* Every login has ended and every router has ended or accepts clients.
Rest ==
  /\ \A l \in Logins : lpc[l] \in {"done", "failed"} /\ Settled(l)
  /\ UNCHANGED vars

Next ==
  \/ \E l \in Logins : Login(l) \/ RouterStep(l)
  \/ Disturbance
  \/ Rest

Spec == Init /\ [][Next]_vars
-----------------------------------------------------------------------------
(***************************************************************************)
(* Properties.                                                             *)
(***************************************************************************)
\* Files, logins and routers are in states the code can leave them in, and a
\* router has a pid exactly when it was started.
TypeOK ==
  /\ entry \in [Containers -> {"none", "link", "dir"}]
  /\ sock \in [Dirs -> Logins \cup {None}]
  /\ pidFile \in [Dirs -> [file: Logins, pid: Pids \cup {None}] \cup {None}]
  /\ proxy \in BOOLEAN
  /\ others \in [Containers -> SUBSET Pids]
  /\ lpc \in [Logins -> {"idle", "unlink", "symlink", "statProxy", "readPid",
               "pidAlive", "statSocket", "rmSocket", "rmPid", "spawn", "poll",
               "env", "done", "failed"}]
  /\ seen \in [Logins -> Pids \cup {None}]
  /\ addr \in [Logins -> {"none", "router", "proxy", "native"}]
  /\ rpc \in [Logins -> {"none", "remove", "mkdir", "listen", "createPid",
               "writePid", "chmod", "accept", "dropPid", "dropSocket", "exit",
               "gone"}]
  /\ rpid \in [Logins -> Pids \cup {None}]
  /\ file \in [Logins -> Logins \cup {None}]
  /\ up \subseteq Logins /\ term \subseteq Logins
  /\ stops \in Nat /\ restarts \in Nat
  /\ calm \in [Logins -> BOOLEAN] /\ truth \in [Logins -> BOOLEAN]
  /\ \A r \in Logins :
       /\ rpc[r] = "none" <=> rpid[r] = None
       /\ rpc[r] = "writePid" => file[r] # None

\* A login that had the container to itself and ended well is served: its bus
\* address is the router's and a router listens there, whatever files crashed,
\* stopped or half-started routers had left, as long as they did not lie.
LoginServed ==
  \A l \in Logins :
    lpc[l] = "done" /\ calm[l] /\ truth[l] /\ proxy =>
      addr[l] = "router" /\ \E r \in Logins : ServedBy(Home[l], r)

\* The router in directory d accepts clients and the pid file is its own.
Working(d, r) ==
  /\ sock[d] = r /\ rpc[r] = "accept" /\ r \notin term
  /\ pidFile[d] # None /\ pidFile[d].pid = rpid[r]

\* A login that has the container to itself leaves a working router alone.
KeepsWorkingRouter ==
  [][\A l, r \in Logins :
       /\ Active(l) /\ calm'[l] /\ Home[r] = Home[l]
       /\ Working(Shared, r)
       => Working(Shared, r)']_vars

(***************************************************************************)
(* Why LoginServed holds: what an undisturbed login knows at each place.   *)
(***************************************************************************)
Empty == sock[Shared] = None /\ pidFile[Shared] = None
Bound(l) == sock[Shared] = l /\ l \in up

\* What login l, undisturbed, has found out.
LoginKnows(l) ==
  LET c == Home[l]
      p == pidFile[Shared]
  IN  /\ lpc[l] = "symlink" => entry[c] = "none"
      /\ lpc[l] \notin {"unlink", "symlink"} => entry[c] = "link"
      /\ lpc[l] = "pidAlive" => p # None /\ p.pid = seen[l] /\ seen[l] # None
      /\ lpc[l] = "statSocket" => p # None /\ p.pid \in Used(c)
      /\ lpc[l] = "rmPid" => sock[Shared] = None
      /\ lpc[l] = "spawn" => Empty
      /\ proxy /\ lpc[l] \in {"env", "done"} =>
           sock[Shared] # None /\ sock[Shared] \in up
      /\ proxy /\ lpc[l] = "done" => addr[l] = "router"

\* How far the router it started has come.
RouterHas(l) ==
  /\ rpc[l] = "none" => lpc[l] # "poll"
  /\ rpc[l] # "none" =>
       lpc[l] \in {"readPid", "pidAlive", "statSocket", "poll", "env", "done"}
  /\ rpc[l] \in {"none", "remove", "mkdir", "listen", "createPid", "writePid",
                 "chmod", "accept"}
  /\ rpc[l] \in {"remove", "mkdir", "listen"} => Empty
  /\ rpc[l] = "createPid" => Bound(l) /\ pidFile[Shared] = None
  /\ rpc[l] = "writePid" =>
       Bound(l) /\ file[l] = l /\ pidFile[Shared] = [file |-> l, pid |-> None]
  /\ rpc[l] \in {"chmod", "accept"} => Bound(l)

OnTrack(l) == FilesTrue(Home[l]) /\ LoginKnows(l) /\ RouterHas(l)

\* Inductive, together with TypeOK.
CalmInv ==
  /\ \A r \in term : rpc[r] # "none"
  /\ \A l \in Logins : lpc[l] = "idle" => rpc[l] = "none" /\ ~calm[l]
  /\ \A l \in Logins : calm[l] =>
       /\ l \notin term
       /\ \A x \in Logins \ {l} : ~Active(x) /\ Settled(x)
       /\ truth[l] /\ lpc[l] # "failed" => OnTrack(l)

(***************************************************************************)
(* Why KeepsWorkingRouter holds: an undisturbed login removes files only   *)
(* when it has seen that no working router has made them.                  *)
(***************************************************************************)
\* What login l, undisturbed, has found out about working routers.
Spares(l) ==
  LET c == Home[l] IN
  /\ lpc[l] = "symlink" => entry[c] = "none"
  /\ lpc[l] \notin {"unlink", "symlink"} => entry[c] = "link"
  /\ rpc[l] # "none" =>
       /\ sock[Shared] \in {None, l}
       /\ lpc[l] \in {"readPid", "pidAlive", "statSocket", "poll", "env"}
  /\ lpc[l] = "pidAlive" /\ rpc[l] = "none" =>
       pidFile[Shared] # None /\ pidFile[Shared].pid = seen[l]
  /\ lpc[l] = "rmSocket" => \A r \in Logins : Home[r] = c => ~Working(Shared, r)
  /\ lpc[l] \in {"rmPid", "spawn"} => sock[Shared] = None

\* Inductive, together with TypeOK and CalmInv.
SparesInv == \A l \in Logins : calm[l] /\ Active(l) => Spares(l)

\* The router that serves a container's logins runs in that container.
OwnRouter ==
  \A l, r \in Logins :
    lpc[l] = "done" /\ addr[l] = "router" /\ ServedBy(Home[l], r) => Home[r] = Home[l]

\* "EnsureRouter checks if the D-Bus router is running and starts it if necessary":
\* once all logins have ended well and all routers have come to rest, a login that
\* was given the router's address is served, if no router was killed or stopped.
LoginsStayServed ==
  stops = 0 /\ restarts = 0 /\ (\A l \in Logins : lpc[l] = "done" /\ Settled(l)) =>
    \A l \in Logins : addr[l] = "router" => \E r \in Logins : ServedBy(Home[l], r)
=============================================================================
