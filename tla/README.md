# A TLA+ verification of LXG

LXG runs desktop applications in LXC containers. Its own logic is a D-Bus
router inside each container, the scripts and daemons that start it, a daemon on
the host that links display and audio sockets into a run folder, a bridge that
runs commands on the host for a container, and the set-up of profiles and
services. This directory holds TLA+ models of that code, the TLC runs that check
them on small instances, and TLAPS proofs of their main properties for every
value of the constants.

    tlc -workers 2 -config session_calls.cfg MCRouterSession.tla
    tlapm RouterSession_proofs.tla

`PROJECT.json` lists the components, the runs, the source lines behind every
definition, the mutants that show each property can fail, the hazards and the
findings.

## 1. The system

All processes of one user on one host meet in the directory `/run/user/UID/lxg`
of the host. Every profile (`host/lxc/profiles/*.yml`) mounts it in its containers
at `/lxg/run/user/UID`, and each login shell of a container links its own
`/run/user/UID/lxg` to that mount.

| Component | Source | State it keeps | Operations | Talks to |
|---|---|---|---|---|
| Router session | `container/dbus/router.go` | three connections, `closed`, `hostPending`, `merges`, `hostUniqueNames`, two mutexes | dispatch a message of the application, pass on a message of a bus, close | the application, the container's bus, the host's bus |
| Routing rules | `container/dbus/rules.go` | none: constant name patterns | does a name or match rule belong to the host | the session |
| SASL handshake | `container/dbus/sasl.go` | none beyond the connection | authenticate the application, authenticate to a bus | the session |
| Wire protocol | `container/dbus/wire.go` | read buffer and queue of descriptors of a connection | frame, parse, write messages; pass descriptors | the session |
| Router daemon | `container/dbus/daemon.go`, `Router.Start` | socket `router`, pid file `router.pid` | find or start a router, start, stop | logins, sessions, signals |
| Container init | `container/init.go`, `container/env` | the link `/run/user/UID/lxg`, the exported variables | replace the link, ensure the router, choose addresses | the router daemon, the login shell |
| Host listen daemon | `host/init.go`, `host/run` | group context, `errChan`, mounts and their targets | start eight services, cancel, collect errors, bind mounts | systemd, the kernel, containers |
| Host D-Bus proxy | `host/dbus/dbus.go` | process `xdg-dbus-proxy`, socket `bus` | start, wait, terminate | the listen daemon, routers |
| Bridge | `host/bridge`, `container/client.go` | socket `bridge`, one goroutine for a request | accept, check the peer, run a command, answer | the listen daemon, containers |
| LXC set-up | `host/lxc` | profiles and containers of LXD | create and attach a profile, start, stop, run | LXD |
| Systemd service | `host/systemd` | unit file and its state | install, enable, check | systemd |
| Container set-up | `container/setup` | files of the container | install packages, write scripts | the package manager |
| Command line | `main.go`, `command`, `help` | none | dispatch on the arguments | everything |

What is hard in it, and what makes each part correct:

* **Router session.** Three goroutines share three connections and three maps.
  `Hello`, `AddMatch` and `ListNames` go to both buses and both answer, in either
  order, while any connection may be lost and any goroutine may close the session
  under the others. Correct: one answer to each call, from the bus that owns what
  was asked; a message to a unique name reaches the bus where that name lives; the
  tables say exactly what is outstanding; a lost connection ends everything.
* **Router daemon and container init.** Logins and routers are processes that
  share only files, and every check (`readPidFile`, `kill 0`, `stat`) is stale
  when it is used. Files outlive the processes and the container, and belong to
  all containers. Correct: a login ends with a router that serves it and never
  takes down one that works.
* **Host listen daemon and proxy.** Eight goroutines live and die together. What a
  killed run leaves (mounts, sockets) must not stop the next one. Correct: the
  exit code tells what happened, a stop ends everything, nothing of the user's is
  damaged, nothing is left behind.
* **Bridge.** One goroutine for each connection, with a deadline, a command that may
  outlive client and daemon, and an error path that writes to the same connection.
  Correct: what a client concludes from how it ends is what happened to its command;
  a client that stalls holds nothing; every command is waited for.
* **LXC set-up, systemd.** A sequence of commands to services that others use at the
  same time. Each may be refused, fail or be killed, and the whole is run again by
  hand. Correct: a setup that says it is done has taken effect, one that was
  interrupted can be repeated, and a failure has a cause.
* **Wire, SASL, rules.** Framing over partial reads, descriptors that come beside the
  bytes and must go out with their own message and be closed once, and two goroutines
  that write to one connection. Correct: what is written is what was read, whole and in
  order, and no descriptor is lost, mixed up or leaked.

## 2. Modules

| Module | What it models |
|---|---|
| `RouterSession` | one client session of the router |
| `BusPromise` | what a session promises: a single bus that answers each call once (abstract) |
| `RouterSession_proofs` | types and routing of `RouterSession` |
| `RouterSession_answers` | at most one answer, in `RouterSession`, which implements `BusPromise` |
| `RouterSession_debts` | the end, the tables and the owners of answers, in `RouterSession` |
| `Wire` | bytes and descriptors of a session |
| `Wire_proofs` | types and safety of `Wire` |
| `NameLists` | the lists of names that are merged, in bytes (functions only) |
| `RouterDaemon` | logins and routers of all containers |
| `RouterDaemon_proofs` | types of `RouterDaemon`, logins are served, a working router is left alone |
| `HostListen` | the listen daemon over several runs |
| `HostListen_proofs` | types and safety of `HostListen` |
| `Bridge` | clients, handlers and commands of the bridge |
| `Bridge_proofs` | types and safety of `Bridge` |
| `LxcSetup` | profiles, service and containers under setups, starts and stops |
| `LxcSetup_proofs` | types and safety of `LxcSetup` |
| `MCRouterSession`, `MCWire`, `MCRouterDaemon`, `MCHostListen`, `MCBridge`, `MCLxcSetup` | instances for TLC |

The models meet at their edges. What `Wire` leaves open, the connection a message is
for, is decided in `RouterSession`; what `RouterSession` takes for granted, that a
message arrives whole and a write is not torn, is checked in `Wire`. `HostListen` has the
bridge as one of its services, with the making and removing of its socket, and
`Bridge` has its connections. The folder that `LxcSetup` waits for is made by
`HostListen`'s services, and is where `RouterDaemon` keeps its files.

### RouterSession

State: `conn` (the session's connections, `"none"` is `nil`), `closed`,
`hostPending`, `merges` and `hostUniqueNames` are the fields of `ClientSession`;
`pc`, `held` and `nread` are where the three goroutines are and what they have in
hand. `sent`, `wire`, `replies`, `wrote`, `inbox` are the streams of messages and
the record of what was written where; `peer` says which connections still have
their other end.

One action for each access to shared state: `AuthenticateClient`,
`ConnectContainer`, `ConnectHost` (handleClient before its loop), `ReadClient`
(DispatchClientMessage up to its first write: `Plan` is the whole decision tree
of dispatchSignal and handleDBusManagement), `WriteHostCopy`, `SendToHost`,
`WriteContainer`, `ReplyUnavailable`, `Take` (handleUpstream up to the write),
`RememberHostUnique`, `SendToClient`, `ReadFails`, `Close`, `CloseConn`,
`CloseReturns`, `Finish`. The environment sends, answers, emits and drops
connections.

Abstractions. A name is a model value with the verdict of the rules on it; a match
rule is the name it mentions; a message has the fields the router reads. A
member stands for all members treated by the same case. Socket buffers are
unbounded, so a write never blocks; the handshake is one step with two outcomes.
`via` records which bus's peer the application means by a unique name, the owner of a
name, a caller, or the sender of a signal of the host ("hostSender"): it is not on the
wire, and only the properties read it.

`BusPromise` is the other end of that: an application that talks to the router where
its bus should be sees what it was told, which of it answers what, and whether the
connection lasts. `RouterSession` implements it under the mapping `asked` = messages
sent, `got` = messages in the inbox, `answers` = the answers among them, `open` = the
session is not closed for the application; everything between, the second bus
included, is a stutter.

### Wire and NameLists

State: `buf` and `pending` are `MessageReader.buf` and `pendingFDs`; `hand`, `fds`, `copy`,
`nth` the message a goroutine is working on, its descriptors, those of its copy and
which connection it writes to, `upto` how far the first of two writes got; `mutex` is
`clientWriteMu`; `next` and `wire` which message the other end sends next and what is in
the socket; `out` what was written, byte for byte, and with which descriptors; `open` the
descriptors the router has open.

Actions: `Handshake` (the last read of AuthenticateClient, whose rest becomes the
first bytes of the reader), `ReadMore`, `ReadFails`, `BadHeader`, `TakeFDs` (ReadMessage),
`Lock`, `CopyFDs`, `Write`, `WriteRest`, `WriteFails` (SendToClient, writeHostCopy,
WriteMessage), `CloseFDs`, `CloseReaders`. The other ends send whole messages and may go in
the middle of one.

Abstractions. A message is a few cells, of which the first has the header and carries
the descriptors; reads and writes cut anywhere between cells, and a read never
returns the descriptors of two writes, as the kernel has it. Replies that the router
makes or merges carry no descriptors and are left to `RouterSession`. Applications
send descriptors only after the handshake.

`NameLists` has the bodies of replies to ListNames: `EncodeStringArray`,
`ParseStringArray`, `mergeNameListReplies` and what they use, on bytes. It is checked
by an assumption, `ListsMerge`, that TLC evaluates before the run `wire_fds`: over every
pair of replies with up to two names of lengths 1 to 4, of either byte order, cut short,
or an error, the merged reply reads back as the names of both, each once and in order,
and has the length of its body.

### RouterDaemon

State: `entry` (what `/run/user/UID/lxg` is in each container), `sock` and
`pidFile` (both files in each directory they can be in), `lpc`, `seen`, `addr` (a
login's place, the pid it read, the address it exported), `rpc`, `rpid`, `up`,
`file`, `term` (a router's place, pid, open listener, open pid file, pending
signal). A router goes by the name of the login that starts it. `calm` and
`truth` are history: nothing else happened since a login began, and the files
told the truth then.

One action for each system call: `Unlink`, `Symlink` (SymLinkRun), `StatProxy`,
`ReadPid`, `PidAlive`, `StatSocket` (routerRunning, before and after starting a
router), `RmSocket`, `RmPid`, `Spawn`, `SpawnFails`, `Poll`, `GiveUp`
(EnsureRouter), `Environment` (the choice of the bus address), `StartRemove`,
`Mkdir`, `Listen`, `CreatePid`, `WritePid`, `Chmod`, `CloseListener`, `DropPid`,
`DropSocket`, `Exit` (Router.Start with its deferred calls). The environment
kills and stops routers and restarts containers. `os.WriteFile` is two steps, as
it is in the kernel, and what is written to a removed file is lost.

### HostListen

State: `source`, `target`, `bus`, `sock` (the files), `busy` (mounts that a
process holds), `exit`, `spc`, `err`, `tidy` (the places of services and of the
goroutines that undo mounts), `proxy`, `cancelled`, `signalled`, `errChan`,
`firstErr`. Volatile state is reset by `Start`; what is in the folder is not. `causes` is
history: a call failed, a mount was held or the proxy ended by itself ("fault"), the
signal that stops the daemon ended the proxy ("signal"), LinkX11Auth found no file
("missing").

Actions: `Start`, `Send`, `Cancel`, `Notified`, `Collect`, `Return` (Init), `Glob`,
`Stat`, `Unmount`, `Remove`, `Write`, `Bind`, `Undo`, `TidyUnmount`, `TidyRemove`
(BindMount and its callers), `Check`, `RemoveBus`, `Spawn`, `ProxyCancelled`, `Wait`,
`DropBus` (InitDBus), `RemoveOld`, `Listen`, `Chmod`, `CloseListener`, `DropPath`
(InitSocket). `SysFails` lets any system call fail and sends the service where
its code goes then. The environment kills and stops the daemon, ends the proxy,
makes and removes sources, and holds mounts. The goroutines that undo mounts
take no part in `Return`: nobody waits for them.

Links are interchangeable in the code but for LinkX11Auth, which looks its
source up by a pattern (`Globbed`).

### Bridge

State: `cpc`, `request`, `arrived` (a client: its place, what it asks, whether that is on
the connection), `conn`, `handler`, `reply` (the daemon's end, the place of its goroutine,
the answers written), `cmd`, `waited` (the command and whether somebody waited for it),
`daemon`, `file`. Each client calls once.

Actions: `Stat`, `Dial`, `Encode`, `Decode` (BridgeRequest), `Accept`, `CheckPeer`,
`ReadRequest`, `Deadline`, `StartCommand`, `Wait`, `WriteAnswer`, `WriteError`, `CloseConn`
(InitSocket's goroutine with HandleRequest), `RemoveOld`, `Listen`, `CloseListener`, `Exit`
(InitSocket). The environment kills clients, ends commands, crashes and starts the
daemon. The deadline is ten seconds for reading the request only, so `Deadline` is
possible as long as the handler reads, and never later.

`Linked` says that somebody linked the path clients open to the one the daemon makes;
without it no client gets any further than `Stat` (section 6), and nothing could be
said of the rest.

### LxcSetup

State: `job`, `pc`, `again` (what each run of lxg does, where it is, and whether a setup
is in its last restart), `unit`, `enabled`, `active`, `folder` (systemd and the listen
service), `profile`, `attached`, `running`, `effect`, `script` (LXD and the containers;
`effect` are those started with the profile). `quiet` and `blamed` are history: a
command of this run failed unnoticed, or somebody got in its way.

One action for each command given: `IsActive`, `WriteUnit`, `EnableNow`
(InstallListenService), `ShowProfile`, `CreateProfile`, `LookAtProfile`, `AddProfile`
(SetupProfile, AttachProfile), `IsStopped`, `Stop`, `IsStarted`, `Start` (the loops of
StopContainer and StartContainer), `Exec` (the container's setup, with InstallInitScript,
or the command of a run). `Refuse` is a command that meets a state in which it
cannot work, `Break` one that fails for reasons of its own, `Unnoticed` one that fails
without the caller's taking it for an error, and `GoesOn` says where the run goes then.
That is a command killed by a signal, for which Execute reports -1, while callers compare
with 0, `>= 1` or `> 1`; and exit code 1 of `systemctl daemon-reload` or `systemctl enable`,
which EnableService compares with `> 1` (`service.go:46`, `service.go:58`). The properties
of setups except runs of which a command failed in this way (`quiet`). `Interrupt` and
`Again` are the user.

Taken from how the code uses them: LXD refuses to make a profile or attach it twice, to
start what runs and to stop what does not; a container with the profile starts only
when the folder it mounts is there; containers run or are stopped. AttachProfile
searches the container's name as text, so a name that begins another's (`Begins`)
may be passed over.

## 3. Runs

| Run | Instance | Properties | Shows |
|---|---|---|---|
| `session_calls` | Hello, one request of every kind and a third to a peer, one emission of each bus | `TypeOK`, `AtMostOneAnswer`, `AnsweredByOwner`, `RoutesPeers` | each call is answered at most once, and by the bus that owns what was asked; messages to peers reach their bus |
| `session_drops` | two calls, one lost connection, fair | `TablesMatchDebts`, `AnswerInv`, `CleanExit`, `KeepsPromise`, `EveryCallAnswered`, `TeardownCompletes` | the session implements `BusPromise`; tables match debts; calls are answered; a lost connection ends all |
| `session_collision` | one unique name on both buses | `UniqueDestinationsReachTheirPeer` (violated) | section 6 |
| `wire_fds` | six messages, one fault, fair | `TypeOK`, `KeepsDescriptors`, `StreamsWhole`, `InOrder`, `FdsOwned`, `MessagesRelayed`, `SessionEnds` | descriptors stay with their message and are closed; streams stay framed; all is relayed |
| `daemon_logins` | two logins, one stop or kill, one restart | `TypeOK`, `LoginServed`, `CalmInv`, `KeepsWorkingRouter` | an undisturbed login is served and spares a working router |
| `daemon_shared` | two containers | `OwnRouter` (violated) | section 6 |
| `daemon_stranded` | two logins | `LoginsStayServed` (violated) | section 6 |
| `listen_runs` | two runs, three faults, fair | `TypeOK`, `ExitTellsTruth`, `FailsOnlyForCause`, `NoSocketLeft`, `SourceNotEmptied`, `ListenInv`, `EndsWhenTold` | exit codes, leftovers, and the end of a run |
| `listen_mounts` | one stop, no fault | `MountsUndone` (violated) | section 6 |
| `bridge_requests` | two clients, two runs of the daemon, one fault, fair | `TypeOK`, `ClientLearnsTruth`, `OneAnswer`, `ClientsEnd`, `HandlersEnd`, `CommandsReaped` | clients learn the truth; nobody is held up; no zombies |
| `bridge_isolated` | a container as installed | `OnlyIsolatedAreTold` (violated) | section 6 |
| `setup_runs` | two setups and a stop or run, one fault, one begun again, fair | `TypeOK`, `SetupTakesEffect`, `ServiceInstalled`, `FailsForCause`, `ReportsState`, `RunsEnd` | a setup takes effect; failures have a cause; reports are true |

Why the bounds are enough to be interesting:

* *Sessions.* Messages interact through a serial, so two calls in flight show every
  race between them; a first call is always Hello, as a bus demands, and the second
  is any of the kinds the dispatch tells apart. Meeting a peer and addressing it
  takes a third, so in `session_calls` a third request goes to a peer the second has
  asked about, while the buses emit nothing (`ThirdIsToPeer`). The names of
  peers differ in it; with one on both buses `RoutesPeers` is proved (section 4), and
  `session_collision` shows what else may happen. One drop reaches every place
  of every goroutine; a second adds nothing the first does not start, since a session
  that loses one connection closes the others. `session_drops` has a call with
  NO_REPLY_EXPECTED among its calls, whose entry no answer ever takes away. One emission
  of each bus shows it before, between and after every reply.
* *Logins.* Two logins interleave at every system call, and each may start a
  router. Three pids are one for each router that can be alive and one
  for a stranger. One stop and one restart, at any moment, show every leftover.
* *Listen daemon.* Services meet only through the cancellation and `errChan`, and
  three that can fail (a link, the proxy, the bridge) show every order of errors. A
  second run shows every leftover of the first; three faults let a run be killed, a
  mount be held and one more thing go wrong.
* *Wire.* The application sends Hello, a message of two cells with a descriptor that
  goes to both buses, and a header without sense; its bus a message with two
  descriptors; the host bus one that is dropped and one that is forwarded, each with a
  descriptor. So both bus goroutines meet at the client's mutex, with messages that
  can be written in two pieces, and every reader has messages of different counts of
  descriptors behind each other. One fault is a lost connection or a copy that fails.
* *Bridge.* Handlers share nothing but the daemon, and two clients show what one that
  stalls does to the other. One is not the daemon's user. A crash, a killed client and
  two runs of the daemon leave connections and commands of every kind behind.
* *Set-up.* Two setups of different containers share profile and service; one of the
  names begins the other's. The third run stops or uses the first container. One
  fault and one run begun again let a setup meet what an interrupted one has left.

Deadlock is checked everywhere. `Rest` in each module names the states in which the
system may stop: nothing to read, all logins at an end, the daemon serving or ended
for good.

### Fairness

Liveness is checked under `FairSpec`. In `RouterSession` each goroutine is weakly
fair: Go's scheduler runs what can run, and a write to an unbounded socket
returns. A bus answers each call it was sent, as the D-Bus specification asks of
it (weak fairness of `BusReply` for each serial). The application is never obliged to
send, nor a bus to emit, nor a connection to break. In `HostListen` goroutines are weakly
fair, and so is the end of a cancelled proxy, because `WaitDelay` kills it after
two seconds. Starting, stopping and faults are not. In both modules an action that
is disabled by another step (a note taken away, a proxy that has ended) is not
needed any more, so weak fairness is enough. `RouterDaemon` has no liveness
property: `EnsureRouter` gives up after two seconds, whatever happens.

In `Wire` the goroutines are weakly fair, and a mutex that is free is taken by somebody:
Go's mutex hands over to whoever waits. Other ends need not send. In `Bridge` accepting, handlers, the
goroutine that waits for a command, the deadline and the reading of an answer are
weakly fair; a client need not send its request, a command need not end, and nobody
starts or stops the daemon. In `LxcSetup` every command ends and its run goes on; that the
service makes its folder is not promised. `RunsEnd` allows for a livelock the code has: a run that
stops a container and one that starts it may each find the other's work undone, and
go round for ever, since the loops have no limit.

## 4. What is proved

| Theorem | Says, for every value of the constants |
|---|---|
| `SessionTypeOK` | types of `RouterSession` |
| `SessionRoutesPeers` | `RoutesPeers` |
| `SessionAnswersOnce` | `AtMostOneAnswer` |
| `SessionKeepsPromise` | `KeepsPromise`: the session implements `BusPromise` |
| `SessionRoutingInv`, `SessionAnswerInv` | the invariants behind routing and answers |
| `SessionEndsClean` | `CleanExit` |
| `SessionTablesMatch` | `TablesMatchDebts` |
| `SessionAnswersOwned` | `AnsweredByOwner` |
| `WireTypes` | types of `Wire` |
| `WireKeepsDescriptors` | `KeepsDescriptors` |
| `WireStreamsWhole` | `StreamsWhole` |
| `WireInOrder` | `InOrder` |
| `WireFdsOwned` | `FdsOwned` |
| `DaemonTypeOK` | types of `RouterDaemon` |
| `DaemonServesLogin` | `LoginServed` |
| `DaemonKeepsWorkingRouter` | `KeepsWorkingRouter` |
| `DaemonCalmInv`, `DaemonSparesInv` | the invariants behind those two |
| `ListenTypeOK` | types of `HostListen` |
| `ListenExitTellsTruth` | `ExitTellsTruth` |
| `ListenFailsOnlyForCause` | `FailsOnlyForCause` |
| `ListenNoSocketLeft` | `NoSocketLeft` |
| `ListenSourceNotEmptied` | `SourceNotEmptied` |
| `ListenInvHolds` | the invariant behind those four |
| `BridgeTypeOK` | types of `Bridge` |
| `BridgeTellsTruth` | `ClientLearnsTruth` |
| `BridgeAnswersOnce` | `OneAnswer` |
| `BridgeHandlersKnow` | the invariant behind those two |
| `SetupTypeOK` | types of `LxcSetup` |
| `SetupsTakeEffect` | `SetupTakesEffect` |
| `ServicesInstalled` | `ServiceInstalled` |
| `SetupInvHolds` | the invariant behind those two |
| `SetupFailsForCause` | `FailsForCause` |
| `SetupReportsState` | `ReportsState` |

Assumptions: `SessionAssumption`, `WireAssumption`, `DaemonAssumption`,
`ListenAssumption`, `BridgeAssumption` and `SetupAssumption` say what
kinds of things the constants are (names of different kinds are different, a
well-known name is not a unique one, a bus's message goes to the application or
nowhere, bounds are natural numbers). TLC evaluates
them in every run, and no theorem assumes anything else: the buses may number their peers
alike, and applications may address senders of signals.

**Routing** (`RoutingInv`). What the code can promise with one set of host names is
`RoutesPeers`: a message to a peer the application knows as an owner on the host never
goes to the container, and one to a peer of the container goes to the host only if the
host has a peer of that name (`session_collision` shows that it then may). Of senders of
signals, which the set does not know, it says nothing. That is not inductive by
itself: one has to know that every owner on the host the application has been told of is
already in `hostUniqueNames`. The invariant says so of everything in the application's inbox
and of everything a goroutine is about to hand over (`TrafficSound`), that the set
holds host names only and the tables talk about messages that were sent
(`TablesSound`), that the application addresses what it was told of (`SentSound`), and that
the client goroutine's plan fits the message it holds (`PlanSound`). The step that matters
is `RememberHostUnique`, which comes before the hand-over.

**One answer** (`AnswerInv`). A call may be answered while it is *unsettled*: not
dispatched, waiting for the host's forwarded reply, in an open merge, or owed by the
container. The invariant says that no answer to an unsettled call is in the inbox or
on its way there, that the two upstream goroutines never carry answers to the same
call, that a bus answers once what it was sent, and that the tables hold one entry
for a serial, of one kind. Then each hand-over settles its call.

**One bus** (`KeepsPromise`). Every step of a session is a step of `BusPromise` or leaves what
the application sees alone. The only step that could break the promise is a
hand-over: it appends to the inbox, so it is a `Tell` or an `Answer`, and the latter needs
the call to have been asked and not answered yet. The second is `AnswerInv`; the first
needs that whatever a goroutine holds answers a message that the client goroutine has
read (`HeldAsked`), which follows from what the buses were written.

**The end** (`ExitInv`). Whoever wins the `CompareAndSwap` of `Close` is at `closing` until
no connection is open, no other goroutine passes `close` before `closed` is set, and
none is opened later because dialling comes before the loops. `Finish` waits for the
rest.

**Tables** (`DebtsInv`). `TablesMatchDebts` is about what a bus still owes (`Owes`), but not
only: noteHostPending does not look at the flags of a call, so one with NO_REPLY_EXPECTED
leaves an entry that nothing takes away before the session ends (`Lingers`;
`router.go:328`). The property names these entries as the only ones nobody owes an answer
to; it is no bound on the table, and the code has none. A call that is
noted but not yet written is owed nothing either. So the invariant adds what the client goroutine
is about to do (`PlannedDebts`: what it will copy or forward is noted, and not on the host
connection yet), and that a return is addressed to a peer (`ReturnsGoToPeers`), as the
dispatch notes whatever goes to the bus itself. A failed write takes the note back and
leaves the debt unmade; a reply that is read is found in exactly one table, by
`AnswerInv`, and pays one debt.

**Owners** (`OwnerInv`). An answer is the right owner's when it is taken off the wire, and must
stay so until the application has it. The second half is the longer one: what `FromOwner` says
of a message depends on what was written and replied, which grow; but a call with an
answer under way is settled (`AnswerInv`), so nothing is written for it any more, and a bus
replies once (`RepliesOwned`, `StaySettled`). For the first half, each way to an answer leads
to the owner: a note of kind forward is never of Hello, AddMatch or ListNames
(`TablesOwned`); the container gets no call for a host name, nor a question about one
(`AsksHost`: RequestName, GetNameOwner, NameHasOwner) while there is a host, and if the host
was asked for its list, the container's reply finds an open merge (`WritesOwned`); the parts of
a merge are the buses' own replies; and the router's own error answers what was written to
nobody. Whether there is a host is settled before the client goroutine reads its first
message, so it is the same when a question is dispatched and when it is answered.

**Wire** (`WireInv`). Between the other end and a message in hand the cells of a stream stand one
after the other, in the socket or in the buffer (`StreamOK`), and the pending descriptors are
those of the headers in the buffer, of which there are never more than two, since a reader
asks for more only when the first message is not complete and a read stops at the
descriptors of a second (`PendingOK`). A message in hand has its own descriptors (`HandOK`);
what a goroutine has half written ends a connection that it has to itself, by the mutex or
because nobody else writes there (`RestOK`, `LastOK`); what is on a connection was meant for it,
and all that is done is there (`OutOK`, `HasOK`). `KeepsDescriptors`, `StreamsWhole` and `InOrder`
then say of what is appended by one write how it fits what was there. `FdsOwned` is
kept by every step that does not lose a descriptor between two owners (`Owned`). Facts about
the cells between two places need an induction over positions, which the lemma
`Climb` gives for a set of numbers instead of a predicate: it follows from the
pigeonhole principle for finite sets.

**Logins** (`CalmInv`). `LoginServed` speaks of logins that had the container to
themselves. The invariant follows such a login: what it knows at each place
(`LoginKnows`: after `rmPid` both files are gone, at `statSocket` the pid is alive),
and how far its router has come (`RouterHas`: until it listens the directory is
empty, then socket and pid file are its own). That nobody else is active is part of
being calm, and every step of another process ends it.

**Working routers** (`SparesInv`). A login that has the container to itself removes
the socket only from `rmSocket`, so the invariant says that no router of its
container works by then. It gets there from three places: the pid file was absent
or empty, the pid it read is that of no process (and still the one in the file), or
there was no socket. The login's own router is the only one that can move
meanwhile, and by then the socket is that router's or absent. Unlike
`LoginServed` this needs no `truth`: files that lie may keep a login from a router,
never cost a router its socket.

**Listen daemon** (`ListenInv`). `ErrorsTold`: an error of a service's own is made
before it is sent, and once sent it is in the channel or has reached `firstErr`;
`SocketsOwned`: a socket exists only while the service that will remove it is
between making and removing it; `CausesNoted`: without a fault in this run no mount is
still there at `remove`, no source is gone at `bind`, no service but the proxy has an error
of its own, and a proxy that ended before the group was cancelled got the signal that
stops the daemon. `FailsOnlyForCause` follows: what earlier runs left makes no run fail. It
leaves two ways to fail without a fault, which section 6 has: the signal that ends the
proxy first, and a panic when LinkX11Auth finds no file. Types need `ErrorsTold` too, because what is sent must be an error.

**Bridge** (`BridgeInv`). `HandlerKnows`: what a handler has behind it at each place (no
command before `start`, a command that was waited for at `answer` if the client waits,
none at `refuse` unless the client is gone) and that an answer is written only on
the way to `close`. `AnswerKnows`: what an answer says is so of the command, and stays
so. An error after a failed answer is harmless only because the answer fails when the
client has gone, and that is in the invariant.

**Set-up** (`SetupInv`). `Behind` says what a setup has behind it at each place: the
service, the profile, the script, and in its last restart that the container, if it
runs, has started with the profile. That the others keep this is the point: they
attach and install but take nothing away, and a container that another run starts
in between starts with the profile too (`StepsGrow`, `OthersKeep`, `MoverKeeps`).
`FailsForCause` and `ReportsState` need what a run has seen (its container runs, does not,
has the profile) to be still so unless it was `blamed`, in invariants of their own.

## 5. What is only model-checked

Every safety property and the refinement that a run checks and finds true is proved. Out of the
prover's reach is liveness (`EveryCallAnswered`, `TeardownCompletes`, `EndsWhenTold`,
`MessagesRelayed`, `SessionEnds`, `ClientsEnd`, `HandlersEnd`, `CommandsReaped`, `RunsEnd`), with
`ENABLED`, and so is `NameLists`: it is recursion over bytes throughout, and what a
recursive definition computes for every input cannot be proved. These hold on the instances
above.

The invariants that the proofs rest on and no run lists (`RoutingInv`, `ExitInv`, `DebtsInv`, `OwnerInv`,
`WireInv`) were found with TLC on the instances of `session_calls`, `session_drops` and
`wire_fds`, where they hold; their proofs make a run of their own needless.

## 6. Where the code and its word part

Each is a run that TLC refutes; the counterexample is the trace.

* `session_collision`: unique names are numbered by each bus on its own. Once
  `:1.5` of the host is remembered, messages to `:1.5` of the container go to the
  host (`router.go:308`).
* `daemon_shared`: all containers share one socket and pid file while a pid means
  something in one of them only; a login in a second container replaces the first
  container's router, whose applications are then served by the wrong one.
* `daemon_stranded`: a router is taken for running before its Chmod (`router.go:88`). When a
  second login has removed the link just then, on its way to replace it (`init.go:20`),
  Chmod fails and the router ends; the first
  login has its address already, and if the second one sees the pid still alive, it
  starts no other. Both end well, one of them with an address where nobody listens.
* `listen_mounts`: the goroutines that unmount are not waited for; the process may
  end first, and then the mounts stay.
* `bridge_isolated`: clients look for `lxg.bridge` in the user's runtime directory, the
  daemon makes `lxg/bridge`. Every container is told that it is isolated
  (`client.go:21`, `socket.go:19`).

The models show more, without a run that refutes a property of its own:

* Between `os.Remove` and `os.Symlink` of SymLinkRun what routers do below the link finds
  nothing (`init.go:20`). A starting router's `os.MkdirAll` makes a directory where the
  link should be (`RouterDaemon`: `Mkdir` between `Unlink` and `Symlink`). And a router that
  fails to start then cannot remove its socket, so three logins may leave files that
  lie: a router whose login gave up listens; a second login takes its socket for a
  leftover and removes it, that router records its pid all the same, and the second
  login's own router listens. A third login removes the link: the second router's pid file
  cannot be written, its removals of the socket miss, and then the link is back. The pid
  file names the first router, which lives, the socket is of the second, which is gone,
  and routerRunning takes that for a router for ever.
* After a restart of the container the old pid may be any process, and EnsureRouter takes
  it, with the old socket file, for a router (`PidReuse`; `LoginServed` speaks of files that
  tell the truth for that reason).
* Signals of the host are forwarded with their sender, whose name is not remembered
  (`router.go:540`): what the application sends to it goes to the container
  (`RouterSession`: requests with `via` "hostSender").
* An error of the proxy counts unless the group is cancelled by then (`dbus.go:76`). The
  signal that stops the daemon is sent to its proxy too, by a terminal and by systemd,
  whose default is the whole control group; when the proxy ends first, a plain stop is
  reported as a failure (`HostListen`: `ProxySignalled`, then `Wait` before `Notified`).
* LinkX11Auth indexes an empty list when there is no Xwayland authority file
  (`x11.go:50`), and the whole daemon goes down (`HostListen`: `Glob`), where every other link
  service skips a source that is not there.

## 7. What is not modelled, and why

* Blocking writes: sockets are unbounded, so a session whose application does not
  read is not seen to hold up both upstream goroutines.
* The exchange of lines of SASL: a table of fixed answers without state; the session
  sees its outcome, and `Wire` the bytes behind BEGIN. Nothing bounds how long a client
  may take.
* The fields of a message's header (ParseHeader) and how patterns match strings: what
  matters of them, the fields and the verdicts, is given in the messages and names of
  an instance. Lengths are small numbers; 32-bit arithmetic on them is not explored.
* Links and variables of InitEnvironment for audio and display: each login replaces
  links one by one, and looks through a link to see whether it is there, so that a
  link that leads nowhere is not removed and stops the login's variables, as two first
  logins that make the same link at once do. Only its choice of the bus address is in
  `RouterDaemon`.
* Unique names that come and go: those of an instance are fixed, so the growth of
  `hostUniqueNames` and names that are used again are not explored.
* Which file a pattern finds when several match, and mounts of files that were
  replaced: sources have no identity in `HostListen`.
* The container's own set-up beyond the script (a check for a user, which only
  prints), the dispatch on arguments, and help: no state to explore.
