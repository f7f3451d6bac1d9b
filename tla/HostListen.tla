----------------------------- MODULE HostListen -----------------------------
(***************************************************************************)
(* "lxg listen", the daemon of the host (host/init.go): a group of         *)
(* services, each a goroutine, that live and die together.  The link       *)
(* services bind mount a display or audio socket of the user into the run  *)
(* folder and return (host/run); a goroutine of each undoes the mount when *)
(* the group is cancelled.  "proxy" runs xdg-dbus-proxy (host/dbus) and    *)
(* "bridge" accepts requests of containers (host/bridge/socket.go).  A     *)
(* service that fails cancels the group, and so does a signal.             *)
(*                                                                         *)
(* What the daemon makes outlives it: mounts and sockets stay in the run   *)
(* folder when it is killed, and the next run, which systemd starts after  *)
(* a failure, finds them.  A step is one system call or one access to what *)
(* the goroutines share.                                                   *)
(***************************************************************************)
EXTENDS Naturals, Sequences, FiniteSets

CONSTANTS
  Links,      \* the link services: Wayland, PipeWire, ...
  Globbed,    \* those that look their source up by a pattern: LinkX11Auth
  MaxRuns,    \* bound: starts of the daemon
  MaxFaults   \* bound: things that go wrong, over all runs

Services == Links \cup {"proxy", "bridge"}

ASSUME ListenAssumption ==
  /\ IsFiniteSet(Links) /\ Globbed \subseteq Links
  /\ {"proxy", "bridge"} \cap Links = {}
  /\ MaxRuns \in Nat /\ MaxFaults \in Nat

VARIABLES
  source,     \* links whose source exists
  target,     \* what is at the target of each link: "none", "file", "mount"
  busy,       \* links with a process that has the mounted file open
  bus,        \* the proxy's socket file: "none", "live" or "dead"
  sock,       \* the bridge's socket file
  exit,       \* how the last run ended; "none" while the daemon runs
  spc, err,   \* where each service is, and the error it will return
  tidy,       \* where the goroutine is that undoes each mount
  proxy,      \* the process of the proxy: "none", "run", "ok" or "error"
  cancelled,  \* groupCtx is done
  signalled,  \* SIGINT or SIGTERM was sent to this run
  errChan, firstErr,
  runs, faults,
  causes      \* history: what has happened in this run that may make it fail

folder  == <<target, bus, sock>>
group   == <<spc, err, cancelled, errChan>>
bounds  == <<runs, faults>>
vars == <<source, busy, folder, group, exit, tidy, proxy, signalled, firstErr,
          bounds, causes>>

Running == exit = "none"

\* The first place of each service.
Entry(s) == CASE s = "proxy" -> "check" [] s = "bridge" -> "rmOld"
              [] s \in Globbed -> "glob" [] OTHER -> "stat"

\* Nothing of a run is left but what it made in the run folder.
Init ==
  /\ source \in SUBSET Links /\ busy = {}
  /\ target = [m \in Links |-> "none"] /\ bus = "none" /\ sock = "none"
  /\ exit = "ok"
  /\ spc = [s \in Services |-> "done"] /\ err = [s \in Services |-> "none"]
  /\ tidy = [m \in Links |-> "none"]
  /\ proxy = "none" /\ cancelled = FALSE /\ signalled = FALSE
  /\ errChan = <<>> /\ firstErr = "none"
  /\ runs = 0 /\ faults = 0 /\ causes = {}

Goto(s, place) == spc' = [spc EXCEPT ![s] = place]
At(s, place)   == Running /\ spc[s] = place

\* The service goes on to return an error.
Failing(s, place, e) ==
  /\ Goto(s, place)
  /\ err' = [err EXCEPT ![s] = e]

others == <<source, busy, exit, tidy, proxy, signalled, firstErr, bounds, causes>>

\* Service s goes on; what it does to the run folder is up to the action.
Moves(s, from, to) ==
  /\ At(s, from)
  /\ Goto(s, to)
  /\ UNCHANGED <<others, err, cancelled, errChan>>
-----------------------------------------------------------------------------
(* Init of host/init.go. *)

\* The goroutines of all services start; systemd runs the daemon again after
\* a failure, a session or the user at any time.
Start ==
  /\ ~Running /\ runs < MaxRuns
  /\ exit' = "none" /\ runs' = runs + 1
  /\ spc' = [s \in Services |-> Entry(s)] /\ err' = [s \in Services |-> "none"]
  /\ tidy' = [m \in Links |-> "none"] /\ proxy' = "none"
  /\ cancelled' = FALSE /\ signalled' = FALSE
  /\ errChan' = <<>> /\ firstErr' = "none"
  /\ causes' = IF busy = {} THEN {} ELSE {"fault"}
  /\ UNCHANGED <<source, busy, folder, faults>>

\* errChan <- err
Send(s) ==
  /\ At(s, "fail")
  /\ Len(errChan) < Cardinality(Services)
  /\ errChan' = Append(errChan, err[s])
  /\ Goto(s, "cancel")
  /\ UNCHANGED <<others, folder, err, cancelled>>

\* Mutant: a service that fails leaves the others running.
CancelSkipped(s) ==
  /\ Moves(s, "cancel", "done")
  /\ UNCHANGED folder

Cancel(s) ==
  /\ At(s, "cancel")
  /\ cancelled' = TRUE
  /\ Goto(s, "done")
  /\ UNCHANGED <<others, folder, err, errChan>>

\* signal.NotifyContext
Notified ==
  /\ Running /\ signalled /\ ~cancelled
  /\ cancelled' = TRUE
  /\ UNCHANGED <<others, folder, spc, err, errChan>>

\* Mutant: context.Canceled counts as an error.
CollectAny ==
  /\ Running /\ errChan # <<>>
  /\ firstErr' = IF firstErr = "none" THEN Head(errChan) ELSE firstErr
  /\ errChan' = Tail(errChan)
  /\ UNCHANGED <<source, busy, folder, spc, err, cancelled, exit, tidy, proxy,
                 signalled, bounds, causes>>

\* Mutant: an error replaces the one before it.
CollectLast ==
  /\ Running /\ errChan # <<>>
  /\ firstErr' = IF Head(errChan) # "canceled" THEN Head(errChan) ELSE "none"
  /\ errChan' = Tail(errChan)
  /\ UNCHANGED <<source, busy, folder, spc, err, cancelled, exit, tidy, proxy,
                 signalled, bounds, causes>>

\* The loop that keeps the first error that is not context.Canceled.
Collect ==
  /\ Running /\ errChan # <<>>
  /\ firstErr' = IF firstErr = "none" /\ Head(errChan) # "canceled"
                 THEN Head(errChan) ELSE firstErr
  /\ errChan' = Tail(errChan)
  /\ UNCHANGED <<source, busy, folder, spc, err, cancelled, exit, tidy, proxy,
                 signalled, bounds, causes>>

\* All services have returned, errChan is closed and empty; the process ends and
\* with it the goroutines nobody waits for.
Return ==
  /\ Running /\ \A s \in Services : spc[s] = "done"
  /\ errChan = <<>>
  /\ exit' = IF firstErr = "none" THEN "ok" ELSE "error"
  /\ UNCHANGED <<source, busy, folder, group, tidy, proxy, signalled, firstErr,
                 bounds, causes>>

-----------------------------------------------------------------------------
(* BindMount and its callers. *)

\* The process ends without a deferred call; its children are killed.
Die(how) ==
  /\ exit' = how
  /\ proxy' = IF proxy = "run" THEN "error" ELSE proxy
  /\ bus' = IF bus = "live" THEN "dead" ELSE bus
  /\ sock' = IF sock = "live" THEN "dead" ELSE sock
  /\ UNCHANGED <<source, busy, target, group, tidy, signalled, firstErr, runs>>

\* LinkX11Auth takes matches[0], which panics when nothing matches.
Glob(m) ==
  \/ /\ m \in source
     /\ Moves(m, "glob", "stat")
     /\ UNCHANGED folder
  \/ /\ m \notin source /\ At(m, "glob")
     /\ Die("panic")
     /\ causes' = causes \cup {"missing"}
     /\ UNCHANGED faults

\* A source that is not there is skipped.
Stat(m) ==
  /\ Moves(m, "stat", IF m \in source THEN "unmount" ELSE "done")
  /\ UNCHANGED folder

\* Mutant: what an earlier run mounted stays mounted.
UnmountSkipped(m) ==
  /\ Moves(m, "unmount", "remove")
  /\ UNCHANGED folder

\* The result of unmounting is ignored.
Unmounted(m) == IF target[m] = "mount" /\ m \notin busy THEN "file" ELSE target[m]

Unmount(m) ==
  /\ Moves(m, "unmount", "remove")
  /\ target' = [target EXCEPT ![m] = Unmounted(m)]
  /\ UNCHANGED <<bus, sock>>

\* Mutant: no failure to remove the target counts.
RemoveUnchecked(m) ==
  /\ Moves(m, "remove", "write")
  /\ target' = [target EXCEPT ![m] = IF @ = "mount" THEN @ ELSE "none"]
  /\ UNCHANGED <<bus, sock>>

\* A mount point cannot be removed.
Remove(m) ==
  /\ At(m, "remove")
  /\ \/ /\ target[m] # "mount"
        /\ target' = [target EXCEPT ![m] = "none"]
        /\ Goto(m, "write")
        /\ UNCHANGED err
     \/ /\ target[m] = "mount"
        /\ Failing(m, "fail", "own")
        /\ UNCHANGED target
  /\ UNCHANGED <<others, bus, sock, cancelled, errChan>>

\* os.WriteFile makes an empty file, or empties what is mounted there.
Write(m) ==
  /\ Moves(m, "write", "bind")
  /\ target' = [target EXCEPT ![m] = IF @ = "mount" THEN @ ELSE "file"]
  /\ UNCHANGED <<bus, sock>>

\* A mount, and the goroutine that is to undo it; a source that has gone fails.
Bind(m) ==
  /\ At(m, "bind")
  /\ \/ /\ m \in source
        /\ target' = [target EXCEPT ![m] = "mount"]
        /\ tidy' = [tidy EXCEPT ![m] = "unmount"]
        /\ Goto(m, "done")
        /\ UNCHANGED err
     \/ /\ m \notin source
        /\ Failing(m, "undo", "own")
        /\ UNCHANGED <<target, tidy>>
  /\ UNCHANGED <<source, busy, exit, proxy, signalled, firstErr, bounds, causes, bus,
                 sock, cancelled, errChan>>

Undo(m) ==
  /\ Moves(m, "undo", "fail")
  /\ target' = [target EXCEPT ![m] = "none"]
  /\ UNCHANGED <<bus, sock>>

\* The goroutine, which acts only once the group is cancelled.
TidyUnmount(m) ==
  /\ Running /\ cancelled /\ tidy[m] = "unmount"
  /\ target' = [target EXCEPT ![m] = Unmounted(m)]
  /\ tidy' = [tidy EXCEPT ![m] = "remove"]
  /\ UNCHANGED <<source, busy, exit, proxy, signalled, firstErr, bounds, causes, bus,
                 sock, group>>

TidyRemove(m) ==
  /\ Running /\ tidy[m] = "remove"
  /\ target' = [target EXCEPT ![m] = IF @ = "mount" THEN @ ELSE "none"]
  /\ tidy' = [tidy EXCEPT ![m] = "none"]
  /\ UNCHANGED <<source, busy, exit, proxy, signalled, firstErr, bounds, causes, bus,
                 sock, group>>

-----------------------------------------------------------------------------
(* InitDBus: the proxy's service and its process. *)

\* Without a session bus or xdg-dbus-proxy there is nothing to run.
Check ==
  /\ \E next \in {"rmBus", "done"} : Moves("proxy", "check", next)
  /\ UNCHANGED folder

RemoveBus ==
  /\ Moves("proxy", "rmBus", "spawn")
  /\ bus' = "none"
  /\ UNCHANGED <<target, sock>>

\* cmd.Start returns context.Canceled when the group is cancelled already.
Spawn ==
  /\ At("proxy", "spawn")
  /\ \/ /\ ~cancelled
        /\ proxy' = "run"
        /\ Goto("proxy", "wait")
        /\ UNCHANGED err
     \/ /\ cancelled
        /\ Failing("proxy", "dropBus", "canceled")
        /\ UNCHANGED proxy
  /\ UNCHANGED <<source, busy, exit, tidy, signalled, firstErr, bounds, causes,
                 folder, cancelled, errChan>>

ProxyBinds ==
  /\ proxy = "run" /\ bus = "none"
  /\ bus' = "live"
  /\ UNCHANGED <<others, group, target, sock>>

ProxyEnds(how) ==
  /\ proxy = "run"
  /\ proxy' = how
  /\ bus' = IF bus = "live" THEN "dead" ELSE bus
  /\ UNCHANGED <<source, busy, exit, tidy, signalled, firstErr, runs, group, target,
                 sock>>

\* cmd.Cancel sends SIGTERM, and after WaitDelay the process is killed.
ProxyCancelled ==
  /\ cancelled
  /\ \E how \in {"ok", "error"} : ProxyEnds(how)
  /\ UNCHANGED <<faults, causes>>

\* Mutant: the error of a proxy that was told to stop counts too.
WaitCountsAll ==
  /\ At("proxy", "wait") /\ proxy # "run"
  /\ Failing("proxy", "dropBus", IF proxy = "error" THEN "own" ELSE "none")
  /\ UNCHANGED <<others, folder, cancelled, errChan>>

\* cmd.Wait; an error counts only if the group is not cancelled.
Wait ==
  /\ At("proxy", "wait") /\ proxy # "run"
  /\ Failing("proxy", "dropBus", IF proxy = "error" /\ ~cancelled THEN "own" ELSE "none")
  /\ UNCHANGED <<others, folder, cancelled, errChan>>

Returns(s) == Goto(s, IF err[s] = "none" THEN "done" ELSE "fail")

\* Mutant: the socket's file stays.
DropBusSkipped ==
  /\ At("proxy", "dropBus")
  /\ Returns("proxy")
  /\ UNCHANGED <<others, folder, err, cancelled, errChan>>

\* defer os.Remove(proxyPath)
DropBus ==
  /\ At("proxy", "dropBus")
  /\ bus' = "none"
  /\ Returns("proxy")
  /\ UNCHANGED <<others, target, sock, err, cancelled, errChan>>

-----------------------------------------------------------------------------
(* InitSocket. *)

RemoveOld ==
  /\ Moves("bridge", "rmOld", "listen")
  /\ sock' = "none"
  /\ UNCHANGED <<target, bus>>

Listen ==
  /\ Moves("bridge", "listen", "chmod")
  /\ sock' = "live"
  /\ UNCHANGED <<target, bus>>

Chmod ==
  /\ Moves("bridge", "chmod", "accept")
  /\ UNCHANGED folder

\* The goroutine that waits for the group closes the listener; Accept fails with
\* net.ErrClosed and ends the loop.
CloseListener ==
  /\ At("bridge", "accept") /\ cancelled
  /\ sock' = "none"
  /\ Goto("bridge", "dropPath")
  /\ UNCHANGED <<others, target, bus, err, cancelled, errChan>>

\* defer os.Remove(socketPath), defer listener.Close()
DropPath ==
  /\ At("bridge", "dropPath")
  /\ sock' = "none"
  /\ Returns("bridge")
  /\ UNCHANGED <<others, target, bus, err, cancelled, errChan>>

-----------------------------------------------------------------------------
(* What goes wrong, and the environment. *)

Fault == faults < MaxFaults /\ faults' = faults + 1 /\ causes' = causes \cup {"fault"}

\* A system call of service s fails; where the service goes on from there.  The
\* call at "stat" also stands for os.MkdirAll, which follows it.
AfterFailure(s) ==
  CASE spc[s] \in {"stat", "remove", "write", "rmBus", "rmOld", "listen"} -> "fail"
    [] spc[s] = "bind"  -> "undo"
    [] spc[s] = "spawn" -> "dropBus"
    [] spc[s] = "chmod" -> "dropPath"
    [] OTHER -> "none"

SysFails(s) ==
  /\ Running /\ AfterFailure(s) # "none"
  /\ Failing(s, AfterFailure(s), "own")
  /\ Fault
  /\ UNCHANGED <<source, busy, folder, exit, tidy, proxy, signalled, firstErr, runs,
                 cancelled, errChan>>

\* The proxy ends by itself.
ProxyDies ==
  /\ \E how \in {"ok", "error"} : ProxyEnds(how)
  /\ Fault

\* The signal that stops the daemon reaches its children too.
ProxySignalled ==
  /\ signalled
  /\ ProxyEnds("error")
  /\ causes' = causes \cup {"signal"}
  /\ UNCHANGED faults

Crash == Running /\ Die("killed") /\ Fault

Stop ==
  /\ Running /\ ~signalled
  /\ signalled' = TRUE
  /\ UNCHANGED <<source, busy, folder, group, exit, tidy, proxy, firstErr, bounds,
                 causes>>

Appear(m) ==
  /\ m \notin source
  /\ source' = source \cup {m}
  /\ UNCHANGED <<busy, folder, group, exit, tidy, proxy, signalled, firstErr, bounds,
                 causes>>

Vanish(m) ==
  /\ m \in source
  /\ source' = source \ {m}
  /\ Fault
  /\ UNCHANGED <<busy, folder, group, exit, tidy, proxy, signalled, firstErr, runs>>

\* A process opens the mounted file, which keeps it from being unmounted.
Hold(m) ==
  /\ target[m] = "mount" /\ m \notin busy
  /\ busy' = busy \cup {m}
  /\ Fault
  /\ UNCHANGED <<source, folder, group, exit, tidy, proxy, signalled, firstErr, runs>>

LetGo(m) ==
  /\ m \in busy
  /\ busy' = busy \ {m}
  /\ UNCHANGED <<source, folder, group, exit, tidy, proxy, signalled, firstErr, bounds,
                 causes>>

-----------------------------------------------------------------------------
BindMount(m) == Stat(m) \/ Unmount(m) \/ Remove(m) \/ Write(m) \/ Bind(m) \/ Undo(m)
Tidy(m)      == TidyUnmount(m) \/ TidyRemove(m)
InitDBus     == Check \/ RemoveBus \/ Spawn \/ Wait \/ DropBus
InitSocket   == RemoveOld \/ Listen \/ Chmod \/ CloseListener \/ DropPath
Fails(s)     == Send(s) \/ Cancel(s)

Environment ==
  \/ \E s \in Services : SysFails(s)
  \/ ProxyBinds \/ ProxyDies \/ ProxySignalled \/ Crash \/ Stop
  \/ \E m \in Links : Appear(m) \/ Vanish(m) \/ Hold(m) \/ LetGo(m)

\* The daemon has ended for good, or serves and nothing happens.
Rest ==
  /\ IF Running THEN ~cancelled /\ \A s \in Services : spc[s] \in {"done", "wait", "accept"}
     ELSE runs = MaxRuns
  /\ UNCHANGED vars

Next ==
  \/ Start
  \/ \E m \in Links : Glob(m) \/ BindMount(m) \/ Tidy(m)
  \/ InitDBus \/ ProxyCancelled \/ InitSocket
  \/ \E s \in Services : Fails(s)
  \/ Notified \/ Collect \/ Return
  \/ Environment
  \/ Rest

Spec == Init /\ [][Next]_vars

\* Goroutines run, system calls return, and the proxy is killed two seconds after
\* it was told to stop.  Nobody is obliged to start or to stop the daemon, and
\* nothing has to go wrong.
Fairness ==
  /\ \A m \in Links : WF_vars(Glob(m) \/ BindMount(m)) /\ WF_vars(Tidy(m))
  /\ WF_vars(InitDBus) /\ WF_vars(ProxyCancelled) /\ WF_vars(InitSocket)
  /\ \A s \in Services : WF_vars(Fails(s))
  /\ WF_vars(Notified) /\ WF_vars(Collect) /\ WF_vars(Return)

FairSpec == Spec /\ Fairness
-----------------------------------------------------------------------------
(***************************************************************************)
(* Properties.                                                             *)
(***************************************************************************)
LinkPlaces   == {"glob", "stat", "unmount", "remove", "write", "bind", "undo"}
ProxyPlaces  == {"check", "rmBus", "spawn", "wait", "dropBus"}
BridgePlaces == {"rmOld", "listen", "chmod", "accept", "dropPath"}

\* Each service is at a place of its own code, and the error Init keeps is never
\* that the group was cancelled.
TypeOK ==
  /\ source \subseteq Links /\ busy \subseteq Links
  /\ target \in [Links -> {"none", "file", "mount"}]
  /\ bus \in {"none", "live", "dead"} /\ sock \in {"none", "live", "dead"}
  /\ exit \in {"none", "ok", "error", "panic", "killed"}
  /\ spc \in [Services -> {"fail", "cancel", "done"} \cup LinkPlaces
                            \cup ProxyPlaces \cup BridgePlaces]
  /\ \A m \in Links : spc[m] \in {"fail", "cancel", "done"} \cup LinkPlaces
  /\ spc["proxy"] \in {"fail", "cancel", "done"} \cup ProxyPlaces
  /\ spc["bridge"] \in {"fail", "cancel", "done"} \cup BridgePlaces
  /\ err \in [Services -> {"none", "own", "canceled"}]
  /\ tidy \in [Links -> {"none", "unmount", "remove"}]
  /\ proxy \in {"none", "run", "ok", "error"}
  /\ cancelled \in BOOLEAN /\ signalled \in BOOLEAN
  /\ causes \subseteq {"fault", "signal", "missing"}
  /\ errChan \in Seq({"own", "canceled"})
  /\ firstErr \in {"none", "own"}
  /\ runs \in 0..MaxRuns /\ faults \in 0..MaxFaults

Returned == exit \in {"ok", "error"}

\* Init returns an error exactly when a service failed by itself: a service that
\* only found the group cancelled never makes an ordinary stop look like a
\* failure, and never hides one.
ExitTellsTruth ==
  Returned => (exit = "error" <=> \E s \in Services : err[s] = "own")

\* What a run that was killed or stopped left in the folder, the next one puts
\* right: no run ends in an error or a panic for it.  Unless a call fails, a mount
\* is held or the proxy ends by itself, a run panics only because LinkX11Auth found
\* no file, and returns an error only when it was told to stop and the same signal
\* ended the proxy, which is then the one service that has failed.
FailsOnlyForCause ==
  "fault" \notin causes =>
    /\ exit = "panic" => "missing" \in causes
    /\ exit = "error" =>
         "signal" \in causes /\ \A s \in Services \ {"proxy"} : err[s] # "own"

\* When Init has returned no proxy is left running, and the files of the sockets
\* this run has made are gone.
NoSocketLeft ==
  Returned =>
    /\ proxy # "run" /\ (proxy # "none" => bus = "none")
    /\ sock # "live" /\ (sock # "none" => \E s \in Services : err[s] = "own")

\* BindMount never writes through a mount that is still there, which would empty
\* the user's own file.
SourceNotEmptied == \A m \in Links : At(m, "write") => target[m] # "mount"

\* Once told to stop, by a signal or by a service that failed, the daemon ends.
EndsWhenTold ==
  (Running /\ (signalled \/ \E s \in Services : err[s] # "none")) ~> ~Running

\* BindMount, "Clean up when context is cancelled": no mount survives a run that
\* ended in order, when nothing held it or failed.
MountsUndone ==
  Returned /\ causes = {} => \A m \in Links : tidy[m] = "none"

-----------------------------------------------------------------------------
(***************************************************************************)
(* Why the safety properties hold.                                         *)
(***************************************************************************)
\* An error of a service's own has reached firstErr or is on its way there.
HasOwn(q) == \E i \in 1..Len(q) : q[i] = "own"
OwnSent   == firstErr = "own" \/ HasOwn(errChan)

\* Errors are made before "fail", sent after it, and none is lost or made up.
ErrorsTold ==
  /\ \A s \in Services :
       /\ spc[s] \in {"fail", "undo"} => err[s] # "none"
       /\ err[s] # "none" =>
            spc[s] \in {"undo", "dropBus", "dropPath", "fail", "cancel", "done"}
       /\ err[s] = "own" /\ spc[s] \in {"cancel", "done"} => OwnSent
  /\ OwnSent => \E s \in Services : err[s] = "own"
  /\ Returned =>
       /\ errChan = <<>> /\ \A s \in Services : spc[s] = "done"
       /\ exit = "error" <=> firstErr = "own"

\* A socket's file is there only while its owner can still remove it.
SocketsOwned ==
  /\ proxy = "run" => Running /\ spc["proxy"] = "wait"
  /\ Running /\ spc["proxy"] \in {"check", "rmBus", "spawn"} => proxy = "none"
  /\ (Running \/ Returned) /\ proxy # "none" /\ spc["proxy"] \notin {"wait", "dropBus"}
       => bus = "none"
  /\ sock = "live" => Running /\ spc["bridge"] \in {"chmod", "accept", "dropPath"}
  /\ (Running \/ Returned) /\ spc["bridge"] \in {"fail", "cancel", "done"} /\ sock # "none"
       => err["bridge"] = "own"

\* What can make a service fail has been noted as a cause.
CausesNoted ==
  /\ Running /\ "fault" \notin causes =>
       /\ busy = {}
       /\ \A s \in Services \ {"proxy"} : err[s] # "own"
       /\ err["proxy"] = "own" \/ (proxy \in {"ok", "error"} /\ ~cancelled)
            => "signal" \in causes
       /\ \A m \in Links : spc[m] = "remove" => target[m] # "mount"
       /\ \A m \in Links \ source : spc[m] \notin {"unmount", "remove", "write", "bind"}
  /\ FailsOnlyForCause

\* Inductive, together with TypeOK.
ListenInv == ErrorsTold /\ SocketsOwned /\ CausesNoted /\ SourceNotEmptied
=============================================================================
