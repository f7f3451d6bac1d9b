------------------------------ MODULE LxcSetup ------------------------------
(***************************************************************************)
(* "lxg setup", "start", "stop", "restart" and "run" on the host           *)
(* (host/setup.go, host/lxc, host/systemd) and "lxg container setup".      *)
(* Each is a sequence of commands given to systemd and LXD, which others   *)
(* use as well: other runs of lxg, and the user.  Every command is a step. *)
(*                                                                         *)
(* A command does its work, or is refused because of the state it meets,   *)
(* or breaks, or fails unnoticed: one killed by a signal has exit code -1, *)
(* which no caller takes for an error, and systemctl may exit with code 1, *)
(* which EnableService does not either.  A run that is interrupted or      *)
(* fails leaves what it did, and is run again.                             *)
(***************************************************************************)
EXTENDS Naturals, FiniteSets

CONSTANTS
  Procs,       \* runs of lxg
  Containers,
  Does,        \* what each run may be started for
  Of,          \* and the container it is about
  Begins,      \* <<c, d>>: the name of c is the beginning of the name of d
  MaxFaults,   \* bound: commands that fail, noticed or not, and runs interrupted
  MaxAgain     \* bound: runs begun again

Jobs == {"setup", "start", "stop", "restart", "run"}

ASSUME SetupAssumption ==
  /\ Does \in [Procs -> SUBSET Jobs] /\ Of \in [Procs -> Containers]
  /\ Begins \subseteq Containers \X Containers
  /\ MaxFaults \in Nat /\ MaxAgain \in Nat

VARIABLES
  job,        \* what each run does
  pc,         \* where it is
  again,      \* a setup has done the container's part and restarts it
  unit,       \* the unit file of the listen service is written
  enabled,    \* the service is enabled
  active,     \* and has been started
  folder,     \* the service has made /run/user/UID/lxg, which containers mount
  profile,    \* LXD has the profile
  attached,   \* containers that have it
  running,    \* containers that run
  effect,     \* those that were started with the profile
  script,     \* containers that have /etc/profile.d/99-lxg.sh
  quiet,      \* runs of which a command failed unnoticed, and did nothing
  blamed,     \* runs that others got in the way of, or of which a command broke
  faults, agains

hostVars  == <<unit, enabled, active, folder>>
lxdVars   == <<profile, attached, running, effect, script>>
runVars   == <<job, pc, again>>
blameVars == <<quiet, blamed>>
bounds    == <<faults, agains>>
vars == <<runVars, hostVars, lxdVars, blameVars, bounds>>

Ended == {"done", "failed", "killed"}

\* The first place of each job.
Begin(j) == CASE j = "setup" -> "active"
              [] j \in {"stop", "restart"} -> "down"
              [] OTHER -> "up"

Init ==
  /\ job \in {f \in [Procs -> Jobs] : \A p \in Procs : f[p] \in Does[p]}
  /\ pc = [p \in Procs |-> Begin(job[p])]
  /\ again = [p \in Procs |-> FALSE]
  /\ unit = FALSE /\ enabled = FALSE /\ active = FALSE /\ folder = FALSE
  /\ profile = FALSE /\ attached = {} /\ effect = {} /\ script = {}
  /\ running \in SUBSET Containers
  /\ quiet = {} /\ blamed = {}
  /\ faults = 0 /\ agains = 0

Goto(p, where) == pc' = [pc EXCEPT ![p] = where]

\* The others that are at work on these containers, or were, see them change.
Disturb(p, cs) == blamed' = blamed \cup {q \in Procs \ {p} : Of[q] \in cs}

-----------------------------------------------------------------------------
(* systemd: InstallListenService. *)

\* Mutant: a unit file that is there is taken for an installed service.
SkipWrittenUnit(p) ==
  /\ pc[p] = "active"
  /\ Goto(p, IF unit THEN "show" ELSE "unit")
  /\ UNCHANGED <<job, again, hostVars, lxdVars, blameVars, bounds>>

IsActive(p) ==
  /\ pc[p] = "active"
  /\ Goto(p, IF active THEN "show" ELSE "unit")
  /\ UNCHANGED <<job, again, hostVars, lxdVars, blameVars, bounds>>

\* The unit file is written and systemd reloaded.
WriteUnit(p) ==
  /\ pc[p] = "unit"
  /\ unit' = TRUE
  /\ Goto(p, "enable")
  /\ UNCHANGED <<job, again, enabled, active, folder, lxdVars, blameVars, bounds>>

EnableNow(p) ==
  /\ pc[p] = "enable" /\ unit
  /\ enabled' = TRUE /\ active' = TRUE
  /\ Goto(p, "show")
  /\ UNCHANGED <<job, again, unit, folder, lxdVars, blameVars, bounds>>

\* The service is Type=simple: it makes the folder some time after it is active.
MakeFolder ==
  /\ active /\ ~folder /\ folder' = TRUE
  /\ UNCHANGED <<runVars, unit, enabled, active, lxdVars, blameVars, bounds>>

-----------------------------------------------------------------------------
(* LXD: SetupProfile, AttachProfile, StopContainer, StartContainer, exec. *)

ShowProfile(p) ==
  /\ pc[p] = "show"
  /\ Goto(p, IF profile THEN "look" ELSE "create")
  /\ UNCHANGED <<job, again, hostVars, lxdVars, blameVars, bounds>>

CreateProfile(p) ==
  /\ pc[p] = "create" /\ ~profile
  /\ profile' = TRUE
  /\ Disturb(p, Containers)
  /\ Goto(p, "look")
  /\ UNCHANGED <<job, again, hostVars, attached, running, effect, script, quiet, bounds>>

\* Mutant: the profile is attached to every container, seen or not.
LookNotAtAll(p) ==
  /\ pc[p] = "look" /\ profile
  /\ Goto(p, "add")
  /\ UNCHANGED <<job, again, hostVars, lxdVars, blameVars, bounds>>

\* The profile lists who uses it; the container's name is searched as a substring.
Listed(c) == \E d \in attached : c = d \/ <<c, d>> \in Begins

LookAtProfile(p) ==
  /\ pc[p] = "look" /\ profile
  /\ Goto(p, IF Listed(Of[p]) THEN "up" ELSE "add")
  /\ UNCHANGED <<job, again, hostVars, lxdVars, blameVars, bounds>>

\* LXD attaches no profile twice, and to a running container only one it can mount.
Mountable(c) == c \in running => folder

AddProfile(p) ==
  /\ pc[p] = "add" /\ profile /\ Of[p] \notin attached /\ Mountable(Of[p])
  /\ attached' = attached \cup {Of[p]}
  /\ Disturb(p, {Of[p]})
  /\ Goto(p, "down")
  /\ UNCHANGED <<job, again, hostVars, profile, running, effect, script, quiet, bounds>>

AfterDown(p) == IF job[p] = "stop" THEN "done" ELSE "up"
AfterUp(p)   == IF job[p] = "run" \/ (job[p] = "setup" /\ ~again[p]) THEN "exec" ELSE "done"

IsStopped(p) ==
  /\ pc[p] = "down"
  /\ Goto(p, IF Of[p] \in running THEN "stop" ELSE AfterDown(p))
  /\ UNCHANGED <<job, again, hostVars, lxdVars, blameVars, bounds>>

\* Mutant: a container that does not run yet is only looked at again.
WaitForStart(p) ==
  /\ pc[p] = "up"
  /\ Goto(p, IF Of[p] \in running THEN AfterUp(p) ELSE "up")
  /\ UNCHANGED <<job, again, hostVars, lxdVars, blameVars, bounds>>

IsStarted(p) ==
  /\ pc[p] = "up"
  /\ Goto(p, IF Of[p] \in running THEN AfterUp(p) ELSE "start")
  /\ UNCHANGED <<job, again, hostVars, lxdVars, blameVars, bounds>>

Halt(c) == running' = running \ {c} /\ effect' = effect \ {c}
Boot(c) == /\ running' = running \cup {c}
           /\ effect' = IF c \in attached THEN effect \cup {c} ELSE effect

\* A container with the profile does not start before the folder it mounts is there.
CanBoot(c) == c \notin running /\ (c \in attached => folder)

\* Mutant: the container is taken for stopped when the command returns, and the
\* command only asks it to stop.
AskToStop(p) ==
  /\ pc[p] = "stop" /\ Of[p] \in running
  /\ Goto(p, AfterDown(p))
  /\ UNCHANGED <<job, again, hostVars, lxdVars, blameVars, bounds>>

Stop(p) ==
  /\ pc[p] = "stop" /\ Of[p] \in running
  /\ Halt(Of[p])
  /\ Disturb(p, {Of[p]})
  /\ Goto(p, "down")
  /\ UNCHANGED <<job, again, hostVars, profile, attached, script, quiet, bounds>>

Start(p) ==
  /\ pc[p] = "start" /\ CanBoot(Of[p])
  /\ Boot(Of[p])
  /\ Disturb(p, {Of[p]})
  /\ Goto(p, "up")
  /\ UNCHANGED <<job, again, hostVars, profile, attached, script, quiet, bounds>>

\* Mutant: the container's setup returns before it has written the script.
ExecUnwritten(p) ==
  /\ pc[p] = "exec" /\ Of[p] \in running
  /\ again' = [again EXCEPT ![p] = job[p] = "setup"]
  /\ Goto(p, IF job[p] = "setup" THEN "down" ELSE "done")
  /\ UNCHANGED <<job, hostVars, lxdVars, blameVars, bounds>>

\* "lxg container setup" writes the script for login shells over what is there.
InstallInitScript(c) == script' = script \cup {c}

\* Mutant: a setup that finds the container prepared does not restart it.
ExecOnce(p) ==
  /\ pc[p] = "exec" /\ Of[p] \in running
  /\ IF job[p] = "setup" THEN InstallInitScript(Of[p]) ELSE UNCHANGED script
  /\ Goto(p, "done")
  /\ UNCHANGED <<job, again, hostVars, profile, attached, running, effect, blameVars, bounds>>

\* After the container's own setup it is restarted; the command of "lxg run" is of no
\* interest here.
Exec(p) ==
  /\ pc[p] = "exec" /\ Of[p] \in running
  /\ IF job[p] = "setup"
     THEN /\ InstallInitScript(Of[p])
          /\ again' = [again EXCEPT ![p] = TRUE]
          /\ Goto(p, "down")
     ELSE Goto(p, "done") /\ UNCHANGED <<script, again>>
  /\ UNCHANGED <<job, hostVars, profile, attached, running, effect, blameVars, bounds>>

-----------------------------------------------------------------------------
(* Commands that do not do their work. *)

Refused(p) ==
  CASE pc[p] = "create" -> profile
    [] pc[p] = "look"   -> ~profile
    [] pc[p] = "add"    -> ~profile \/ Of[p] \in attached \/ ~Mountable(Of[p])
    [] pc[p] = "stop"   -> Of[p] \notin running
    [] pc[p] = "start"  -> ~CanBoot(Of[p])
    [] pc[p] = "exec"   -> Of[p] \notin running
    [] OTHER -> FALSE

\* Exit code 1 or more.  A folder that is not there yet is not the run's fault.
Refuse(p) ==
  /\ Refused(p)
  /\ blamed' = IF pc[p] \in {"add", "start"} /\ ~folder THEN blamed \cup {p} ELSE blamed
  /\ Goto(p, "failed")
  /\ UNCHANGED <<job, again, hostVars, lxdVars, quiet, bounds>>

Break(p) ==
  /\ pc[p] \notin Ended /\ faults < MaxFaults
  /\ faults' = faults + 1
  /\ blamed' = blamed \cup {p}
  /\ Goto(p, "failed")
  /\ UNCHANGED <<job, again, hostVars, lxdVars, quiet, agains>>

\* Where a run goes on when a command has failed unnoticed: one killed by a signal, as
\* -1 is neither 0 nor 1 or more; and at "enable" a "systemctl daemon-reload" or "enable"
\* that exits with code 1, as EnableService compares with "> 1".
GoesOn == [active |-> "unit", enable |-> "show", show |-> "create",
           create |-> "look", look |-> "add", add |-> "down", down |-> "stop",
           stop |-> "down", up |-> "start", start |-> "up"]

Unnoticed(p) ==
  /\ pc[p] \in DOMAIN GoesOn /\ faults < MaxFaults
  /\ faults' = faults + 1
  /\ quiet' = quiet \cup {p}
  /\ Goto(p, GoesOn[pc[p]])
  /\ UNCHANGED <<job, again, hostVars, lxdVars, blamed, agains>>

-----------------------------------------------------------------------------
(* The user: interrupts a run, and begins one again. *)

Interrupt(p) ==
  /\ pc[p] \notin Ended /\ faults < MaxFaults
  /\ faults' = faults + 1
  /\ Goto(p, "killed")
  /\ UNCHANGED <<job, again, hostVars, lxdVars, blameVars, agains>>

Again(p) ==
  /\ pc[p] \in Ended /\ agains < MaxAgain
  /\ agains' = agains + 1
  /\ \E j \in Does[p] : job' = [job EXCEPT ![p] = j] /\ Goto(p, Begin(j))
  /\ again' = [again EXCEPT ![p] = FALSE]
  /\ quiet' = quiet \ {p} /\ blamed' = blamed \ {p}
  /\ UNCHANGED <<hostVars, lxdVars, faults>>

-----------------------------------------------------------------------------
Step(p) == \/ IsActive(p) \/ WriteUnit(p) \/ EnableNow(p)
           \/ ShowProfile(p) \/ CreateProfile(p) \/ LookAtProfile(p) \/ AddProfile(p)
           \/ IsStopped(p) \/ Stop(p) \/ IsStarted(p) \/ Start(p) \/ Exec(p)
           \/ Refuse(p)

Rest == (\A p \in Procs : pc[p] \in Ended) /\ UNCHANGED vars

Next == \/ \E p \in Procs : Step(p) \/ Break(p) \/ Unnoticed(p) \/ Interrupt(p) \/ Again(p)
        \/ MakeFolder
        \/ Rest

Spec == Init /\ [][Next]_vars

\* A command ends, and the run goes on.
FairSpec == Spec /\ \A p \in Procs : WF_vars(Step(p))

-----------------------------------------------------------------------------
Places == DOMAIN GoesOn \cup {"unit", "exec"} \cup Ended

\* Every variable has its type: a run is at one of its commands, the profile is in effect
\* only where it is attached and the container runs, and what is restarted has its script.
TypeOK ==
  /\ job \in [Procs -> Jobs]
  /\ pc \in [Procs -> Places] /\ again \in [Procs -> BOOLEAN]
  /\ \A p \in Procs : again[p] => Of[p] \in script
  /\ unit \in BOOLEAN /\ enabled \in BOOLEAN /\ active \in BOOLEAN /\ folder \in BOOLEAN
  /\ profile \in BOOLEAN /\ attached \subseteq Containers /\ running \subseteq Containers
  /\ effect \subseteq attached \cap running /\ script \subseteq Containers
  /\ quiet \subseteq Procs /\ blamed \subseteq Procs
  /\ faults \in Nat /\ agains \in Nat

\* A setup that says it is done, and of which no command failed unnoticed.
SetUp(p) == job[p] = "setup" /\ pc[p] = "done" /\ p \notin quiet

\* The name of c begins that of a container with the profile.
Mistaken(c) == \E d \in attached : <<c, d>> \in Begins

\* host/setup.go:24 "Host and container has been configured": whatever else was started,
\* stopped, interrupted or set up meanwhile or before, the container has the script and
\* the profile, and does not run without the profile in effect.  A container that was
\* mistaken for another may have been passed over.
SetupTakesEffect ==
  \A p \in Procs : SetUp(p) =>
    LET c == Of[p] IN
    /\ c \in script
    /\ Mistaken(c) \/ (c \in attached /\ (c \in running => c \in effect))

\* The listen service of a host that was set up is installed for every later login, also
\* when an earlier setup was interrupted halfway or another installed it.
ServiceInstalled == \A p \in Procs : SetUp(p) => unit /\ enabled

\* What a setup that goes well has behind it at each place, and keeps whatever the others
\* do: the service, the profile, the script, and a restart with all of that.
Installed == {"show", "create", "look", "add", "down", "stop", "up", "start", "exec", "done"}
Attached  == {"down", "stop", "up", "start", "exec", "done"}
Restarted == {"up", "start", "done"}

Behind(p) ==
  LET c == Of[p] IN
  /\ pc[p] = "enable" => unit
  /\ pc[p] \in Installed => unit /\ enabled
  /\ pc[p] \in Attached => c \in attached \/ Mistaken(c)
  /\ again[p] => c \in script
  /\ pc[p] = "done" => again[p]
  /\ again[p] => pc[p] \in {"down", "stop", "up", "start"} \cup Ended
  /\ again[p] /\ pc[p] \in Restarted =>
       Mistaken(c) \/ (c \in running => c \in effect)

SetupInv ==
  /\ active => enabled
  /\ enabled => unit
  /\ \A p \in Procs : job[p] = "setup" /\ p \notin quiet => Behind(p)

\* A run that nobody interfered with fails only when a command broke, or the service has
\* not made its folder: what an earlier run left makes no later one fail.
FailsForCause == \A p \in Procs : pc[p] = "failed" => p \in blamed \cup quiet

\* What StartContainer and StopContainer report is so, unless somebody else changed it.
ReportsState ==
  \A p \in Procs : pc[p] = "done" /\ p \notin blamed =>
    (Of[p] \in running <=> job[p] # "stop")

\* The loops of StartContainer and StopContainer end, although others start and stop the
\* container meanwhile: a run ends unless another on its container goes on for ever.  (A
\* run that stops it and one that starts it can keep each other going.)
RunsEnd ==
  \A p \in Procs :
    \/ []<>(pc[p] \in Ended)
    \/ []<>(\E q \in Procs \ {p} : Of[q] = Of[p] /\ pc[q] \notin Ended)
=============================================================================
