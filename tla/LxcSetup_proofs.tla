--------------------------- MODULE LxcSetup_proofs ---------------------------
(***************************************************************************)
(* Proofs about LxcSetup, for any runs of lxg on any containers: a setup   *)
(* that is done has taken effect, and the service it needs is installed.   *)
(* What a setup has behind it (SetupInv) is only ever added to by others;  *)
(* the one thing they can take away, a running container, they can only    *)
(* give back with the profile in effect.                                   *)
(***************************************************************************)
EXTENDS LxcSetup, TLAPS

-----------------------------------------------------------------------------
(* Type correctness. *)

\* Every variable has its type in the first state.
LEMMA InitType == Init => TypeOK
<1> SUFFICES ASSUME Init PROVE TypeOK
    OBVIOUS
<1>1. job \in [Procs -> Jobs]
      BY DEF Init
<1>2. \A j \in Jobs : Begin(j) \in Places
      BY DEF Begin, Jobs, Places, GoesOn
<1>3. pc \in [Procs -> Places]
      BY <1>1, <1>2 DEF Init
<1> QED
    BY <1>1, <1>3 DEF Init, TypeOK

\* Every step keeps the types.
LEMMA NextType == TypeOK /\ [Next]_vars => TypeOK'
<1> SUFFICES ASSUME TypeOK, [Next]_vars PROVE TypeOK'
    OBVIOUS
<1> USE SetupAssumption DEF TypeOK, Places, Goto, Ended
<1>1. CASE UNCHANGED vars
      BY <1>1 DEF vars, runVars, hostVars, lxdVars, blameVars, bounds
<1>2. CASE MakeFolder
      BY <1>2 DEF MakeFolder, runVars, lxdVars, blameVars, bounds
<1>3. ASSUME NEW p \in Procs, IsActive(p) \/ WriteUnit(p) \/ EnableNow(p)
      PROVE  TypeOK'
      BY <1>3 DEF IsActive, WriteUnit, EnableNow, GoesOn,
           hostVars, lxdVars, blameVars, bounds
<1>4. ASSUME NEW p \in Procs, ShowProfile(p) \/ CreateProfile(p) \/ LookAtProfile(p)
      PROVE  TypeOK'
      BY <1>4 DEF ShowProfile, CreateProfile, LookAtProfile, Disturb, GoesOn,
           hostVars, lxdVars, blameVars, bounds
<1>5. ASSUME NEW p \in Procs, AddProfile(p) PROVE TypeOK'
      BY <1>5 DEF AddProfile, Disturb, GoesOn, hostVars, bounds
<1>6. ASSUME NEW p \in Procs, IsStopped(p) \/ IsStarted(p) PROVE TypeOK'
      BY <1>6 DEF IsStopped, IsStarted, AfterDown, AfterUp, GoesOn,
           hostVars, lxdVars, blameVars, bounds
<1>7. ASSUME NEW p \in Procs, Stop(p) PROVE TypeOK'
      BY <1>7 DEF Stop, Halt, Disturb, GoesOn, hostVars, bounds
<1>8. ASSUME NEW p \in Procs, Start(p) PROVE TypeOK'
      BY <1>8 DEF Start, Boot, Disturb, GoesOn, hostVars, bounds
<1>9. ASSUME NEW p \in Procs, Exec(p) PROVE TypeOK'
      BY <1>9 DEF Exec, InstallInitScript, GoesOn, hostVars, blameVars, bounds
<1>10. ASSUME NEW p \in Procs, Refuse(p) \/ Break(p) \/ Interrupt(p) PROVE TypeOK'
      BY <1>10 DEF Refuse, Break, Interrupt, GoesOn, hostVars, lxdVars, blameVars, bounds
<1>11. ASSUME NEW p \in Procs, Unnoticed(p) PROVE TypeOK'
  <2>1. GoesOn[pc[p]] \in Places
        BY <1>11 DEF Unnoticed, GoesOn
  <2> QED
      BY <2>1, <1>11 DEF Unnoticed, hostVars, lxdVars, bounds
<1>12. ASSUME NEW p \in Procs, Again(p) PROVE TypeOK'
  <2>1. PICK j \in Does[p] : job' = [job EXCEPT ![p] = j] /\ Goto(p, Begin(j))
        BY <1>12 DEF Again
  <2>2. j \in Jobs /\ Begin(j) \in Places
        BY DEF Begin, Jobs, GoesOn
  <2> QED
      BY <2>1, <2>2, <1>12 DEF Again, hostVars, lxdVars
<1> QED
    BY <1>1, <1>2, <1>3, <1>4, <1>5, <1>6, <1>7, <1>8, <1>9, <1>10, <1>11, <1>12
    DEF Next, Step, Rest

\* Every variable has its type in every state.
THEOREM SetupTypeOK == Spec => []TypeOK
<1>1. Init => TypeOK
      BY InitType
<1>2. TypeOK /\ [Next]_vars => TypeOK'
      BY NextType
<1> QED
    BY <1>1, <1>2, PTL DEF Spec

-----------------------------------------------------------------------------
(* What any step does to what a setup has behind it. *)

\* Nothing is undone; and where the profile is attached, a container that does not run
\* without its effect will not.
Grows ==
  /\ unit => unit'
  /\ enabled => enabled'
  /\ attached \subseteq attached'
  /\ script \subseteq script'
  /\ \A c \in attached : (c \in running => c \in effect) => (c \in running' => c \in effect')

\* Every step adds to what is there.
LEMMA StepsGrow == TypeOK /\ [Next]_vars => Grows
<1> SUFFICES ASSUME TypeOK, [Next]_vars PROVE Grows
    OBVIOUS
<1> USE DEF Grows, TypeOK
<1>1. CASE UNCHANGED vars
      BY <1>1 DEF vars, hostVars, lxdVars
<1>2. CASE MakeFolder
      BY <1>2 DEF MakeFolder, lxdVars
<1>3. ASSUME NEW p \in Procs, Step(p) PROVE Grows
  <2>1. CASE Stop(p)
        BY <2>1 DEF Stop, Halt, hostVars
  <2>2. CASE Start(p)
        BY <2>2 DEF Start, Boot, hostVars
  <2>3. CASE IsActive(p) \/ WriteUnit(p) \/ EnableNow(p) \/ Refuse(p)
        BY <2>3 DEF IsActive, WriteUnit, EnableNow, Refuse, hostVars, lxdVars
  <2>4. CASE ShowProfile(p) \/ CreateProfile(p) \/ LookAtProfile(p) \/ AddProfile(p)
        BY <2>4 DEF ShowProfile, CreateProfile, LookAtProfile, AddProfile, hostVars, lxdVars
  <2>5. CASE IsStopped(p) \/ IsStarted(p) \/ Exec(p)
        BY <2>5 DEF IsStopped, IsStarted, Exec, InstallInitScript, hostVars, lxdVars
  <2> QED
      BY <1>3, <2>1, <2>2, <2>3, <2>4, <2>5 DEF Step
<1>4. ASSUME NEW p \in Procs, Break(p) \/ Unnoticed(p) \/ Interrupt(p) \/ Again(p)
      PROVE  Grows
      BY <1>4 DEF Break, Unnoticed, Interrupt, Again, hostVars, lxdVars
<1> QED
    BY <1>1, <1>2, <1>3, <1>4 DEF Next, Rest

\* Who is mistaken for another stays so.
LEMMA MistakenStays == ASSUME NEW c, Grows, Mistaken(c) PROVE Mistaken(c)'
BY DEF Grows, Mistaken

\* A run that does not move keeps what it has behind it.
LEMMA OthersKeep ==
  ASSUME NEW p \in Procs, Grows, Behind(p),
         pc'[p] = pc[p], again'[p] = again[p]
  PROVE  Behind(p)'
<1>1. Mistaken(Of[p]) => Mistaken(Of[p])'
      BY MistakenStays
<1>2. pc[p] \in Restarted => pc[p] \in Attached
      BY DEF Restarted, Attached
<1> QED
    BY <1>1, <1>2 DEF Behind, Grows

-----------------------------------------------------------------------------
(* The inductive invariant. *)

\* The setups have nothing behind them at first.
LEMMA InitSetup == Init => SetupInv
BY DEF Init, SetupInv, Behind, Begin, Installed, Attached, Restarted, Ended

\* A run that moves has behind it what its new place asks for.
LEMMA MoverKeeps ==
  ASSUME TypeOK, SetupInv, Grows, NEW p \in Procs,
         Step(p), job[p] = "setup", p \notin quiet
  PROVE  Behind(p)'
<1> DEFINE c == Of[p]
<1>1. Behind(p)
      BY DEF SetupInv
<1>2. Mistaken(c) => Mistaken(c)'
      BY MistakenStays
<1> USE DEF Goto, TypeOK, Installed, Attached, Restarted, Behind, SetupInv, Ended
<1>3. CASE IsActive(p) \/ WriteUnit(p) \/ EnableNow(p)
      BY <1>1, <1>3 DEF IsActive, WriteUnit, EnableNow, hostVars, lxdVars
<1>4. CASE ShowProfile(p) \/ CreateProfile(p)
      BY <1>1, <1>4 DEF ShowProfile, CreateProfile, hostVars, lxdVars
<1>5. CASE LookAtProfile(p) \/ AddProfile(p)
      BY <1>1, <1>5, <1>2 DEF LookAtProfile, AddProfile, Listed, Mistaken, hostVars, lxdVars
<1>6. CASE IsStopped(p)
      BY <1>1, <1>6, <1>2 DEF IsStopped, AfterDown, hostVars, lxdVars
<1>7. CASE IsStarted(p)
      BY <1>1, <1>7, <1>2 DEF IsStarted, AfterUp, hostVars, lxdVars
<1>8. CASE Stop(p)
      BY <1>1, <1>8, <1>2 DEF Stop, Halt, hostVars
<1>9. CASE Start(p)
      BY <1>1, <1>9, <1>2 DEF Start, Boot, hostVars
<1>10. CASE Exec(p)
      BY <1>1, <1>10, <1>2 DEF Exec, InstallInitScript, hostVars
<1>11. CASE Refuse(p)
      BY <1>1, <1>11 DEF Refuse, hostVars, lxdVars
<1> QED
    BY <1>3, <1>4, <1>5, <1>6, <1>7, <1>8, <1>9, <1>10, <1>11 DEF Step

\* Every step keeps it.
LEMMA NextSetup == TypeOK /\ SetupInv /\ [Next]_vars => SetupInv'
<1> SUFFICES ASSUME TypeOK, SetupInv, [Next]_vars PROVE SetupInv'
    OBVIOUS
<1>1. Grows
      BY StepsGrow
<1>2. (active => enabled)' /\ (enabled => unit)'
  <2> USE DEF SetupInv
  <2>1. CASE UNCHANGED vars
        BY <2>1 DEF vars, hostVars
  <2>2. CASE MakeFolder
        BY <2>2 DEF MakeFolder
  <2>3. ASSUME NEW p \in Procs, Step(p) PROVE (active => enabled)' /\ (enabled => unit)'
        BY <2>3 DEF Step, IsActive, WriteUnit, EnableNow, ShowProfile, CreateProfile,
             LookAtProfile, AddProfile, IsStopped, IsStarted, Stop, Start, Exec, Refuse,
             InstallInitScript, hostVars
  <2>4. ASSUME NEW p \in Procs, Break(p) \/ Unnoticed(p) \/ Interrupt(p) \/ Again(p)
        PROVE  (active => enabled)' /\ (enabled => unit)'
        BY <2>4 DEF Break, Unnoticed, Interrupt, Again, hostVars
  <2> QED
      BY <2>1, <2>2, <2>3, <2>4 DEF Next, Rest
<1>3. ASSUME NEW p \in Procs, job'[p] = "setup", p \notin quiet' PROVE Behind(p)'
  <2>1. CASE UNCHANGED <<job, pc, again, quiet>>
    <3>1. Behind(p)
          BY <2>1, <1>3 DEF SetupInv
    <3> QED
        BY <1>1, <2>1, <3>1, OthersKeep
  <2>2. ASSUME NEW q \in Procs, Step(q) PROVE Behind(p)'
    <3>1. job' = job /\ quiet' = quiet
          BY <2>2 DEF Step, IsActive, WriteUnit, EnableNow, ShowProfile, CreateProfile,
               LookAtProfile, AddProfile, IsStopped, IsStarted, Stop, Start, Exec, Refuse,
               InstallInitScript, blameVars
    <3>2. CASE p = q
          BY <1>1, <1>3, <2>2, <3>1, <3>2, MoverKeeps
    <3>3. CASE p # q
      <4>1. pc'[p] = pc[p] /\ again'[p] = again[p]
            BY <2>2, <3>3 DEF Step, IsActive, WriteUnit, EnableNow, ShowProfile,
                 CreateProfile, LookAtProfile, AddProfile, IsStopped, IsStarted, Stop,
                 Start, Exec, Refuse, Goto, TypeOK
      <4>2. Behind(p)
            BY <1>3, <3>1 DEF SetupInv
      <4> QED
          BY <1>1, <4>1, <4>2, OthersKeep
    <3> QED
        BY <3>2, <3>3
  <2>3. ASSUME NEW q \in Procs, Break(q) \/ Interrupt(q) PROVE Behind(p)'
    <3>1. job' = job /\ quiet' = quiet /\ again' = again
          BY <2>3 DEF Break, Interrupt, blameVars
    <3>2. Behind(p)
          BY <1>3, <3>1 DEF SetupInv
    <3>3. CASE p # q
      <4>1. pc'[p] = pc[p]
            BY <2>3, <3>3 DEF Break, Interrupt, Goto, TypeOK
      <4> QED
          BY <1>1, <3>1, <3>2, <4>1, OthersKeep
    <3>4. CASE p = q
      <4>1. pc'[p] \in {"failed", "killed"}
            BY <2>3, <3>4 DEF Break, Interrupt, Goto, TypeOK
      <4> QED
          BY <1>1, <3>1, <3>2, <4>1 DEF Behind, Grows, Installed, Attached, Restarted, Ended
    <3> QED
        BY <3>3, <3>4
  <2>4. ASSUME NEW q \in Procs, Unnoticed(q) PROVE Behind(p)'
    <3>1. p # q /\ job' = job /\ again' = again /\ p \notin quiet
          BY <1>3, <2>4 DEF Unnoticed
    <3>2. pc'[p] = pc[p]
          BY <2>4, <3>1 DEF Unnoticed, Goto, TypeOK
    <3>3. Behind(p)
          BY <1>3, <3>1 DEF SetupInv
    <3> QED
        BY <1>1, <3>1, <3>2, <3>3, OthersKeep
  <2>5. ASSUME NEW q \in Procs, Again(q) PROVE Behind(p)'
    <3>1. PICK j \in Does[q] : job' = [job EXCEPT ![q] = j] /\ Goto(q, Begin(j))
          BY <2>5 DEF Again
    <3>2. again' = [again EXCEPT ![q] = FALSE] /\ quiet' = quiet \ {q}
          BY <2>5 DEF Again
    <3>3. CASE p = q
      <4>1. pc'[p] = "active" /\ again'[p] = FALSE
            BY <1>3, <3>1, <3>2, <3>3 DEF Begin, Goto, TypeOK
      <4> QED
          BY <4>1 DEF Behind, Installed, Attached, Restarted
    <3>4. CASE p # q
      <4>1. pc'[p] = pc[p] /\ again'[p] = again[p] /\ job'[p] = job[p]
            BY <3>1, <3>2, <3>4 DEF Goto, TypeOK
      <4>2. Behind(p)
            BY <1>3, <3>2, <3>4, <4>1 DEF SetupInv
      <4> QED
          BY <1>1, <4>1, <4>2, OthersKeep
    <3> QED
        BY <3>3, <3>4
  <2> QED
      BY <2>1, <2>2, <2>3, <2>4, <2>5
      DEF Next, MakeFolder, Rest, vars, runVars, blameVars
<1> QED
    BY <1>2, <1>3 DEF SetupInv

\* What a setup has behind it holds in every state.
THEOREM SetupInvHolds == Spec => []SetupInv
<1>1. Init => TypeOK /\ SetupInv
      BY InitType, InitSetup
<1>2. TypeOK /\ SetupInv /\ [Next]_vars => (TypeOK /\ SetupInv)'
      BY NextType, NextSetup
<1> QED
    BY <1>1, <1>2, PTL DEF Spec

-----------------------------------------------------------------------------
(* What follows. *)

\* A setup that is done has taken effect, whatever else ran beside or before it.
THEOREM SetupsTakeEffect == Spec => []SetupTakesEffect
<1>1. SetupInv => SetupTakesEffect
      BY DEF SetupInv, SetupTakesEffect, SetUp, Behind, Installed, Attached, Restarted
<1> QED
    BY <1>1, SetupInvHolds, PTL

\* The service is installed for good once a setup is done.
THEOREM ServicesInstalled == Spec => []ServiceInstalled
<1>1. SetupInv => ServiceInstalled
      BY DEF SetupInv, ServiceInstalled, SetUp, Behind, Installed
<1> QED
    BY <1>1, SetupInvHolds, PTL

-----------------------------------------------------------------------------
(* Failures and reports: what a run saw of LXD is still so unless another  *)
(* run changed it, and was blamed for that.                                *)

Seen(p) ==
  /\ p \notin blamed \cup quiet =>
       /\ pc[p] = "create" => ~profile
       /\ pc[p] = "look" => profile
       /\ pc[p] = "add"  => profile /\ Of[p] \notin attached
       /\ pc[p] = "stop" => Of[p] \in running
       /\ pc[p] = "start" => Of[p] \notin running
       /\ pc[p] = "exec" => Of[p] \in running
       /\ pc[p] # "failed"
  /\ p \notin blamed /\ pc[p] = "done" => (Of[p] \in running <=> job[p] # "stop")
  /\ job[p] = "stop" => pc[p] \in {"down", "stop"} \cup Ended

SeenInv == \A p \in Procs : Seen(p)

\* The runs have seen nothing at first.
LEMMA InitSeen == Init => SeenInv
<1> SUFFICES ASSUME Init, NEW p \in Procs PROVE Seen(p)
    BY DEF SeenInv
<1>1. pc[p] = Begin(job[p])
      BY DEF Init
<1>2. pc[p] \in {"active", "down", "up"} /\ (job[p] = "stop" => pc[p] = "down")
      BY <1>1 DEF Begin
<1> QED
    BY <1>2 DEF Seen, Ended

\* A run that moves sees what its new place asks for.
LEMMA MoverSees ==
  ASSUME TypeOK, NEW p \in Procs, Seen(p), Step(p) PROVE Seen(p)'
<1> USE DEF Goto, TypeOK, Seen, Ended
<1>1. CASE IsActive(p) \/ WriteUnit(p) \/ EnableNow(p)
      BY <1>1 DEF IsActive, WriteUnit, EnableNow, hostVars, lxdVars, blameVars
<1>2. CASE ShowProfile(p) \/ CreateProfile(p)
      BY <1>2 DEF ShowProfile, CreateProfile, Disturb, hostVars, lxdVars, blameVars
<1>3. CASE LookAtProfile(p) \/ AddProfile(p)
      BY <1>3 DEF LookAtProfile, AddProfile, Listed, Disturb, hostVars, lxdVars, blameVars
<1>4. CASE IsStopped(p)
      BY <1>4 DEF IsStopped, AfterDown, hostVars, lxdVars, blameVars
<1>5. CASE IsStarted(p)
      BY <1>5 DEF IsStarted, AfterUp, hostVars, lxdVars, blameVars
<1>6. CASE Stop(p)
      BY <1>6 DEF Stop, Halt, Disturb, hostVars
<1>7. CASE Start(p)
      BY <1>7 DEF Start, Boot, Disturb, hostVars
<1>8. CASE Exec(p)
      BY <1>8 DEF Exec, InstallInitScript, hostVars, blameVars
<1>9. CASE Refuse(p)
      BY <1>9 DEF Refuse, Refused, Mountable, CanBoot, hostVars, lxdVars
<1> QED
    BY <1>1, <1>2, <1>3, <1>4, <1>5, <1>6, <1>7, <1>8, <1>9 DEF Step

\* What others do either leaves alone what a run has seen or is blamed for it.
LEMMA OthersAreBlamed ==
  ASSUME TypeOK, NEW p \in Procs, NEW q \in Procs, p # q, Seen(p), Step(q)
  PROVE  Seen(p)'
<1> USE DEF Goto, TypeOK, Seen
<1>1. CASE IsActive(q) \/ WriteUnit(q) \/ EnableNow(q) \/ ShowProfile(q)
      BY <1>1 DEF IsActive, WriteUnit, EnableNow, ShowProfile, hostVars, lxdVars, blameVars
<1>2. CASE CreateProfile(q)
      BY SetupAssumption, <1>2 DEF CreateProfile, Disturb, hostVars, lxdVars, blameVars
<1>3. CASE AddProfile(q)
      BY <1>3 DEF AddProfile, Disturb, hostVars
<1>4. CASE LookAtProfile(q) \/ IsStopped(q) \/ IsStarted(q) \/ Refuse(q)
      BY <1>4 DEF LookAtProfile, IsStopped, IsStarted, Refuse, hostVars, lxdVars, blameVars
<1>5. CASE Stop(q)
      BY <1>5 DEF Stop, Halt, Disturb, hostVars
<1>6. CASE Start(q)
      BY <1>6 DEF Start, Boot, Disturb, hostVars
<1>7. CASE Exec(q)
      BY <1>7 DEF Exec, InstallInitScript, hostVars, blameVars
<1> QED
    BY <1>1, <1>2, <1>3, <1>4, <1>5, <1>6, <1>7 DEF Step

\* Every step keeps it.
LEMMA NextSeen == TypeOK /\ SeenInv /\ [Next]_vars => SeenInv'
<1> SUFFICES ASSUME TypeOK, SeenInv, [Next]_vars, NEW p \in Procs PROVE Seen(p)'
    BY DEF SeenInv
<1>1. Seen(p)
      BY DEF SeenInv
<1>2. CASE UNCHANGED <<runVars, lxdVars, blameVars>>
      BY <1>1, <1>2 DEF Seen, runVars, lxdVars, blameVars
<1>3. ASSUME NEW q \in Procs, Step(q) PROVE Seen(p)'
      BY <1>1, <1>3, MoverSees, OthersAreBlamed
<1>4. ASSUME NEW q \in Procs, Break(q) \/ Interrupt(q) PROVE Seen(p)'
      BY <1>1, <1>4 DEF Seen, Break, Interrupt, Goto, Ended, TypeOK, lxdVars, blameVars
<1>5. ASSUME NEW q \in Procs, Unnoticed(q) PROVE Seen(p)'
  <2>1. CASE p # q
        BY <1>1, <1>5, <2>1 DEF Seen, Unnoticed, Goto, TypeOK, lxdVars
  <2>2. CASE p = q
    <3>1. p \in quiet' /\ pc'[p] # "done" /\ (job[p] = "stop" => pc'[p] \in {"down", "stop"})
          BY <1>1, <1>5, <2>2 DEF Seen, Unnoticed, Goto, GoesOn, Ended, TypeOK
    <3> QED
        BY <1>5, <3>1 DEF Seen, Unnoticed
  <2> QED
      BY <2>1, <2>2
<1>6. ASSUME NEW q \in Procs, Again(q) PROVE Seen(p)'
  <2>1. PICK j \in Does[q] : job' = [job EXCEPT ![q] = j] /\ Goto(q, Begin(j))
        BY <1>6 DEF Again
  <2>2. CASE p # q
        BY <1>1, <1>6, <2>1, <2>2 DEF Seen, Again, Goto, TypeOK, lxdVars
  <2>3. CASE p = q
    <3>1. pc'[p] \in {"active", "down", "up"} /\ (job'[p] = "stop" => pc'[p] = "down")
          BY <2>1, <2>3 DEF Begin, Goto, TypeOK
    <3> QED
        BY <3>1 DEF Seen, Ended
  <2> QED
      BY <2>2, <2>3
<1> QED
    BY <1>2, <1>3, <1>4, <1>5, <1>6 DEF Next, MakeFolder, Rest, vars

\* What runs have seen is so in every state, unless somebody is to blame.
LEMMA SeenHolds == Spec => []SeenInv
<1>1. Init => TypeOK /\ SeenInv
      BY InitType, InitSeen
<1>2. TypeOK /\ SeenInv /\ [Next]_vars => (TypeOK /\ SeenInv)'
      BY NextType, NextSeen
<1> QED
    BY <1>1, <1>2, PTL DEF Spec

\* What an earlier run left behind makes no later one fail.
THEOREM SetupFailsForCause == Spec => []FailsForCause
<1>1. SeenInv => FailsForCause
      BY DEF SeenInv, Seen, FailsForCause
<1> QED
    BY <1>1, SeenHolds, PTL

\* A start or stop that is done tells the truth about the container.
THEOREM SetupReportsState == Spec => []ReportsState
<1>1. SeenInv => ReportsState
      BY DEF SeenInv, Seen, ReportsState
<1> QED
    BY <1>1, SeenHolds, PTL
=============================================================================
