------------------------ MODULE RouterDaemon_proofs ------------------------
(***************************************************************************)
(* Proofs about RouterDaemon, for any number of containers, logins, pids,  *)
(* stops and restarts: types, which daemon a login leaves behind, and that *)
(* a login that has the container to itself leaves a working router alone. *)
(***************************************************************************)
EXTENDS RouterDaemon, TLAPS

USE DEF fileVars, loginVars, routerVars, envVars, history

-----------------------------------------------------------------------------
(* Type correctness. *)

LEMMA InitType == Init => TypeOK
  BY DaemonAssumption DEF Init, TypeOK, Dirs

LEMMA LoginType ==
  ASSUME TypeOK, NEW l \in Logins, Login(l)
  PROVE  TypeOK'
<1> USE DaemonAssumption DEF TypeOK, Dirs
<1>1. CASE Begin(l)
  <2>1. calm' \in [Logins -> BOOLEAN]
    BY <1>1, Zenon DEF Begin
  <2>2. truth' \in [Logins -> BOOLEAN]
    BY <1>1 DEF Begin, FilesTrue
  <2>3. lpc'[l] = "unlink" /\ \A x \in Logins \ {l} : lpc'[x] = lpc[x]
    BY <1>1 DEF Begin, Goto
  <2>4. DOMAIN lpc' = Logins /\ lpc' = [x \in Logins |-> lpc'[x]]
    BY <1>1 DEF Begin, Goto
  <2> QED
    BY <1>1, <2>1, <2>2, <2>3, <2>4 DEF Begin
<1>2. CASE Unlink(l)
  <2>1. lpc' \in [Logins -> {"idle", "unlink", "symlink", "statProxy", "readPid",
               "pidAlive", "statSocket", "rmSocket", "rmPid", "spawn", "poll",
               "env", "done", "failed"}]
    BY <1>2 DEF Unlink, Goto
  <2>2. entry' \in [Containers -> {"none", "link", "dir"}]
    BY <1>2 DEF Unlink
  <2> QED
    BY <1>2, <2>1, <2>2 DEF Unlink
<1>3. CASE Symlink(l)
  BY <1>3 DEF Symlink, Goto
<1>4. CASE StatProxy(l)
  BY <1>4 DEF StatProxy, Goto
<1>5. CASE ReadPid(l)
  <2>1. PidIn(Home[l]) \subseteq Pids
    BY DEF PidIn, Dir
  <2> QED
    BY <1>5, <2>1 DEF ReadPid, Goto, NotRunning
<1>6. CASE PidAlive(l)
  BY <1>6 DEF PidAlive, Goto, NotRunning
<1>7. CASE StatSocket(l)
  BY <1>7 DEF StatSocket, Goto, NotRunning
<1>8. CASE RmSocket(l)
  BY <1>8 DEF RmSocket, RemoveSocket, Goto
<1>9. CASE RmPid(l)
  BY <1>9 DEF RmPid, RemovePid, Goto
<1>10. CASE Spawn(l)
  BY <1>10 DEF Spawn, Goto, Free
<1>11. CASE SpawnFails(l)
  BY <1>11 DEF SpawnFails, Goto
<1>12. CASE Poll(l)
  BY <1>12 DEF Poll, Goto
<1>13. CASE GiveUp(l)
  BY <1>13 DEF GiveUp, Goto
<1>14. CASE Environment(l)
  BY <1>14 DEF Environment, Goto
<1> QED
  BY <1>1, <1>2, <1>3, <1>4, <1>5, <1>6, <1>7, <1>8, <1>9, <1>10, <1>11, <1>12, <1>13, <1>14 DEF Login

LEMMA RouterType ==
  ASSUME TypeOK, NEW r \in Logins, RouterStep(r)
  PROVE  TypeOK'
<1> USE DaemonAssumption DEF TypeOK, Dirs
<1>1. CASE StartRemove(r)
  BY <1>1 DEF StartRemove, RemoveSocket, GotoR
<1>2. CASE Mkdir(r)
  BY <1>2 DEF Mkdir, GotoR
<1>3. CASE Listen(r)
  BY <1>3 DEF Listen, GotoR
<1>4. CASE CreatePid(r)
  <2>1. Dir(Home[r]) \subseteq Containers \cup {Shared}
    BY DEF Dir
  <2>2. CASE Dir(Home[r]) = {}
    BY <1>4, <2>2 DEF CreatePid, GotoR
  <2>3. CASE Dir(Home[r]) # {}
    <3>1. PICK d \in Dir(Home[r]) :
            LET f == IF pidFile[d] = None THEN r ELSE pidFile[d].file IN
            /\ pidFile' = [pidFile EXCEPT ![d] = [file |-> f, pid |-> None]]
            /\ file' = [file EXCEPT ![r] = f]
            /\ GotoR(r, "writePid")
      BY <1>4, <2>3 DEF CreatePid
    <3> DEFINE f == IF pidFile[d] = None THEN r ELSE pidFile[d].file
    <3>2. f \in Logins
      BY <2>1
    <3>3. pidFile' = [pidFile EXCEPT ![d] = [file |-> f, pid |-> None]]
      BY <3>1
    <3>4. pidFile' \in [Containers \cup {Shared} ->
                        [file: Logins, pid: Pids \cup {None}] \cup {None}]
      <4> HIDE DEF f
      <4> QED
        BY <3>2, <3>3
    <3>5. file' = [file EXCEPT ![r] = f] /\ rpc' = [rpc EXCEPT ![r] = "writePid"]
      BY <3>1 DEF GotoR
    <3>6. f # None
      BY <3>2
    <3> HIDE DEF f
    <3> QED
      BY <1>4, <3>2, <3>4, <3>5, <3>6 DEF CreatePid
  <2> QED
    BY <2>2, <2>3
<1>5. CASE WritePid(r)
  BY <1>5 DEF WritePid, GotoR
<1>6. CASE Chmod(r)
  BY <1>6 DEF Chmod, GotoR
<1>7. CASE CloseListener(r)
  BY <1>7 DEF CloseListener, RemoveSocket, GotoR
<1>8. CASE DropPid(r)
  BY <1>8 DEF DropPid, RemovePid, GotoR
<1>9. CASE DropSocket(r)
  BY <1>9 DEF DropSocket, RemoveSocket, GotoR
<1>10. CASE Exit(r)
  BY <1>10 DEF Exit, RemoveSocket, GotoR
<1> QED
  BY <1>1, <1>2, <1>3, <1>4, <1>5, <1>6, <1>7, <1>8, <1>9, <1>10 DEF RouterStep

LEMMA DisturbanceType ==
  ASSUME TypeOK, Disturbance
  PROVE  TypeOK'
<1> USE DaemonAssumption DEF TypeOK, Dirs, Disturb
<1>1. CASE \E r \in Logins : Term(r)
  BY <1>1 DEF Term
<1>2. CASE \E r \in Logins : Crash(r)
  BY <1>2 DEF Crash, GotoR, Alive
<1>3. CASE \E c \in Containers : Restart(c)
  BY <1>3 DEF Restart, Alive
<1> QED
  BY <1>1, <1>2, <1>3 DEF Disturbance

LEMMA NextType == TypeOK /\ [Next]_vars => TypeOK'
<1> SUFFICES ASSUME TypeOK, [Next]_vars PROVE TypeOK'
  OBVIOUS
<1>1. CASE UNCHANGED vars
  BY <1>1 DEF vars, TypeOK
<1>2. CASE Rest
  BY <1>2 DEF Rest, vars, TypeOK
<1> QED
  BY <1>1, <1>2, LoginType, RouterType, DisturbanceType DEF Next

\* The files of the run folders, the logins and the routers only ever take the
\* states the code of container/init.go and container/dbus/daemon.go gives them.
THEOREM DaemonTypeOK == Spec => []TypeOK
<1>1. Init => TypeOK
  BY InitType
<1>2. TypeOK /\ [Next]_vars => TypeOK'
  BY NextType
<1> QED
  BY <1>1, <1>2, PTL DEF Spec
-----------------------------------------------------------------------------
(* What an undisturbed login knows: CalmInv. *)

LEMMA InitCalm == Init => CalmInv
  BY DEF Init, CalmInv

\* What a path of a login's container leads to once its link is made.
LEMMA LinkDir ==
  ASSUME NEW c \in Containers, entry[c] = "link"
  PROVE  Dir(c) = {Shared}
  BY DEF Dir

LEMMA UsedPids ==
  ASSUME TypeOK, NEW c \in Containers
  PROVE  Used(c) \subseteq Pids /\ None \notin Used(c)
  BY DaemonAssumption DEF TypeOK, Used, Alive

\* A login's own step leaves it on track or ends it.
LEMMA LoginOnTrack ==
  ASSUME TypeOK, NEW l \in Logins, Login(l), ~Begin(l), OnTrack(l)
  PROVE  lpc'[l] = "failed" \/ OnTrack(l)'
<1> DEFINE c == Home[l]
<1>c. c \in Containers /\ Shared \notin Containers /\ Shared \in Dirs /\ None \notin Logins
  BY DaemonAssumption DEF Dirs
<1>d. entry[c] = "link" => Dir(c) = {Shared}
  BY <1>c, LinkDir
<1>u. None \notin Used(c) /\ Used(c) \subseteq Pids
  BY <1>c, UsedPids
<1> USE <1>c, <1>d, <1>u DEF TypeOK, OnTrack, FilesTrue, LoginKnows, RouterHas, Empty, Bound
<1>1. CASE Unlink(l)
  BY <1>1 DEF Unlink, Goto, Used, Alive
<1>2. CASE Symlink(l)
  BY <1>2 DEF Symlink, Goto, Used, Alive
<1>3. CASE StatProxy(l)
  BY <1>3 DEF StatProxy, Goto, Used, Alive
<1>4. CASE ReadPid(l)
  BY <1>4 DEF ReadPid, Goto, NotRunning, PidIn, Used, Alive
<1>5. CASE PidAlive(l)
  BY <1>5 DEF PidAlive, Goto, NotRunning, Used, Alive
<1>6. CASE StatSocket(l)
  BY <1>6 DEF StatSocket, Goto, NotRunning, Used, Alive
<1>7. CASE RmSocket(l)
  BY <1>7 DEF RmSocket, RemoveSocket, Goto, Used, Alive
<1>8. CASE RmPid(l)
  BY <1>8 DEF RmPid, RemovePid, Goto, Used, Alive
<1>9. CASE Spawn(l)
  BY <1>9 DEF Spawn, Goto, Free, Used, Alive
<1>10. CASE SpawnFails(l)
  BY <1>10 DEF SpawnFails, Goto, Used, Alive
<1>11. CASE Poll(l)
  BY <1>11 DEF Poll, Goto, Used, Alive
<1>12. CASE GiveUp(l)
  BY <1>12 DEF GiveUp, Goto, Used, Alive
<1>13. CASE Environment(l)
  BY <1>13 DEF Environment, Goto, Used, Alive
<1> QED
  BY <1>1, <1>2, <1>3, <1>4, <1>5, <1>6, <1>7, <1>8, <1>9, <1>10, <1>11, <1>12, <1>13 DEF Login

\* Nor does a step of the router it started lead it astray.
LEMMA RouterOnTrack ==
  ASSUME TypeOK, NEW r \in Logins, RouterStep(r), r \notin term, OnTrack(r)
  PROVE  OnTrack(r)' /\ lpc' = lpc
<1> DEFINE c == Home[r]
<1>c. c \in Containers /\ Shared \notin Containers /\ Shared \in Dirs /\ None \notin Logins
  BY DaemonAssumption DEF Dirs
<1>u. None \notin Used(c) /\ Used(c) \subseteq Pids
  BY <1>c, UsedPids
<1>s. rpc[r] # "none"
  BY DEF RouterStep, StartRemove, Mkdir, Listen, CreatePid, WritePid, Chmod, CloseListener, DropPid, DropSocket, Exit
<1>e. entry[c] = "link"
  BY <1>s DEF OnTrack, LoginKnows, RouterHas
<1>d. Dir(c) = {Shared}
  BY <1>c, <1>e, LinkDir
<1> USE <1>c, <1>d, <1>u, <1>e DEF TypeOK, OnTrack, FilesTrue, LoginKnows, RouterHas, Empty, Bound
<1>1. CASE StartRemove(r)
  BY <1>1 DEF StartRemove, RemoveSocket, GotoR, Used, Alive
<1>2. CASE Mkdir(r)
  BY <1>2 DEF Mkdir, GotoR, Used, Alive
<1>3. CASE Listen(r)
  BY <1>3 DEF Listen, GotoR, Used, Alive
<1>4. CASE CreatePid(r)
  BY <1>4 DEF CreatePid, GotoR, Used, Alive
<1>5. CASE WritePid(r)
  BY <1>5 DEF WritePid, GotoR, Used, Alive
<1>6. CASE Chmod(r)
  BY <1>6 DEF Chmod, GotoR, Used, Alive
<1>7. CASE CloseListener(r)
  BY <1>7 DEF CloseListener, RemoveSocket, GotoR, Used, Alive
<1>8. CASE DropPid(r)
  BY <1>8 DEF DropPid, RemovePid, GotoR, Used, Alive
<1>9. CASE DropSocket(r)
  BY <1>9 DEF DropSocket, RemoveSocket, GotoR, Used, Alive
<1>10. CASE Exit(r)
  BY <1>10 DEF Exit, RemoveSocket, GotoR, Used, Alive
<1> QED
  BY <1>1, <1>2, <1>3, <1>4, <1>5, <1>6, <1>7, <1>8, <1>9, <1>10 DEF RouterStep
\* A login begins with what the files say.
LEMMA BeginCalm ==
  ASSUME TypeOK, CalmInv, NEW l \in Logins, Begin(l)
  PROVE  CalmInv'
<1>1. lpc[l] = "idle" /\ lpc' = [lpc EXCEPT ![l] = "unlink"]
  BY DEF Begin, Goto
<1>2. UNCHANGED <<fileVars, seen, addr, routerVars, envVars>>
  BY DEF Begin
<1>3. rpc[l] = "none" /\ l \notin term
  BY <1>1 DEF CalmInv
<1>4. \A x \in Logins : calm'[x] => x = l /\ \A y \in Logins : ~Active(y) /\ Settled(y)
  BY Zenon DEF Begin
<1>5. truth' = [truth EXCEPT ![l] = FilesTrue(Home[l])]
  BY DEF Begin
<1>6. \A r \in term' : rpc'[r] # "none"
  BY <1>2 DEF CalmInv
<1>7. \A x \in Logins : lpc'[x] = "idle" => rpc'[x] = "none" /\ ~calm'[x]
  BY <1>1, <1>2, <1>4 DEF CalmInv, TypeOK
<1>8. ASSUME calm'[l], NEW x \in Logins \ {l} PROVE (~Active(x) /\ Settled(x))'
  BY <1>1, <1>2, <1>4, <1>8 DEF Active, Settled, Alive, TypeOK
<1>9. ASSUME truth'[l] PROVE OnTrack(l)'
  <2>1. FilesTrue(Home[l])
    BY <1>5, <1>9 DEF TypeOK
  <2>2. FilesTrue(Home[l])'
    BY <2>1, <1>2 DEF FilesTrue, Used, Alive
  <2>3. LoginKnows(l)'
    BY <1>1 DEF LoginKnows, TypeOK
  <2>4. RouterHas(l)'
    BY <1>1, <1>2, <1>3 DEF RouterHas, TypeOK
  <2> QED
    BY <2>2, <2>3, <2>4 DEF OnTrack
<1> QED
  BY <1>2, <1>3, <1>4, <1>6, <1>7, <1>8, <1>9 DEF CalmInv

\* Steps of a login after its first leave the others as they are.
LEMMA LoginFrame ==
  ASSUME TypeOK, NEW l \in Logins, Login(l), ~Begin(l)
  PROVE  /\ Active(l)
         /\ term' = term /\ calm' = calm /\ truth' = truth
         /\ lpc'[l] # "idle"
         /\ \A x \in Logins \ {l} : lpc'[x] = lpc[x] /\ rpc'[x] = rpc[x]
         /\ rpc'[l] = rpc[l] \/ rpc'[l] = "remove"
<1> USE DEF TypeOK, Active
<1>1. CASE Unlink(l)
  BY <1>1 DEF Unlink, Goto
<1>2. CASE Symlink(l)
  BY <1>2 DEF Symlink, Goto
<1>3. CASE StatProxy(l)
  BY <1>3 DEF StatProxy, Goto
<1>4. CASE ReadPid(l)
  BY <1>4 DEF ReadPid, Goto, NotRunning
<1>5. CASE PidAlive(l)
  BY <1>5 DEF PidAlive, Goto, NotRunning
<1>6. CASE StatSocket(l)
  BY <1>6 DEF StatSocket, Goto, NotRunning
<1>7. CASE RmSocket(l)
  BY <1>7 DEF RmSocket, Goto
<1>8. CASE RmPid(l)
  BY <1>8 DEF RmPid, Goto
<1>9. CASE Spawn(l)
  BY <1>9 DEF Spawn, Goto
<1>10. CASE SpawnFails(l)
  BY <1>10 DEF SpawnFails, Goto
<1>11. CASE Poll(l)
  BY <1>11 DEF Poll, Goto
<1>12. CASE GiveUp(l)
  BY <1>12 DEF GiveUp, Goto
<1>13. CASE Environment(l)
  BY <1>13 DEF Environment, Goto
<1> QED
  BY <1>1, <1>2, <1>3, <1>4, <1>5, <1>6, <1>7, <1>8, <1>9, <1>10, <1>11, <1>12, <1>13 DEF Login

LEMMA LoginCalm ==
  ASSUME TypeOK, CalmInv, NEW l \in Logins, Login(l), ~Begin(l)
  PROVE  CalmInv'
<1>1. /\ Active(l)
      /\ term' = term /\ calm' = calm /\ truth' = truth
      /\ lpc'[l] # "idle"
      /\ \A x \in Logins \ {l} : lpc'[x] = lpc[x] /\ rpc'[x] = rpc[x]
      /\ rpc'[l] = rpc[l] \/ rpc'[l] = "remove"
  BY LoginFrame
<1>2. \A r \in term' : rpc'[r] # "none"
  BY <1>1 DEF CalmInv, TypeOK
<1>3. \A x \in Logins : lpc'[x] = "idle" => rpc'[x] = "none" /\ ~calm'[x]
  BY <1>1 DEF CalmInv
<1>4. ASSUME NEW x \in Logins, calm'[x]
      PROVE  /\ x = l /\ l \notin term'
             /\ \A y \in Logins \ {l} : (~Active(y) /\ Settled(y))'
             /\ truth'[l] /\ lpc'[l] # "failed" => OnTrack(l)'
  <2>1. x = l
    BY <1>1, <1>4 DEF CalmInv
  <2>2. l \notin term'
    BY <1>1, <1>4, <2>1 DEF CalmInv
  <2>3. \A y \in Logins \ {l} : (~Active(y) /\ Settled(y))'
    BY <1>1, <1>4, <2>1 DEF CalmInv, Active, Settled, Alive
  <2>4. ASSUME truth'[l], lpc'[l] # "failed" PROVE OnTrack(l)'
    <3>1. OnTrack(l)
      BY <1>1, <1>4, <2>1, <2>4 DEF CalmInv, Active
    <3> QED
      BY <3>1, <2>4, LoginOnTrack
  <2> QED
    BY <2>1, <2>2, <2>3, <2>4
<1> QED
  BY <1>2, <1>3, <1>4 DEF CalmInv

\* A router that takes a step is not at rest, and touches no other process.
LEMMA RouterFrame ==
  ASSUME TypeOK, NEW r \in Logins, RouterStep(r)
  PROVE  /\ ~Settled(r) /\ rpc[r] # "none"
         /\ term' = term /\ calm' = calm /\ truth' = truth /\ lpc' = lpc
         /\ rpc'[r] # "none"
         /\ \A x \in Logins \ {r} : rpc'[x] = rpc[x]
<1> USE DEF TypeOK, Settled, Alive, GotoR
<1>1. CASE StartRemove(r)
  BY <1>1 DEF StartRemove
<1>2. CASE Mkdir(r)
  BY <1>2 DEF Mkdir
<1>3. CASE Listen(r)
  BY <1>3 DEF Listen
<1>4. CASE CreatePid(r)
  BY <1>4 DEF CreatePid
<1>5. CASE WritePid(r)
  BY <1>5 DEF WritePid
<1>6. CASE Chmod(r)
  BY <1>6 DEF Chmod
<1>7. CASE CloseListener(r)
  BY <1>7 DEF CloseListener
<1>8. CASE DropPid(r)
  BY <1>8 DEF DropPid
<1>9. CASE DropSocket(r)
  BY <1>9 DEF DropSocket
<1>10. CASE Exit(r)
  BY <1>10 DEF Exit
<1> QED
  BY <1>1, <1>2, <1>3, <1>4, <1>5, <1>6, <1>7, <1>8, <1>9, <1>10 DEF RouterStep

LEMMA RouterCalm ==
  ASSUME TypeOK, CalmInv, NEW r \in Logins, RouterStep(r)
  PROVE  CalmInv'
<1>1. /\ ~Settled(r) /\ rpc[r] # "none"
      /\ term' = term /\ calm' = calm /\ truth' = truth /\ lpc' = lpc
      /\ rpc'[r] # "none"
      /\ \A x \in Logins \ {r} : rpc'[x] = rpc[x]
  BY RouterFrame
<1>2. \A x \in term' : rpc'[x] # "none"
  BY <1>1 DEF CalmInv, TypeOK
<1>3. \A x \in Logins : lpc'[x] = "idle" => rpc'[x] = "none" /\ ~calm'[x]
  BY <1>1 DEF CalmInv
<1>4. ASSUME NEW x \in Logins, calm'[x]
      PROVE  /\ x = r /\ r \notin term'
             /\ \A y \in Logins \ {r} : (~Active(y) /\ Settled(y))'
             /\ truth'[r] /\ lpc'[r] # "failed" => OnTrack(r)'
  <2>1. x = r
    BY <1>1, <1>4 DEF CalmInv
  <2>2. r \notin term
    BY <1>1, <1>4, <2>1 DEF CalmInv
  <2>3. \A y \in Logins \ {r} : (~Active(y) /\ Settled(y))'
    BY <1>1, <1>4, <2>1 DEF CalmInv, Active, Settled, Alive
  <2>4. ASSUME truth'[r], lpc'[r] # "failed" PROVE OnTrack(r)'
    <3>1. OnTrack(r)
      BY <1>1, <1>4, <2>1, <2>4 DEF CalmInv
    <3> QED
      BY <3>1, <2>2, RouterOnTrack
  <2> QED
    BY <1>1, <2>1, <2>2, <2>3, <2>4
<1> QED
  BY <1>2, <1>3, <1>4 DEF CalmInv

LEMMA DisturbanceCalm ==
  ASSUME TypeOK, CalmInv, Disturbance
  PROVE  CalmInv'
<1>1. \A l \in Logins : ~calm'[l]
  BY DEF Disturbance, Term, Crash, Restart, Disturb
<1>2. /\ \A r \in term' : rpc'[r] # "none"
      /\ \A l \in Logins : lpc'[l] = "idle" => rpc'[l] = "none"
  <2>1. CASE \E r \in Logins : Term(r)
    BY <2>1 DEF Term, CalmInv, Alive
  <2>2. CASE \E r \in Logins : Crash(r)
    BY <2>2 DEF Crash, GotoR, CalmInv, Alive, TypeOK
  <2>3. CASE \E c \in Containers : Restart(c)
    BY <2>3 DEF Restart, CalmInv, Alive, TypeOK
  <2> QED
    BY <2>1, <2>2, <2>3 DEF Disturbance
<1> QED
  BY <1>1, <1>2 DEF CalmInv

LEMMA NextCalm == TypeOK /\ CalmInv /\ [Next]_vars => CalmInv'
<1> SUFFICES ASSUME TypeOK, CalmInv, [Next]_vars PROVE CalmInv'
  OBVIOUS
<1>1. CASE UNCHANGED vars
  BY <1>1 DEF vars, CalmInv, Active, Settled, Alive, OnTrack, FilesTrue, Used,
              LoginKnows, RouterHas, Empty, Bound
<1>2. CASE Rest
  BY <1>1, <1>2 DEF Rest
<1>3. ASSUME NEW l \in Logins, Login(l) PROVE CalmInv'
  BY <1>3, BeginCalm, LoginCalm
<1>4. ASSUME NEW r \in Logins, RouterStep(r) PROVE CalmInv'
  BY <1>4, RouterCalm
<1>5. CASE Disturbance
  BY <1>5, DisturbanceCalm
<1> QED
  BY <1>1, <1>2, <1>3, <1>4, <1>5 DEF Next

LEMMA CalmServed == TypeOK /\ CalmInv => LoginServed
<1> SUFFICES ASSUME TypeOK, CalmInv, NEW l \in Logins,
                    lpc[l] = "done", calm[l], truth[l], proxy
             PROVE  addr[l] = "router" /\ \E r \in Logins : ServedBy(Home[l], r)
  BY DEF LoginServed
<1>1. LoginKnows(l)
  BY DEF CalmInv, OnTrack
<1>2. Dir(Home[l]) = {Shared} /\ addr[l] = "router"
  BY <1>1, LinkDir, DaemonAssumption DEF LoginKnows
<1>3. sock[Shared] \in up /\ sock[Shared] \in Logins
  BY <1>1 DEF LoginKnows, TypeOK
<1> QED
  BY <1>2, <1>3 DEF ServedBy

\* A login that had the container to itself, and found files that do not lie,
\* ends with a router serving the address it exports, whatever crashed or
\* half-started routers had left behind.
THEOREM DaemonServesLogin == Spec => []LoginServed
<1>1. Init => TypeOK /\ CalmInv
  BY InitType, InitCalm
<1>2. TypeOK /\ CalmInv /\ [Next]_vars => (TypeOK /\ CalmInv)'
  BY NextType, NextCalm
<1>3. TypeOK /\ CalmInv => LoginServed
  BY CalmServed
<1> QED
  BY <1>1, <1>2, <1>3, PTL DEF Spec

\* What an undisturbed login knows at each place of EnsureRouter, and how far the
\* router it started has come: the invariant DaemonServesLogin rests on.
THEOREM DaemonCalmInv == Spec => []CalmInv
<1>1. Init => TypeOK /\ CalmInv
  BY InitType, InitCalm
<1>2. TypeOK /\ CalmInv /\ [Next]_vars => (TypeOK /\ CalmInv)'
  BY NextType, NextCalm
<1> QED
  BY <1>1, <1>2, PTL DEF Spec
-----------------------------------------------------------------------------
(* What an undisturbed login has seen. *)

\* Its own steps: a login that goes on to remove files has found no working
\* router.
LEMMA LoginSpares ==
  ASSUME TypeOK, NEW l \in Logins, Login(l), ~Begin(l), Spares(l)
  PROVE  Active(l)' => Spares(l)'
<1> DEFINE c == Home[l]
<1>c. c \in Containers /\ Shared \notin Containers /\ Shared \in Dirs /\ None \notin Logins
  BY DaemonAssumption DEF Dirs
<1>d. entry[c] = "link" => Dir(c) = {Shared}
  BY <1>c, LinkDir
<1>u. \A r \in Logins : Home[r] = c /\ Alive(r) => rpid[r] \in Used(c) /\ rpid[r] # None
  BY DEF Used, Alive, TypeOK
<1> USE <1>c, <1>d, <1>u DEF TypeOK, Spares, Working, Active, Alive
<1>1. CASE Unlink(l)
  BY <1>1 DEF Unlink, Goto
<1>2. CASE Symlink(l)
  BY <1>2 DEF Symlink, Goto
<1>3. CASE StatProxy(l)
  BY <1>3 DEF StatProxy, Goto
<1>4. CASE ReadPid(l)
  <2>1. /\ lpc[l] = "readPid" /\ Dir(c) = {Shared}
        /\ UNCHANGED <<entry, sock, pidFile, rpc, rpid, term>>
    BY <1>4 DEF ReadPid
  <2>2. CASE PidIn(c) = {} /\ lpc' = [lpc EXCEPT ![l] = NotRunning(l)]
    <3>1. pidFile[Shared] = None \/ pidFile[Shared].pid = None
      BY <2>1, <2>2 DEF PidIn
    <3>2. \A r \in Logins : Home[r] = c => ~Working(Shared, r)
      BY <2>1, <3>1
    <3>3. \A r \in Logins : Working(Shared, r)' = Working(Shared, r)
      BY <2>1
    <3>4. CASE rpc[l] = "none"
      BY <2>1, <2>2, <3>2, <3>3, <3>4 DEF NotRunning
    <3>5. CASE rpc[l] # "none"
      BY <2>1, <2>2, <3>5 DEF NotRunning
    <3> QED
      BY <3>4, <3>5
  <2>3. CASE /\ \E q \in PidIn(c) : seen' = [seen EXCEPT ![l] = q]
             /\ lpc' = [lpc EXCEPT ![l] = "pidAlive"]
    <3>1. pidFile[Shared] # None /\ PidIn(c) \subseteq {pidFile[Shared].pid}
      BY <2>1, <2>3 DEF PidIn
    <3>2. seen'[l] = pidFile[Shared].pid
      BY <2>3, <3>1
    <3> QED
      BY <2>1, <2>3, <3>1, <3>2
  <2> QED
    BY <1>4, <2>2, <2>3 DEF ReadPid, Goto
<1>5. CASE PidAlive(l)
  BY <1>5 DEF PidAlive, NotRunning, Goto
<1>6. CASE StatSocket(l)
  BY <1>6 DEF StatSocket, NotRunning, Goto
<1>7. CASE RmSocket(l)
  BY <1>7 DEF RmSocket, RemoveSocket, Goto
<1>8. CASE RmPid(l)
  BY <1>8 DEF RmPid, RemovePid, Goto
<1>9. CASE Spawn(l)
  BY <1>9 DEF Spawn, Goto
<1>10. CASE SpawnFails(l)
  BY <1>10 DEF SpawnFails, Goto
<1>11. CASE Poll(l)
  BY <1>11 DEF Poll, Goto
<1>12. CASE GiveUp(l)
  BY <1>12 DEF GiveUp, Goto
<1>13. CASE Environment(l)
  BY <1>13 DEF Environment, Goto
<1> QED
  BY <1>1, <1>2, <1>3, <1>4, <1>5, <1>6, <1>7, <1>8, <1>9, <1>10, <1>11,
     <1>12, <1>13 DEF Login

\* The steps of the router it started.
LEMMA RouterSpares ==
  ASSUME TypeOK, NEW r \in Logins, RouterStep(r), Spares(r), Active(r)
  PROVE  Spares(r)'
<1> DEFINE c == Home[r]
<1>c. c \in Containers /\ Shared \notin Containers /\ Shared \in Dirs /\ None \notin Logins
  BY DaemonAssumption DEF Dirs
<1>s. rpc[r] # "none" /\ rpc'[r] # "none" /\ lpc' = lpc
  BY RouterFrame
<1>e. /\ entry[c] = "link" /\ sock[Shared] \in {None, r}
      /\ lpc[r] \in {"readPid", "pidAlive", "statSocket", "poll", "env"}
  BY <1>s DEF Spares
<1>d. Dir(c) = {Shared}
  BY <1>c, <1>e, LinkDir
<1> USE <1>c, <1>s, <1>e, <1>d DEF TypeOK, Spares
<1>1. CASE StartRemove(r)
  BY <1>1 DEF StartRemove, RemoveSocket, GotoR
<1>2. CASE Mkdir(r)
  BY <1>2 DEF Mkdir, GotoR
<1>3. CASE Listen(r)
  BY <1>3 DEF Listen, GotoR
<1>4. CASE CreatePid(r)
  BY <1>4 DEF CreatePid, GotoR
<1>5. CASE WritePid(r)
  BY <1>5 DEF WritePid, GotoR
<1>6. CASE Chmod(r)
  BY <1>6 DEF Chmod, GotoR
<1>7. CASE CloseListener(r)
  BY <1>7 DEF CloseListener, RemoveSocket, GotoR
<1>8. CASE DropPid(r)
  BY <1>8 DEF DropPid, RemovePid, GotoR
<1>9. CASE DropSocket(r)
  BY <1>9 DEF DropSocket, RemoveSocket, GotoR
<1>10. CASE Exit(r)
  BY <1>10 DEF Exit, RemoveSocket, GotoR
<1> QED
  BY <1>1, <1>2, <1>3, <1>4, <1>5, <1>6, <1>7, <1>8, <1>9, <1>10 DEF
     RouterStep

\* A login begins with the link still to be made.
LEMMA BeginSpares ==
  ASSUME TypeOK, CalmInv, NEW l \in Logins, Begin(l)
  PROVE  \A x \in Logins : calm'[x] => x = l /\ Spares(l)'
<1>1. lpc[l] = "idle" /\ lpc' = [lpc EXCEPT ![l] = "unlink"]
  BY DEF Begin, Goto
<1>2. UNCHANGED <<fileVars, seen, addr, routerVars, envVars>>
  BY DEF Begin
<1>3. rpc[l] = "none"
  BY <1>1 DEF CalmInv
<1>4. \A x \in Logins : calm'[x] => x = l
  BY Zenon DEF Begin
<1> QED
  BY <1>1, <1>2, <1>3, <1>4 DEF Spares, TypeOK

-----------------------------------------------------------------------------
(* SparesInv, and the theorem. *)

LEMMA InitSpares == Init => SparesInv
  BY DEF Init, SparesInv

LEMMA NextSpares ==
  ASSUME TypeOK, CalmInv, SparesInv, [Next]_vars
  PROVE  SparesInv'
<1>1. ASSUME NEW x \in Logins, calm'[x], Active(x)'
      PROVE  Spares(x)'
  <2>1. ASSUME NEW l \in Logins, Login(l) PROVE Spares(x)'
    <3>1. CASE Begin(l)
      BY <1>1, <3>1, BeginSpares
    <3>2. CASE ~Begin(l)
      <4>1. Active(l) /\ calm' = calm
        BY <2>1, <3>2, LoginFrame
      <4>2. x = l
        BY <1>1, <4>1 DEF CalmInv
      <4>3. Spares(l)
        BY <1>1, <4>1, <4>2 DEF SparesInv
      <4> QED
        BY <1>1, <2>1, <3>2, <4>2, <4>3, LoginSpares
    <3> QED
      BY <3>1, <3>2
  <2>2. ASSUME NEW r \in Logins, RouterStep(r) PROVE Spares(x)'
    <3>1. ~Settled(r) /\ calm' = calm /\ lpc' = lpc
      BY <2>2, RouterFrame
    <3>2. x = r /\ Active(r)
      BY <1>1, <3>1 DEF CalmInv, Active
    <3>3. Spares(r)
      BY <1>1, <3>1, <3>2 DEF SparesInv
    <3> QED
      BY <2>2, <3>2, <3>3, RouterSpares
  <2>3. CASE Disturbance
    BY <1>1, <2>3 DEF Disturbance, Term, Crash, Restart, Disturb
  <2>4. CASE UNCHANGED vars
    BY <1>1, <2>4 DEF vars, SparesInv, Spares, Active, Working
  <2>5. CASE Rest
    BY <2>4, <2>5 DEF Rest
  <2> QED
    BY <2>1, <2>2, <2>3, <2>4, <2>5 DEF Next
<1> QED
  BY <1>1 DEF SparesInv

\* What a login's step does to a working router's socket and pid file.
LEMMA LoginKeeps ==
  ASSUME TypeOK, NEW l \in Logins, Login(l), ~Begin(l), Spares(l),
         NEW r \in Logins, Home[r] = Home[l], Working(Shared, r)
  PROVE  Working(Shared, r)'
<1> DEFINE c == Home[l]
<1>c. c \in Containers /\ Shared \notin Containers /\ Shared \in Dirs /\ None \notin Logins
  BY DaemonAssumption DEF Dirs
<1> USE <1>c DEF TypeOK, Spares, Working
<1>1. CASE RmSocket(l)
  BY <1>1 DEF RmSocket
<1>2. CASE RmPid(l)
  BY <1>2 DEF RmPid
<1>3. CASE Spawn(l)
  BY <1>3 DEF Spawn
<1>4. CASE ~RmSocket(l) /\ ~RmPid(l) /\ ~Spawn(l)
  BY <1>4 DEF Login, Begin, Unlink, Symlink, StatProxy, ReadPid, PidAlive,
     StatSocket, SpawnFails, Poll, GiveUp, Environment
<1> QED
  BY <1>1, <1>2, <1>3, <1>4

LEMMA StepKeeps ==
  ASSUME TypeOK, CalmInv, SparesInv, [Next]_vars,
         NEW l \in Logins, NEW r \in Logins,
         Active(l), calm'[l], Home[r] = Home[l], Working(Shared, r)
  PROVE  Working(Shared, r)'
<1>1. ASSUME NEW x \in Logins, Login(x) PROVE Working(Shared, r)'
  <2>1. CASE Begin(x)
    BY <2>1 DEF Begin, Working
  <2>2. CASE ~Begin(x)
    <3>1. Active(x) /\ calm' = calm
      BY <1>1, <2>2, LoginFrame
    <3>2. x = l
      BY <3>1 DEF CalmInv
    <3>3. Spares(l)
      BY <3>1 DEF SparesInv
    <3> QED
      BY <1>1, <2>2, <3>2, <3>3, LoginKeeps
  <2> QED
    BY <2>1, <2>2
<1>2. ASSUME NEW x \in Logins, RouterStep(x) PROVE Working(Shared, r)'
  <2>1. /\ ~Settled(x) /\ rpc[x] # "none" /\ calm' = calm /\ term' = term
        /\ \A y \in Logins \ {x} : rpc'[y] = rpc[y]
    BY <1>2, RouterFrame
  <2>2. x = l
    BY <2>1 DEF CalmInv
  <2>3. sock[Shared] \in {None, x}
    BY <2>1, <2>2 DEF SparesInv, Spares
  <2>4. r = x
    BY <2>3, DaemonAssumption DEF Working
  <2> QED
    BY <2>1, <2>4 DEF Working, Settled
<1>3. CASE Disturbance
  BY <1>3 DEF Disturbance, Term, Crash, Restart, Disturb
<1>4. CASE UNCHANGED vars
  BY <1>4 DEF vars, Working
<1>5. CASE Rest
  BY <1>4, <1>5 DEF Rest
<1> QED
  BY <1>1, <1>2, <1>3, <1>4, <1>5 DEF Next

\* A login that has the container to itself leaves a working router alone: it
\* removes socket and pid file (EnsureRouter) only when routerRunning has seen
\* that no router of its container works with them.
THEOREM DaemonKeepsWorkingRouter == Spec => KeepsWorkingRouter
<1> DEFINE Inv == TypeOK /\ CalmInv /\ SparesInv
           Keeps == \A l, r \in Logins :
                      /\ Active(l) /\ calm'[l] /\ Home[r] = Home[l]
                      /\ Working(Shared, r)
                      => Working(Shared, r)'
<1>1. Init => Inv
  BY InitType, InitCalm, InitSpares
<1>2. Inv /\ [Next]_vars => Inv'
  BY NextType, NextCalm, NextSpares
<1>3. Inv /\ [Next]_vars => [Keeps]_vars
  BY StepKeeps
<1> QED
  BY <1>1, <1>2, <1>3, PTL DEF Spec, KeepsWorkingRouter

\* By the time an undisturbed login removes a socket no router of its container
\* works: the invariant DaemonKeepsWorkingRouter rests on (EnsureRouter).
THEOREM DaemonSparesInv == Spec => []SparesInv
<1> DEFINE Inv == TypeOK /\ CalmInv /\ SparesInv
<1>1. Init => Inv
  BY InitType, InitCalm, InitSpares
<1>2. Inv /\ [Next]_vars => Inv'
  BY NextType, NextCalm, NextSpares
<1> QED
  BY <1>1, <1>2, PTL DEF Spec
=============================================================================
