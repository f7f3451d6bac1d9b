------------------------- MODULE HostListen_proofs -------------------------
(***************************************************************************)
(* Proofs about HostListen, for any set of links and any number of runs    *)
(* and faults.                                                             *)
(***************************************************************************)
EXTENDS HostListen, TLAPS

USE DEF others, folder, group, bounds, At, Goto, Running, Returned

-----------------------------------------------------------------------------
(* What a queue of errors holds after a send and after a receive. *)

LEMMA HasOwnAppend ==
  ASSUME NEW S, NEW q \in Seq(S), NEW x \in S
  PROVE  HasOwn(Append(q, x)) <=> HasOwn(q) \/ x = "own"
<1>1. Len(Append(q, x)) = Len(q) + 1 /\ Len(q) \in Nat
  OBVIOUS
<1>2. Append(q, x)[Len(q) + 1] = x
  OBVIOUS
<1>3. \A i \in 1..Len(q) : Append(q, x)[i] = q[i]
  OBVIOUS
<1> QED
  BY <1>1, <1>2, <1>3 DEF HasOwn

LEMMA HasOwnTail ==
  ASSUME NEW S, NEW q \in Seq(S), q # <<>>
  PROVE  HasOwn(q) <=> Head(q) = "own" \/ HasOwn(Tail(q))
<1>1. Len(q) \in Nat \ {0} /\ Len(Tail(q)) = Len(q) - 1 /\ Head(q) = q[1]
  OBVIOUS
<1>2. \A i \in 1..Len(Tail(q)) : Tail(q)[i] = q[i + 1]
  OBVIOUS
<1>3. ASSUME HasOwn(q), Head(q) # "own" PROVE HasOwn(Tail(q))
  <2>1. PICK i \in 1..Len(q) : q[i] = "own"
    BY <1>3 DEF HasOwn
  <2>2. i - 1 \in 1..Len(Tail(q)) /\ Tail(q)[i - 1] = "own"
    BY <1>1, <1>2, <1>3, <2>1
  <2> QED
    BY <2>2 DEF HasOwn
<1>4. ASSUME HasOwn(Tail(q)) PROVE HasOwn(q)
  <2>1. PICK i \in 1..Len(Tail(q)) : Tail(q)[i] = "own"
    BY <1>4 DEF HasOwn
  <2>2. i + 1 \in 1..Len(q) /\ q[i + 1] = "own"
    BY <1>1, <1>2, <2>1
  <2> QED
    BY <2>2 DEF HasOwn
<1>5. ASSUME Head(q) = "own" PROVE HasOwn(q)
  BY <1>1, <1>5 DEF HasOwn
<1> QED
  BY <1>3, <1>4, <1>5

-----------------------------------------------------------------------------
(* Every step keeps each part of the invariant. *)

\* Also types need ErrorsTold: a service that sends has an error to send.
LEMMA TypeStep ==
  ASSUME TypeOK, ErrorsTold, [Next]_vars
  PROVE  TypeOK'
<1> USE ListenAssumption DEF TypeOK, ErrorsTold, Services, LinkPlaces, ProxyPlaces, BridgePlaces
<1>1. CASE Start
  <2>1. \A x \in Services : Entry(x) \in LinkPlaces \cup ProxyPlaces \cup BridgePlaces
    BY DEF Entry
  <2>2. \A m \in Links : Entry(m) \in LinkPlaces
    BY DEF Entry
  <2>3. Entry("proxy") \in ProxyPlaces /\ Entry("bridge") \in BridgePlaces
    BY DEF Entry
  <2>4. errChan' \in Seq({"own", "canceled"})
    BY <1>1 DEF Start
  <2>5. spc' \in [Services -> {"fail", "cancel", "done"} \cup LinkPlaces
                               \cup ProxyPlaces \cup BridgePlaces]
    BY <1>1, <2>1 DEF Start
  <2>6. \A x \in Services : spc'[x] = Entry(x)
    BY <1>1 DEF Start
  <2>7. err' \in [Services -> {"none", "own", "canceled"}]
    BY <1>1 DEF Start
  <2>8. \A m \in Links : spc'[m] \in {"fail", "cancel", "done"} \cup LinkPlaces
    BY <2>2, <2>6
  <2>9. /\ spc'["proxy"] \in {"fail", "cancel", "done"} \cup ProxyPlaces
        /\ spc'["bridge"] \in {"fail", "cancel", "done"} \cup BridgePlaces
    BY <2>3, <2>6
  <2>10. /\ tidy' \in [Links -> {"none", "unmount", "remove"}]
         /\ runs' \in 0..MaxRuns /\ causes' \subseteq {"fault", "signal", "missing"}
    BY <1>1 DEF Start
  <2> HIDE DEF LinkPlaces, ProxyPlaces, BridgePlaces, Services
  <2> QED
    BY <1>1, <2>4, <2>5, <2>7, <2>8, <2>9, <2>10 DEF Start
<1>2. CASE Check
  BY <1>2 DEF Check, Moves
<1>3. CASE RemoveBus
  BY <1>3 DEF RemoveBus, Moves
<1>4. CASE Spawn
  BY <1>4 DEF Spawn, Failing
<1>5. CASE Wait
  BY <1>5 DEF Wait, Failing
<1>6. CASE DropBus
  BY <1>6 DEF DropBus, Returns
<1>7. CASE ProxyCancelled
  BY <1>7 DEF ProxyCancelled, ProxyEnds
<1>8. CASE RemoveOld
  BY <1>8 DEF RemoveOld, Moves
<1>9. CASE Listen
  BY <1>9 DEF Listen, Moves
<1>10. CASE Chmod
  BY <1>10 DEF Chmod, Moves
<1>11. CASE CloseListener
  BY <1>11 DEF CloseListener
<1>12. CASE DropPath
  BY <1>12 DEF DropPath, Returns
<1>13. CASE Notified
  BY <1>13 DEF Notified
<1>14. CASE Collect
  BY <1>14 DEF Collect
<1>15. CASE Return
  BY <1>15 DEF Return
<1>16. CASE ProxyBinds
  BY <1>16 DEF ProxyBinds
<1>17. CASE ProxyDies
  BY <1>17 DEF ProxyDies, ProxyEnds, Fault
<1>18. CASE ProxySignalled
  BY <1>18 DEF ProxySignalled, ProxyEnds
<1>19. CASE Crash
  BY <1>19 DEF Crash, Die, Fault
<1>20. CASE Stop
  BY <1>20 DEF Stop
<1>21. CASE Rest
  BY <1>21 DEF Rest, vars
<1>22. ASSUME NEW m \in Links, Glob(m) PROVE TypeOK'
  <2>1. CASE Moves(m, "glob", "stat") /\ UNCHANGED folder
    BY <2>1 DEF Moves
  <2>2. CASE Die("panic") /\ causes' = causes \cup {"missing"} /\ UNCHANGED faults
    BY <2>2 DEF Die
  <2> QED
    BY <1>22, <2>1, <2>2 DEF Glob
<1>23. ASSUME NEW m \in Links, Stat(m) PROVE TypeOK'
  BY <1>23 DEF Stat, Moves
<1>24. ASSUME NEW m \in Links, Unmount(m) PROVE TypeOK'
  BY <1>24 DEF Unmount, Moves, Unmounted
<1>25. ASSUME NEW m \in Links, Remove(m) PROVE TypeOK'
  BY <1>25 DEF Remove, Failing
<1>26. ASSUME NEW m \in Links, Write(m) PROVE TypeOK'
  BY <1>26 DEF Write, Moves
<1>27. ASSUME NEW m \in Links, Bind(m) PROVE TypeOK'
  BY <1>27 DEF Bind, Failing
<1>28. ASSUME NEW m \in Links, Undo(m) PROVE TypeOK'
  BY <1>28 DEF Undo, Moves
<1>29. ASSUME NEW m \in Links, TidyUnmount(m) PROVE TypeOK'
  BY <1>29 DEF TidyUnmount, Unmounted
<1>30. ASSUME NEW m \in Links, TidyRemove(m) PROVE TypeOK'
  BY <1>30 DEF TidyRemove
<1>31. ASSUME NEW s \in Services, Send(s) PROVE TypeOK'
  BY <1>31 DEF Send
<1>32. ASSUME NEW s \in Services, Cancel(s) PROVE TypeOK'
  BY <1>32 DEF Cancel
<1>33. ASSUME NEW s \in Services, SysFails(s) PROVE TypeOK'
  BY <1>33 DEF SysFails, Failing, AfterFailure, Fault
<1>34. ASSUME NEW m \in Links, Appear(m) PROVE TypeOK'
  BY <1>34 DEF Appear
<1>35. ASSUME NEW m \in Links, Vanish(m) PROVE TypeOK'
  BY <1>35 DEF Vanish, Fault
<1>36. ASSUME NEW m \in Links, Hold(m) PROVE TypeOK'
  BY <1>36 DEF Hold, Fault
<1>37. ASSUME NEW m \in Links, LetGo(m) PROVE TypeOK'
  BY <1>37 DEF LetGo
<1>38. CASE UNCHANGED vars
  BY <1>38 DEF vars
<1> QED
  BY <1>1, <1>2, <1>3, <1>4, <1>5, <1>6, <1>7, <1>8, <1>9, <1>10, <1>11,
     <1>12, <1>13, <1>14, <1>15, <1>16, <1>17, <1>18, <1>19, <1>20, <1>21,
     <1>22, <1>23, <1>24, <1>25, <1>26, <1>27, <1>28, <1>29, <1>30, <1>31,
     <1>32, <1>33, <1>34, <1>35, <1>36, <1>37, <1>38 DEF Next, BindMount,
     Tidy, InitDBus, InitSocket, Fails, Environment

LEMMA ErrorsStep ==
  ASSUME TypeOK, ErrorsTold, [Next]_vars
  PROVE  ErrorsTold'
<1> USE ListenAssumption DEF TypeOK, ErrorsTold, OwnSent, Services, LinkPlaces, ProxyPlaces, BridgePlaces
<1>1. CASE Start
  <2>1. ~HasOwn(errChan')
    BY <1>1 DEF Start, HasOwn
  <2> QED
    BY <1>1, <2>1 DEF Start, Entry, OwnSent
<1>2. CASE Check
  BY <1>2 DEF Check, Moves
<1>3. CASE RemoveBus
  BY <1>3 DEF RemoveBus, Moves
<1>4. CASE Spawn
  BY <1>4 DEF Spawn, Failing
<1>5. CASE Wait
  BY <1>5 DEF Wait, Failing
<1>6. CASE DropBus
  BY <1>6 DEF DropBus, Returns
<1>7. CASE ProxyCancelled
  BY <1>7 DEF ProxyCancelled, ProxyEnds
<1>8. CASE RemoveOld
  BY <1>8 DEF RemoveOld, Moves
<1>9. CASE Listen
  BY <1>9 DEF Listen, Moves
<1>10. CASE Chmod
  BY <1>10 DEF Chmod, Moves
<1>11. CASE CloseListener
  BY <1>11 DEF CloseListener
<1>12. CASE DropPath
  BY <1>12 DEF DropPath, Returns
<1>13. CASE Notified
  BY <1>13 DEF Notified
<1>14. CASE Collect
  <2>1. HasOwn(errChan) <=> Head(errChan) = "own" \/ HasOwn(errChan')
    BY <1>14, HasOwnTail DEF Collect
  <2>2. Head(errChan) \in {"own", "canceled"}
    BY <1>14 DEF Collect
  <2>3. OwnSent <=> OwnSent'
    BY <1>14, <2>1, <2>2 DEF Collect, OwnSent
  <2> QED
    BY <1>14, <2>3 DEF Collect
<1>15. CASE Return
  BY <1>15 DEF Return
<1>16. CASE ProxyBinds
  BY <1>16 DEF ProxyBinds
<1>17. CASE ProxyDies
  BY <1>17 DEF ProxyDies, ProxyEnds, Fault
<1>18. CASE ProxySignalled
  BY <1>18 DEF ProxySignalled, ProxyEnds
<1>19. CASE Crash
  BY <1>19 DEF Crash, Die, Fault
<1>20. CASE Stop
  BY <1>20 DEF Stop
<1>21. CASE Rest
  BY <1>21 DEF Rest, vars
<1>22. ASSUME NEW m \in Links, Glob(m) PROVE ErrorsTold'
  BY <1>22 DEF Glob, Moves, Die
<1>23. ASSUME NEW m \in Links, Stat(m) PROVE ErrorsTold'
  BY <1>23 DEF Stat, Moves
<1>24. ASSUME NEW m \in Links, Unmount(m) PROVE ErrorsTold'
  BY <1>24 DEF Unmount, Moves, Unmounted
<1>25. ASSUME NEW m \in Links, Remove(m) PROVE ErrorsTold'
  BY <1>25 DEF Remove, Failing
<1>26. ASSUME NEW m \in Links, Write(m) PROVE ErrorsTold'
  BY <1>26 DEF Write, Moves
<1>27. ASSUME NEW m \in Links, Bind(m) PROVE ErrorsTold'
  BY <1>27 DEF Bind, Failing
<1>28. ASSUME NEW m \in Links, Undo(m) PROVE ErrorsTold'
  BY <1>28 DEF Undo, Moves
<1>29. ASSUME NEW m \in Links, TidyUnmount(m) PROVE ErrorsTold'
  BY <1>29 DEF TidyUnmount, Unmounted
<1>30. ASSUME NEW m \in Links, TidyRemove(m) PROVE ErrorsTold'
  BY <1>30 DEF TidyRemove
<1>31. ASSUME NEW s \in Services, Send(s) PROVE ErrorsTold'
  <2>1. HasOwn(errChan') <=> HasOwn(errChan) \/ err[s] = "own"
    <3>1. err[s] \in {"own", "canceled"}
      BY <1>31 DEF Send
    <3> QED
      BY <1>31, <3>1, HasOwnAppend DEF Send
  <2>2. OwnSent' <=> OwnSent \/ err[s] = "own"
    BY <1>31, <2>1 DEF Send, OwnSent
  <2> QED
    BY <1>31, <2>2 DEF Send
<1>32. ASSUME NEW s \in Services, Cancel(s) PROVE ErrorsTold'
  BY <1>32 DEF Cancel
<1>33. ASSUME NEW s \in Services, SysFails(s) PROVE ErrorsTold'
  BY <1>33 DEF SysFails, Failing, AfterFailure, Fault
<1>34. ASSUME NEW m \in Links, Appear(m) PROVE ErrorsTold'
  BY <1>34 DEF Appear
<1>35. ASSUME NEW m \in Links, Vanish(m) PROVE ErrorsTold'
  BY <1>35 DEF Vanish, Fault
<1>36. ASSUME NEW m \in Links, Hold(m) PROVE ErrorsTold'
  BY <1>36 DEF Hold, Fault
<1>37. ASSUME NEW m \in Links, LetGo(m) PROVE ErrorsTold'
  BY <1>37 DEF LetGo
<1>38. CASE UNCHANGED vars
  BY <1>38 DEF vars
<1> QED
  BY <1>1, <1>2, <1>3, <1>4, <1>5, <1>6, <1>7, <1>8, <1>9, <1>10, <1>11,
     <1>12, <1>13, <1>14, <1>15, <1>16, <1>17, <1>18, <1>19, <1>20, <1>21,
     <1>22, <1>23, <1>24, <1>25, <1>26, <1>27, <1>28, <1>29, <1>30, <1>31,
     <1>32, <1>33, <1>34, <1>35, <1>36, <1>37, <1>38 DEF Next, BindMount,
     Tidy, InitDBus, InitSocket, Fails, Environment

LEMMA SocketsStep ==
  ASSUME TypeOK, ErrorsTold, SocketsOwned, [Next]_vars
  PROVE  SocketsOwned'
<1> USE ListenAssumption DEF TypeOK, ErrorsTold, SocketsOwned, Services, LinkPlaces, ProxyPlaces, BridgePlaces
<1>1. CASE Start
  BY <1>1 DEF Start, Entry
<1>2. CASE Check
  BY <1>2 DEF Check, Moves
<1>3. CASE RemoveBus
  BY <1>3 DEF RemoveBus, Moves
<1>4. CASE Spawn
  BY <1>4 DEF Spawn, Failing
<1>5. CASE Wait
  BY <1>5 DEF Wait, Failing
<1>6. CASE DropBus
  BY <1>6 DEF DropBus, Returns
<1>7. CASE ProxyCancelled
  BY <1>7 DEF ProxyCancelled, ProxyEnds
<1>8. CASE RemoveOld
  BY <1>8 DEF RemoveOld, Moves
<1>9. CASE Listen
  BY <1>9 DEF Listen, Moves
<1>10. CASE Chmod
  BY <1>10 DEF Chmod, Moves
<1>11. CASE CloseListener
  BY <1>11 DEF CloseListener
<1>12. CASE DropPath
  BY <1>12 DEF DropPath, Returns
<1>13. CASE Notified
  BY <1>13 DEF Notified
<1>14. CASE Collect
  BY <1>14 DEF Collect
<1>15. CASE Return
  BY <1>15 DEF Return
<1>16. CASE ProxyBinds
  BY <1>16 DEF ProxyBinds
<1>17. CASE ProxyDies
  BY <1>17 DEF ProxyDies, ProxyEnds, Fault
<1>18. CASE ProxySignalled
  BY <1>18 DEF ProxySignalled, ProxyEnds
<1>19. CASE Crash
  BY <1>19 DEF Crash, Die, Fault
<1>20. CASE Stop
  BY <1>20 DEF Stop
<1>21. CASE Rest
  BY <1>21 DEF Rest, vars
<1>22. ASSUME NEW m \in Links, Glob(m) PROVE SocketsOwned'
  BY <1>22 DEF Glob, Moves, Die
<1>23. ASSUME NEW m \in Links, Stat(m) PROVE SocketsOwned'
  BY <1>23 DEF Stat, Moves
<1>24. ASSUME NEW m \in Links, Unmount(m) PROVE SocketsOwned'
  BY <1>24 DEF Unmount, Moves, Unmounted
<1>25. ASSUME NEW m \in Links, Remove(m) PROVE SocketsOwned'
  BY <1>25 DEF Remove, Failing
<1>26. ASSUME NEW m \in Links, Write(m) PROVE SocketsOwned'
  BY <1>26 DEF Write, Moves
<1>27. ASSUME NEW m \in Links, Bind(m) PROVE SocketsOwned'
  BY <1>27 DEF Bind, Failing
<1>28. ASSUME NEW m \in Links, Undo(m) PROVE SocketsOwned'
  BY <1>28 DEF Undo, Moves
<1>29. ASSUME NEW m \in Links, TidyUnmount(m) PROVE SocketsOwned'
  BY <1>29 DEF TidyUnmount, Unmounted
<1>30. ASSUME NEW m \in Links, TidyRemove(m) PROVE SocketsOwned'
  BY <1>30 DEF TidyRemove
<1>31. ASSUME NEW s \in Services, Send(s) PROVE SocketsOwned'
  BY <1>31 DEF Send
<1>32. ASSUME NEW s \in Services, Cancel(s) PROVE SocketsOwned'
  BY <1>32 DEF Cancel
<1>33. ASSUME NEW s \in Services, SysFails(s) PROVE SocketsOwned'
  BY <1>33 DEF SysFails, Failing, AfterFailure, Fault
<1>34. ASSUME NEW m \in Links, Appear(m) PROVE SocketsOwned'
  BY <1>34 DEF Appear
<1>35. ASSUME NEW m \in Links, Vanish(m) PROVE SocketsOwned'
  BY <1>35 DEF Vanish, Fault
<1>36. ASSUME NEW m \in Links, Hold(m) PROVE SocketsOwned'
  BY <1>36 DEF Hold, Fault
<1>37. ASSUME NEW m \in Links, LetGo(m) PROVE SocketsOwned'
  BY <1>37 DEF LetGo
<1>38. CASE UNCHANGED vars
  BY <1>38 DEF vars
<1> QED
  BY <1>1, <1>2, <1>3, <1>4, <1>5, <1>6, <1>7, <1>8, <1>9, <1>10, <1>11,
     <1>12, <1>13, <1>14, <1>15, <1>16, <1>17, <1>18, <1>19, <1>20, <1>21,
     <1>22, <1>23, <1>24, <1>25, <1>26, <1>27, <1>28, <1>29, <1>30, <1>31,
     <1>32, <1>33, <1>34, <1>35, <1>36, <1>37, <1>38 DEF Next, BindMount,
     Tidy, InitDBus, InitSocket, Fails, Environment

LEMMA CausesStep ==
  ASSUME TypeOK, ErrorsTold, CausesNoted, [Next]_vars
  PROVE  CausesNoted'
<1> USE ListenAssumption DEF TypeOK, ErrorsTold, OwnSent, CausesNoted, FailsOnlyForCause, Services, LinkPlaces, ProxyPlaces, BridgePlaces
<1>1. CASE Start
  BY <1>1 DEF Start, Entry
<1>2. CASE Check
  BY <1>2 DEF Check, Moves
<1>3. CASE RemoveBus
  BY <1>3 DEF RemoveBus, Moves
<1>4. CASE Spawn
  BY <1>4 DEF Spawn, Failing
<1>5. CASE Wait
  BY <1>5 DEF Wait, Failing
<1>6. CASE DropBus
  BY <1>6 DEF DropBus, Returns
<1>7. CASE ProxyCancelled
  BY <1>7 DEF ProxyCancelled, ProxyEnds
<1>8. CASE RemoveOld
  BY <1>8 DEF RemoveOld, Moves
<1>9. CASE Listen
  BY <1>9 DEF Listen, Moves
<1>10. CASE Chmod
  BY <1>10 DEF Chmod, Moves
<1>11. CASE CloseListener
  BY <1>11 DEF CloseListener
<1>12. CASE DropPath
  BY <1>12 DEF DropPath, Returns
<1>13. CASE Notified
  BY <1>13 DEF Notified
<1>14. CASE Collect
  BY <1>14 DEF Collect
<1>15. CASE Return
  BY <1>15 DEF Return
<1>16. CASE ProxyBinds
  BY <1>16 DEF ProxyBinds
<1>17. CASE ProxyDies
  BY <1>17 DEF ProxyDies, ProxyEnds, Fault
<1>18. CASE ProxySignalled
  BY <1>18 DEF ProxySignalled, ProxyEnds
<1>19. CASE Crash
  BY <1>19 DEF Crash, Die, Fault
<1>20. CASE Stop
  BY <1>20 DEF Stop
<1>21. CASE Rest
  BY <1>21 DEF Rest, vars
<1>22. ASSUME NEW m \in Links, Glob(m) PROVE CausesNoted'
  BY <1>22 DEF Glob, Moves, Die
<1>23. ASSUME NEW m \in Links, Stat(m) PROVE CausesNoted'
  BY <1>23 DEF Stat, Moves
<1>24. ASSUME NEW m \in Links, Unmount(m) PROVE CausesNoted'
  BY <1>24 DEF Unmount, Moves, Unmounted
<1>25. ASSUME NEW m \in Links, Remove(m) PROVE CausesNoted'
  BY <1>25 DEF Remove, Failing
<1>26. ASSUME NEW m \in Links, Write(m) PROVE CausesNoted'
  BY <1>26 DEF Write, Moves
<1>27. ASSUME NEW m \in Links, Bind(m) PROVE CausesNoted'
  BY <1>27 DEF Bind, Failing
<1>28. ASSUME NEW m \in Links, Undo(m) PROVE CausesNoted'
  BY <1>28 DEF Undo, Moves
<1>29. ASSUME NEW m \in Links, TidyUnmount(m) PROVE CausesNoted'
  BY <1>29 DEF TidyUnmount, Unmounted
<1>30. ASSUME NEW m \in Links, TidyRemove(m) PROVE CausesNoted'
  BY <1>30 DEF TidyRemove
<1>31. ASSUME NEW s \in Services, Send(s) PROVE CausesNoted'
  BY <1>31 DEF Send
<1>32. ASSUME NEW s \in Services, Cancel(s) PROVE CausesNoted'
  BY <1>32 DEF Cancel
<1>33. ASSUME NEW s \in Services, SysFails(s) PROVE CausesNoted'
  BY <1>33 DEF SysFails, Failing, AfterFailure, Fault
<1>34. ASSUME NEW m \in Links, Appear(m) PROVE CausesNoted'
  BY <1>34 DEF Appear
<1>35. ASSUME NEW m \in Links, Vanish(m) PROVE CausesNoted'
  BY <1>35 DEF Vanish, Fault
<1>36. ASSUME NEW m \in Links, Hold(m) PROVE CausesNoted'
  BY <1>36 DEF Hold, Fault
<1>37. ASSUME NEW m \in Links, LetGo(m) PROVE CausesNoted'
  BY <1>37 DEF LetGo
<1>38. CASE UNCHANGED vars
  BY <1>38 DEF vars
<1> QED
  BY <1>1, <1>2, <1>3, <1>4, <1>5, <1>6, <1>7, <1>8, <1>9, <1>10, <1>11,
     <1>12, <1>13, <1>14, <1>15, <1>16, <1>17, <1>18, <1>19, <1>20, <1>21,
     <1>22, <1>23, <1>24, <1>25, <1>26, <1>27, <1>28, <1>29, <1>30, <1>31,
     <1>32, <1>33, <1>34, <1>35, <1>36, <1>37, <1>38 DEF Next, BindMount,
     Tidy, InitDBus, InitSocket, Fails, Environment

LEMMA SourceStep ==
  ASSUME TypeOK, SourceNotEmptied, [Next]_vars
  PROVE  SourceNotEmptied'
<1> USE ListenAssumption DEF TypeOK, SourceNotEmptied, Services, LinkPlaces, ProxyPlaces, BridgePlaces
<1>1. CASE Start
  BY <1>1 DEF Start, Entry
<1>2. CASE Check
  BY <1>2 DEF Check, Moves
<1>3. CASE RemoveBus
  BY <1>3 DEF RemoveBus, Moves
<1>4. CASE Spawn
  BY <1>4 DEF Spawn, Failing
<1>5. CASE Wait
  BY <1>5 DEF Wait, Failing
<1>6. CASE DropBus
  BY <1>6 DEF DropBus, Returns
<1>7. CASE ProxyCancelled
  BY <1>7 DEF ProxyCancelled, ProxyEnds
<1>8. CASE RemoveOld
  BY <1>8 DEF RemoveOld, Moves
<1>9. CASE Listen
  BY <1>9 DEF Listen, Moves
<1>10. CASE Chmod
  BY <1>10 DEF Chmod, Moves
<1>11. CASE CloseListener
  BY <1>11 DEF CloseListener
<1>12. CASE DropPath
  BY <1>12 DEF DropPath, Returns
<1>13. CASE Notified
  BY <1>13 DEF Notified
<1>14. CASE Collect
  BY <1>14 DEF Collect
<1>15. CASE Return
  BY <1>15 DEF Return
<1>16. CASE ProxyBinds
  BY <1>16 DEF ProxyBinds
<1>17. CASE ProxyDies
  BY <1>17 DEF ProxyDies, ProxyEnds, Fault
<1>18. CASE ProxySignalled
  BY <1>18 DEF ProxySignalled, ProxyEnds
<1>19. CASE Crash
  BY <1>19 DEF Crash, Die, Fault
<1>20. CASE Stop
  BY <1>20 DEF Stop
<1>21. CASE Rest
  BY <1>21 DEF Rest, vars
<1>22. ASSUME NEW m \in Links, Glob(m) PROVE SourceNotEmptied'
  BY <1>22 DEF Glob, Moves, Die
<1>23. ASSUME NEW m \in Links, Stat(m) PROVE SourceNotEmptied'
  BY <1>23 DEF Stat, Moves
<1>24. ASSUME NEW m \in Links, Unmount(m) PROVE SourceNotEmptied'
  BY <1>24 DEF Unmount, Moves, Unmounted
<1>25. ASSUME NEW m \in Links, Remove(m) PROVE SourceNotEmptied'
  BY <1>25 DEF Remove, Failing
<1>26. ASSUME NEW m \in Links, Write(m) PROVE SourceNotEmptied'
  BY <1>26 DEF Write, Moves
<1>27. ASSUME NEW m \in Links, Bind(m) PROVE SourceNotEmptied'
  BY <1>27 DEF Bind, Failing
<1>28. ASSUME NEW m \in Links, Undo(m) PROVE SourceNotEmptied'
  BY <1>28 DEF Undo, Moves
<1>29. ASSUME NEW m \in Links, TidyUnmount(m) PROVE SourceNotEmptied'
  BY <1>29 DEF TidyUnmount, Unmounted
<1>30. ASSUME NEW m \in Links, TidyRemove(m) PROVE SourceNotEmptied'
  BY <1>30 DEF TidyRemove
<1>31. ASSUME NEW s \in Services, Send(s) PROVE SourceNotEmptied'
  BY <1>31 DEF Send
<1>32. ASSUME NEW s \in Services, Cancel(s) PROVE SourceNotEmptied'
  BY <1>32 DEF Cancel
<1>33. ASSUME NEW s \in Services, SysFails(s) PROVE SourceNotEmptied'
  BY <1>33 DEF SysFails, Failing, AfterFailure, Fault
<1>34. ASSUME NEW m \in Links, Appear(m) PROVE SourceNotEmptied'
  BY <1>34 DEF Appear
<1>35. ASSUME NEW m \in Links, Vanish(m) PROVE SourceNotEmptied'
  BY <1>35 DEF Vanish, Fault
<1>36. ASSUME NEW m \in Links, Hold(m) PROVE SourceNotEmptied'
  BY <1>36 DEF Hold, Fault
<1>37. ASSUME NEW m \in Links, LetGo(m) PROVE SourceNotEmptied'
  BY <1>37 DEF LetGo
<1>38. CASE UNCHANGED vars
  BY <1>38 DEF vars
<1> QED
  BY <1>1, <1>2, <1>3, <1>4, <1>5, <1>6, <1>7, <1>8, <1>9, <1>10, <1>11,
     <1>12, <1>13, <1>14, <1>15, <1>16, <1>17, <1>18, <1>19, <1>20, <1>21,
     <1>22, <1>23, <1>24, <1>25, <1>26, <1>27, <1>28, <1>29, <1>30, <1>31,
     <1>32, <1>33, <1>34, <1>35, <1>36, <1>37, <1>38 DEF Next, BindMount,
     Tidy, InitDBus, InitSocket, Fails, Environment

-----------------------------------------------------------------------------
(* The theorems. *)

LEMMA InitInv == Init => TypeOK /\ ListenInv
<1> SUFFICES ASSUME Init PROVE TypeOK /\ ListenInv
  OBVIOUS
<1> USE ListenAssumption DEF Init, Services
<1>1. TypeOK
  <2>1. \A s \in Services : spc[s] = "done"
    OBVIOUS
  <2>2. /\ spc \in [Services -> {"done"}] /\ err \in [Services -> {"none"}]
        /\ target \in [Links -> {"none"}] /\ tidy \in [Links -> {"none"}]
    OBVIOUS
  <2>3. errChan \in Seq({"own", "canceled"})
    OBVIOUS
  <2>4. runs \in 0..MaxRuns /\ faults \in 0..MaxFaults
    OBVIOUS
  <2> HIDE DEF Services
  <2>5. /\ spc \in [Services -> {"fail", "cancel", "done"} \cup LinkPlaces
                              \cup ProxyPlaces \cup BridgePlaces]
        /\ err \in [Services -> {"none", "own", "canceled"}]
    BY <2>2
  <2>6. /\ \A m \in Links : spc[m] = "done"
        /\ spc["proxy"] = "done" /\ spc["bridge"] = "done"
    BY <2>1 DEF Services
  <2> QED
    BY <2>2, <2>3, <2>4, <2>5, <2>6 DEF TypeOK
<1>2. ErrorsTold
  BY DEF ErrorsTold, OwnSent, HasOwn
<1>3. SocketsOwned /\ CausesNoted /\ SourceNotEmptied
  BY DEF SocketsOwned, CausesNoted, FailsOnlyForCause, SourceNotEmptied
<1> QED
  BY <1>1, <1>2, <1>3 DEF ListenInv

LEMMA ListenInvariant == Spec => [](TypeOK /\ ListenInv)
<1>1. TypeOK /\ ListenInv /\ [Next]_vars => (TypeOK /\ ListenInv)'
  <2> SUFFICES ASSUME TypeOK, ListenInv, [Next]_vars
               PROVE  TypeOK' /\ ListenInv'
    OBVIOUS
  <2>1. ErrorsTold /\ SocketsOwned /\ CausesNoted /\ SourceNotEmptied
    BY DEF ListenInv
  <2>2. TypeOK' /\ ErrorsTold'
    BY <2>1, TypeStep, ErrorsStep
  <2>3. SocketsOwned' /\ CausesNoted' /\ SourceNotEmptied'
    BY <2>1, SocketsStep, CausesStep, SourceStep
  <2> QED
    BY <2>2, <2>3 DEF ListenInv
<1> QED
  BY InitInv, <1>1, PTL DEF Spec

\* The state of the daemon keeps its types, for any links, runs and faults.
THEOREM ListenTypeOK == Spec => []TypeOK
  BY ListenInvariant, PTL

\* Init returns an error exactly when some service failed by itself.
THEOREM ListenExitTellsTruth == Spec => []ExitTellsTruth
<1>1. ListenInv => ExitTellsTruth
  BY DEF ListenInv, ErrorsTold, OwnSent, HasOwn, ExitTellsTruth
<1> QED
  BY <1>1, ListenInvariant, PTL

\* Unless a call fails, a mount is held or the proxy ends by itself, no run returns
\* an error but one that is stopped and whose proxy gets the signal first, and none
\* panics but for want of a file LinkX11Auth looks for, whatever earlier runs left.
THEOREM ListenFailsOnlyForCause == Spec => []FailsOnlyForCause
<1>1. ListenInv => FailsOnlyForCause
  BY DEF ListenInv, CausesNoted
<1> QED
  BY <1>1, ListenInvariant, PTL

\* When Init has returned, its proxy and the files of its sockets are gone.
THEOREM ListenNoSocketLeft == Spec => []NoSocketLeft
<1>1. TypeOK /\ ListenInv => NoSocketLeft
  BY DEF TypeOK, ListenInv, ErrorsTold, SocketsOwned, NoSocketLeft, Services
<1> QED
  BY <1>1, ListenInvariant, PTL

\* BindMount never empties the user's own file through a mount.
THEOREM ListenSourceNotEmptied == Spec => []SourceNotEmptied
<1>1. ListenInv => SourceNotEmptied
  BY DEF ListenInv
<1> QED
  BY <1>1, ListenInvariant, PTL

\* Errors, sockets and causes are accounted for at each place of each service: the
\* invariant the theorems above rest on (host/init.go, host/run/mount.go).
THEOREM ListenInvHolds == Spec => []ListenInv
  BY ListenInvariant, PTL
=============================================================================
