----------------------------- MODULE BusPromise -----------------------------
(***************************************************************************)
(* What an application may rely on when the router stands where its bus    *)
(* should be (container/dbus/router.go: handleClient, SendToClient): one   *)
(* bus that takes its messages as long as the connection lasts and answers *)
(* each at most once, never one it was not sent, and none after the end.   *)
(* That there are two buses behind it, with answers that race, merge and   *)
(* get lost, is not to be seen.                                            *)
(***************************************************************************)
EXTENDS Naturals

VARIABLES
  asked,    \* how many messages the application has sent
  got,      \* how many it has received
  answers,  \* which of them answer what: <<number, serial>>
  open      \* the connection lasts

promise == <<asked, got, answers, open>>

Init == asked = 0 /\ got = 0 /\ answers = {} /\ open = TRUE

Ask ==
  /\ open
  /\ asked' = asked + 1
  /\ UNCHANGED <<got, answers, open>>

\* A message that answers nothing.
Tell ==
  /\ open
  /\ got' = got + 1
  /\ UNCHANGED <<asked, answers, open>>

\* The one answer to a message that was sent.
Answer(s) ==
  /\ open
  /\ \A a \in answers : a[2] # s
  /\ got' = got + 1
  /\ answers' = answers \cup {<<got + 1, s>>}
  /\ UNCHANGED <<asked, open>>

End ==
  /\ open
  /\ open' = FALSE
  /\ UNCHANGED <<asked, got, answers>>

Next == Ask \/ Tell \/ (\E s \in 1..asked : Answer(s)) \/ End

Spec == Init /\ [][Next]_promise
=============================================================================
