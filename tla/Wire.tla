-------------------------------- MODULE Wire --------------------------------
(***************************************************************************)
(* The bytes and descriptors of a session (container/dbus/wire.go and the  *)
(* three loops of handleClient).  Each goroutine is a pump: it reads the   *)
(* stream of its connection, cuts it into messages, gives each the         *)
(* descriptors its header counts, and writes it to one or two other        *)
(* connections.  Bytes come in pieces that know nothing of messages;       *)
(* descriptors come beside them, in order, and must go out with their own  *)
(* message, once, and be closed.                                           *)
(*                                                                         *)
(* A stream is a sequence of cells <<pump, message, part>>: the first part *)
(* of a message holds its header and carries its descriptors.  Which       *)
(* connection a message is for is decided in RouterSession and given here. *)
(***************************************************************************)
EXTENDS Naturals, Sequences

Pumps == {"client", "cont", "host"}

CONSTANTS
  Streams,   \* what the other end of each pump's connection sends
  MaxFaults  \* bound: connections lost, and descriptors that cannot be copied

\* A message: its length in cells, its descriptors, whether its header makes
\* sense, and the connections it is for: all but the last get a copy.  What comes
\* from a bus is for the client or for nobody.
Messages == [size: Nat \ {0}, fds: Nat, good: BOOLEAN, to: Seq(Pumps)]

ASSUME WireAssumption ==
  /\ Streams \in [Pumps -> Seq(Messages)]
  /\ \A p \in Pumps : \A i \in DOMAIN Streams[p] :
       LET to == Streams[p][i].to IN
       IF p = "client" THEN to \in {<<"cont">>, <<"host">>, <<"host", "cont">>, <<>>}
                       ELSE to \in {<<"client">>, <<>>}
  /\ MaxFaults \in Nat

VARIABLES
  next,     \* the message each sender sends next
  wire,     \* the cells in each connection's socket
  buf,      \* MessageReader.buf
  pending,  \* MessageReader.pendingFDs
  place,    \* where each pump is
  hand,     \* the message it has in hand
  fds,      \* Message.FDs of that message
  copy,     \* the descriptors of its copy
  nth,      \* which of its connections it writes to
  upto,     \* how many of its cells the first of two writes took
  mutex,    \* who holds clientWriteMu
  out,      \* what was written to each connection, with descriptors
  lost,     \* connections that no longer take bytes
  closed,   \* the session is closed
  open,     \* descriptors the router has open
  faults

readVars  == <<next, wire, buf, pending>>
handVars  == <<hand, fds, copy, nth, upto>>
writeVars == <<mutex, out>>
endVars   == <<lost, closed, faults>>
vars == <<readVars, place, handVars, writeVars, endVars, open>>

Body(p, i) == Streams[p][i]
Fd(p, i)   == [k \in 1..Body(p, i).fds |-> <<p, i, k>>]
Cells(p, i) == [j \in 1..Body(p, i).size |-> <<p, i, j>>]

Items(q) == {q[i] : i \in 1..Len(q)}
Drop(q, n) == SubSeq(q, n + 1, Len(q))
Take(q, n) == SubSeq(q, 1, n)

\* The descriptors that come with a cell, and how many cells of a stream carry some.
Carried(c) == IF c[3] = 1 THEN Fd(c[1], c[2]) ELSE <<>>
Carriers(q) == {i \in 1..Len(q) : Carried(q[i]) # <<>>}
CarriedBy(q) == IF Carriers(q) = {} THEN <<>> ELSE Carried(q[CHOOSE i \in Carriers(q) : TRUE])

Init ==
  /\ next    = [p \in Pumps |-> 1]
  /\ wire    = [p \in Pumps |-> <<>>]
  /\ buf     = [p \in Pumps |-> <<>>]
  /\ pending = [p \in Pumps |-> <<>>]
  /\ place   = [p \in Pumps |-> IF p = "client" THEN "sasl" ELSE "none"]
  /\ hand    = [p \in Pumps |-> 0]
  /\ fds     = [p \in Pumps |-> <<>>]
  /\ copy    = [p \in Pumps |-> <<>>]
  /\ nth     = [p \in Pumps |-> 1]
  /\ upto    = [p \in Pumps |-> 0]
  /\ mutex   = "none"
  /\ out     = [p \in Pumps |-> <<>>]
  /\ lost    = {} /\ closed = FALSE /\ faults = 0
  /\ open    = {}

Goto(p, where) == place' = [place EXCEPT ![p] = where]

-----------------------------------------------------------------------------
(* The other ends of the connections, and the kernel between. *)

\* A sender writes its next message.  Buses are silent before Hello; an application
\* may send its first messages together with BEGIN, but none with descriptors: it
\* waits for the answer to Hello before it sends those.
Send(p) ==
  /\ next[p] <= Len(Streams[p]) /\ p \notin lost
  /\ place[p] # "none"
  /\ place[p] = "sasl" => Body(p, next[p]).fds = 0
  /\ wire' = [wire EXCEPT ![p] = @ \o Cells(p, next[p])]
  /\ next' = [next EXCEPT ![p] = @ + 1]
  /\ UNCHANGED <<buf, pending, place, handVars, writeVars, endVars, open>>

\* A read returns some cells, never the descriptors of two writes.
Reads(p, n) ==
  n \in 1..Len(wire[p]) /\ \A i, j \in Carriers(Take(wire[p], n)) : i = j

\* The other end goes, perhaps in the middle of a message it was sending.
Lose(p) ==
  /\ p \notin lost /\ faults < MaxFaults
  /\ \E n \in 0..Len(wire[p]) : wire' = [wire EXCEPT ![p] = Take(@, n)]
  /\ lost' = lost \cup {p} /\ faults' = faults + 1
  /\ UNCHANGED <<next, buf, pending, place, handVars, writeVars, closed, open>>

-----------------------------------------------------------------------------
(* Reading: AuthenticateClient and ReadMessage. *)

\* Mutant: the reader starts without the bytes that came with BEGIN.
HandshakeForgetsExtra ==
  /\ place["client"] = "sasl"
  /\ \E n \in 0..Len(wire["client"]) :
       /\ n > 0 => Reads("client", n)
       /\ wire' = [wire EXCEPT !["client"] = Drop(@, n)]
  /\ place' = [p \in Pumps |-> "read"]
  /\ UNCHANGED <<next, buf, pending, handVars, writeVars, endVars, open>>

\* The last read of the handshake: what comes after BEGIN is extraBytes, the first
\* bytes of the client's reader.  Then the three loops start.
Handshake ==
  /\ place["client"] = "sasl"
  /\ \E n \in 0..Len(wire["client"]) :
       /\ n > 0 => Reads("client", n)
       /\ buf'  = [buf EXCEPT !["client"] = Take(wire["client"], n)]
       /\ wire' = [wire EXCEPT !["client"] = Drop(@, n)]
  /\ place' = [p \in Pumps |-> "read"]
  /\ UNCHANGED <<next, pending, handVars, writeVars, endVars, open>>

\* The message whose header is at the front of the buffer.
Front(p) == Head(buf[p])[2]

\* The reader has no header, or not all the bytes of its message, or not all its
\* descriptors.
Hungry(p) ==
  /\ place[p] = "read"
  /\ buf[p] # <<>> => /\ Body(p, Front(p)).good
                      /\ \/ Len(buf[p]) < Body(p, Front(p)).size
                         \/ Len(pending[p]) < Body(p, Front(p)).fds

\* Mutant: descriptors that come with bytes of no message of theirs are dropped.
ReadMoreDropsFDs(p) ==
  /\ Hungry(p) /\ ~closed
  /\ \E n \in 1..Len(wire[p]) :
       LET new == CarriedBy(Take(wire[p], n)) IN
       /\ Reads(p, n)
       /\ buf'     = [buf EXCEPT ![p] = @ \o Take(wire[p], n)]
       /\ wire'    = [wire EXCEPT ![p] = Drop(@, n)]
       /\ pending' = [pending EXCEPT ![p] = new]
       /\ open'    = open \cup {<<fd, "own">> : fd \in Items(new)}
  /\ UNCHANGED <<next, place, handVars, writeVars, endVars>>

ReadMore(p) ==
  /\ Hungry(p) /\ ~closed
  /\ \E n \in 1..Len(wire[p]) :
       LET new == CarriedBy(Take(wire[p], n)) IN
       /\ Reads(p, n)
       /\ buf'     = [buf EXCEPT ![p] = @ \o Take(wire[p], n)]
       /\ wire'    = [wire EXCEPT ![p] = Drop(@, n)]
       /\ pending' = [pending EXCEPT ![p] = @ \o new]
       /\ open'    = open \cup {<<fd, "own">> : fd \in Items(new)}
  /\ UNCHANGED <<next, place, handVars, writeVars, endVars>>

\* The loop ends, and with it the session: its connections are closed.
Leave(p) == closed' = TRUE /\ Goto(p, "done")

ReadFails(p) ==
  /\ Hungry(p)
  /\ closed \/ (p \in lost /\ wire[p] = <<>>)
  /\ Leave(p)
  /\ UNCHANGED <<readVars, handVars, writeVars, lost, faults, open>>

\* A header without sense, or over the limit, ends the loop.
BadHeader(p) ==
  /\ place[p] = "read" /\ buf[p] # <<>> /\ ~Body(p, Front(p)).good
  /\ Leave(p)
  /\ UNCHANGED <<readVars, handVars, writeVars, lost, faults, open>>

CutMessage(p, nfds) ==
  /\ place[p] = "read" /\ buf[p] # <<>> /\ ~Hungry(p) /\ Body(p, Front(p)).good
  /\ hand'    = [hand EXCEPT ![p] = Front(p)]
  /\ buf'     = [buf EXCEPT ![p] = Drop(@, Body(p, Front(p)).size)]
  /\ fds'     = [fds EXCEPT ![p] = Take(pending[p], nfds)]
  /\ pending' = [pending EXCEPT ![p] = Drop(@, nfds)]
  /\ nth'     = [nth EXCEPT ![p] = 1]
  /\ Goto(p, "write")
  /\ UNCHANGED <<next, wire, copy, upto, writeVars, endVars, open>>

\* Mutant: a message gets every descriptor that has arrived.
TakeAllFDs(p) == CutMessage(p, Len(pending[p]))

\* The message gets as many descriptors as its header says, in order of arrival.
TakeFDs(p) == buf[p] # <<>> /\ CutMessage(p, Body(p, Front(p)).fds)

-----------------------------------------------------------------------------
(* Writing: writeHostCopy, WriteMessage, SendToClient. *)

To(p)     == Body(p, hand[p]).to
Target(p) == To(p)[nth[p]]
IsCopy(p) == nth[p] < Len(To(p))

\* SendToClient writes under the mutex; other connections have one writer.
MayWrite(p) == Target(p) = "client" => mutex = p

Lock(p) ==
  /\ place[p] = "write" /\ nth[p] <= Len(To(p)) /\ Target(p) = "client"
  /\ mutex = "none" /\ mutex' = p
  /\ UNCHANGED <<readVars, place, handVars, out, endVars, open>>

\* CopyFDs: all or none, and its error is ignored.
CopyFDs(p) ==
  /\ place[p] = "write" /\ nth[p] <= Len(To(p)) /\ IsCopy(p)
  /\ copy[p] = <<>> /\ fds[p] # <<>>
  /\ \/ /\ copy' = [copy EXCEPT ![p] = fds[p]]
        /\ open' = open \cup {<<fd, "copy">> : fd \in Items(fds[p])}
        /\ Goto(p, "copied")
        /\ UNCHANGED faults
     \/ /\ faults < MaxFaults /\ faults' = faults + 1
        /\ Goto(p, "copied")
        /\ UNCHANGED <<copy, open>>
  /\ UNCHANGED <<readVars, hand, fds, nth, upto, writeVars, lost, closed>>

\* Ready to write: a copy has been made if one is needed.
Ready(p) ==
  /\ place[p] \in {"write", "copied"} /\ nth[p] <= Len(To(p)) /\ MayWrite(p)
  /\ IF IsCopy(p) /\ fds[p] # <<>> THEN place[p] = "copied" ELSE place[p] = "write"

Attached(p) == IF IsCopy(p) THEN copy[p] ELSE fds[p]

\* What n cells of the message look like on the wire, its descriptors at the first.
Written(p, from, n) ==
  [j \in 1..n |-> [cell |-> <<p, hand[p], from + j - 1>>,
                   with |-> IF from + j = 2 THEN Attached(p) ELSE <<>>]]

Unlock(p) == mutex' = IF Target(p) = "client" THEN "none" ELSE mutex

\* Mutant: writeHostCopy does not close its copies.
NextTargetKeepsCopy(p) ==
  /\ nth'  = [nth EXCEPT ![p] = @ + 1]
  /\ upto' = [upto EXCEPT ![p] = 0]
  /\ UNCHANGED <<copy, open>>
  /\ Goto(p, "write")

\* The next connection, without the copy's descriptors.
NextTarget(p) ==
  /\ nth'  = [nth EXCEPT ![p] = @ + 1]
  /\ upto' = [upto EXCEPT ![p] = 0]
  /\ copy' = [copy EXCEPT ![p] = <<>>]
  /\ open' = open \ {<<fd, "copy">> : fd \in Items(copy[p])}
  /\ Goto(p, "write")

\* Mutant: the mutex is given back between the two writes.
WriteUnlocked(p) ==
  /\ Ready(p) /\ Target(p) \notin lost /\ ~closed
  /\ \E n \in 1..Body(p, hand[p]).size :
       /\ Attached(p) = <<>> => n = Body(p, hand[p]).size
       /\ out' = [out EXCEPT ![Target(p)] = @ \o Written(p, 1, n)]
       /\ Unlock(p)
       /\ IF n = Body(p, hand[p]).size
          THEN NextTarget(p)
          ELSE /\ upto' = [upto EXCEPT ![p] = n] /\ Goto(p, "rest")
               /\ UNCHANGED <<nth, copy, open>>
  /\ UNCHANGED <<readVars, hand, fds, endVars>>

\* A write with descriptors may take a part of the bytes only; the rest follows
\* in a second write.  A write without descriptors takes all.
Write(p) ==
  /\ Ready(p) /\ Target(p) \notin lost /\ ~closed
  /\ \E n \in 1..Body(p, hand[p]).size :
       /\ Attached(p) = <<>> => n = Body(p, hand[p]).size
       /\ out' = [out EXCEPT ![Target(p)] = @ \o Written(p, 1, n)]
       /\ IF n = Body(p, hand[p]).size
          THEN NextTarget(p) /\ Unlock(p)
          ELSE /\ upto' = [upto EXCEPT ![p] = n] /\ Goto(p, "rest")
               /\ UNCHANGED <<nth, copy, open, mutex>>
  /\ UNCHANGED <<readVars, hand, fds, endVars>>

WriteRest(p) ==
  /\ place[p] = "rest" /\ Target(p) \notin lost /\ ~closed
  /\ out' = [out EXCEPT ![Target(p)] =
                @ \o Written(p, upto[p] + 1, Body(p, hand[p]).size - upto[p])]
  /\ NextTarget(p) /\ Unlock(p)
  /\ UNCHANGED <<readVars, hand, fds, endVars>>

\* A failed copy is forgotten, a failed write ends the loop.
WriteFails(p) ==
  /\ Ready(p) \/ place[p] = "rest"
  /\ Target(p) \in lost \/ closed
  /\ IF IsCopy(p) THEN NextTarget(p)
     ELSE /\ upto' = [upto EXCEPT ![p] = 0] /\ Goto(p, "failed")
          /\ UNCHANGED <<nth, copy, open>>
  /\ Unlock(p)
  /\ UNCHANGED <<readVars, hand, fds, out, endVars>>

\* Mutant: a message whose write failed keeps its descriptors.
CloseFDsIfWritten(p) ==
  /\ (place[p] = "write" /\ nth[p] > Len(To(p))) \/ place[p] = "failed"
  /\ open' = IF place[p] = "failed" THEN open
             ELSE open \ {<<fd, "own">> : fd \in Items(fds[p])}
  /\ fds'  = [fds EXCEPT ![p] = <<>>]
  /\ IF place[p] = "failed" THEN Leave(p) ELSE Goto(p, "read") /\ UNCHANGED closed
  /\ UNCHANGED <<readVars, hand, copy, nth, upto, writeVars, lost, faults>>

\* CloseFDs, after the message was written, dropped or given up.
CloseFDs(p) ==
  /\ (place[p] = "write" /\ nth[p] > Len(To(p))) \/ place[p] = "failed"
  /\ open' = open \ {<<fd, "own">> : fd \in Items(fds[p])}
  /\ fds'  = [fds EXCEPT ![p] = <<>>]
  /\ IF place[p] = "failed" THEN Leave(p) ELSE Goto(p, "read") /\ UNCHANGED closed
  /\ UNCHANGED <<readVars, hand, copy, nth, upto, writeVars, lost, faults>>

-----------------------------------------------------------------------------
(* The end: the deferred function of handleClient. *)

Done == \A p \in Pumps : place[p] = "done"

\* Mutant: the readers of the buses are not closed.
CloseClientReader ==
  /\ Done /\ \E p \in Pumps : pending[p] # <<>>
  /\ open' = open \ {<<fd, "own">> : fd \in Items(pending["client"])}
  /\ pending' = [p \in Pumps |-> <<>>]
  /\ UNCHANGED <<next, wire, buf, place, handVars, writeVars, endVars>>

\* After wg.Wait the readers close what no message took.
CloseReaders ==
  /\ Done /\ \E p \in Pumps : pending[p] # <<>>
  /\ open' = open \ {<<fd, "own">> : fd \in UNION {Items(pending[p]) : p \in Pumps}}
  /\ pending' = [p \in Pumps |-> <<>>]
  /\ UNCHANGED <<next, wire, buf, place, handVars, writeVars, endVars>>

Quiet(p) ==
  Hungry(p) /\ wire[p] = <<>> /\ next[p] > Len(Streams[p]) /\ p \notin lost /\ ~closed

Rest ==
  /\ \/ Done /\ \A p \in Pumps : pending[p] = <<>>
     \/ \A p \in Pumps : Quiet(p)
  /\ UNCHANGED vars

-----------------------------------------------------------------------------
Read(p)  == ReadMore(p) \/ ReadFails(p) \/ BadHeader(p) \/ TakeFDs(p)
Relay(p) == \/ Lock(p) \/ CopyFDs(p) \/ Write(p) \/ WriteRest(p) \/ WriteFails(p)
            \/ CloseFDs(p)

Next ==
  \/ Handshake
  \/ \E p \in Pumps : Send(p) \/ Lose(p) \/ Read(p) \/ Relay(p)
  \/ CloseReaders
  \/ Rest

Spec == Init /\ [][Next]_vars

\* A goroutine that can run does, and gets the mutex in the end.
FairSpec == Spec /\ WF_vars(Handshake) /\ WF_vars(CloseReaders)
                 /\ \A p \in Pumps : WF_vars(Read(p)) /\ WF_vars(Relay(p))

-----------------------------------------------------------------------------
Places == {"none", "sasl", "read", "write", "copied", "rest", "failed", "done"}

\* A cell, and a descriptor: of which pump, of which message, which.
Cell == Pumps \X Nat \X Nat

\* Every variable has its type: places are those of ReadMessage, WriteMessage and
\* the loops of handleClient, no pump is past the messages of its stream, a copy has
\* descriptors of its message only, and the mutex has at most one holder.
TypeOK ==
  /\ place \in [Pumps -> Places]
  /\ next \in [Pumps -> Nat] /\ hand \in [Pumps -> Nat]
  /\ nth \in [Pumps -> 1..3] /\ upto \in [Pumps -> Nat]
  /\ \A p \in Pumps : hand[p] < next[p] /\ next[p] <= Len(Streams[p]) + 1
  /\ wire \in [Pumps -> Seq(Cell)] /\ buf \in [Pumps -> Seq(Cell)]
  /\ pending \in [Pumps -> Seq(Cell)] /\ fds \in [Pumps -> Seq(Cell)]
  /\ copy \in [Pumps -> Seq(Cell)]
  /\ \A p \in Pumps : Items(copy[p]) \subseteq Items(fds[p])
  /\ out \in [Pumps -> Seq([cell: Cell, with: Seq(Cell)])]
  /\ mutex \in Pumps \cup {"none"}
  /\ lost \subseteq Pumps /\ closed \in BOOLEAN /\ faults \in 0..MaxFaults

\* A message goes out with its own descriptors, all of them and in order, on its
\* first byte, however the bytes arrived; only the copy for the host bus may go
\* without, when the descriptors could not be duplicated.
KeepsDescriptors ==
  \A l \in Pumps : \A k \in 1..Len(out[l]) :
    LET c == out[l][k] IN
    \/ c.with = Carried(c.cell)
    \/ /\ c.with = <<>> /\ faults > 0
       /\ l = "host" /\ Body("client", c.cell[2]).to = <<"host", "cont">>

\* The streams stay framed: the cells of a message follow each other, whole and from
\* the first on, whoever else writes to that connection; only the last may be cut.
StreamsWhole ==
  \A l \in Pumps : \A k \in 1..Len(out[l]) :
    LET c == out[l][k].cell IN
    /\ c[3] > 1 => k > 1 /\ out[l][k-1].cell = <<c[1], c[2], c[3] - 1>>
    /\ k < Len(out[l]) /\ c[3] < Body(c[1], c[2]).size
         => out[l][k+1].cell = <<c[1], c[2], c[3] + 1>>

Before(d, c) == d[2] < c[2] \/ (d[2] = c[2] /\ d[3] < c[3])

\* Each connection gets the cells of a pump in the order the other end sent them:
\* when one is written, every cell before it that is for that connection has been
\* written once, and none after it.
InOrder ==
  \A l \in Pumps : \A k \in 1..Len(out[l]) :
    LET c == out[l][k].cell IN
    /\ \A m \in 1..(k - 1) : out[l][m].cell[1] = c[1] => Before(out[l][m].cell, c)
    /\ \A i \in 1..c[2] : \A j \in 1..Body(c[1], i).size :
         l \in Items(Body(c[1], i).to) /\ Before(<<c[1], i, j>>, c)
           => \E m \in 1..(k - 1) : out[l][m].cell = <<c[1], i, j>>

\* Every descriptor the router has open has one owner that will close it: a reader,
\* the message in hand, or the copy for the host; and none is closed that has one.
FdsOwned ==
  open =  {<<fd, "own">>  : fd \in UNION {Items(pending[p]) \cup Items(fds[p]) : p \in Pumps}}
     \cup {<<fd, "copy">> : fd \in UNION {Items(copy[p]) : p \in Pumps}}

\* What the other ends have sent is written to every connection it is for, sooner or
\* later, unless the session ends.
Relayed(p, i) == \A l \in Items(Body(p, i).to) :
                   \E k \in 1..Len(out[l]) : out[l][k].cell = <<p, i, Body(p, i).size>>
NothingWaits ==
  \A p \in Pumps : \A i \in DOMAIN Streams[p] :
    Relayed(p, i) \/ i >= next[p]
MessagesRelayed == []<>(closed \/ NothingWaits)

\* When one loop ends the others end too, whatever they were doing, and no
\* descriptor stays open.
SessionEnds == closed ~> (Done /\ open = {})

-----------------------------------------------------------------------------
(***************************************************************************)
(* Why the invariants hold.                                                *)
(***************************************************************************)
\* The cells of p that have arrived and are not in a message yet.
Stream(p) == buf[p] \o wire[p]

Last(q) == q[Len(q)]

\* A cell that p's sender has sent, and the cell after c.
IsSent(p, c) == /\ c = <<p, c[2], c[3]>>
                /\ c[2] \in 1..(next[p] - 1) /\ c[3] \in 1..Body(p, c[2]).size
Succ(c) == IF c[3] < Body(c[1], c[2]).size THEN <<c[1], c[2], c[3] + 1>>
                                           ELSE <<c[1], c[2] + 1, 1>>

\* They are those after the message in hand, one after the other, and the last one
\* sent is among them as long as the sender is there.
StreamOK(p) ==
  LET q == Stream(p) IN
  /\ \A k \in 1..Len(q) : IsSent(p, q[k])
  /\ \A k \in 1..(Len(q) - 1) : q[k + 1] = Succ(q[k])
  /\ q # <<>> => q[1] = <<p, hand[p] + 1, 1>>
  /\ p \notin lost => IF q = <<>> THEN next[p] = hand[p] + 1
                      ELSE Last(q) = <<p, next[p] - 1, Body(p, next[p] - 1).size>>

\* The pending descriptors are those of the headers in the buffer, of which there
\* are never more than two, until the reader is closed.
PendingOK(p) ==
  \/ (Carriers(buf[p]) = {} \/ place[p] = "done") /\ pending[p] = <<>>
  \/ \E i \in 1..Len(buf[p]) :
       Carriers(buf[p]) = {i} /\ pending[p] = Carried(buf[p][i])
  \/ \E i, j \in 1..Len(buf[p]) :
       /\ i < j /\ Carriers(buf[p]) = {i, j}
       /\ pending[p] = Carried(buf[p][i]) \o Carried(buf[p][j])

\* No descriptor arrives before the loops start, nor anything from a bus.
StartOK ==
  /\ place["client"] = "sasl" =>
       /\ buf["client"] = <<>> /\ Carriers(wire["client"]) = {}
       /\ \A p \in Pumps \ {"client"} : place[p] = "none"
  /\ \A p \in Pumps :
       /\ place[p] \in {"none", "sasl"} => hand[p] = 0 /\ pending[p] = <<>>
       /\ place[p] = "none" => Stream(p) = <<>>

Working == {"write", "copied", "rest", "failed"}

\* A pump's message has its own descriptors, its copy has all of them or, when one
\* could not be duplicated, none.
HandOK(p) ==
  /\ IF place[p] \in Working THEN hand[p] > 0 /\ fds[p] = Fd(p, hand[p]) ELSE fds[p] = <<>>
  /\ hand[p] > 0 => nth[p] \in 1..(Len(To(p)) + 1)
  /\ place[p] \in {"copied", "rest", "failed"} => nth[p] <= Len(To(p))
  /\ place[p] = "read" /\ hand[p] > 0 => nth[p] = Len(To(p)) + 1
  /\ copy[p] \in {<<>>, fds[p]}
  /\ copy[p] # <<>> => place[p] \in {"copied", "rest"} /\ IsCopy(p)
  /\ place[p] = "copied" => IsCopy(p) /\ fds[p] # <<>> /\ (copy[p] = <<>> => faults > 0)
  /\ place[p] = "rest" => upto[p] \in 1..(Body(p, hand[p]).size - 1)

\* What a pump has half written ends its connection, which it has to itself.
RestOK(p) ==
  place[p] = "rest" =>
    /\ Target(p) = "client" => mutex = p
    /\ \/ Target(p) \in lost \/ closed
       \/ out[Target(p)] # <<>> /\ Last(out[Target(p)]).cell = <<p, hand[p], upto[p]>>

\* A connection that still takes bytes ends with a whole message, or with what a pump
\* will complete.
LastOK(l) ==
  \/ l \in lost \/ closed \/ out[l] = <<>>
  \/ LET c == Last(out[l]).cell IN
       \/ c[3] = Body(c[1], c[2]).size
       \/ \E p \in Pumps : place[p] = "rest" /\ Target(p) = l

\* p is done writing its i-th message to l.
Passed(p, i, l) ==
  \/ i < hand[p]
  \/ i = hand[p] /\ \E m \in 1..(nth[p] - 1) : To(p)[m] = l

\* What is on a connection was meant for it, and its pump has come that far.
OutOK(l) ==
  \A k \in 1..Len(out[l]) :
    LET c == out[l][k].cell IN
    /\ c[1] \in Pumps /\ c[2] \in 1..hand[c[1]] /\ c[3] \in 1..Body(c[1], c[2]).size
    /\ l \in Items(Body(c[1], c[2]).to)
    /\ \/ Passed(c[1], c[2], l) \/ l \in lost \/ closed
       \/ /\ place[c[1]] = "rest" /\ Target(c[1]) = l /\ c[2] = hand[c[1]]
          /\ c[3] <= upto[c[1]]

Has(l, c) == \E k \in 1..Len(out[l]) : out[l][k].cell = c

\* A connection that still takes bytes has all that the pumps are done writing to it.
HasOK(l) ==
  \/ l \in lost \/ closed
  \/ \A p \in Pumps :
       /\ \A i \in 1..hand[p] : \A j \in 1..Body(p, i).size :
            l \in Items(Body(p, i).to) /\ Passed(p, i, l) => Has(l, <<p, i, j>>)
       /\ place[p] = "rest" /\ Target(p) = l =>
            \A j \in 1..upto[p] : Has(l, <<p, hand[p], j>>)

\* Inductive, together with TypeOK.
WireInv ==
  /\ StartOK
  /\ \A p \in Pumps : StreamOK(p) /\ PendingOK(p) /\ HandOK(p) /\ RestOK(p)
  /\ \A l \in Pumps : LastOK(l) /\ OutOK(l) /\ HasOK(l)
=============================================================================
