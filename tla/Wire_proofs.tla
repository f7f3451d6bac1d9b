---------------------------- MODULE Wire_proofs ----------------------------
(***************************************************************************)
(* Theorems about Wire, for all streams of messages and any number of      *)
(* faults.                                                                 *)
(***************************************************************************)
EXTENDS Wire, FiniteSetTheorems, TLAPS

-----------------------------------------------------------------------------
(* Counting. *)

\* What holds of m, and of k + 1 when it holds of k, holds of n: if it did not, taking
\* one away would map the k it fails for into fewer than there are.
LEMMA Climb ==
  ASSUME NEW m \in Int, NEW n \in Int, m <= n, NEW G,
         m \in G, \A k \in m..(n - 1) : k \in G => k + 1 \in G
  PROVE  n \in G
<1> SUFFICES ASSUME n \notin G PROVE FALSE
  OBVIOUS
<1> DEFINE T == {k \in m..n : k \notin G}
           f == [k \in T |-> k - 1]
<1>1. n \in T
  OBVIOUS
<1>2. f \in [T -> T \ {n}]
  OBVIOUS
<1>3. IsFiniteSet(T)
  BY FS_Interval, FS_Subset
<1>4. /\ IsFiniteSet(T \ {n})
      /\ Cardinality(T \ {n}) = Cardinality(T) - 1
      /\ Cardinality(T) \in Nat
  BY <1>1, <1>3, FS_RemoveElement, FS_CardinalityType
<1>5. Cardinality(T \ {n}) < Cardinality(T)
  BY <1>4
<1> HIDE DEF T, f
<1>6. \E x, y \in T : x # y /\ f[x] = f[y]
  BY <1>2, <1>3, <1>4, <1>5, FS_PigeonHole
<1> QED BY <1>6 DEF T, f

-----------------------------------------------------------------------------
(* Sequences. *)

LEMMA TakeFacts ==
  ASSUME NEW S, NEW q \in Seq(S), NEW n \in 0..Len(q)
  PROVE  /\ Take(q, n) \in Seq(S) /\ Len(Take(q, n)) = n
         /\ \A i \in 1..n : Take(q, n)[i] = q[i]
BY DEF Take

LEMMA DropFacts ==
  ASSUME NEW S, NEW q \in Seq(S), NEW n \in 0..Len(q)
  PROVE  /\ Drop(q, n) \in Seq(S) /\ Len(Drop(q, n)) = Len(q) - n
         /\ \A i \in 1..(Len(q) - n) : Drop(q, n)[i] = q[n + i]
BY DEF Drop

LEMMA SameSeq ==
  ASSUME NEW S, NEW q \in Seq(S), NEW r \in Seq(S), Len(q) = Len(r),
         \A i \in 1..Len(q) : q[i] = r[i]
  PROVE  q = r
OBVIOUS

\* Reading moves cells from one end of the connection to the other.
LEMMA ReadKeepsStream ==
  ASSUME NEW S, NEW b \in Seq(S), NEW w \in Seq(S), NEW n \in 0..Len(w)
  PROVE  (b \o Take(w, n)) \o Drop(w, n) = b \o w
<1> DEFINE t == SubSeq(w, 1, n)
           d == SubSeq(w, n + 1, Len(w))
<1>1. t \in Seq(S) /\ Len(t) = n /\ \A i \in 1..n : t[i] = w[i]
  OBVIOUS
<1>2. /\ d \in Seq(S) /\ Len(d) = Len(w) - n
      /\ \A i \in 1..(Len(w) - n) : d[i] = w[n + i]
  OBVIOUS
<1>n. n \in Nat /\ Len(w) \in Nat
  OBVIOUS
<1> HIDE DEF t, d
<1>3. t \o d = w
  <2>1. t \o d \in Seq(S) /\ Len(t \o d) = Len(w)
    BY <1>1, <1>2
  <2>2. ASSUME NEW i \in 1..Len(w) PROVE (t \o d)[i] = w[i]
    <3>1. CASE i <= n
      BY <1>1, <1>2, <3>1
    <3>2. CASE i > n
      <4>1. PICK j \in 1..(Len(w) - n) : i = n + j
        BY <3>2
      <4>2. (t \o d)[Len(t) + j] = d[j]
        BY <1>1, <1>2
      <4>3. d[j] = w[n + j] /\ Len(t) = n
        BY <1>1, <1>2
      <4> QED BY <4>1, <4>2, <4>3
    <3>3. i <= n \/ i > n
      BY <1>n
    <3> QED BY <3>1, <3>2, <3>3
  <2> QED BY <2>1, <2>2, SameSeq
<1>4. (b \o t) \o d = b \o (t \o d)
  BY <1>1, <1>2
<1> QED BY <1>3, <1>4 DEF t, d, Take, Drop

LEMMA DropConcat ==
  ASSUME NEW S, NEW b \in Seq(S), NEW w \in Seq(S), NEW n \in 0..Len(b)
  PROVE  Drop(b, n) \o w = Drop(b \o w, n)
<1>1. /\ SubSeq(b, n + 1, Len(b)) \o w \in Seq(S)
      /\ Len(SubSeq(b, n + 1, Len(b)) \o w) = Len(b) - n + Len(w)
  OBVIOUS
<1>2. /\ SubSeq(b \o w, n + 1, Len(b \o w)) \in Seq(S)
      /\ Len(SubSeq(b \o w, n + 1, Len(b \o w))) = Len(b) - n + Len(w)
  OBVIOUS
<1>3. ASSUME NEW i \in 1..(Len(b) - n + Len(w))
      PROVE  (SubSeq(b, n + 1, Len(b)) \o w)[i] = SubSeq(b \o w, n + 1, Len(b \o w))[i]
  OBVIOUS
<1> QED BY <1>1, <1>2, <1>3, SameSeq DEF Drop

LEMMA TakeConcat ==
  ASSUME NEW S, NEW b \in Seq(S), NEW w \in Seq(S), NEW n \in 0..Len(w)
  PROVE  b \o Take(w, n) = Take(b \o w, Len(b) + n)
BY DEF Take

LEMMA AppendedCells ==
  ASSUME NEW S, NEW b \in Seq(S), NEW w \in Seq(S), NEW x \in Seq(S)
  PROVE  b \o (w \o x) = (b \o w) \o x
OBVIOUS

LEMMA LenNat ==
  ASSUME NEW S, NEW q \in Seq(S)
  PROVE  Len(q) \in Nat
OBVIOUS

\* The parts of a concatenation.
LEMMA ConcatFacts ==
  ASSUME NEW S, NEW b \in Seq(S), NEW w \in Seq(S)
  PROVE  /\ b \o w \in Seq(S) /\ Len(b \o w) = Len(b) + Len(w)
         /\ \A i \in 1..Len(b) : (b \o w)[i] = b[i]
         /\ \A i \in 1..Len(w) : (b \o w)[Len(b) + i] = w[i]
OBVIOUS

\* An index of a concatenation lies in one part or in the other.
LEMMA SplitIndex ==
  ASSUME NEW a \in Nat, NEW b \in Nat, NEW k \in 1..(a + b), NEW P,
         k \in 1..a => P, \A j \in 1..b : k = a + j => P
  PROVE  P
<1>1. CASE k <= a
  BY <1>1
<1>2. CASE k > a
  BY <1>2, k - a \in 1..b
<1> QED BY <1>1, <1>2

-----------------------------------------------------------------------------
(* Messages and their cells. *)

\* A message of a stream has its shape, and is for at most two connections, which
\* differ; a bus writes to the application only, the application to the buses only.
LEMMA MessageFacts ==
  ASSUME NEW p \in Pumps, NEW i \in 1..Len(Streams[p])
  PROVE  /\ Body(p, i).size \in Nat /\ Body(p, i).size >= 1
         /\ Body(p, i).fds \in Nat /\ Body(p, i).good \in BOOLEAN
         /\ IF p = "client"
            THEN Body(p, i).to \in {<<"cont">>, <<"host">>, <<"host", "cont">>, <<>>}
            ELSE Body(p, i).to \in {<<"client">>, <<>>}
<1>1. Streams[p] \in Seq(Messages) /\ i \in DOMAIN Streams[p]
  BY WireAssumption
<1>2. Streams[p][i] \in Messages
  BY <1>1
<1> QED BY <1>1, <1>2, WireAssumption DEF Body, Messages

LEMMA TargetFacts ==
  ASSUME NEW p \in Pumps, NEW i \in 1..Len(Streams[p]), NEW to, to = Body(p, i).to
  PROVE  /\ to \in Seq(Pumps) /\ Len(to) \in 0..2
         /\ \A m, k \in 1..Len(to) : to[m] = to[k] => m = k
         /\ \A m \in 1..Len(to) : (to[m] = "client") <=> (p # "client")
         /\ 1 < Len(to) => p = "client" /\ to = <<"host", "cont">>
<1>1. /\ <<"cont">> \in Seq(Pumps) /\ <<"host">> \in Seq(Pumps) /\ <<>> \in Seq(Pumps)
      /\ <<"client">> \in Seq(Pumps) /\ <<"host", "cont">> \in Seq(Pumps)
  BY DEF Pumps
<1>2. CASE to = <<>>
  BY <1>1, <1>2
<1>3. CASE p = "client" /\ to = <<"cont">>
  <2>1. Len(to) = 1 /\ to[1] = "cont"
    BY <1>3
  <2>2. 1..Len(to) = {1}
    BY <2>1
  <2>3. to \in Seq(Pumps)
    BY <1>1, <1>3
  <2>4. Len(to) \in 0..2 /\ ~(1 < Len(to)) /\ \A m \in 1..Len(to) : m = 1
    BY <2>1, <2>2
  <2> QED BY <1>3, <2>1, <2>3, <2>4
<1>4. CASE p = "client" /\ to = <<"host">>
  <2>1. Len(to) = 1 /\ to[1] = "host"
    BY <1>4
  <2>2. 1..Len(to) = {1}
    BY <2>1
  <2>3. to \in Seq(Pumps)
    BY <1>1, <1>4
  <2>4. Len(to) \in 0..2 /\ ~(1 < Len(to)) /\ \A m \in 1..Len(to) : m = 1
    BY <2>1, <2>2
  <2> QED BY <1>4, <2>1, <2>3, <2>4
<1>5. CASE p = "client" /\ to = <<"host", "cont">>
  <2>1. Len(to) = 2 /\ to[1] = "host" /\ to[2] = "cont"
    BY <1>5
  <2>2. 1..Len(to) = {1, 2}
    BY <2>1
  <2>3. to \in Seq(Pumps)
    BY <1>1, <1>5
  <2> QED BY <1>5, <2>1, <2>2, <2>3
<1>6. CASE p # "client" /\ to = <<"client">>
  <2>1. Len(to) = 1 /\ to[1] = "client"
    BY <1>6
  <2>2. 1..Len(to) = {1}
    BY <2>1
  <2>3. to \in Seq(Pumps)
    BY <1>1, <1>6
  <2>4. Len(to) \in 0..2 /\ ~(1 < Len(to)) /\ \A m \in 1..Len(to) : m = 1
    BY <2>1, <2>2
  <2> QED BY <1>6, <2>1, <2>3, <2>4
<1> QED BY <1>2, <1>3, <1>4, <1>5, <1>6, MessageFacts

LEMMA FdFacts ==
  ASSUME NEW p \in Pumps, NEW i \in 1..Len(Streams[p])
  PROVE  /\ Fd(p, i) \in Seq(Cell) /\ Len(Fd(p, i)) = Body(p, i).fds
         /\ \A k \in 1..Body(p, i).fds : Fd(p, i)[k] = <<p, i, k>>
         /\ (Fd(p, i) = <<>>) <=> (Body(p, i).fds = 0)
<1>1. Body(p, i).fds \in Nat
  BY MessageFacts
<1> QED BY <1>1 DEF Fd, Cell

LEMMA CellsFacts ==
  ASSUME NEW p \in Pumps, NEW i \in 1..Len(Streams[p])
  PROVE  /\ Cells(p, i) \in Seq(Cell) /\ Len(Cells(p, i)) = Body(p, i).size
         /\ \A k \in 1..Body(p, i).size : Cells(p, i)[k] = <<p, i, k>>
<1>1. Body(p, i).size \in Nat
  BY MessageFacts
<1> QED BY <1>1 DEF Cells, Cell

LEMMA CarriersFacts ==
  ASSUME NEW b \in Seq(Cell), NEW w \in Seq(Cell)
  PROVE  Carriers(b \o w) = Carriers(b) \cup {Len(b) + i : i \in Carriers(w)}
<1>1. ASSUME NEW k \in Carriers(b \o w)
      PROVE  k \in Carriers(b) \cup {Len(b) + i : i \in Carriers(w)}
  <2>1. k \in 1..(Len(b) + Len(w)) /\ Carried((b \o w)[k]) # <<>>
    BY <1>1, ConcatFacts DEF Carriers
  <2>2. k \in 1..Len(b) => k \in Carriers(b)
    BY <2>1, ConcatFacts DEF Carriers
  <2>3. ASSUME NEW j \in 1..Len(w), k = Len(b) + j
        PROVE  j \in Carriers(w)
    BY <2>1, <2>3, ConcatFacts DEF Carriers
  <2> QED BY <2>1, <2>2, <2>3
<1>2. Carriers(b) \subseteq Carriers(b \o w)
  BY ConcatFacts DEF Carriers
<1>3. ASSUME NEW i \in Carriers(w) PROVE Len(b) + i \in Carriers(b \o w)
  <2>1. i \in 1..Len(w) /\ Carried(w[i]) # <<>>
    BY DEF Carriers
  <2>2. (b \o w)[Len(b) + i] = w[i] /\ Len(b \o w) = Len(b) + Len(w)
    BY <2>1, ConcatFacts
  <2> QED BY <2>1, <2>2 DEF Carriers
<1> QED BY <1>1, <1>2, <1>3

LEMMA DropCarriers ==
  ASSUME NEW b \in Seq(Cell), NEW n \in 0..Len(b)
  PROVE  Carriers(Drop(b, n)) = {i \in 1..(Len(b) - n) : n + i \in Carriers(b)}
<1>1. Len(Drop(b, n)) = Len(b) - n /\ \A i \in 1..(Len(b) - n) : Drop(b, n)[i] = b[n + i]
  BY DropFacts
<1>2. \A i \in 1..(Len(b) - n) : n + i \in 1..Len(b)
  OBVIOUS
<1> QED BY <1>1, <1>2 DEF Carriers

LEMMA TakeCarriers ==
  ASSUME NEW b \in Seq(Cell), NEW n \in 0..Len(b)
  PROVE  Carriers(Take(b, n)) = {i \in 1..n : i \in Carriers(b)}
<1>1. Len(Take(b, n)) = n /\ \A i \in 1..n : Take(b, n)[i] = b[i]
  BY TakeFacts
<1> QED BY <1>1 DEF Carriers

\* The cells of q are of p, each was sent, and each is the one after the one before.
Run(p, q) == /\ \A k \in 1..Len(q) : IsSent(p, q[k])
             /\ \A k \in 1..(Len(q) - 1) : q[k + 1] = Succ(q[k])

LEMMA SentFacts ==
  ASSUME NEW p \in Pumps, next[p] \in Nat, next[p] <= Len(Streams[p]) + 1,
         NEW c, IsSent(p, c)
  PROVE  /\ c = <<p, c[2], c[3]>> /\ c \in Cell /\ c[2] \in 1..(next[p] - 1)
         /\ c[2] \in 1..Len(Streams[p]) /\ c[3] \in 1..Body(p, c[2]).size
<1>1. c = <<p, c[2], c[3]>> /\ c[2] \in 1..(next[p] - 1) /\ c[3] \in 1..Body(p, c[2]).size
  BY DEF IsSent
<1>2. c[2] \in 1..Len(Streams[p])
  <2>1. Len(Streams[p]) \in Nat
    BY WireAssumption
  <2> QED BY <1>1, <2>1
<1>3. c[2] \in Nat /\ c[3] \in Nat
  BY <1>1
<1> QED BY <1>1, <1>2, <1>3 DEF Cell

LEMMA RunFacts ==
  ASSUME NEW p \in Pumps, next[p] \in Nat, next[p] <= Len(Streams[p]) + 1,
         NEW q \in Seq(Cell), NEW h \in Nat, Run(p, q), q[1] = <<p, h, 1>>,
         1 \in 1..Len(q)
  PROVE  /\ \A k \in 1..Len(q) : /\ q[k][2] \in 1..Len(Streams[p]) /\ q[k][3] \in Nat
                                 /\ q[k] = <<p, q[k][2], q[k][3]>>
         /\ h \in 1..Len(Streams[p])
         /\ Body(p, h).size \in Nat /\ Body(p, h).size >= 1
<1>1. \A k \in 1..Len(q) : /\ q[k][2] \in 1..Len(Streams[p]) /\ q[k][3] \in Nat
                            /\ q[k] = <<p, q[k][2], q[k][3]>>
  BY SentFacts DEF Run
<1>2. h \in 1..Len(Streams[p])
  <2>1. q[1][2] = h
    OBVIOUS
  <2> QED BY <1>1, <2>1
<1> QED BY <1>1, <1>2, MessageFacts

\* A run that starts a message has all its cells first.
LEMMA RunStarts ==
  ASSUME NEW p \in Pumps, next[p] \in Nat, next[p] <= Len(Streams[p]) + 1,
         NEW q \in Seq(Cell), NEW h \in Nat, Run(p, q), q[1] = <<p, h, 1>>,
         NEW n \in 1..Len(q), n <= Body(p, h).size
  PROVE  q[n] = <<p, h, n>>
<1> DEFINE G == {k \in 1..n : q[k] = <<p, h, k>>}
<1>1. 1 \in 1..Len(q) /\ 1 \in G
  OBVIOUS
<1>2. ASSUME NEW k \in 1..(n - 1), k \in G PROVE k + 1 \in G
  <2>1. q[k + 1] = Succ(q[k])
    BY DEF Run
  <2>2. q[k] = <<p, h, k>> /\ k < Body(p, h).size
    BY <1>1, <1>2, RunFacts
  <2>3. Succ(q[k]) = <<p, h, k + 1>>
    BY <2>2 DEF Succ
  <2> QED BY <2>1, <2>3
<1>3. 1 \in Int /\ n \in Int /\ 1 <= n
  OBVIOUS
<1> HIDE DEF G
<1>4. n \in G
  BY <1>1, <1>2, <1>3, Climb
<1> QED BY <1>4 DEF G

\* Then it has the start of the next message, and nothing of an earlier one.
LEMMA RunGoesOn ==
  ASSUME NEW p \in Pumps, next[p] \in Nat, next[p] <= Len(Streams[p]) + 1,
         NEW q \in Seq(Cell), NEW h \in Nat, Run(p, q), q[1] = <<p, h, 1>>,
         NEW n \in 1..Len(q)
  PROVE  /\ h <= q[n][2]
         /\ Body(p, h).size < n =>
              q[Body(p, h).size + 1] = <<p, h + 1, 1>> /\ h < q[n][2]
<1>0. PICK m : m = Body(p, h).size
  OBVIOUS
<1>1. /\ 1 \in 1..Len(q) /\ m \in Nat /\ m >= 1
      /\ \A k \in 1..Len(q) : q[k][2] \in Nat
  BY <1>0, RunFacts
<1>2. \A k \in 1..(n - 1) : /\ k \in 1..Len(q) /\ k + 1 \in 1..Len(q)
                             /\ q[k + 1] = Succ(q[k]) /\ q[k][2] <= q[k + 1][2]
  <2> SUFFICES ASSUME NEW k \in 1..(n - 1)
               PROVE  /\ k \in 1..Len(q) /\ k + 1 \in 1..Len(q)
                      /\ q[k + 1] = Succ(q[k]) /\ q[k][2] <= q[k + 1][2]
    OBVIOUS
  <2>1. k \in 1..Len(q) /\ k + 1 \in 1..Len(q) /\ q[k + 1] = Succ(q[k])
    BY DEF Run
  <2>2. q[k + 1][2] = q[k][2] \/ q[k + 1][2] = q[k][2] + 1
    BY <2>1 DEF Succ
  <2> QED BY <1>1, <2>1, <2>2
<1>3. h <= q[n][2]
  <2> DEFINE G == {k \in 1..Len(q) : h <= q[k][2]}
  <2>1. 1 \in G
    BY <1>1
  <2>2. ASSUME NEW k \in 1..(n - 1), k \in G PROVE k + 1 \in G
    BY <1>1, <1>2, <2>2
  <2> HIDE DEF G
  <2>3. n \in G
    BY <2>1, <2>2, Climb
  <2> QED BY <2>3 DEF G
<1> SUFFICES ASSUME m < n PROVE q[m + 1] = <<p, h + 1, 1>> /\ h < q[n][2]
  BY <1>0, <1>3
<1>4. q[m + 1] = <<p, h + 1, 1>>
  <2>1. m \in 1..(n - 1) /\ m \in 1..Len(q) /\ m <= Body(p, h).size
    BY <1>0, <1>1
  <2>2. q[m] = <<p, h, m>>
    BY <2>1, RunStarts
  <2>3. Succ(q[m]) = <<p, h + 1, 1>>
    BY <2>2, <1>0, <1>1 DEF Succ
  <2> QED BY <1>2, <2>1, <2>3
<1>5. h < q[n][2]
  <2> DEFINE G == {k \in 1..Len(q) : h < q[k][2]}
  <2>1. m + 1 \in G
    BY <1>1, <1>4
  <2>2. ASSUME NEW k \in (m + 1)..(n - 1), k \in G PROVE k + 1 \in G
    BY <1>1, <1>2, <2>2
  <2> HIDE DEF G
  <2>3. m + 1 <= n /\ m + 1 \in Int
    BY <1>1
  <2>4. n \in G
    BY <2>1, <2>2, <2>3, Climb
  <2> QED BY <2>4 DEF G
<1> QED BY <1>4, <1>5

-----------------------------------------------------------------------------
(* What a step leaves alone. *)

IInv == TypeOK /\ WireInv

\* The part of the state that belongs to p.
Own(p) == <<next[p], wire[p], buf[p], pending[p], place[p],
            hand[p], fds[p], copy[p], nth[p], upto[p]>>

LEMMA PendingSame ==
  ASSUME NEW p \in Pumps, PendingOK(p), buf'[p] = buf[p], pending'[p] = pending[p],
         place[p] = "done" => place'[p] = "done"
  PROVE  PendingOK(p)'
BY DEF PendingOK

LEMMA HandSame ==
  ASSUME NEW p \in Pumps, HandOK(p), place'[p] = place[p], hand'[p] = hand[p],
         fds'[p] = fds[p], copy'[p] = copy[p], nth'[p] = nth[p], upto'[p] = upto[p],
         faults \in Nat, faults' \in Nat, faults <= faults'
  PROVE  HandOK(p)'
BY DEF HandOK, To, IsCopy

LEMMA OthersKeep ==
  ASSUME NEW r \in Pumps, Own(r)' = Own(r), r \in lost => r \in lost', faults <= faults',
         faults \in Nat, faults' \in Nat, StreamOK(r), PendingOK(r), HandOK(r)
  PROVE  StreamOK(r)' /\ PendingOK(r)' /\ HandOK(r)'
<1>1. /\ next'[r] = next[r] /\ wire'[r] = wire[r] /\ buf'[r] = buf[r]
      /\ pending'[r] = pending[r] /\ place'[r] = place[r] /\ hand'[r] = hand[r]
      /\ fds'[r] = fds[r] /\ copy'[r] = copy[r] /\ nth'[r] = nth[r] /\ upto'[r] = upto[r]
  BY DEF Own
<1>2. StreamOK(r)'
  BY <1>1 DEF StreamOK, Stream, IsSent
<1>3. PendingOK(r)'
  BY <1>1, PendingSame
<1>4. HandOK(r)'
  BY <1>1, HandSame
<1> QED BY <1>2, <1>3, <1>4

\* A step of one pump, after the handshake.
LEMMA StepOfOne ==
  ASSUME IInv, NEW p \in Pumps, \A r \in Pumps \ {p} : Own(r)' = Own(r),
         lost \subseteq lost', faults <= faults', faults' \in Nat,
         place[p] \notin {"none", "sasl"}, place'[p] \notin {"none", "sasl"},
         StreamOK(p)', PendingOK(p)', HandOK(p)'
  PROVE  StartOK' /\ \A r \in Pumps : StreamOK(r)' /\ PendingOK(r)' /\ HandOK(r)'
<1>1. ASSUME NEW r \in Pumps \ {p}
      PROVE  /\ wire'[r] = wire[r] /\ buf'[r] = buf[r] /\ pending'[r] = pending[r]
             /\ place'[r] = place[r] /\ hand'[r] = hand[r]
  BY <1>1 DEF Own
<1>2. StartOK
  BY DEF IInv, WireInv
<1>3. place["client"] # "sasl"
  BY <1>2 DEF StartOK, Pumps
<1>4. place'["client"] # "sasl"
  BY <1>1, <1>3 DEF Pumps
<1>5. ASSUME NEW r \in Pumps
      PROVE  /\ place'[r] \in {"none", "sasl"} => hand'[r] = 0 /\ pending'[r] = <<>>
             /\ place'[r] = "none" => Stream(r)' = <<>>
  BY <1>1, <1>2 DEF StartOK, Stream
<1>6. StartOK'
  BY <1>4, <1>5 DEF StartOK
<1>7. ASSUME NEW r \in Pumps PROVE StreamOK(r)' /\ PendingOK(r)' /\ HandOK(r)'
  <2>1. CASE r = p
    BY <2>1
  <2>2. CASE r # p
    <3>1. StreamOK(r) /\ PendingOK(r) /\ HandOK(r) /\ faults \in Nat
      BY DEF IInv, WireInv, TypeOK
    <3> QED BY <2>2, <3>1, OthersKeep
  <2> QED BY <2>1, <2>2
<1> QED BY <1>6, <1>7

OutInv == /\ \A p \in Pumps : RestOK(p)
          /\ \A l \in Pumps : LastOK(l) /\ OutOK(l) /\ HasOK(l)

\* A step that writes nothing and ends no write.
LEMMA NothingWritten ==
  ASSUME IInv, out' = out, hand' = hand, nth' = nth,
         \A p \in Pumps : /\ (place'[p] = "rest") <=> (place[p] = "rest")
                          /\ place[p] = "rest" => upto'[p] = upto[p]
                          /\ mutex = p => mutex' = p,
         lost \subseteq lost', closed => closed'
  PROVE  OutInv'
<1>1. OutInv
  BY DEF IInv, WireInv, OutInv
<1>2. ASSUME NEW p \in Pumps PROVE RestOK(p)'
  BY <1>1 DEF OutInv, RestOK, Target, To, Last
<1>3. ASSUME NEW l \in Pumps PROVE LastOK(l)'
  BY <1>1 DEF OutInv, LastOK, Target, To, Last
<1>4. ASSUME NEW l \in Pumps PROVE OutOK(l)'
  BY <1>1 DEF OutInv, OutOK, Passed, Target, To
<1>5. ASSUME NEW l \in Pumps PROVE HasOK(l)'
  <2> SUFFICES ASSUME ~(l \in lost \/ closed)' PROVE HasOK(l)'
    BY DEF HasOK
  <2>1. ~(l \in lost \/ closed) /\ HasOK(l)
    BY <1>1 DEF OutInv
  <2>2. \A p \in Pumps : \A i : Passed(p, i, l)' <=> Passed(p, i, l)
    BY DEF Passed, To
  <2>3. \A c : Has(l, c)' <=> Has(l, c)
    BY DEF Has
  <2>4. \A p \in Pumps : Target(p)' = Target(p)
    BY DEF Target, To
  <2> QED BY <2>1, <2>2, <2>3, <2>4 DEF HasOK
<1> QED BY <1>2, <1>3, <1>4, <1>5 DEF OutInv

-----------------------------------------------------------------------------
(* The other ends and the readers. *)

LEMMA TypeAt ==
  ASSUME TypeOK, NEW p \in Pumps
  PROVE  /\ place[p] \in Places /\ Len(Streams[p]) \in Nat
         /\ next[p] \in Nat /\ next[p] <= Len(Streams[p]) + 1
         /\ hand[p] \in Nat /\ hand[p] < next[p] /\ nth[p] \in 1..3 /\ upto[p] \in Nat
         /\ faults \in Nat /\ MaxFaults \in Nat
<1>1. Streams[p] \in Seq(Messages) /\ MaxFaults \in Nat
  BY WireAssumption
<1>2. Len(Streams[p]) \in Nat
  BY <1>1
<1>3. /\ place \in [Pumps -> Places] /\ next \in [Pumps -> Nat] /\ hand \in [Pumps -> Nat]
      /\ nth \in [Pumps -> 1..3] /\ upto \in [Pumps -> Nat]
      /\ hand[p] < next[p] /\ next[p] <= Len(Streams[p]) + 1 /\ faults \in 0..MaxFaults
  BY DEF TypeOK
<1> QED BY <1>1, <1>2, <1>3

LEMMA SeqAt ==
  ASSUME TypeOK, NEW p \in Pumps
  PROVE  /\ wire[p] \in Seq(Cell) /\ buf[p] \in Seq(Cell) /\ Stream(p) \in Seq(Cell)
         /\ Len(Stream(p)) = Len(buf[p]) + Len(wire[p])
         /\ Len(wire[p]) \in Nat /\ Len(buf[p]) \in Nat /\ Len(Stream(p)) \in Nat
         /\ pending[p] \in Seq(Cell) /\ fds[p] \in Seq(Cell) /\ copy[p] \in Seq(Cell)
<1>1. /\ wire[p] \in Seq(Cell) /\ buf[p] \in Seq(Cell)
      /\ pending[p] \in Seq(Cell) /\ fds[p] \in Seq(Cell) /\ copy[p] \in Seq(Cell)
  BY DEF TypeOK
<1>2. Stream(p) \in Seq(Cell) /\ Len(Stream(p)) = Len(buf[p]) + Len(wire[p])
  BY <1>1, ConcatFacts DEF Stream
<1>3. Len(wire[p]) \in Nat /\ Len(buf[p]) \in Nat /\ Len(Stream(p)) \in Nat
  BY <1>1, <1>2, LenNat
<1> QED BY <1>1, <1>2, <1>3

LEMMA OutAt ==
  ASSUME TypeOK, NEW p \in Pumps
  PROVE  out[p] \in Seq([cell: Cell, with: Seq(Cell)]) /\ Len(out[p]) \in Nat
<1>1. out[p] \in Seq([cell: Cell, with: Seq(Cell)])
  BY DEF TypeOK
<1> QED BY <1>1

\* p's run q starts after message h, and ends with the last cell before message n.
Starts(p, q, h) == q # <<>> => q[1] = <<p, h + 1, 1>>
Ends(p, q, h, n) == IF q = <<>> THEN n = h + 1
                    ELSE Last(q) = <<p, n - 1, Body(p, n - 1).size>>

\* What a sender sends continues the run of what it sent before.
LEMMA RunExtends ==
  ASSUME NEW p \in Pumps, NEW n \in 1..Len(Streams[p]), next[p] = n, next'[p] = n + 1,
         NEW h \in Nat, NEW q \in Seq(Cell), Run(p, q), Starts(p, q, h), Ends(p, q, h, n)
  PROVE  LET r == q \o Cells(p, n) IN Run(p, r)' /\ Starts(p, r, h) /\ Ends(p, r, h, n + 1)
<1> PICK r : r = q \o Cells(p, n)
  OBVIOUS
<1> PICK x : x = Cells(p, n)
  OBVIOUS
<1> PICK s : s = Body(p, n).size
  OBVIOUS
<1>1. /\ x \in Seq(Cell) /\ Len(x) = s /\ s \in Nat /\ s >= 1
      /\ \A j \in 1..s : x[j] = <<p, n, j>>
  BY CellsFacts, MessageFacts
<1>2. n \in Nat /\ Len(q) \in Nat
  OBVIOUS
<1>3. /\ Len(r) = Len(q) + s /\ \A k \in 1..Len(q) : r[k] = q[k]
      /\ \A j \in 1..s : r[Len(q) + j] = x[j]
  BY <1>1
<1>4. \A j \in 1..s : r[Len(q) + j] = <<p, n, j>>
  BY <1>1, <1>3
<1>5. ASSUME NEW k \in 1..(Len(q) + s) PROVE IsSent(p, r[k])'
  <2>1. k \in 1..Len(q) => IsSent(p, r[k])'
    BY <1>2, <1>3 DEF IsSent, Run
  <2>2. ASSUME NEW j \in 1..s, k = Len(q) + j PROVE IsSent(p, r[k])'
    <3>1. r[k] = <<p, n, j>>
      BY <1>4, <2>2
    <3>2. n \in 1..(n + 1 - 1)
      BY <1>2
    <3> QED BY <3>1, <3>2 DEF IsSent
  <2> QED BY <1>1, <1>2, <2>1, <2>2, SplitIndex
<1>6. ASSUME NEW k \in 1..(Len(q) + s), k < Len(q) + s PROVE r[k + 1] = Succ(r[k])
  <2>1. CASE k \in 1..(Len(q) - 1)
    BY <1>2, <1>3, <2>1 DEF Run
  <2>2. CASE k = Len(q)
    <3>1. q # <<>> /\ k \in 1..Len(q)
      BY <1>2, <2>2
    <3>2. r[k] = <<p, n - 1, Body(p, n - 1).size>> /\ IsSent(p, r[k])
      BY <1>3, <2>2, <3>1 DEF Last, Run, Ends
    <3>3. Body(p, n - 1).size \in 1..Body(p, n - 1).size
      BY <3>2 DEF IsSent
    <3>4. Succ(r[k]) = <<p, n, 1>>
      BY <1>2, <3>2, <3>3 DEF Succ
    <3> QED BY <1>1, <1>4, <2>2, <3>4
  <2>3. ASSUME NEW j \in 1..s, k = Len(q) + j PROVE r[k + 1] = Succ(r[k])
    <3>1. j < s /\ j + 1 \in 1..s /\ Len(q) + (j + 1) = k + 1
      BY <1>1, <1>2, <1>6, <2>3
    <3>2. r[k] = <<p, n, j>> /\ r[k + 1] = <<p, n, j + 1>>
      BY <1>4, <2>3, <3>1
    <3> QED BY <3>1, <3>2 DEF Succ
  <2>4. k \in 1..Len(q) => k \in 1..(Len(q) - 1) \/ k = Len(q)
    BY <1>2
  <2>5. k \in 1..Len(q) => r[k + 1] = Succ(r[k])
    BY <2>1, <2>2, <2>4
  <2> QED BY <1>1, <1>2, <2>3, <2>5, SplitIndex
<1>7. Run(p, r)'
  <2>1. \A k \in 1..(Len(r) - 1) : k \in 1..(Len(q) + s) /\ k < Len(q) + s
    BY <1>1, <1>2, <1>3
  <2> QED BY <1>3, <1>5, <1>6, <2>1 DEF Run
<1>8. Starts(p, r, h)
  <2>1. 1 \in 1..s
    BY <1>1
  <2>2. CASE q = <<>>
    <3>1. Len(q) = 0 /\ n = h + 1
      BY <2>2 DEF Ends
    <3> QED BY <1>4, <2>1, <3>1 DEF Starts
  <2>3. CASE q # <<>>
    BY <1>2, <1>3, <2>3 DEF Starts
  <2> QED BY <2>2, <2>3
<1>9. Ends(p, r, h, n + 1)
  <2>1. s \in 1..s /\ Len(r) # 0
    BY <1>1, <1>2, <1>3
  <2>2. r # <<>>
    BY <2>1
  <2>3. Last(r) = <<p, n, s>>
    BY <1>3, <1>4, <2>1 DEF Last
  <2>4. n + 1 - 1 = n
    BY <1>2
  <2> QED BY <2>2, <2>3, <2>4 DEF Ends
<1> QED BY <1>7, <1>8, <1>9

LEMMA SendKeeps ==
  ASSUME IInv, NEW p \in Pumps, Send(p)
  PROVE  IInv'
<1> PICK n : n = next[p]
  OBVIOUS
<1> PICK q : q = Stream(p)
  OBVIOUS
<1> PICK x : x = Cells(p, n)
  OBVIOUS
<1>1. TypeOK /\ StartOK /\ StreamOK(p) /\ PendingOK(p) /\ HandOK(p)
  BY DEF IInv, WireInv
<1>2. /\ n \in 1..Len(Streams[p]) /\ q \in Seq(Cell) /\ Len(q) \in Nat
      /\ hand[p] \in Nat /\ hand[p] < n
  <2>1. n <= Len(Streams[p])
    BY DEF Send
  <2>2. n \in Nat /\ hand[p] \in Nat /\ hand[p] < n /\ Len(Streams[p]) \in Nat
    BY <1>1, TypeAt
  <2>3. q \in Seq(Cell) /\ Len(q) \in Nat
    BY <1>1, SeqAt
  <2> QED BY <2>1, <2>2, <2>3
<1>3. /\ x \in Seq(Cell) /\ Len(x) = Body(p, n).size
      /\ \A j \in 1..Body(p, n).size : x[j] = <<p, n, j>>
      /\ Body(p, n).size \in Nat /\ Body(p, n).size >= 1
  BY <1>2, CellsFacts, MessageFacts
<1>4. /\ wire' = [wire EXCEPT ![p] = @ \o x] /\ next' = [next EXCEPT ![p] = @ + 1]
      /\ UNCHANGED <<buf, pending, place, hand, fds, copy, nth, upto, mutex, out,
                     lost, closed, faults, open>>
      /\ p \notin lost /\ place[p] # "none" /\ (place[p] = "sasl" => Body(p, n).fds = 0)
  BY DEF Send, handVars, writeVars, endVars
<1>5. next \in [Pumps -> Nat] /\ wire \in [Pumps -> Seq(Cell)]
  BY <1>1 DEF TypeOK
<1>6. wire'[p] = wire[p] \o x /\ next'[p] = n + 1
  BY <1>4, <1>5
<1>7. TypeOK'
  <2>1. wire' \in [Pumps -> Seq(Cell)]
    BY <1>3, <1>4, <1>5, ConcatFacts
  <2>2. /\ next' \in [Pumps -> Nat]
        /\ \A r \in Pumps : hand'[r] < next'[r] /\ next'[r] <= Len(Streams[r]) + 1
    BY <1>1, <1>2, <1>4, <1>5, TypeAt
  <2> QED BY <1>1, <1>4, <2>1, <2>2 DEF TypeOK
<1>8. Stream(p)' = q \o x
  <2>1. PICK b \in Seq(Cell) : b = buf[p]
    BY <1>1, SeqAt
  <2>2. PICK w \in Seq(Cell) : w = wire[p]
    BY <1>1, SeqAt
  <2>3. b \o (w \o x) = (b \o w) \o x
    BY <1>3, AppendedCells
  <2> QED BY <1>4, <1>6, <2>1, <2>2, <2>3 DEF Stream
<1>9. Run(p, q) /\ Starts(p, q, hand[p]) /\ Ends(p, q, hand[p], n)
  BY <1>1, <1>4 DEF StreamOK, Run, Starts, Ends
<1>10. StreamOK(p)'
  <2> PICK r : r = q \o x
    OBVIOUS
  <2>1. Run(p, r)' /\ Starts(p, r, hand[p]) /\ Ends(p, r, hand[p], n + 1)
    BY <1>2, <1>6, <1>9, RunExtends
  <2>2. hand'[p] = hand[p] /\ next'[p] = n + 1
    BY <1>4, <1>6
  <2>3. Stream(p)' = r
    BY <1>8
  <2> QED BY <2>1, <2>2, <2>3 DEF StreamOK, Run, Starts, Ends
<1>11. PendingOK(p)' /\ HandOK(p)'
  BY <1>1, <1>4, TypeAt, PendingSame, HandSame
<1>12. ASSUME NEW r \in Pumps \ {p} PROVE StreamOK(r)' /\ PendingOK(r)' /\ HandOK(r)'
  <2>1. Own(r)' = Own(r)
    BY <1>4, <1>5 DEF Own
  <2>2. StreamOK(r) /\ PendingOK(r) /\ HandOK(r) /\ faults \in Nat
    BY <1>1, TypeAt DEF IInv, WireInv
  <2> QED BY <1>4, <2>1, <2>2, OthersKeep
<1>13. StartOK'
  <2>1. place["client"] = "sasl" => Carriers(wire'["client"]) = {}
    <3>1. CASE p = "client" /\ place["client"] = "sasl"
      <4>1. Carriers(wire[p]) = {} /\ Body(p, n).fds = 0
        BY <1>1, <1>4, <3>1 DEF StartOK
      <4>2. \A j \in 1..Body(p, n).size : Carried(x[j]) = <<>>
        BY <1>2, <1>3, <4>1, FdFacts DEF Carried
      <4>3. Carriers(x) = {}
        BY <1>3, <4>2 DEF Carriers
      <4>4. wire[p] \in Seq(Cell)
        BY <1>1, SeqAt
      <4>5. Carriers(wire[p] \o x) = Carriers(wire[p]) \cup {Len(wire[p]) + i : i \in Carriers(x)}
        BY <1>3, <4>4, CarriersFacts
      <4> QED BY <1>6, <3>1, <4>1, <4>3, <4>5
    <3>2. CASE p # "client" /\ place["client"] = "sasl"
      BY <1>1, <1>4, <1>5, <3>2 DEF StartOK, Pumps
    <3> QED BY <3>1, <3>2
  <2>2. \A r \in Pumps : place[r] = "none" => Stream(r)' = <<>>
    BY <1>1, <1>4, <1>5 DEF StartOK, Stream
  <2> QED BY <1>1, <1>4, <2>1, <2>2 DEF StartOK
<1>14. OutInv'
  BY <1>4, NothingWritten
<1> QED BY <1>7, <1>10, <1>11, <1>12, <1>13, <1>14 DEF IInv, WireInv, OutInv

LEMMA LoseKeeps ==
  ASSUME IInv, NEW p \in Pumps, Lose(p)
  PROVE  IInv'
<1>1. TypeOK /\ StartOK /\ StreamOK(p) /\ PendingOK(p) /\ HandOK(p)
  BY DEF IInv, WireInv
<1>2. PICK w \in Seq(Cell) : w = wire[p]
  BY <1>1, SeqAt
<1>3. PICK b \in Seq(Cell) : b = buf[p]
  BY <1>1, SeqAt
<1>4. PICK n \in 0..Len(w) : wire' = [wire EXCEPT ![p] = Take(@, n)]
  BY <1>2 DEF Lose
<1>5. /\ UNCHANGED <<next, buf, pending, place, hand, fds, copy, nth, upto, mutex, out,
                     closed, open>>
      /\ lost' = lost \cup {p} /\ faults' = faults + 1 /\ faults < MaxFaults
  BY DEF Lose, handVars, writeVars
<1>6. wire \in [Pumps -> Seq(Cell)] /\ lost \subseteq Pumps /\ faults \in 0..MaxFaults
  BY <1>1 DEF TypeOK
<1>7. /\ Take(w, n) \in Seq(Cell) /\ Len(Take(w, n)) = n
      /\ \A i \in 1..n : Take(w, n)[i] = w[i]
  BY TakeFacts
<1>8. wire'[p] = Take(w, n)
  BY <1>2, <1>4, <1>6
<1>9. faults' \in 0..MaxFaults /\ faults <= faults' /\ faults \in Nat /\ faults' \in Nat
  BY <1>5, <1>6, WireAssumption
<1>10. TypeOK'
  <2>1. wire' \in [Pumps -> Seq(Cell)]
    BY <1>2, <1>4, <1>6, <1>7
  <2> QED BY <1>1, <1>5, <1>6, <1>9, <2>1 DEF TypeOK
<1>11. StreamOK(p)'
  <2>1. PICK q \in Seq(Cell) : q = b \o w
    BY ConcatFacts
  <2>2. PICK r \in Seq(Cell) : r = b \o Take(w, n)
    BY <1>7, ConcatFacts
  <2>3. PICK t \in Seq(Cell) : t = Take(w, n)
    BY <1>7
  <2>4. Len(q) = Len(b) + Len(w) /\ Len(r) = Len(b) + n
    BY <1>7, <2>1, <2>2, ConcatFacts
  <2>5. ASSUME NEW k \in 1..Len(r) PROVE k \in 1..Len(q) /\ r[k] = q[k]
    <3>1. k \in 1..Len(b) => r[k] = q[k]
      BY <1>7, <2>1, <2>2, ConcatFacts
    <3>2. ASSUME NEW j \in 1..n, k = Len(b) + j PROVE r[k] = q[k]
      <4>1. j \in 1..Len(w)
        OBVIOUS
      <4>2. q[Len(b) + j] = w[j]
        BY <2>1, <4>1, ConcatFacts
      <4>3. r[Len(b) + j] = t[j] /\ t[j] = w[j]
        BY <1>7, <2>2, <2>3, ConcatFacts
      <4> QED BY <3>2, <4>2, <4>3
    <3>3. Len(b) \in Nat /\ n \in Nat /\ k \in 1..(Len(b) + n)
      BY <2>4
    <3>4. r[k] = q[k]
      BY <3>1, <3>2, <3>3, SplitIndex
    <3> QED BY <2>4, <3>4
  <2>6. q = Stream(p) /\ r = Stream(p)'
    BY <1>2, <1>3, <1>5, <1>8, <2>1, <2>2 DEF Stream
  <2>7. /\ \A k \in 1..Len(q) : IsSent(p, q[k])
        /\ \A k \in 1..(Len(q) - 1) : q[k + 1] = Succ(q[k])
        /\ q # <<>> => q[1] = <<p, hand[p] + 1, 1>>
    BY <1>1, <2>6 DEF StreamOK
  <2>8. \A k \in 1..Len(r) : IsSent(p, r[k])'
    BY <1>5, <2>5, <2>7 DEF IsSent
  <2>9. ASSUME NEW k \in 1..(Len(r) - 1) PROVE r[k + 1] = Succ(r[k])
    <3>1. k \in 1..Len(r) /\ k + 1 \in 1..Len(r)
      OBVIOUS
    <3>2. r[k] = q[k] /\ r[k + 1] = q[k + 1] /\ k + 1 \in 1..Len(q) /\ Len(q) \in Nat
      BY <2>5, <3>1
    <3> QED BY <2>7, <3>2
  <2>10. ASSUME r # <<>> PROVE r[1] = <<p, hand[p] + 1, 1>>
    <3>1. 1 \in 1..Len(r)
      BY <2>10
    <3>2. r[1] = q[1] /\ 1 \in 1..Len(q)
      BY <2>5, <3>1
    <3>3. q # <<>>
      BY <3>2
    <3> QED BY <2>7, <3>2, <3>3
  <2>11. p \in lost' /\ hand'[p] = hand[p]
    BY <1>5
  <2> QED BY <2>6, <2>8, <2>9, <2>10, <2>11 DEF StreamOK
<1>12. PendingOK(p)' /\ HandOK(p)'
  BY <1>1, <1>5, <1>9, PendingSame, HandSame
<1>13. ASSUME NEW r \in Pumps \ {p} PROVE StreamOK(r)' /\ PendingOK(r)' /\ HandOK(r)'
  <2>1. Own(r)' = Own(r)
    BY <1>4, <1>5, <1>6 DEF Own
  <2>2. StreamOK(r) /\ PendingOK(r) /\ HandOK(r)
    BY DEF IInv, WireInv
  <2> QED BY <1>5, <1>9, <2>1, <2>2, OthersKeep
<1>14. StartOK'
  <2>1. place["client"] = "sasl" => Carriers(wire'["client"]) = {}
    <3>1. CASE p = "client" /\ place["client"] = "sasl"
      <4>1. Carriers(w) = {}
        BY <1>1, <1>2, <3>1 DEF StartOK
      <4>2. Carriers(Take(w, n)) = {}
        BY <4>1, TakeCarriers
      <4> QED BY <1>8, <3>1, <4>2
    <3>2. CASE p # "client" /\ place["client"] = "sasl"
      BY <1>1, <1>4, <1>6, <3>2 DEF StartOK, Pumps
    <3> QED BY <3>1, <3>2
  <2>2. ASSUME NEW r \in Pumps, place[r] = "none" PROVE Stream(r)' = <<>>
    <3>1. CASE r = p
      <4>1. b \o w = <<>>
        BY <1>1, <1>2, <1>3, <2>2, <3>1 DEF StartOK, Stream
      <4>2. Len(b) = 0 /\ Len(w) = 0
        BY <4>1
      <4>3. PICK t \in Seq(Cell) : t = Take(w, n)
        BY <1>7
      <4>4. Len(t) = 0
        BY <1>7, <4>2, <4>3
      <4>5. b \o t = <<>>
        BY <4>2, <4>4
      <4> QED BY <1>3, <1>5, <1>8, <3>1, <4>3, <4>5 DEF Stream
    <3>2. CASE r # p
      BY <1>1, <1>4, <1>5, <1>6, <2>2, <3>2 DEF StartOK, Stream
    <3> QED BY <3>1, <3>2
  <2> QED BY <1>1, <1>5, <2>1, <2>2 DEF StartOK
<1>15. OutInv'
  BY <1>5, NothingWritten
<1> QED BY <1>10, <1>11, <1>12, <1>13, <1>14, <1>15 DEF IInv, WireInv, OutInv

\* The buffer starts with the message after the one in hand.
LEMMA FrontFacts ==
  ASSUME IInv, NEW p \in Pumps, NEW b \in Seq(Cell), b = buf[p], b # <<>>, NEW f, f = Front(p)
  PROVE  /\ f = hand[p] + 1 /\ f \in 1..Len(Streams[p]) /\ f < next[p]
         /\ 1 \in 1..Len(b) /\ b[1] = <<p, f, 1>>
         /\ \A k \in 1..Len(b) : IsSent(p, b[k])
         /\ \A k \in 1..Len(b) : k <= Body(p, f).size => b[k] = <<p, f, k>>
<1>1. TypeOK /\ StreamOK(p)
  BY DEF IInv, WireInv
<1>2. PICK w \in Seq(Cell) : w = wire[p]
  BY <1>1, SeqAt
<1>3. PICK q \in Seq(Cell) : q = b \o w
  BY ConcatFacts
<1>4. Len(q) = Len(b) + Len(w) /\ \A k \in 1..Len(b) : q[k] = b[k]
  BY <1>3, ConcatFacts
<1>5. q = Stream(p)
  BY <1>2, <1>3 DEF Stream
<1>6. 1 \in 1..Len(b) /\ 1 \in 1..Len(q) /\ q # <<>>
  <2>1. Len(b) # 0 /\ Len(b) \in Nat /\ Len(w) \in Nat
    OBVIOUS
  <2>2. Len(q) # 0
    BY <1>4, <2>1
  <2> QED BY <1>4, <2>1, <2>2
<1>7. Run(p, q) /\ q[1] = <<p, hand[p] + 1, 1>>
  BY <1>1, <1>5, <1>6 DEF StreamOK, Run
<1>8. b[1] = <<p, hand[p] + 1, 1>> /\ f = hand[p] + 1
  <2>1. b[1] = <<p, hand[p] + 1, 1>>
    BY <1>4, <1>6, <1>7
  <2>2. Head(b) = b[1]
    OBVIOUS
  <2> QED BY <2>1, <2>2 DEF Front
<1>9. /\ hand[p] \in Nat /\ next[p] \in Nat /\ next[p] <= Len(Streams[p]) + 1
      /\ Len(Streams[p]) \in Nat
  BY <1>1, TypeAt
<1>10. \A k \in 1..Len(b) : k \in 1..Len(q)
  BY <1>4
<1>11. \A k \in 1..Len(b) : IsSent(p, b[k])
  BY <1>4, <1>7, <1>10 DEF Run
<1>12. f \in 1..(next[p] - 1)
  <2>1. IsSent(p, <<p, f, 1>>)
    BY <1>6, <1>8, <1>11
  <2> QED BY <2>1 DEF IsSent
<1>13. f \in 1..Len(Streams[p]) /\ f < next[p] /\ f \in Nat
  BY <1>9, <1>12
<1>14. ASSUME NEW k \in 1..Len(b), k <= Body(p, f).size PROVE b[k] = <<p, f, k>>
  <2>1. k \in 1..Len(q) /\ q[1] = <<p, f, 1>>
    BY <1>7, <1>8, <1>10
  <2>2. q[k] = <<p, f, k>>
    BY <1>7, <1>9, <1>13, <1>14, <2>1, RunStarts
  <2> QED BY <1>4, <2>2
<1> QED BY <1>6, <1>8, <1>11, <1>13, <1>14

LEMMA CarriedFacts ==
  ASSUME TypeOK, NEW p \in Pumps, NEW c, IsSent(p, c)
  PROVE  Carried(c) \in Seq(Cell)
<1>1. c = <<p, c[2], c[3]>> /\ c[2] \in 1..Len(Streams[p])
  BY TypeAt, SentFacts
<1>2. Fd(p, c[2]) \in Seq(Cell) /\ <<>> \in Seq(Cell)
  BY <1>1, FdFacts
<1> QED BY <1>1, <1>2 DEF Carried

\* A reader that wants more has no descriptors but those of the message it waits for.
LEMMA HungryFacts ==
  ASSUME IInv, NEW p \in Pumps, NEW b \in Seq(Cell), b = buf[p], Hungry(p)
  PROVE  \/ Carriers(b) = {} /\ pending[p] = <<>>
         \/ Carriers(b) = {1} /\ 1 \in 1..Len(b) /\ pending[p] = Carried(b[1])
<1>1. TypeOK /\ PendingOK(p) /\ place[p] = "read"
  BY DEF IInv, WireInv, Hungry
<1>2. Carriers(b) \subseteq 1..Len(b)
  BY DEF Carriers
<1>3. \/ Carriers(b) = {} /\ pending[p] = <<>>
      \/ \E i \in 1..Len(b) : Carriers(b) = {i} /\ pending[p] = Carried(b[i])
      \/ \E i, j \in 1..Len(b) : /\ i < j /\ Carriers(b) = {i, j}
                                 /\ pending[p] = Carried(b[i]) \o Carried(b[j])
  BY <1>1 DEF PendingOK
<1>4. CASE b = <<>>
  <2>1. Len(b) = 0
    BY <1>4
  <2> QED BY <1>3, <2>1
<1>5. CASE b # <<>>
  <2>1. PICK f : f = Front(p)
    OBVIOUS
  <2>2. /\ f \in 1..Len(Streams[p]) /\ 1 \in 1..Len(b) /\ b[1] = <<p, f, 1>>
        /\ \A k \in 1..Len(b) : IsSent(p, b[k])
        /\ \A k \in 1..Len(b) : k <= Body(p, f).size => b[k] = <<p, f, k>>
    BY <1>5, <2>1, FrontFacts
  <2>3. /\ Body(p, f).size \in Nat /\ Body(p, f).fds \in Nat
        /\ Fd(p, f) \in Seq(Cell) /\ Len(Fd(p, f)) = Body(p, f).fds
    BY <2>2, MessageFacts, FdFacts
  <2>4. Carried(b[1]) = Fd(p, f)
    BY <2>2 DEF Carried
  <2>5. CASE Len(b) < Body(p, f).size
    <3>1. ASSUME NEW k \in Carriers(b) PROVE k = 1
      <4>1. k \in 1..Len(b) /\ Carried(b[k]) # <<>>
        BY DEF Carriers
      <4>2. k <= Body(p, f).size
        BY <2>3, <2>5, <4>1
      <4>3. b[k] = <<p, f, k>>
        BY <2>2, <4>1, <4>2
      <4> QED BY <4>1, <4>3 DEF Carried
    <3>2. \A i, j \in 1..Len(b) : i < j => Carriers(b) # {i, j}
      BY <3>1
    <3> QED BY <1>3, <2>2, <3>1, <3>2
  <2>6. CASE Len(pending[p]) < Body(p, f).fds
    <3>1. Body(p, f).fds # 0
      <4>1. Len(pending[p]) \in Nat
        BY <1>1, SeqAt, LenNat
      <4> QED BY <2>3, <2>6, <4>1
    <3>2. 1 \in Carriers(b)
      <4>1. Carried(b[1]) # <<>>
        BY <2>2, <2>4, <3>1, FdFacts
      <4> QED BY <2>2, <4>1 DEF Carriers
    <3>3. Carriers(b) # {}
      BY <3>2
    <3>4. ASSUME NEW i \in 1..Len(b), Carriers(b) = {i}, pending[p] = Carried(b[i])
          PROVE  FALSE
      <4>1. i = 1
        BY <3>2, <3>4
      <4>2. Len(pending[p]) = Body(p, f).fds
        BY <2>3, <2>4, <3>4, <4>1
      <4> QED BY <2>3, <2>6, <4>2
    <3>5. ASSUME NEW i \in 1..Len(b), NEW j \in 1..Len(b), i < j, Carriers(b) = {i, j},
                 pending[p] = Carried(b[i]) \o Carried(b[j])
          PROVE  FALSE
      <4>1. i = 1
        BY <3>2, <3>5
      <4>2. PICK x \in Seq(Cell) : x = Carried(b[1])
        BY <2>3, <2>4
      <4>3. PICK y \in Seq(Cell) : y = Carried(b[j])
        BY <1>1, <2>2, CarriedFacts
      <4>4. Len(x \o y) >= Len(x)
        OBVIOUS
      <4>5. Len(pending[p]) >= Body(p, f).fds /\ Len(x \o y) \in Nat
        BY <2>3, <2>4, <3>5, <4>1, <4>2, <4>3, <4>4, ConcatFacts
      <4>6. pending[p] = x \o y
        BY <3>5, <4>1, <4>2, <4>3
      <4> QED BY <2>3, <2>6, <4>5, <4>6
    <3> QED BY <1>3, <3>3, <3>4, <3>5
  <2> QED BY <1>5, <2>1, <2>5, <2>6 DEF Hungry
<1> QED BY <1>4, <1>5

\* Bytes that move from the connection to the buffer change nothing of the stream.
LEMMA MovedStream ==
  ASSUME TypeOK, NEW p \in Pumps, StreamOK(p),
         NEW w \in Seq(Cell), w = wire[p], NEW b \in Seq(Cell), b = buf[p], NEW n \in 0..Len(w),
         buf'[p] = b \o Take(w, n), wire'[p] = Drop(w, n),
         next'[p] = next[p], hand'[p] = hand[p], p \in lost => p \in lost'
  PROVE  Stream(p)' = Stream(p) /\ StreamOK(p)'
<1>1. (b \o Take(w, n)) \o Drop(w, n) = b \o w
  BY ReadKeepsStream
<1>2. Stream(p)' = Stream(p)
  BY <1>1 DEF Stream
<1> QED BY <1>2 DEF StreamOK, IsSent

LEMMA HandshakeKeeps ==
  ASSUME IInv, Handshake
  PROVE  IInv'
<1>1. TypeOK /\ StartOK /\ \A r \in Pumps : StreamOK(r) /\ PendingOK(r) /\ HandOK(r)
  BY DEF IInv, WireInv
<1> PICK p \in Pumps : p = "client"
  BY DEF Pumps
<1>2. PICK w \in Seq(Cell) : w = wire[p]
  BY <1>1, SeqAt
<1>3. PICK n \in 0..Len(w) : /\ buf'  = [buf EXCEPT ![p] = Take(w, n)]
                             /\ wire' = [wire EXCEPT ![p] = Drop(w, n)]
  BY <1>2 DEF Handshake
<1>4. /\ place' = [r \in Pumps |-> "read"] /\ place["client"] = "sasl"
      /\ UNCHANGED <<next, pending, hand, fds, copy, nth, upto, mutex, out, lost, closed,
                     faults, open>>
  BY DEF Handshake, handVars, writeVars, endVars
<1>5. /\ wire \in [Pumps -> Seq(Cell)] /\ buf \in [Pumps -> Seq(Cell)]
      /\ place \in [Pumps -> Places]
  BY <1>1 DEF TypeOK
<1>6. Take(w, n) \in Seq(Cell) /\ Drop(w, n) \in Seq(Cell)
  BY TakeFacts, DropFacts
<1>7. buf[p] = <<>> /\ Carriers(w) = {} /\ \A r \in Pumps \ {p} : place[r] = "none"
  BY <1>1, <1>2, <1>4 DEF StartOK
<1>8. \A r \in Pumps : hand[r] = 0 /\ pending[r] = <<>>
  BY <1>1, <1>4, <1>7 DEF StartOK
<1>9. TypeOK'
  <2>1. wire' \in [Pumps -> Seq(Cell)] /\ buf' \in [Pumps -> Seq(Cell)]
    BY <1>3, <1>5, <1>6
  <2>2. place' \in [Pumps -> Places]
    BY <1>4 DEF Places
  <2> QED BY <1>1, <1>4, <2>1, <2>2 DEF TypeOK
<1>10. StreamOK(p)'
  <2>1. PICK b \in Seq(Cell) : b = buf[p]
    BY <1>1, SeqAt
  <2>2. b \o Take(w, n) = Take(w, n)
    BY <1>6, <1>7, <2>1
  <2>3. buf'[p] = b \o Take(w, n) /\ wire'[p] = Drop(w, n) /\ b = buf[p]
    BY <1>3, <1>5, <1>7, <2>1, <2>2
  <2> QED BY <1>1, <1>2, <1>4, <2>3, MovedStream
<1>11. ASSUME NEW r \in Pumps \ {p}
       PROVE  StreamOK(r)' /\ buf'[r] = buf[r] /\ Carriers(buf[r]) = {}
  <2>1. buf'[r] = buf[r] /\ wire'[r] = wire[r]
    BY <1>3, <1>5
  <2>2. Stream(r)' = Stream(r)
    BY <2>1 DEF Stream
  <2>3. PICK b \in Seq(Cell) : b = buf[r]
    BY <1>1, SeqAt
  <2>4. PICK v \in Seq(Cell) : v = wire[r]
    BY <1>1, SeqAt
  <2>5. b \o v = <<>>
    BY <1>1, <1>7, <2>3, <2>4 DEF StartOK, Stream
  <2>6. Len(b) = 0
    BY <2>5
  <2>7. Carriers(b) = {}
    BY <2>6 DEF Carriers
  <2> QED BY <1>1, <1>4, <2>1, <2>2, <2>3, <2>7 DEF StreamOK, IsSent
<1>12. ASSUME NEW r \in Pumps PROVE StreamOK(r)' /\ PendingOK(r)'
  <2>1. CASE r = p
    <3>1. Carriers(Take(w, n)) = {}
      BY <1>7, TakeCarriers
    <3>2. Carriers(buf'[p]) = {} /\ pending'[p] = <<>>
      BY <1>3, <1>4, <1>5, <1>8, <3>1
    <3> QED BY <1>10, <2>1, <3>2 DEF PendingOK
  <2>2. CASE r # p
    <3>1. Carriers(buf'[r]) = {} /\ pending'[r] = <<>>
      BY <1>4, <1>8, <1>11, <2>2
    <3> QED BY <1>11, <2>2, <3>1 DEF PendingOK
  <2> QED BY <2>1, <2>2
<1>13. ASSUME NEW r \in Pumps PROVE HandOK(r)'
  <2>1. place[r] \in {"sasl", "none"} /\ place'[r] = "read"
    BY <1>4, <1>7
  <2>2. fds[r] = <<>> /\ copy[r] = <<>> /\ hand[r] = 0
    BY <1>1, <1>8, <2>1 DEF HandOK, Working
  <2> QED BY <1>4, <2>1, <2>2 DEF HandOK, Working
<1>14. StartOK'
  BY <1>4 DEF StartOK, Pumps
<1>15. OutInv'
  <2>1. \A r \in Pumps : place[r] # "rest" /\ place'[r] # "rest"
    BY <1>4, <1>7
  <2> QED BY <1>4, <2>1, NothingWritten
<1> QED BY <1>9, <1>12, <1>13, <1>14, <1>15 DEF IInv, WireInv, OutInv

\* What comes with some cells that one read returns.
LEMMA NewFacts ==
  ASSUME TypeOK, NEW p \in Pumps, NEW x \in Seq(Cell), \A k \in 1..Len(x) : IsSent(p, x[k]),
         \A i, j \in Carriers(x) : i = j, NEW new, new = CarriedBy(x)
  PROVE  /\ new \in Seq(Cell)
         /\ \/ Carriers(x) = {} /\ new = <<>>
            \/ \E j \in 1..Len(x) : Carriers(x) = {j} /\ new = Carried(x[j])
<1>1. CASE Carriers(x) = {}
  <2>1. new = <<>>
    BY <1>1 DEF CarriedBy
  <2> QED BY <1>1, <2>1
<1>2. CASE Carriers(x) # {}
  <2>1. PICK j \in Carriers(x) : j = CHOOSE i \in Carriers(x) : TRUE
    BY <1>2
  <2>2. Carriers(x) = {j} /\ new = Carried(x[j]) /\ j \in 1..Len(x)
    BY <1>2, <2>1 DEF CarriedBy, Carriers
  <2>3. new \in Seq(Cell)
    BY <2>2, CarriedFacts
  <2> QED BY <2>2, <2>3
<1> QED BY <1>1, <1>2

LEMMA ReadMoreKeeps ==
  ASSUME IInv, NEW p \in Pumps, ReadMore(p)
  PROVE  IInv'
<1>1. TypeOK /\ StreamOK(p) /\ PendingOK(p) /\ HandOK(p)
  BY DEF IInv, WireInv
<1>2. PICK w \in Seq(Cell) : w = wire[p]
  BY <1>1, SeqAt
<1>3. PICK b \in Seq(Cell) : b = buf[p]
  BY <1>1, SeqAt
<1>4. PICK d \in Seq(Cell) : d = pending[p]
  BY <1>1, SeqAt
<1>5. PICK n \in 1..Len(w) : /\ Reads(p, n)
                             /\ buf'     = [buf EXCEPT ![p] = @ \o Take(w, n)]
                             /\ wire'    = [wire EXCEPT ![p] = Drop(w, n)]
                             /\ pending' = [pending EXCEPT ![p] = @ \o CarriedBy(Take(w, n))]
  BY <1>2 DEF ReadMore
<1>6. n \in 0..Len(w)
  OBVIOUS
<1>7. /\ UNCHANGED <<next, place, hand, fds, copy, nth, upto, mutex, out, lost, closed, faults>>
      /\ Hungry(p) /\ place[p] = "read"
  BY DEF ReadMore, Hungry, handVars, writeVars, endVars
<1>8. /\ wire \in [Pumps -> Seq(Cell)] /\ buf \in [Pumps -> Seq(Cell)]
      /\ pending \in [Pumps -> Seq(Cell)]
  BY <1>1 DEF TypeOK
<1>9. PICK x \in Seq(Cell) : x = Take(w, n)
  BY <1>6, TakeFacts
<1>10. Drop(w, n) \in Seq(Cell)
  BY <1>6, DropFacts
<1>11. Len(x) = n /\ \A i \in 1..n : x[i] = w[i]
  BY <1>6, <1>9, TakeFacts
<1>12. \A k \in 1..Len(x) : IsSent(p, x[k])
  <2>1. \A k \in 1..Len(b \o w) : IsSent(p, (b \o w)[k])
    BY <1>1, <1>2, <1>3 DEF StreamOK, Stream
  <2> SUFFICES ASSUME NEW k \in 1..n PROVE IsSent(p, x[k])
    BY <1>11
  <2>2. k \in 1..Len(w)
    BY <1>6
  <2>3. Len(b) + k \in 1..Len(b \o w) /\ (b \o w)[Len(b) + k] = w[k]
    BY <2>2, ConcatFacts
  <2> QED BY <1>11, <2>1, <2>3
<1>13. PICK new : new = CarriedBy(x)
  OBVIOUS
<1>14. /\ new \in Seq(Cell)
       /\ \/ Carriers(x) = {} /\ new = <<>>
          \/ \E j \in 1..Len(x) : Carriers(x) = {j} /\ new = Carried(x[j])
  <2>1. \A i, j \in Carriers(x) : i = j
    BY <1>2, <1>5, <1>9 DEF Reads
  <2> QED BY <1>1, <1>12, <1>13, <2>1, NewFacts
<1>15. buf'[p] = b \o x /\ wire'[p] = Drop(w, n) /\ pending'[p] = d \o new
  BY <1>3, <1>4, <1>5, <1>8, <1>9, <1>13
<1>16. TypeOK'
  <2>1. b \o x \in Seq(Cell) /\ d \o new \in Seq(Cell)
    BY <1>14, ConcatFacts
  <2>2. wire' \in [Pumps -> Seq(Cell)]
    BY <1>5, <1>8, <1>10
  <2>3. buf' \in [Pumps -> Seq(Cell)]
    BY <1>3, <1>5, <1>8, <1>9, <2>1
  <2>4. pending' \in [Pumps -> Seq(Cell)]
    BY <1>4, <1>5, <1>8, <1>9, <1>13, <2>1
  <2> QED BY <1>1, <1>7, <2>2, <2>3, <2>4 DEF TypeOK
<1>17. StreamOK(p)'
  BY <1>1, <1>2, <1>3, <1>6, <1>7, <1>9, <1>15, MovedStream
<1>18. PendingOK(p)'
  <2>1. PICK c \in Seq(Cell) : c = b \o x
    BY ConcatFacts
  <2>2. /\ Len(c) = Len(b) + Len(x) /\ \A i \in 1..Len(b) : c[i] = b[i]
        /\ \A i \in 1..Len(x) : c[Len(b) + i] = x[i]
        /\ Len(b) \in Nat /\ Len(x) \in Nat
    BY <2>1, ConcatFacts, LenNat
  <2>3. Carriers(c) = Carriers(b) \cup {Len(b) + i : i \in Carriers(x)}
    BY <2>1, CarriersFacts
  <2>4. \A y \in Seq(Cell) : <<>> \o y = y /\ y \o <<>> = y
    OBVIOUS
  <2>5. \/ Carriers(b) = {} /\ d = <<>>
        \/ Carriers(b) = {1} /\ 1 \in 1..Len(b) /\ d = Carried(b[1])
    BY <1>3, <1>4, <1>7, HungryFacts
  <2>6. buf'[p] = c /\ pending'[p] = d \o new
    BY <1>15, <2>1
  <2>7. CASE Carriers(x) = {} /\ new = <<>>
    <3>1. Carriers(c) = Carriers(b) /\ d \o new = d
      BY <2>3, <2>4, <2>7
    <3>2. CASE Carriers(b) = {} /\ d = <<>>
      BY <2>6, <3>1, <3>2 DEF PendingOK
    <3>3. CASE Carriers(b) = {1} /\ 1 \in 1..Len(b) /\ d = Carried(b[1])
      <4>1. 1 \in 1..Len(c) /\ c[1] = b[1]
        BY <2>2, <3>3
      <4> QED BY <2>6, <3>1, <3>3, <4>1 DEF PendingOK
    <3> QED BY <2>5, <3>2, <3>3
  <2>8. ASSUME NEW j \in 1..Len(x), Carriers(x) = {j}, new = Carried(x[j])
        PROVE  PendingOK(p)'
    <3>1. PICK k : k = Len(b) + j
      OBVIOUS
    <3>2. k \in 1..Len(c) /\ c[k] = x[j]
      BY <2>2, <3>1
    <3>3. CASE Carriers(b) = {} /\ d = <<>>
      <4>1. Carriers(c) = {k} /\ d \o new = Carried(c[k])
        BY <1>14, <2>3, <2>4, <2>8, <3>1, <3>2, <3>3
      <4> QED BY <2>6, <3>2, <4>1 DEF PendingOK
    <3>4. CASE Carriers(b) = {1} /\ 1 \in 1..Len(b) /\ d = Carried(b[1])
      <4>1. Carriers(c) = {1, k} /\ d \o new = Carried(c[1]) \o Carried(c[k])
        BY <2>2, <2>3, <2>8, <3>1, <3>2, <3>4
      <4>2. 1 \in 1..Len(c) /\ 1 < k
        BY <2>2, <3>1, <3>4
      <4> QED BY <2>6, <3>2, <4>1, <4>2 DEF PendingOK
    <3> QED BY <2>5, <3>3, <3>4
  <2> QED BY <1>14, <2>7, <2>8
<1>19. HandOK(p)'
  BY <1>1, <1>7, TypeAt, HandSame
<1>20. \A r \in Pumps \ {p} : Own(r)' = Own(r)
  BY <1>5, <1>7, <1>8 DEF Own
<1>21. StartOK' /\ \A r \in Pumps : StreamOK(r)' /\ PendingOK(r)' /\ HandOK(r)'
  <2>1. faults <= faults' /\ faults' \in Nat
    BY <1>1, <1>7, TypeAt
  <2> QED BY <1>7, <1>17, <1>18, <1>19, <1>20, <2>1, StepOfOne
<1>22. OutInv'
  BY <1>7, NothingWritten
<1> QED BY <1>16, <1>21, <1>22 DEF IInv, WireInv, OutInv

LEMMA LoopEnds ==
  ASSUME IInv, NEW p \in Pumps, place[p] = "read", Leave(p),
         UNCHANGED <<readVars, handVars, writeVars, lost, faults>>
  PROVE  IInv'
<1>1. TypeOK /\ StreamOK(p) /\ PendingOK(p) /\ HandOK(p)
  BY DEF IInv, WireInv
<1>2. /\ UNCHANGED <<next, wire, buf, pending, hand, fds, copy, nth, upto, mutex, out, lost,
                     faults>>
      /\ closed' = TRUE /\ place' = [place EXCEPT ![p] = "done"]
  BY DEF Leave, Goto, readVars, handVars, writeVars
<1>3. place \in [Pumps -> Places]
  BY <1>1 DEF TypeOK
<1>4. place'[p] = "done" /\ \A r \in Pumps \ {p} : place'[r] = place[r]
  BY <1>2, <1>3
<1>5. TypeOK'
  <2>1. place' \in [Pumps -> Places]
    BY <1>2, <1>3 DEF Places
  <2> QED BY <1>1, <1>2, <2>1 DEF TypeOK
<1>6. StreamOK(p)'
  BY <1>1, <1>2 DEF StreamOK, Stream, IsSent
<1>7. PendingOK(p)'
  BY <1>1, <1>2, <1>4, PendingSame
<1>8. HandOK(p)'
  BY <1>1, <1>2, <1>4 DEF HandOK, Working, To
<1>9. \A r \in Pumps \ {p} : Own(r)' = Own(r)
  BY <1>2, <1>4 DEF Own
<1>10. StartOK' /\ \A r \in Pumps : StreamOK(r)' /\ PendingOK(r)' /\ HandOK(r)'
  <2>1. faults <= faults' /\ faults' \in Nat
    BY <1>1, <1>2, TypeAt
  <2> QED BY <1>2, <1>4, <1>6, <1>7, <1>8, <1>9, <2>1, StepOfOne
<1>11. OutInv'
  <2>1. \A r \in Pumps : (place'[r] = "rest") <=> (place[r] = "rest")
    BY <1>4
  <2> QED BY <1>2, <2>1, NothingWritten
<1> QED BY <1>5, <1>10, <1>11 DEF IInv, WireInv, OutInv

-----------------------------------------------------------------------------
(* Cutting a message. *)

LEMMA TakeDrop ==
  ASSUME NEW S, NEW x \in Seq(S), NEW y \in Seq(S)
  PROVE  /\ Take(x, 0) = <<>> /\ Drop(x, 0) = x
         /\ Take(x, Len(x)) = x /\ Drop(x, Len(x)) = <<>>
         /\ Take(x \o y, Len(x)) = x /\ Drop(x \o y, Len(x)) = y
<1>1. Take(x, 0) = <<>> /\ Drop(x, 0) = x
  BY DEF Take, Drop
<1>2. Take(x, Len(x)) = x /\ Drop(x, Len(x)) = <<>>
  BY DEF Take, Drop
<1>3. Take(x \o y, Len(x)) = x
  BY DEF Take
<1>4. Drop(x \o y, Len(x)) = y
  BY DEF Drop
<1> QED BY <1>1, <1>2, <1>3, <1>4

\* The descriptors in hand are those of the one or two headers in the buffer.
Held(b, d) ==
  \/ Carriers(b) = {} /\ d = <<>>
  \/ \E i \in 1..Len(b) : Carriers(b) = {i} /\ d = Carried(b[i])
  \/ \E i, j \in 1..Len(b) : /\ i < j /\ Carriers(b) = {i, j}
                             /\ d = Carried(b[i]) \o Carried(b[j])

\* The front message, all of it in the buffer.
FrontSize(p) == Body(p, Front(p)).size
FrontFds(p)  == Body(p, Front(p)).fds
Whole(p)     == buf[p] # <<>> /\ FrontSize(p) \in 0..Len(buf[p])

\* A message takes its own, and leaves those of the next one.
LEMMA CutPending ==
  ASSUME IInv, NEW p \in Pumps, Whole(p), NEW d, Held(buf[p], d)
  PROVE  /\ Take(d, FrontFds(p)) = Fd(p, Front(p))
         /\ Held(Drop(buf[p], FrontSize(p)), Drop(d, FrontFds(p)))
<1>b. PICK b \in Seq(Cell) : b = buf[p]
  BY SeqAt DEF IInv
<1>f. PICK f : f = Front(p)
  OBVIOUS
<1>s. PICK s \in 0..Len(b) : s = Body(p, f).size
  BY <1>b, <1>f DEF Whole, FrontSize
<1>n. PICK n : n = Body(p, f).fds
  OBVIOUS
<1>0. b # <<>>
  BY <1>b DEF Whole
<1>1. /\ f \in 1..Len(Streams[p]) /\ 1 \in 1..Len(b) /\ b[1] = <<p, f, 1>>
      /\ \A k \in 1..Len(b) : IsSent(p, b[k])
      /\ \A k \in 1..Len(b) : k <= s => b[k] = <<p, f, k>>
  BY <1>0, <1>b, <1>f, <1>s, FrontFacts
<1>2. s \in Nat /\ s >= 1 /\ n \in Nat /\ Len(b) \in Nat
  BY <1>1, <1>s, <1>n, MessageFacts, LenNat
<1>3. /\ Fd(p, f) \in Seq(Cell) /\ Len(Fd(p, f)) = n /\ ((Fd(p, f) = <<>>) <=> (n = 0))
      /\ Carried(b[1]) = Fd(p, f)
  BY <1>1, <1>n, FdFacts DEF Carried
<1>4. \A k \in 1..Len(b) : k \in Carriers(b) => k = 1 \/ k > s
  <2> SUFFICES ASSUME NEW k \in 1..Len(b), k \in Carriers(b), ~(k > s) PROVE k = 1
    OBVIOUS
  <2>1. k <= s
    BY <1>2
  <2>2. b[k] = <<p, f, k>> /\ Carried(b[k]) # <<>>
    BY <1>1, <2>1 DEF Carriers
  <2> QED BY <2>2 DEF Carried
<1>5. (1 \in Carriers(b)) <=> (n # 0)
  BY <1>1, <1>3 DEF Carriers
<1>6. PICK c \in Seq(Cell) : c = Drop(b, s)
  BY <1>2, DropFacts
<1>7. /\ Len(c) = Len(b) - s /\ \A i \in 1..(Len(b) - s) : c[i] = b[s + i]
      /\ Carriers(c) = {i \in 1..(Len(b) - s) : s + i \in Carriers(b)}
  <2>1. s \in 0..Len(b)
    BY <1>2
  <2>2. Len(c) = Len(b) - s /\ \A i \in 1..(Len(b) - s) : c[i] = b[s + i]
    BY <1>6, <2>1, DropFacts
  <2>3. Carriers(c) = {i \in 1..(Len(b) - s) : s + i \in Carriers(b)}
    BY <1>6, <2>1, DropCarriers
  <2> QED BY <2>2, <2>3
<1>8. ASSUME NEW j \in 1..Len(b), j > s
      PROVE  j - s \in 1..Len(c) /\ s + (j - s) = j /\ c[j - s] = b[j]
  <2>1. j - s \in 1..(Len(b) - s) /\ s + (j - s) = j
    BY <1>2, <1>8
  <2> QED BY <1>7, <2>1
<1>9. \A k \in 1..Len(b) : Carried(b[k]) \in Seq(Cell)
  BY <1>1, CarriedFacts DEF IInv
<1> SUFFICES Take(d, n) = Fd(p, f) /\ Held(c, Drop(d, n))
  BY <1>6, <1>b, <1>f, <1>s, <1>n DEF FrontSize, FrontFds
<1>h. \/ Carriers(b) = {} /\ d = <<>>
      \/ \E i \in 1..Len(b) : Carriers(b) = {i} /\ d = Carried(b[i])
      \/ \E i, j \in 1..Len(b) : /\ i < j /\ Carriers(b) = {i, j}
                                 /\ d = Carried(b[i]) \o Carried(b[j])
  BY <1>b DEF Held
<1>10. \A x \in Seq(Cell) : Take(x, 0) = <<>> /\ Drop(x, 0) = x
  BY TakeDrop
<1>11. CASE n = 0
  <2>1. 1 \notin Carriers(b)
    BY <1>5, <1>11
  <2>2. CASE Carriers(b) = {} /\ d = <<>>
    <3>1. Carriers(c) = {} /\ <<>> \in Seq(Cell)
      BY <1>7, <2>2
    <3> QED BY <1>3, <1>10, <1>11, <2>2, <3>1 DEF Held
  <2>3. ASSUME NEW i \in 1..Len(b), Carriers(b) = {i}, d = Carried(b[i])
        PROVE  Take(d, n) = Fd(p, f) /\ Held(c, Drop(d, n))
    <3>1. i > s
      BY <1>4, <2>1, <2>3
    <3>2. i - s \in 1..Len(c) /\ c[i - s] = b[i]
      BY <1>8, <3>1
    <3>3. Carriers(c) = {i - s}
      <4>1. \A k \in 1..(Len(b) - s) : s + k = i <=> k = i - s
        BY <1>2
      <4>2. i - s \in 1..(Len(b) - s)
        BY <1>2, <3>1
      <4> QED BY <1>7, <2>3, <4>1, <4>2
    <3>4. Take(d, n) = Fd(p, f) /\ Drop(d, n) = d
      BY <1>3, <1>9, <1>10, <1>11, <2>3
    <3> QED BY <2>3, <3>2, <3>3, <3>4 DEF Held
  <2>4. ASSUME NEW i \in 1..Len(b), NEW j \in 1..Len(b), i < j, Carriers(b) = {i, j},
               d = Carried(b[i]) \o Carried(b[j])
        PROVE  Take(d, n) = Fd(p, f) /\ Held(c, Drop(d, n))
    <3>1. i > s /\ j > s
      BY <1>4, <2>1, <2>4
    <3>2. /\ i - s \in 1..Len(c) /\ c[i - s] = b[i]
          /\ j - s \in 1..Len(c) /\ c[j - s] = b[j]
      BY <1>8, <3>1
    <3>3. Carriers(c) = {i - s, j - s}
      <4>1. \A k \in 1..(Len(b) - s) : s + k \in {i, j} <=> k \in {i - s, j - s}
        BY <1>2
      <4>2. i - s \in 1..(Len(b) - s) /\ j - s \in 1..(Len(b) - s)
        BY <1>2, <3>1
      <4> QED BY <1>7, <2>4, <4>1, <4>2
    <3>4. d \in Seq(Cell)
      BY <1>9, <2>4, ConcatFacts
    <3>5. Take(d, n) = Fd(p, f) /\ Drop(d, n) = d
      BY <1>3, <1>10, <1>11, <3>4
    <3>6. i - s < j - s
      BY <1>2, <2>4
    <3> QED BY <2>4, <3>2, <3>3, <3>5, <3>6 DEF Held
  <2> QED BY <1>h, <2>2, <2>3, <2>4
<1>12. CASE n # 0
  <2>1. 1 \in Carriers(b)
    BY <1>5, <1>12
  <2>2. PICK x \in Seq(Cell) : x = Fd(p, f)
    BY <1>3
  <2>3. ASSUME NEW i \in 1..Len(b), Carriers(b) = {i}, d = Carried(b[i])
        PROVE  Take(d, n) = Fd(p, f) /\ Held(c, Drop(d, n))
    <3>1. i = 1
      BY <2>1, <2>3
    <3>2. Carriers(c) = {}
      BY <1>2, <1>7, <2>3, <3>1
    <3>3. d = x /\ n = Len(x)
      BY <1>3, <2>2, <2>3, <3>1
    <3>4. Take(x, Len(x)) = x /\ Drop(x, Len(x)) = <<>>
      BY TakeDrop
    <3> QED BY <2>2, <3>2, <3>3, <3>4 DEF Held
  <2>4. ASSUME NEW i \in 1..Len(b), NEW j \in 1..Len(b), i < j, Carriers(b) = {i, j},
               d = Carried(b[i]) \o Carried(b[j])
        PROVE  Take(d, n) = Fd(p, f) /\ Held(c, Drop(d, n))
    <3>1. i = 1
      BY <2>1, <2>4
    <3>2. j > s
      BY <1>4, <2>4, <3>1
    <3>3. j - s \in 1..Len(c) /\ c[j - s] = b[j]
      BY <1>8, <3>2
    <3>4. Carriers(c) = {j - s}
      <4>1. \A k \in 1..(Len(b) - s) : s + k \in {1, j} <=> k = j - s
        BY <1>2
      <4>2. j - s \in 1..(Len(b) - s)
        BY <1>2, <3>2
      <4> QED BY <1>7, <2>4, <3>1, <4>1, <4>2
    <3>5. PICK y \in Seq(Cell) : y = Carried(b[j])
      BY <1>9
    <3>6. d = x \o y /\ n = Len(x)
      BY <1>3, <2>2, <2>4, <3>1, <3>5
    <3>7. Take(x \o y, Len(x)) = x /\ Drop(x \o y, Len(x)) = y
      BY TakeDrop
    <3> QED BY <2>2, <3>3, <3>4, <3>5, <3>6, <3>7 DEF Held
  <2> QED BY <1>h, <2>1, <2>3, <2>4
<1> QED BY <1>11, <1>12

LEMMA CutStream ==
  ASSUME IInv, NEW p \in Pumps, Whole(p), buf'[p] = Drop(buf[p], FrontSize(p)),
         wire'[p] = wire[p], next'[p] = next[p], hand'[p] = Front(p), p \in lost => p \in lost'
  PROVE  StreamOK(p)'
<1>b. PICK b \in Seq(Cell) : b = buf[p]
  BY SeqAt DEF IInv
<1>f. PICK f : f = Front(p)
  OBVIOUS
<1>s. PICK s \in 0..Len(b) : s = Body(p, f).size
  BY <1>b, <1>f DEF Whole, FrontSize
<1>0. b # <<>>
  BY <1>b DEF Whole
<1>1. TypeOK /\ StreamOK(p)
  BY DEF IInv, WireInv
<1>2. f = hand[p] + 1 /\ f \in 1..Len(Streams[p]) /\ f < next[p] /\ 1 \in 1..Len(b)
  BY <1>0, <1>b, <1>f, FrontFacts
<1>3. s \in Nat /\ s >= 1 /\ f \in Nat /\ Len(b) \in Nat
  BY <1>2, <1>s, MessageFacts, LenNat
<1>4. PICK w \in Seq(Cell) : w = wire[p]
  BY <1>1, SeqAt
<1>5. PICK q \in Seq(Cell) : q = b \o w
  BY ConcatFacts
<1>6. Len(q) = Len(b) + Len(w) /\ s \in 0..Len(q) /\ s \in 0..Len(b) /\ Len(q) \in Nat
  BY <1>3, <1>5, ConcatFacts, LenNat
<1>7. PICK r \in Seq(Cell) : r = Drop(q, s)
  BY <1>6, DropFacts
<1>8. Len(r) = Len(q) - s /\ \A k \in 1..(Len(q) - s) : r[k] = q[s + k]
  BY <1>6, <1>7, DropFacts
<1>9. q = Stream(p) /\ r = Stream(p)'
  <2>1. Drop(b, s) \o w = Drop(b \o w, s)
    BY <1>6, DropConcat
  <2> QED BY <1>4, <1>5, <1>7, <1>b, <1>f, <1>s, <2>1 DEF Stream, FrontSize
<1>10. q # <<>> /\ 1 \in 1..Len(q)
  BY <1>2, <1>3, <1>6
<1>11. /\ Run(p, q) /\ q[1] = <<p, f, 1>>
       /\ p \notin lost => Last(q) = <<p, next[p] - 1, Body(p, next[p] - 1).size>>
  BY <1>1, <1>2, <1>9, <1>10 DEF StreamOK, Run
<1>12. next[p] \in Nat /\ next[p] <= Len(Streams[p]) + 1
  BY <1>1, TypeAt
<1>13. ASSUME NEW k \in 1..Len(r) PROVE r[k] = q[s + k] /\ s + k \in 1..Len(q)
  BY <1>3, <1>6, <1>8
<1>14. \A k \in 1..Len(r) : IsSent(p, r[k])'
  <2> SUFFICES ASSUME NEW k \in 1..Len(r) PROVE IsSent(p, r[k])'
    OBVIOUS
  <2>1. IsSent(p, r[k])
    BY <1>11, <1>13 DEF Run
  <2> QED BY <2>1 DEF IsSent
<1>15. ASSUME NEW k \in 1..(Len(r) - 1) PROVE r[k + 1] = Succ(r[k])
  <2>1. k \in 1..Len(r) /\ k + 1 \in 1..Len(r)
    OBVIOUS
  <2>2. r[k] = q[s + k] /\ r[k + 1] = q[s + (k + 1)]
    BY <1>13, <2>1
  <2>3. s + k \in 1..(Len(q) - 1) /\ s + (k + 1) = (s + k) + 1
    BY <1>3, <1>6, <1>8, <2>1
  <2> QED BY <1>11, <2>2, <2>3 DEF Run
<1>16. ASSUME r # <<>> PROVE r[1] = <<p, f + 1, 1>>
  <2>1. 1 \in 1..Len(r)
    BY <1>16
  <2>2. r[1] = q[s + 1] /\ s + 1 \in 1..Len(q) /\ s < s + 1
    BY <1>3, <1>13, <2>1
  <2>3. q[s + 1] = <<p, f + 1, 1>>
    <3>1. PICK k \in 1..Len(q) : k = s + 1
      BY <2>2
    <3>2. Run(p, q) /\ q[1] = <<p, f, 1>> /\ f \in Nat
      BY <1>3, <1>11
    <3>3. s < k => q[s + 1] = <<p, f + 1, 1>> /\ f < q[k][2]
      BY <1>12, <1>s, <3>2, RunGoesOn
    <3> QED BY <2>2, <3>1, <3>3
  <2> QED BY <2>2, <2>3
<1>17. ASSUME p \notin lost
       PROVE  IF r = <<>> THEN next[p] = f + 1
              ELSE Last(r) = <<p, next[p] - 1, Body(p, next[p] - 1).size>>
  <2>1. CASE r = <<>>
    <3>1. Len(r) = 0
      BY <2>1
    <3>2. s = Len(q) /\ s \in 1..Len(q) /\ s <= s
      BY <1>3, <1>6, <1>8, <3>1
    <3>3. q[s] = <<p, f, s>>
      BY <1>3, <1>11, <1>12, <1>s, <3>2, RunStarts
    <3>4. Last(q) = q[s]
      BY <3>2 DEF Last
    <3>5. f = next[p] - 1
      BY <1>11, <1>17, <3>3, <3>4
    <3>6. next[p] = f + 1
      BY <1>3, <1>12, <3>5
    <3> QED BY <2>1, <3>6
  <2>2. CASE r # <<>>
    <3>1. Len(r) \in 1..Len(r) /\ s + Len(r) = Len(q)
      BY <1>3, <1>6, <1>8, <2>2
    <3>2. Last(r) = Last(q)
      BY <1>13, <3>1 DEF Last
    <3> QED BY <1>11, <1>17, <2>2, <3>2
  <2> QED BY <2>1, <2>2
<1>18. hand'[p] = f
  BY <1>f
<1> QED BY <1>9, <1>14, <1>15, <1>16, <1>17, <1>18 DEF StreamOK

\* A pump that takes its next message was done writing the one before.
LEMMA NextMessage ==
  ASSUME IInv, NEW p \in Pumps, NEW f, f = hand[p] + 1,
         place[p] = "read", place'[p] = "write", hand'[p] = f, nth'[p] = 1,
         \A r \in Pumps \ {p} : place'[r] = place[r] /\ hand'[r] = hand[r] /\ nth'[r] = nth[r],
         UNCHANGED <<upto, mutex, out, lost, closed>>
  PROVE  OutInv'
<1>1. TypeOK /\ OutInv /\ HandOK(p)
  BY DEF IInv, WireInv, OutInv
<1>2. hand[p] \in Nat /\ hand[p] <= Len(Streams[p]) /\ nth[p] \in Nat
  BY <1>1, TypeAt
<1>3. \A r \in Pumps : place'[r] = "rest" =>
        r # p /\ place[r] = "rest" /\ hand'[r] = hand[r] /\ Target(r)' = Target(r)
  BY DEF Target, To
<1>4. \A r \in Pumps : place[r] = "rest" =>
        r # p /\ place'[r] = "rest" /\ hand'[r] = hand[r] /\ Target(r)' = Target(r)
  BY DEF Target, To
<1>5. ASSUME NEW r \in Pumps, NEW i \in Nat, NEW l, Passed(r, i, l) PROVE Passed(r, i, l)'
  <2>1. CASE r = p
    BY <1>2, <1>5, <2>1 DEF Passed
  <2>2. CASE r # p
    BY <1>5, <2>2 DEF Passed, To
  <2> QED BY <2>1, <2>2
<1>6. ASSUME NEW r \in Pumps, NEW i \in 1..hand'[r], NEW l \in Items(Body(r, i).to),
             Passed(r, i, l)'
      PROVE  i \in 1..hand[r] /\ Passed(r, i, l)
  <2>1. CASE r = p
    <3>1. i <= hand[p] /\ i \in 1..hand[p]
      BY <1>2, <1>6, <2>1 DEF Passed
    <3>2. CASE i < hand[p]
      BY <2>1, <3>1, <3>2 DEF Passed
    <3>3. CASE i = hand[p]
      <4>1. nth[p] - 1 = Len(To(p)) /\ To(p) = Body(p, i).to
        <5>1. hand[p] > 0
          BY <1>2, <3>1
        <5>2. nth[p] = Len(To(p)) + 1
          BY <1>1, <5>1 DEF HandOK
        <5>3. hand[p] \in 1..Len(Streams[p]) /\ Len(To(p)) \in Nat
          BY <1>2, <3>1, <3>3, TargetFacts DEF To
        <5> QED BY <1>2, <3>3, <5>2, <5>3 DEF To
      <4>2. \E m \in 1..(nth[p] - 1) : To(p)[m] = l
        BY <2>1, <4>1 DEF Items
      <4> QED BY <2>1, <3>1, <3>3, <4>2 DEF Passed
    <3> QED BY <1>2, <3>1, <3>2, <3>3
  <2>2. CASE r # p
    BY <1>6, <2>2 DEF Passed, To
  <2> QED BY <2>1, <2>2
<1>7. ASSUME NEW r \in Pumps PROVE RestOK(r)'
  <2>1. RestOK(r)
    BY <1>1 DEF OutInv
  <2> QED BY <1>3, <2>1 DEF RestOK
<1>8. ASSUME NEW l \in Pumps PROVE LastOK(l)'
  <2>1. LastOK(l)
    BY <1>1 DEF OutInv
  <2> QED BY <1>4, <2>1 DEF LastOK
<1>9. ASSUME NEW l \in Pumps PROVE OutOK(l)'
  <2> SUFFICES ASSUME NEW k \in 1..Len(out[l]), NEW c, c = out[l][k].cell
               PROVE  /\ c[1] \in Pumps /\ c[2] \in 1..hand'[c[1]]
                      /\ c[3] \in 1..Body(c[1], c[2]).size /\ l \in Items(Body(c[1], c[2]).to)
                      /\ \/ Passed(c[1], c[2], l)' \/ l \in lost \/ closed
                         \/ /\ place'[c[1]] = "rest" /\ Target(c[1])' = l
                            /\ c[2] = hand'[c[1]] /\ c[3] <= upto'[c[1]]
    BY DEF OutOK
  <2>1. /\ c[1] \in Pumps /\ c[2] \in 1..hand[c[1]]
        /\ c[3] \in 1..Body(c[1], c[2]).size /\ l \in Items(Body(c[1], c[2]).to)
        /\ \/ Passed(c[1], c[2], l) \/ l \in lost \/ closed
           \/ /\ place[c[1]] = "rest" /\ Target(c[1]) = l
              /\ c[2] = hand[c[1]] /\ c[3] <= upto[c[1]]
    BY <1>1 DEF OutInv, OutOK
  <2>2. c[2] \in 1..hand'[c[1]] /\ c[2] \in Nat
    <3>1. CASE c[1] = p
      BY <1>2, <2>1, <3>1
    <3>2. CASE c[1] # p
      BY <2>1, <3>2
    <3> QED BY <3>1, <3>2
  <2> QED BY <1>4, <1>5, <2>1, <2>2
<1>10. ASSUME NEW l \in Pumps PROVE HasOK(l)'
  <2>1. HasOK(l)
    BY <1>1 DEF OutInv
  <2>2. \A c : Has(l, c)' <=> Has(l, c)
    BY DEF Has
  <2> SUFFICES ASSUME ~(l \in lost \/ closed)
               PROVE  \A r \in Pumps :
                        /\ \A i \in 1..hand'[r] : \A j \in 1..Body(r, i).size :
                             l \in Items(Body(r, i).to) /\ Passed(r, i, l)' => Has(l, <<r, i, j>>)
                        /\ place'[r] = "rest" /\ Target(r)' = l =>
                             \A j \in 1..upto[r] : Has(l, <<r, hand'[r], j>>)
    BY <2>2 DEF HasOK
  <2> QED BY <1>3, <1>6, <2>1 DEF HasOK
<1> QED BY <1>7, <1>8, <1>9, <1>10 DEF OutInv

LEMMA TakeFDsKeeps ==
  ASSUME IInv, NEW p \in Pumps, TakeFDs(p)
  PROVE  IInv'
<1>1. TypeOK /\ PendingOK(p) /\ HandOK(p) /\ OutInv
  BY DEF IInv, WireInv, OutInv
<1>2. PICK b \in Seq(Cell) : b = buf[p]
  BY <1>1, SeqAt
<1>3. PICK d \in Seq(Cell) : d = pending[p]
  BY <1>1, SeqAt
<1>4. PICK f : f = Front(p)
  OBVIOUS
<1>5. PICK s : s = Body(p, f).size
  OBVIOUS
<1>6. PICK n : n = Body(p, f).fds
  OBVIOUS
<1>7. /\ b # <<>> /\ place[p] = "read" /\ ~Hungry(p) /\ Body(p, f).good
      /\ hand'    = [hand EXCEPT ![p] = f]
      /\ buf'     = [buf EXCEPT ![p] = Drop(b, s)]
      /\ fds'     = [fds EXCEPT ![p] = Take(d, n)]
      /\ pending' = [pending EXCEPT ![p] = Drop(d, n)]
      /\ nth'     = [nth EXCEPT ![p] = 1]
      /\ place'   = [place EXCEPT ![p] = "write"]
      /\ UNCHANGED <<next, wire, copy, upto, mutex, out, lost, closed, faults, open>>
  BY <1>2, <1>3, <1>4, <1>5, <1>6
     DEF TakeFDs, CutMessage, Goto, writeVars, endVars
<1>8. f = hand[p] + 1 /\ f \in 1..Len(Streams[p]) /\ f < next[p] /\ f \in Nat
  <2>1. Len(Streams[p]) \in Nat
    BY <1>1, TypeAt
  <2>2. f = hand[p] + 1 /\ f \in 1..Len(Streams[p]) /\ f < next[p]
    BY <1>2, <1>4, <1>7, FrontFacts
  <2> QED BY <2>1, <2>2
<1>9. s \in Nat /\ n \in Nat /\ Len(b) \in Nat /\ Len(d) \in Nat
  BY <1>5, <1>6, <1>8, MessageFacts, LenNat
<1>10. s <= Len(b) /\ n <= Len(d)
  <2>1. ~(Len(b) < s) /\ ~(Len(d) < n)
    BY <1>2, <1>3, <1>4, <1>5, <1>6, <1>7 DEF Hungry
  <2> QED BY <1>9, <2>1
<1>11. Drop(b, s) \in Seq(Cell) /\ Take(d, n) \in Seq(Cell) /\ Drop(d, n) \in Seq(Cell)
  <2>1. s \in 0..Len(b) /\ n \in 0..Len(d)
    BY <1>9, <1>10
  <2> QED BY <2>1, TakeFacts, DropFacts
<1>12. /\ place \in [Pumps -> Places] /\ hand \in [Pumps -> Nat] /\ nth \in [Pumps -> 1..3]
       /\ buf \in [Pumps -> Seq(Cell)] /\ pending \in [Pumps -> Seq(Cell)]
       /\ fds \in [Pumps -> Seq(Cell)]
  BY <1>1 DEF TypeOK
<1>13. /\ place'[p] = "write" /\ hand'[p] = f /\ nth'[p] = 1 /\ buf'[p] = Drop(b, s)
       /\ pending'[p] = Drop(d, n) /\ fds'[p] = Take(d, n)
       /\ \A r \in Pumps \ {p} :
            /\ place'[r] = place[r] /\ hand'[r] = hand[r] /\ nth'[r] = nth[r]
            /\ buf'[r] = buf[r] /\ pending'[r] = pending[r] /\ fds'[r] = fds[r]
  BY <1>7, <1>12
<1>14. Held(buf[p], d) /\ Whole(p)
  <2>1. Held(buf[p], d)
    BY <1>1, <1>3, <1>7 DEF PendingOK, Held
  <2>2. s \in 0..Len(b)
    BY <1>9, <1>10
  <2> QED BY <1>2, <1>4, <1>5, <1>7, <2>1, <2>2 DEF Whole, FrontSize
<1>15. Take(d, n) = Fd(p, f) /\ Held(Drop(b, s), Drop(d, n))
  <2>1. /\ Take(d, FrontFds(p)) = Fd(p, Front(p))
        /\ Held(Drop(buf[p], FrontSize(p)), Drop(d, FrontFds(p)))
    BY <1>14, CutPending
  <2> QED BY <1>2, <1>4, <1>5, <1>6, <2>1 DEF FrontSize, FrontFds
<1>16. copy[p] = <<>> /\ fds[p] = <<>>
  BY <1>1, <1>7 DEF HandOK, Working
<1>17. TypeOK'
  <2>1. /\ place' \in [Pumps -> Places] /\ hand' \in [Pumps -> Nat]
        /\ nth' \in [Pumps -> 1..3]
    BY <1>7, <1>8, <1>12 DEF Places
  <2>2. buf' \in [Pumps -> Seq(Cell)] /\ pending' \in [Pumps -> Seq(Cell)]
        /\ fds' \in [Pumps -> Seq(Cell)]
    BY <1>7, <1>11, <1>12
  <2>3. \A r \in Pumps : hand'[r] < next'[r] /\ next'[r] <= Len(Streams[r]) + 1
    BY <1>1, <1>7, <1>8, <1>13, TypeAt
  <2>4. \A r \in Pumps : Items(copy'[r]) \subseteq Items(fds'[r])
    <3>1. Items(<<>>) = {}
      BY DEF Items
    <3> QED BY <1>1, <1>7, <1>13, <1>16, <3>1 DEF TypeOK
  <2> QED BY <1>1, <1>7, <2>1, <2>2, <2>3, <2>4 DEF TypeOK
<1>18. StreamOK(p)'
  BY <1>2, <1>4, <1>5, <1>7, <1>13, <1>14, CutStream DEF FrontSize
<1>19. PendingOK(p)'
  BY <1>13, <1>15 DEF PendingOK, Held
<1>20. HandOK(p)'
  <2>1. Len(Body(p, f).to) \in Nat
    BY <1>8, TargetFacts
  <2>2. fds'[p] = Fd(p, f) /\ copy'[p] = <<>> /\ f > 0 /\ 1 \in 1..(Len(Body(p, f).to) + 1)
    BY <1>7, <1>8, <1>13, <1>15, <1>16, <2>1
  <2> QED BY <1>13, <2>2 DEF HandOK, Working, To
<1>21. \A r \in Pumps \ {p} : Own(r)' = Own(r)
  BY <1>7, <1>13 DEF Own
<1>22. StartOK' /\ \A r \in Pumps : StreamOK(r)' /\ PendingOK(r)' /\ HandOK(r)'
  <2>1. faults <= faults' /\ faults' \in Nat
    BY <1>1, <1>7, TypeAt
  <2> QED BY <1>7, <1>13, <1>18, <1>19, <1>20, <1>21, <2>1, StepOfOne
<1>23. OutInv'
  BY <1>1, <1>7, <1>8, <1>13, NextMessage
<1> QED BY <1>17, <1>22, <1>23 DEF IInv, WireInv, OutInv

-----------------------------------------------------------------------------
(* Steps that write nothing. *)

LEMMA LockKeeps ==
  ASSUME IInv, NEW p \in Pumps, Lock(p)
  PROVE  IInv'
<1>1. TypeOK /\ StartOK
  BY DEF IInv, WireInv
<1>2. /\ UNCHANGED <<next, wire, buf, pending, place, hand, fds, copy, nth, upto, out, lost,
                     closed, faults, open>>
      /\ mutex = "none" /\ mutex' = p
  BY DEF Lock, readVars, handVars, endVars
<1>3. TypeOK'
  BY <1>1, <1>2 DEF TypeOK
<1>4. StartOK'
  BY <1>1, <1>2 DEF StartOK, Stream
<1>5. ASSUME NEW r \in Pumps PROVE StreamOK(r)' /\ PendingOK(r)' /\ HandOK(r)'
  <2>1. Own(r)' = Own(r)
    BY <1>2 DEF Own
  <2>2. StreamOK(r) /\ PendingOK(r) /\ HandOK(r) /\ faults \in Nat
    BY <1>1, TypeAt DEF IInv, WireInv
  <2> QED BY <1>2, <2>1, <2>2, OthersKeep
<1>6. OutInv'
  <2>1. \A r \in Pumps : mutex # r
    BY <1>2 DEF Pumps
  <2> QED BY <1>2, <2>1, NothingWritten
<1> QED BY <1>3, <1>4, <1>5, <1>6 DEF IInv, WireInv, OutInv

LEMMA CopyFDsKeeps ==
  ASSUME IInv, NEW p \in Pumps, CopyFDs(p)
  PROVE  IInv'
<1>1. TypeOK /\ StreamOK(p) /\ PendingOK(p) /\ HandOK(p)
  BY DEF IInv, WireInv
<1>2. /\ UNCHANGED <<next, wire, buf, pending, hand, fds, nth, upto, mutex, out, lost, closed>>
      /\ place' = [place EXCEPT ![p] = "copied"] /\ place[p] = "write"
      /\ nth[p] <= Len(To(p)) /\ IsCopy(p) /\ fds[p] # <<>>
  BY DEF CopyFDs, Goto, readVars, writeVars
<1>3. \/ copy' = [copy EXCEPT ![p] = fds[p]] /\ faults' = faults
      \/ copy' = copy /\ faults < MaxFaults /\ faults' = faults + 1
  BY DEF CopyFDs
<1>4. /\ place \in [Pumps -> Places] /\ copy \in [Pumps -> Seq(Cell)]
      /\ fds \in [Pumps -> Seq(Cell)] /\ faults \in 0..MaxFaults
      /\ \A r \in Pumps : Items(copy[r]) \subseteq Items(fds[r])
  BY <1>1 DEF TypeOK
<1>5. faults \in Nat /\ faults' \in Nat /\ faults' \in 0..MaxFaults /\ faults <= faults'
  BY <1>3, <1>4, WireAssumption
<1>6. /\ place'[p] = "copied" /\ copy[p] = <<>>
      /\ \A r \in Pumps \ {p} : place'[r] = place[r] /\ copy'[r] = copy[r]
      /\ copy'[p] = fds[p] \/ (copy'[p] = <<>> /\ faults' > 0)
  <2>1. copy[p] = <<>>
    BY DEF CopyFDs
  <2>2. place'[p] = "copied" /\ \A r \in Pumps \ {p} : place'[r] = place[r]
    BY <1>2, <1>4
  <2>3. CASE copy' = [copy EXCEPT ![p] = fds[p]]
    <3>1. DOMAIN copy = Pumps
      BY <1>4
    <3>2. copy'[p] = fds[p] /\ \A r \in Pumps \ {p} : copy'[r] = copy[r]
      BY <2>3, <3>1
    <3> QED BY <2>1, <2>2, <3>2
  <2>4. CASE copy' = copy /\ faults' = faults + 1
    <3>1. faults' > 0
      BY <1>5, <2>4
    <3> QED BY <2>1, <2>2, <2>4, <3>1
  <2> QED BY <1>3, <2>3, <2>4
<1>7. TypeOK'
  <2>1. place' \in [Pumps -> Places] /\ copy' \in [Pumps -> Seq(Cell)]
    BY <1>2, <1>3, <1>4 DEF Places
  <2>2. \A r \in Pumps : Items(copy'[r]) \subseteq Items(fds'[r])
    <3>1. Items(<<>>) = {}
      BY DEF Items
    <3> QED BY <1>2, <1>4, <1>6, <3>1
  <2> QED BY <1>1, <1>2, <1>5, <2>1, <2>2 DEF TypeOK
<1>8. StreamOK(p)'
  BY <1>1, <1>2 DEF StreamOK, Stream, IsSent
<1>9. PendingOK(p)'
  BY <1>1, <1>2, PendingSame
<1>10. HandOK(p)'
  <2>1. /\ hand[p] > 0 /\ fds[p] = Fd(p, hand[p]) /\ nth[p] \in 1..(Len(To(p)) + 1)
    BY <1>1, <1>2 DEF HandOK, Working
  <2>2. To(p)' = To(p) /\ IsCopy(p)' /\ hand'[p] = hand[p] /\ nth'[p] = nth[p]
    BY <1>2 DEF To, IsCopy
  <2>3. /\ copy'[p] \in {<<>>, fds'[p]} /\ (copy'[p] = <<>> => faults' > 0)
        /\ fds'[p] = fds[p] /\ fds'[p] # <<>>
    BY <1>2, <1>6
  <2>4. place'[p] = "copied" /\ nth'[p] <= Len(To(p)')
    BY <1>2, <1>6, <2>2
  <2> QED BY <2>1, <2>2, <2>3, <2>4 DEF HandOK, Working
<1>11. \A r \in Pumps \ {p} : Own(r)' = Own(r)
  BY <1>2, <1>6 DEF Own
<1>12. StartOK' /\ \A r \in Pumps : StreamOK(r)' /\ PendingOK(r)' /\ HandOK(r)'
  BY <1>2, <1>5, <1>6, <1>8, <1>9, <1>10, <1>11, StepOfOne
<1>13. OutInv'
  <2>1. \A r \in Pumps : (place'[r] = "rest") <=> (place[r] = "rest")
    BY <1>2, <1>6
  <2> QED BY <1>2, <2>1, NothingWritten
<1> QED BY <1>7, <1>12, <1>13 DEF IInv, WireInv, OutInv

LEMMA CloseFDsKeeps ==
  ASSUME IInv, NEW p \in Pumps, CloseFDs(p)
  PROVE  IInv'
<1>1. TypeOK /\ StreamOK(p) /\ PendingOK(p) /\ HandOK(p)
  BY DEF IInv, WireInv
<1>2. /\ UNCHANGED <<next, wire, buf, pending, hand, copy, nth, upto, mutex, out, lost, faults>>
      /\ fds' = [fds EXCEPT ![p] = <<>>]
      /\ \/ place[p] = "write" /\ nth[p] > Len(To(p))
         \/ place[p] = "failed"
  BY DEF CloseFDs, readVars, writeVars
<1>3. /\ place' = [place EXCEPT ![p] = IF place[p] = "failed" THEN "done" ELSE "read"]
      /\ closed' = (IF place[p] = "failed" THEN TRUE ELSE closed)
  BY DEF CloseFDs, Leave, Goto
<1>4. /\ place \in [Pumps -> Places] /\ fds \in [Pumps -> Seq(Cell)] /\ closed \in BOOLEAN
      /\ \A r \in Pumps : Items(copy[r]) \subseteq Items(fds[r])
  BY <1>1 DEF TypeOK
<1>5. /\ place'[p] \in {"read", "done"} /\ (place'[p] = "read" => place[p] = "write")
      /\ fds'[p] = <<>> /\ closed' \in BOOLEAN /\ (closed => closed')
      /\ \A r \in Pumps \ {p} : place'[r] = place[r] /\ fds'[r] = fds[r]
  BY <1>2, <1>3, <1>4
<1>6. /\ copy[p] = <<>> /\ hand[p] > 0 /\ nth[p] \in 1..(Len(To(p)) + 1)
      /\ place[p] \notin {"none", "sasl", "rest"}
  BY <1>1, <1>2 DEF HandOK, Working
<1>7. Len(To(p)) \in Nat
  <2>1. hand[p] \in 1..Len(Streams[p])
    BY <1>1, <1>6, TypeAt
  <2> QED BY <2>1, TargetFacts DEF To
<1>8. TypeOK'
  <2>1. fds' \in [Pumps -> Seq(Cell)]
    <3>1. <<>> \in Seq(Cell)
      OBVIOUS
    <3> QED BY <1>2, <1>4, <3>1
  <2>2. place' \in [Pumps -> Places]
    BY <1>3, <1>4 DEF Places
  <2>3. \A r \in Pumps : Items(copy'[r]) \subseteq Items(fds'[r])
    <3>1. Items(<<>>) = {}
      BY DEF Items
    <3> QED BY <1>2, <1>4, <1>5, <1>6, <3>1
  <2> QED BY <1>1, <1>2, <1>5, <2>1, <2>2, <2>3 DEF TypeOK
<1>9. StreamOK(p)'
  BY <1>1, <1>2 DEF StreamOK, Stream, IsSent
<1>10. PendingOK(p)'
  BY <1>1, <1>2, <1>6, PendingSame
<1>11. HandOK(p)'
  <2>1. To(p)' = To(p)
    BY <1>2 DEF To
  <2>2. place'[p] = "read" => nth[p] = Len(To(p)) + 1
    BY <1>2, <1>5, <1>6, <1>7
  <2> QED BY <1>2, <1>5, <1>6, <2>1, <2>2 DEF HandOK, Working
<1>12. \A r \in Pumps \ {p} : Own(r)' = Own(r)
  BY <1>2, <1>5 DEF Own
<1>13. StartOK' /\ \A r \in Pumps : StreamOK(r)' /\ PendingOK(r)' /\ HandOK(r)'
  <2>1. faults <= faults' /\ faults' \in Nat
    BY <1>1, <1>2, TypeAt
  <2> QED BY <1>2, <1>5, <1>6, <1>9, <1>10, <1>11, <1>12, <2>1, StepOfOne
<1>14. OutInv'
  <2>1. \A r \in Pumps : (place'[r] = "rest") <=> (place[r] = "rest")
    BY <1>5, <1>6
  <2> QED BY <1>2, <1>5, <2>1, NothingWritten
<1> QED BY <1>8, <1>13, <1>14 DEF IInv, WireInv, OutInv

LEMMA CloseReadersKeeps ==
  ASSUME IInv, CloseReaders
  PROVE  IInv'
<1>1. TypeOK /\ StartOK /\ \A r \in Pumps : StreamOK(r) /\ PendingOK(r) /\ HandOK(r)
  BY DEF IInv, WireInv
<1>2. /\ UNCHANGED <<next, wire, buf, place, hand, fds, copy, nth, upto, mutex, out, lost,
                     closed, faults>>
      /\ pending' = [p \in Pumps |-> <<>>] /\ \A r \in Pumps : place[r] = "done"
  BY DEF CloseReaders, Done, handVars, writeVars, endVars
<1>3. TypeOK'
  <2>1. pending' \in [Pumps -> Seq(Cell)]
    BY <1>2
  <2> QED BY <1>1, <1>2, <2>1 DEF TypeOK
<1>4. StartOK'
  BY <1>2 DEF StartOK, Pumps
<1>5. ASSUME NEW r \in Pumps PROVE StreamOK(r)' /\ PendingOK(r)' /\ HandOK(r)'
  <2>1. StreamOK(r)'
    BY <1>1, <1>2 DEF StreamOK, Stream, IsSent
  <2>2. PendingOK(r)'
    BY <1>2 DEF PendingOK
  <2>3. HandOK(r)'
    <3>1. faults \in Nat /\ faults' = faults /\ faults <= faults'
      BY <1>1, <1>2, TypeAt
    <3> QED BY <1>1, <1>2, <3>1, HandSame
  <2> QED BY <2>1, <2>2, <2>3
<1>6. OutInv'
  BY <1>2, NothingWritten
<1> QED BY <1>3, <1>4, <1>5, <1>6 DEF IInv, WireInv, OutInv

LEMMA StutterKeeps ==
  ASSUME IInv, UNCHANGED vars
  PROVE  IInv'
<1>1. TypeOK /\ StartOK
  BY DEF IInv, WireInv
<1>2. UNCHANGED <<next, wire, buf, pending, place, hand, fds, copy, nth, upto, mutex, out, lost,
                  closed, faults, open>>
  BY DEF vars, readVars, handVars, writeVars, endVars
<1>3. TypeOK'
  BY <1>1, <1>2 DEF TypeOK
<1>4. StartOK'
  BY <1>1, <1>2 DEF StartOK, Stream
<1>5. ASSUME NEW r \in Pumps PROVE StreamOK(r)' /\ PendingOK(r)' /\ HandOK(r)'
  <2>1. Own(r)' = Own(r)
    BY <1>2 DEF Own
  <2>2. StreamOK(r) /\ PendingOK(r) /\ HandOK(r) /\ faults \in Nat /\ faults <= faults'
    BY <1>1, <1>2, TypeAt DEF IInv, WireInv
  <2> QED BY <1>2, <2>1, <2>2, OthersKeep
<1>6. OutInv'
  BY <1>2, NothingWritten
<1> QED BY <1>3, <1>4, <1>5, <1>6 DEF IInv, WireInv, OutInv

-----------------------------------------------------------------------------
(* Writing. *)

\* p has a message for its target.
HasTarget(p) == place[p] \in Working /\ nth[p] <= Len(To(p))

\* The target of a pump is a connection its message is for, and another one each time;
\* only the application's messages have a copy, for the host.
LEMMA WriterFacts ==
  ASSUME IInv, NEW p \in Pumps, HasTarget(p)
  PROVE  /\ hand[p] \in 1..Len(Streams[p]) /\ hand[p] \in Nat
         /\ nth[p] \in 1..Len(To(p)) /\ nth[p] \in Nat /\ Len(To(p)) \in 0..2
         /\ Body(p, hand[p]).size \in Nat /\ Body(p, hand[p]).size >= 1
         /\ Target(p) \in Pumps /\ Target(p) \in Items(To(p))
         /\ \A m \in 1..(nth[p] - 1) : To(p)[m] # Target(p)
         /\ (Target(p) = "client") <=> (p # "client")
         /\ IsCopy(p) => p = "client" /\ To(p) = <<"host", "cont">> /\ Target(p) = "host"
<1>1. TypeOK /\ HandOK(p)
  BY DEF IInv, WireInv
<1>2. hand[p] > 0 /\ place[p] \in Working /\ nth[p] <= Len(To(p))
  BY <1>1 DEF HandOK, HasTarget
<1>3. hand[p] \in 1..Len(Streams[p]) /\ hand[p] \in Nat /\ nth[p] \in 1..3
  BY <1>1, <1>2, TypeAt
<1>4. /\ To(p) \in Seq(Pumps) /\ Len(To(p)) \in 0..2
      /\ \A m, k \in 1..Len(To(p)) : To(p)[m] = To(p)[k] => m = k
      /\ \A m \in 1..Len(To(p)) : (To(p)[m] = "client") <=> (p # "client")
      /\ 1 < Len(To(p)) => p = "client" /\ To(p) = <<"host", "cont">>
  BY <1>3, TargetFacts DEF To
<1>5. PICK i \in 1..Len(To(p)) : i = nth[p]
  BY <1>2, <1>3, <1>4
<1>6. Body(p, hand[p]).size \in Nat /\ Body(p, hand[p]).size >= 1
  BY <1>3, MessageFacts
<1>7. Target(p) = To(p)[i]
  BY <1>5 DEF Target
<1>8. Target(p) \in Pumps /\ Target(p) \in Items(To(p))
  BY <1>4, <1>7 DEF Items
<1>9. ASSUME NEW m \in 1..(nth[p] - 1) PROVE To(p)[m] # Target(p)
  <2>1. m \in 1..Len(To(p)) /\ m # i
    BY <1>3, <1>4, <1>5
  <2> QED BY <1>4, <1>7, <2>1
<1>10. ASSUME IsCopy(p)
       PROVE  p = "client" /\ To(p) = <<"host", "cont">> /\ Target(p) = "host"
  <2>1. 1 < Len(To(p)) /\ i = 1
    BY <1>4, <1>5, <1>10 DEF IsCopy
  <2>2. p = "client" /\ To(p) = <<"host", "cont">>
    BY <1>4, <2>1
  <2> QED BY <1>7, <2>1, <2>2
<1> QED BY <1>3, <1>4, <1>5, <1>6, <1>7, <1>8, <1>9, <1>10

\* A connection that someone has half written a message to has no other writer: the
\* application's by the mutex, a bus's because only one loop writes to it.
LEMMA OneWriter ==
  ASSUME IInv, NEW p \in Pumps, HasTarget(p), MayWrite(p),
         NEW q \in Pumps, place[q] = "rest", Target(q) = Target(p)
  PROVE  q = p
<1>1. HandOK(q) /\ RestOK(q)
  BY DEF IInv, WireInv
<1>2. HasTarget(q)
  BY <1>1 DEF HandOK, HasTarget, Working
<1>3. /\ (Target(p) = "client") <=> (p # "client")
      /\ (Target(q) = "client") <=> (q # "client")
  BY <1>2, WriterFacts
<1>4. CASE Target(p) = "client"
  BY <1>1, <1>4 DEF RestOK, MayWrite
<1>5. CASE Target(p) # "client"
  BY <1>3, <1>5
<1> QED BY <1>4, <1>5

\* p writes n cells of its h-th message to l, from the f-th on, to the end or, the first
\* time, to some cell before.
Appending(p, l, h, f, n) ==
  /\ HasTarget(p) /\ MayWrite(p) /\ l = Target(p) /\ h = hand[p] /\ l \notin lost /\ ~closed
  /\ f \in Nat /\ n \in Nat /\ f >= 1 /\ n >= 1 /\ f + n - 1 <= Body(p, h).size
  /\ IF f = 1 THEN place[p] \in {"write", "copied"} ELSE place[p] = "rest" /\ f = upto[p] + 1
  /\ f = 1 /\ IsCopy(p) /\ fds[p] # <<>> => place[p] = "copied"
  /\ out' = [out EXCEPT ![l] = @ \o Written(p, f, n)]
  /\ \/ /\ f + n - 1 = Body(p, h).size
        /\ place'[p] = "write" /\ nth'[p] = nth[p] + 1 /\ upto'[p] = 0
        /\ mutex' = IF l = "client" THEN "none" ELSE mutex
     \/ /\ f = 1 /\ n < Body(p, h).size
        /\ place'[p] = "rest" /\ nth'[p] = nth[p] /\ upto'[p] = n /\ mutex' = mutex
  /\ \A r \in Pumps \ {p} : place'[r] = place[r] /\ nth'[r] = nth[r] /\ upto'[r] = upto[r]
  /\ UNCHANGED <<hand, lost, closed>>

NewCell(p, f, j) == [cell |-> <<p, hand[p], f + j - 1>>,
                     with |-> IF f + j = 2 THEN Attached(p) ELSE <<>>]

LEMMA WrittenFacts ==
  ASSUME TypeOK, NEW p \in Pumps, NEW f \in Nat, f >= 1, NEW n \in Nat
  PROVE  /\ Written(p, f, n) \in Seq([cell: Cell, with: Seq(Cell)])
         /\ Len(Written(p, f, n)) = n
         /\ \A j \in 1..n : Written(p, f, n)[j] = NewCell(p, f, j)
<1>1. Attached(p) \in Seq(Cell) /\ <<>> \in Seq(Cell)
  <2>1. copy[p] \in Seq(Cell) /\ fds[p] \in Seq(Cell)
    BY SeqAt
  <2>2. <<>> \in Seq(Cell)
    OBVIOUS
  <2>3. Attached(p) = copy[p] \/ Attached(p) = fds[p]
    BY DEF Attached
  <2> QED BY <2>1, <2>2, <2>3
<1>2. ASSUME NEW j \in 1..n
      PROVE  NewCell(p, f, j) \in [cell: Cell, with: Seq(Cell)]
  <2>1. f + j - 1 \in Nat
    OBVIOUS
  <2>2. <<p, hand[p], f + j - 1>> \in Cell
    BY <2>1, TypeAt DEF Cell
  <2> HIDE DEF Cell
  <2> QED BY <1>1, <2>2 DEF NewCell
<1> HIDE DEF Cell
<1> DEFINE R == [cell: Cell, with: Seq(Cell)]
<1>3. Written(p, f, n) = [j \in 1..n |-> NewCell(p, f, j)]
  BY DEF Written, NewCell
<1> HIDE DEF R
<1>4. [j \in 1..n |-> NewCell(p, f, j)] \in [1..n -> R]
  BY <1>2 DEF R
<1>5. Written(p, f, n) \in Seq(R) /\ Len(Written(p, f, n)) = n
  BY <1>3, <1>4
<1>6. ASSUME NEW j \in 1..n PROVE Written(p, f, n)[j] = NewCell(p, f, j)
  BY <1>3
<1> QED BY <1>5, <1>6 DEF R

LEMMA NewRecords ==
  ASSUME IInv, NEW p \in Pumps, NEW l, NEW h, NEW f, NEW n, Appending(p, l, h, f, n)
  PROVE  /\ l \in Pumps /\ Len(out[l]) \in Nat /\ Len(out'[l]) = Len(out[l]) + n
         /\ \A k \in 1..Len(out[l]) : out'[l][k] = out[l][k]
         /\ \A j \in 1..n : out'[l][Len(out[l]) + j] = NewCell(p, f, j)
         /\ \A m \in Pumps \ {l} : out'[m] = out[m]
         /\ out' \in [Pumps -> Seq([cell: Cell, with: Seq(Cell)])]
<1>1. /\ TypeOK /\ l \in Pumps /\ h \in Nat /\ h = hand[p] /\ f \in Nat /\ n \in Nat /\ f >= 1
  BY WriterFacts DEF IInv, Appending
<1> DEFINE R == [cell: Cell, with: Seq(Cell)]
<1>2. PICK o \in Seq(R) : o = out[l]
  BY <1>1, OutAt
<1>3. PICK w \in Seq(R) : /\ w = Written(p, f, n)
                          /\ Len(w) = n /\ \A j \in 1..n : w[j] = NewCell(p, f, j)
  BY <1>1, WrittenFacts
<1>4. out \in [Pumps -> Seq(R)] /\ out' = [out EXCEPT ![l] = @ \o w]
  BY <1>1, <1>3 DEF TypeOK, Appending
<1> HIDE DEF R
<1>5. out'[l] = o \o w /\ \A m \in Pumps \ {l} : out'[m] = out[m]
  BY <1>1, <1>2, <1>4
<1>6. o \o w \in Seq(R) /\ Len(o) \in Nat
  BY LenNat, ConcatFacts
<1>7. /\ Len(o \o w) = Len(o) + Len(w)
      /\ \A k \in 1..Len(o) : (o \o w)[k] = o[k]
      /\ \A j \in 1..Len(w) : (o \o w)[Len(o) + j] = w[j]
  BY ConcatFacts
<1>8. out' \in [Pumps -> Seq(R)]
  BY <1>1, <1>2, <1>4, <1>6
<1>9. out' \in [Pumps -> Seq([cell: Cell, with: Seq(Cell)])]
  BY <1>8 DEF R
<1> QED BY <1>1, <1>2, <1>3, <1>5, <1>6, <1>7, <1>9

LEMMA NewCells ==
  ASSUME IInv, NEW p \in Pumps, NEW l, NEW h, NEW f, NEW n, Appending(p, l, h, f, n)
  PROVE  /\ l \in Pumps /\ Len(out[l]) \in Nat /\ Len(out'[l]) = Len(out[l]) + n
         /\ \A k \in 1..Len(out[l]) : out'[l][k] = out[l][k]
         /\ \A j \in 1..n : out'[l][Len(out[l]) + j].cell = <<p, h, f + j - 1>>
         /\ \A m \in Pumps \ {l} : out'[m] = out[m]
<1>1. \A j : NewCell(p, f, j).cell = <<p, h, f + j - 1>>
  BY DEF NewCell, Appending
<1>2. /\ l \in Pumps /\ Len(out[l]) \in Nat /\ Len(out'[l]) = Len(out[l]) + n
      /\ \A k \in 1..Len(out[l]) : out'[l][k] = out[l][k]
      /\ \A j \in 1..n : out'[l][Len(out[l]) + j] = NewCell(p, f, j)
      /\ \A m \in Pumps \ {l} : out'[m] = out[m]
  BY NewRecords
<1>3. ASSUME NEW j \in 1..n
      PROVE  out'[l][Len(out[l]) + j].cell = <<p, h, f + j - 1>>
  <2>1. out'[l][Len(out[l]) + j] = NewCell(p, f, j)
    BY <1>2
  <2> QED BY <1>1, <2>1, Zenon
<1> QED BY <1>2, <1>3, Zenon

\* What was on a connection stays there, and the cells p writes come to be there.
LEMMA AppendHas ==
  ASSUME IInv, NEW p \in Pumps, NEW l, NEW h, NEW f, NEW n, Appending(p, l, h, f, n)
  PROVE  /\ \A m \in Pumps : \A c : Has(m, c) => Has(m, c)'
         /\ \A j \in f..(f + n - 1) : Has(l, <<p, h, j>>)'
<1>1. PICK L : L = Len(out[l])
  OBVIOUS
<1>2. /\ l \in Pumps /\ L \in Nat /\ Len(out'[l]) = L + n
      /\ \A k \in 1..L : out'[l][k] = out[l][k]
      /\ \A j \in 1..n : out'[l][L + j].cell = <<p, h, f + j - 1>>
      /\ \A m \in Pumps \ {l} : out'[m] = out[m]
  BY <1>1, NewCells
<1>3. n \in Nat /\ f \in Nat
  BY DEF Appending
<1>4. ASSUME NEW m \in Pumps, NEW c, Has(m, c) PROVE Has(m, c)'
  <2>1. PICK k \in 1..Len(out[m]) : out[m][k].cell = c
    BY <1>4 DEF Has
  <2>2. k \in 1..Len(out'[m]) /\ out'[m][k] = out[m][k]
    <3>1. CASE m = l
      BY <1>1, <1>2, <1>3, <2>1, <3>1
    <3>2. CASE m # l
      BY <1>2, <2>1, <3>2
    <3> QED BY <3>1, <3>2
  <2> QED BY <2>1, <2>2 DEF Has
<1>5. ASSUME NEW j \in f..(f + n - 1) PROVE Has(l, <<p, h, j>>)'
  <2>1. PICK i \in 1..n : f + i - 1 = j
    <3>1. j - f + 1 \in 1..n /\ f + (j - f + 1) - 1 = j
      BY <1>3
    <3> QED BY <3>1
  <2>2. L + i \in 1..Len(out'[l])
    BY <1>2, <1>3
  <2>3. out'[l][L + i].cell = <<p, h, j>>
    BY <1>2, <2>1
  <2> QED BY <2>2, <2>3 DEF Has
<1> QED BY <1>4, <1>5 DEF Has

\* A pump that was done writing a message is; p is done with its own when it has
\* written the last cell.
LEMMA AppendPassed ==
  ASSUME IInv, NEW p \in Pumps, NEW l, NEW h, NEW f, NEW n, Appending(p, l, h, f, n),
         NEW r \in Pumps, NEW i \in Nat, NEW m \in Pumps
  PROVE  /\ Passed(r, i, m) => Passed(r, i, m)'
         /\ Passed(r, i, m)' => \/ Passed(r, i, m)
                                \/ r = p /\ i = h /\ m = l /\ f + n - 1 = Body(p, h).size
         /\ r = p /\ i = h /\ m = l /\ f + n - 1 = Body(p, h).size => Passed(r, i, m)'
<1>1. hand' = hand /\ \A q \in Pumps : To(q)' = To(q)
  BY DEF Appending, To
<1>2. \A q \in Pumps \ {p} : nth'[q] = nth[q]
  BY DEF Appending
<1>3. nth[p] \in Nat /\ nth[p] >= 1 /\ nth[r] \in Nat /\ f \in Nat /\ n \in Nat /\ hand[p] \in Nat
  <2>1. TypeOK /\ HasTarget(p) /\ f \in Nat /\ n \in Nat
    BY DEF IInv, Appending
  <2>2. nth[p] \in 1..Len(To(p)) /\ nth[p] \in Nat /\ hand[p] \in Nat /\ Len(To(p)) \in 0..2
    BY <2>1, WriterFacts
  <2>3. nth[r] \in 1..3
    BY <2>1, TypeAt
  <2> QED BY <2>1, <2>2, <2>3
<1>4. \/ f + n - 1 = Body(p, h).size /\ nth'[p] = nth[p] + 1
      \/ f + n - 1 # Body(p, h).size /\ nth'[p] = nth[p]
  BY <1>3 DEF Appending
<1>5. l = To(p)[nth[p]] /\ h = hand[p]
  BY DEF Target, Appending
<1>6. CASE r # p
  BY <1>1, <1>2, <1>4, <1>5, <1>3, <1>6 DEF Passed
<1>7. CASE r = p
  BY <1>1, <1>4, <1>5, <1>3, <1>7 DEF Passed
<1> QED BY <1>6, <1>7

LEMMA AppendKeepsOut ==
  ASSUME IInv, NEW p \in Pumps, NEW l, NEW h, NEW f, NEW n, Appending(p, l, h, f, n)
  PROVE  OutInv'
<1>1. l = Target(p)
  BY DEF Appending
<1>2. PICK L : L = Len(out[l])
  OBVIOUS
<1>3. h = hand[p]
  BY DEF Appending
<1>4. PICK sz : sz = Body(p, h).size
  OBVIOUS
<1>5. /\ L \in Nat /\ Len(out'[l]) = L + n
      /\ \A k \in 1..L : out'[l][k] = out[l][k]
      /\ \A j \in 1..n : out'[l][L + j].cell = <<p, h, f + j - 1>>
      /\ \A m \in Pumps \ {l} : out'[m] = out[m]
  BY <1>2, NewCells
<1>6. /\ n \in Nat /\ f \in Nat /\ n >= 1 /\ f >= 1 /\ f + n - 1 <= sz /\ sz \in Nat
      /\ h \in Nat /\ h >= 1 /\ l \in Pumps /\ l \in Items(Body(p, h).to) /\ TypeOK
      /\ l \notin lost /\ ~closed /\ HasTarget(p) /\ MayWrite(p)
  BY <1>1, <1>3, <1>4, WriterFacts DEF Appending, IInv, To
<1>7. hand' = hand /\ lost' = lost /\ closed' = closed
  BY DEF Appending
<1>8. \A r \in Pumps \ {p} : /\ place'[r] = place[r] /\ upto'[r] = upto[r]
                             /\ Target(r)' = Target(r)
  BY <1>7 DEF Appending, Target, To
<1>9. ASSUME NEW r \in Pumps, r # p, place[r] = "rest"
      PROVE  Target(r) # l /\ Target(r) \in Pumps
  <2>1. HandOK(r)
    BY DEF IInv, WireInv
  <2>2. HasTarget(r)
    BY <1>9, <2>1 DEF HandOK, HasTarget, Working
  <2>3. Target(r) \in Pumps
    BY <2>2, WriterFacts
  <2> QED BY <1>1, <1>6, <1>9, <2>3, OneWriter
<1>10. \/ /\ f + n - 1 = sz /\ place'[p] = "write"
          /\ mutex' = IF l = "client" THEN "none" ELSE mutex
       \/ /\ f = 1 /\ n < sz /\ place'[p] = "rest" /\ upto'[p] = n /\ mutex' = mutex
          /\ Target(p)' = l /\ place[p] # "rest"
  <2>1. nth'[p] = nth[p] => Target(p)' = l
    BY <1>1, <1>7 DEF Target, To
  <2> QED BY <1>1, <1>3, <1>4, <2>1 DEF Appending
<1>11. place[p] = "rest" => f + n - 1 = sz /\ f = upto[p] + 1
  BY <1>10, <1>6 DEF Appending
<1>12. f = 1 \/ (place[p] = "rest" /\ f = upto[p] + 1)
  BY DEF Appending
<1>13. f + n - 1 = sz => Passed(p, h, l)'
  BY <1>1, <1>3, <1>4, <1>6, AppendPassed
<1>14. ASSUME NEW r \in Pumps PROVE RestOK(r)'
  <2> SUFFICES ASSUME place'[r] = "rest"
               PROVE  /\ Target(r)' = "client" => mutex' = r
                      /\ \/ Target(r)' \in lost' \/ closed'
                         \/ /\ out'[Target(r)'] # <<>>
                            /\ Last(out'[Target(r)']).cell = <<r, hand'[r], upto'[r]>>
    BY DEF RestOK, Last
  <2>1. CASE r # p
    <3>1. place[r] = "rest" /\ RestOK(r)
      BY <1>8, <2>1 DEF IInv, WireInv
    <3>2. Target(r) # l /\ Target(r) \in Pumps
      BY <1>9, <2>1, <3>1
    <3>3. Target(r) = "client" => mutex' = mutex
      BY <1>10, <3>2
    <3>4. out'[Target(r)] = out[Target(r)]
      BY <1>5, <3>2
    <3> QED BY <1>7, <1>8, <2>1, <3>1, <3>3, <3>4 DEF RestOK, Last
  <2>2. CASE r = p
    <3>1. f = 1 /\ n < sz /\ upto'[p] = n /\ mutex' = mutex /\ Target(p)' = l
      BY <1>10, <2>2
    <3>2. Len(out'[l]) # 0 /\ Len(out'[l]) = L + n
      BY <1>5, <1>6
    <3>3. n \in 1..n /\ f + n - 1 = n
      BY <1>6, <3>1
    <3>4. Last(out'[l]).cell = <<p, h, n>>
      BY <1>5, <3>2, <3>3 DEF Last
    <3>5. l = "client" => mutex' = p
      BY <1>1, <1>6, <3>1 DEF MayWrite
    <3>6. out'[l] # <<>>
      BY <3>2
    <3> QED BY <1>3, <1>7, <2>2, <3>1, <3>4, <3>5, <3>6
  <2> QED BY <2>1, <2>2
<1>15. ASSUME NEW m \in Pumps PROVE LastOK(m)'
  <2>1. CASE m = l
    <3>1. n \in 1..n
      BY <1>6
    <3>2. Last(out'[l]).cell = <<p, h, f + n - 1>>
      BY <1>5, <3>1 DEF Last
    <3>3. CASE f + n - 1 = sz
      BY <1>4, <2>1, <3>2, <3>3 DEF LastOK, Last
    <3>4. CASE f + n - 1 # sz
      BY <1>10, <2>1, <3>4 DEF LastOK
    <3> QED BY <3>3, <3>4
  <2>2. CASE m # l
    <3>1. out'[m] = out[m] /\ LastOK(m)
      BY <1>5, <2>2 DEF IInv, WireInv
    <3>2. \A q \in Pumps : place[q] = "rest" /\ Target(q) = m =>
                             place'[q] = "rest" /\ Target(q)' = m
      BY <1>1, <1>8, <2>2
    <3> QED BY <1>7, <3>1, <3>2 DEF LastOK, Last
  <2> QED BY <2>1, <2>2
<1>16. ASSUME NEW m \in Pumps PROVE OutOK(m)'
  <2> DEFINE Fine(c) == /\ c[1] \in Pumps /\ c[2] \in 1..hand[c[1]]
                        /\ c[3] \in 1..Body(c[1], c[2]).size
                        /\ m \in Items(Body(c[1], c[2]).to)
                        /\ \/ Passed(c[1], c[2], m) \/ m \in lost \/ closed
                           \/ /\ place[c[1]] = "rest" /\ Target(c[1]) = m
                              /\ c[2] = hand[c[1]] /\ c[3] <= upto[c[1]]
             FineNext(c) == /\ c[1] \in Pumps /\ c[2] \in 1..hand'[c[1]]
                            /\ c[3] \in 1..Body(c[1], c[2]).size
                            /\ m \in Items(Body(c[1], c[2]).to)
                            /\ \/ c[2] < hand'[c[1]]
                               \/ /\ c[2] = hand'[c[1]]
                                  /\ \E e \in 1..(nth'[c[1]] - 1) :
                                       Body(c[1], hand'[c[1]]).to[e] = m
                               \/ m \in lost' \/ closed'
                               \/ /\ place'[c[1]] = "rest"
                                  /\ Body(c[1], hand'[c[1]]).to[nth'[c[1]]] = m
                                  /\ c[2] = hand'[c[1]] /\ c[3] <= upto'[c[1]]
  <2>1. \A k \in 1..Len(out[m]) : Fine(out[m][k].cell)
    BY DEF IInv, WireInv, OutOK
  <2>2. ASSUME NEW c, Fine(c) PROVE FineNext(c)
    <3>1. c[2] \in Nat
      BY <1>6, <2>2, TypeAt
    <3>2. Passed(c[1], c[2], m) => Passed(c[1], c[2], m)'
      BY <2>2, <3>1, AppendPassed
    <3>3. CASE c[1] = p /\ place[p] = "rest" /\ Target(p) = m /\ c[2] = hand[p]
      <4>1. Passed(c[1], c[2], m)'
        BY <1>1, <1>3, <1>11, <1>13, <3>3
      <4> QED BY <1>7, <2>2, <4>1 DEF Passed, To
    <3>4. CASE c[1] # p
      BY <1>7, <1>8, <2>2, <3>2, <3>4 DEF Passed, To, Target
    <3>5. CASE Passed(c[1], c[2], m) \/ m \in lost \/ closed
      BY <1>7, <2>2, <3>2, <3>5 DEF Passed, To
    <3> QED BY <2>2, <3>3, <3>4, <3>5
  <2>3. ASSUME NEW j \in 1..n, NEW c, c = <<p, h, f + j - 1>>, m = l PROVE FineNext(c)
    <3>1. f + j - 1 \in 1..sz /\ h \in 1..h
      BY <1>6
    <3>2. f = 1 => f + j - 1 <= n
      BY <1>6
    <3>3. \/ Passed(p, h, m)'
          \/ place'[p] = "rest" /\ Target(p)' = m /\ f + j - 1 <= upto'[p]
      BY <1>10, <1>13, <2>3, <3>2
    <3>4. c[1] = p /\ c[2] = h /\ c[3] = f + j - 1
      BY <2>3
    <3>5. CASE Passed(p, h, m)'
      BY <1>3, <1>4, <1>6, <1>7, <2>3, <3>1, <3>4, <3>5 DEF Passed, To
    <3>6. CASE place'[p] = "rest" /\ Target(p)' = m /\ f + j - 1 <= upto'[p]
      BY <1>3, <1>4, <1>6, <1>7, <2>3, <3>1, <3>4, <3>6 DEF Target, To
    <3> QED BY <3>3, <3>5, <3>6
  <2> HIDE DEF Fine
  <2>4. ASSUME NEW k \in 1..Len(out'[m]) PROVE FineNext(out'[m][k].cell)
    <3> HIDE DEF FineNext
    <3>1. CASE m # l
      BY <1>5, <2>1, <2>2, <2>4, <3>1
    <3>2. CASE m = l
      <4>1. ASSUME k \in 1..L PROVE FineNext(out'[m][k].cell)
        <5>1. out'[m][k] = out[m][k] /\ k \in 1..Len(out[m])
          BY <1>2, <1>5, <3>2, <4>1
        <5> QED BY <2>1, <2>2, <5>1
      <4>2. ASSUME NEW j \in 1..n, k = L + j PROVE FineNext(out'[m][k].cell)
        <5>1. out'[m][k].cell = <<p, h, f + j - 1>>
          BY <1>5, <3>2, <4>2
        <5> QED BY <2>3, <3>2, <5>1
      <4>3. k \in 1..(L + n)
        BY <1>5, <2>4, <3>2
      <4>4. CASE k \in 1..L
        BY <4>1, <4>4
      <4>5. CASE k \notin 1..L
        <5>1. k - L \in 1..n /\ k = L + (k - L)
          BY <1>5, <1>6, <4>3, <4>5
        <5> QED BY <4>2, <5>1
      <4> QED BY <4>4, <4>5
    <3> QED BY <3>1, <3>2
  <2> QED BY <2>4 DEF OutOK, Passed, Target, To
<1>17. ASSUME NEW m \in Pumps PROVE HasOK(m)'
  <2> SUFFICES ASSUME m \notin lost, ~closed
               PROVE  \A r \in Pumps :
                        /\ \A i \in 1..hand[r] : \A j \in 1..Body(r, i).size :
                             m \in Items(Body(r, i).to) /\ Passed(r, i, m)'
                               => Has(m, <<r, i, j>>)'
                        /\ place'[r] = "rest" /\ Target(r)' = m =>
                             \A j \in 1..upto'[r] : \A g : g = hand[r] => Has(m, <<r, g, j>>)'
    BY <1>7 DEF HasOK, Has
  <2>1. \A r \in Pumps :
          /\ \A i \in 1..hand[r] : \A j \in 1..Body(r, i).size :
               m \in Items(Body(r, i).to) /\ Passed(r, i, m) => Has(m, <<r, i, j>>)
          /\ place[r] = "rest" /\ Target(r) = m =>
               \A j \in 1..upto[r] : Has(m, <<r, hand[r], j>>)
    BY DEF IInv, WireInv, HasOK
  <2>2. \A c : Has(m, c) => Has(m, c)'
    BY AppendHas
  <2>3. \A j \in f..(f + n - 1) : Has(l, <<p, h, j>>)'
    BY <1>1, <1>3, AppendHas
  <2>4. ASSUME NEW r \in Pumps, NEW i \in 1..hand[r], NEW j \in 1..Body(r, i).size,
               m \in Items(Body(r, i).to), Passed(r, i, m)'
        PROVE  Has(m, <<r, i, j>>)'
    <3>1. i \in Nat
      BY <1>6, TypeAt
    <3>2. CASE Passed(r, i, m)
      BY <2>1, <2>2, <2>4, <3>2
    <3>3. CASE r = p /\ i = h /\ m = l /\ f + n - 1 = sz
      <4>1. j \in 1..sz
        BY <1>4, <3>3
      <4>2. CASE j \in f..(f + n - 1)
        BY <2>3, <3>3, <4>2
      <4>3. CASE j < f
        <5>1. place[p] = "rest" /\ Target(p) = m
          BY <1>1, <1>12, <3>3, <4>1, <4>3
        <5>2. j \in 1..upto[p]
          BY <1>6, <1>12, <4>1, <4>3, TypeAt
        <5> QED BY <1>3, <2>1, <2>2, <3>3, <5>1, <5>2
      <4> QED BY <1>6, <3>3, <4>1, <4>2, <4>3
    <3> QED BY <1>1, <1>3, <1>4, <2>4, <3>1, <3>2, <3>3, AppendPassed
  <2>5. ASSUME NEW r \in Pumps, place'[r] = "rest", Target(r)' = m, NEW j \in 1..upto'[r],
               NEW g, g = hand[r]
        PROVE  Has(m, <<r, g, j>>)'
    <3>1. CASE r # p
      BY <1>8, <2>1, <2>2, <2>5, <3>1
    <3>2. CASE r = p
      <4>1. f = 1 /\ upto'[p] = n /\ m = l
        BY <1>10, <2>5, <3>2
      <4>2. j \in f..(f + n - 1)
        BY <1>6, <2>5, <3>2, <4>1
      <4> QED BY <1>3, <2>3, <2>5, <3>2, <4>1, <4>2
    <3> QED BY <3>1, <3>2
  <2> QED BY <2>4, <2>5
<1> QED BY <1>14, <1>15, <1>16, <1>17 DEF OutInv
LEMMA WriteAppends ==
  ASSUME IInv, NEW p \in Pumps, Write(p) \/ WriteRest(p),
         NEW l, l = Target(p), NEW h, h = hand[p]
  PROVE  \E f \in Nat, n \in Nat : Appending(p, l, h, f, n)
<1>1. TypeOK /\ HandOK(p) /\ RestOK(p)
  BY DEF IInv, WireInv
<1>2. /\ place \in [Pumps -> Places] /\ nth \in [Pumps -> 1..3] /\ upto \in [Pumps -> Nat]
      /\ nth[p] \in Nat /\ upto[p] \in Nat
  <2>1. place \in [Pumps -> Places] /\ nth \in [Pumps -> 1..3] /\ upto \in [Pumps -> Nat]
    BY <1>1 DEF TypeOK
  <2>2. nth[p] \in 1..3 /\ upto[p] \in Nat
    BY <1>1, TypeAt
  <2> QED BY <2>1, <2>2
<1>3. CASE Write(p)
  <2>1. HasTarget(p) /\ MayWrite(p) /\ place[p] \in {"write", "copied"}
    BY <1>3 DEF Write, Ready, HasTarget, Working
  <2>2. PICK sz \in Nat : sz = Body(p, h).size
    BY <2>1, WriterFacts
  <2>3. PICK n \in 1..sz :
          /\ out' = [out EXCEPT ![l] = @ \o Written(p, 1, n)]
          /\ IF n = sz
             THEN NextTarget(p) /\ Unlock(p)
             ELSE /\ upto' = [upto EXCEPT ![p] = n] /\ Goto(p, "rest")
                  /\ UNCHANGED <<nth, copy, open, mutex>>
    BY <1>3, <2>2 DEF Write
  <2>4. l \notin lost /\ ~closed /\ UNCHANGED <<hand, lost, closed>>
    BY <1>3 DEF Write, endVars
  <2>5. n \in Nat /\ n >= 1 /\ n <= sz /\ 1 + n - 1 = n
    OBVIOUS
  <2>6. \/ /\ 1 + n - 1 = sz
           /\ place'[p] = "write" /\ nth'[p] = nth[p] + 1 /\ upto'[p] = 0
           /\ mutex' = IF l = "client" THEN "none" ELSE mutex
        \/ /\ 1 = 1 /\ n < sz
           /\ place'[p] = "rest" /\ nth'[p] = nth[p] /\ upto'[p] = n /\ mutex' = mutex
    BY <1>2, <2>3, <2>5 DEF NextTarget, Unlock, Goto
  <2>7. \A r \in Pumps \ {p} : place'[r] = place[r] /\ nth'[r] = nth[r] /\ upto'[r] = upto[r]
    BY <1>2, <2>3 DEF NextTarget, Goto
  <2>8. IsCopy(p) /\ fds[p] # <<>> => place[p] = "copied"
    BY <1>3 DEF Write, Ready
  <2>9. Appending(p, l, h, 1, n)
    BY <2>1, <2>2, <2>3, <2>4, <2>5, <2>6, <2>7, <2>8 DEF Appending
  <2> QED BY <2>5, <2>9
<1>4. CASE WriteRest(p)
  <2>1. place[p] = "rest" /\ nth[p] <= Len(To(p)) /\ upto[p] \in 1..(Body(p, h).size - 1)
    BY <1>1, <1>4 DEF WriteRest, HandOK
  <2>2. l \notin lost /\ ~closed /\ UNCHANGED <<hand, lost, closed>>
    BY <1>4 DEF WriteRest, endVars
  <2>3. HasTarget(p) /\ MayWrite(p)
    BY <1>1, <2>1 DEF HasTarget, Working, MayWrite, RestOK
  <2>4. PICK sz \in Nat : sz = Body(p, h).size
    BY <2>3, WriterFacts
  <2>5. PICK f \in Nat, n \in Nat : f = upto[p] + 1 /\ n = sz - upto[p]
    BY <1>2, <2>1, <2>4
  <2>6. f >= 1 /\ f # 1 /\ n >= 1 /\ f + n - 1 = sz
    <3>1. PICK u \in 1..(sz - 1) : u = upto[p]
      BY <2>1, <2>4
    <3>2. f = u + 1 /\ n = sz - u
      BY <2>5, <3>1
    <3> QED BY <3>2
  <2>7. out' = [out EXCEPT ![l] = @ \o Written(p, f, n)]
    BY <1>4, <2>4, <2>5 DEF WriteRest
  <2>8. /\ place'[p] = "write" /\ nth'[p] = nth[p] + 1 /\ upto'[p] = 0
        /\ mutex' = IF l = "client" THEN "none" ELSE mutex
    BY <1>2, <1>4 DEF WriteRest, NextTarget, Unlock, Goto
  <2>9. \A r \in Pumps \ {p} : place'[r] = place[r] /\ nth'[r] = nth[r] /\ upto'[r] = upto[r]
    BY <1>2, <1>4 DEF WriteRest, NextTarget, Goto
  <2>10. Appending(p, l, h, f, n)
    BY <2>1, <2>2, <2>3, <2>4, <2>5, <2>6, <2>7, <2>8, <2>9 DEF Appending
  <2> QED BY <2>10
<1> QED BY <1>3, <1>4

\* p gives up what it had to write to a connection that takes nothing.
Skipping(p, l) ==
  /\ HasTarget(p) /\ MayWrite(p) /\ l = Target(p) /\ (l \in lost \/ closed)
  /\ place'[p] \in {"write", "failed"} /\ upto'[p] = 0 /\ nth'[p] \in {nth[p], nth[p] + 1}
  /\ mutex' = IF l = "client" THEN "none" ELSE mutex
  /\ \A r \in Pumps \ {p} : place'[r] = place[r] /\ nth'[r] = nth[r] /\ upto'[r] = upto[r]
  /\ UNCHANGED <<hand, lost, closed, out>>

LEMMA SkipPassed ==
  ASSUME IInv, NEW p \in Pumps, NEW l, Skipping(p, l),
         NEW r \in Pumps, NEW i \in Nat, NEW m \in Pumps
  PROVE  /\ Passed(r, i, m) => Passed(r, i, m)'
         /\ Passed(r, i, m)' => Passed(r, i, m) \/ m \in lost \/ closed
<1>1. hand' = hand /\ \A q \in Pumps : To(q)' = To(q)
  BY DEF Skipping, To
<1>2. \A q \in Pumps \ {p} : nth'[q] = nth[q]
  BY DEF Skipping
<1>3. nth[p] \in Nat /\ nth[p] >= 1 /\ nth'[p] \in {nth[p], nth[p] + 1}
  <2>1. nth[p] \in 1..3
    BY TypeAt DEF IInv
  <2>2. nth'[p] \in {nth[p], nth[p] + 1}
    BY DEF Skipping
  <2> QED BY <2>1, <2>2
<1>4. l = To(p)[nth[p]] /\ (l \in lost \/ closed)
  BY DEF Skipping, Target
<1>5. CASE r # p
  BY <1>1, <1>2, <1>5 DEF Passed
<1>6. CASE r = p
  BY <1>1, <1>3, <1>4, <1>6 DEF Passed
<1> QED BY <1>5, <1>6

LEMMA SkipKeepsOut ==
  ASSUME IInv, NEW p \in Pumps, NEW l, Skipping(p, l)
  PROVE  OutInv'
<1>1. /\ l = Target(p) /\ (l \in lost \/ closed) /\ place'[p] # "rest" /\ TypeOK
      /\ MayWrite(p) /\ UNCHANGED <<hand, lost, closed, out>>
      /\ mutex' = IF l = "client" THEN "none" ELSE mutex
  BY DEF Skipping, IInv
<1>2. \A r \in Pumps \ {p} : /\ place'[r] = place[r] /\ upto'[r] = upto[r]
                             /\ Target(r)' = Target(r)
  BY <1>1 DEF Skipping, Target, To
<1>3. ASSUME NEW r \in Pumps PROVE RestOK(r)'
  <2> SUFFICES ASSUME place'[r] = "rest", r # p, place[r] = "rest",
                      Target(r)' = Target(r), upto'[r] = upto[r]
               PROVE  Target(r) = "client" => mutex' = r
    <3>1. RestOK(r)
      BY DEF IInv, WireInv
    <3> QED BY <1>1, <1>2, <3>1 DEF RestOK, Last
  <2> SUFFICES ASSUME Target(r) = "client" PROVE mutex' = r
    OBVIOUS
  <2>1. mutex = r
    BY DEF IInv, WireInv, RestOK
  <2>2. l # "client"
    BY <1>1, <2>1 DEF MayWrite
  <2> QED BY <1>1, <2>1, <2>2
<1>4. ASSUME NEW m \in Pumps PROVE LastOK(m)'
  <2>1. LastOK(m)
    BY DEF IInv, WireInv
  <2>2. ASSUME NEW q \in Pumps, place[q] = "rest", Target(q) = m, m \notin lost, ~closed
        PROVE  place'[q] = "rest" /\ Target(q)' = m
    BY <1>1, <1>2, <2>2
  <2> QED BY <1>1, <2>1, <2>2 DEF LastOK, Last
<1>5. ASSUME NEW m \in Pumps PROVE OutOK(m)'
  <2> DEFINE Fine(c) == /\ c[1] \in Pumps /\ c[2] \in 1..hand[c[1]]
                        /\ c[3] \in 1..Body(c[1], c[2]).size
                        /\ m \in Items(Body(c[1], c[2]).to)
                        /\ \/ Passed(c[1], c[2], m) \/ m \in lost \/ closed
                           \/ /\ place[c[1]] = "rest" /\ Target(c[1]) = m
                              /\ c[2] = hand[c[1]] /\ c[3] <= upto[c[1]]
             FineNext(c) == /\ c[1] \in Pumps /\ c[2] \in 1..hand'[c[1]]
                            /\ c[3] \in 1..Body(c[1], c[2]).size
                            /\ m \in Items(Body(c[1], c[2]).to)
                            /\ \/ c[2] < hand'[c[1]]
                               \/ /\ c[2] = hand'[c[1]]
                                  /\ \E e \in 1..(nth'[c[1]] - 1) :
                                       Body(c[1], hand'[c[1]]).to[e] = m
                               \/ m \in lost' \/ closed'
                               \/ /\ place'[c[1]] = "rest"
                                  /\ Body(c[1], hand'[c[1]]).to[nth'[c[1]]] = m
                                  /\ c[2] = hand'[c[1]] /\ c[3] <= upto'[c[1]]
  <2>1. \A k \in 1..Len(out[m]) : Fine(out[m][k].cell)
    BY DEF IInv, WireInv, OutOK
  <2>2. ASSUME NEW c, Fine(c) PROVE FineNext(c)
    <3>1. c[2] \in Nat
      BY <1>1, <2>2, TypeAt
    <3>2. Passed(c[1], c[2], m) => Passed(c[1], c[2], m)'
      BY <2>2, <3>1, SkipPassed
    <3>3. CASE c[1] = p /\ place[p] = "rest" /\ Target(p) = m
      BY <1>1, <2>2, <3>3
    <3>4. CASE c[1] # p /\ place[c[1]] = "rest" /\ Target(c[1]) = m
               /\ c[2] = hand[c[1]] /\ c[3] <= upto[c[1]]
      BY <1>1, <1>2, <2>2, <3>4 DEF To, Target
    <3>5. CASE Passed(c[1], c[2], m) \/ m \in lost \/ closed
      BY <1>1, <2>2, <3>2, <3>5 DEF Passed, To
    <3> QED BY <2>2, <3>3, <3>4, <3>5
  <2>3. ASSUME NEW k \in 1..Len(out'[m]) PROVE FineNext(out'[m][k].cell)
    <3> HIDE DEF Fine, FineNext
    <3> QED BY <1>1, <2>1, <2>2, <2>3
  <2> QED BY <2>3 DEF OutOK, Passed, Target, To
<1>6. ASSUME NEW m \in Pumps PROVE HasOK(m)'
  <2> SUFFICES ASSUME m \notin lost, ~closed
               PROVE  \A r \in Pumps :
                        /\ \A i \in 1..hand[r] : \A j \in 1..Body(r, i).size :
                             m \in Items(Body(r, i).to) /\ Passed(r, i, m)'
                               => Has(m, <<r, i, j>>)
                        /\ place'[r] = "rest" /\ Target(r)' = m =>
                             \A j \in 1..upto'[r] : Has(m, <<r, hand[r], j>>)
    BY <1>1 DEF HasOK, Has
  <2>1. \A r \in Pumps :
          /\ \A i \in 1..hand[r] : \A j \in 1..Body(r, i).size :
               m \in Items(Body(r, i).to) /\ Passed(r, i, m) => Has(m, <<r, i, j>>)
          /\ place[r] = "rest" /\ Target(r) = m =>
               \A j \in 1..upto[r] : Has(m, <<r, hand[r], j>>)
    BY DEF IInv, WireInv, HasOK
  <2>2. ASSUME NEW r \in Pumps, NEW i \in 1..hand[r], Passed(r, i, m)'
        PROVE  Passed(r, i, m)
    <3>1. i \in Nat
      BY <1>1, TypeAt
    <3> QED BY <2>2, <3>1, SkipPassed
  <2> QED BY <1>1, <1>2, <2>1, <2>2
<1> QED BY <1>3, <1>4, <1>5, <1>6 DEF OutInv
LEMMA WriteFailsSkips ==
  ASSUME IInv, NEW p \in Pumps, WriteFails(p), NEW l, l = Target(p)
  PROVE  Skipping(p, l)
<1>1. TypeOK /\ HandOK(p) /\ RestOK(p)
  BY DEF IInv, WireInv
<1>2. place \in [Pumps -> Places] /\ nth \in [Pumps -> 1..3] /\ upto \in [Pumps -> Nat]
  BY <1>1 DEF TypeOK
<1>3. HasTarget(p) /\ MayWrite(p)
  <2>1. CASE Ready(p)
    BY <2>1 DEF Ready, HasTarget, Working
  <2>2. CASE place[p] = "rest"
    BY <1>1, <2>2 DEF HandOK, HasTarget, Working, MayWrite, RestOK
  <2> QED BY <2>1, <2>2 DEF WriteFails
<1>4. /\ place' = [place EXCEPT ![p] = "write"] /\ nth' = [nth EXCEPT ![p] = @ + 1]
      /\ upto' = [upto EXCEPT ![p] = 0]
   \/ /\ place' = [place EXCEPT ![p] = "failed"] /\ nth' = nth /\ upto' = [upto EXCEPT ![p] = 0]
  BY DEF WriteFails, NextTarget, Goto
<1>5. (l \in lost \/ closed) /\ UNCHANGED <<hand, lost, closed, out>>
  BY DEF WriteFails, endVars
<1>6. mutex' = IF l = "client" THEN "none" ELSE mutex
  BY DEF WriteFails, Unlock
<1> QED BY <1>2, <1>3, <1>4, <1>5, <1>6 DEF Skipping

\* What every write does to the pump that writes, but for where it goes.
Handling(p) ==
  /\ HasTarget(p)
  /\ UNCHANGED <<readVars, hand, fds, endVars>>
  /\ place' \in [Pumps -> Places] /\ nth' \in [Pumps -> 1..3] /\ upto' \in [Pumps -> Nat]
  /\ \A r \in Pumps \ {p} : /\ place'[r] = place[r] /\ nth'[r] = nth[r] /\ upto'[r] = upto[r]
                            /\ copy'[r] = copy[r]
  /\ \/ place'[p] = "write" /\ nth'[p] = nth[p] + 1 /\ copy' = [copy EXCEPT ![p] = <<>>]
     \/ place'[p] = "rest" /\ nth'[p] = nth[p] /\ copy' = copy
        /\ upto'[p] \in 1..(Body(p, hand[p]).size - 1)
     \/ place'[p] = "failed" /\ nth'[p] = nth[p] /\ copy' = copy /\ ~IsCopy(p)
  /\ mutex' \in Pumps \cup {"none"}
  /\ out' \in [Pumps -> Seq([cell: Cell, with: Seq(Cell)])]

LEMMA HandlingKeeps ==
  ASSUME IInv, NEW p \in Pumps, Handling(p), OutInv'
  PROVE  IInv'
<1>1. /\ TypeOK /\ StreamOK(p) /\ PendingOK(p) /\ HandOK(p) /\ HasTarget(p)
      /\ place[p] \in Working /\ nth[p] <= Len(To(p))
  BY DEF IInv, WireInv, Handling, HasTarget
<1>2. /\ next' = next /\ wire' = wire /\ buf' = buf /\ pending' = pending
      /\ hand' = hand /\ fds' = fds /\ lost' = lost /\ closed' = closed /\ faults' = faults
  BY DEF Handling, readVars, endVars
<1>3. copy' \in [Pumps -> Seq(Cell)] /\ \A r \in Pumps : Items(copy'[r]) \subseteq Items(fds'[r])
  <2>1. copy \in [Pumps -> Seq(Cell)] /\ \A r \in Pumps : Items(copy[r]) \subseteq Items(fds[r])
    BY <1>1 DEF TypeOK
  <2>2. CASE copy' = copy
    BY <1>2, <2>1, <2>2
  <2>3. CASE copy' = [copy EXCEPT ![p] = <<>>]
    <3>1. <<>> \in Seq(Cell) /\ Items(<<>>) = {}
      BY DEF Items
    <3> QED BY <1>2, <2>1, <2>3, <3>1
  <2> QED BY <2>2, <2>3 DEF Handling
<1>4. TypeOK'
  BY <1>1, <1>2, <1>3 DEF TypeOK, Handling
<1>5. StreamOK(p)'
  BY <1>1, <1>2 DEF StreamOK, Stream, IsSent, Last
<1>6. PendingOK(p)'
  BY <1>1, <1>2, PendingSame DEF Working
<1>7. copy'[p] \in {<<>>, copy[p]} /\ (place'[p] = "write" => copy'[p] = <<>>)
  <2>1. DOMAIN copy = Pumps
    BY <1>1 DEF TypeOK
  <2> QED BY <2>1 DEF Handling
<1>8. HandOK(p)'
  <2>1. /\ hand[p] > 0 /\ fds[p] = Fd(p, hand[p]) /\ copy[p] \in {<<>>, fds[p]}
        /\ nth[p] \in 1..(Len(To(p)) + 1) /\ (copy[p] # <<>> => IsCopy(p))
    BY <1>1 DEF HandOK
  <2>2. To(p)' = To(p)
    BY <1>2 DEF To
  <2>3. nth[p] \in Nat /\ Len(To(p)) \in 0..2
    BY <1>1, WriterFacts
  <2>4. CASE place'[p] = "write"
    <3>1. nth'[p] = nth[p] + 1
      BY <2>4 DEF Handling
    <3>2. nth'[p] \in 1..(Len(To(p)) + 1)
      BY <1>1, <2>1, <2>3, <3>1
    <3> QED BY <1>2, <1>7, <2>1, <2>2, <2>4, <3>2 DEF HandOK, Working
  <2>5. CASE place'[p] = "rest"
    <3>1. nth'[p] = nth[p] /\ upto'[p] \in 1..(Body(p, hand[p]).size - 1)
      BY <2>5 DEF Handling
    <3>2. IsCopy(p)' <=> IsCopy(p)
      BY <2>2, <3>1 DEF IsCopy
    <3> QED BY <1>1, <1>2, <1>7, <2>1, <2>2, <2>5, <3>1, <3>2 DEF HandOK, Working
  <2>6. CASE place'[p] = "failed"
    <3>1. nth'[p] = nth[p] /\ copy'[p] = <<>>
      BY <1>7, <2>1, <2>6 DEF Handling
    <3> QED BY <1>1, <1>2, <2>1, <2>2, <2>6, <3>1 DEF HandOK, Working
  <2> QED BY <2>4, <2>5, <2>6 DEF Handling
<1>9. \A r \in Pumps \ {p} : Own(r)' = Own(r)
  BY <1>2 DEF Own, Handling
<1>10. place[p] \notin {"none", "sasl"} /\ place'[p] \notin {"none", "sasl"}
  BY <1>1 DEF Working, Handling
<1>11. faults \in Nat
  BY <1>1, TypeAt
<1>12. StartOK' /\ \A r \in Pumps : StreamOK(r)' /\ PendingOK(r)' /\ HandOK(r)'
  BY <1>2, <1>5, <1>6, <1>8, <1>9, <1>10, <1>11, StepOfOne
<1> QED BY <1>4, <1>12 DEF IInv, WireInv, OutInv

LEMMA WriteKeeps ==
  ASSUME IInv, NEW p \in Pumps, Write(p) \/ WriteRest(p)
  PROVE  IInv'
<1>1. PICK l : l = Target(p)
  OBVIOUS
<1>2. PICK h : h = hand[p]
  OBVIOUS
<1>3. PICK f \in Nat, n \in Nat : Appending(p, l, h, f, n)
  BY <1>1, <1>2, WriteAppends
<1>4. OutInv'
  BY <1>3, AppendKeepsOut
<1>5. Handling(p)
  <2>1. /\ place \in [Pumps -> Places] /\ nth \in [Pumps -> 1..3] /\ upto \in [Pumps -> Nat]
        /\ copy \in [Pumps -> Seq(Cell)] /\ mutex \in Pumps \cup {"none"}
    BY DEF IInv, TypeOK
  <2>2. HasTarget(p) /\ UNCHANGED <<readVars, hand, fds, endVars>>
    BY <1>3 DEF Appending, Write, WriteRest
  <2>3. out' \in [Pumps -> Seq([cell: Cell, with: Seq(Cell)])]
    BY <1>3, NewRecords
  <2>4. nth[p] + 1 \in 1..3 /\ n \in Nat
    <3>1. PICK k \in 0..2 : k = Len(To(p)) /\ nth[p] \in 1..k
      BY <2>2, WriterFacts
    <3> QED BY <3>1
  <2>5. \/ /\ place' = [place EXCEPT ![p] = "write"] /\ nth' = [nth EXCEPT ![p] = @ + 1]
           /\ upto' = [upto EXCEPT ![p] = 0] /\ copy' = [copy EXCEPT ![p] = <<>>]
        \/ /\ place' = [place EXCEPT ![p] = "rest"] /\ nth' = nth /\ copy' = copy
           /\ \E k \in 1..Body(p, hand[p]).size :
                upto' = [upto EXCEPT ![p] = k] /\ k # Body(p, hand[p]).size
    BY DEF Write, WriteRest, NextTarget, Goto
  <2>6. mutex' \in Pumps \cup {"none"}
    BY <1>3, <2>1 DEF Appending
  <2>7. Body(p, hand[p]).size \in Nat
    BY <2>2, WriterFacts
  <2>8. CASE /\ place' = [place EXCEPT ![p] = "write"] /\ nth' = [nth EXCEPT ![p] = @ + 1]
             /\ upto' = [upto EXCEPT ![p] = 0] /\ copy' = [copy EXCEPT ![p] = <<>>]
    <3>1. place' \in [Pumps -> Places] /\ nth' \in [Pumps -> 1..3] /\ upto' \in [Pumps -> Nat]
      BY <2>1, <2>4, <2>8 DEF Places
    <3>2. /\ place'[p] = "write" /\ nth'[p] = nth[p] + 1
          /\ \A r \in Pumps \ {p} : /\ place'[r] = place[r] /\ nth'[r] = nth[r]
                                    /\ upto'[r] = upto[r] /\ copy'[r] = copy[r]
      BY <2>1, <2>8
    <3> QED BY <2>2, <2>3, <2>6, <2>8, <3>1, <3>2 DEF Handling
  <2>9. CASE /\ place' = [place EXCEPT ![p] = "rest"] /\ nth' = nth /\ copy' = copy
             /\ \E k \in 1..Body(p, hand[p]).size :
                  upto' = [upto EXCEPT ![p] = k] /\ k # Body(p, hand[p]).size
    <3>1. PICK k \in 1..Body(p, hand[p]).size :
            upto' = [upto EXCEPT ![p] = k] /\ k # Body(p, hand[p]).size
      BY <2>9
    <3>2. k \in Nat /\ k \in 1..(Body(p, hand[p]).size - 1)
      BY <2>7, <3>1
    <3>3. place' \in [Pumps -> Places] /\ nth' \in [Pumps -> 1..3] /\ upto' \in [Pumps -> Nat]
      BY <2>1, <2>9, <3>1, <3>2 DEF Places
    <3>4. /\ place'[p] = "rest" /\ nth'[p] = nth[p] /\ upto'[p] = k
          /\ \A r \in Pumps \ {p} : /\ place'[r] = place[r] /\ nth'[r] = nth[r]
                                    /\ upto'[r] = upto[r] /\ copy'[r] = copy[r]
      BY <2>1, <2>9, <3>1
    <3> QED BY <2>2, <2>3, <2>6, <2>9, <3>2, <3>3, <3>4 DEF Handling
  <2> QED BY <2>5, <2>8, <2>9
<1> QED BY <1>4, <1>5, HandlingKeeps

LEMMA WriteFailsKeeps ==
  ASSUME IInv, NEW p \in Pumps, WriteFails(p)
  PROVE  IInv'
<1>1. PICK l : l = Target(p)
  OBVIOUS
<1>2. Skipping(p, l) /\ HasTarget(p)
  BY <1>1, WriteFailsSkips DEF Skipping
<1>3. OutInv'
  BY <1>2, SkipKeepsOut
<1>4. Handling(p)
  <2>1. /\ place \in [Pumps -> Places] /\ nth \in [Pumps -> 1..3] /\ upto \in [Pumps -> Nat]
        /\ copy \in [Pumps -> Seq(Cell)] /\ mutex \in Pumps \cup {"none"}
        /\ out \in [Pumps -> Seq([cell: Cell, with: Seq(Cell)])]
    BY DEF IInv, TypeOK
  <2>2. UNCHANGED <<readVars, hand, fds, endVars, out>>
    BY DEF WriteFails
  <2>3. nth[p] + 1 \in 1..3
    <3>1. PICK k \in 0..2 : k = Len(To(p)) /\ nth[p] \in 1..k
      BY <1>2, WriterFacts
    <3> QED BY <3>1
  <2>4. \/ /\ place' = [place EXCEPT ![p] = "write"] /\ nth' = [nth EXCEPT ![p] = @ + 1]
           /\ upto' = [upto EXCEPT ![p] = 0] /\ copy' = [copy EXCEPT ![p] = <<>>]
        \/ /\ place' = [place EXCEPT ![p] = "failed"] /\ nth' = nth /\ copy' = copy
           /\ upto' = [upto EXCEPT ![p] = 0] /\ ~IsCopy(p)
    BY DEF WriteFails, NextTarget, Goto
  <2>5. mutex' \in Pumps \cup {"none"}
    BY <1>2, <2>1 DEF Skipping
  <2>6. CASE /\ place' = [place EXCEPT ![p] = "write"] /\ nth' = [nth EXCEPT ![p] = @ + 1]
             /\ upto' = [upto EXCEPT ![p] = 0] /\ copy' = [copy EXCEPT ![p] = <<>>]
    <3>1. place' \in [Pumps -> Places] /\ nth' \in [Pumps -> 1..3] /\ upto' \in [Pumps -> Nat]
      BY <2>1, <2>3, <2>6 DEF Places
    <3>2. /\ place'[p] = "write" /\ nth'[p] = nth[p] + 1
          /\ \A r \in Pumps \ {p} : /\ place'[r] = place[r] /\ nth'[r] = nth[r]
                                    /\ upto'[r] = upto[r] /\ copy'[r] = copy[r]
      BY <2>1, <2>6
    <3> QED BY <1>2, <2>1, <2>2, <2>5, <2>6, <3>1, <3>2 DEF Handling
  <2>7. CASE /\ place' = [place EXCEPT ![p] = "failed"] /\ nth' = nth /\ copy' = copy
             /\ upto' = [upto EXCEPT ![p] = 0] /\ ~IsCopy(p)
    <3>1. place' \in [Pumps -> Places] /\ nth' \in [Pumps -> 1..3] /\ upto' \in [Pumps -> Nat]
      BY <2>1, <2>7 DEF Places
    <3>2. /\ place'[p] = "failed" /\ nth'[p] = nth[p]
          /\ \A r \in Pumps \ {p} : /\ place'[r] = place[r] /\ nth'[r] = nth[r]
                                    /\ upto'[r] = upto[r] /\ copy'[r] = copy[r]
      BY <2>1, <2>7
    <3> QED BY <1>2, <2>1, <2>2, <2>5, <2>7, <3>1, <3>2 DEF Handling
  <2> QED BY <2>4, <2>6, <2>7
<1> QED BY <1>3, <1>4, HandlingKeeps
-----------------------------------------------------------------------------
(* The invariants. *)

LEMMA InitIInv == Init => IInv
<1> SUFFICES ASSUME Init PROVE IInv
  OBVIOUS
<1>1. <<>> \in Seq(Cell) /\ <<>> \in Seq([cell: Cell, with: Seq(Cell)]) /\ Len(<<>>) = 0
  OBVIOUS
<1>2. ASSUME NEW p \in Pumps PROVE Len(Streams[p]) \in Nat
  <2>1. Streams \in [Pumps -> Seq(Messages)]
    BY WireAssumption
  <2> HIDE DEF Messages
  <2>2. PICK q \in Seq(Messages) : q = Streams[p]
    BY <2>1
  <2> QED BY <2>2
<1>3. MaxFaults \in Nat
  BY WireAssumption
<1>4. ASSUME NEW p \in Pumps
      PROVE  Stream(p) = <<>> /\ Carriers(buf[p]) = {} /\ Carriers(wire[p]) = {}
  <2>1. buf[p] = <<>> /\ wire[p] = <<>>
    BY DEF Init
  <2>2. Carriers(<<>>) = {} /\ <<>> \o <<>> = <<>>
    BY DEF Carriers
  <2> QED BY <2>1, <2>2 DEF Stream
<1>5. ASSUME NEW p \in Pumps PROVE Items(copy[p]) \subseteq Items(fds[p])
  <2>1. copy[p] = <<>> /\ fds[p] = <<>>
    BY DEF Init
  <2> QED BY <2>1
<1>6. TypeOK
  <2> HIDE DEF Cell
  <2>1. place \in [Pumps -> Places] /\ mutex \in Pumps \cup {"none"}
    BY DEF Init, Places
  <2>2. /\ next \in [Pumps -> Nat] /\ hand \in [Pumps -> Nat] /\ nth \in [Pumps -> 1..3]
        /\ upto \in [Pumps -> Nat]
    BY DEF Init
  <2>3. ASSUME NEW p \in Pumps PROVE hand[p] < next[p] /\ next[p] <= Len(Streams[p]) + 1
    <3>1. hand[p] = 0 /\ next[p] = 1
      BY DEF Init
    <3> QED BY <1>2, <3>1
  <2>4. /\ wire \in [Pumps -> Seq(Cell)] /\ buf \in [Pumps -> Seq(Cell)]
        /\ pending \in [Pumps -> Seq(Cell)] /\ fds \in [Pumps -> Seq(Cell)]
        /\ copy \in [Pumps -> Seq(Cell)] /\ out \in [Pumps -> Seq([cell: Cell, with: Seq(Cell)])]
    <3> DEFINE R == [cell: Cell, with: Seq(Cell)]
    <3>1. <<>> \in Seq(R)
      BY <1>1
    <3> HIDE DEF R
    <3>2. out \in [Pumps -> Seq(R)]
      BY <3>1 DEF Init
    <3> QED BY <1>1, <3>2 DEF Init, R
  <2>5. lost \subseteq Pumps /\ closed \in BOOLEAN /\ faults \in 0..MaxFaults
    <3>1. lost = {} /\ closed = FALSE /\ faults = 0
      BY DEF Init
    <3>2. 0 \in 0..MaxFaults
      BY <1>3
    <3> QED BY <3>1, <3>2, Zenon
  <2> QED BY <1>5, <2>1, <2>2, <2>3, <2>4, <2>5 DEF TypeOK
<1>7. StartOK
  <2>1. "client" \in Pumps /\ Carriers(wire["client"]) = {} /\ buf["client"] = <<>>
    BY <1>4 DEF Init, Pumps
  <2>2. \A p \in Pumps \ {"client"} : place[p] = "none"
    BY DEF Init
  <2>3. \A p \in Pumps : hand[p] = 0 /\ pending[p] = <<>>
    BY DEF Init
  <2> QED BY <1>4, <2>1, <2>2, <2>3 DEF StartOK
<1>8. ASSUME NEW p \in Pumps
      PROVE  StreamOK(p) /\ PendingOK(p) /\ HandOK(p) /\ RestOK(p)
  <2>1. StreamOK(p)
    BY <1>1, <1>4 DEF StreamOK, Init
  <2>2. PendingOK(p)
    BY <1>4 DEF PendingOK, Init
  <2>3. HandOK(p) /\ RestOK(p)
    BY DEF HandOK, RestOK, Working, Init
  <2> QED BY <2>1, <2>2, <2>3
<1>9. ASSUME NEW l \in Pumps PROVE LastOK(l) /\ OutOK(l) /\ HasOK(l)
  <2>1. LastOK(l)
    BY DEF LastOK, Init
  <2>2. OutOK(l)
    BY <1>1 DEF OutOK, Init
  <2>3. HasOK(l)
    BY DEF HasOK, Init
  <2> QED BY <2>1, <2>2, <2>3
<1> QED BY <1>6, <1>7, <1>8, <1>9 DEF IInv, WireInv

LEMMA NextKeeps == IInv /\ [Next]_vars => IInv'
<1> SUFFICES ASSUME IInv, [Next]_vars PROVE IInv'
  OBVIOUS
<1>1. CASE Handshake
  BY <1>1, HandshakeKeeps
<1>2. CASE CloseReaders
  BY <1>2, CloseReadersKeeps
<1>3. CASE Rest \/ UNCHANGED vars
  BY <1>3, StutterKeeps DEF Rest
<1>4. ASSUME NEW p \in Pumps, Send(p) \/ Lose(p) PROVE IInv'
  BY <1>4, SendKeeps, LoseKeeps
<1>5. ASSUME NEW p \in Pumps, Read(p) PROVE IInv'
  <2>1. CASE ReadMore(p)
    BY <2>1, ReadMoreKeeps
  <2>2. CASE ReadFails(p)
    BY <2>2, LoopEnds DEF ReadFails, Hungry
  <2>3. CASE BadHeader(p)
    BY <2>3, LoopEnds DEF BadHeader
  <2>4. CASE TakeFDs(p)
    BY <2>4, TakeFDsKeeps
  <2> QED BY <1>5, <2>1, <2>2, <2>3, <2>4 DEF Read
<1>6. ASSUME NEW p \in Pumps, Relay(p) PROVE IInv'
  BY <1>6, LockKeeps, CopyFDsKeeps, WriteKeeps, WriteFailsKeeps, CloseFDsKeeps DEF Relay
<1> QED BY <1>1, <1>2, <1>3, <1>4, <1>5, <1>6 DEF Next

LEMMA SpecIInv == Spec => []IInv
<1>1. Init => IInv
  BY InitIInv
<1>2. IInv /\ [Next]_vars => IInv'
  BY NextKeeps
<1> QED BY <1>1, <1>2, PTL DEF Spec

\* Every variable has its type: in particular no pump goes past the messages of its
\* stream, a copy holds descriptors of its own message only, and clientWriteMu has at
\* most one holder.
THEOREM WireTypes == Spec => []TypeOK
<1>1. IInv => TypeOK
  BY DEF IInv
<1> QED BY <1>1, SpecIInv, PTL

\* Only Write and WriteRest put cells on a connection, and faults are never forgotten.
LEMMA OnlyWrites ==
  ASSUME IInv, [Next]_vars
  PROVE  \/ out' = out /\ faults <= faults'
         \/ faults' = faults /\ \E p \in Pumps : Write(p) \/ WriteRest(p)
<1>1. faults \in Nat
  BY TypeAt DEF IInv, Pumps
<1>2. CASE Handshake \/ CloseReaders \/ Rest \/ UNCHANGED vars
  BY <1>1, <1>2 DEF Handshake, CloseReaders, Rest, vars, writeVars, endVars
<1>3. ASSUME NEW p \in Pumps, Send(p) \/ Lose(p) \/ Read(p)
      PROVE  out' = out /\ faults <= faults'
  <2>1. CASE Send(p)
    BY <1>1, <2>1 DEF Send, writeVars, endVars
  <2>2. CASE Lose(p)
    BY <1>1, <2>2 DEF Lose, writeVars
  <2>3. CASE ReadMore(p)
    BY <1>1, <2>3 DEF ReadMore, writeVars, endVars
  <2>4. CASE ReadFails(p) \/ BadHeader(p)
    BY <1>1, <2>4 DEF ReadFails, BadHeader, writeVars
  <2>5. CASE TakeFDs(p)
    BY <1>1, <2>5 DEF TakeFDs, CutMessage, writeVars, endVars
  <2> QED BY <1>3, <2>1, <2>2, <2>3, <2>4, <2>5 DEF Read
<1>4. ASSUME NEW p \in Pumps, Relay(p), ~Write(p), ~WriteRest(p)
      PROVE  out' = out /\ faults <= faults'
  BY <1>1, <1>4 DEF Relay, Lock, CopyFDs, WriteFails, CloseFDs, writeVars, endVars
<1>5. ASSUME NEW p \in Pumps, Write(p) \/ WriteRest(p)
      PROVE  faults' = faults
  BY <1>5 DEF Write, WriteRest, endVars
<1> QED BY <1>2, <1>3, <1>4, <1>5 DEF Next
\* A message goes out with its own descriptors, on its first byte, however the bytes
\* arrived: ReadMessage attaches the oldest pending ones, and WriteMessage sends them
\* with the first write; writeHostCopy alone may go without, when CopyFDs failed.
THEOREM WireKeepsDescriptors == Spec => []KeepsDescriptors
<1>1. Init => KeepsDescriptors
  <2> SUFFICES ASSUME Init PROVE KeepsDescriptors
    OBVIOUS
  <2>1. \A l \in Pumps : out[l] = <<>>
    BY DEF Init
  <2> QED BY <2>1 DEF KeepsDescriptors
<1>2. IInv /\ KeepsDescriptors /\ [Next]_vars => KeepsDescriptors'
  <2> SUFFICES ASSUME IInv, KeepsDescriptors, [Next]_vars PROVE KeepsDescriptors'
    OBVIOUS
  <2> DEFINE Kept(l, c, f) == \/ c.with = Carried(c.cell)
                              \/ /\ c.with = <<>> /\ f > 0
                                 /\ l = "host" /\ Body("client", c.cell[2]).to = <<"host", "cont">>
  <2>1. \A l \in Pumps : \A k \in 1..Len(out[l]) : Kept(l, out[l][k], faults)
    BY DEF KeepsDescriptors
  <2>2. PICK was \in Nat : was = faults
    BY TypeAt DEF IInv, Pumps
  <2>3. PICK is \in Nat : is = faults'
    <3>1. TypeOK'
      BY NextKeeps DEF IInv
    <3>2. faults' \in 0..MaxFaults /\ MaxFaults \in Nat
      BY <3>1, WireAssumption DEF TypeOK
    <3> QED BY <3>2
  <2>4. was <= is
    BY <2>2, <2>3, OnlyWrites
  <2>5. \A l, c : Kept(l, c, was) => Kept(l, c, is)
    BY <2>4
  <2>6. CASE out' = out
    BY <2>1, <2>2, <2>3, <2>5, <2>6 DEF KeepsDescriptors
  <2>7. CASE out' # out
    <3>1. PICK p \in Pumps : Write(p) \/ WriteRest(p)
      BY <2>7, OnlyWrites
    <3>2. PICK l, h : l = Target(p) /\ h = hand[p]
      OBVIOUS
    <3>3. PICK f \in Nat, n \in Nat : Appending(p, l, h, f, n)
      BY <3>1, <3>2, WriteAppends
    <3>4. PICK L : L = Len(out[l])
      OBVIOUS
    <3>5. /\ l \in Pumps /\ L \in Nat /\ Len(out'[l]) = L + n
          /\ \A k \in 1..L : out'[l][k] = out[l][k]
          /\ \A j \in 1..n : out'[l][L + j] = NewCell(p, f, j)
          /\ \A m \in Pumps \ {l} : out'[m] = out[m]
      BY <3>3, <3>4, NewRecords
    <3>6. HandOK(p) /\ HasTarget(p) /\ f >= 1
      BY <3>3 DEF IInv, WireInv, Appending
    <3>7. ASSUME NEW j \in 1..n, NEW c, c = NewCell(p, f, j) PROVE Kept(l, c, is)
      <4>1. c.cell = <<p, h, f + j - 1>> /\ c.with = IF f + j = 2 THEN Attached(p) ELSE <<>>
        BY <3>2, <3>7 DEF NewCell
      <4>2. c.cell[1] = p /\ c.cell[2] = h /\ c.cell[3] = f + j - 1
        BY <4>1
      <4>3. CASE f + j # 2
        <5>1. f + j - 1 # 1
          BY <4>3
        <5> QED BY <4>1, <4>2, <4>3, <5>1 DEF Carried
      <4>4. CASE f + j = 2
        <5>1. f = 1 /\ f + j - 1 = 1
          BY <3>6, <4>4
        <5>2. Carried(c.cell) = Fd(p, h)
          BY <4>2, <5>1 DEF Carried
        <5>3. fds[p] = Fd(p, h)
          BY <3>2, <3>6 DEF HandOK, HasTarget
        <5>4. CASE Attached(p) = fds[p]
          BY <4>1, <4>4, <5>2, <5>3, <5>4
        <5>5. CASE Attached(p) # fds[p]
          <6>1. IsCopy(p) /\ Attached(p) = <<>> /\ copy[p] = <<>> /\ fds[p] # <<>>
            BY <3>6, <5>5 DEF Attached, HandOK
          <6>2. place[p] = "copied"
            BY <3>3, <5>1, <6>1 DEF Appending
          <6>3. is > 0
            BY <2>2, <2>3, <2>4, <3>6, <6>1, <6>2 DEF HandOK
          <6>4. p = "client" /\ To(p) = <<"host", "cont">> /\ l = "host"
            BY <3>2, <3>6, <6>1, WriterFacts
          <6> QED BY <3>2, <4>1, <4>2, <4>4, <6>1, <6>3, <6>4 DEF To
        <5> QED BY <5>4, <5>5
      <4> QED BY <4>3, <4>4
    <3> HIDE DEF Kept
    <3>8. ASSUME NEW m \in Pumps, NEW k \in 1..Len(out'[m]) PROVE Kept(m, out'[m][k], is)
      <4>1. CASE m # l
        BY <2>1, <2>2, <2>5, <3>5, <3>8, <4>1
      <4>2. CASE m = l /\ k \in 1..L
        BY <2>1, <2>2, <2>5, <3>4, <3>5, <4>2
      <4>3. CASE m = l /\ k \notin 1..L
        <5>1. k \in 1..(L + n)
          BY <3>5, <3>8, <4>3
        <5>2. k - L \in 1..n /\ k = L + (k - L)
          BY <3>5, <4>3, <5>1
        <5>3. PICK j \in 1..n : k = L + j
          BY <5>2
        <5> QED BY <3>5, <3>7, <4>3, <5>3
      <4> QED BY <4>1, <4>2, <4>3
    <3> QED BY <2>3, <3>8 DEF KeepsDescriptors, Kept
  <2> QED BY <2>6, <2>7
<1> QED BY <1>1, <1>2, SpecIInv, PTL DEF Spec

\* The streams stay framed: what a WriteMessage began no other goroutine interrupts,
\* because the mutex or the absence of other writers keeps the connection for it between
\* the two writes, and a write that fails is the last on its connection.
THEOREM WireStreamsWhole == Spec => []StreamsWhole
<1>1. Init => StreamsWhole
  <2> SUFFICES ASSUME Init PROVE StreamsWhole
    OBVIOUS
  <2>1. \A l \in Pumps : out[l] = <<>>
    BY DEF Init
  <2> QED BY <2>1 DEF StreamsWhole
<1>2. IInv /\ StreamsWhole /\ [Next]_vars => StreamsWhole'
  <2> SUFFICES ASSUME IInv, StreamsWhole, [Next]_vars, ~(out' = out) PROVE StreamsWhole'
    BY DEF StreamsWhole
  <2>1. PICK p \in Pumps : Write(p) \/ WriteRest(p)
    BY OnlyWrites
  <2>2. PICK l, h : l = Target(p) /\ h = hand[p]
    OBVIOUS
  <2>3. PICK f \in Nat, n \in Nat : Appending(p, l, h, f, n)
    BY <2>1, <2>2, WriteAppends
  <2>4. PICK L : L = Len(out[l])
    OBVIOUS
  <2>5. /\ l \in Pumps /\ L \in Nat /\ Len(out'[l]) = L + n
        /\ \A k \in 1..L : out'[l][k] = out[l][k]
        /\ \A j \in 1..n : out'[l][L + j].cell = <<p, h, f + j - 1>>
        /\ \A m \in Pumps \ {l} : out'[m] = out[m]
    <3>1. /\ l \in Pumps /\ Len(out[l]) \in Nat /\ Len(out'[l]) = Len(out[l]) + n
          /\ \A k \in 1..Len(out[l]) : out'[l][k] = out[l][k]
          /\ \A j \in 1..n : out'[l][Len(out[l]) + j].cell = <<p, h, f + j - 1>>
          /\ \A m \in Pumps \ {l} : out'[m] = out[m]
      BY <2>3, NewCells
    <3> QED BY <2>4, <3>1
  <2>6. /\ HasTarget(p) /\ MayWrite(p) /\ l \notin lost /\ ~closed /\ f >= 1
        /\ (f # 1 => place[p] = "rest" /\ f = upto[p] + 1)
        /\ (place[p] = "rest" => f = upto[p] + 1)
        /\ RestOK(p) /\ LastOK(l) /\ upto[p] \in Nat
    BY <2>3, <2>5, TypeAt DEF IInv, WireInv, Appending
  <2>7. f # 1 => L >= 1 /\ out[l][L].cell = <<p, h, f - 1>>
    <3> SUFFICES ASSUME f # 1 PROVE L >= 1 /\ out[l][L].cell = <<p, h, f - 1>>
      OBVIOUS
    <3>1. out[l] # <<>> /\ Last(out[l]).cell = <<p, h, upto[p]>>
      BY <2>2, <2>6 DEF RestOK
    <3>2. out[l] \in Seq([cell: Cell, with: Seq(Cell)])
      BY <2>5, OutAt DEF IInv
    <3>3. L # 0
      BY <2>4, <3>1, <3>2
    <3>4. upto[p] = f - 1
      BY <2>6
    <3> QED BY <2>4, <2>5, <3>1, <3>3, <3>4 DEF Last
  <2>8. L >= 1 => \/ out[l][L].cell[3] = Body(out[l][L].cell[1], out[l][L].cell[2]).size
                  \/ out[l][L].cell = <<p, h, f - 1>>
    <3> SUFFICES ASSUME L >= 1
                 PROVE  \/ out[l][L].cell[3] = Body(out[l][L].cell[1], out[l][L].cell[2]).size
                        \/ out[l][L].cell = <<p, h, f - 1>>
      OBVIOUS
    <3>1. out[l] # <<>>
      BY <2>4
    <3>2. CASE \E q \in Pumps : place[q] = "rest" /\ Target(q) = l
      <4>1. place[p] = "rest"
        BY <2>2, <2>6, <3>2, OneWriter
      <4>2. Last(out[l]).cell = <<p, h, upto[p]>>
        BY <2>2, <2>6, <4>1 DEF RestOK
      <4>3. upto[p] = f - 1
        BY <2>6, <4>1
      <4> QED BY <2>4, <4>2, <4>3 DEF Last
    <3> QED BY <2>4, <2>6, <3>1, <3>2 DEF LastOK, Last
  <2> DEFINE Whole1(c, k, d) == c[3] > 1 => k > 1 /\ d = <<c[1], c[2], c[3] - 1>>
             Whole2(c, d) == c[3] < Body(c[1], c[2]).size => d = <<c[1], c[2], c[3] + 1>>
  <2>9. \A m \in Pumps : \A k \in 1..Len(out[m]) :
           /\ Whole1(out[m][k].cell, k, out[m][k - 1].cell)
           /\ k < Len(out[m]) => Whole2(out[m][k].cell, out[m][k + 1].cell)
    BY DEF StreamsWhole
  <2>10. ASSUME NEW k \in 1..L
         PROVE  /\ Whole1(out'[l][k].cell, k, out'[l][k - 1].cell)
                /\ k < L + n => Whole2(out'[l][k].cell, out'[l][k + 1].cell)
    <3>1. Whole1(out[l][k].cell, k, out[l][k - 1].cell) /\ out'[l][k] = out[l][k]
      BY <2>4, <2>5, <2>9
    <3>2. k > 1 => out'[l][k - 1] = out[l][k - 1]
      <4>1. k > 1 => k - 1 \in 1..L
        BY <2>5
      <4> QED BY <2>5, <4>1
    <3>3. CASE k < L
      <4>1. k + 1 \in 1..L
        BY <2>5, <3>3
      <4>2. Whole2(out[l][k].cell, out[l][k + 1].cell) /\ out'[l][k + 1] = out[l][k + 1]
        BY <2>4, <2>5, <2>9, <3>3, <4>1
      <4> QED BY <3>1, <3>2, <4>2
    <3>4. CASE k = L /\ n >= 1
      <4>1. 1 \in 1..n /\ f + 1 - 1 = f
        BY <3>4
      <4>2. out'[l][k + 1].cell = <<p, h, f>>
        BY <2>5, <3>4, <4>1
      <4>3. CASE out[l][L].cell = <<p, h, f - 1>>
        BY <2>6, <3>1, <3>2, <3>4, <4>2, <4>3
      <4>4. CASE out[l][L].cell[3] = Body(out[l][L].cell[1], out[l][L].cell[2]).size
        <5>1. PICK o \in Seq([cell: Cell, with: Seq(Cell)]) : o = out[l]
          BY <2>5, OutAt DEF IInv
        <5>2. PICK c \in Cell : c = out[l][L].cell
          <6>1. L \in 1..Len(o)
            BY <2>4, <3>4, <5>1
          <6>2. o[L] \in [cell: Cell, with: Seq(Cell)]
            <7> DEFINE R == [cell: Cell, with: Seq(Cell)]
            <7>1. o \in Seq(R)
              OBVIOUS
            <7> HIDE DEF R
            <7>2. o[L] \in R
              BY <6>1, <7>1
            <7> QED BY <7>2 DEF R
          <6> QED BY <5>1, <6>2
        <5>3. c[3] \in Nat
          BY DEF Cell
        <5>4. ~(out[l][L].cell[3] < Body(out[l][L].cell[1], out[l][L].cell[2]).size)
          BY <4>4, <5>2, <5>3
        <5>5. Whole2(out'[l][k].cell, out'[l][k + 1].cell)
          <6>1. out'[l][k].cell = out[l][L].cell
            BY <3>1, <3>4
          <6> QED BY <5>4, <6>1
        <5>6. Whole1(out'[l][k].cell, k, out'[l][k - 1].cell)
          BY <3>1, <3>2
        <5> HIDE DEF Whole1, Whole2
        <5> QED BY <5>5, <5>6
      <4> QED BY <2>5, <2>8, <3>4, <4>3, <4>4
    <3>5. k < L \/ (k = L /\ n >= 1) \/ ~(k < L + n)
      BY <2>5
    <3> QED BY <3>1, <3>2, <3>3, <3>4, <3>5
  <2>11. ASSUME NEW j \in 1..n, NEW k, k = L + j
         PROVE  /\ Whole1(out'[l][k].cell, k, out'[l][k - 1].cell)
                /\ k < L + n => Whole2(out'[l][k].cell, out'[l][k + 1].cell)
    <3>1. out'[l][k].cell = <<p, h, f + j - 1>>
      BY <2>5, <2>11
    <3>2. k \in Nat /\ k >= 1
      BY <2>5, <2>11
    <3>3. ASSUME j = 1 PROVE Whole1(out'[l][k].cell, k, out'[l][k - 1].cell)
      <4>1. f + j - 1 = f /\ k - 1 = L
        BY <2>5, <2>11, <3>3
      <4>2. f > 1 => k > 1 /\ out'[l][k - 1].cell = <<p, h, f - 1>>
        <5> SUFFICES ASSUME f > 1 PROVE k > 1 /\ out'[l][k - 1].cell = <<p, h, f - 1>>
          OBVIOUS
        <5>1. L >= 1 /\ out[l][L].cell = <<p, h, f - 1>> /\ L \in 1..L
          BY <2>5, <2>7
        <5>2. out'[l][k - 1] = out[l][L] /\ k > 1
          BY <2>5, <2>11, <3>3, <4>1, <5>1
        <5> QED BY <5>1, <5>2
      <4> QED BY <3>1, <4>1, <4>2
    <3>4. ASSUME j # 1 PROVE Whole1(out'[l][k].cell, k, out'[l][k - 1].cell)
      <4>1. j - 1 \in 1..n /\ k - 1 = L + (j - 1) /\ k > 1 /\ f + (j - 1) - 1 = (f + j - 1) - 1
        BY <2>5, <2>11, <3>4
      <4>2. out'[l][k - 1].cell = <<p, h, f + (j - 1) - 1>>
        BY <2>5, <4>1
      <4> QED BY <3>1, <4>1, <4>2
    <3>5. k < L + n => Whole2(out'[l][k].cell, out'[l][k + 1].cell)
      <4> SUFFICES ASSUME k < L + n PROVE out'[l][k + 1].cell = <<p, h, (f + j - 1) + 1>>
        BY <3>1
      <4>1. j + 1 \in 1..n /\ k + 1 = L + (j + 1) /\ f + (j + 1) - 1 = (f + j - 1) + 1
        BY <2>5, <2>11
      <4>2. out'[l][k + 1].cell = <<p, h, f + (j + 1) - 1>>
        BY <2>5, <4>1
      <4> QED BY <4>1, <4>2
    <3>6. Whole1(out'[l][k].cell, k, out'[l][k - 1].cell)
      BY <3>3, <3>4
    <3> QED BY <3>5, <3>6
  <2> HIDE DEF Whole1, Whole2
  <2>12. ASSUME NEW m \in Pumps, NEW k \in 1..Len(out'[m])
         PROVE  /\ Whole1(out'[m][k].cell, k, out'[m][k - 1].cell)
                /\ k < Len(out'[m]) => Whole2(out'[m][k].cell, out'[m][k + 1].cell)
    <3>1. CASE m # l
      BY <2>5, <2>9, <2>12, <3>1
    <3>2. CASE m = l /\ k \in 1..L
      BY <2>5, <2>10, <3>2
    <3>3. CASE m = l /\ k \notin 1..L
      <4>1. k \in 1..(L + n)
        BY <2>5, <2>12, <3>3
      <4>2. k - L \in 1..n /\ k = L + (k - L)
        BY <2>5, <3>3, <4>1
      <4>3. PICK j \in 1..n : k = L + j
        BY <4>2
      <4> QED BY <2>5, <2>11, <3>3, <4>3
    <3> QED BY <3>1, <3>2, <3>3
  <2> QED BY <2>12 DEF StreamsWhole, Whole1, Whole2
<1> QED BY <1>1, <1>2, SpecIInv, PTL DEF Spec
\* Each connection gets the cells of a pump in the order they were sent, none twice and
\* none left out: ReadMessage takes them off the buffer in order, each loop handles one
\* message at a time, and a copy is written before the original.
THEOREM WireInOrder == Spec => []InOrder
<1>1. Init => InOrder
  <2> SUFFICES ASSUME Init PROVE InOrder
    OBVIOUS
  <2>1. \A l \in Pumps : out[l] = <<>>
    BY DEF Init
  <2> QED BY <2>1 DEF InOrder
<1>2. IInv /\ InOrder /\ [Next]_vars => InOrder'
  <2> SUFFICES ASSUME IInv, InOrder, [Next]_vars, ~(out' = out) PROVE InOrder'
    <3> DEFINE P(o) ==
          \A l \in Pumps : \A k \in 1..Len(o[l]) :
            LET c == o[l][k].cell IN
            /\ \A m \in 1..(k - 1) : o[l][m].cell[1] = c[1] => Before(o[l][m].cell, c)
            /\ \A i \in 1..c[2] : \A j \in 1..Body(c[1], i).size :
                 l \in Items(Body(c[1], i).to) /\ Before(<<c[1], i, j>>, c)
                   => \E m \in 1..(k - 1) : o[l][m].cell = <<c[1], i, j>>
    <3>1. InOrder <=> P(out)
      BY DEF InOrder
    <3>2. InOrder' <=> P(out')
      BY DEF InOrder, Before
    <3> HIDE DEF P
    <3>3. out' = out => (P(out') <=> P(out))
      OBVIOUS
    <3> QED BY <3>1, <3>2, <3>3
  <2>1. PICK p \in Pumps : Write(p) \/ WriteRest(p)
    BY OnlyWrites
  <2>2. PICK l, h : l = Target(p) /\ h = hand[p]
    OBVIOUS
  <2>3. PICK f \in Nat, n \in Nat : Appending(p, l, h, f, n)
    BY <2>1, <2>2, WriteAppends
  <2>4. PICK L : L = Len(out[l])
    OBVIOUS
  <2>5. /\ l \in Pumps /\ L \in Nat /\ Len(out'[l]) = L + n
        /\ \A k \in 1..L : out'[l][k] = out[l][k]
        /\ \A j \in 1..n : out'[l][L + j].cell = <<p, h, f + j - 1>>
        /\ \A m \in Pumps \ {l} : out'[m] = out[m]
    <3>1. /\ l \in Pumps /\ Len(out[l]) \in Nat /\ Len(out'[l]) = Len(out[l]) + n
          /\ \A k \in 1..Len(out[l]) : out'[l][k] = out[l][k]
          /\ \A j \in 1..n : out'[l][Len(out[l]) + j].cell = <<p, h, f + j - 1>>
          /\ \A m \in Pumps \ {l} : out'[m] = out[m]
      BY <2>3, NewCells
    <3> QED BY <2>4, <3>1
  <2>6. /\ HasTarget(p) /\ l \notin lost /\ ~closed /\ f >= 1
        /\ (f # 1 => place[p] = "rest" /\ f = upto[p] + 1)
        /\ (place[p] = "rest" => f = upto[p] + 1)
        /\ OutOK(l) /\ HasOK(l) /\ TypeOK /\ upto[p] \in Nat
    BY <2>3, <2>5, TypeAt DEF IInv, WireInv, Appending
  <2>7. h \in Nat /\ ~Passed(p, h, l)
    BY <2>2, <2>6, WriterFacts DEF Passed
  <2> DEFINE Old(m, c, k) == \A i \in 1..(k - 1) :
                               out[m][i].cell[1] = c[1] => Before(out[m][i].cell, c)
             New(m, c, k) == \A i \in 1..(k - 1) :
                               out'[m][i].cell[1] = c[1] => Before(out'[m][i].cell, c)
             All(m, c, k) == \A i \in 1..c[2] : \A j \in 1..Body(c[1], i).size :
                               m \in Items(Body(c[1], i).to) /\ Before(<<c[1], i, j>>, c)
                                 => \E e \in 1..(k - 1) : out[m][e].cell = <<c[1], i, j>>
             AllNew(m, c, k) == \A i \in 1..c[2] : \A j \in 1..Body(c[1], i).size :
                               m \in Items(Body(c[1], i).to) /\ Before(<<c[1], i, j>>, c)
                                 => \E e \in 1..(k - 1) : out'[m][e].cell = <<c[1], i, j>>
  <2>8. \A m \in Pumps : \A k \in 1..Len(out[m]) :
          Old(m, out[m][k].cell, k) /\ All(m, out[m][k].cell, k)
    BY DEF InOrder
  <2>9. ASSUME NEW j \in 1..n, NEW k, k = L + j, NEW c, c = <<p, h, f + j - 1>>
        PROVE  New(l, c, k) /\ AllNew(l, c, k)
    <3>1. c[1] = p /\ c[2] = h /\ c[3] = f + j - 1
      BY <2>9
    <3>2. ASSUME NEW i \in 1..(k - 1), out'[l][i].cell[1] = p
          PROVE  Before(out'[l][i].cell, c)
      <4>1. CASE i \in 1..L
        <5>1. PICK d : d = out[l][i].cell
          OBVIOUS
        <5>2. d[1] = p /\ out'[l][i].cell = d
          BY <2>5, <3>2, <4>1, <5>1
        <5>3. /\ d[2] \in 1..h /\ d[3] \in 1..Body(p, d[2]).size
              /\ Passed(p, d[2], l) \/ (place[p] = "rest" /\ d[3] <= upto[p])
          BY <2>2, <2>4, <2>6, <4>1, <5>1, <5>2 DEF OutOK
        <5>4. CASE d[2] = h
          <6>1. place[p] = "rest" /\ d[3] <= upto[p] /\ f = upto[p] + 1
            BY <2>6, <2>7, <5>3, <5>4
          <6>2. Body(p, h).size \in Nat
            BY <2>2, <2>6, WriterFacts
          <6>3. d[3] \in Nat
            BY <5>3, <5>4, <6>2
          <6>4. d[3] < f + j - 1
            BY <2>6, <6>1, <6>3
          <6> QED BY <3>1, <5>2, <5>4, <6>4 DEF Before
        <5>5. CASE d[2] # h
          <6>1. d[2] < h
            BY <2>7, <5>3, <5>5
          <6> QED BY <3>1, <5>2, <6>1 DEF Before
        <5> QED BY <5>4, <5>5
      <4>2. CASE i \notin 1..L
        <5>1. i \in Nat /\ i >= 1 /\ i <= L + j - 1
          BY <2>5, <2>9
        <5>2. i - L \in 1..n /\ i = L + (i - L) /\ i - L < j
          BY <2>5, <4>2, <5>1
        <5>3. PICK e \in 1..n : i = L + e /\ e < j
          BY <5>2
        <5>4. out'[l][i].cell = <<p, h, f + e - 1>>
          BY <2>5, <5>3
        <5>5. f + e - 1 < f + j - 1
          BY <5>3
        <5> QED BY <3>1, <5>4, <5>5 DEF Before
      <4> QED BY <4>1, <4>2
    <3>3. ASSUME NEW i \in 1..h, NEW g \in 1..Body(p, i).size,
                 l \in Items(Body(p, i).to), Before(<<p, i, g>>, c)
          PROVE  \E e \in 1..(k - 1) : out'[l][e].cell = <<p, i, g>>
      <4>1. ASSUME Has(l, <<p, i, g>>) PROVE \E e \in 1..(k - 1) : out'[l][e].cell = <<p, i, g>>
        <5>1. PICK e \in 1..L : out[l][e].cell = <<p, i, g>>
          BY <2>4, <4>1 DEF Has
        <5>2. e \in 1..(k - 1) /\ out'[l][e] = out[l][e]
          BY <2>5, <2>9, <5>1
        <5> QED BY <5>1, <5>2
      <4>2. CASE i # h
        <5>1. Passed(p, i, l)
          BY <2>2, <2>7, <3>3, <4>2 DEF Passed
        <5>2. Has(l, <<p, i, g>>)
          BY <2>2, <2>6, <3>3, <5>1 DEF HasOK
        <5> QED BY <4>1, <5>2
      <4>3. CASE i = h
        <5>1. g < f + j - 1 /\ g \in Nat /\ g >= 1
          <6>1. Body(p, h).size \in Nat
            BY <2>2, <2>6, WriterFacts
          <6>2. g \in Nat /\ g >= 1
            BY <3>3, <4>3, <6>1
          <6>3. g < c[3]
            BY <2>7, <3>1, <3>3, <4>3 DEF Before
          <6> QED BY <3>1, <6>2, <6>3
        <5>2. CASE g < f
          <6>1. place[p] = "rest" /\ f = upto[p] + 1 /\ g \in 1..upto[p]
            BY <2>6, <5>1, <5>2
          <6>2. Has(l, <<p, h, g>>)
            BY <2>2, <2>6, <6>1 DEF HasOK
          <6> QED BY <4>1, <4>3, <6>2
        <5>3. CASE g >= f
          <6>1. g - f + 1 \in 1..n /\ f + (g - f + 1) - 1 = g /\ L + (g - f + 1) \in 1..(k - 1)
            BY <2>5, <2>9, <5>1, <5>3
          <6>2. out'[l][L + (g - f + 1)].cell = <<p, h, g>>
            BY <2>5, <6>1
          <6> QED BY <4>3, <6>1, <6>2
        <5> QED BY <5>1, <5>2, <5>3
      <4> QED BY <4>2, <4>3
    <3> QED BY <3>1, <3>2, <3>3
  <2>10. ASSUME NEW k \in 1..L, NEW c, Old(l, c, k), All(l, c, k)
         PROVE  New(l, c, k) /\ AllNew(l, c, k)
    <3>1. \A i \in 1..(k - 1) : out'[l][i] = out[l][i]
      BY <2>5
    <3> QED BY <2>10, <3>1
  <2>11. ASSUME NEW m \in Pumps \ {l}, NEW k, NEW c, Old(m, c, k), All(m, c, k)
         PROVE  New(m, c, k) /\ AllNew(m, c, k)
    BY <2>5, <2>11
  <2> HIDE DEF Old, New, All, AllNew
  <2>12. ASSUME NEW m \in Pumps, NEW k \in 1..Len(out'[m])
         PROVE  New(m, out'[m][k].cell, k) /\ AllNew(m, out'[m][k].cell, k)
    <3>1. CASE m # l
      BY <2>5, <2>8, <2>11, <2>12, <3>1
    <3>2. CASE m = l /\ k \in 1..L
      BY <2>4, <2>5, <2>8, <2>10, <3>2
    <3>3. CASE m = l /\ k \notin 1..L
      <4>1. k \in 1..(L + n)
        BY <2>5, <2>12, <3>3
      <4>2. k - L \in 1..n /\ k = L + (k - L)
        BY <2>5, <3>3, <4>1
      <4>3. PICK j \in 1..n : k = L + j
        BY <4>2
      <4> QED BY <2>5, <2>9, <3>3, <4>3
    <3> QED BY <3>1, <3>2, <3>3
  <2> QED BY <2>12 DEF InOrder, New, AllNew, Before
<1> QED BY <1>1, <1>2, SpecIInv, PTL DEF Spec
-----------------------------------------------------------------------------
(* Descriptors. *)

LEMMA ItemsConcat ==
  ASSUME NEW S, NEW x \in Seq(S), NEW y \in Seq(S)
  PROVE  Items(x \o y) = Items(x) \cup Items(y)
<1>1. /\ Len(x) \in Nat /\ Len(y) \in Nat /\ Len(x \o y) = Len(x) + Len(y)
      /\ \A i \in 1..Len(x) : (x \o y)[i] = x[i]
      /\ \A i \in 1..Len(y) : (x \o y)[Len(x) + i] = y[i]
  BY LenNat, ConcatFacts
<1>2. ASSUME NEW e \in Items(x \o y) PROVE e \in Items(x) \cup Items(y)
  <2>1. PICK k \in 1..(Len(x) + Len(y)) : e = (x \o y)[k]
    BY <1>1, <1>2 DEF Items
  <2>2. CASE k \in 1..Len(x)
    BY <1>1, <2>1, <2>2 DEF Items
  <2>3. CASE k \notin 1..Len(x)
    <3>1. k - Len(x) \in 1..Len(y) /\ k = Len(x) + (k - Len(x))
      BY <1>1, <2>3
    <3>2. PICK j \in 1..Len(y) : k = Len(x) + j
      BY <3>1
    <3> QED BY <1>1, <2>1, <3>2 DEF Items
  <2> QED BY <2>2, <2>3
<1>3. ASSUME NEW e \in Items(x) PROVE e \in Items(x \o y)
  <2>1. PICK k \in 1..Len(x) : e = x[k]
    BY <1>3 DEF Items
  <2>2. k \in 1..Len(x \o y) /\ (x \o y)[k] = e
    BY <1>1, <2>1
  <2> QED BY <2>2 DEF Items
<1>4. ASSUME NEW e \in Items(y) PROVE e \in Items(x \o y)
  <2>1. PICK k \in 1..Len(y) : e = y[k]
    BY <1>4 DEF Items
  <2>2. Len(x) + k \in 1..Len(x \o y) /\ (x \o y)[Len(x) + k] = e
    BY <1>1, <2>1
  <2> QED BY <2>2 DEF Items
<1> QED BY <1>2, <1>3, <1>4

LEMMA ItemsSplit ==
  ASSUME NEW S, NEW x \in Seq(S), NEW n \in 0..Len(x)
  PROVE  Items(Take(x, n)) \cup Items(Drop(x, n)) = Items(x)
<1>1. Take(x, n) \in Seq(S) /\ Drop(x, n) \in Seq(S) /\ <<>> \in Seq(S)
  BY TakeFacts, DropFacts
<1>2. (<<>> \o Take(x, n)) \o Drop(x, n) = <<>> \o x
  BY <1>1, ReadKeepsStream
<1>3. Items(<<>>) = {}
  BY DEF Items
<1>4. <<>> \o Take(x, n) \in Seq(S)
  BY <1>1, ConcatFacts
<1>5. /\ Items((<<>> \o Take(x, n)) \o Drop(x, n))
           = Items(<<>> \o Take(x, n)) \cup Items(Drop(x, n))
      /\ Items(<<>> \o Take(x, n)) = Items(<<>>) \cup Items(Take(x, n))
      /\ Items(<<>> \o x) = Items(<<>>) \cup Items(x)
  BY <1>1, <1>4, ItemsConcat
<1> QED BY <1>2, <1>3, <1>5

\* What a reader still holds belongs to later messages than the one in hand.
LEMMA PendingFacts ==
  ASSUME IInv, NEW p \in Pumps, NEW fd \in Items(pending[p])
  PROVE  fd[1] = p /\ fd[2] \in Nat /\ fd[2] > hand[p]
<1>1. TypeOK /\ StreamOK(p) /\ PendingOK(p)
  BY DEF IInv, WireInv
<1>2. PICK b \in Seq(Cell) : b = buf[p]
  BY <1>1, SeqAt
<1>3. PICK w \in Seq(Cell) : w = wire[p]
  BY <1>1, SeqAt
<1>4. PICK q \in Seq(Cell) : q = b \o w
  BY ConcatFacts
<1>5. /\ Len(q) = Len(b) + Len(w) /\ Len(b) \in Nat /\ Len(w) \in Nat
      /\ \A k \in 1..Len(b) : q[k] = b[k]
  BY <1>4, ConcatFacts, LenNat
<1>6. q = Stream(p)
  BY <1>2, <1>3, <1>4 DEF Stream
<1>7. /\ hand[p] \in Nat /\ next[p] \in Nat /\ next[p] <= Len(Streams[p]) + 1
      /\ Len(Streams[p]) \in Nat
  BY <1>1, TypeAt
<1>8. ASSUME NEW k \in 1..Len(b), fd \in Items(Carried(b[k]))
      PROVE  fd[1] = p /\ fd[2] \in Nat /\ fd[2] > hand[p]
  <2>1. k \in 1..Len(q) /\ 1 \in 1..Len(q) /\ q # <<>>
    BY <1>5
  <2>2. Run(p, q) /\ q[1] = <<p, hand[p] + 1, 1>>
    BY <1>1, <1>6, <2>1 DEF StreamOK, Run
  <2>3. hand[p] + 1 <= b[k][2]
    <3>1. PICK h \in Nat : h = hand[p] + 1
      BY <1>7
    <3>2. h <= q[k][2]
      BY <1>7, <2>1, <2>2, <3>1, RunGoesOn
    <3> QED BY <1>5, <3>1, <3>2
  <2>4. b[k] = <<p, b[k][2], b[k][3]>> /\ b[k][2] \in 1..Len(Streams[p])
    BY <1>5, <1>7, <2>1, <2>2, SentFacts DEF Run
  <2>5. PICK i \in 1..Len(Streams[p]) : i = b[k][2]
    BY <2>4
  <2>6. Carried(b[k]) = Fd(p, i) \/ Carried(b[k]) = <<>>
    BY <2>4, <2>5 DEF Carried
  <2>7. Items(<<>>) = {}
    BY DEF Items
  <2>8. fd \in Items(Fd(p, i))
    BY <1>8, <2>6, <2>7
  <2>9. PICK j \in 1..Body(p, i).fds : fd = <<p, i, j>>
    BY <2>8, FdFacts DEF Items
  <2> QED BY <1>7, <2>3, <2>5, <2>9
<1>9. ASSUME NEW k \in 1..Len(b) PROVE Carried(b[k]) \in Seq(Cell)
  <2>1. k \in 1..Len(q)
    BY <1>5
  <2>2. IsSent(p, b[k])
    BY <1>1, <1>5, <1>6, <2>1 DEF StreamOK
  <2> QED BY <1>1, <2>2, CarriedFacts
<1>10. CASE pending[p] = <<>>
  BY <1>10 DEF Items
<1>11. ASSUME NEW i \in 1..Len(b), pending[p] = Carried(b[i])
       PROVE  fd[1] = p /\ fd[2] \in Nat /\ fd[2] > hand[p]
  BY <1>8, <1>11
<1>12. ASSUME NEW i \in 1..Len(b), NEW j \in 1..Len(b),
              pending[p] = Carried(b[i]) \o Carried(b[j])
       PROVE  fd[1] = p /\ fd[2] \in Nat /\ fd[2] > hand[p]
  <2>1. fd \in Items(Carried(b[i])) \cup Items(Carried(b[j]))
    BY <1>9, <1>12, ItemsConcat
  <2> QED BY <1>8, <2>1
<1> QED BY <1>1, <1>2, <1>10, <1>11, <1>12 DEF PendingOK

LEMMA HandFacts ==
  ASSUME IInv, NEW p \in Pumps, NEW fd \in Items(fds[p])
  PROVE  fd[1] = p /\ fd[2] = hand[p]
<1>1. TypeOK /\ HandOK(p)
  BY DEF IInv, WireInv
<1>2. Items(<<>>) = {}
  BY DEF Items
<1>3. hand[p] > 0 /\ fds[p] = Fd(p, hand[p])
  BY <1>1, <1>2 DEF HandOK
<1>4. PICK i \in 1..Len(Streams[p]) : i = hand[p]
  BY <1>1, <1>3, TypeAt
<1>5. fd \in Items(Fd(p, i))
  BY <1>3, <1>4
<1>6. /\ Len(Fd(p, i)) = Body(p, i).fds
      /\ \A k \in 1..Body(p, i).fds : Fd(p, i)[k] = <<p, i, k>>
  BY FdFacts
<1>7. PICK j \in 1..Body(p, i).fds : fd = <<p, i, j>>
  BY <1>5, <1>6 DEF Items
<1> QED BY <1>4, <1>7

\* FdsOwned, one descriptor at a time.
Mine(p) == Items(pending[p]) \cup Items(fds[p])
Owned == /\ \A x \in open : \E fd : x = <<fd, "own">> \/ x = <<fd, "copy">>
         /\ \A fd : <<fd, "own">> \in open <=> \E p \in Pumps : fd \in Mine(p)
         /\ \A fd : <<fd, "copy">> \in open <=> \E p \in Pumps : fd \in Items(copy[p])

LEMMA OwnedMeans == Owned => FdsOwned
<1> SUFFICES ASSUME Owned PROVE FdsOwned
  OBVIOUS
<1>1. ASSUME NEW x \in open
      PROVE  x \in {<<fd, "own">> : fd \in UNION {Items(pending[p]) \cup Items(fds[p]) : p \in Pumps}}
            \cup {<<fd, "copy">> : fd \in UNION {Items(copy[p]) : p \in Pumps}}
  BY <1>1, Zenon DEF Owned, Mine
<1>2. ASSUME NEW p \in Pumps, NEW fd \in Items(pending[p]) \cup Items(fds[p])
      PROVE  <<fd, "own">> \in open
  BY <1>2 DEF Owned, Mine
<1>3. ASSUME NEW p \in Pumps, NEW fd \in Items(copy[p])
      PROVE  <<fd, "copy">> \in open
  BY <1>3 DEF Owned
<1> QED BY <1>1, <1>2, <1>3, Zenon DEF FdsOwned

\* One pump receives the descriptors a and the copies c, and closes the descriptors b and
\* the copies d, none of which are another pump's.
Moved(p, a, b, c, d) ==
  /\ \A r \in Pumps \ {p} :
       /\ pending'[r] = pending[r] /\ fds'[r] = fds[r] /\ copy'[r] = copy[r]
       /\ \A fd \in Mine(r) : fd \notin b
       /\ \A fd \in Items(copy[r]) : fd \notin d
  /\ Items(pending'[p]) \cup Items(fds'[p]) = (Mine(p) \cup a) \ b
  /\ Items(copy'[p]) = (Items(copy[p]) \cup c) \ d
  /\ \A x : x \in open' <=>
              /\ x \in open \/ (\E fd \in a : x = <<fd, "own">>)
                            \/ (\E fd \in c : x = <<fd, "copy">>)
              /\ \A fd \in b : x # <<fd, "own">>
              /\ \A fd \in d : x # <<fd, "copy">>

LEMMA OwnedStep ==
  ASSUME Owned, NEW p \in Pumps, NEW a, NEW b, NEW c, NEW d, Moved(p, a, b, c, d)
  PROVE  Owned'
<1> USE DEF Moved
<1>1. \A x \in open' : \E fd : x = <<fd, "own">> \/ x = <<fd, "copy">>
  BY DEF Owned
<1>2. \A e, g : <<e, "own">> # <<g, "copy">>
  BY "own" # "copy"
<1>3. ASSUME NEW fd
      PROVE  <<fd, "own">> \in open'
               <=> \E r \in Pumps : fd \in Items(pending'[r]) \cup Items(fds'[r])
  <2>1. <<fd, "own">> \in open' <=> (<<fd, "own">> \in open \/ fd \in a) /\ fd \notin b
    BY <1>2
  <2>2. <<fd, "own">> \in open <=> \E r \in Pumps : fd \in Mine(r)
    BY DEF Owned
  <2>3. \A r \in Pumps \ {p} : Items(pending'[r]) \cup Items(fds'[r]) = Mine(r)
    BY DEF Mine
  <2> QED BY <2>1, <2>2, <2>3
<1>4. ASSUME NEW fd
      PROVE  <<fd, "copy">> \in open' <=> \E r \in Pumps : fd \in Items(copy'[r])
  <2>1. <<fd, "copy">> \in open' <=> (<<fd, "copy">> \in open \/ fd \in c) /\ fd \notin d
    BY <1>2
  <2>2. <<fd, "copy">> \in open <=> \E r \in Pumps : fd \in Items(copy[r])
    BY DEF Owned
  <2>3. \A r \in Pumps \ {p} : Items(copy'[r]) = Items(copy[r])
    OBVIOUS
  <2> QED BY <2>1, <2>2, <2>3
<1> QED BY <1>1, <1>3, <1>4 DEF Owned, Mine

\* Most steps leave the descriptors alone.
LEMMA OwnedSame ==
  ASSUME Owned, UNCHANGED <<pending, fds, copy, open>>
  PROVE  Owned'
BY DEF Owned, Mine
\* A descriptor's first part says whose it is.
LEMMA Home ==
  ASSUME IInv, NEW p \in Pumps
  PROVE  /\ \A fd \in Mine(p) : fd[1] = p
         /\ \A fd \in Items(copy[p]) : fd \in Items(fds[p]) /\ fd[1] = p
<1>1. Items(copy[p]) \subseteq Items(fds[p])
  BY DEF IInv, TypeOK
<1>2. \A fd \in Items(pending[p]) : fd[1] = p
  BY PendingFacts
<1>3. \A fd \in Items(fds[p]) : fd[1] = p
  BY HandFacts
<1> QED BY <1>1, <1>2, <1>3 DEF Mine

LEMMA NewTyped ==
  ASSUME TypeOK, NEW p \in Pumps, StreamOK(p), NEW n \in 1..Len(wire[p]), Reads(p, n)
  PROVE  CarriedBy(Take(wire[p], n)) \in Seq(Cell)
<1>1. PICK w \in Seq(Cell) : w = wire[p]
  BY SeqAt
<1>2. PICK b \in Seq(Cell) : b = buf[p]
  BY SeqAt
<1>3. n \in 0..Len(w) /\ n \in 1..Len(w)
  BY <1>1
<1>4. PICK x \in Seq(Cell) : x = Take(w, n)
  BY <1>3, TakeFacts
<1>5. Len(x) = n /\ \A i \in 1..n : x[i] = w[i]
  BY <1>3, <1>4, TakeFacts
<1>6. \A k \in 1..Len(x) : IsSent(p, x[k])
  <2>1. \A k \in 1..Len(b \o w) : IsSent(p, (b \o w)[k])
    BY <1>1, <1>2 DEF StreamOK, Stream
  <2> SUFFICES ASSUME NEW k \in 1..n PROVE IsSent(p, x[k])
    BY <1>5
  <2>2. k \in 1..Len(w)
    BY <1>3
  <2>3. Len(b) + k \in 1..Len(b \o w) /\ (b \o w)[Len(b) + k] = w[k]
    BY <2>2, ConcatFacts
  <2> QED BY <1>5, <2>1, <2>3
<1>7. \A i, j \in Carriers(x) : i = j
  BY <1>1, <1>4 DEF Reads
<1> QED BY <1>1, <1>4, <1>6, <1>7, NewFacts

LEMMA ReadOwned ==
  ASSUME IInv, Owned, NEW p \in Pumps, ReadMore(p)
  PROVE  Owned'
<1>1. TypeOK /\ StreamOK(p)
  BY DEF IInv, WireInv
<1>2. PICK n \in 1..Len(wire[p]) :
        /\ Reads(p, n)
        /\ pending' = [pending EXCEPT ![p] = @ \o CarriedBy(Take(wire[p], n))]
        /\ open' = open \cup {<<fd, "own">> : fd \in Items(CarriedBy(Take(wire[p], n)))}
  BY DEF ReadMore
<1>3. PICK new \in Seq(Cell) : new = CarriedBy(Take(wire[p], n))
  BY <1>1, <1>2, NewTyped
<1>4. PICK d \in Seq(Cell) : d = pending[p]
  BY <1>1, SeqAt
<1>5. pending \in [Pumps -> Seq(Cell)]
  BY <1>1 DEF TypeOK
<1>6. UNCHANGED <<fds, copy>>
  BY DEF ReadMore, handVars
<1>7. /\ pending'[p] = d \o new
      /\ \A r \in Pumps \ {p} : pending'[r] = pending[r]
  BY <1>2, <1>3, <1>4, <1>5
<1>8. Items(d \o new) = Items(d) \cup Items(new)
  BY ItemsConcat
<1>9. Items(pending'[p]) \cup Items(fds'[p]) = (Mine(p) \cup Items(new)) \ {}
  BY <1>4, <1>6, <1>7, <1>8 DEF Mine
<1>10. Items(copy'[p]) = (Items(copy[p]) \cup {}) \ {}
  BY <1>6
<1>11. open' = open \cup {<<fd, "own">> : fd \in Items(new)}
  BY <1>2, <1>3
<1>12. \A x : x \in open' <=>
              /\ x \in open \/ (\E fd \in Items(new) : x = <<fd, "own">>)
                            \/ (\E fd \in {} : x = <<fd, "copy">>)
              /\ \A fd \in {} : x # <<fd, "own">>
              /\ \A fd \in {} : x # <<fd, "copy">>
  BY <1>11
<1>13. \A r \in Pumps \ {p} :
         /\ pending'[r] = pending[r] /\ fds'[r] = fds[r] /\ copy'[r] = copy[r]
         /\ \A fd \in Mine(r) : fd \notin {}
         /\ \A fd \in Items(copy[r]) : fd \notin {}
  BY <1>6, <1>7
<1>14. Moved(p, Items(new), {}, {}, {})
  BY <1>9, <1>10, <1>12, <1>13 DEF Moved
<1> QED BY <1>14, OwnedStep

LEMMA TakeOwned ==
  ASSUME IInv, Owned, NEW p \in Pumps, TakeFDs(p)
  PROVE  Owned'
<1>1. TypeOK /\ HandOK(p) /\ StreamOK(p)
  BY DEF IInv, WireInv
<1>2. PICK m : m = Body(p, Front(p)).fds
  OBVIOUS
<1>3. PICK d \in Seq(Cell) : d = pending[p]
  BY <1>1, SeqAt
<1>4. m \in 0..Len(d)
  <2>1. place[p] = "read" /\ buf[p] # <<>> /\ ~Hungry(p) /\ Body(p, Front(p)).good
    BY DEF TakeFDs, CutMessage
  <2>2. ~(Len(d) < m)
    BY <1>2, <1>3, <2>1 DEF Hungry
  <2>3. PICK b \in Seq(Cell) : b = buf[p]
    BY <1>1, SeqAt
  <2>4. PICK f : f = Front(p)
    OBVIOUS
  <2>5. f \in 1..Len(Streams[p])
    BY <2>1, <2>3, <2>4, FrontFacts
  <2>6. m \in Nat
    BY <1>2, <2>4, <2>5, MessageFacts
  <2> QED BY <2>2, <2>6, LenNat
<1>5. /\ fds'     = [fds EXCEPT ![p] = Take(d, m)]
      /\ pending' = [pending EXCEPT ![p] = Drop(d, m)]
      /\ UNCHANGED <<copy, open>>
      /\ place[p] = "read"
  BY <1>2, <1>3 DEF TakeFDs, CutMessage
<1>6. fds[p] = <<>>
  BY <1>1, <1>5 DEF HandOK, Working
<1>7. /\ fds'[p] = Take(d, m) /\ pending'[p] = Drop(d, m)
      /\ \A r \in Pumps \ {p} : fds'[r] = fds[r] /\ pending'[r] = pending[r]
  BY <1>1, <1>5 DEF TypeOK
<1>8. Items(Take(d, m)) \cup Items(Drop(d, m)) = Items(d)
  BY <1>4, ItemsSplit
<1>9. Items(<<>>) = {}
  BY DEF Items
<1>10. Items(pending'[p]) \cup Items(fds'[p]) = Mine(p)
  BY <1>3, <1>6, <1>7, <1>8, <1>9 DEF Mine
<1> QED BY <1>5, <1>7, <1>10 DEF Owned, Mine
LEMMA CopyOwned ==
  ASSUME IInv, Owned, NEW p \in Pumps, CopyFDs(p)
  PROVE  Owned'
<1>1. TypeOK
  BY DEF IInv
<1>2. UNCHANGED <<pending, fds>> /\ copy[p] = <<>>
  BY DEF CopyFDs, readVars
<1>3. CASE UNCHANGED <<copy, open>>
  BY <1>2, <1>3, OwnedSame
<1>4. CASE /\ copy' = [copy EXCEPT ![p] = fds[p]]
           /\ open' = open \cup {<<fd, "copy">> : fd \in Items(fds[p])}
  <2>1. copy'[p] = fds[p] /\ \A r \in Pumps \ {p} : copy'[r] = copy[r]
    BY <1>1, <1>4 DEF TypeOK
  <2>2. Items(<<>>) = {}
    BY DEF Items
  <2>3. Items(copy'[p]) = (Items(copy[p]) \cup Items(fds[p])) \ {}
    BY <1>2, <2>1, <2>2
  <2>4. Items(pending'[p]) \cup Items(fds'[p]) = (Mine(p) \cup {}) \ {}
    BY <1>2 DEF Mine
  <2>5. Moved(p, {}, {}, Items(fds[p]), {})
    BY <1>2, <1>4, <2>1, <2>3, <2>4 DEF Moved
  <2> QED BY <2>5, OwnedStep
<1> QED BY <1>3, <1>4 DEF CopyFDs

LEMMA NextTargetOwned ==
  ASSUME IInv, Owned, NEW p \in Pumps, NextTarget(p), UNCHANGED <<pending, fds>>
  PROVE  Owned'
<1>1. TypeOK
  BY DEF IInv
<1>2. /\ copy' = [copy EXCEPT ![p] = <<>>]
      /\ open' = open \ {<<fd, "copy">> : fd \in Items(copy[p])}
  BY DEF NextTarget
<1>3. copy'[p] = <<>> /\ \A r \in Pumps \ {p} : copy'[r] = copy[r]
  BY <1>1, <1>2 DEF TypeOK
<1>4. Items(<<>>) = {}
  BY DEF Items
<1>5. Items(copy'[p]) = (Items(copy[p]) \cup {}) \ Items(copy[p])
  BY <1>3, <1>4
<1>6. Items(pending'[p]) \cup Items(fds'[p]) = (Mine(p) \cup {}) \ {}
  BY DEF Mine
<1>7. ASSUME NEW r \in Pumps \ {p}, NEW fd \in Items(copy[r]) PROVE fd \notin Items(copy[p])
  <2>1. fd[1] = r
    BY <1>7, Home
  <2>2. \A e \in Items(copy[p]) : e[1] = p
    BY Home
  <2> QED BY <2>1, <2>2
<1>8. Moved(p, {}, {}, {}, Items(copy[p]))
  BY <1>2, <1>3, <1>5, <1>6, <1>7 DEF Moved
<1> QED BY <1>8, OwnedStep

LEMMA CloseOwned ==
  ASSUME IInv, Owned, NEW p \in Pumps, CloseFDs(p)
  PROVE  Owned'
<1>1. TypeOK
  BY DEF IInv
<1>2. /\ open' = open \ {<<fd, "own">> : fd \in Items(fds[p])}
      /\ fds'  = [fds EXCEPT ![p] = <<>>]
      /\ UNCHANGED <<pending, copy>>
  BY DEF CloseFDs, readVars
<1>3. fds'[p] = <<>> /\ \A r \in Pumps \ {p} : fds'[r] = fds[r]
  BY <1>1, <1>2 DEF TypeOK
<1>4. Items(<<>>) = {}
  BY DEF Items
<1>5. \A fd \in Items(pending[p]) : fd \notin Items(fds[p])
  <2>1. \A fd \in Items(fds[p]) : fd[2] = hand[p]
    BY HandFacts
  <2>2. \A fd \in Items(pending[p]) : fd[2] > hand[p]
    BY PendingFacts
  <2>3. hand[p] \in Nat
    BY <1>1, TypeAt
  <2> QED BY <2>1, <2>2, <2>3
<1>6. Items(pending'[p]) \cup Items(fds'[p]) = (Mine(p) \cup {}) \ Items(fds[p])
  BY <1>2, <1>3, <1>4, <1>5 DEF Mine
<1>7. Items(copy'[p]) = (Items(copy[p]) \cup {}) \ {}
  BY <1>2
<1>8. ASSUME NEW r \in Pumps \ {p}, NEW fd \in Mine(r) PROVE fd \notin Items(fds[p])
  <2>1. fd[1] = r
    BY <1>8, Home
  <2>2. \A e \in Items(fds[p]) : e[1] = p
    BY HandFacts
  <2> QED BY <2>1, <2>2
<1>9. Moved(p, {}, Items(fds[p]), {}, {})
  BY <1>2, <1>3, <1>6, <1>7, <1>8 DEF Moved
<1> QED BY <1>9, OwnedStep

\* When the loops are done no message is in hand: the readers close all there is.
LEMMA ClosedOwned ==
  ASSUME IInv, Owned, CloseReaders
  PROVE  Owned'
<1>1. /\ open' = open \ {<<fd, "own">> : fd \in UNION {Items(pending[p]) : p \in Pumps}}
      /\ pending' = [p \in Pumps |-> <<>>]
      /\ UNCHANGED <<fds, copy>>
  BY DEF CloseReaders, handVars
<1>2. Items(<<>>) = {}
  BY DEF Items
<1>3. ASSUME NEW p \in Pumps PROVE fds[p] = <<>> /\ Items(pending'[p]) = {}
  <2>1. HandOK(p) /\ place[p] = "done"
    BY DEF IInv, WireInv, CloseReaders, Done
  <2> QED BY <1>1, <1>2, <2>1 DEF HandOK, Working
<1>4. ASSUME NEW fd PROVE <<fd, "own">> \notin open'
  <2>1. CASE <<fd, "own">> \in open
    <3>1. PICK p \in Pumps : fd \in Items(pending[p])
      BY <1>2, <1>3, <2>1 DEF Owned, Mine
    <3> QED BY <1>1, <3>1
  <2> QED BY <1>1, <2>1
<1>5. \A e, g : <<e, "own">> # <<g, "copy">>
  BY "own" # "copy"
<1>6. ASSUME NEW fd
      PROVE  <<fd, "copy">> \in open' <=> \E p \in Pumps : fd \in Items(copy'[p])
  <2>1. <<fd, "copy">> \in open' <=> <<fd, "copy">> \in open
    BY <1>1, <1>5
  <2> QED BY <1>1, <2>1 DEF Owned
<1>7. \A fd : ~ \E p \in Pumps : fd \in Items(pending'[p]) \cup Items(fds'[p])
  BY <1>1, <1>2, <1>3
<1>8. \A x \in open' : \E fd : x = <<fd, "own">> \/ x = <<fd, "copy">>
  BY <1>1 DEF Owned
<1> QED BY <1>4, <1>6, <1>7, <1>8 DEF Owned, Mine

LEMMA NextOwned == IInv /\ Owned /\ [Next]_vars => Owned'
<1> SUFFICES ASSUME IInv, Owned, [Next]_vars PROVE Owned'
  OBVIOUS
<1> USE DEF readVars, handVars, writeVars, endVars
<1>1. CASE Handshake
  BY <1>1, OwnedSame DEF Handshake
<1>2. CASE CloseReaders
  BY <1>2, ClosedOwned
<1>3. CASE Rest \/ UNCHANGED vars
  BY <1>3, OwnedSame DEF Rest, vars
<1>4. ASSUME NEW p \in Pumps, Send(p) \/ Lose(p) PROVE Owned'
  BY <1>4, OwnedSame DEF Send, Lose
<1>5. ASSUME NEW p \in Pumps, Read(p) PROVE Owned'
  <2>1. CASE ReadMore(p)
    BY <2>1, ReadOwned
  <2>2. CASE ReadFails(p) \/ BadHeader(p)
    BY <2>2, OwnedSame DEF ReadFails, BadHeader
  <2>3. CASE TakeFDs(p)
    BY <2>3, TakeOwned
  <2> QED BY <1>5, <2>1, <2>2, <2>3 DEF Read
<1>6. ASSUME NEW p \in Pumps, Relay(p) PROVE Owned'
  <2>1. CASE Lock(p)
    BY <2>1, OwnedSame DEF Lock
  <2>2. CASE CopyFDs(p)
    BY <2>2, CopyOwned
  <2>3. CASE Write(p) \/ WriteRest(p) \/ WriteFails(p)
    <3>1. UNCHANGED <<pending, fds>>
      BY <2>3 DEF Write, WriteRest, WriteFails
    <3>2. NextTarget(p) \/ UNCHANGED <<copy, open>>
      BY <2>3 DEF Write, WriteRest, WriteFails
    <3> QED BY <3>1, <3>2, NextTargetOwned, OwnedSame
  <2>4. CASE CloseFDs(p)
    BY <2>4, CloseOwned
  <2> QED BY <1>6, <2>1, <2>2, <2>3, <2>4 DEF Relay
<1> QED BY <1>1, <1>2, <1>3, <1>4, <1>5, <1>6 DEF Next

LEMMA InitOwned == Init => Owned
<1> SUFFICES ASSUME Init PROVE Owned
  OBVIOUS
<1>1. Items(<<>>) = {}
  BY DEF Items
<1>2. open = {} /\ \A p \in Pumps : Mine(p) = {} /\ Items(copy[p]) = {}
  BY <1>1 DEF Init, Mine
<1> QED BY <1>2 DEF Owned

\* No step of the three loops, a failed write or copy or the end of the session among
\* them, leaves a descriptor open that nobody will close, or closes one twice
\* (CloseFDs, ReadMessage, CopyFDs and MessageReader.Close).
THEOREM WireFdsOwned == Spec => []FdsOwned
<1>1. Init => Owned
  BY InitOwned
<1>2. IInv /\ Owned /\ [Next]_vars => Owned'
  BY NextOwned
<1>3. Owned => FdsOwned
  BY OwnedMeans
<1> QED BY <1>1, <1>2, <1>3, SpecIInv, PTL DEF Spec
=============================================================================
