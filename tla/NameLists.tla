------------------------------ MODULE NameLists ------------------------------
(***************************************************************************)
(* The lists of names in replies to ListNames: how they lie in a body      *)
(* (ParseStringArray and EncodeStringArray of container/dbus/wire.go) and  *)
(* how the router makes one reply of two (mergeNameListReplies of          *)
(* router.go).  RouterSession says which reply is the base and which buses *)
(* contribute; here are the bytes.  Functions only, no state.              *)
(*                                                                         *)
(* A name is a sequence of bytes, and its value does not matter; lengths   *)
(* stay below 256.  Offsets count from 0, as in the code.                  *)
(***************************************************************************)
EXTENDS Naturals, Sequences
LOCAL INSTANCE SequencesExt

Orders == {"little", "big"}

PutUint32(order, n) == IF order = "little" THEN <<n, 0, 0, 0>> ELSE <<0, 0, 0, n>>

Uint32(order, q) == LET b == IF order = "little" THEN Reverse(q) ELSE q
                    IN  ((b[1] * 256 + b[2]) * 256 + b[3]) * 256 + b[4]

align(offset, n) == IF offset % n = 0 THEN offset ELSE offset + (n - (offset % n))

Bytes(body, from, n) == SubSeq(body, from + 1, from + n)

\* Each string starts at a multiple of 4 and ends with a zero byte.
EncodeStringArray(order, names) ==
  LET Pad(q) == q \o [i \in 1..(align(Len(q), 4) - Len(q)) |-> 0]
      inner  == FoldLeft(LAMBDA q, name :
                           Pad(q) \o PutUint32(order, Len(name)) \o name \o <<0>>,
                         <<>>, names)
  IN  PutUint32(order, Len(inner)) \o inner

\* The names of a body, or none if it is too short for the lengths in it.
ParseStringArray(order, body) ==
  LET bad == [ok |-> FALSE, names |-> <<>>]
      end == 4 + Uint32(order, Bytes(body, 0, 4))
      from[pos \in Nat] ==
        LET at   == align(pos, 4)
            size == Uint32(order, Bytes(body, at, 4))
            next == at + 4 + size + 1
        IN  IF pos >= end \/ at + 4 > end THEN [ok |-> TRUE, names |-> <<>>]
            ELSE IF next > Len(body) THEN bad
            ELSE IF from[next].ok
                 THEN [ok |-> TRUE, names |-> <<Bytes(body, at + 4, size)>> \o from[next].names]
                 ELSE bad
  IN  IF Len(body) < 4 \/ end > Len(body) THEN bad ELSE from[4]

\* The first of equal strings stays.
uniqueStrings(all) ==
  FoldLeft(LAMBDA out, s : IF Contains(out, s) THEN out ELSE Append(out, s), <<>>, all)

\* length is BodyLength, by which the next reader finds the end of the message.
ReplaceBody(msg, body) == [msg EXCEPT !.body = body, !.length = Len(body)]

NamesOf(msg) == IF msg.type = "return" THEN ParseStringArray(msg.order, msg.body).names ELSE <<>>

mergeNameListReplies(cont, host) ==
  LET base  == IF cont.type # "return" /\ host.type = "return" THEN host ELSE cont
      names == uniqueStrings(NamesOf(cont) \o NamesOf(host))
  IN  IF base.type # "return" THEN base
      ELSE ReplaceBody(base, EncodeStringArray(base.order, names))

-----------------------------------------------------------------------------
(* Against what they should do, over all pairs of small replies. *)

\* Names of every length modulo 4.
SomeNames == {<<1>>, <<1, 2>>, <<3, 3, 3>>, <<4, 4, 4, 4>>}
SomeLists == UNION {[1..n -> SomeNames] : n \in 0..2}

\* A reply as a bus sends it, with its list; one that was cut short; an error.
Reply(type, order, body) ==
  [type |-> type, order |-> order, body |-> body, length |-> Len(body)]
Good(order, list) == Reply("return", order, EncodeStringArray(order, list))
Cut(order, list)  == LET r == Good(order, list).body
                     IN  Reply("return", order, SubSeq(r, 1, Len(r) - 1))

Replies ==
       {[list |-> l, msg |-> Good(o, l)] : l \in SomeLists, o \in Orders}
  \cup {[list |-> <<>>, msg |-> Cut(o, l)] : l \in SomeLists, o \in Orders}
  \cup {[list |-> <<>>, msg |-> Reply("error", o, <<>>)] : o \in Orders}

\* The merged reply reads back as the names of both buses, each once, the container's
\* first and in their order, whatever byte order each bus uses; its length is that of
\* its body, so that the stream stays framed; and a reply that is cut short or an error
\* takes nothing away from the other's names (mergeNameListReplies).
MergedListReads ==
  \A c, h \in Replies :
    LET m    == mergeNameListReplies(c.msg, h.msg)
        read == ParseStringArray(m.order, m.body)
        both == c.list \o h.list
        FirstOf(name) == CHOOSE i \in 1..Len(both) :
                           both[i] = name /\ \A j \in 1..(i - 1) : both[j] # name
    IN  /\ m.length = Len(m.body)
        /\ m.type = "return" <=> "return" \in {c.msg.type, h.msg.type}
        /\ m.type = "return" =>
             /\ read.ok /\ ToSet(read.names) = ToSet(both)
             /\ \A i, j \in 1..Len(read.names) :
                  i < j => FirstOf(read.names[i]) < FirstOf(read.names[j])

\* TLC evaluates this before it explores the instance of MCWire.
ASSUME ListsMerge == MergedListReads
=============================================================================
