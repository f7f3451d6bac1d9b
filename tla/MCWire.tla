------------------------------- MODULE MCWire -------------------------------
(* Instances of Wire for TLC, and the functions of NameLists, which TLC *)
(* checks against MergedListReads before it starts.                        *)
EXTENDS Wire, NameLists

M(size, nfds, to) == [size |-> size, fds |-> nfds, good |-> TRUE, to |-> to]
Bad == [size |-> 1, fds |-> 0, good |-> FALSE, to |-> <<>>]

\* The application says Hello, sends a message with a descriptor to both buses, then
\* a header without sense; its own bus sends it a message with two descriptors, the
\* host bus one that is dropped and one that is forwarded.
MCStreams ==
  [client |-> <<M(1, 0, <<"host", "cont">>), M(2, 1, <<"host", "cont">>), Bad>>,
   cont   |-> <<M(2, 2, <<"client">>)>>,
   host   |-> <<M(1, 1, <<>>), M(1, 1, <<"client">>)>>]
=============================================================================
