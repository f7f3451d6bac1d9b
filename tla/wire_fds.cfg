\* Three messages of the application, one with a descriptor for both buses, and three
\* of the buses, while a connection is lost or a descriptor cannot be copied.
SPECIFICATION FairSpec
CONSTANTS
  Streams <- MCStreams
  MaxFaults = 1
INVARIANTS TypeOK KeepsDescriptors StreamsWhole InOrder FdsOwned
PROPERTIES MessagesRelayed SessionEnds
