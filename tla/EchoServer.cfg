SPECIFICATION FairSpec
CONSTANTS
  Clients = {c1, c2}
  Fds = {1, 2}
  Workers = {w1, w2}
  MaxTasks = 1
  MaxSends = 2
  Listening = lfd
  None = none
INVARIANTS
  TypeOK
  EchoesOwnLines
  OpenIsWatched
  NoEdgeLost
PROPERTIES
  EveryLineAnswered
  DescriptorsReturned
CHECK_DEADLOCK FALSE
