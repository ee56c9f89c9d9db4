SPECIFICATION FairSpec
CONSTANTS
  Producer = producer
  None = none
  Clients = {c1, c2}
  Conns = {x1, x2, x3, x4}
  MinSize = 1
  MaxSize = 1
  MaxIdle = 2
INVARIANTS
  TypeOK
  SingleOwner
  OldestFirst
  ProducerAwake
  ConnsBounded
PROPERTIES
  RecycleExact
  ClientServed
  ShrinksBack
  ImplementsLending
