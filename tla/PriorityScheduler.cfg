SPECIFICATION Spec
SYMMETRY Symmetric
CONSTANTS
  b1 = b1
  b2 = b2
  i1 = i1
  NoRequest = NoRequest
  Request = {b1, b2, i1}
  ClassOf <- MCClassOf
  CanPreempt <- MCCanPreempt
  QueueSize <- QueueOfOne
  MaxU16 = 7
  Floor <- NoFloor
  Share <- NoShares
  FirstCapacity = 1
  Capacities = {2}
  Cancellable = {i1}
INVARIANTS
  TypeOK
  SlotAccounting
  RegistryMatchesPermits
  PreemptedNeverStreams
  OverLeavesNothing
  NoLostWakeup
