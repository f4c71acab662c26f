SPECIFICATION ClockedSpec
CONSTANTS
  b1 = b1
  b2 = b2
  i1 = i1
  NoRequest = NoRequest
  Request = {b1, i1}
  ClassOf <- MCClassOf
  CanPreempt <- MCCanPreempt
  QueueSize <- QueueOfTwo
  MaxU16 = 7
  Floor <- TwoFloors
  Share <- NoShares
  FirstCapacity = 2
  Capacities = {1}
  Cancellable = {}
PROPERTY
  EveryAdmissionSettles
