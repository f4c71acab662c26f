SPECIFICATION Behaviour
CONSTANTS
  a = a
  b = b
  endpoint = endpoint
  specA = specA
  specB = specB
  k1 = k1
  Node = {a, b}
  Url = {endpoint}
  Spec = {specA, specB}
  Offered = {specA, specB}
  Key = {k1, k2}
  Tombstone = Tombstone
  Absent = Absent
  NoWorker = NoWorker
  EarlierOps <- MCEarlier
  ReplicaOf <- MCReplica
  EventBuffer = 2
  MaxChanges = 2
INVARIANT
  ReplacementsAreVersioned
CHECK_DEADLOCK FALSE
