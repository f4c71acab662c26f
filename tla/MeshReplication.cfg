SPECIFICATION FairSpec
CONSTANTS
  a = a
  b = b
  Node = {a, b}
  Link <- Pair
  Key = {k1, k2}
  Value = {v, w}
  Absent = Absent
  ReplicaIds = {2, 3, 4}
  FirstReplica <- MCFirst
  ChannelSize = 1
  MaxClock = 3
  MaxWrites = 2
  MaxFaults = 1
INVARIANTS
  TypeOK
  AckedIsHeld
  VersionsIdentifyWrites
  SilenceMeansEqual
PROPERTY
  ImplementsRegister
  Converges
