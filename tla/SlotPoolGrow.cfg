SPECIFICATION UnstarvedSpec
SYMMETRY SameClass
CONSTANTS
  a1 = a1
  a2 = a2
  a3 = a3
  a4 = a4
  Admission = {a1, a2, a3, a4}
  ClassOf <- OnePerClass
  MaxU16 = 7
  Baselines <- FloorAndShare
  FirstCapacities = {2}
  Capacities = {4}
INVARIANTS
  SlotAccounting
  ReservationsHonoured
PROPERTIES
  CeilingHonoured
  NeverOverAdmits
