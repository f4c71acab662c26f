SPECIFICATION Spec
CONSTANTS
  a1 = a1
  a2 = a2
  a3 = a3
  a4 = a4
  Admission = {a1, a2, a3}
  ClassOf <- TwoBulkOneSystem
  MaxU16 = 3
  Baselines <- ShareAlone
  FirstCapacities = {3}
  Capacities = {2}
PROPERTY
  NeverOverAdmits
