SPECIFICATION FleetSpec
CONSTANTS
  MaxU16 = 65535
  Baselines <- EveryBaseline
  FirstCapacities = {0, 1, 2, 3, 4, 5, 7, 9}
  Capacities = {0, 1, 2, 3, 4, 5, 7, 9}
INVARIANTS
  ReservationsFit
  NoClassLockedOut
  ClampIsProportional
