CONSTANTS
  None = None
  r1 = r1
  r2 = r2
  lease = lease
  toll = toll
  Requests = {r1, r2}
  Lines = {lease, toll}
  Shifts <- BillingShifts
  Readings <- TwoReadings
  Corrections <- TwoCorrections
  Overrides <- NoOrOne
  MaxCycles = 2
  MaxVehicles = 1
  Horizon = 1
  Instalments = 2
CHECK_DEADLOCK FALSE
SPECIFICATION Spec
INVARIANTS
  TypeOK
  DuesFollowConfigAndFleet
  ConfigHoldsCorrections
  ScheduleIsWhole
PROPERTIES
  PaymentsAreKept
  LockedDuesDoNotMove
