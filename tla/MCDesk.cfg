CONSTANTS
  Vehicles <- MCVehicles
  Engagements <- MCEngagements
  Customers <- MCCustomers
  CustomerOf <- MCCustomerOf
  Locked <- MCLocked
  Lists <- MCLists
  Patches <- MCPatches
  FleetRequests <- MCFleetRequests
  FleetShifts <- MCFleetShifts
  Deliveries <- MCDeliveries
  Names <- MCNames
  Typed <- MCTyped
  Seeds <- MCSeeds
  KeyOf <- MCKeyOf
  Slug <- MCSlug
  Score <- MCScore
  Extractions <- MCExtractions
  Editors <- MCEditors
  EditShifts <- MCEditShifts
  Persons <- MCPersons
  Desks <- MCDesks
  PersonNames <- MCPersonNames
  PeopleRequests <- MCPeopleRequests
  PeopleShifts <- MCPeopleShifts
  Books <- MCBooks
  Period <- MCPeriod
  Contracts <- MCContracts
  OutputCap = 12
  MaxTroubles = 2
  Strings <- MCStrings
  MaxRecords = 2
  TTL = 1
  Horizon = 1
  None = None
  v1 = v1
  v2 = v2
  e1 = e1
  e2 = e2
  c1 = c1
  c2 = c2
  q1 = q1
  q2 = q2
  w1 = w1
  p1 = p1
  p2 = p2
  u1 = u1
  d1 = d1
  d2 = d2
  n1 = n1
  n2 = n2
  h1 = h1
  h2 = h2
CHECK_DEADLOCK FALSE
SPECIFICATION DeskSpec
INVARIANTS
  EveryPartTypeOK
  FleetIsWhatIsAssigned
  NamesFollowTheProfile
  QuietReadingsAreWhole
  RepairsKeepEveryPage
  WholeRecordsComeBack
  PortfolioIsTheTermsInForce
PROPERTIES
  TakenVehiclesStay
  CustomersKeepTheirUnits
  NamesLeaveTheQueueKnown
  KnownNamesAreNotQueued
  StaffAreNotCustomers
  InvitationsArrive
