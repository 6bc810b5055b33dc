\* Two members of one household work on one batch: versions, log, undo.
SPECIFICATION StockedSpec
CONSTANTS
  NULL = NULL
  h1 = h1  h2 = h2  c1 = c1  c2 = c2  p1 = p1  p2 = p2
  l1 = l1  l2 = l2  b1 = b1  b2 = b2
  Clients = {c1, c2}
  Households = {h1}
  HouseholdOf <- SameHousehold
  Products = {p1}
  Locations = {l1}
  BatchIds = {b1}
  Levels = {}
  Sent <- OneOrTwo
  Deltas <- MinusOne
  MaxQuantity = 1
  MaxEvents = 3
\* Histories end at MaxEvents.
CHECK_DEADLOCK FALSE
SYMMETRY Members
INVARIANTS VersionNamesRow
PROPERTIES NoLostUpdate
