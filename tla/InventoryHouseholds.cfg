\* Two households, each with one client, that name each other's products and locations,
\* in both tracking modes, with valid and invalid bodies.
SPECIFICATION Spec
CONSTANTS
  NULL = NULL
  h1 = h1  h2 = h2  c1 = c1  c2 = c2  p1 = p1  p2 = p2
  l1 = l1  l2 = l2  b1 = b1  b2 = b2
  Clients = {c1, c2}
  Households = {h1, h2}
  HouseholdOf <- TwoHouseholds
  Products = {p1, p2}
  Locations = {l1, l2}
  BatchIds = {b1}
  Levels = {"low"}
  Sent <- KeysAndModes
  Deltas <- MinusOne
  MaxQuantity = 1
  MaxEvents = 2
\* Histories end at MaxEvents.
CHECK_DEADLOCK FALSE
INVARIANTS TypeOK HouseholdIsolation
