\* Two owners of one household and one of another, a device that may fail, one code.
SPECIFICATION Spec
CONSTANTS
  NULL = NULL
  h1 = h1  h2 = h2  c1 = c1  c2 = c2  c3 = c3
  Devices = {d1}
  Clients = {c1, c2, c3}
  Households = {h1, h2}
  HouseholdOf <- ThreeOwners
  Pairings = {k1}
  Tokens = {t1, t2}
  Lifetime = 2
  Polls = 2
  Slow = 1
  Failures = {"crash", "loss"}
INVARIANTS TypeOK PairingsMatchTokens SchedulesHaveDisplays LinksAreClaimed
PROPERTIES CodesAreOneTime PairingEnds
