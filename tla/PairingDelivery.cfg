\* One device and one owner, nothing fails.  A step of time is 50 seconds, a poll
\* stands for ten, which take 5 to 15 seconds each.
SPECIFICATION Spec
CONSTANTS
  NULL = NULL
  h1 = h1  h2 = h2  c1 = c1  c2 = c2  c3 = c3
  Devices = {d1}
  Clients = {c1}
  Households = {h1}
  HouseholdOf <- OneOwner
  Pairings = {k1}
  Tokens = {t1}
  Lifetime = 12
  Polls = 11
  Slow = 3
  Failures = {}
PROPERTIES ClaimReachesDevice
