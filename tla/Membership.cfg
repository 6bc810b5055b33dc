\* A household grows, promotes and removes members, every request of two clients interleaved.
SPECIFICATION Spec
CONSTANTS
  NULL = NULL
  Clients = {c1, c2}
  Users = {admin, u1, u2}
  Households = {h1}
  Invites = {i1, i2}
  Sessions = {s1, s2, s3, s4}
  Admin = admin
  Passwords = {pw}
  Ops = {"login", "register", "accept", "promote", "remove", "invite", "revoke", "change", "status", "reset", "code"}
\* Ids run out.
CHECK_DEADLOCK FALSE
SYMMETRY Ids
INVARIANTS TypeOK HouseholdHasOwner SessionsHaveUsers ActorsKeepTheirRights LateComersOverlap
