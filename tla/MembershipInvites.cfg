\* Two registrations with one signup code overlap.
SPECIFICATION Spec
CONSTANTS
  NULL = NULL
  Clients = {c1, c2}
  Users = {admin, u1, u2}
  Households = {h1, h2}
  Invites = {i1}
  Sessions = {s1, s2, s3}
  Admin = admin
  Passwords = {pw}
  Ops = {"login", "register", "code"}
\* Ids run out.
CHECK_DEADLOCK FALSE
SYMMETRY Ids
INVARIANTS InvitesAreOneTime
