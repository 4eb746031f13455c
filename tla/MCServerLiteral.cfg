SPECIFICATION MCSpec
CONSTANTS
  admin = admin
  guest = guest
  pw = pw
  pw2 = pw2
  noPassword = noPassword
  adminToken = adminToken
  guestToken = guestToken
  NoToken = NoToken
  ParseError = ParseError
  Names = {admin, guest}
  Passwords = {pw, pw2}
  Admin = admin
  AdminPassword = pw
  Tokens = {adminToken, guestToken}
  SessionTimeout = 0
  MaxTime = 1
  MaxAccounts = 3
  Queries <- LiteralQueries
  PlanQueries <- LiteralQueries
  Requested <- LiteralQueries
  ParseOf <- LiteralTexts
  Capacity = 2
  MaxClock = 3
  MaxLookups = 3
  Counts = {0, 1}
  Spreads = {s1, s2}
  Conns = {c1, c2}
  RequireAuth = TRUE
  AclUsers = {u1}
  AclRoles = {r1}
  AclLabels = {l1, l2}
  AclKeys = {k1}
  MaxRules = 3
  Peers = {p1, p2, p3}
  MaxConnections = 2
INVARIANT
  OwnStatement
CHECK_DEADLOCK FALSE
