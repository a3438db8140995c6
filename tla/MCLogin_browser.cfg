\* Two logins of every kind, a right or a crossed profile, and a user who answers any page at any time.
SPECIFICATION FairSpec
CONSTANTS
  n1 = n1 n2 = n2 h1 = h1 h2 = h2 p1 = p1 p2 = p2
  Logins = {p1, p2}
  Networks = {n1, n2}
  Handles = {h1, h2}
  Ports = {1}
  Ways = {"client", "handle", "picker", "account"}
  Gateways = {n1, n2}
  Nothing = Nothing
  Wirings <- OwnOrCrossed
INVARIANTS RowsMatchConsent
PROPERTIES LoginsEnd
CHECK_DEADLOCK FALSE
