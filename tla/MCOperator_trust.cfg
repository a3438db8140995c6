\* Policies, grants, blocks and bearers that change while sends and edits are on their way.
SPECIFICATION Spec
CONSTANTS
  alice = alice  bob = bob  e1 = e1  e2 = e2  f1 = f1  f2 = f2  acme = acme  hub = hub
  Handles = {alice, bob}
  Globs = {acme, hub}
  GlobOf <- MCGlobOf1
  Pending = Pending
  Ids = {e1}
  FileIds = {}
  Bodies = {1}
  Messages <- TrustMessages
  Cards = {1}
  Postures = {"open", "allowlist"}
  Grants = {alice, acme}
  BodyRoutes = {"send", "allow", "block", "patch"}
  Requests = {1, 2}
  Conns = {}
  MaxMints = 2
INVARIANTS ReferentialIntegrity
PROPERTIES TrustHoldsAtDelivery RetiredBearersStayRetired
