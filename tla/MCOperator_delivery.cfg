\* Sends, retries, collisions, reads, pushes, removals and restarts.
SPECIFICATION Spec
CONSTANTS
  alice = alice  bob = bob  e1 = e1  e2 = e2  f1 = f1  f2 = f2  acme = acme  hub = hub
  Handles = {alice, bob}
  Globs = {acme, hub}
  GlobOf <- MCGlobOf
  Pending = Pending
  Ids = {e1, e2}
  FileIds = {}
  Bodies = {1}
  Messages <- DeliveryMessages
  Cards = {1}
  Postures = {"open"}
  Grants = {}
  BodyRoutes = {"send", "mark"}
  Requests = {1}
  Conns = {1}
  MaxMints = 3
INVARIANTS FanOutComplete
PROPERTIES DeliveryIsDurable ReadIsForGood PushOnFirstStore
