\* The mailbox service with retries and reads; uploads, claims, double use of a file, crashes between bytes and row, profile edits, removal of the uploader.
SPECIFICATION Spec
CONSTANTS
  alice = alice  bob = bob  e1 = e1  e2 = e2  f1 = f1  f2 = f2  acme = acme  hub = hub
  Handles = {alice, bob}
  Globs = {acme, hub}
  GlobOf <- MCGlobOf
  Pending = Pending
  Ids = {e1, e2}
  FileIds = {f1, f2}
  Bodies = {1}
  Messages <- FileMessages
  Cards = {1}
  Postures = {"open"}
  Grants = {}
  BodyRoutes = {"send", "upload", "mark", "profile"}
  Requests = {1}
  Conns = {}
  MaxMints = 3
INVARIANTS FilesBound RowsHaveBytes DownloadsFollowMail
PROPERTIES BindingIsForGood ImplementsMailboxService
