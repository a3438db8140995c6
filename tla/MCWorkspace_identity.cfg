\* Two commands and an editor in a project, its home directory and the one above.
CONSTANTS
  top = top
  home = home
  project = project
  standard = standard
  work = work
  ghost = ghost
  global = global
  n2 = n2
  h1 = h1
  h2 = h2
  p1 = p1
  p2 = p2
  None = None
  Absent = Absent
  Torn = Torn
  Dirs = {top, home, project}
  Path <- MCPath
  HOME = home
  Profiles = {standard, work, ghost}
  SetUp = {standard, work}
  DefaultProfile = standard
  Networks = {global, n2}
  Known <- MCKnown
  DefaultNetwork = global
  Options <- MCOptions
  Handles = {h1, h2}
  Drafts <- MCDrafts
  Processes = {p1, p2}
  MaxEdits = 1
  MaxCommands = 2
SPECIFICATION Spec
INVARIANTS SetHolds PinsStand
PROPERTY OneWorkspace
CHECK_DEADLOCK FALSE
SYMMETRY Sym
