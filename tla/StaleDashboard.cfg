\* One removal: the page takes the team off its list and reads the overview.
SPECIFICATION PageSpec
CONSTANTS
  Mutations = {m1}
  Creations = {}
  Removals = {m1}
  PortChanges = {}
  Readers = {r1, r2}
  Builds = {b1, b2}
  NoBuild = NoBuild
INVARIANTS ShowsOwnChanges
CHECK_DEADLOCK FALSE
