\* A creation, and a removal or a change of a port: m2 may be either.  Builds
\* may fail, and overlap with the changes.
SPECIFICATION FairPageSpec
CONSTANTS
  Mutations = {m1, m2}
  Creations = {m1}
  Removals = {m2}
  PortChanges = {m2}
  Readers = {r1, r2}
  Builds = {b1, b2}
  NoBuild = NoBuild
INVARIANTS TypeOK ReadYourWrites OneBuildPerGeneration CacheInv PageHonest
PROPERTIES CatchesUp PageCatchesUp
