CONSTANTS
  None = None
  app = app
  lib = lib
  dep = dep
  cat = cat
  Packages = {app, lib}
  Deps = {dep}
  Catalogs = {cat}
  Versions <- SomeVersions
  Releases <- AllReleases
  Published0 <- FirstReleases
  Ships <- Hook
  Strict <- Windowed
  Starts <- SomeStarts
  Hand <- SomeHand
  MaxEvents = 2
SPECIFICATION Spec
INVARIANTS
  TypeOK
  
  Settles
  ReportsMatchLockfile
  ChangesAreAttributed
PROPERTIES
  LockfileKeepsUp
  PinsMoveTogether
  PeersFollow
