CONSTANTS
  None = None
  app = app
  lib = lib
  dep = dep
  cat = cat
  Packages = {app, lib}
  Deps = {dep}
  Catalogs = {cat}
  Versions <- SomeVersions
  Releases <- AllReleases
  Published0 <- FirstReleases
  Ships <- Hook
  Strict <- Windowed
  Starts <- GateStart
  Hand <- SomeHand
  MaxEvents = 1
SPECIFICATION Spec
INVARIANT
  NoBumpRefused
