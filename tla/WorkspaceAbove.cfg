CONSTANTS
  None = None
  app = app
  lib = lib
  dep = dep
  cat = cat
  Packages = {app, lib}
  Deps = {dep}
  Catalogs = {cat}
  Versions <- SomeVersions
  Releases <- AllReleases
  Published0 <- FirstReleases
  Ships <- Hook
  Strict <- Windowed
  Starts <- AboveStart
  Hand <- SomeHand
  MaxEvents = 0
SPECIFICATION Spec
INVARIANT
  EveryBumpInstalls
