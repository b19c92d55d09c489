SPECIFICATION Spec
CONSTANTS
  Catalogs = {default}
  Deps = {react}
  Ranges = {r1, r2}
  Absent = Absent
  Default = default
  p1 = p1
  p2 = p2
  Plugins = {p1, p2}
  Listed <- BothListed
  MaxVersion = 2
  Literal <- CaretLiteral
  Wide <- CaretWide
  NoExport = NoExport
  Unreleased = Unreleased
  MaxEvents = 2
SYMMETRY RangeSymmetry
INVARIANT
  LastListedWins
