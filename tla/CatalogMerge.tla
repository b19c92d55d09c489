----------------------------- MODULE CatalogMerge -----------------------------
(***************************************************************************)
(* Catalogs and their merges: utils/catalogs.ts and the pure half of       *)
(* services/catalog-config-deps.ts.                                        *)
(*                                                                         *)
(* A catalog map gives every entry, a pair of a catalog and a dependency,  *)
(* a range or nothing.  The code's maps are nested objects; the keys it    *)
(* visits are those of the maps at hand, and an entry of no visited        *)
(* catalog is left as the disk has it, so each merge is taken entry by     *)
(* entry.  A catalog without entries is a catalog that is not there: the   *)
(* write removes it.                                                       *)
(***************************************************************************)

CONSTANTS
  Catalogs,  \* catalog names
  Deps,      \* dependency names
  Ranges,    \* the ranges an entry may hold
  Absent,    \* no entry
  Default    \* the catalog the manifest keeps under `catalog`

ASSUME CatalogAssumption ==
  /\ Absent \notin Ranges
  /\ Default \in Catalogs

Entries     == Catalogs \X Deps
CatalogMaps == [Entries -> Ranges \cup {Absent}]
NoCatalogs  == [e \in Entries |-> Absent]

\* mergeCatalogMaps, pluginWinsMerge and collectCatalogs: the right map wins.
Over(left, right) == [e \in Entries |-> IF right[e] # Absent THEN right[e] ELSE left[e]]

\* Mutant: an entry of ours that the new version omits is left behind as well.
ThreeWayKeeping(base, disk, next) ==
  [e \in Entries |->
     IF disk[e] = Absent \/ (disk[e] = base[e] /\ next[e] # Absent) THEN next[e] ELSE disk[e]]

\* threeWayMergeCatalogs: an entry that is missing or still as `base` has it is
\* ours and follows `next`, its removals included; any other is the user's.
ThreeWay(base, disk, next) ==
  [e \in Entries |-> IF disk[e] \in {Absent, base[e]} THEN next[e] ELSE disk[e]]

\* Mutant: an entry the dependency does not ship is put on its base as well.
OverlayEverything(base, owned, next) ==
  [e \in Entries |-> IF owned[e] # Absent THEN owned[e] ELSE base[e]]

\* overlayOwned: entries written earlier in the run pass for the base's, where
\* the dependency ships the entry itself.
OverlayOwned(base, owned, next) ==
  [e \in Entries |-> IF owned[e] # Absent /\ next[e] # Absent THEN owned[e] ELSE base[e]]

-----------------------------------------------------------------------------
(* The root manifest *)

\* Its three places: inside `workspaces`, the canonical `catalog` and `catalogs`
\* at the top level, and a `default` among `catalogs`.
Manifests ==
  {m \in [nested : CatalogMaps, canonical : CatalogMaps, aliased : CatalogMaps] :
     \A e \in Entries : e[1] # Default => m.aliased[e] = Absent}

\* readManifestCatalogs: read in this order, so a later place wins.
ReadManifest(m) == Over(Over(m.nested, m.canonical), m.aliased)

\* Mutant: only the canonical place is rewritten.
WriteCanonical(m, catalogs) == [m EXCEPT !.canonical = catalogs]

\* manifestCatalogEdits: everything goes to the canonical place, and the copies
\* the other places hold are removed.
WriteCatalogs(m, catalogs) ==
  [nested |-> NoCatalogs, canonical |-> catalogs, aliased |-> NoCatalogs]

=============================================================================
