----------------------------- MODULE CatalogRuns -----------------------------
(***************************************************************************)
(* Catalog config dependencies of a bun repository over many runs:         *)
(* services/catalog-config-deps.ts and services/module-catalogs.ts, with   *)
(* the install that follows and the people and registry around them.       *)
(*                                                                         *)
(* A run reads the manifest once, merges each dependency's catalogs onto   *)
(* it in listed order, writes it once and, when something was updated,     *)
(* installs.  What separates the action's entries from a user's is not     *)
(* stored: the next run diffs the manifest with the release the lockfile   *)
(* names.  The history variables (`author`, `merged`, `drift` and          *)
(* `lossy`) record what the program cannot see.                            *)
(***************************************************************************)
EXTENDS CatalogMerge, Naturals, Sequences

CONSTANTS
  Plugins,     \* the config dependencies
  Listed,      \* the config-dependencies input
  MaxVersion,  \* bound: releases per dependency
  Literal,     \* Literal[p][v]: the releases p's specifier for v admits
  Wide,        \* Wide[p][v]: those its resolution range admits
  NoExport,    \* a release without a catalogs export
  Unreleased,  \* not published yet
  MaxEvents    \* bound: what people and the registry do

Versions == 1..MaxVersion
Nobody   == "nobody"
User     == "user"

ASSUME RunsAssumption ==
  /\ Listed \in Seq(Plugins)
  /\ MaxVersion \in Nat \ {0}
  /\ Literal \in [Plugins -> [Versions -> SUBSET Versions]]
  /\ Wide \in [Plugins -> [Versions -> SUBSET Versions]]
  /\ {NoExport, Unreleased} \cap CatalogMaps = {}
  /\ {Nobody, User} \cap Plugins = {}
  /\ MaxEvents \in Nat

\* The input may name a dependency twice; the second merge would diff the first
\* one's result with the release both move from.  Each is taken to be named once.
ASSUME ListedOnce ==
  \A i, j \in 1..Len(Listed) : Listed[i] = Listed[j] => i = j

VARIABLES
  \* the registry
  ships,    \* what each release exports
  gone,     \* releases that were unpublished
  events,   \* what people and the registry have done so far
  \* the repository's main branch, and a run's checkout of it
  repo,
  tree,
  \* the run
  pc,       \* where it is
  at,       \* the listed dependency it is at
  cats,     \* the catalogs merged so far
  owned,    \* entries contributed by dependencies earlier in this run
  changed,  \* is there anything to write?
  updated,  \* did a specifier move?
  lossy     \* history: an entry may have been overwritten without a base

runVars   == <<pc, at, cats, owned, changed, updated, lossy>>
worldVars == <<ships, gone, events>>
vars == <<ships, gone, events, repo, tree, pc, at, cats, owned, changed, updated, lossy>>

-----------------------------------------------------------------------------
(* Types *)

\* A checkout.  A dependency declared at 0 is missing from the manifest or has
\* no version specifier; one locked at 0 has no lockfile entry.
Checkouts ==
  [manifest : Manifests,
   declared : [Plugins -> Versions \cup {0}],
   locked   : [Plugins -> Versions \cup {0}],
   author   : [Entries -> Plugins \cup {Nobody, User}],
   merged   : [Plugins -> Versions \cup {0}],
   drift    : BOOLEAN]

TypeOK ==
  /\ ships \in [Plugins -> [Versions -> CatalogMaps \cup {NoExport, Unreleased}]]
  /\ gone \subseteq Plugins \X Versions
  /\ events \in Nat
  /\ repo \in Checkouts
  /\ tree \in Checkouts
  /\ pc \in {"idle", "merging", "written", "installed"}
  /\ at \in 1..Len(Listed) + 1
  /\ cats \in CatalogMaps
  /\ owned \in CatalogMaps
  /\ changed \in BOOLEAN
  /\ updated \in BOOLEAN
  /\ lossy \in BOOLEAN

-----------------------------------------------------------------------------
(* What the registry answers *)

Published(p) == {v \in Versions : ships[p][v] # Unreleased /\ <<p, v>> \notin gone}

Highest(vs, v) == v \in vs /\ \A w \in vs : w <= v

\* The version whose catalogs are merged: the highest in the widened range.
IsNext(p, v) == Highest(Published(p) \cap Wide[p][tree.declared[p]], v)

\* resolveBaseVersion: the locked release, or else the highest the declared
\* specifier admits, or else the version it names.
IsBase(p, v) ==
  LET admitted == Published(p) \cap Literal[p][tree.declared[p]] IN
  IF tree.locked[p] # 0 THEN v = tree.locked[p]
  ELSE IF admitted # {} THEN Highest(admitted, v)
  ELSE v = tree.declared[p]

\* Does any release of a plugin, published or gone, ship this range there?
Shipped(e, range) ==
  \E p \in Plugins, v \in Versions : ships[p][v] \in CatalogMaps /\ ships[p][v][e] = range

-----------------------------------------------------------------------------
(* The run *)

StartRun ==
  /\ pc = "idle"
  /\ pc' = "merging"
  /\ cats' = ReadManifest(repo.manifest)
  /\ UNCHANGED <<worldVars, repo, tree, at, owned, changed, updated, lossy>>

\* Mutant: the loop goes one past the list.
SkipPast ==
  /\ pc = "merging" /\ at <= Len(Listed) + 1
  /\ at' = at + 1
  /\ UNCHANGED <<worldVars, repo, tree, pc, cats, owned, changed, updated, lossy>>

\* A dependency that is not declared, has no version to move to, or whose next
\* release exports no catalogs is passed over; so is one that cannot be read, its
\* base included, which may happen to any request.
SkipDep ==
  /\ pc = "merging" /\ at <= Len(Listed)
  /\ at' = at + 1
  /\ UNCHANGED <<worldVars, repo, tree, pc, cats, owned, changed, updated, lossy>>

\* Mutant: a base that could be fetched but ships nothing is a missing base.
RouteCollapsed(p, base, next) ==
  IF ships[p][base] \in CatalogMaps /\ <<p, base>> \notin gone
    THEN ThreeWay(OverlayOwned(ships[p][base], owned, next), cats, next)
    ELSE Over(cats, next)

\* The three routes of processDep: a base that is gone, one that shipped no
\* catalogs, and one to diff with.
Route(p, base, next) ==
  IF ships[p][base] = Unreleased \/ <<p, base>> \in gone THEN Over(cats, next)
  ELSE IF ships[p][base] = NoExport
    THEN ThreeWay(OverlayOwned(NoCatalogs, owned, next), cats, next)
  ELSE ThreeWay(OverlayOwned(ships[p][base], owned, next), cats, next)

\* Mutant: only a moved specifier is a reason to write the manifest.
MovedSpecifier(p, v, result) == tree.declared[p] # v

\* The specifier moves, or a delta other than "kept" moves the catalogs.
Moved(p, v, result) == tree.declared[p] # v \/ result # cats

\* The entries a merge writes as p's: those it changes to what p ships, and
\* those that are as p's release has them, which the next run takes for p's.
Authors(p, next, result) ==
  [e \in Entries |->
     IF result[e] = Absent THEN Nobody
     ELSE IF result[e] = next[e] THEN p
     ELSE tree.author[e]]

MergeDep ==
  /\ pc = "merging" /\ at <= Len(Listed)
  /\ LET p == Listed[at] IN
     /\ tree.declared[p] # 0
     /\ \E v \in Versions, base \in Versions :
          /\ IsNext(p, v)
          /\ IsBase(p, base)
          /\ ships[p][v] \in CatalogMaps
          /\ LET next   == ships[p][v]
                 result == Route(p, base, next)
                 noBase == ships[p][base] = Unreleased \/ <<p, base>> \in gone
             IN /\ cats' = result
                /\ owned' = Over(owned, next)
                /\ changed' = (changed \/ Moved(p, v, result))
                /\ updated' = (updated \/ tree.declared[p] # v)
                /\ lossy' = (lossy \/ noBase)
                /\ tree' = [tree EXCEPT !.declared[p] = v,
                                        !.merged[p] = v,
                                        !.author = Authors(p, next, result),
                                        !.drift = @ \/ noBase]
  /\ at' = at + 1
  /\ UNCHANGED <<worldVars, repo, pc>>

\* One pass writes the specifiers and the catalogs, or nothing changed.
WriteManifest ==
  /\ pc = "merging" /\ at > Len(Listed)
  /\ pc' = "written"
  /\ tree' = IF changed THEN [tree EXCEPT !.manifest = WriteCatalogs(@, cats)] ELSE tree
  /\ UNCHANGED <<worldVars, repo, at, cats, owned, changed, updated, lossy>>

\* The install follows an update, of this step or of another one.  It keeps a
\* locked release its specifier still admits, or takes the highest there is.
Relocked(p, v) ==
  LET admitted == Published(p) \cap Literal[p][tree.declared[p]] IN
  IF tree.declared[p] = 0 THEN v = tree.locked[p]
  ELSE \/ v = tree.locked[p] /\ v \in Literal[p][tree.declared[p]]
       \/ Highest(admitted, v)

Install ==
  /\ pc = "written"
  /\ \E locked \in [Plugins -> Versions \cup {0}] :
       /\ \A p \in Plugins : Relocked(p, locked[p])
       /\ tree' = [tree EXCEPT !.locked = locked,
                               !.drift = @ \/ \E p \in Plugins :
                                                tree.merged[p] \notin {0, locked[p]}]
  /\ pc' = "installed"
  /\ UNCHANGED <<worldVars, repo, at, cats, owned, changed, updated, lossy>>

\* Moved catalogs alone do not count as an update.
SkipInstall ==
  /\ pc = "written"
  /\ ~updated
  /\ tree' = [tree EXCEPT !.drift = @ \/ \E p \in Plugins :
                                          tree.merged[p] \notin {0, tree.locked[p]}]
  /\ pc' = "installed"
  /\ UNCHANGED <<worldVars, repo, at, cats, owned, changed, updated, lossy>>

\* Nothing of a run outlives it but what is merged.
Forget ==
  /\ pc' = "idle" /\ at' = 1
  /\ tree' = repo'
  /\ cats' = NoCatalogs /\ owned' = NoCatalogs
  /\ changed' = FALSE /\ updated' = FALSE /\ lossy' = FALSE

\* The pull request is merged,
Land ==
  /\ pc = "installed"
  /\ repo' = tree
  /\ Forget
  /\ UNCHANGED worldVars

\* or not; or the run failed, in the write or in the install.
Discard ==
  /\ pc # "idle"
  /\ repo' = repo
  /\ Forget
  /\ UNCHANGED worldVars

-----------------------------------------------------------------------------
(* People and the registry *)

Publish ==
  /\ events < MaxEvents
  /\ events' = events + 1
  /\ \E p \in Plugins, v \in Versions :
       /\ ships[p][v] = Unreleased
       /\ \A w \in 1..v - 1 : ships[p][w] # Unreleased
       /\ \E export \in CatalogMaps \cup {NoExport} :
            ships' = [ships EXCEPT ![p][v] = export]
  /\ UNCHANGED <<gone, repo, tree, runVars>>

Unpublish ==
  /\ events < MaxEvents
  /\ events' = events + 1
  /\ \E p \in Plugins : \E v \in Published(p) : gone' = gone \cup {<<p, v>>}
  /\ UNCHANGED <<ships, repo, tree, runVars>>

\* A person sets or removes an entry, in the place they choose.
EditEntry ==
  /\ pc = "idle"
  /\ events < MaxEvents
  /\ events' = events + 1
  /\ \E e \in Entries, range \in Ranges \cup {Absent}, place \in DOMAIN repo.manifest :
       LET manifest == [repo.manifest EXCEPT ![place][e] = range]
           reads    == ReadManifest(manifest)[e]
       IN /\ manifest \in Manifests
          /\ repo' = [repo EXCEPT
               !.manifest = manifest,
               !.author[e] = IF reads = ReadManifest(repo.manifest)[e] THEN @
                             ELSE IF reads = Absent THEN Nobody
                             ELSE User]
  /\ tree' = repo'
  /\ UNCHANGED <<ships, gone, runVars>>

\* A person moves a dependency's specifier, or drops or breaks the lockfile.
BumpDeclared ==
  /\ pc = "idle"
  /\ events < MaxEvents
  /\ events' = events + 1
  /\ \E p \in Plugins, v \in Versions \cup {0} : repo' = [repo EXCEPT !.declared[p] = v]
  /\ tree' = repo'
  /\ UNCHANGED <<ships, gone, runVars>>

LoseLockfile ==
  /\ pc = "idle"
  /\ events < MaxEvents
  /\ events' = events + 1
  /\ repo' = [repo EXCEPT !.locked = [p \in Plugins |-> 0],
                          !.drift = @ \/ \E p \in Plugins : repo.merged[p] # 0]
  /\ tree' = repo'
  /\ UNCHANGED <<ships, gone, runVars>>

-----------------------------------------------------------------------------

\* A repository that has installed the first release of each of its plugins and
\* has never been merged into; what its manifest holds is its users'.
Init ==
  /\ ships \in [Plugins -> [Versions -> CatalogMaps \cup {NoExport, Unreleased}]]
  /\ \A p \in Plugins, v \in Versions : (ships[p][v] = Unreleased) = (v > 1)
  /\ gone = {}
  /\ events = 0
  /\ \E manifest \in Manifests :
       repo = [manifest |-> manifest,
               declared |-> [p \in Plugins |-> 1],
               locked   |-> [p \in Plugins |-> 1],
               author   |-> [e \in Entries |->
                               IF ReadManifest(manifest)[e] = Absent THEN Nobody ELSE User],
               merged   |-> [p \in Plugins |-> 0],
               drift    |-> FALSE]
  /\ tree = repo
  /\ pc = "idle" /\ at = 1
  /\ cats = NoCatalogs /\ owned = NoCatalogs
  /\ changed = FALSE /\ updated = FALSE /\ lossy = FALSE

RunStep   == StartRun \/ SkipDep \/ MergeDep \/ WriteManifest \/ Install \/ SkipInstall
             \/ Land \/ Discard
WorldStep == Publish \/ Unpublish \/ EditEntry \/ BumpDeclared \/ LoseLockfile
Next == RunStep \/ WorldStep
Spec == Init /\ [][Next]_vars

-----------------------------------------------------------------------------
(* Properties *)

\* What the write left in the manifest reads back as the catalogs the run has
\* merged, wherever in the manifest they were, and when nothing was written there
\* was nothing to write (updateImpl, manifestCatalogEdits).
ReadBack ==
  pc \in {"written", "installed"} => ReadManifest(tree.manifest) = cats

\* An entry disappears in a merge only on the authority of one release: the one
\* the dependency moves from, still published, which shipped this very range there,
\* and whose successor omits it.  So an entry of another range, a user's or one an
\* earlier dependency has just written, stays even where both releases say nothing
\* or something else.  Of the same range it goes, whoever else ships it or set it
\* (threeWayMergeCatalogs with overlayOwned).
RemovesOnBase ==
  \A e \in Entries :
    pc = "merging" /\ pc' = "merging" /\ cats[e] # Absent /\ cats'[e] = Absent =>
      \E from, to \in Versions :
        LET p == Listed[at] IN
        /\ IsBase(p, from)
        /\ <<p, from>> \notin gone
        /\ ships[p][from] \in CatalogMaps
        /\ ships[p][from][e] = cats[e]
        /\ IsNext(p, to)
        /\ ships[p][to] \in CatalogMaps
        /\ ships[p][to][e] = Absent

RemovalsNeedBase == [][RemovesOnBase]_vars

\* A range no release of any dependency ships at that entry is a user's, and the
\* run leaves it as it was in the repository, however many dependencies it merges
\* and whatever requests fail, unless a release to diff with was unpublished.
OverridesSurvive ==
  pc # "idle" /\ ~lossy =>
    \A e \in Entries :
      LET range == ReadManifest(repo.manifest)[e] IN
      range # Absent /\ ~Shipped(e, range) => cats[e] = range

\* As long as the lockfile names what was last merged, an entry only one
\* dependency ships, and that the action wrote, holds in the repository what the
\* release merged last ships there: it moved with every release and was removed
\* with the release that dropped it.
FollowsMerged ==
  pc = "idle" /\ ~repo.drift =>
    \A e \in Entries, p \in Plugins :
      /\ repo.author[e] = p
      /\ \A q \in Plugins \ {p}, v \in Versions :
           ships[q][v] \in CatalogMaps => ships[q][v][e] = Absent
      => /\ ships[p][repo.merged[p]] \in CatalogMaps
         /\ ReadManifest(repo.manifest)[e] = ships[p][repo.merged[p]][e]

\* catalog-config-deps.ts:417: of two dependencies shipping the same entry, the
\* one listed last wins; said of a run that moves both, of an entry the action
\* wrote, under a lockfile that names what was merged before.
LastListedWins ==
  pc = "written" /\ ~tree.drift =>
    \A e \in Entries, i \in 1..Len(Listed), j \in 1..Len(Listed) :
      LET Ships(k) == ships[Listed[k]][tree.merged[Listed[k]]][e]
          Moves(k) == repo.merged[Listed[k]] \notin {0, tree.merged[Listed[k]]}
      IN i < j /\ tree.author[e] \in Plugins /\ Moves(i) /\ Moves(j)
         /\ Ships(i) # Absent /\ Ships(j) # Absent => cats[e] = Ships(j)

=============================================================================
