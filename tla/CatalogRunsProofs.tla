-------------------------- MODULE CatalogRunsProofs --------------------------
(***************************************************************************)
(* Proofs about CatalogRuns, for any catalogs, dependencies, releases and  *)
(* listed order.                                                           *)
(***************************************************************************)
EXTENDS CatalogRuns, TLAPS

-----------------------------------------------------------------------------
(* The merges *)

\* Every merge yields a catalog map.
LEMMA MergesAreMaps ==
  ASSUME NEW a \in CatalogMaps, NEW b \in CatalogMaps, NEW c \in CatalogMaps
  PROVE  /\ Over(a, b) \in CatalogMaps
         /\ ThreeWay(a, b, c) \in CatalogMaps
         /\ OverlayOwned(a, b, c) \in CatalogMaps
  BY DEF CatalogMaps, Over, ThreeWay, OverlayOwned

LEMMA NoCatalogsIsMap == NoCatalogs \in CatalogMaps
  BY DEF NoCatalogs, CatalogMaps

LEMMA ReadsAreMaps ==
  ASSUME NEW m \in Manifests
  PROVE  ReadManifest(m) \in CatalogMaps
  BY MergesAreMaps DEF ReadManifest, Manifests

\* What is written is a manifest, and reading it yields what was written.
LEMMA WrittenReadsBack ==
  ASSUME NEW m \in Manifests, NEW catalogs \in CatalogMaps
  PROVE  /\ WriteCatalogs(m, catalogs) \in Manifests
         /\ ReadManifest(WriteCatalogs(m, catalogs)) = catalogs
<1>1. WriteCatalogs(m, catalogs) \in Manifests
  BY NoCatalogsIsMap DEF WriteCatalogs, Manifests, NoCatalogs, Entries
<1>2. Over(NoCatalogs, catalogs) = catalogs
  BY DEF Over, NoCatalogs, CatalogMaps
<1>3. Over(catalogs, NoCatalogs) = catalogs
  BY DEF Over, NoCatalogs, CatalogMaps
<1>4. ReadManifest(WriteCatalogs(m, catalogs)) = Over(Over(NoCatalogs, catalogs), NoCatalogs)
  BY DEF ReadManifest, WriteCatalogs
<1> QED BY <1>1, <1>2, <1>3, <1>4

\* A manifest that differs in one entry reads the same everywhere else.
LEMMA EditsAreLocal ==
  ASSUME NEW m \in Manifests, NEW e \in Entries, NEW f \in Entries \ {e},
         NEW range \in Ranges \cup {Absent}, NEW place \in DOMAIN m,
         [m EXCEPT ![place][e] = range] \in Manifests
  PROVE  ReadManifest([m EXCEPT ![place][e] = range])[f] = ReadManifest(m)[f]
<1>1. \A q \in DOMAIN m : [m EXCEPT ![place][e] = range][q][f] = m[q][f]
  BY DEF Manifests, CatalogMaps
<1>2. DOMAIN m = {"nested", "canonical", "aliased"}
  BY DEF Manifests
<1> DEFINE n == [m EXCEPT ![place][e] = range]
<1>3. n.nested[f] = m.nested[f] /\ n.canonical[f] = m.canonical[f] /\ n.aliased[f] = m.aliased[f]
  BY <1>1, <1>2
<1> HIDE DEF n
<1>4. ReadManifest(n)[f] = ReadManifest(m)[f]
  BY <1>3 DEF ReadManifest, Over
<1> QED BY <1>4 DEF n

-----------------------------------------------------------------------------
(* Types *)

LEMMA ListedFacts ==
  /\ Len(Listed) \in Nat
  /\ 1 \in 1..Len(Listed) + 1
  /\ \A i \in 1..Len(Listed) : Listed[i] \in Plugins
  BY RunsAssumption

LEMMA RouteIsMap ==
  ASSUME TypeOK, NEW p \in Plugins, NEW base \in Versions, NEW next \in CatalogMaps
  PROVE  Route(p, base, next) \in CatalogMaps
<1>1. cats \in CatalogMaps /\ owned \in CatalogMaps
  BY DEF TypeOK
<1>2. ships[p][base] \in CatalogMaps \cup {NoExport, Unreleased}
  BY DEF TypeOK
<1>3. OverlayOwned(NoCatalogs, owned, next) \in CatalogMaps
  BY <1>1, NoCatalogsIsMap, MergesAreMaps
<1>4. ThreeWay(OverlayOwned(NoCatalogs, owned, next), cats, next) \in CatalogMaps
  BY <1>1, <1>3, MergesAreMaps
<1>5. Over(cats, next) \in CatalogMaps
  BY <1>1, MergesAreMaps
<1>6. ASSUME ships[p][base] \in CatalogMaps
      PROVE  ThreeWay(OverlayOwned(ships[p][base], owned, next), cats, next) \in CatalogMaps
  <2>1. OverlayOwned(ships[p][base], owned, next) \in CatalogMaps
    BY <1>1, <1>6, MergesAreMaps
  <2> QED BY <1>1, <2>1, MergesAreMaps
<1> QED BY <1>2, <1>4, <1>5, <1>6 DEF Route

LEMMA AuthorsType ==
  ASSUME TypeOK, NEW p \in Plugins, NEW next \in CatalogMaps, NEW result \in CatalogMaps
  PROVE  Authors(p, next, result) \in [Entries -> Plugins \cup {Nobody, User}]
  BY DEF Authors, TypeOK, Checkouts

LEMMA InitType == Init => TypeOK
<1> SUFFICES ASSUME Init PROVE TypeOK
  OBVIOUS
<1>1. 1 \in Versions
  BY RunsAssumption DEF Versions
<1>2. repo \in Checkouts
  BY <1>1 DEF Init, Checkouts
<1>3. events \in Nat /\ at \in 1..Len(Listed) + 1
  BY ListedFacts DEF Init
<1>4. ships \in [Plugins -> [Versions -> CatalogMaps \cup {NoExport, Unreleased}]]
      /\ gone \subseteq Plugins \X Versions
  BY DEF Init
<1> QED BY <1>2, <1>3, <1>4, NoCatalogsIsMap DEF Init, TypeOK

LEMMA MergeType ==
  ASSUME TypeOK, MergeDep
  PROVE  TypeOK'
<1> DEFINE p == Listed[at]
<1>1. p \in Plugins
  BY ListedFacts DEF MergeDep, TypeOK
<1>2. PICK v \in Versions, base \in Versions :
        /\ ships[p][v] \in CatalogMaps
        /\ LET next   == ships[p][v]
               result == Route(p, base, next)
               noBase == ships[p][base] = Unreleased \/ <<p, base>> \in gone
           IN /\ cats' = result
              /\ owned' = Over(owned, next)
              /\ changed' = (changed \/ Moved(p, v, result))
              /\ updated' = (updated \/ tree.declared[p] # v)
              /\ lossy' = (lossy \/ noBase)
              /\ tree' = [tree EXCEPT !.declared[p] = v,
                                      !.merged[p] = v,
                                      !.author = Authors(p, next, result),
                                      !.drift = @ \/ noBase]
  BY DEF MergeDep
<1> DEFINE next   == ships[p][v]
           result == Route(p, base, next)
<1>3. result \in CatalogMaps
  BY <1>1, <1>2, RouteIsMap
<1>4. Authors(p, next, result) \in [Entries -> Plugins \cup {Nobody, User}]
  BY <1>1, <1>2, <1>3, AuthorsType
<1>5. owned' \in CatalogMaps
  BY <1>2, MergesAreMaps DEF TypeOK
<1>6. tree' \in Checkouts
  <2> HIDE DEF p, result
  <2> DEFINE a == Authors(p, next, result)
  <2>1. a \in [Entries -> Plugins \cup {Nobody, User}]
    BY <1>4
  <2>2. tree' = [tree EXCEPT !.declared[p] = v, !.merged[p] = v, !.author = a,
                             !.drift = @ \/ (ships[p][base] = Unreleased \/ <<p, base>> \in gone)]
    BY <1>2 DEF p, result
  <2> HIDE DEF a
  <2> QED BY <1>1, <2>1, <2>2 DEF TypeOK, Checkouts
<1>7. cats' \in CatalogMaps
  BY <1>2, <1>3
<1>8. changed' \in BOOLEAN /\ updated' \in BOOLEAN /\ lossy' \in BOOLEAN
  BY <1>2
<1>9. at' \in 1..Len(Listed) + 1
  BY ListedFacts DEF MergeDep, TypeOK
<1>10. UNCHANGED <<ships, gone, events, repo, pc>>
  BY DEF MergeDep, worldVars
<1> HIDE DEF p, result
<1> QED BY <1>5, <1>6, <1>7, <1>8, <1>9, <1>10 DEF TypeOK

LEMMA NextType == TypeOK /\ [Next]_vars => TypeOK'
<1> SUFFICES ASSUME TypeOK, [Next]_vars PROVE TypeOK'
  OBVIOUS
<1> USE DEF worldVars, runVars
<1>1. CASE StartRun
  <2>1. cats' \in CatalogMaps
    BY <1>1, ReadsAreMaps DEF StartRun, TypeOK, Checkouts
  <2> QED BY <1>1, <2>1 DEF StartRun, TypeOK
<1>2. CASE SkipDep
  BY <1>2, ListedFacts DEF SkipDep, TypeOK
<1>3. CASE MergeDep
  BY <1>3, MergeType
<1>4. CASE WriteManifest
  <2>1. WriteCatalogs(tree.manifest, cats) \in Manifests
    BY WrittenReadsBack DEF TypeOK, Checkouts
  <2>2. tree' \in Checkouts
    BY <1>4, <2>1 DEF WriteManifest, TypeOK, Checkouts
  <2> QED BY <1>4, <2>2 DEF WriteManifest, TypeOK
<1>5. CASE Install
  <2>1. tree' \in Checkouts
    BY <1>5 DEF Install, TypeOK, Checkouts
  <2> QED BY <1>5, <2>1 DEF Install, TypeOK
<1>6. CASE SkipInstall
  <2>1. tree' \in Checkouts
    BY <1>6 DEF SkipInstall, TypeOK, Checkouts
  <2> QED BY <1>6, <2>1 DEF SkipInstall, TypeOK
<1>7. CASE Land
  <2>1. at' \in 1..Len(Listed) + 1
    BY <1>7, ListedFacts DEF Land, Forget
  <2> QED BY <1>7, <2>1, NoCatalogsIsMap DEF Land, Forget, TypeOK
<1>8. CASE Discard
  <2>1. at' \in 1..Len(Listed) + 1
    BY <1>8, ListedFacts DEF Discard, Forget
  <2> QED BY <1>8, <2>1, NoCatalogsIsMap DEF Discard, Forget, TypeOK
<1>9. CASE Publish
  <2>1. PICK p \in Plugins, v \in Versions, export \in CatalogMaps \cup {NoExport} :
          ships' = [ships EXCEPT ![p][v] = export]
    BY <1>9 DEF Publish
  <2>2. ships' \in [Plugins -> [Versions -> CatalogMaps \cup {NoExport, Unreleased}]]
    BY <2>1 DEF TypeOK
  <2> QED BY <1>9, <2>2 DEF Publish, TypeOK
<1>10. CASE Unpublish
  <2>1. gone' \subseteq Plugins \X Versions
    BY <1>10 DEF Unpublish, Published, TypeOK
  <2> QED BY <1>10, <2>1 DEF Unpublish, TypeOK
<1>11. CASE EditEntry
  <2>1. PICK e \in Entries, manifest \in Manifests, a \in Plugins \cup {Nobody, User} :
          repo' = [repo EXCEPT !.manifest = manifest, !.author[e] = a]
    <3>1. PICK e \in Entries, range \in Ranges \cup {Absent}, place \in DOMAIN repo.manifest :
            LET manifest == [repo.manifest EXCEPT ![place][e] = range]
                reads    == ReadManifest(manifest)[e]
            IN /\ manifest \in Manifests
               /\ repo' = [repo EXCEPT
                    !.manifest = manifest,
                    !.author[e] = IF reads = ReadManifest(repo.manifest)[e] THEN @
                                  ELSE IF reads = Absent THEN Nobody
                                  ELSE User]
      BY <1>11 DEF EditEntry
    <3>2. repo.author[e] \in Plugins \cup {Nobody, User}
      BY DEF TypeOK, Checkouts
    <3> QED BY <3>1, <3>2
  <2>2. repo' \in Checkouts
    BY <2>1 DEF TypeOK, Checkouts
  <2> QED BY <1>11, <2>2 DEF EditEntry, TypeOK
<1>12. CASE BumpDeclared
  <2>1. PICK p \in Plugins, v \in Versions \cup {0} : repo' = [repo EXCEPT !.declared[p] = v]
    BY <1>12 DEF BumpDeclared
  <2>2. repo' \in Checkouts
    BY <2>1 DEF TypeOK, Checkouts
  <2> QED BY <1>12, <2>2 DEF BumpDeclared, TypeOK
<1>13. CASE LoseLockfile
  <2>1. repo' \in Checkouts
    BY <1>13 DEF LoseLockfile, TypeOK, Checkouts
  <2> QED BY <1>13, <2>1 DEF LoseLockfile, TypeOK
<1>14. CASE UNCHANGED vars
  BY <1>14 DEF vars, TypeOK
<1> QED BY <1>1, <1>2, <1>3, <1>4, <1>5, <1>6, <1>7, <1>8, <1>9, <1>10, <1>11, <1>12,
           <1>13, <1>14 DEF Next, RunStep, WorldStep

\* Every reachable state is of the declared types (CatalogRuns' TypeOK).
THEOREM TypeCorrect == Spec => []TypeOK
  BY InitType, NextType, PTL DEF Spec

-----------------------------------------------------------------------------
(* What the write leaves reads back *)

\* Outside a run there is no working tree but the repository; in a run, as long as
\* nothing moved the merged catalogs are those of the manifest.
AtRest  == pc = "idle" => tree = repo /\ owned = NoCatalogs /\ ~changed /\ ~lossy
Pending == pc = "merging" /\ ~changed => ReadManifest(tree.manifest) = cats

WritesBack == TypeOK /\ AtRest /\ Pending /\ ReadBack

LEMMA InitWritesBack == Init => WritesBack
  BY InitType DEF Init, WritesBack, AtRest, Pending, ReadBack

LEMMA NextWritesBack == WritesBack /\ [Next]_vars => WritesBack'
<1> SUFFICES ASSUME WritesBack, [Next]_vars PROVE WritesBack'
  OBVIOUS
<1>0. TypeOK /\ TypeOK'
  BY NextType DEF WritesBack
<1> USE DEF worldVars, runVars, AtRest, Pending, ReadBack
<1>1. CASE StartRun
  BY <1>0, <1>1 DEF StartRun, WritesBack
<1>2. CASE SkipDep
  BY <1>0, <1>2 DEF SkipDep, WritesBack
<1>3. CASE MergeDep
  <2>1. changed' \/ (~changed /\ cats' = cats)
    BY <1>3 DEF MergeDep, Moved
  <2>2. tree'.manifest = tree.manifest
    BY <1>0, <1>3 DEF MergeDep, TypeOK, Checkouts
  <2>3. pc = "merging" /\ pc' = pc
    BY <1>3 DEF MergeDep
  <2> QED BY <1>0, <2>1, <2>2, <2>3 DEF WritesBack
<1>4. CASE WriteManifest
  <2>1. tree.manifest \in Manifests /\ cats \in CatalogMaps
    BY <1>0 DEF TypeOK, Checkouts
  <2>2. changed => tree'.manifest = WriteCatalogs(tree.manifest, cats)
    BY <1>0, <1>4 DEF WriteManifest, TypeOK, Checkouts
  <2>3. changed => ReadManifest(tree'.manifest) = cats
    BY <2>1, <2>2, WrittenReadsBack
  <2>4. ~changed => ReadManifest(tree'.manifest) = cats
    BY <1>4 DEF WriteManifest, WritesBack
  <2> QED BY <1>0, <1>4, <2>3, <2>4 DEF WriteManifest, WritesBack
<1>5. CASE Install
  <2>1. tree'.manifest = tree.manifest
    BY <1>0, <1>5 DEF Install, TypeOK, Checkouts
  <2> QED BY <1>0, <1>5, <2>1 DEF Install, WritesBack
<1>6. CASE SkipInstall
  <2>1. tree'.manifest = tree.manifest
    BY <1>0, <1>6 DEF SkipInstall, TypeOK, Checkouts
  <2> QED BY <1>0, <1>6, <2>1 DEF SkipInstall, WritesBack
<1>7. CASE Land
  BY <1>0, <1>7 DEF Land, Forget, WritesBack
<1>8. CASE Discard
  BY <1>0, <1>8 DEF Discard, Forget, WritesBack
<1>9. CASE Publish
  BY <1>0, <1>9 DEF Publish, WritesBack
<1>10. CASE Unpublish
  BY <1>0, <1>10 DEF Unpublish, WritesBack
<1>11. CASE EditEntry
  BY <1>0, <1>11 DEF EditEntry, WritesBack
<1>12. CASE BumpDeclared
  BY <1>0, <1>12 DEF BumpDeclared, WritesBack
<1>13. CASE LoseLockfile
  BY <1>0, <1>13 DEF LoseLockfile, WritesBack
<1>14. CASE UNCHANGED vars
  BY <1>0, <1>14 DEF vars, WritesBack
<1> QED BY <1>1, <1>2, <1>3, <1>4, <1>5, <1>6, <1>7, <1>8, <1>9, <1>10, <1>11, <1>12,
           <1>13, <1>14 DEF Next, RunStep, WorldStep

\* The manifest a run leaves reads as the catalogs it merged, whatever the places
\* the entries were in (CatalogRuns' ReadBack).
THEOREM WhatIsWrittenReadsBack == Spec => []ReadBack
<1>1. WritesBack => ReadBack
  BY DEF WritesBack
<1> QED BY <1>1, InitWritesBack, NextWritesBack, PTL DEF Spec

-----------------------------------------------------------------------------
(* Removals *)

\* What a merge step does, by name.
Merges(p, v, base) ==
  /\ p = Listed[at]
  /\ tree.declared[p] # 0
  /\ IsNext(p, v)
  /\ IsBase(p, base)
  /\ ships[p][v] \in CatalogMaps
  /\ cats' = Route(p, base, ships[p][v])
  /\ owned' = Over(owned, ships[p][v])
  /\ lossy' = (lossy \/ ships[p][base] = Unreleased \/ <<p, base>> \in gone)
  /\ tree' = [tree EXCEPT !.declared[p] = v,
                          !.merged[p] = v,
                          !.author = Authors(p, ships[p][v], cats'),
                          !.drift = @ \/ (ships[p][base] = Unreleased \/ <<p, base>> \in gone)]

LEMMA MergeDepMerges ==
  ASSUME TypeOK, MergeDep
  PROVE  \E p \in Plugins, v \in Versions, base \in Versions : Merges(p, v, base)
<1>1. Listed[at] \in Plugins
  BY ListedFacts DEF MergeDep, TypeOK
<1>2. PICK v \in Versions, base \in Versions :
        LET p      == Listed[at]
            next   == ships[p][v]
            result == Route(p, base, next)
            noBase == ships[p][base] = Unreleased \/ <<p, base>> \in gone
        IN /\ tree.declared[p] # 0
           /\ IsNext(p, v)
           /\ IsBase(p, base)
           /\ ships[p][v] \in CatalogMaps
           /\ cats' = result
           /\ owned' = Over(owned, next)
           /\ lossy' = (lossy \/ noBase)
           /\ tree' = [tree EXCEPT !.declared[p] = v,
                                   !.merged[p] = v,
                                   !.author = Authors(p, next, result),
                                   !.drift = @ \/ noBase]
  BY DEF MergeDep
<1>3. Merges(Listed[at], v, base)
  BY <1>2 DEF Merges
<1> QED BY <1>1, <1>3

\* An entry a route removes is one the base, still published, ships as it is and
\* the next release omits.
LEMMA RouteRemovesOnBase ==
  ASSUME TypeOK, NEW p \in Plugins, NEW base \in Versions, NEW next \in CatalogMaps,
         NEW e \in Entries, cats[e] # Absent, Route(p, base, next)[e] = Absent
  PROVE  /\ <<p, base>> \notin gone
         /\ ships[p][base] \in CatalogMaps /\ ships[p][base][e] = cats[e]
         /\ next[e] = Absent
<1>1. Over(cats, next)[e] # Absent
  BY DEF Over
<1>2. \A b \in CatalogMaps :
        ThreeWay(OverlayOwned(b, owned, next), cats, next)[e] = Absent =>
          b[e] = cats[e] /\ next[e] = Absent
  BY DEF ThreeWay, OverlayOwned, CatalogMaps, TypeOK
<1>3. ThreeWay(OverlayOwned(NoCatalogs, owned, next), cats, next)[e] # Absent
  BY <1>2, NoCatalogsIsMap DEF NoCatalogs
<1>4. ships[p][base] \in CatalogMaps \cup {NoExport, Unreleased}
  BY DEF TypeOK
<1> QED BY <1>1, <1>2, <1>3, <1>4 DEF Route

\* No step of a run removes an entry on the authority of anything but the release
\* the dependency moves from, against the one it moves to (CatalogRuns'
\* RemovalsNeedBase).
THEOREM RemovalsAlwaysNeedBase == Spec => RemovalsNeedBase
<1>1. ASSUME TypeOK, Next PROVE RemovesOnBase
  <2> SUFFICES ASSUME NEW e \in Entries, pc = "merging" /\ pc' = "merging",
                      cats[e] # Absent, cats'[e] = Absent
               PROVE  \E from, to \in Versions :
                        /\ IsBase(Listed[at], from)
                        /\ <<Listed[at], from>> \notin gone
                        /\ ships[Listed[at]][from] \in CatalogMaps
                        /\ ships[Listed[at]][from][e] = cats[e]
                        /\ IsNext(Listed[at], to)
                        /\ ships[Listed[at]][to] \in CatalogMaps
                        /\ ships[Listed[at]][to][e] = Absent
    BY DEF RemovesOnBase
  <2>1. MergeDep
    BY <1>1 DEF Next, RunStep, WorldStep, vars, runVars, worldVars, StartRun, SkipDep,
                WriteManifest, Install, SkipInstall, Land, Discard, Forget, Publish, Unpublish,
                EditEntry, BumpDeclared, LoseLockfile
  <2>2. PICK p \in Plugins, v \in Versions, base \in Versions : Merges(p, v, base)
    BY <1>1, <2>1, MergeDepMerges
  <2>3. Route(p, base, ships[p][v])[e] = Absent
    BY <2>2 DEF Merges
  <2>4. /\ <<p, base>> \notin gone
        /\ ships[p][base] \in CatalogMaps /\ ships[p][base][e] = cats[e]
        /\ ships[p][v][e] = Absent
    BY <1>1, <2>2, <2>3, RouteRemovesOnBase DEF Merges
  <2> QED BY <2>2, <2>4 DEF Merges
<1>2. TypeOK /\ [Next]_vars => [RemovesOnBase]_vars
  BY <1>1
<1> QED BY <1>2, TypeCorrect, PTL DEF Spec, RemovalsNeedBase

-----------------------------------------------------------------------------
(* Overrides *)

\* What counts as contributed in this run, a dependency already merged ships.
Contributed(e, range) ==
  \E i \in 1..Len(Listed), v \in Versions :
    i < at /\ ships[Listed[i]][v] \in CatalogMaps /\ ships[Listed[i]][v][e] = range

OwnedShipped == \A e \in Entries : owned[e] # Absent => Contributed(e, owned[e])

Overrides == TypeOK /\ AtRest /\ OwnedShipped /\ OverridesSurvive

LEMMA ContributedShipped ==
  ASSUME NEW e, NEW range, Contributed(e, range) PROVE Shipped(e, range)
  BY ListedFacts DEF Contributed, Shipped

\* A route leaves alone an entry no release ships, with a base to diff with.
LEMMA RouteKeepsForeign ==
  ASSUME TypeOK, OwnedShipped, NEW p \in Plugins, NEW base \in Versions, NEW v \in Versions,
         ships[p][v] \in CatalogMaps, NEW e \in Entries,
         cats[e] # Absent, ~Shipped(e, cats[e]),
         ships[p][base] # Unreleased, <<p, base>> \notin gone
  PROVE  Route(p, base, ships[p][v])[e] = cats[e]
<1> DEFINE next == ships[p][v]
<1>1. owned[e] # cats[e]
  BY ContributedShipped DEF OwnedShipped
<1>2. \A b \in CatalogMaps : b[e] # cats[e] =>
        ThreeWay(OverlayOwned(b, owned, next), cats, next)[e] = cats[e]
  BY <1>1 DEF ThreeWay, OverlayOwned
<1>3. ThreeWay(OverlayOwned(NoCatalogs, owned, next), cats, next)[e] = cats[e]
  BY <1>2, NoCatalogsIsMap DEF NoCatalogs
<1>4. ships[p][base] \in CatalogMaps => ships[p][base][e] # cats[e]
  BY DEF Shipped
<1>5. ships[p][base] \in CatalogMaps \cup {NoExport, Unreleased}
  BY DEF TypeOK
<1> QED BY <1>2, <1>3, <1>4, <1>5 DEF Route

\* A release that is published changes no other.
LEMMA PublishAdds ==
  ASSUME TypeOK, Publish, NEW p \in Plugins, NEW v \in Versions, ships[p][v] # Unreleased
  PROVE  ships'[p][v] = ships[p][v]
  BY DEF Publish, TypeOK

LEMMA UnreleasedIsNoMap == Unreleased \notin CatalogMaps /\ NoExport \notin CatalogMaps
  BY RunsAssumption

\* Steps that leave the registry, the repository and what is merged alone.
LEMMA QuietOverrides ==
  ASSUME Overrides, TypeOK', AtRest', UNCHANGED <<ships, repo, cats, owned, lossy>>,
         pc' # "idle" => pc # "idle", at' >= at, at \in Nat, at' \in Nat
  PROVE  Overrides'
<1>1. \A e, range : Contributed(e, range) => Contributed(e, range)'
  BY ListedFacts DEF Contributed
<1>2. OwnedShipped'
  BY <1>1 DEF Overrides, OwnedShipped
<1>3. OverridesSurvive'
  BY DEF Overrides, OverridesSurvive, Shipped
<1> QED BY <1>2, <1>3 DEF Overrides

LEMMA NextAtRest == WritesBack /\ [Next]_vars => AtRest'
  BY NextWritesBack DEF WritesBack

LEMMA NextOverrides == WritesBack /\ Overrides /\ [Next]_vars => Overrides'
<1> SUFFICES ASSUME WritesBack, Overrides, [Next]_vars PROVE Overrides'
  OBVIOUS
<1>0. TypeOK /\ TypeOK' /\ AtRest /\ AtRest' /\ OwnedShipped /\ OverridesSurvive
  BY NextType, NextAtRest DEF Overrides
<1>a. at \in Nat /\ at' \in Nat
  BY <1>0, ListedFacts DEF TypeOK
<1> USE DEF worldVars, runVars
<1>1. CASE StartRun
  <2>1. OwnedShipped'
    BY <1>0, <1>1 DEF StartRun, OwnedShipped, Contributed
  <2>2. OverridesSurvive'
    BY <1>1 DEF StartRun, OverridesSurvive
  <2> QED BY <1>0, <2>1, <2>2 DEF Overrides
<1>2. CASE SkipDep
  BY <1>0, <1>2, <1>a, QuietOverrides DEF SkipDep
<1>3. CASE MergeDep
  <2>0. PICK p \in Plugins, v \in Versions, base \in Versions : Merges(p, v, base)
    BY <1>0, <1>3, MergeDepMerges
  <2>1. at' = at + 1 /\ ships' = ships /\ repo' = repo /\ pc = "merging" /\ at \in 1..Len(Listed)
    BY <1>0, <1>3 DEF MergeDep, TypeOK
  <2>2. OwnedShipped'
    <3> SUFFICES ASSUME NEW e \in Entries, owned'[e] # Absent
                 PROVE  Contributed(e, owned[e])'
      BY DEF OwnedShipped
    <3>1. CASE ships[p][v][e] # Absent
      <4>1. owned'[e] = ships[p][v][e]
        BY <2>0, <3>1 DEF Merges, Over
      <4>2. p = Listed[at] /\ at < at' /\ ships'[p][v] \in CatalogMaps
        BY <1>a, <2>0, <2>1 DEF Merges
      <4> QED BY <2>1, <4>1, <4>2 DEF Contributed
    <3>2. CASE ships[p][v][e] = Absent
      <4>1. owned'[e] = owned[e]
        BY <2>0, <3>2 DEF Merges, Over
      <4>2. Contributed(e, owned[e])
        BY <1>0, <4>1 DEF OwnedShipped
      <4>3. PICK i \in 1..Len(Listed), w \in Versions :
              i < at /\ ships[Listed[i]][w] \in CatalogMaps /\ ships[Listed[i]][w][e] = owned[e]
        BY <4>2 DEF Contributed
      <4>4. i < at'
        BY <1>a, <2>1, <4>3, ListedFacts
      <4> QED BY <2>1, <4>1, <4>3, <4>4 DEF Contributed
    <3> QED BY <3>1, <3>2
  <2>3. OverridesSurvive'
    <3> SUFFICES ASSUME ~lossy', NEW e \in Entries,
                        ReadManifest(repo.manifest)[e] # Absent,
                        ~Shipped(e, ReadManifest(repo.manifest)[e])
                 PROVE  cats'[e] = ReadManifest(repo.manifest)[e]
      BY <2>1 DEF OverridesSurvive, Shipped
    <3>1. cats[e] = ReadManifest(repo.manifest)[e]
      BY <1>0, <2>0, <2>1 DEF OverridesSurvive, Merges
    <3>2. ships[p][base] # Unreleased /\ <<p, base>> \notin gone
      BY <2>0 DEF Merges
    <3>3. Route(p, base, ships[p][v])[e] = cats[e]
      BY <1>0, <2>0, <3>1, <3>2, RouteKeepsForeign DEF Merges
    <3> QED BY <2>0, <3>1, <3>3 DEF Merges
  <2> QED BY <1>0, <2>2, <2>3 DEF Overrides
<1>4. CASE WriteManifest
  BY <1>0, <1>4, <1>a, QuietOverrides DEF WriteManifest
<1>5. CASE Install
  BY <1>0, <1>5, <1>a, QuietOverrides DEF Install
<1>6. CASE SkipInstall
  BY <1>0, <1>6, <1>a, QuietOverrides DEF SkipInstall
<1>7. CASE Land \/ Discard
  <2>1. pc' = "idle" /\ owned' = NoCatalogs
    BY <1>7 DEF Land, Discard, Forget
  <2> QED BY <1>0, <2>1 DEF Overrides, OwnedShipped, OverridesSurvive, NoCatalogs
<1>8. CASE Publish
  <2>1. \A e \in Entries : \A range : Shipped(e, range) => Shipped(e, range)'
    BY <1>0, <1>8, PublishAdds, UnreleasedIsNoMap DEF Shipped
  <2>2. \A e \in Entries : \A range : Contributed(e, range) => Contributed(e, range)'
    BY <1>0, <1>8, PublishAdds, UnreleasedIsNoMap, ListedFacts DEF Contributed, Publish
  <2>3. UNCHANGED <<repo, pc, cats, owned, lossy>>
    BY <1>8 DEF Publish
  <2> QED BY <1>0, <2>1, <2>2, <2>3 DEF Overrides, OwnedShipped, OverridesSurvive
<1>9. CASE Unpublish
  BY <1>0, <1>9, <1>a, QuietOverrides DEF Unpublish
<1>10. CASE EditEntry \/ BumpDeclared \/ LoseLockfile
  <2>1. pc' = "idle" /\ owned' = NoCatalogs
    BY <1>0, <1>10 DEF EditEntry, BumpDeclared, LoseLockfile, AtRest
  <2> QED BY <1>0, <2>1 DEF Overrides, OwnedShipped, OverridesSurvive, NoCatalogs
<1>11. CASE UNCHANGED vars
  BY <1>0, <1>11, <1>a, QuietOverrides DEF vars
<1> QED BY <1>1, <1>2, <1>3, <1>4, <1>5, <1>6, <1>7, <1>8, <1>9, <1>10, <1>11
        DEF Next, RunStep, WorldStep

LEMMA InitOverrides == Init => Overrides
  BY InitType, NoCatalogsIsMap DEF Init, Overrides, AtRest, OwnedShipped, OverridesSurvive,
                                   NoCatalogs

\* A person's own range survives a run of any number of dependencies (CatalogRuns'
\* OverridesSurvive).
THEOREM OverridesAlwaysSurvive == Spec => []OverridesSurvive
<1>1. Overrides => OverridesSurvive
  BY DEF Overrides
<1>2. Spec => []WritesBack
  BY InitWritesBack, NextWritesBack, PTL DEF Spec
<1> QED BY <1>1, <1>2, InitOverrides, NextOverrides, PTL DEF Spec

-----------------------------------------------------------------------------
(* What the action wrote moves with the releases *)

Sole(e, p) ==
  \A q \in Plugins \ {p}, v \in Versions :
    ships[q][v] \in CatalogMaps => ships[q][v][e] = Absent

\* The entries a checkout takes for p's alone are as p's merged release has them.
Follows(c, k) ==
  \A e \in Entries, p \in Plugins :
    c.author[e] = p /\ Sole(e, p) =>
      /\ c.merged[p] # 0
      /\ ships[p][c.merged[p]] \in CatalogMaps
      /\ k[e] = ships[p][c.merged[p]][e]

InStep(c, p) == c.merged[p] \in {0, c.locked[p]}

Unmerged(p) == \A i \in 1..Len(Listed) : i < at => Listed[i] # p

\* Of the repository; of a run's merge, where a dependency still to come has the
\* base it was merged at; and of a tree the install has been through.
Followed ==
  /\ ~repo.drift => /\ \A p \in Plugins : InStep(repo, p)
                    /\ Follows(repo, ReadManifest(repo.manifest))
  /\ pc # "idle" /\ ~tree.drift => Follows(tree, cats)
  /\ pc = "merging" /\ ~tree.drift => \A p \in Plugins : Unmerged(p) => InStep(tree, p)
  /\ pc = "installed" /\ ~tree.drift => \A p \in Plugins : InStep(tree, p)

FollowInv == WritesBack /\ Overrides /\ Followed

\* The entries of another dependency alone are not touched by p's merge.
LEMMA RouteLeavesOthers ==
  ASSUME TypeOK, NEW p \in Plugins, NEW base \in Versions, NEW v \in Versions,
         ships[p][v] \in CatalogMaps, NEW e \in Entries, NEW q \in Plugins \ {p}, Sole(e, q)
  PROVE  /\ Route(p, base, ships[p][v])[e] = cats[e]
         /\ Authors(p, ships[p][v], Route(p, base, ships[p][v]))[e] \in {Nobody, tree.author[e]}
<1> DEFINE next == ships[p][v]
           result == Route(p, base, next)
<1>1. next[e] = Absent
  BY DEF Sole
<1>2. Over(cats, next)[e] = cats[e]
  BY <1>1 DEF Over
<1>3. \A b \in CatalogMaps : b[e] = Absent =>
        ThreeWay(OverlayOwned(b, owned, next), cats, next)[e] = cats[e]
  BY <1>1 DEF ThreeWay, OverlayOwned
<1>4. ThreeWay(OverlayOwned(NoCatalogs, owned, next), cats, next)[e] = cats[e]
  BY <1>3, NoCatalogsIsMap DEF NoCatalogs
<1>5. ships[p][base] \in CatalogMaps => ships[p][base][e] = Absent
  BY DEF Sole
<1>6. ships[p][base] \in CatalogMaps \cup {NoExport, Unreleased}
  BY DEF TypeOK
<1>7. result[e] = cats[e]
  BY <1>2, <1>3, <1>4, <1>5, <1>6 DEF Route
<1>8. Authors(p, next, result)[e] \in {Nobody, tree.author[e]}
  <2> HIDE DEF next, result
  <2> QED BY <1>1 DEF Authors
<1> QED BY <1>7, <1>8

\* An entry of p alone ends up as p's new release has it, or is no longer p's.
LEMMA RouteFollows ==
  ASSUME TypeOK, OwnedShipped, NEW p \in Plugins, NEW v \in Versions, NEW base \in Versions,
         Merges(p, v, base), at \in 1..Len(Listed),
         ships[p][base] # Unreleased, <<p, base>> \notin gone,
         Follows(tree, cats), InStep(tree, p),
         NEW e \in Entries, Sole(e, p),
         Authors(p, ships[p][v], Route(p, base, ships[p][v]))[e] = p
  PROVE  Route(p, base, ships[p][v])[e] = ships[p][v][e]
<1> DEFINE next == ships[p][v]
           result == Route(p, base, next)
<1> SUFFICES ASSUME result[e] # next[e] PROVE FALSE
  OBVIOUS
<1>1. tree.author[e] = p
  <2>1. p # Nobody
    BY RunsAssumption
  <2> HIDE DEF next, result
  <2> QED BY <2>1 DEF Authors, next, result
<1>2. /\ tree.merged[p] # 0
      /\ ships[p][tree.merged[p]] \in CatalogMaps
      /\ cats[e] = ships[p][tree.merged[p]][e]
  BY <1>1 DEF Follows
<1>3. base = tree.merged[p]
  BY <1>2 DEF Merges, IsBase, InStep
<1>4. owned[e] = Absent
  <2> SUFFICES ASSUME owned[e] # Absent PROVE FALSE
    OBVIOUS
  <2>1. PICK i \in 1..Len(Listed), w \in Versions :
          i < at /\ ships[Listed[i]][w] \in CatalogMaps /\ ships[Listed[i]][w][e] = owned[e]
    BY DEF OwnedShipped, Contributed
  <2>2. Listed[i] = p
    BY <2>1, ListedFacts DEF Sole
  <2>3. i = at
    BY <2>2, ListedOnce DEF Merges
  <2> QED BY <2>1, <2>3, ListedFacts
<1>5. result = ThreeWay(OverlayOwned(ships[p][base], owned, next), cats, next)
  BY <1>2, <1>3, UnreleasedIsNoMap DEF Route
<1>6. result[e] = next[e]
  BY <1>2, <1>3, <1>4, <1>5 DEF ThreeWay, OverlayOwned
<1> QED BY <1>6

LEMMA FollowsMerges ==
  ASSUME FollowInv, MergeDep, TypeOK' PROVE Followed'
<1>0. TypeOK /\ OwnedShipped /\ Followed
  BY DEF FollowInv, Overrides
<1>1. PICK p \in Plugins, v \in Versions, base \in Versions : Merges(p, v, base)
  BY <1>0, MergeDepMerges
<1>2. /\ at' = at + 1 /\ at \in 1..Len(Listed) /\ pc = "merging" /\ pc' = "merging"
      /\ ships' = ships /\ repo' = repo
  BY <1>0 DEF MergeDep, TypeOK, worldVars
<1>3. p = Listed[at]
  BY <1>1 DEF Merges
<1> DEFINE authors == Authors(p, ships[p][v], Route(p, base, ships[p][v]))
<1>4. authors \in [Entries -> Plugins \cup {Nobody, User}]
  BY <1>0, <1>1, AuthorsType, RouteIsMap DEF Merges
<1>5. /\ tree'.author = authors
      /\ tree'.merged = [tree.merged EXCEPT ![p] = v]
      /\ tree'.locked = tree.locked
      /\ tree'.drift = (tree.drift \/ (ships[p][base] = Unreleased \/ <<p, base>> \in gone))
  <2> HIDE DEF authors
  <2>1. tree' = [tree EXCEPT !.declared[p] = v, !.merged[p] = v, !.author = authors,
                             !.drift = @ \/ (ships[p][base] = Unreleased \/ <<p, base>> \in gone)]
    BY <1>1 DEF Merges, authors
  <2> QED BY <1>0, <2>1 DEF TypeOK, Checkouts
<1>6. cats' = Route(p, base, ships[p][v])
  BY <1>1 DEF Merges
<1>7. ~repo.drift => /\ \A q \in Plugins : InStep(repo, q)
                    /\ Follows(repo, ReadManifest(repo.manifest))
  BY <1>0 DEF Followed
<1>8. ASSUME ~tree'.drift
      PROVE  Follows(tree, cats)' /\ \A q \in Plugins : Unmerged(q)' => InStep(tree, q)'
  <2>1. ~tree.drift /\ ships[p][base] # Unreleased /\ <<p, base>> \notin gone
    BY <1>5, <1>8
  <2>2. Follows(tree, cats) /\ \A q \in Plugins : Unmerged(q) => InStep(tree, q)
    BY <1>0, <1>2, <2>1 DEF Followed
  <2>3. InStep(tree, p)
    <3>1. Unmerged(p)
      BY <1>2, <1>3, ListedOnce, ListedFacts DEF Unmerged
    <3> QED BY <2>2, <3>1
  <2>4. ASSUME NEW e \in Entries, NEW q \in Plugins, authors[e] = q, Sole(e, q)
        PROVE  /\ tree'.merged[q] # 0
               /\ ships[q][tree'.merged[q]] \in CatalogMaps
               /\ cats'[e] = ships[q][tree'.merged[q]][e]
    <3>1. CASE q = p
      <4>1. tree'.merged[p] = v
        BY <1>0, <1>5 DEF TypeOK, Checkouts
      <4>2. v # 0
        BY DEF Versions
      <4>3. ships[p][v] \in CatalogMaps
        BY <1>1 DEF Merges
      <4>4. cats'[e] = ships[p][v][e]
        BY <1>0, <1>1, <1>2, <1>6, <2>1, <2>2, <2>3, <2>4, <3>1, RouteFollows
      <4> QED BY <3>1, <4>1, <4>2, <4>3, <4>4
    <3>2. CASE q # p
      <4>1. cats'[e] = cats[e] /\ authors[e] \in {Nobody, tree.author[e]}
        BY <1>0, <1>1, <1>6, <2>4, <3>2, RouteLeavesOthers DEF Merges
      <4>2. tree.author[e] = q
        BY <2>4, <4>1, RunsAssumption
      <4>3. tree'.merged[q] = tree.merged[q]
        BY <1>0, <1>5, <3>2 DEF TypeOK, Checkouts
      <4> QED BY <2>2, <2>4, <4>1, <4>2, <4>3 DEF Follows
    <3> QED BY <3>1, <3>2
  <2>5. Follows(tree, cats)'
    <3> HIDE DEF authors
    <3> QED BY <1>2, <1>5, <2>4 DEF Follows, Sole
  <2>6. ASSUME NEW q \in Plugins, Unmerged(q)' PROVE InStep(tree, q)'
    <3>1. q # p /\ Unmerged(q)
      BY <1>2, <1>3, <2>6, ListedFacts DEF Unmerged
    <3>2. tree'.merged[q] = tree.merged[q]
      BY <1>0, <1>5, <3>1 DEF TypeOK, Checkouts
    <3> QED BY <1>5, <2>2, <3>1, <3>2 DEF InStep
  <2> QED BY <2>5, <2>6
<1> QED BY <1>2, <1>7, <1>8 DEF Followed, Follows, Sole, InStep

LEMMA NextFollowed == FollowInv /\ [Next]_vars => Followed'
<1> SUFFICES ASSUME FollowInv, [Next]_vars PROVE Followed'
  OBVIOUS
<1>0. TypeOK /\ TypeOK' /\ AtRest /\ ReadBack /\ Followed
  BY NextType DEF FollowInv, WritesBack
<1> USE DEF worldVars, runVars
<1>1. CASE StartRun
  BY <1>0, <1>1 DEF StartRun, AtRest, Followed, Follows, Sole, InStep, Unmerged
<1>2. CASE SkipDep
  <2>1. \A p \in Plugins : Unmerged(p)' => Unmerged(p)
    BY <1>0, <1>2, ListedFacts DEF SkipDep, Unmerged, TypeOK
  <2> QED BY <1>0, <1>2, <2>1 DEF SkipDep, Followed, Follows, Sole, InStep
<1>3. CASE MergeDep
  BY <1>0, <1>3, FollowsMerges
<1>4. CASE WriteManifest
  <2>1. /\ tree'.author = tree.author /\ tree'.merged = tree.merged
        /\ tree'.locked = tree.locked /\ tree'.drift = tree.drift
    BY <1>0, <1>4 DEF WriteManifest, TypeOK, Checkouts
  <2>2. pc # "idle" /\ pc' = "written" /\ UNCHANGED <<ships, repo, cats>>
    BY <1>4 DEF WriteManifest
  <2> QED BY <1>0, <2>1, <2>2 DEF Followed, Follows, Sole, InStep
<1>5. CASE Install \/ SkipInstall
  <2>1. /\ tree'.author = tree.author /\ tree'.merged = tree.merged
        /\ ~tree'.drift => ~tree.drift
        /\ ~tree'.drift => \A p \in Plugins : tree'.merged[p] \in {0, tree'.locked[p]}
    <3>1. CASE Install
      <4>1. PICK locked \in [Plugins -> Versions \cup {0}] :
              tree' = [tree EXCEPT !.locked = locked,
                                   !.drift = @ \/ \E p \in Plugins :
                                                    tree.merged[p] \notin {0, locked[p]}]
        BY <3>1 DEF Install
      <4> QED BY <1>0, <4>1 DEF TypeOK, Checkouts
    <3>2. CASE SkipInstall
      BY <1>0, <3>2 DEF SkipInstall, TypeOK, Checkouts
    <3> QED BY <1>5, <3>1, <3>2
  <2>2. pc # "idle" /\ pc' = "installed" /\ UNCHANGED <<ships, repo, cats>>
    BY <1>5 DEF Install, SkipInstall
  <2> QED BY <1>0, <2>1, <2>2 DEF Followed, Follows, Sole, InStep
<1>6. CASE Land
  BY <1>0, <1>6 DEF Land, Forget, ReadBack, Followed, Follows, Sole, InStep
<1>7. CASE Discard
  BY <1>0, <1>7 DEF Discard, Forget, Followed, Follows, Sole, InStep
<1>8. CASE Publish
  <2>1. \A e \in Entries, p \in Plugins : Sole(e, p)' => Sole(e, p)
    BY <1>0, <1>8, PublishAdds, UnreleasedIsNoMap DEF Sole
  <2>2. \A p \in Plugins, v \in Versions : ships[p][v] \in CatalogMaps => ships'[p][v] = ships[p][v]
    BY <1>0, <1>8, PublishAdds, UnreleasedIsNoMap
  <2>3. UNCHANGED <<repo, tree, pc, at, cats>>
    BY <1>8 DEF Publish
  <2>4. /\ repo.merged \in [Plugins -> Versions \cup {0}]
        /\ tree.merged \in [Plugins -> Versions \cup {0}]
    BY <1>0 DEF TypeOK, Checkouts
  <2>5. ASSUME NEW c, c' = c, c.merged \in [Plugins -> Versions \cup {0}], NEW k, k' = k, Follows(c, k)
        PROVE  Follows(c, k)'
    BY <2>1, <2>2, <2>5 DEF Follows
  <2> QED BY <1>0, <2>3, <2>4, <2>5 DEF Followed, InStep, Unmerged
<1>9. CASE Unpublish
  BY <1>0, <1>9 DEF Unpublish, Followed, Follows, Sole, InStep, Unmerged
<1>10. CASE EditEntry
  <2>1. PICK e \in Entries, range \in Ranges \cup {Absent}, place \in DOMAIN repo.manifest :
          LET manifest == [repo.manifest EXCEPT ![place][e] = range]
              reads    == ReadManifest(manifest)[e]
          IN /\ manifest \in Manifests
             /\ repo' = [repo EXCEPT
                  !.manifest = manifest,
                  !.author[e] = IF reads = ReadManifest(repo.manifest)[e] THEN @
                                ELSE IF reads = Absent THEN Nobody
                                ELSE User]
    BY <1>10 DEF EditEntry
  <2> DEFINE manifest == [repo.manifest EXCEPT ![place][e] = range]
             reads    == ReadManifest(manifest)
             was      == ReadManifest(repo.manifest)
  <2>2. \A f \in Entries \ {e} : reads[f] = was[f]
    <3>1. repo.manifest \in Manifests
      BY <1>0 DEF TypeOK, Checkouts
    <3>2. manifest \in Manifests
      BY <2>1
    <3>3. ASSUME NEW f \in Entries \ {e} PROVE reads[f] = was[f]
      BY ONLY <3>1, <3>2, EditsAreLocal
    <3> QED BY <3>3
  <2>3. /\ repo'.manifest = manifest /\ repo'.merged = repo.merged
        /\ repo'.locked = repo.locked /\ repo'.drift = repo.drift
        /\ \A f \in Entries \ {e} : repo'.author[f] = repo.author[f]
        /\ repo'.author[e] \in {Nobody, User} \/ (reads[e] = was[e] /\ repo'.author[e] = repo.author[e])
    <3> HIDE DEF manifest, reads, was
    <3>1. repo' = [repo EXCEPT !.manifest = manifest,
                               !.author[e] = IF reads[e] = was[e] THEN @
                                             ELSE IF reads[e] = Absent THEN Nobody ELSE User]
      BY <2>1 DEF manifest, reads, was
    <3> QED BY <1>0, <3>1 DEF TypeOK, Checkouts
  <2>4. pc' = "idle" /\ ships' = ships
    BY <1>10 DEF EditEntry
  <2>5. ASSUME ~repo.drift PROVE Follows(repo, ReadManifest(repo.manifest))'
    <3>1. Follows(repo, was)
      BY <1>0, <2>5 DEF Followed
    <3>2. ReadManifest(repo.manifest)' = reads
      BY <2>3
    <3> HIDE DEF reads, was
    <3>3. \A f \in Entries, p \in Plugins : repo'.author[f] = p => repo.author[f] = p /\ reads[f] = was[f]
      BY <2>2, <2>3, RunsAssumption
    <3> QED BY <2>3, <2>4, <3>1, <3>2, <3>3 DEF Follows, Sole
  <2> QED BY <1>0, <2>3, <2>4, <2>5 DEF Followed, InStep
<1>11. CASE BumpDeclared
  <2>1. /\ repo'.manifest = repo.manifest /\ repo'.merged = repo.merged /\ repo'.author = repo.author
        /\ repo'.locked = repo.locked /\ repo'.drift = repo.drift
    BY <1>0, <1>11 DEF BumpDeclared, TypeOK, Checkouts
  <2>2. pc' = "idle" /\ ships' = ships
    BY <1>11 DEF BumpDeclared
  <2> QED BY <1>0, <2>1, <2>2 DEF Followed, Follows, Sole, InStep
<1>12. CASE LoseLockfile
  <2>1. /\ repo'.manifest = repo.manifest /\ repo'.merged = repo.merged /\ repo'.author = repo.author
        /\ ~repo'.drift => ~repo.drift /\ \A p \in Plugins : repo.merged[p] = 0
    BY <1>0, <1>12 DEF LoseLockfile, TypeOK, Checkouts
  <2>2. pc' = "idle" /\ ships' = ships
    BY <1>12 DEF LoseLockfile
  <2> QED BY <1>0, <2>1, <2>2 DEF Followed, Follows, Sole, InStep
<1>13. CASE UNCHANGED vars
  BY <1>0, <1>13 DEF vars, Followed, Follows, Sole, InStep, Unmerged
<1> QED BY <1>1, <1>2, <1>3, <1>4, <1>5, <1>6, <1>7, <1>8, <1>9, <1>10, <1>11, <1>12, <1>13
        DEF Next, RunStep, WorldStep

LEMMA InitFollowed == Init => Followed
<1> SUFFICES ASSUME Init PROVE Followed
  OBVIOUS
<1>1. PICK manifest \in Manifests :
        repo = [manifest |-> manifest,
                declared |-> [p \in Plugins |-> 1],
                locked   |-> [p \in Plugins |-> 1],
                author   |-> [e \in Entries |->
                                IF ReadManifest(manifest)[e] = Absent THEN Nobody ELSE User],
                merged   |-> [p \in Plugins |-> 0],
                drift    |-> FALSE]
  BY DEF Init
<1>2. \A e \in Entries : repo.author[e] \in {Nobody, User}
  BY <1>1
<1>3. \A p \in Plugins : repo.merged[p] = 0
  BY <1>1
<1> QED BY <1>2, <1>3, RunsAssumption DEF Init, Followed, Follows, InStep

\* While the lockfile names what was merged, an entry only one dependency ships
\* moves with its releases (CatalogRuns' FollowsMerged).
THEOREM EntriesFollowReleases == Spec => []FollowsMerged
<1>1. FollowInv => FollowsMerged
  BY DEF FollowInv, Followed, Follows, Sole, FollowsMerged
<1>2. Init => FollowInv
  BY InitWritesBack, InitOverrides, InitFollowed DEF FollowInv
<1>3. FollowInv /\ [Next]_vars => FollowInv'
  BY NextWritesBack, NextOverrides, NextFollowed DEF FollowInv
<1> QED BY <1>1, <1>2, <1>3, PTL DEF Spec

=============================================================================
