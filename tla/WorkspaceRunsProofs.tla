------------------------- MODULE WorkspaceRunsProofs -------------------------
(***************************************************************************)
(* Proofs about WorkspaceRuns, for any workspace, releases and inputs.     *)
(***************************************************************************)
EXTENDS WorkspaceRuns, TLAPS

-----------------------------------------------------------------------------
(* Versions and specifiers *)

LEMMA HighestIs ==
  ASSUME NEW S \in SUBSET Versions, S # {}
  PROVE  Highest(S) \in S /\ Highest(S) \in Numbers
<1>1. \E v \in S : \A w \in S : ~Older(v, w)
  BY VersionsAssumption
<1>2. Highest(S) \in S
  BY <1>1 DEF Highest
<1> QED BY <1>2, VersionsAssumption

LEMMA ResolvesInside ==
  ASSUME NEW S \in SUBSET Versions
  PROVE  /\ ResolveLatest(S) \in Numbers \cup {None}
         /\ ResolveLatest(S) # None => ResolveLatest(S) \in S /\ ResolveLatest(S) \in Numbers
         /\ S # {} => ResolveLatest(S) # None
<1>1. CASE S = {}
  BY <1>1 DEF ResolveLatest
<1>2. CASE S # {}
  <2>1. ResolveLatest(S) = Highest(S)
    BY <1>2 DEF ResolveLatest
  <2>2. Highest(S) \in S /\ Highest(S) \in Numbers
    BY <1>2, HighestIs
  <2> QED BY <2>1, <2>2, <1>2, VersionsAssumption
<1> QED BY <1>1, <1>2

LEMMA NotOlderThanItself == ASSUME NEW v \in Numbers PROVE ~Older(v, v)
BY DEF Older, Numbers

LEMMA Trichotomy ==
  ASSUME NEW v \in Numbers, NEW w \in Numbers, ~Older(v, w), v # w
  PROVE  Older(w, v)
<1>1. PICK a, b, c \in Nat : v = <<a, b, c>>
  BY DEF Numbers
<1>2. PICK x, y, z \in Nat : w = <<x, y, z>>
  BY DEF Numbers
<1>3. a # x \/ b # y \/ c # z
  BY <1>1, <1>2
<1> QED BY <1>1, <1>2, <1>3 DEF Older

\* A declaration that parses is one operator and one version.
LEMMA ParsedIsSpec ==
  ASSUME NEW declared \in Declared, Parses(declared) PROVE declared \in Specs
BY DEF Declared, References, Parses, Operators

LEMMA ExactIsSpec == ASSUME NEW v \in Numbers PROVE Exact(v) \in Specs
BY DEF Exact, Specs, Operators

\* A bump is a specifier again; when it moved, the version it was resolved to.
LEMMA BumpIs ==
  ASSUME NEW spec \in Specs, NEW eligible \in SUBSET Versions
  PROVE  /\ Bump(spec, eligible) \in Specs
         /\ Bump(spec, eligible) # spec =>
              /\ Bump(spec, eligible).at \in eligible
              /\ Bump(spec, eligible).op = spec.op
<1> DEFINE best == ResolveLatest({v \in eligible : ResolutionRange(spec, v)})
<1>1. best \in Numbers \cup {None} /\ (best # None => best \in eligible /\ best \in Numbers)
  BY ResolvesInside
<1>2. Bump(spec, eligible) = IF best = None THEN spec ELSE [spec EXCEPT !.at = best]
  BY DEF Bump
<1> HIDE DEF best
<1>3. CASE best = None
  BY <1>2, <1>3
<1>4. CASE best # None
  <2>1. best \in eligible /\ best \in Numbers
    BY <1>1, <1>4
  <2>2. Bump(spec, eligible) = [spec EXCEPT !.at = best]
    BY <1>2, <1>4
  <2> QED BY <2>1, <2>2 DEF Specs
<1> QED BY <1>3, <1>4

\* A specifier that is not strict admits the version it names.
LEMMA AdmitsItsVersion ==
  ASSUME NEW spec \in Specs, spec.op \notin {">", "<"}
  PROVE  Admits(spec, spec.at)
<1>1. spec.at \in Numbers /\ spec.op \in {"", "^", "~", ">=", "<="}
  BY DEF Specs, Operators
<1>2. ~Older(spec.at, spec.at)
  BY <1>1, NotOlderThanItself
<1> HIDE DEF Older
<1> QED BY <1>1, <1>2 DEF Admits

LEMMA PeerRangeIs ==
  ASSUME NEW strategy \in {"none", "lock", "minor"}, NEW peer \in Specs,
         NEW old \in Numbers, NEW new \in Numbers
  PROVE  PeerRange(strategy, peer, old, new) \in Specs \cup {None}
<1>1. <<new[1], new[2], 0>> \in Numbers
  BY DEF Numbers
<1>2. [peer EXCEPT !.at = new] \in Specs /\ [peer EXCEPT !.at = <<new[1], new[2], 0>>] \in Specs
  BY <1>1 DEF Specs
<1> QED BY <1>2 DEF PeerRange

-----------------------------------------------------------------------------
(* Pins *)

LEMMA ReferenceIs ==
  ASSUME NEW pins \in Pins PROVE Reference(pins) \in Numbers \cup {None}
BY DEF Reference, Pins, Pinned

\* What a range resolves to is published; under auto, in the reference's major.
LEMMA WantedIs ==
  ASSUME NEW pins \in Pins, NEW mode \in Modes, NEW available \in SUBSET Versions
  PROVE  /\ Wanted(pins, mode, available) \in Numbers \cup {None}
         /\ Wanted(pins, mode, available) # None =>
              /\ mode # Off
              /\ Wanted(pins, mode, available) \in Numbers
              /\ mode = Automatic =>
                   /\ Reference(pins) \in Numbers
                   /\ ~Older(Wanted(pins, mode, available), Reference(pins))
                   /\ Wanted(pins, mode, available)[1] = Reference(pins)[1]
<1> DEFINE S == {v \in available : Admits(Target(pins, mode), v)}
           w == Wanted(pins, mode, available)
<1>1. CASE mode = Off \/ (mode = Automatic /\ Reference(pins) = None)
  BY <1>1 DEF Wanted
<1>2. CASE ~(mode = Off \/ (mode = Automatic /\ Reference(pins) = None))
  <2>1. w = ResolveLatest(S)
    BY <1>2 DEF Wanted
  <2>2. w \in Numbers \cup {None} /\ (w # None => w \in S /\ w \in Numbers)
    BY <2>1, ResolvesInside
  <2>3. w # None /\ mode = Automatic =>
          /\ Reference(pins) \in Numbers
          /\ ~Older(w, Reference(pins))
          /\ w[1] = Reference(pins)[1]
    <3> SUFFICES ASSUME w # None, mode = Automatic
                 PROVE  /\ Reference(pins) \in Numbers
                        /\ ~Older(w, Reference(pins))
                        /\ w[1] = Reference(pins)[1]
      OBVIOUS
    <3>1. Reference(pins) \in Numbers
      BY <1>2, ReferenceIs
    <3>2. Target(pins, mode) = [op |-> "^", at |-> Reference(pins)]
      BY DEF Target
    <3>3. Admits([op |-> "^", at |-> Reference(pins)], w)
      BY <2>2, <3>2
    <3> HIDE DEF w
    <3> QED BY <3>1, <3>3 DEF Admits
  <2> QED BY <2>2, <2>3, <1>2
<1> QED BY <1>1, <1>2

LEMMA FieldMoves ==
  ASSUME NEW ops \in SUBSET {"", "^", "~"}, NEW field \in Pinned(ops), NEW v \in Numbers
  PROVE  /\ At(field, v) \in Pinned(ops) /\ At(field, v) # None
         /\ At(field, v).op = field.op /\ At(field, v).at = v
         /\ Bare(field) \in Pinned(ops) /\ Bare(field) # None
         /\ Bare(field).op = field.op /\ Bare(field).at = field.at
<1>1. /\ At(field, v) \in Pinned(ops) /\ At(field, v).op = field.op /\ At(field, v).at = v
      /\ Bare(field) \in Pinned(ops) /\ Bare(field).op = field.op /\ Bare(field).at = field.at
  BY DEF At, Bare, Pinned
<1>2. Pinned(ops) \subseteq Pinned({"", "^", "~"})
  BY DEF Pinned
<1> QED BY <1>1, <1>2, PinsAssumption

LEMMA NewPinIs ==
  ASSUME NEW v \in Numbers
  PROVE  NewPin(v) \in Pinned({""}) /\ NewPin(v) # None /\ NewPin(v).op = "" /\ NewPin(v).at = v
<1>1. NewPin(v) \in Pinned({""}) /\ NewPin(v).op = "" /\ NewPin(v).at = v
  BY DEF NewPin, Pinned
<1>2. Pinned({""}) \subseteq Pinned({"", "^", "~"})
  BY DEF Pinned
<1> QED BY <1>1, <1>2, PinsAssumption

LEMMA PinsAre ==
  ASSUME NEW p \in Pinned({""}) \cup {None}, NEW d \in Pinned({"", "^", "~"}) \cup {None}
  PROVE  [packageManager |-> p, devEngines |-> d] \in Pins
BY DEF Pins

\* What the service makes of the fields are fields; the ones there stay, under
\* their operators, at the new version or, without one, where they were.
LEMMA UpgradedIs ==
  ASSUME NEW pins \in Pins, NEW v \in Numbers \cup {None}
  PROVE  LET up    == Upgraded(pins, v)
             moves == v # None /\ v # Reference(pins)
         IN  /\ up \in Pins
             /\ pins.packageManager # None =>
                  /\ up.packageManager # None
                  /\ up.packageManager.op = pins.packageManager.op
                  /\ up.packageManager.at = IF moves THEN v ELSE pins.packageManager.at
             /\ pins.devEngines # None =>
                  /\ up.devEngines # None
                  /\ up.devEngines.op = pins.devEngines.op
                  /\ up.devEngines.at = IF moves THEN v ELSE pins.devEngines.at
<1> DEFINE p == pins.packageManager
           d == pins.devEngines
<1>1. /\ p \in Pinned({""}) \cup {None} /\ d \in Pinned({"", "^", "~"}) \cup {None}
      /\ p # None => p.op = ""
  BY DEF Pins, Pinned
<1>2. /\ p # None => Bare(p) \in Pinned({""}) /\ Bare(p) # None /\ Bare(p).op = p.op /\ Bare(p).at = p.at
      /\ d # None => /\ Bare(d) \in Pinned({"", "^", "~"}) /\ Bare(d) # None
                     /\ Bare(d).op = d.op /\ Bare(d).at = d.at
  <2>1. <<1, 1, 1>> \in Numbers
    BY DEF Numbers
  <2>2. ASSUME p # None PROVE /\ Bare(p) \in Pinned({""}) /\ Bare(p) # None
                              /\ Bare(p).op = p.op /\ Bare(p).at = p.at
    <3>1. p \in Pinned({""}) /\ {""} \in SUBSET {"", "^", "~"}
      BY <1>1, <2>2
    <3> HIDE DEF p
    <3> QED BY <3>1, <2>1, FieldMoves
  <2>3. ASSUME d # None PROVE /\ Bare(d) \in Pinned({"", "^", "~"}) /\ Bare(d) # None
                              /\ Bare(d).op = d.op /\ Bare(d).at = d.at
    <3>1. d \in Pinned({"", "^", "~"})
      BY <1>1, <2>3
    <3> HIDE DEF d
    <3> QED BY <3>1, <2>1, FieldMoves
  <2> QED BY <2>2, <2>3
<1>3. CASE v = None
  BY <1>3 DEF Upgraded
<1>4. CASE v # None /\ v = Reference(pins)
  <2>1. Upgraded(pins, v) = [packageManager |-> IF p = None THEN None ELSE Bare(p),
                             devEngines     |-> IF d = None THEN None ELSE Bare(d)]
    BY <1>4 DEF Upgraded, Normalized
  <2> DEFINE A == IF p = None THEN None ELSE Bare(p)
             B == IF d = None THEN None ELSE Bare(d)
  <2>2. A \in Pinned({""}) \cup {None} /\ B \in Pinned({"", "^", "~"}) \cup {None}
    BY <1>2
  <2>3. /\ p # None => A # None /\ A.op = p.op /\ A.at = p.at
        /\ d # None => B # None /\ B.op = d.op /\ B.at = d.at
    BY <1>2
  <2>4. Upgraded(pins, v) = [packageManager |-> A, devEngines |-> B]
    BY <2>1
  <2> HIDE DEF A, B
  <2>5. Upgraded(pins, v) \in Pins
    BY <2>2, <2>4, PinsAre
  <2>6. Upgraded(pins, v).packageManager = A /\ Upgraded(pins, v).devEngines = B
    BY <2>4
  <2> QED BY <2>3, <2>5, <2>6, <1>1, <1>4
<1>5. CASE v # None /\ v # Reference(pins)
  <2>1. Upgraded(pins, v) =
          [packageManager |-> IF p = None /\ d # None THEN None ELSE NewPin(v),
           devEngines     |-> IF d = None THEN None ELSE At(d, v)]
    BY <1>5 DEF Upgraded, Repinned
  <2>2. v \in Numbers
    BY <1>5
  <2>3. NewPin(v) \in Pinned({""}) /\ NewPin(v) # None /\ NewPin(v).op = "" /\ NewPin(v).at = v
    BY <2>2, NewPinIs
  <2>4. d # None => d \in Pinned({"", "^", "~"})
    BY <1>1
  <2>5. d # None => /\ At(d, v) \in Pinned({"", "^", "~"}) /\ At(d, v) # None
                    /\ At(d, v).op = d.op /\ At(d, v).at = v
    BY <2>2, <2>4, FieldMoves
  <2> DEFINE A == IF p = None /\ d # None THEN None ELSE NewPin(v)
             B == IF d = None THEN None ELSE At(d, v)
  <2>6. A \in Pinned({""}) \cup {None} /\ B \in Pinned({"", "^", "~"}) \cup {None}
    BY <2>3, <2>5
  <2>7. /\ p # None => A # None /\ A.op = p.op /\ A.at = v
        /\ d # None => B # None /\ B.op = d.op /\ B.at = v
    BY <2>3, <2>5, <1>1
  <2>8. Upgraded(pins, v) = [packageManager |-> A, devEngines |-> B]
    BY <2>1
  <2> HIDE DEF A, B
  <2>9. Upgraded(pins, v) \in Pins
    BY <2>6, <2>8, PinsAre
  <2>10. Upgraded(pins, v).packageManager = A /\ Upgraded(pins, v).devEngines = B
    BY <2>8
  <2> QED BY <2>7, <2>9, <2>10, <1>5
<1> QED BY <1>3, <1>4, <1>5

LEMMA RuntimeIs ==
  ASSUME NEW entry \in Specs \cup {None}, NEW mode \in Modes, NEW available \in SUBSET Versions
  PROVE  /\ RuntimeTo(entry, mode, available) \in Specs \cup {None}
         /\ RuntimeTo(entry, mode, available) # entry => RuntimeTo(entry, mode, available) \in Specs
<1> DEFINE range == IF mode = Automatic THEN entry ELSE mode
           best  == ResolveLatest({v \in available : Admits(range, v)})
<1>1. best # None => best \in Numbers
  BY ResolvesInside
<1>2. best # None => Exact(best) \in Specs
  BY <1>1, ExactIsSpec
<1>3. RuntimeTo(entry, mode, available) =
        IF entry = None \/ mode = Off \/ (mode = Automatic /\ entry.op = "") THEN entry
        ELSE IF best = None THEN entry ELSE Exact(best)
  BY DEF RuntimeTo
<1> HIDE DEF best
<1> QED BY <1>2, <1>3

-----------------------------------------------------------------------------
(* What a lookup and an install find *)

Registry == published \in [Names -> SUBSET Versions] /\ young \in [Names -> SUBSET Versions]

LEMMA DepsAreNames == Deps \subseteq Names /\ Gated \subseteq Names /\ "plugin" \in Names
                      /\ "manager" \in Names /\ "runtime" \in Names
BY DEF Names, Gated

LEMMA InstallableIs ==
  ASSUME Registry, NEW n \in Names, NEW blind, NEW t
  PROVE  Installable(t, n) \in SUBSET Versions /\ Eligible(n, blind) \in SUBSET Versions
BY DEF Registry, Installable, Eligible

LEMMA ResolutionIs ==
  ASSUME Registry, NEW t, NEW spec, NEW n \in Names
  PROVE  /\ Resolution(t, spec, n) \in Numbers \cup {None}
         /\ \A v \in Installable(t, n) : Admits(spec, v) => Resolution(t, spec, n) # None
         /\ Resolution(t, spec, n) # None =>
              \E v \in Installable(t, n) : Admits(spec, v)
<1> DEFINE S == {v \in Installable(t, n) : Admits(spec, v)}
<1>1. S \in SUBSET Versions
  BY InstallableIs
<1>2. Resolution(t, spec, n) = ResolveLatest(S)
  BY DEF Resolution
<1>3. /\ ResolveLatest(S) \in Numbers \cup {None}
      /\ ResolveLatest(S) # None => ResolveLatest(S) \in S
      /\ S # {} => ResolveLatest(S) # None
  BY <1>1, ResolvesInside
<1> QED BY <1>2, <1>3

LEMMA CatalogSpecIs ==
  ASSUME NEW t \in Trees, NEW e \in Entries PROVE CatalogSpec(t, e) \in Specs \cup {None}
<1>1. t.catalogs[e] \in Specs \cup {None}
  BY DEF Trees
<1>2. ASSUME t.plugin.at \in Versions PROVE Ships[t.plugin.at][e] \in Specs \cup {None}
  BY <1>2, WorkspaceAssumption
<1> QED BY <1>1, <1>2 DEF CatalogSpec

\* A tree that can be installed gets a lockfile.
LEMMA NewLockIs ==
  ASSUME Registry, NEW t \in Trees, CanInstall(t) PROVE NewLock(t) \in Locks
<1> DEFINE I == Recorded(t)
           E == [e \in Entries |->
                   IF CatalogSpec(t, e) = None \/ (input.pm = "pnpm" /\ ~Consumed(t, e))
                   THEN None
                   ELSE [spec |-> CatalogSpec(t, e),
                         version |-> Resolution(t, CatalogSpec(t, e), e[2])]]
           R == [d \in Deps |-> {Resolution(t, Asked(t, s), d) : s \in Used(t, d)}]
           P == IF t.plugin = None THEN None ELSE t.plugin.at
<1>1. I \in [Slots -> Declared]
  BY DEF Trees, Declared, Recorded
<1>2. E \in [Entries -> Locked]
  <2>1. ASSUME NEW e \in Entries, CatalogSpec(t, e) # None
        PROVE  [spec |-> CatalogSpec(t, e), version |-> Resolution(t, CatalogSpec(t, e), e[2])] \in Locked
    <3>1. e[2] \in Names
      BY DepsAreNames DEF Entries
    <3>2. CatalogSpec(t, e) \in Specs
      BY <2>1, CatalogSpecIs
    <3>3. Resolution(t, CatalogSpec(t, e), e[2]) \in Numbers \cup {None}
      BY <3>1, ResolutionIs
    <3> QED BY <3>2, <3>3 DEF Locked, Resolved
  <2>2. None \in Locked
    BY DEF Locked
  <2> QED BY <2>1, <2>2
<1>3. R \in [Deps -> SUBSET Numbers]
  <2>1. ASSUME NEW d \in Deps, NEW s \in Used(t, d) PROVE Resolution(t, Asked(t, s), d) \in Numbers
    <3>1. Resolution(t, Asked(t, s), d) # None
      BY DEF CanInstall
    <3>2. d \in Names
      BY DepsAreNames
    <3>3. Resolution(t, Asked(t, s), d) \in Numbers \cup {None}
      BY <3>2, ResolutionIs
    <3> QED BY <3>1, <3>3
  <2> QED BY <2>1
<1>4. P \in Numbers \cup {None}
  BY DEF Trees, Plugins, Plugged
<1>5. NewLock(t) = [importers |-> I, entries |-> E, resolved |-> R, plugin |-> P]
  BY DEF NewLock
<1> HIDE DEF I, E, R, P
<1> QED BY <1>1, <1>2, <1>3, <1>4, <1>5 DEF Locks

-----------------------------------------------------------------------------
(* What the peer synchronisation writes *)

PeerReports == [type : {"peerDependency"}, dependency : Deps, package : Packages,
                from : Specs, to : Specs]

\* A report about a section of a package names two specifiers.
LEMMA SectionReport ==
  ASSUME NEW u \in Reports, u.type \in Types
  PROVE  /\ u.from \in Specs /\ u.to \in Specs /\ u.package \in Packages
         /\ u.dependency \in Deps
BY DEF Reports, Types, WritableTypes

LEMMA PeerReportsAreReports == PeerReports \subseteq Reports
BY DEF PeerReports, Reports, Types

\* What the loop holds of a peer range between two sections.
Accs == [peer : Declared, reports : SUBSET PeerReports, failed : BOOLEAN]

\* A section's updates leave a peer range a declaration, add reports of peer ranges,
\* and change nothing they do not report.
LEMMA SyncSectionIs ==
  ASSUME updates \subseteq Reports, input \in Inputs,
         NEW type \in WritableTypes, NEW p \in Packages, NEW d \in Deps, NEW outcome,
         NEW acc \in Accs
  PROVE  LET next == SyncSection(acc, type, p, d, outcome)
         IN  /\ next \in Accs
             /\ acc.reports \subseteq next.reports
             /\ next.reports = {} => next.peer = acc.peer
<1> DEFINE bumps == {u \in Synchronised : u.type = type /\ u.dependency = d /\ u.package = p}
           u     == CHOOSE u \in bumps : TRUE
           new   == PeerRange(input.strategy[d], acc.peer, u.from.at, u.to.at)
           next  == SyncSection(acc, type, p, d, outcome)
           lost  == [acc EXCEPT !.failed = TRUE]
           far   == [peer    |-> IF outcome[u] = "done" THEN new ELSE acc.peer,
                     reports |-> acc.reports \cup {Report("peerDependency", d, p, acc.peer, new)},
                     failed  |-> acc.failed \/ outcome[u] = "unwritten"]
<1>1. next = IF bumps = {} THEN acc
             ELSE IF outcome[u] = "unread" THEN lost
             ELSE IF ~Parses(acc.peer) \/ new \in {None, acc.peer} THEN acc ELSE far
  BY DEF SyncSection
<1>2. CASE next = acc
  BY <1>2
<1>3. CASE next = lost
  <2>1. lost \in Accs /\ lost.peer = acc.peer /\ lost.reports = acc.reports
    BY DEF Accs
  <2> HIDE DEF lost, next
  <2>2. next \in Accs /\ next.peer = acc.peer /\ next.reports = acc.reports
    BY <1>3, <2>1
  <2> QED BY <2>2 DEF next
<1>4. CASE next # acc /\ next # lost
  <2>1. bumps # {} /\ Parses(acc.peer) /\ new # None /\ next = far
    BY <1>1, <1>4
  <2>2. acc.peer \in Specs
    BY <2>1, ParsedIsSpec DEF Accs
  <2>3. u \in bumps
    BY <2>1
  <2>4. u \in Reports /\ u.type \in Types
    BY <2>3 DEF Types, Synchronised
  <2>5. u.from.at \in Numbers /\ u.to.at \in Numbers
    BY <2>4, SectionReport DEF Specs
  <2>6. input.strategy[d] \in {"none", "lock", "minor"}
    BY DEF Inputs
  <2>7. new \in Specs \cup {None}
    BY <2>2, <2>5, <2>6, PeerRangeIs
  <2> HIDE DEF u, new, next, bumps
  <2>8. new \in Specs
    BY <2>1, <2>7
  <2>9. Report("peerDependency", d, p, acc.peer, new) \in PeerReports
    BY <2>2, <2>8 DEF Report, PeerReports
  <2>10. new \in Declared
    BY <2>8 DEF Declared
  <2>11. far \in Accs /\ acc.reports \subseteq far.reports /\ far.reports # {}
    BY <2>9, <2>10 DEF Accs
  <2> QED BY <2>1, <2>11 DEF next
<1> QED BY <1>2, <1>3, <1>4

LEMMA SyncedIs ==
  ASSUME updates \subseteq Reports, input \in Inputs, tree \in Trees,
         NEW p \in Packages, NEW d \in Deps, NEW outcome
  PROVE  /\ Synced(p, d, outcome).peer \in Declared
         /\ Synced(p, d, outcome).reports \subseteq PeerReports
         /\ Synced(p, d, outcome).reports = {} =>
              Synced(p, d, outcome).peer = tree.manifest[<<p, "peerDependency", d>>]
<1> DEFINE a0 == [peer |-> tree.manifest[<<p, "peerDependency", d>>], reports |-> {},
                  failed |-> FALSE]
           a1 == SyncSection(a0, "dependency", p, d, outcome)
           a2 == SyncSection(a1, "devDependency", p, d, outcome)
           a3 == SyncSection(a2, "optionalDependency", p, d, outcome)
<1>0. "dependency" \in WritableTypes /\ "devDependency" \in WritableTypes
      /\ "optionalDependency" \in WritableTypes
  BY DEF WritableTypes
<1>1. Synced(p, d, outcome) = a3
  BY DEF Synced
<1>2. <<p, "peerDependency", d>> \in Slots
  BY DEF Slots, Types
<1>3. a0 \in Accs /\ a0.peer = tree.manifest[<<p, "peerDependency", d>>]
  BY <1>2 DEF Trees, Accs
<1> HIDE DEF a0, a1, a2, a3
<1>4. a1 \in Accs /\ a0.reports \subseteq a1.reports /\ (a1.reports = {} => a1.peer = a0.peer)
  BY <1>0, <1>3, SyncSectionIs DEF a1
<1>5. a2 \in Accs /\ a1.reports \subseteq a2.reports /\ (a2.reports = {} => a2.peer = a1.peer)
  BY <1>0, <1>4, SyncSectionIs DEF a2
<1>6. a3 \in Accs /\ a2.reports \subseteq a3.reports /\ (a3.reports = {} => a3.peer = a2.peer)
  BY <1>0, <1>5, SyncSectionIs DEF a3
<1> QED BY <1>1, <1>3, <1>4, <1>5, <1>6 DEF Accs

-----------------------------------------------------------------------------
(* Type correctness, action by action *)

LEMMA TreeParts ==
  ASSUME NEW t \in Trees
  PROVE  /\ t.pins \in Pins /\ t.runtime \in Specs \cup {None} /\ t.plugin \in Plugins
         /\ t.catalogs \in [Entries -> Specs \cup {None}] /\ t.manifest \in [Slots -> Declared]
         /\ t.lock \in Locks \cup {None}
BY DEF Trees

LEMMA TreeMoves ==
  ASSUME NEW t \in Trees
  PROVE  /\ \A x \in Pins : [t EXCEPT !.pins = x] \in Trees
         /\ \A x \in Specs \cup {None} : [t EXCEPT !.runtime = x] \in Trees
         /\ \A x \in Plugins : [t EXCEPT !.plugin = x] \in Trees
         /\ \A x \in [Entries -> Specs \cup {None}] : [t EXCEPT !.catalogs = x] \in Trees
         /\ \A x \in [Slots -> Declared] : [t EXCEPT !.manifest = x] \in Trees
         /\ \A x \in Locks \cup {None} : [t EXCEPT !.lock = x] \in Trees
<1>1. \A x \in Pins : [t EXCEPT !.pins = x] \in Trees
  BY DEF Trees
<1>2. \A x \in Specs \cup {None} : [t EXCEPT !.runtime = x] \in Trees
  BY DEF Trees
<1>3. \A x \in Plugins : [t EXCEPT !.plugin = x] \in Trees
  BY DEF Trees
<1>4. \A x \in [Entries -> Specs \cup {None}] : [t EXCEPT !.catalogs = x] \in Trees
  BY DEF Trees
<1>5. \A x \in [Slots -> Declared] : [t EXCEPT !.manifest = x] \in Trees
  BY DEF Trees
<1>6. \A x \in Locks \cup {None} : [t EXCEPT !.lock = x] \in Trees
  BY DEF Trees
<1> QED BY <1>1, <1>2, <1>3, <1>4, <1>5, <1>6

LEMMA TypeRegistry == TypeOK => Registry
BY DEF TypeOK, Registry

LEMMA InitType == Init => TypeOK
<1> SUFFICES ASSUME Init PROVE TypeOK
  OBVIOUS
<1>1. PICK start \in Starts :
        /\ input = start.input
        /\ published = Published0 /\ young = [n \in Names |-> {}] /\ events = 0
        /\ start.locked => CanInstall(start.repo)
        /\ repo = [start.repo EXCEPT !.lock = IF start.locked THEN NewLock(start.repo) ELSE None]
        /\ tree = repo /\ pc = "idle" /\ before = None
        /\ updates = {} /\ wanted = None /\ changes = {} /\ broken = {}
        /\ clean = TRUE /\ quiet = TRUE /\ settled = FALSE
  BY DEF Init
<1>2. input \in Inputs /\ start.repo \in Trees /\ start.locked \in BOOLEAN
  BY <1>1, WorkspaceAssumption
<1>3. Registry
  BY <1>1, WorkspaceAssumption DEF Registry
<1>4. start.locked => NewLock(start.repo) \in Locks
  BY <1>1, <1>2, <1>3, NewLockIs
<1>5. repo \in Trees /\ tree \in Trees
  BY <1>1, <1>2, <1>4, TreeMoves
<1>6. events \in 0..MaxEvents
  BY <1>1, WorkspaceAssumption
<1>7. /\ pc = "idle" /\ before = None /\ updates = {} /\ wanted = None /\ broken = {}
      /\ clean = TRUE /\ quiet = TRUE /\ settled = FALSE
  BY <1>1
<1>8. published \in [Names -> SUBSET Versions] /\ young \in [Names -> SUBSET Versions]
  BY <1>3 DEF Registry
<1> QED BY <1>2, <1>5, <1>6, <1>7, <1>8 DEF TypeOK

LEMMA ManagerType == TypeOK /\ UpgradeManager => TypeOK'
<1> SUFFICES ASSUME TypeOK, UpgradeManager PROVE TypeOK'
  OBVIOUS
<1> DEFINE v   == Wanted(tree.pins, input.manager, published["manager"])
           ref == Reference(tree.pins)
           rep == Report("packageManager", "manager", None,
                         IF ref = None THEN None ELSE Exact(ref), Exact(v))
<1>1. tree.pins \in Pins /\ input.manager \in Modes /\ published["manager"] \in SUBSET Versions
  BY TreeParts, DepsAreNames DEF TypeOK, Inputs
<1>2. v \in Numbers \cup {None} /\ ref \in Numbers \cup {None}
  BY <1>1, WantedIs, ReferenceIs
<1>3. Upgraded(tree.pins, v) \in Pins
  BY <1>1, <1>2, UpgradedIs
<1>4. [tree EXCEPT !.pins = Upgraded(tree.pins, v)] \in Trees
  BY <1>3, TreeMoves DEF TypeOK
<1>5. v # None => rep \in Reports
  BY <1>2, ExactIsSpec, DepsAreNames DEF Report, Reports
<1>6. tree' \in Trees /\ wanted' \in Numbers \cup {None} /\ updates' \subseteq Reports
      /\ clean' \in BOOLEAN
  <2> HIDE DEF v, ref, rep
  <2>1. \/ /\ tree' = [tree EXCEPT !.pins = Upgraded(tree.pins, v)]
           /\ wanted' = IF v # None /\ v # ref THEN v ELSE None
           /\ updates' = IF ~(v # None /\ v # ref) THEN updates ELSE updates \cup {rep}
           /\ clean' = clean
        \/ clean' = FALSE /\ UNCHANGED <<tree, wanted, updates>>
    BY DEF UpgradeManager, v, ref, rep
  <2> QED BY <2>1, <1>2, <1>4, <1>5 DEF TypeOK
<1> QED BY <1>6 DEF UpgradeManager, TypeOK, worldVars

LEMMA RuntimesType == TypeOK /\ UpgradeRuntimes => TypeOK'
<1> SUFFICES ASSUME TypeOK, UpgradeRuntimes PROVE TypeOK'
  OBVIOUS
<1> DEFINE to  == RuntimeTo(tree.runtime, input.runtime, published["runtime"])
           rep == Report("runtime", "runtime", None, tree.runtime, to)
<1>1. tree.runtime \in Specs \cup {None} /\ input.runtime \in Modes
      /\ published["runtime"] \in SUBSET Versions
  BY TreeParts, DepsAreNames DEF TypeOK, Inputs
<1>2. to \in Specs \cup {None} /\ (to # tree.runtime => to \in Specs)
  BY <1>1, RuntimeIs
<1>3. [tree EXCEPT !.runtime = to] \in Trees
  BY <1>2, TreeMoves DEF TypeOK
<1>4. to # tree.runtime => rep \in Reports
  BY <1>1, <1>2, DepsAreNames DEF Report, Reports
<1>5. tree' \in Trees /\ updates' \subseteq Reports /\ clean' \in BOOLEAN
  <2> HIDE DEF to, rep
  <2>1. \/ /\ tree' = [tree EXCEPT !.runtime = to]
           /\ updates' = IF to # tree.runtime THEN updates \cup {rep} ELSE updates
           /\ clean' = clean
        \/ clean' = FALSE /\ UNCHANGED <<tree, updates>>
    BY DEF UpgradeRuntimes, to, rep, RuntimeMoves
  <2> QED BY <2>1, <1>3, <1>4 DEF TypeOK
<1> QED BY <1>5 DEF UpgradeRuntimes, TypeOK, worldVars

LEMMA ConfigType == TypeOK /\ UpdateConfigDependency => TypeOK'
<1> SUFFICES ASSUME TypeOK, UpdateConfigDependency PROVE TypeOK'
  OBVIOUS
<1>1. PICK blind \in SUBSET {"plugin"}, written \in BOOLEAN :
        LET at == tree.plugin.at
            to == PluginTo(blind)
        IN
        /\ pc = "config" /\ pc' = "regular"
        /\ to # None
        /\ tree' = IF written THEN [tree EXCEPT !.plugin = [at |-> to, integrity |-> FALSE]] ELSE tree
        /\ updates' = IF to = at THEN updates
                      ELSE updates \cup {Report("config", "plugin", None, Exact(at), Exact(to))}
        /\ clean' = (clean /\ written /\ blind = {})
        /\ UNCHANGED <<input, repo, before, wanted, changes, broken, quiet, settled, worldVars>>
  BY DEF UpdateConfigDependency
<1> DEFINE to == PluginTo(blind)
           rep == Report("config", "plugin", None, Exact(tree.plugin.at), Exact(to))
<1>2. to \in Numbers /\ tree.plugin # None
  <2>1. Eligible("plugin", blind) \in SUBSET Versions
    BY TypeRegistry, InstallableIs, DepsAreNames
  <2>2. to = ResolveLatest({v \in Eligible("plugin", blind) : ConfigDepUpgradeRange(tree.plugin.at, v)})
        /\ tree.plugin # None
    BY <1>1 DEF PluginTo
  <2> QED BY <1>1, <2>1, <2>2, ResolvesInside
<1>3. tree.plugin.at \in Numbers
  BY <1>2, TreeParts DEF TypeOK, Plugins, Plugged
<1>4. rep \in Reports
  BY <1>2, <1>3, ExactIsSpec, DepsAreNames DEF Report, Reports
<1>5. [tree EXCEPT !.plugin = [at |-> to, integrity |-> FALSE]] \in Trees
  <2>1. [at |-> to, integrity |-> FALSE] \in Plugins
    BY <1>2 DEF Plugins, Plugged
  <2> QED BY <2>1, TreeMoves DEF TypeOK
<1>6. tree' \in Trees /\ updates' \subseteq Reports
  <2> HIDE DEF to, rep
  <2>1. /\ tree' = IF written THEN [tree EXCEPT !.plugin = [at |-> to, integrity |-> FALSE]] ELSE tree
        /\ updates' = IF to = tree.plugin.at THEN updates ELSE updates \cup {rep}
    BY <1>1 DEF to, rep
  <2> QED BY <2>1, <1>4, <1>5 DEF TypeOK
<1>7. clean' \in BOOLEAN
  BY <1>1
<1> QED BY <1>1, <1>6, <1>7 DEF TypeOK, worldVars

\* What a bumped slot is reported as, and what is written in it.
LEMMA BumpedSlot ==
  ASSUME TypeOK, NEW blind, NEW s \in Slots, s[2] \in WritableTypes, Parses(tree.manifest[s])
  PROVE  LET to == Bump(tree.manifest[s], Eligible(s[3], blind))
         IN  /\ tree.manifest[s] \in Specs /\ to \in Specs /\ to \in Declared
             /\ Report(s[2], s[3], s[1], tree.manifest[s], to) \in Reports
             /\ to # tree.manifest[s] => /\ to.at \in Eligible(s[3], blind)
                                         /\ to.op = tree.manifest[s].op
<1> DEFINE to == Bump(tree.manifest[s], Eligible(s[3], blind))
<1>1. s[1] \in Packages /\ s[2] \in Types /\ s[3] \in Deps
  BY DEF Slots
<1>2. tree.manifest[s] \in Specs
  BY ParsedIsSpec, TreeParts DEF TypeOK
<1>3. Eligible(s[3], blind) \in SUBSET Versions
  BY <1>1, TypeRegistry, InstallableIs, DepsAreNames
<1>4. to \in Specs /\ (to # tree.manifest[s] => to.at \in Eligible(s[3], blind)
                                                 /\ to.op = tree.manifest[s].op)
  BY <1>2, <1>3, BumpIs
<1> HIDE DEF to
<1>5. Report(s[2], s[3], s[1], tree.manifest[s], to) \in Reports
  BY <1>1, <1>2, <1>4 DEF Report, Reports
<1> QED BY <1>2, <1>4, <1>5 DEF Declared, to

LEMMA RegularType == TypeOK /\ UpdateRegularDependencies => TypeOK'
<1> SUFFICES ASSUME TypeOK, UpdateRegularDependencies PROVE TypeOK'
  OBVIOUS
<1>1. PICK silent \in SUBSET input.matched, blind \in SUBSET input.matched,
           failing \in SUBSET Packages :
        LET to(s)  == Bump(tree.manifest[s], Eligible(s[3], blind))
            moving == {s \in Slots : /\ s[2] \in WritableTypes /\ s[3] \in input.matched \ silent
                                     /\ Parses(tree.manifest[s]) /\ to(s) # tree.manifest[s]}
        IN
        /\ pc = "regular" /\ pc' = "peers"
        /\ failing \subseteq {s[1] : s \in moving}
        /\ tree' = [tree EXCEPT !.manifest =
                      [s \in Slots |-> IF s \in moving /\ s[1] \notin failing THEN to(s) ELSE @[s]]]
        /\ updates' = updates \cup {Report(s[2], s[3], s[1], tree.manifest[s], to(s)) : s \in moving}
        /\ broken' = failing
        /\ clean' = (clean /\ silent = {} /\ blind = {})
        /\ UNCHANGED <<input, repo, before, wanted, changes, quiet, settled, worldVars>>
  BY DEF UpdateRegularDependencies
<1> DEFINE to(s)  == Bump(tree.manifest[s], Eligible(s[3], blind))
           moving == {s \in Slots : /\ s[2] \in WritableTypes /\ s[3] \in input.matched \ silent
                                    /\ Parses(tree.manifest[s]) /\ to(s) # tree.manifest[s]}
           man    == [s \in Slots |-> IF s \in moving /\ s[1] \notin failing THEN to(s)
                                                                           ELSE tree.manifest[s]]
           reps   == {Report(s[2], s[3], s[1], tree.manifest[s], to(s)) : s \in moving}
<1>2. ASSUME NEW s \in moving
      PROVE  to(s) \in Declared /\ Report(s[2], s[3], s[1], tree.manifest[s], to(s)) \in Reports
  BY BumpedSlot
<1>3. man \in [Slots -> Declared]
  <2>1. \A s \in Slots : tree.manifest[s] \in Declared
    BY TreeParts DEF TypeOK
  <2> HIDE DEF to, moving
  <2> QED BY <2>1, <1>2
<1>4. reps \subseteq Reports
  BY <1>2
<1>5. tree' = [tree EXCEPT !.manifest = man] /\ updates' = updates \cup reps
  BY <1>1
<1> HIDE DEF to, moving, man, reps
<1>6. tree' \in Trees /\ updates' \subseteq Reports
  BY <1>3, <1>4, <1>5, TreeMoves DEF TypeOK
<1>7. clean' \in BOOLEAN
  BY <1>1
<1> QED BY <1>1, <1>6, <1>7 DEF TypeOK, worldVars

LEMMA PeersType == TypeOK /\ SyncPeers => TypeOK'
<1> SUFFICES ASSUME TypeOK, SyncPeers PROVE TypeOK'
  OBVIOUS
<1>1. PICK outcome \in [Synchronised -> {"done", "unread", "unwritten"}] :
        /\ pc = "peers" /\ pc' = "install"
        /\ tree' = [tree EXCEPT !.manifest =
                      [s \in Slots |-> IF s[2] = "peerDependency" THEN Synced(s[1], s[3], outcome).peer
                                                                  ELSE @[s]]]
        /\ updates' = updates \cup UNION {Synced(s[1], s[3], outcome).reports : s \in Slots}
        /\ broken' = broken \cup {p \in Packages : \E d \in Deps : Synced(p, d, outcome).failed}
        /\ UNCHANGED <<input, repo, before, wanted, changes, clean, quiet, settled, worldVars>>
  BY DEF SyncPeers
<1>2. {p \in Packages : \E d \in Deps : Synced(p, d, outcome).failed} \subseteq Packages
  OBVIOUS
<1> DEFINE man == [s \in Slots |-> IF s[2] = "peerDependency" THEN Synced(s[1], s[3], outcome).peer
                                                              ELSE tree.manifest[s]]
           reps == UNION {Synced(s[1], s[3], outcome).reports : s \in Slots}
<1>3. ASSUME NEW p \in Packages, NEW d \in Deps
      PROVE  Synced(p, d, outcome).peer \in Declared /\ Synced(p, d, outcome).reports \subseteq Reports
  BY SyncedIs, PeerReportsAreReports DEF TypeOK
<1>4. man \in [Slots -> Declared]
  <2>1. \A s \in Slots : tree.manifest[s] \in Declared /\ s[1] \in Packages /\ s[3] \in Deps
    BY TreeParts DEF TypeOK, Slots
  <2> QED BY <2>1, <1>3
<1>5. reps \subseteq Reports
  BY <1>3 DEF Slots
<1>6. tree' = [tree EXCEPT !.manifest = man] /\ updates' = updates \cup reps
  BY <1>1
<1> HIDE DEF man, reps
<1>7. tree' \in Trees /\ updates' \subseteq Reports
  BY <1>4, <1>5, <1>6, TreeMoves DEF TypeOK
<1> QED BY <1>1, <1>2, <1>7 DEF TypeOK, worldVars

LEMMA InstallType == TypeOK /\ Install => TypeOK'
<1> SUFFICES ASSUME TypeOK, Install PROVE TypeOK'
  OBVIOUS
<1>1. NewLock(tree) \in Locks
  BY TypeRegistry, NewLockIs DEF TypeOK, Install
<1>2. [tree EXCEPT !.lock = NewLock(tree)] \in Trees
  BY <1>1, TreeMoves DEF TypeOK
<1> QED BY <1>2 DEF Install, TypeOK, runVars, worldVars

LEMMA EditType ==
  ASSUME TypeOK,
         \/ \E s \in Hand.slots, declared \in Hand.specs : EditSlot(s, declared)
         \/ \E e \in Hand.entries, spec \in Hand.ranges : EditEntry(e, spec)
         \/ Relock
  PROVE  TypeOK'
<1>1. ASSUME NEW files \in Trees, Edit(files) PROVE TypeOK'
  <2>1. events' \in 0..MaxEvents
    <3>1. MaxEvents \in Nat
      BY WorkspaceAssumption
    <3> QED BY <1>1, <3>1 DEF Edit, TypeOK
  <2> QED BY <1>1, <2>1 DEF Edit, TypeOK, runVars
<1>2. ASSUME NEW s \in Hand.slots, NEW declared \in Hand.specs, EditSlot(s, declared) PROVE TypeOK'
  <2>1. s \in Slots /\ declared \in Declared /\ repo.manifest \in [Slots -> Declared] /\ repo \in Trees
    BY WorkspaceAssumption, TreeParts DEF TypeOK
  <2>2. [repo.manifest EXCEPT ![s] = declared] \in [Slots -> Declared]
    BY <2>1
  <2>3. [repo EXCEPT !.manifest = [repo.manifest EXCEPT ![s] = declared]] \in Trees
    BY <2>1, <2>2, TreeMoves
  <2>4. [repo EXCEPT !.manifest[s] = declared] = [repo EXCEPT !.manifest = [repo.manifest EXCEPT ![s] = declared]]
    OBVIOUS
  <2> QED BY <2>3, <2>4, <1>1, <1>2 DEF EditSlot
<1>3. ASSUME NEW e \in Hand.entries, NEW spec \in Hand.ranges, EditEntry(e, spec) PROVE TypeOK'
  <2>1. e \in Entries /\ spec \in Specs \cup {None} /\ repo.catalogs \in [Entries -> Specs \cup {None}]
        /\ repo \in Trees
    BY WorkspaceAssumption, TreeParts DEF TypeOK
  <2>2. [repo.catalogs EXCEPT ![e] = spec] \in [Entries -> Specs \cup {None}]
    BY <2>1
  <2>3. [repo EXCEPT !.catalogs = [repo.catalogs EXCEPT ![e] = spec]] \in Trees
    BY <2>1, <2>2, TreeMoves
  <2>4. [repo EXCEPT !.catalogs[e] = spec] = [repo EXCEPT !.catalogs = [repo.catalogs EXCEPT ![e] = spec]]
    OBVIOUS
  <2> QED BY <2>3, <2>4, <1>1, <1>3 DEF EditEntry
<1>4. ASSUME Relock PROVE TypeOK'
  <2>1. NewLock(repo) \in Locks
    BY <1>4, TypeRegistry, NewLockIs DEF TypeOK, Relock
  <2>2. [repo EXCEPT !.lock = NewLock(repo)] \in Trees
    BY <2>1, TreeMoves DEF TypeOK
  <2> QED BY <2>2, <1>4 DEF Relock, TypeOK, runVars, worldVars
<1> QED BY <1>2, <1>3, <1>4

LEMMA PublishType == ASSUME TypeOK, NEW n \in Names, Publish(n) PROVE TypeOK'
<1>1. PICK v \in Releases[n] \ published[n] :
        /\ events < MaxEvents /\ events' = events + 1
        /\ published' = [published EXCEPT ![n] = @ \cup {v}]
        /\ young' = IF n \in Gated THEN [young EXCEPT ![n] = @ \cup {v}] ELSE young
        /\ quiet' = FALSE /\ settled' = FALSE
        /\ UNCHANGED <<input, repo, tree, pc, runVars>>
  BY DEF Publish
<1>2. v \in Versions
  BY <1>1, WorkspaceAssumption
<1>3. published' \in [Names -> SUBSET Versions] /\ young' \in [Names -> SUBSET Versions]
  BY <1>1, <1>2 DEF TypeOK
<1>4. events' \in 0..MaxEvents
  BY <1>1, WorkspaceAssumption DEF TypeOK
<1> QED BY <1>1, <1>3, <1>4 DEF TypeOK, runVars

LEMMA NextType == TypeOK /\ [Next]_vars => TypeOK'
<1> SUFFICES ASSUME TypeOK, [Next]_vars PROVE TypeOK'
  OBVIOUS
<1>1. CASE StartRun
  BY <1>1, TreeParts DEF StartRun, TypeOK, worldVars
<1>2. CASE UpgradeManager
  BY <1>2, ManagerType
<1>3. CASE UpgradeRuntimes
  BY <1>3, RuntimesType
<1>4. CASE UpdateConfigDependency
  BY <1>4, ConfigType
<1>5. CASE SkipConfigDependency
  <2>1. clean' \in BOOLEAN
    BY <1>5 DEF SkipConfigDependency
  <2> QED BY <1>5, <2>1 DEF SkipConfigDependency, TypeOK, worldVars
<1>6. CASE UpdateRegularDependencies
  BY <1>6, RegularType
<1>7. CASE SyncPeers
  BY <1>7, PeersType
<1>8. CASE Install
  BY <1>8, InstallType
<1>9. CASE SkipInstall
  BY <1>9 DEF SkipInstall, TypeOK, runVars, worldVars
<1>10. CASE Compare
  BY <1>10 DEF Compare, TypeOK, worldVars
<1>11. CASE Land
  <2>1. settled' \in BOOLEAN
    BY <1>11 DEF Land
  <2> QED BY <1>11, <2>1 DEF Land, Forget, TypeOK, worldVars
<1>12. CASE Discard
  BY <1>12 DEF Discard, Forget, TypeOK, worldVars
<1>13. CASE \E n \in Names : Publish(n)
  BY <1>13, PublishType
<1>14. CASE Mature
  <2>1. young' \in [Names -> SUBSET Versions]
    BY <1>14 DEF Mature
  <2> QED BY <1>14, <2>1 DEF Mature, TypeOK, runVars
<1>15. CASE \/ \E s \in Hand.slots, declared \in Hand.specs : EditSlot(s, declared)
            \/ \E e \in Hand.entries, spec \in Hand.ranges : EditEntry(e, spec)
            \/ Relock
  BY <1>15, EditType
<1>16. CASE UNCHANGED vars
  BY <1>16 DEF vars, TypeOK, runVars, worldVars
<1> QED BY <1>1, <1>2, <1>3, <1>4, <1>5, <1>6, <1>7, <1>8, <1>9, <1>10, <1>11, <1>12, <1>13,
           <1>14, <1>15, <1>16 DEF Next, RunStep, WorldStep

(* Every variable keeps its type: no lookup that finds nothing, in the registry, in
   a range or in a field, ever leaves a file, a report or the pin handed to the
   activation without a version (the null checks of the update services). *)
THEOREM TypeCorrect == Spec => []TypeOK
<1>1. Init => TypeOK
  BY InitType
<1>2. TypeOK /\ [Next]_vars => TypeOK'
  BY NextType
<1> QED BY <1>1, <1>2, PTL DEF Spec

-----------------------------------------------------------------------------
(* The two package manager fields *)

\* No pin moves before the step that moves it.
WantedPlace == pc \in {"idle", "manager"} => wanted = None

LEMMA PinsStep == ASSUME TypeOK, WantedPlace, UpgradeManager PROVE PinsAgree
<1> DEFINE v    == Wanted(tree.pins, input.manager, published["manager"])
           ref  == Reference(tree.pins)
           pin  == tree.pins.packageManager
           dev  == tree.pins.devEngines
           up   == Upgraded(tree.pins, v)
           mode == input.manager
<1>1. tree.pins \in Pins /\ mode \in Modes /\ published["manager"] \in SUBSET Versions
  BY TreeParts, DepsAreNames DEF TypeOK, Inputs
<1>2. /\ v \in Numbers \cup {None}
      /\ v # None => v \in Numbers
      /\ v # None /\ mode = Automatic => /\ ref \in Numbers /\ ~Older(v, ref) /\ v[1] = ref[1]
  BY <1>1, WantedIs
<1>3. /\ up \in Pins
      /\ pin # None => /\ up.packageManager # None /\ up.packageManager.op = pin.op
                       /\ up.packageManager.at = IF v # None /\ v # ref THEN v ELSE pin.at
      /\ dev # None => /\ up.devEngines # None /\ up.devEngines.op = dev.op
                       /\ up.devEngines.at = IF v # None /\ v # ref THEN v ELSE dev.at
  BY <1>1, <1>2, UpgradedIs
<1>4. \/ /\ tree' = [tree EXCEPT !.pins = up]
         /\ wanted' = IF v # None /\ v # ref THEN v ELSE None
      \/ wanted' = wanted /\ tree' = tree
  BY DEF UpgradeManager
<1>5. CASE /\ tree' = [tree EXCEPT !.pins = up]
           /\ wanted' = IF v # None /\ v # ref THEN v ELSE None
  <2>1. tree'.pins = up
    <3> HIDE DEF up
    <3> QED BY <1>5 DEF TypeOK, Trees
  <2>2. FieldKept(pin, pin.op, up.packageManager) /\ FieldKept(dev, dev.op, up.devEngines)
    <3> HIDE DEF v, ref, pin, dev, up
    <3> QED BY <1>3, <1>5 DEF FieldKept
  <2>3. wanted' # None /\ mode = Automatic => Older(ref, wanted') /\ wanted'[1] = ref[1]
    <3> HIDE DEF v, ref, pin, dev, up, mode
    <3> QED BY <1>2, <1>5, Trichotomy
  <2> QED BY <2>1, <2>2, <2>3 DEF PinsAgree
<1>6. CASE wanted = None /\ wanted' = wanted /\ tree' = tree
  BY <1>6 DEF PinsAgree, FieldKept
<1>7. wanted = None
  BY DEF UpgradeManager, WantedPlace
<1> QED BY <1>4, <1>5, <1>6, <1>7

LEMMA WantedStep == WantedPlace /\ [Next]_vars => WantedPlace'
<1> SUFFICES ASSUME WantedPlace, [Next]_vars PROVE WantedPlace'
  OBVIOUS
<1> USE DEF WantedPlace
<1>1. CASE StartRun
  BY <1>1 DEF StartRun
<1>2. CASE Land \/ Discard
  BY <1>2 DEF Land, Discard, Forget
<1>3. CASE UpgradeManager \/ UpgradeRuntimes \/ UpdateConfigDependency \/ SkipConfigDependency
  BY <1>3 DEF UpgradeManager, UpgradeRuntimes, UpdateConfigDependency, SkipConfigDependency
<1>4. CASE UpdateRegularDependencies \/ SyncPeers \/ Install \/ SkipInstall \/ Compare
  BY <1>4 DEF UpdateRegularDependencies, SyncPeers, Install, SkipInstall, Compare
<1>5. CASE WorldStep
  BY <1>5 DEF WorldStep, Publish, Mature, EditSlot, EditEntry, Edit, Relock, runVars
<1>6. CASE UNCHANGED vars
  BY <1>6 DEF vars, runVars
<1> QED BY <1>1, <1>2, <1>3, <1>4, <1>5, <1>6 DEF Next, RunStep

(* The two package manager fields move together and only forward, whatever they
   said before and whatever the registry offers: each field there was is at the
   version the run activates, and in auto mode that version is newer than the
   reference and within its major. *)
THEOREM PinsAlwaysMoveTogether == Spec => PinsMoveTogether
<1>1. Init => TypeOK /\ WantedPlace
  BY InitType DEF Init, WantedPlace
<1>2. TypeOK /\ WantedPlace /\ [Next]_vars => (TypeOK /\ WantedPlace)'
  BY NextType, WantedStep
<1>3. TypeOK /\ WantedPlace /\ [Next]_vars => [PinsAgree]_vars
  BY PinsStep DEF PinsAgree
<1> QED BY <1>1, <1>2, <1>3, PTL DEF Spec, PinsMoveTogether

-----------------------------------------------------------------------------
(* Bumps that can be installed *)

\* What could be installed still can: nothing is unpublished, a version that
\* appears is young, and versions only grow older.
LEMMA InstallableGrows ==
  ASSUME TypeOK, [Next]_vars, NEW n \in Names, NEW t
  PROVE  Installable(t, n) \subseteq Installable(t, n)' /\ input' = input
<1>1. ASSUME UNCHANGED <<input, published, young>>
      PROVE  Installable(t, n) \subseteq Installable(t, n)' /\ input' = input
  BY <1>1 DEF Installable, Gate
<1>2. CASE RunStep
  <2>1. CASE StartRun \/ UpgradeManager \/ UpgradeRuntimes \/ UpdateConfigDependency
    BY <2>1, <1>1 DEF StartRun, UpgradeManager, UpgradeRuntimes, UpdateConfigDependency, worldVars
  <2>2. CASE SkipConfigDependency \/ UpdateRegularDependencies \/ SyncPeers \/ Install
    BY <2>2, <1>1 DEF SkipConfigDependency, UpdateRegularDependencies, SyncPeers, Install, worldVars
  <2>3. CASE SkipInstall \/ Compare \/ Land \/ Discard
    BY <2>3, <1>1 DEF SkipInstall, Compare, Land, Discard, worldVars
  <2> QED BY <1>2, <2>1, <2>2, <2>3 DEF RunStep
<1>3. CASE \E m \in Names : Publish(m)
  <2>0. PICK m \in Names : Publish(m)
    BY <1>3
  <2>1. PICK v \in Releases[m] \ published[m] :
          /\ published' = [published EXCEPT ![m] = @ \cup {v}]
          /\ young' = IF m \in Gated THEN [young EXCEPT ![m] = @ \cup {v}] ELSE young
          /\ input' = input
    BY <2>0 DEF Publish
  <2>2. published \in [Names -> SUBSET Versions] /\ young \in [Names -> SUBSET Versions]
    BY DEF TypeOK
  <2>3. published[n] \subseteq published'[n]
    BY <2>1, <2>2
  <2>4. (published[n] \ young[n]) \subseteq (published'[n] \ young'[n])
    <3>1. CASE m = n
      BY <2>1, <2>2, <3>1
    <3>2. CASE m # n
      BY <2>1, <2>2, <3>2
    <3> QED BY <3>1, <3>2
  <2> QED BY <2>1, <2>3, <2>4 DEF Installable, Gate
<1>4. CASE Mature
  <2>1. young'[n] = {} /\ published' = published /\ input' = input
    BY <1>4 DEF Mature
  <2> QED BY <2>1 DEF Installable, Gate
<1>5. CASE \/ \E s \in Hand.slots, declared \in Hand.specs : EditSlot(s, declared)
           \/ \E e \in Hand.entries, spec \in Hand.ranges : EditEntry(e, spec)
           \/ Relock
  BY <1>5, <1>1 DEF EditSlot, EditEntry, Edit, Relock, worldVars
<1>6. CASE UNCHANGED vars
  BY <1>6, <1>1 DEF vars, worldVars
<1> QED BY <1>2, <1>3, <1>4, <1>5, <1>6 DEF Next, WorldStep

LEMMA ResolutionStays ==
  ASSUME TypeOK, TypeOK', [Next]_vars, NEW n \in Names, NEW spec, NEW t, Resolution(t, spec, n) # None
  PROVE  Resolution(t, spec, n)' # None
<1>1. PICK v \in Installable(t, n) : Admits(spec, v)
  BY TypeRegistry, ResolutionIs
<1>2. v \in Installable(t, n)'
  BY <1>1, InstallableGrows
<1> DEFINE S == {w \in Installable(t, n)' : Admits(spec, w)}
<1>3. S \in SUBSET Versions /\ S # {}
  <2>1. Installable(t, n)' \subseteq Versions
    BY DEF Installable, Gate, TypeOK
  <2> QED BY <1>1, <1>2, <2>1
<1>4. ResolveLatest(S) # None
  BY <1>3, ResolvesInside
<1>5. Resolution(t, spec, n)' = ResolveLatest(S)
  BY DEF Resolution
<1> QED BY <1>4, <1>5

\* The reports the tool and plugin steps add are not about a package's section.
LEMMA ToolReports ==
  ASSUME UpgradeManager \/ UpgradeRuntimes \/ UpdateConfigDependency
  PROVE  /\ clean' => clean
         /\ \A u \in updates' : u \in updates \/ u.type \notin Types
<1>1. CASE UpgradeManager
  <2>1. PICK from, to :
          /\ clean' => clean
          /\ updates' \subseteq updates \cup {Report("packageManager", "manager", None, from, to)}
    <3> DEFINE v   == Wanted(tree.pins, input.manager, published["manager"])
               ref == Reference(tree.pins)
               old == IF ref = None THEN None ELSE Exact(ref)
    <3>1. /\ clean' => clean
          /\ updates' \subseteq updates \cup {Report("packageManager", "manager", None, old, Exact(v))}
      BY <1>1 DEF UpgradeManager
    <3> HIDE DEF old
    <3> QED BY <3>1
  <2> QED BY <2>1 DEF Report, Types, WritableTypes
<1>2. CASE UpgradeRuntimes
  <2> DEFINE to == RuntimeTo(tree.runtime, input.runtime, published["runtime"])
  <2>1. /\ clean' => clean
        /\ updates' \subseteq updates \cup {Report("runtime", "runtime", None, tree.runtime, to)}
    BY <1>2 DEF UpgradeRuntimes
  <2> HIDE DEF to
  <2> QED BY <2>1 DEF Report, Types, WritableTypes
<1>3. CASE UpdateConfigDependency
  <2>1. PICK blind \in SUBSET {"plugin"} :
          /\ clean' => clean
          /\ updates' \subseteq updates \cup {Report("config", "plugin", None,
                                                   Exact(tree.plugin.at), Exact(PluginTo(blind)))}
    BY <1>3 DEF UpdateConfigDependency
  <2> QED BY <2>1 DEF Report, Types, WritableTypes
<1> QED BY <1>1, <1>2, <1>3

\* What the regular step did, in the slots it moved.
LEMMA RegularReports ==
  ASSUME UpdateRegularDependencies
  PROVE  \E blind \in SUBSET input.matched, moving \in SUBSET Slots,
               failing \in SUBSET Packages :
           LET to(s) == Bump(tree.manifest[s], Eligible(s[3], blind))
           IN  /\ \A s \in moving : /\ s[2] \in WritableTypes /\ Parses(tree.manifest[s])
                                    /\ to(s) # tree.manifest[s]
               /\ tree' = [tree EXCEPT !.manifest =
                             [s \in Slots |-> IF s \in moving /\ s[1] \notin failing THEN to(s)
                                                                                 ELSE tree.manifest[s]]]
               /\ updates' = updates \cup {Report(s[2], s[3], s[1], tree.manifest[s], to(s)) : s \in moving}
               /\ clean' => clean /\ blind = {}
               /\ broken' = failing
               /\ UNCHANGED <<input, repo, worldVars>>
<1>1. PICK silent \in SUBSET input.matched, blind \in SUBSET input.matched,
           failing \in SUBSET Packages :
        LET to(s)  == Bump(tree.manifest[s], Eligible(s[3], blind))
            moving == {s \in Slots : /\ s[2] \in WritableTypes /\ s[3] \in input.matched \ silent
                                     /\ Parses(tree.manifest[s]) /\ to(s) # tree.manifest[s]}
        IN
        /\ pc = "regular" /\ pc' = "peers"
        /\ failing \subseteq {s[1] : s \in moving}
        /\ tree' = [tree EXCEPT !.manifest =
                      [s \in Slots |-> IF s \in moving /\ s[1] \notin failing THEN to(s) ELSE @[s]]]
        /\ updates' = updates \cup {Report(s[2], s[3], s[1], tree.manifest[s], to(s)) : s \in moving}
        /\ broken' = failing
        /\ clean' = (clean /\ silent = {} /\ blind = {})
        /\ UNCHANGED <<input, repo, before, wanted, changes, quiet, settled, worldVars>>
  BY DEF UpdateRegularDependencies
<1> DEFINE to(s)  == Bump(tree.manifest[s], Eligible(s[3], blind))
           moving == {s \in Slots : /\ s[2] \in WritableTypes /\ s[3] \in input.matched \ silent
                                    /\ Parses(tree.manifest[s]) /\ to(s) # tree.manifest[s]}
<1>2. /\ moving \in SUBSET Slots
      /\ \A s \in moving : /\ s[2] \in WritableTypes /\ Parses(tree.manifest[s])
                            /\ to(s) # tree.manifest[s]
  OBVIOUS
<1>3. /\ tree' = [tree EXCEPT !.manifest =
                    [s \in Slots |-> IF s \in moving /\ s[1] \notin failing THEN to(s)
                                                                        ELSE tree.manifest[s]]]
      /\ updates' = updates \cup {Report(s[2], s[3], s[1], tree.manifest[s], to(s)) : s \in moving}
      /\ clean' => clean /\ blind = {}
      /\ broken' = failing
      /\ UNCHANGED <<input, repo, worldVars>>
  BY <1>1
<1> HIDE DEF moving
<1> QED BY <1>2, <1>3

\* What the peer synchronisation did, slot by slot.
LEMMA PeerReported ==
  ASSUME SyncPeers
  PROVE  \E outcome \in [Synchronised -> {"done", "unread", "unwritten"}] :
           /\ tree' = [tree EXCEPT !.manifest =
                         [s \in Slots |-> IF s[2] = "peerDependency"
                                          THEN Synced(s[1], s[3], outcome).peer
                                          ELSE tree.manifest[s]]]
           /\ updates' = updates \cup UNION {Synced(s[1], s[3], outcome).reports : s \in Slots}
           /\ clean' = clean /\ broken' = broken \cup {p \in Packages : \E d \in Deps : Synced(p, d, outcome).failed}
           /\ UNCHANGED <<input, repo, worldVars>>
<1>1. PICK outcome \in [Synchronised -> {"done", "unread", "unwritten"}] :
        /\ pc = "peers" /\ pc' = "install"
        /\ tree' = [tree EXCEPT !.manifest =
                      [s \in Slots |-> IF s[2] = "peerDependency" THEN Synced(s[1], s[3], outcome).peer
                                                                  ELSE @[s]]]
        /\ updates' = updates \cup UNION {Synced(s[1], s[3], outcome).reports : s \in Slots}
        /\ broken' = broken \cup {p \in Packages : \E d \in Deps : Synced(p, d, outcome).failed}
        /\ UNCHANGED <<input, repo, before, wanted, changes, clean, quiet, settled, worldVars>>
  BY DEF SyncPeers
<1> QED BY <1>1

\* What the regular step proposed could be installed behind the gate it was resolved
\* behind, the one of the committed files; between runs nothing is proposed.
Proposable ==
  /\ pc = "idle" => updates = {}
  /\ clean => \A u \in updates : u.type \in WritableTypes /\ u.to.op \notin {">", "<"} =>
                Resolution(repo, u.to, u.dependency) # None

LEMMA InitBumps == Init => Proposable
BY DEF Init, Proposable

LEMMA IdleStep ==
  ASSUME pc = "idle" => updates = {}, [Next]_vars
  PROVE  /\ pc' = "idle" => updates' = {}
         /\ repo' = repo \/ updates' = {}
<1>1. CASE StartRun \/ Land \/ Discard
  BY <1>1 DEF StartRun, Land, Discard, Forget
<1>2. CASE UpgradeManager \/ UpgradeRuntimes \/ UpdateConfigDependency \/ SkipConfigDependency
  BY <1>2 DEF UpgradeManager, UpgradeRuntimes, UpdateConfigDependency, SkipConfigDependency
<1>3. CASE UpdateRegularDependencies \/ SyncPeers \/ Install \/ SkipInstall \/ Compare
  BY <1>3 DEF UpdateRegularDependencies, SyncPeers, Install, SkipInstall, Compare
<1>4. CASE WorldStep \/ UNCHANGED vars
  BY <1>4 DEF WorldStep, Publish, Mature, EditSlot, EditEntry, Edit, Relock, runVars, vars
<1> QED BY <1>1, <1>2, <1>3, <1>4 DEF Next, RunStep

\* What the committed files admit goes on being admitted while they stand.
LEMMA RepoResolutionStays ==
  ASSUME TypeOK, TypeOK', [Next]_vars, repo' = repo, NEW n \in Names, NEW spec,
         Resolution(repo, spec, n) # None
  PROVE  Resolution(repo, spec, n)' # None
<1>1. PICK t : t = repo
  OBVIOUS
<1>2. Resolution(t, spec, n) = Resolution(repo, spec, n)
  BY <1>1
<1>3. Resolution(t, spec, n)' # None
  BY <1>2, ResolutionStays
<1>4. Resolution(t, spec, n)' = Resolution(repo, spec, n)'
  BY <1>1 DEF Resolution, Installable, Gate
<1> QED BY <1>3, <1>4

LEMMA BumpsStep == ASSUME TypeOK, TypeOK', Proposable, [Next]_vars PROVE Proposable'
<1>0. (pc' = "idle" => updates' = {}) /\ (repo' = repo \/ updates' = {})
  BY IdleStep DEF Proposable
<1> SUFFICES ASSUME clean', NEW u \in updates', u.type \in WritableTypes, u.to.op \notin {">", "<"}
             PROVE  Resolution(repo, u.to, u.dependency)' # None
  BY <1>0 DEF Proposable
<1>r. repo' = repo
  BY <1>0
<1>1. CASE clean /\ u \in updates
  <2>1. Resolution(repo, u.to, u.dependency) # None
    BY <1>1 DEF Proposable
  <2>2. u.dependency \in Names
    BY <1>1, SectionReport, DepsAreNames DEF TypeOK, Types
  <2> QED BY <2>1, <2>2, <1>r, RepoResolutionStays
<1>2. CASE ~(clean /\ u \in updates)
  <2>1. UpdateRegularDependencies /\ clean /\ u \notin updates
    <3>1. CASE StartRun \/ Land \/ Discard
      BY <3>1 DEF StartRun, Land, Discard, Forget
    <3>2. CASE UpgradeManager \/ UpgradeRuntimes \/ UpdateConfigDependency
      BY <3>2, <1>2, ToolReports DEF Types
    <3>4. CASE SkipConfigDependency \/ Install \/ SkipInstall \/ Compare
      BY <3>4, <1>2 DEF SkipConfigDependency, Install, SkipInstall, Compare, runVars
    <3>5. CASE UpdateRegularDependencies
      BY <3>5, <1>2, RegularReports
    <3>6. CASE SyncPeers
      <4>1. PICK outcome \in [Synchronised -> {"done", "unread", "unwritten"}] :
              updates' = updates \cup UNION {Synced(s[1], s[3], outcome).reports : s \in Slots}
        <5> HIDE DEF Synced, Synchronised
        <5> QED BY <3>6, PeerReported
      <4>0. clean' = clean /\ u \notin updates
        BY <1>2, <3>6 DEF SyncPeers
      <4>2. PICK s \in Slots : u \in Synced(s[1], s[3], outcome).reports
        <5> HIDE DEF Synced, Synchronised
        <5> QED BY <4>0, <4>1
      <4>3. s[1] \in Packages /\ s[3] \in Deps
        BY DEF Slots
      <4>4. u \in PeerReports
        BY <4>2, <4>3, SyncedIs DEF TypeOK
      <4> QED BY <4>4 DEF PeerReports, WritableTypes
    <3>7. CASE WorldStep \/ UNCHANGED vars
      BY <3>7, <1>2 DEF WorldStep, Publish, Mature, EditSlot, EditEntry, Edit, Relock, runVars, vars
    <3> QED BY <3>1, <3>2, <3>4, <3>5, <3>6, <3>7 DEF Next, RunStep
  <2>2. PICK s \in Slots :
          LET to == Bump(tree.manifest[s], Eligible(s[3], {}))
          IN  /\ s[2] \in WritableTypes /\ Parses(tree.manifest[s]) /\ to # tree.manifest[s]
              /\ u = Report(s[2], s[3], s[1], tree.manifest[s], to)
              /\ UNCHANGED <<input, worldVars>>
    <3>1. PICK blind \in SUBSET input.matched, moving \in SUBSET Slots :
            LET to(s) == Bump(tree.manifest[s], Eligible(s[3], blind))
            IN  /\ \A s \in moving : /\ s[2] \in WritableTypes /\ Parses(tree.manifest[s])
                                     /\ to(s) # tree.manifest[s]
                /\ updates' = updates \cup {Report(s[2], s[3], s[1], tree.manifest[s], to(s)) : s \in moving}
                /\ clean' => clean /\ blind = {}
                /\ UNCHANGED <<input, repo, worldVars>>
      BY <2>1, RegularReports
    <3>2. PICK s \in moving : u = Report(s[2], s[3], s[1], tree.manifest[s],
                                        Bump(tree.manifest[s], Eligible(s[3], blind)))
      BY <3>1, <2>1
    <3>3. blind = {}
      BY <3>1
    <3> QED BY <3>1, <3>2, <3>3
  <2> DEFINE to == Bump(tree.manifest[s], Eligible(s[3], {}))
  <2>3. to \in Specs /\ to.at \in Eligible(s[3], {})
    BY <2>2, BumpedSlot
  <2>4. u.to = to /\ u.dependency = s[3]
    BY <2>2 DEF Report
  <2> HIDE DEF to
  <2>5. s[3] \in Names
    BY DepsAreNames DEF Slots
  <2>6. Admits(to, to.at) /\ to.at \in Installable(repo, s[3])
    BY <2>3, <2>4, AdmitsItsVersion DEF Eligible
  <2>7. Resolution(repo, to, s[3]) # None
    BY <2>5, <2>6, TypeRegistry, ResolutionIs
  <2> QED BY <2>4, <2>5, <2>7, <1>r, RepoResolutionStays
<1> QED BY <1>1, <1>2

\* Where the run's files are behind no gate the committed ones are not behind, what
\* was proposed can be installed.
LEMMA ProposableInstalls == ASSUME TypeOK, Proposable PROVE BumpsInstall
<1> SUFFICES ASSUME clean, Gate(tree) => Gate(repo), NEW u \in updates,
                    u.type \in WritableTypes, u.to.op \notin {">", "<"}
             PROVE  Resolution(tree, u.to, u.dependency) # None
  BY DEF BumpsInstall, Installs
<1>1. u.dependency \in Names
  BY SectionReport, DepsAreNames DEF TypeOK, Types
<1>2. Resolution(repo, u.to, u.dependency) # None
  BY DEF Proposable
<1>3. PICK v \in Installable(repo, u.dependency) : Admits(u.to, v)
  BY <1>1, <1>2, TypeRegistry, ResolutionIs
<1>4. v \in Installable(tree, u.dependency)
  BY DEF Installable
<1> QED BY <1>1, <1>3, <1>4, TypeRegistry, ResolutionIs

(* A bump whose specifier includes the version it names can be installed, unless the
   run moved the plugin to where the files are behind a gate they were not behind
   before: the gate is mirrored, as it was when the run began, when the version is
   resolved, and nothing that happens before the install takes the version away. *)
THEOREM BumpsCanBeInstalled == Spec => []BumpsInstall
<1>1. TypeOK /\ Proposable /\ [Next]_vars => (TypeOK /\ Proposable)'
  BY NextType, BumpsStep
<1>2. TypeOK /\ Proposable => BumpsInstall
  BY ProposableInstalls
<1> QED BY InitType, InitBumps, <1>1, <1>2, PTL DEF Spec

-----------------------------------------------------------------------------
(* The lockfile of a commit *)

BeforeInstall == {"manager", "runtimes", "config", "regular", "peers", "install"}

\* The parts of a tree InStep reads.
SamePlugin(t, r) ==
  (t.plugin = None <=> r.plugin = None) /\ (r.plugin # None => t.plugin.at = r.plugin.at)

\* Until the install nothing differs from the committed files that the lockfile is
\* about, but for what an update reports.
Untouched ==
  pc \in BeforeInstall =>
    /\ tree.lock = repo.lock /\ tree.catalogs = repo.catalogs
    /\ (tree.plugin = None <=> repo.plugin = None)
    /\ (\A u \in updates : u.type \notin Types) => tree.manifest = repo.manifest
    /\ (\A u \in updates : u.type # "config") => SamePlugin(tree, repo)

\* From then on the lockfile is in step, if it was before the run.
Caught == pc \in {"after", "commit"} /\ InStep(repo) => InStep(tree)

LEMMA SameInStep ==
  ASSUME NEW t, NEW r, t.lock = r.lock, t.catalogs = r.catalogs, t.manifest = r.manifest,
         SamePlugin(t, r), InStep(r)
  PROVE  InStep(t)
<1>0. Recorded(t) = Recorded(r)
  BY DEF Recorded
<1>1. \A e \in Entries : CatalogSpec(t, e) = CatalogSpec(r, e)
  BY DEF CatalogSpec, SamePlugin
<1> QED BY <1>0, <1>1 DEF InStep, SamePlugin

LEMMA NewInStep ==
  ASSUME NEW t \in Trees, NewLock(t) \in Locks
  PROVE  InStep([t EXCEPT !.lock = NewLock(t)])
<1> DEFINE n == [t EXCEPT !.lock = NewLock(t)]
<1>1. /\ n.lock = NewLock(t) /\ n.catalogs = t.catalogs /\ n.manifest = t.manifest
      /\ n.plugin = t.plugin
  BY DEF Trees
<1>2. NewLock(t) # None
  BY WorkspaceAssumption
<1> HIDE DEF n
<1>3. \A e \in Entries : CatalogSpec(n, e) = CatalogSpec(t, e)
  BY <1>1 DEF CatalogSpec
<1>4. /\ n.lock.importers = Recorded(n)
      /\ t.plugin # None => n.lock.plugin = t.plugin.at
  BY <1>1 DEF NewLock, Recorded
<1>5. \A e \in Entries : n.lock.entries[e] # None => n.lock.entries[e].spec = CatalogSpec(t, e)
  BY <1>1 DEF NewLock
<1>6. InStep(n)
  BY <1>1, <1>2, <1>3, <1>4, <1>5 DEF InStep
<1> QED BY <1>6 DEF n

LEMMA InitKept == Init => Untouched /\ Caught
BY DEF Init, Untouched, Caught, BeforeInstall

\* Steps of a run before the install that touch neither manifest nor plugin.
LEMMA UntouchedKeeps ==
  ASSUME Untouched, pc \in BeforeInstall, repo' = repo, updates \subseteq updates',
         tree'.lock = tree.lock, tree'.catalogs = tree.catalogs,
         tree'.plugin = None <=> tree.plugin = None,
         tree'.manifest = tree.manifest \/ \E u \in updates' : u.type \in Types,
         SamePlugin(tree', tree) \/ \E u \in updates' : u.type = "config"
  PROVE  Untouched'
<1>1. (\A u \in updates' : u.type \notin Types) => tree'.manifest = repo'.manifest
  BY DEF Untouched
<1>2. (\A u \in updates' : u.type # "config") => SamePlugin(tree', repo')
  BY DEF Untouched, SamePlugin
<1> QED BY <1>1, <1>2 DEF Untouched

LEMMA UntouchedStep == ASSUME TypeOK, TypeOK', Untouched, [Next]_vars PROVE Untouched'
<1>1. CASE StartRun
  BY <1>1 DEF StartRun, Untouched, SamePlugin
<1>2. CASE UpgradeManager
  <2>1. tree' = tree \/ \E x \in Pins : tree' = [tree EXCEPT !.pins = x]
    <3> DEFINE up == Upgraded(tree.pins, Wanted(tree.pins, input.manager, published["manager"]))
    <3>1. tree' = tree \/ tree' = [tree EXCEPT !.pins = up]
      BY <1>2 DEF UpgradeManager
    <3> HIDE DEF up
    <3>2. CASE tree' = [tree EXCEPT !.pins = up]
      <4>1. tree'.pins = up /\ tree'.pins \in Pins
        BY <3>2, TreeParts DEF TypeOK, Trees
      <4> QED BY <3>2, <4>1
    <3> QED BY <3>1, <3>2
  <2>2. /\ tree'.lock = tree.lock /\ tree'.catalogs = tree.catalogs
        /\ tree'.plugin = tree.plugin /\ tree'.manifest = tree.manifest
    BY <2>1 DEF TypeOK, Trees
  <2>3. pc \in BeforeInstall /\ repo' = repo /\ updates \subseteq updates'
    BY <1>2 DEF UpgradeManager, BeforeInstall
  <2> QED BY <2>2, <2>3, UntouchedKeeps DEF SamePlugin
<1>3. CASE UpgradeRuntimes
  <2>1. /\ tree'.lock = tree.lock /\ tree'.catalogs = tree.catalogs
        /\ tree'.plugin = tree.plugin /\ tree'.manifest = tree.manifest
    <3> DEFINE to == RuntimeTo(tree.runtime, input.runtime, published["runtime"])
    <3>1. tree' = tree \/ tree' = [tree EXCEPT !.runtime = to]
      BY <1>3 DEF UpgradeRuntimes
    <3> HIDE DEF to
    <3> QED BY <3>1 DEF TypeOK, Trees
  <2>2. pc \in BeforeInstall /\ repo' = repo /\ updates \subseteq updates'
    BY <1>3 DEF UpgradeRuntimes, BeforeInstall
  <2> QED BY <2>1, <2>2, UntouchedKeeps DEF SamePlugin
<1>4. CASE UpdateConfigDependency
  <2>1. PICK blind \in SUBSET {"plugin"}, written \in BOOLEAN :
          LET at == tree.plugin.at
              to == PluginTo(blind)
          IN
          /\ pc = "config" /\ pc' = "regular"
          /\ to # None
          /\ tree' = IF written THEN [tree EXCEPT !.plugin = [at |-> to, integrity |-> FALSE]] ELSE tree
          /\ updates' = IF to = at THEN updates
                        ELSE updates \cup {Report("config", "plugin", None, Exact(at), Exact(to))}
          /\ clean' = (clean /\ written /\ blind = {})
          /\ UNCHANGED <<input, repo, before, wanted, changes, broken, quiet, settled, worldVars>>
    BY <1>4 DEF UpdateConfigDependency
  <2> DEFINE to == PluginTo(blind)
             new == [at |-> to, integrity |-> FALSE]
  <2>2. tree.plugin # None
    BY <2>1 DEF PluginTo
  <2>3. tree' = tree \/ tree' = [tree EXCEPT !.plugin = new]
    BY <2>1
  <2>4. to # tree.plugin.at => \E u \in updates' : u.type = "config"
    <3> DEFINE rep == Report("config", "plugin", None, Exact(tree.plugin.at), Exact(to))
    <3>1. rep.type = "config"
      BY DEF Report
    <3>2. to # tree.plugin.at => rep \in updates'
      BY <2>1
    <3> HIDE DEF to, rep
    <3> QED BY <3>1, <3>2
  <2>5. pc \in BeforeInstall /\ repo' = repo /\ updates \subseteq updates'
    BY <2>1 DEF BeforeInstall
  <2>6. new.at = to
    OBVIOUS
  <2>7. tree'.plugin \in Plugins
    BY TreeParts DEF TypeOK
  <2> HIDE DEF to, new
  <2>8. /\ tree'.lock = tree.lock /\ tree'.catalogs = tree.catalogs
        /\ tree'.manifest = tree.manifest
        /\ tree'.plugin = tree.plugin \/ tree'.plugin = new
    BY <2>3 DEF TypeOK, Trees
  <2>9. new # None
    <3>1. to \in Numbers
      <4>1. Eligible("plugin", blind) \in SUBSET Versions
        BY TypeRegistry, InstallableIs, DepsAreNames
      <4> QED BY <2>1, <2>2, <4>1, ResolvesInside DEF PluginTo, to
    <3>2. new \in Plugged
      BY <3>1 DEF new, Plugged
    <3> QED BY <3>2, WorkspaceAssumption
  <2>10. tree'.plugin # None
    BY <2>2, <2>8, <2>9
  <2>11. SamePlugin(tree', tree) \/ \E u \in updates' : u.type = "config"
    BY <2>2, <2>4, <2>6, <2>8, <2>10 DEF SamePlugin
  <2> QED BY <2>2, <2>5, <2>8, <2>10, <2>11, UntouchedKeeps
<1>5. CASE SkipConfigDependency
  <2>1. pc \in BeforeInstall /\ repo' = repo /\ updates' = updates /\ tree' = tree
    BY <1>5 DEF SkipConfigDependency, BeforeInstall
  <2> QED BY <2>1, UntouchedKeeps DEF SamePlugin
<1>6. CASE UpdateRegularDependencies
  <2>1. PICK blind \in SUBSET input.matched, moving \in SUBSET Slots,
               failing \in SUBSET Packages :
          LET to(s) == Bump(tree.manifest[s], Eligible(s[3], blind))
          IN  /\ \A s \in moving : /\ s[2] \in WritableTypes /\ Parses(tree.manifest[s])
                                   /\ to(s) # tree.manifest[s]
              /\ tree' = [tree EXCEPT !.manifest =
                            [s \in Slots |-> IF s \in moving /\ s[1] \notin failing THEN to(s)
                                                                                ELSE tree.manifest[s]]]
              /\ updates' = updates \cup {Report(s[2], s[3], s[1], tree.manifest[s], to(s)) : s \in moving}
              /\ clean' => clean /\ blind = {}
              /\ UNCHANGED <<input, repo, worldVars>>
    BY <1>6, RegularReports
  <2> DEFINE to(s) == Bump(tree.manifest[s], Eligible(s[3], blind))
             man == [s \in Slots |-> IF s \in moving /\ s[1] \notin failing THEN to(s)
                                                                       ELSE tree.manifest[s]]
  <2>2. tree' = [tree EXCEPT !.manifest = man]
    BY <2>1
  <2>3. moving = {} => man = tree.manifest
    BY TreeParts DEF TypeOK
  <2>4. moving # {} => \E u \in updates' : u.type \in Types
    <3>1. ASSUME NEW s \in moving PROVE \E u \in updates' : u.type \in Types
      <4>1. Report(s[2], s[3], s[1], tree.manifest[s], to(s)) \in updates'
        BY <2>1
      <4>2. s[2] \in Types
        BY <2>1 DEF Types
      <4> HIDE DEF to
      <4> QED BY <4>1, <4>2 DEF Report
    <3> QED BY <3>1
  <2> HIDE DEF man
  <2>5. /\ tree'.lock = tree.lock /\ tree'.catalogs = tree.catalogs
        /\ tree'.plugin = tree.plugin /\ tree'.manifest = man
    BY <2>2 DEF TypeOK, Trees
  <2>6. pc \in BeforeInstall
    BY <1>6 DEF UpdateRegularDependencies, BeforeInstall
  <2>7. repo' = repo /\ updates \subseteq updates'
    BY <2>1
  <2> QED BY <2>3, <2>4, <2>5, <2>6, <2>7, UntouchedKeeps DEF SamePlugin
<1>7. CASE SyncPeers
  <2>1. PICK outcome :
          /\ tree' = [tree EXCEPT !.manifest =
                        [s \in Slots |-> IF s[2] = "peerDependency"
                                         THEN Synced(s[1], s[3], outcome).peer
                                         ELSE tree.manifest[s]]]
          /\ updates' = updates \cup UNION {Synced(s[1], s[3], outcome).reports : s \in Slots}
          /\ clean' = clean
          /\ UNCHANGED <<input, repo, worldVars>>
    BY <1>7, PeerReported
  <2> DEFINE man == [s \in Slots |-> IF s[2] = "peerDependency" THEN Synced(s[1], s[3], outcome).peer
                                                                ELSE tree.manifest[s]]
  <2>2. tree' = [tree EXCEPT !.manifest = man]
    BY <2>1
  <2>3. ASSUME NEW s \in Slots
        PROVE  \/ man[s] = tree.manifest[s]
               \/ \E u \in updates' : u.type \in Types
    <3>1. s[1] \in Packages /\ s[3] \in Deps /\ s = <<s[1], s[2], s[3]>>
      BY DEF Slots
    <3>2. /\ Synced(s[1], s[3], outcome).reports \subseteq PeerReports
          /\ Synced(s[1], s[3], outcome).reports = {} =>
               Synced(s[1], s[3], outcome).peer = tree.manifest[<<s[1], "peerDependency", s[3]>>]
      BY <3>1, SyncedIs DEF TypeOK
    <3>3. CASE s[2] # "peerDependency"
      BY <3>3
    <3>4. CASE s[2] = "peerDependency" /\ Synced(s[1], s[3], outcome).reports = {}
      BY <3>1, <3>2, <3>4
    <3>5. CASE Synced(s[1], s[3], outcome).reports # {}
      <4>1. PICK u \in Synced(s[1], s[3], outcome).reports : TRUE
        BY <3>5
      <4>2. u \in updates' /\ u.type = "peerDependency"
        BY <2>1, <3>2, <4>1 DEF PeerReports
      <4> QED BY <4>2 DEF Types
    <3> QED BY <3>3, <3>4, <3>5
  <2>4. man = tree.manifest \/ \E u \in updates' : u.type \in Types
    <3>1. tree.manifest \in [Slots -> Declared] /\ man = [s \in Slots |-> man[s]]
      BY TreeParts DEF TypeOK
    <3> HIDE DEF man
    <3> QED BY <2>3, <3>1
  <2> HIDE DEF man
  <2>5. /\ tree'.lock = tree.lock /\ tree'.catalogs = tree.catalogs
        /\ tree'.plugin = tree.plugin /\ tree'.manifest = man
    BY <2>2 DEF TypeOK, Trees
  <2>6. pc \in BeforeInstall
    BY <1>7 DEF SyncPeers, BeforeInstall
  <2>7. repo' = repo /\ updates \subseteq updates'
    BY <2>1
  <2> QED BY <2>4, <2>5, <2>6, <2>7, UntouchedKeeps DEF SamePlugin
<1>8. CASE Install \/ SkipInstall \/ Compare \/ Land \/ Discard
  BY <1>8 DEF Install, SkipInstall, Compare, Land, Discard, Untouched, BeforeInstall
<1>9. CASE \/ \E n \in Names : Publish(n)
           \/ Mature
  BY <1>9 DEF Publish, Mature, Untouched, runVars, SamePlugin
<1>10. CASE \/ \E s \in Hand.slots, declared \in Hand.specs : EditSlot(s, declared)
            \/ \E e \in Hand.entries, spec \in Hand.ranges : EditEntry(e, spec)
            \/ Relock
  BY <1>10 DEF EditSlot, EditEntry, Edit, Relock, Untouched, BeforeInstall
<1>11. CASE UNCHANGED vars
  BY <1>11 DEF vars, runVars, Untouched, SamePlugin
<1> QED BY <1>1, <1>2, <1>3, <1>4, <1>5, <1>6, <1>7, <1>8, <1>9, <1>10, <1>11
        DEF Next, RunStep, WorldStep

LEMMA CaughtStep == ASSUME TypeOK, Untouched, Caught, [Next]_vars PROVE Caught'
<1>1. ASSUME UNCHANGED <<input, repo, tree>>
      PROVE  (InStep(repo)' <=> InStep(repo)) /\ (InStep(tree)' <=> InStep(tree))
  BY <1>1 DEF InStep, CatalogSpec, Recorded
<1>2. CASE pc' \notin {"after", "commit"}
  BY <1>2 DEF Caught
<1>3. CASE Install
  <2>1. /\ tree \in Trees /\ NewLock(tree) \in Locks
    BY <1>3, TypeRegistry, NewLockIs DEF TypeOK, Install
  <2>2. InStep([tree EXCEPT !.lock = NewLock(tree)])
    BY <2>1, NewInStep
  <2>3. tree' = [tree EXCEPT !.lock = NewLock(tree)] /\ input' = input
    BY <1>3 DEF Install
  <2> DEFINE n == [tree EXCEPT !.lock = NewLock(tree)]
  <2>4. InStep(n) /\ tree' = n
    BY <2>2, <2>3
  <2> HIDE DEF n
  <2>5. InStep(tree)'
    BY <2>3, <2>4 DEF InStep, CatalogSpec, Recorded
  <2> QED BY <2>5 DEF Caught
<1>4. CASE SkipInstall
  <2>1. pc = "install" /\ ~ShouldInstall /\ UNCHANGED <<input, repo, tree>>
    BY <1>4 DEF SkipInstall
  <2>2. \A u \in updates : u.type \notin Types /\ u.type # "config"
    BY <2>1 DEF ShouldInstall, Types, WritableTypes
  <2>3. /\ tree.lock = repo.lock /\ tree.catalogs = repo.catalogs
        /\ tree.manifest = repo.manifest /\ SamePlugin(tree, repo)
    BY <2>1, <2>2 DEF Untouched, BeforeInstall
  <2>4. InStep(repo) => InStep(tree)
    BY <2>3, SameInStep
  <2> QED BY <1>1, <2>1, <2>4 DEF Caught
<1>5. CASE Compare
  <2>1. pc = "after" /\ UNCHANGED <<input, repo, tree>>
    BY <1>5 DEF Compare
  <2> QED BY <1>1, <2>1 DEF Caught
<1>6. CASE (\E n \in Names : Publish(n)) \/ Mature \/ UNCHANGED vars
  <2>1. UNCHANGED <<input, repo, tree, pc>>
    BY <1>6 DEF Publish, Mature, vars
  <2> QED BY <1>1, <2>1 DEF Caught
<1>7. CASE \/ \E s \in Hand.slots, declared \in Hand.specs : EditSlot(s, declared)
           \/ \E e \in Hand.entries, spec \in Hand.ranges : EditEntry(e, spec)
           \/ Relock
  BY <1>2, <1>7 DEF EditSlot, EditEntry, Edit, Relock
<1>8. CASE StartRun \/ UpgradeManager \/ UpgradeRuntimes \/ UpdateConfigDependency
  BY <1>2, <1>8 DEF StartRun, UpgradeManager, UpgradeRuntimes, UpdateConfigDependency
<1>9. CASE SkipConfigDependency \/ UpdateRegularDependencies \/ SyncPeers \/ Land \/ Discard
  BY <1>2, <1>9 DEF SkipConfigDependency, UpdateRegularDependencies, SyncPeers, Land, Discard
<1> QED BY <1>3, <1>4, <1>5, <1>6, <1>7, <1>8, <1>9 DEF Next, RunStep, WorldStep

LEMMA LandingInStep == ASSUME TypeOK, Caught PROVE LandsInStep
<1> SUFFICES ASSUME Land, InStep(repo) PROVE InStep(repo')
  BY DEF LandsInStep
<1>1. pc = "commit" /\ repo' = tree
  BY DEF Land
<1>2. InStep(tree)
  BY <1>1 DEF Caught
<1> QED BY <1>1, <1>2

(* A commit never leaves the lockfile behind the manifests, the plugin and the
   catalogs, if it was not before the run.  The invariant behind it: until the
   install, whatever the lockfile is about differs from the committed files only
   where an update reports it, written or not, and any such report installs. *)
THEOREM LockfileAlwaysKeepsUp == Spec => LockfileKeepsUp
<1>1. Init => TypeOK /\ Untouched /\ Caught
  BY InitType, InitKept
<1>2. TypeOK /\ Untouched /\ Caught /\ [Next]_vars => (TypeOK /\ Untouched /\ Caught)'
  BY NextType, UntouchedStep, CaughtStep
<1>3. TypeOK /\ Untouched /\ Caught /\ [Next]_vars => [LandsInStep]_vars
  BY LandingInStep
<1> QED BY <1>1, <1>2, <1>3, PTL DEF Spec, LockfileKeepsUp

=============================================================================
