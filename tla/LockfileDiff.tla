----------------------------- MODULE LockfileDiff -----------------------------
(***************************************************************************)
(* services/lockfile.ts: what the two lockfile snapshots of a run say      *)
(* moved, and which packages it is attributed to.                          *)
(*                                                                         *)
(* A slot is a dependency in a section of a package.  A lockfile records   *)
(* the specifiers of the slots (bun of all sections, pnpm of all but the   *)
(* peers), and for every catalog entry its specifier and (pnpm) the        *)
(* version it resolved to; bun records versions by package name only, and  *)
(* the entry's is the one version the name resolved to.                    *)
(* Discovery names every importer: its failure, which reports paths for    *)
(* names, is left out, and so are importers only one snapshot has.         *)
(***************************************************************************)
EXTENDS Specifiers

CONSTANTS
  Packages,  \* the workspace's packages
  Deps,      \* the names of its dependencies
  Catalogs   \* the names of its catalogs

\* The sections, by the type a change in them is reported as.
WritableTypes == {"dependency", "devDependency", "optionalDependency"}
Types   == WritableTypes \cup {"peerDependency"}
Slots   == Packages \X Types \X Deps
Entries == Catalogs \X Deps

References == [op : {"catalog:"}, at : Catalogs]
Declared == Specs \cup References \cup {None}
Resolved == [spec : Specs, version : Numbers \cup {None}]
Locked   == Resolved \cup {None}
Locks    == [importers : [Slots -> Declared], entries : [Entries -> Locked],
             resolved : [Deps -> SUBSET Numbers], plugin : Numbers \cup {None}]

ASSUME LocksAssumption ==
  None \notin Catalogs /\ None \notin References /\ None \notin Resolved

Removed == [op |-> "(removed)", at |-> None]

\* buildResolvedVersions: a name that resolved to several versions is ambiguous.
ResolvedVersion(lock, d) ==
  LET versions == lock.resolved[d]
  IN  IF \E v \in versions : versions = {v} THEN CHOOSE v \in versions : TRUE ELSE None

\* normalizeCatalogs: the entries alike for either package manager.
Normal(lock, pm) ==
  [e \in Entries |->
     IF lock.entries[e] = None \/ pm = "pnpm" THEN lock.entries[e]
     ELSE [lock.entries[e] EXCEPT !.version = ResolvedVersion(lock, e[2])]]

Change(s, from, to) ==
  [type |-> s[2], dependency |-> s[3], from |-> from, to |-> to, affected |-> {s[1]}]

\* findCatalogConsumers, referencesCatalog.
Consumers(lock, e) ==
  {s \in Slots : s[3] = e[2] /\ lock.importers[s] = CatalogRef(e[1])}

SpecOf(entry)    == IF entry = None THEN None ELSE entry.spec
VersionOf(entry) == IF entry = None THEN None ELSE entry.version

\* Mutant: only a specifier that changes counts.
SpecifierMoves(b, a) == SpecOf(b) # SpecOf(a)

\* Did the entry move: its specifier, or the version under the same one?
EntryMoves(b, a) ==
  SpecOf(b) # SpecOf(a) \/ (VersionOf(b) # VersionOf(a) /\ VersionOf(a) # None)

From(b, a) == IF SpecOf(b) # SpecOf(a) THEN SpecOf(b)
              ELSE IF VersionOf(b) = None THEN None ELSE Exact(VersionOf(b))
To(b, a)   == IF SpecOf(b) # SpecOf(a) THEN SpecOf(a) ELSE Exact(VersionOf(a))

\* compareCatalogs: one change for every slot that consumes a moved entry; a
\* removed entry's consumers are those the first snapshot has.
CatalogChanges(before, after, pm) ==
  LET B == Normal(before, pm)
      A == Normal(after, pm)
      gone == {e \in Entries : B[e] # None /\ A[e] = None}
  IN  (UNION {{Change(s, From(B[e], A[e]), To(B[e], A[e])) : s \in Consumers(after, e)} :
                e \in {e \in Entries : A[e] # None /\ EntryMoves(B[e], A[e])}})
      \cup (UNION {{Change(s, SpecOf(B[e]), Removed) : s \in Consumers(before, e)} : e \in gone})
      \cup {[type |-> "dependency", dependency |-> e[2], from |-> SpecOf(B[e]),
             to |-> Removed, affected |-> {}] : e \in {e \in gone : Consumers(before, e) = {}}}

IsRef(declared) == declared # None /\ declared.op = "catalog:"

\* Mutant: a package's dependencies are keyed by name, the last section winning.
NamedSlots(lock, s) ==
  IF s[2] # "peerDependency" /\ lock.importers[<<s[1], "peerDependency", s[3]>>] # None
  THEN None ELSE lock.importers[s]

\* keyDependencies: keyed by name and section.
KeyedSlots(lock, s) == lock.importers[s]

\* compareImporters: specifiers slot by slot; catalog references are left to
\* compareCatalogs, except one that goes with its slot.
ImporterChanges(before, after) ==
  LET was(s) == KeyedSlots(before, s)
      is(s)  == KeyedSlots(after, s)
  IN  {Change(s, was(s), is(s)) :
         s \in {s \in Slots : is(s) # None /\ ~IsRef(is(s)) /\ was(s) # is(s)}}
      \cup {Change(s, was(s), Removed) : s \in {s \in Slots : was(s) # None /\ is(s) = None}}

\* compareLockfiles: nothing without both snapshots.
CompareLockfiles(before, after, pm) ==
  IF before = None \/ after = None THEN {}
  ELSE CatalogChanges(before, after, pm) \cup ImporterChanges(before, after)

\* groupChangesByPackage, for the changes a comparison yields (none is a config one).
ChangesOf(changes, p) == {c \in changes : p \in c.affected}

=============================================================================
