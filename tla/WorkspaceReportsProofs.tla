------------------------ MODULE WorkspaceReportsProofs ------------------------
(***************************************************************************)
(* Proofs about what a run of WorkspaceRuns says it did: the changes it    *)
(* reads out of the lockfiles, the updates it reports, the peer ranges.    *)
(***************************************************************************)
EXTENDS WorkspaceRunsProofs

-----------------------------------------------------------------------------
(* Two snapshots of the lockfile *)

LEMMA ReferenceIsRef ==
  ASSUME NEW declared \in Declared, IsRef(declared)
  PROVE  declared.at \in Catalogs /\ declared = CatalogRef(declared.at)
<1>1. declared \in References
  BY DEF IsRef, Declared, Specs, Operators
<1> QED BY <1>1 DEF References, CatalogRef

LEMMA ConsumerIs ==
  ASSUME NEW lock, NEW e \in Entries, NEW s \in Consumers(lock, e)
  PROVE  /\ s \in Slots /\ s[3] = e[2]
         /\ IsRef(lock.importers[s]) /\ lock.importers[s].at = e[1]
         /\ <<lock.importers[s].at, s[3]>> = e
<1>1. e = <<e[1], e[2]>> /\ e[1] \in Catalogs
  BY DEF Entries
<1>2. s \in Slots /\ s[3] = e[2] /\ lock.importers[s] = CatalogRef(e[1])
  BY DEF Consumers
<1>3. CatalogRef(e[1]) \in References
  BY <1>1 DEF CatalogRef, References
<1>4. IsRef(CatalogRef(e[1])) /\ CatalogRef(e[1]).at = e[1]
  BY <1>3, LocksAssumption DEF IsRef, CatalogRef
<1> QED BY <1>1, <1>2, <1>4

\* Every slot that refers to an entry is one of its consumers.
LEMMA RefConsumes ==
  ASSUME NEW lock \in Locks, NEW s \in Slots, IsRef(lock.importers[s])
  PROVE  LET e == <<lock.importers[s].at, s[3]>> IN e \in Entries /\ s \in Consumers(lock, e)
<1>1. lock.importers[s] \in Declared
  BY DEF Locks
<1>2. /\ lock.importers[s].at \in Catalogs
      /\ lock.importers[s] = CatalogRef(lock.importers[s].at)
  BY <1>1, ReferenceIsRef
<1>3. s[3] \in Deps
  BY DEF Slots
<1> QED BY <1>2, <1>3 DEF Entries, Consumers

LEMMA ResolvedVersionIs ==
  ASSUME NEW lock \in Locks, NEW d \in Deps
  PROVE  /\ ResolvedVersion(lock, d) \in Numbers \cup {None}
         /\ ResolvedVersion(lock, d) # None => lock.resolved[d] = {ResolvedVersion(lock, d)}
<1> DEFINE versions == lock.resolved[d]
<1>1. versions \in SUBSET Numbers
  BY DEF Locks
<1>2. ResolvedVersion(lock, d) =
        IF \E v \in versions : versions = {v} THEN CHOOSE v \in versions : TRUE ELSE None
  BY DEF ResolvedVersion
<1> HIDE DEF versions
<1>3. CASE \E v \in versions : versions = {v}
  <2>1. PICK v \in versions : versions = {v}
    BY <1>3
  <2>2. ResolvedVersion(lock, d) = v
    BY <1>2, <2>1
  <2> QED BY <1>1, <2>1, <2>2 DEF versions
<1>4. CASE ~\E v \in versions : versions = {v}
  BY <1>2, <1>4
<1> QED BY <1>3, <1>4

\* normalizeCatalogs keeps what there is, and every specifier.
LEMMA NormalIs ==
  ASSUME NEW lock \in Locks, NEW pm, NEW e \in Entries
  PROVE  /\ Normal(lock, pm)[e] \in Locked
         /\ Normal(lock, pm)[e] = None <=> lock.entries[e] = None
         /\ SpecOf(Normal(lock, pm)[e]) = SpecOf(lock.entries[e])
         /\ Normal(lock, pm)[e] # None =>
              Normal(lock, pm)[e].version = IF pm = "pnpm" THEN lock.entries[e].version
                                            ELSE ResolvedVersion(lock, e[2])
<1> DEFINE n == lock.entries[e]
           v == ResolvedVersion(lock, e[2])
<1>1. n \in Locked /\ e[2] \in Deps
  BY DEF Locks, Entries
<1>2. v \in Numbers \cup {None}
  BY <1>1, ResolvedVersionIs
<1>3. Normal(lock, pm)[e] = IF n = None \/ pm = "pnpm" THEN n ELSE [n EXCEPT !.version = v]
  BY DEF Normal
<1> HIDE DEF n, v
<1>4. CASE n = None \/ pm = "pnpm"
  BY <1>1, <1>3, <1>4 DEF n
<1>5. CASE ~(n = None \/ pm = "pnpm")
  <2>1. n \in Resolved
    BY <1>1, <1>5 DEF Locked
  <2> DEFINE m == [n EXCEPT !.version = v]
  <2>2. m \in Resolved /\ m.version = v /\ m.spec = n.spec
    BY <1>2, <2>1 DEF Resolved
  <2>3. Normal(lock, pm)[e] = m
    BY <1>3, <1>5
  <2>4. m # None /\ n # None
    BY <2>2, <1>5, LocksAssumption
  <2> HIDE DEF m
  <2> QED BY <1>5, <2>2, <2>3, <2>4 DEF Locked, SpecOf, n, v
<1> QED BY <1>4, <1>5

\* Entries that differ and are both there moved, unless the new version is not known.
LEMMA DifferentMoved ==
  ASSUME NEW b \in Locked, NEW a \in Locked, b # a, a # None,
         ~(SpecOf(b) = SpecOf(a) /\ VersionOf(a) = None)
  PROVE  EntryMoves(b, a)
<1>1. CASE SpecOf(b) # SpecOf(a)
  BY <1>1 DEF EntryMoves
<1>2. CASE SpecOf(b) = SpecOf(a)
  <2>1. a \in Resolved /\ SpecOf(a) = a.spec /\ a.spec \in Specs
    BY DEF Locked, SpecOf, Resolved
  <2>2. b # None /\ b \in Resolved /\ b.spec = a.spec
    BY <1>2, <2>1, SpecsAssumption DEF Locked, SpecOf
  <2>3. b.version # a.version
    BY <2>1, <2>2 DEF Resolved
  <2> QED BY <1>2, <2>2, <2>3 DEF EntryMoves, VersionOf
<1> QED BY <1>1, <1>2

LEMMA SameDidNotMove == ASSUME NEW b, NEW a, EntryMoves(b, a) PROVE b # a
BY DEF EntryMoves

\* An entry that moved is a change for every slot that consumes it, and nothing
\* else is but the entry nobody consumed that went.
LEMMA CatalogChangesAre ==
  ASSUME NEW b, NEW a, NEW pm, NEW c
  PROVE  LET B == Normal(b, pm)
             A == Normal(a, pm)
         IN  c \in CatalogChanges(b, a, pm) <=>
               \/ \E e \in Entries : /\ A[e] # None /\ EntryMoves(B[e], A[e])
                                     /\ \E s \in Consumers(a, e) :
                                          c = Change(s, From(B[e], A[e]), To(B[e], A[e]))
               \/ \E e \in Entries : /\ B[e] # None /\ A[e] = None
                                     /\ \E s \in Consumers(b, e) :
                                          c = Change(s, SpecOf(B[e]), Removed)
               \/ \E e \in Entries : /\ B[e] # None /\ A[e] = None /\ Consumers(b, e) = {}
                                     /\ c = [type |-> "dependency", dependency |-> e[2],
                                             from |-> SpecOf(B[e]), to |-> Removed, affected |-> {}]
<1> DEFINE B == Normal(b, pm)
           A == Normal(a, pm)
           moved == {e \in Entries : A[e] # None /\ EntryMoves(B[e], A[e])}
           gone == {e \in Entries : B[e] # None /\ A[e] = None}
           unused == {e \in gone : Consumers(b, e) = {}}
           X(e) == {Change(s, From(B[e], A[e]), To(B[e], A[e])) : s \in Consumers(a, e)}
           Y(e) == {Change(s, SpecOf(B[e]), Removed) : s \in Consumers(b, e)}
           XS == UNION {X(e) : e \in moved}
           YS == UNION {Y(e) : e \in gone}
           ZS == {[type |-> "dependency", dependency |-> e[2], from |-> SpecOf(B[e]),
                   to |-> Removed, affected |-> {}] : e \in unused}
<1>1. c \in CatalogChanges(b, a, pm) <=> c \in XS \cup YS \cup ZS
  BY DEF CatalogChanges
<1>2. c \in XS <=> \E e \in Entries : /\ A[e] # None /\ EntryMoves(B[e], A[e])
                                      /\ \E s \in Consumers(a, e) :
                                           c = Change(s, From(B[e], A[e]), To(B[e], A[e]))
  OBVIOUS
<1>3. c \in YS <=> \E e \in Entries : /\ B[e] # None /\ A[e] = None
                                      /\ \E s \in Consumers(b, e) :
                                           c = Change(s, SpecOf(B[e]), Removed)
  OBVIOUS
<1>4. c \in ZS <=> \E e \in Entries : /\ B[e] # None /\ A[e] = None /\ Consumers(b, e) = {}
                                      /\ c = [type |-> "dependency", dependency |-> e[2],
                                              from |-> SpecOf(B[e]), to |-> Removed, affected |-> {}]
  OBVIOUS
<1> HIDE DEF XS, YS, ZS
<1> QED BY <1>1, <1>2, <1>3, <1>4

LEMMA CatalogChangesHave ==
  ASSUME NEW b, NEW a, NEW pm, NEW e \in Entries, NEW s
  PROVE  LET B == Normal(b, pm)
             A == Normal(a, pm)
         IN  /\ A[e] # None /\ EntryMoves(B[e], A[e]) /\ s \in Consumers(a, e) =>
                  Change(s, From(B[e], A[e]), To(B[e], A[e])) \in CatalogChanges(b, a, pm)
             /\ B[e] # None /\ A[e] = None /\ s \in Consumers(b, e) =>
                  Change(s, SpecOf(B[e]), Removed) \in CatalogChanges(b, a, pm)
BY CatalogChangesAre

\* Every change a comparison yields comes from a slot of the importers, or from an
\* entry and a slot that consumes it; one of an entry nothing consumed is nobody's.
LEMMA ChangeComesFrom ==
  ASSUME NEW b \in Locks, NEW a \in Locks, NEW pm, NEW c \in CompareLockfiles(b, a, pm),
         NEW p \in c.affected
  PROVE  LET s == <<p, c.type, c.dependency>> IN
         \/ s \in Slots /\ b.importers[s] # a.importers[s]
         \/ \E e \in Entries :
              /\ Normal(a, pm)[e] # None /\ EntryMoves(Normal(b, pm)[e], Normal(a, pm)[e])
              /\ s \in Consumers(a, e)
              /\ c.to = To(Normal(b, pm)[e], Normal(a, pm)[e])
         \/ \E e \in Entries :
              /\ Normal(b, pm)[e] # None /\ Normal(a, pm)[e] = None
              /\ s \in Consumers(b, e)
              /\ c.to = Removed
<1> DEFINE B == Normal(b, pm)
           A == Normal(a, pm)
           gone == {e \in Entries : B[e] # None /\ A[e] = None}
           was(s) == KeyedSlots(b, s)
           is(s) == KeyedSlots(a, s)
<1>0. ASSUME NEW s \in Slots, NEW from, NEW to, c = Change(s, from, to)
      PROVE  s = <<p, c.type, c.dependency>> /\ c.to = to
  BY <1>0 DEF Change, Slots
<1>1. c \in CatalogChanges(b, a, pm) \cup ImporterChanges(b, a)
  BY DEF CompareLockfiles
<1>2. CASE c \in ImporterChanges(b, a)
  <2>1. \/ \E s \in Slots : was(s) # is(s) /\ c = Change(s, was(s), is(s))
        \/ \E s \in Slots : was(s) # None /\ is(s) = None /\ c = Change(s, was(s), Removed)
    BY <1>2 DEF ImporterChanges
  <2>2. PICK s \in Slots : was(s) # is(s) /\ \E from, to : c = Change(s, from, to)
    BY <2>1
  <2>3. s = <<p, c.type, c.dependency>>
    BY <2>2, <1>0
  <2>4. b.importers[s] # a.importers[s]
    BY <2>2 DEF KeyedSlots
  <2> QED BY <2>3, <2>4
<1>3. CASE c \in CatalogChanges(b, a, pm)
  <2>1. \/ \E e \in Entries : /\ A[e] # None /\ EntryMoves(B[e], A[e])
                              /\ \E s \in Consumers(a, e) :
                                   c = Change(s, From(B[e], A[e]), To(B[e], A[e]))
        \/ \E e \in gone : \E s \in Consumers(b, e) : c = Change(s, SpecOf(B[e]), Removed)
        \/ c.affected = {}
    BY <1>3, CatalogChangesAre
  <2>2. CASE \E e \in Entries : /\ A[e] # None /\ EntryMoves(B[e], A[e])
                                /\ \E s \in Consumers(a, e) :
                                     c = Change(s, From(B[e], A[e]), To(B[e], A[e]))
    <3>1. PICK e \in Entries : /\ A[e] # None /\ EntryMoves(B[e], A[e])
                               /\ \E s \in Consumers(a, e) :
                                    c = Change(s, From(B[e], A[e]), To(B[e], A[e]))
      BY <2>2
    <3>2. PICK s \in Consumers(a, e) : c = Change(s, From(B[e], A[e]), To(B[e], A[e]))
      BY <3>1
    <3>3. s = <<p, c.type, c.dependency>> /\ c.to = To(B[e], A[e])
      BY <3>2, <1>0 DEF Consumers
    <3> QED BY <3>1, <3>2, <3>3
  <2>3. CASE \E e \in gone : \E s \in Consumers(b, e) : c = Change(s, SpecOf(B[e]), Removed)
    <3>1. PICK e \in gone : \E s \in Consumers(b, e) : c = Change(s, SpecOf(B[e]), Removed)
      BY <2>3
    <3>2. PICK s \in Consumers(b, e) : c = Change(s, SpecOf(B[e]), Removed)
      BY <3>1
    <3>3. s = <<p, c.type, c.dependency>> /\ c.to = Removed
      BY <3>2, <1>0 DEF Consumers
    <3> QED BY <3>1, <3>2, <3>3
  <2> QED BY <2>1, <2>2, <2>3
<1> QED BY <1>1, <1>2, <1>3

-----------------------------------------------------------------------------
(* Attribution *)

\* An entry that an installed dependency refers to resolved, to a version installed.
Resolves(lock) ==
  \A e \in Entries : \A s \in Consumers(lock, e) :
    s[2] \in WritableTypes /\ lock.entries[e] # None =>
      lock.entries[e].version # None /\ lock.entries[e].version \in lock.resolved[e[2]]

LEMMA MeansIs ==
  ASSUME NEW lock \in Locks, NEW s \in Slots
  PROVE  /\ IsRef(lock.importers[s]) =>
              Means(lock, s) = Normal(lock, input.pm)[<<lock.importers[s].at, s[3]>>]
         /\ lock.importers[s] = None => Means(lock, s) = None
         /\ lock.importers[s] # None /\ ~IsRef(lock.importers[s]) =>
              Means(lock, s) = [spec |-> lock.importers[s], version |-> None]
BY DEF Means, IsRef

\* A slot whose meaning moved has a change.
LEMMA MovedSlotHasChange ==
  ASSUME NEW b \in Locks, NEW a \in Locks, NEW s \in Slots,
         Means(b, s) # Means(a, s),
         ~(IsRef(a.importers[s]) /\ b.importers[s] # a.importers[s]),
         ~(SpecOf(Means(b, s)) = SpecOf(Means(a, s)) /\ VersionOf(Means(a, s)) = None)
  PROVE  \E c \in CompareLockfiles(b, a, input.pm) :
           s[1] \in c.affected /\ c.type = s[2] /\ c.dependency = s[3]
<1> DEFINE B == Normal(b, input.pm)
           A == Normal(a, input.pm)
           gone == {e \in Entries : B[e] # None /\ A[e] = None}
<1>0. ASSUME NEW from, NEW to, Change(s, from, to) \in CompareLockfiles(b, a, input.pm)
      PROVE  \E c \in CompareLockfiles(b, a, input.pm) :
               s[1] \in c.affected /\ c.type = s[2] /\ c.dependency = s[3]
  BY <1>0 DEF Change
<1>1. /\ CatalogChanges(b, a, input.pm) \subseteq CompareLockfiles(b, a, input.pm)
      /\ ImporterChanges(b, a) \subseteq CompareLockfiles(b, a, input.pm)
  BY WorkspaceAssumption DEF CompareLockfiles
<1>2. CASE a.importers[s] # None /\ ~IsRef(a.importers[s])
  <2>1. b.importers[s] # a.importers[s]
    BY <1>2, MeansIs
  <2>2. Change(s, b.importers[s], a.importers[s]) \in ImporterChanges(b, a)
    BY <1>2, <2>1 DEF ImporterChanges, KeyedSlots
  <2> QED BY <1>0, <1>1, <2>2
<1>3. CASE a.importers[s] = None
  <2>1. b.importers[s] # None
    BY <1>3, MeansIs
  <2>2. Change(s, b.importers[s], Removed) \in ImporterChanges(b, a)
    BY <1>3, <2>1 DEF ImporterChanges, KeyedSlots
  <2> QED BY <1>0, <1>1, <2>2
<1>4. CASE IsRef(a.importers[s])
  <2> DEFINE e == <<a.importers[s].at, s[3]>>
  <2>1. b.importers[s] = a.importers[s]
    BY <1>4
  <2>2. e \in Entries /\ s \in Consumers(a, e) /\ s \in Consumers(b, e)
    BY <1>4, <2>1, RefConsumes
  <2>3. Means(b, s) = B[e] /\ Means(a, s) = A[e]
    BY <1>4, <2>1, MeansIs
  <2> HIDE DEF e, A, B
  <2>4. B[e] \in Locked /\ A[e] \in Locked
    BY <2>2, NormalIs DEF A, B
  <2>5. CASE A[e] = None
    <3>1. e \in gone
      BY <2>2, <2>3, <2>5
    <3>2. Change(s, SpecOf(B[e]), Removed) \in CatalogChanges(b, a, input.pm)
      BY <2>2, <3>1, CatalogChangesHave DEF A, B
    <3> QED BY <1>0, <1>1, <3>2
  <2>6. CASE A[e] # None
    <3>1. EntryMoves(B[e], A[e])
      BY <2>3, <2>4, <2>6, DifferentMoved
    <3>2. Change(s, From(B[e], A[e]), To(B[e], A[e])) \in CatalogChanges(b, a, input.pm)
      BY <2>2, <2>6, <3>1, CatalogChangesHave DEF A, B
    <3> QED BY <1>0, <1>1, <3>2
  <2> QED BY <2>5, <2>6
<1> QED BY <1>2, <1>3, <1>4

\* A change is about a slot that moved.
LEMMA ChangeHasMovedSlot ==
  ASSUME NEW b \in Locks, NEW a \in Locks, NEW c \in CompareLockfiles(b, a, input.pm),
         NEW p \in c.affected
  PROVE  LET s == <<p, c.type, c.dependency>> IN
         b.importers[s] # a.importers[s] \/ Means(b, s) # Means(a, s)
<1> DEFINE s == <<p, c.type, c.dependency>>
           B == Normal(b, input.pm)
           A == Normal(a, input.pm)
<1>1. CASE s \in Slots /\ b.importers[s] # a.importers[s]
  BY <1>1
<1>2. ASSUME NEW e \in Entries, B[e] # A[e], s \in Consumers(a, e) \/ s \in Consumers(b, e)
      PROVE  b.importers[s] # a.importers[s] \/ Means(b, s) # Means(a, s)
  <2>1. CASE b.importers[s] = a.importers[s]
    <3> HIDE DEF s, A, B
    <3>1. s \in Slots /\ IsRef(a.importers[s]) /\ <<a.importers[s].at, s[3]>> = e
      BY <1>2, <2>1, ConsumerIs
    <3>2. Means(b, s) = B[e] /\ Means(a, s) = A[e]
      BY <2>1, <3>1, MeansIs DEF A, B
    <3> QED BY <1>2, <3>2
  <2> QED BY <2>1
<1>3. CASE \E e \in Entries : /\ A[e] # None /\ EntryMoves(B[e], A[e])
                              /\ s \in Consumers(a, e)
  BY <1>2, <1>3, SameDidNotMove
<1>4. CASE \E e \in Entries : B[e] # None /\ A[e] = None /\ s \in Consumers(b, e)
  BY <1>2, <1>4
<1> QED BY <1>1, <1>3, <1>4, ChangeComesFrom

\* A version a change names for an installed dependency is the entry's.
LEMMA ChangeNamesVersion ==
  ASSUME NEW b \in Locks, NEW a \in Locks, Resolves(a), NEW e \in Entries,
         NEW s \in Consumers(a, e), NEW c \in CompareLockfiles(b, a, input.pm),
         s[1] \in c.affected, c.type = s[2], c.dependency = s[3],
         b.importers[s] = a.importers[s], s[2] \in WritableTypes,
         c.to # SpecOf(a.entries[e]), c.to # Removed
  PROVE  c.to = Exact(a.entries[e].version)
<1> DEFINE B == Normal(b, input.pm)
           A == Normal(a, input.pm)
<1>1. s \in Slots /\ s = <<s[1], c.type, c.dependency>> /\ <<a.importers[s].at, s[3]>> = e
  BY ConsumerIs DEF Slots
<1>2. PICK f \in Entries : /\ A[f] # None /\ EntryMoves(B[f], A[f])
                           /\ s \in Consumers(a, f)
                           /\ c.to = To(B[f], A[f])
  BY <1>1, ChangeComesFrom
<1>3. f = e
  BY <1>1, <1>2, ConsumerIs
<1>4. /\ SpecOf(A[e]) = SpecOf(a.entries[e]) /\ a.entries[e] # None
      /\ A[e].version = IF input.pm = "pnpm" THEN a.entries[e].version
                        ELSE ResolvedVersion(a, e[2])
  BY <1>2, <1>3, NormalIs
<1> HIDE DEF A, B
<1>5. SpecOf(B[e]) = SpecOf(A[e]) /\ c.to = Exact(A[e].version) /\ A[e].version # None
  BY <1>2, <1>3, <1>4 DEF To, EntryMoves, VersionOf
<1>6. a.entries[e].version \in a.resolved[e[2]]
  BY <1>4 DEF Resolves
<1>7. e[2] \in Deps
  BY DEF Entries
<1>8. CASE input.pm = "pnpm"
  BY <1>4, <1>5, <1>8
<1>9. CASE input.pm # "pnpm"
  <2>1. a.resolved[e[2]] = {ResolvedVersion(a, e[2])}
    BY <1>4, <1>5, <1>7, <1>9, ResolvedVersionIs
  <2> QED BY <1>4, <1>5, <1>6, <1>9, <2>1
<1> QED BY <1>8, <1>9

\* Every lockfile there is comes from an install.
LocksResolve == \A lock \in {repo.lock, tree.lock, before} : lock # None => Resolves(lock)

Compared == pc = "commit" => changes = CompareLockfiles(before, tree.lock, input.pm)

LEMMA NewLockResolves ==
  ASSUME Registry, NEW t \in Trees, CanInstall(t) PROVE Resolves(NewLock(t))
<1> SUFFICES ASSUME NEW e \in Entries, NEW s \in Consumers(NewLock(t), e),
                    s[2] \in WritableTypes, NewLock(t).entries[e] # None
             PROVE  /\ NewLock(t).entries[e].version # None
                    /\ NewLock(t).entries[e].version \in NewLock(t).resolved[e[2]]
  BY DEF Resolves
<1>1. NewLock(t).importers = Recorded(t)
  BY DEF NewLock
<1>2. s \in Slots /\ s[3] = e[2] /\ IsRef(Recorded(t)[s]) /\ <<Recorded(t)[s].at, s[3]>> = e
  BY <1>1, ConsumerIs
<1>3. e[2] \in Deps
  BY DEF Entries
<1>4. Recorded(t)[s] = t.manifest[s] /\ IsRef(t.manifest[s])
  BY <1>2 DEF Recorded, WritableTypes, IsRef
<1>5. s \in Used(t, e[2])
  BY <1>2, <1>4 DEF Used, IsRef
<1>6. Asked(t, s) = CatalogSpec(t, e)
  BY <1>2, <1>4 DEF Asked
<1>7. Resolution(t, CatalogSpec(t, e), e[2]) # None
  BY <1>3, <1>5, <1>6 DEF CanInstall
<1>8. NewLock(t).entries[e].version = Resolution(t, CatalogSpec(t, e), e[2])
  BY DEF NewLock
<1>9. NewLock(t).resolved[e[2]] = {Resolution(t, Asked(t, q), e[2]) : q \in Used(t, e[2])}
  BY <1>3 DEF NewLock
<1> QED BY <1>5, <1>6, <1>7, <1>8, <1>9

LEMMA InitReported == Init => LocksResolve /\ Compared
<1> SUFFICES ASSUME Init PROVE LocksResolve /\ Compared
  OBVIOUS
<1>1. PICK start \in Starts :
        /\ published = Published0 /\ young = [n \in Names |-> {}]
        /\ start.locked => CanInstall(start.repo)
        /\ repo = [start.repo EXCEPT !.lock = IF start.locked THEN NewLock(start.repo) ELSE None]
        /\ tree = repo /\ pc = "idle" /\ before = None
  BY DEF Init
<1>2. start.repo \in Trees /\ Registry
  BY <1>1, WorkspaceAssumption DEF Registry
<1>3. repo.lock = None \/ (CanInstall(start.repo) /\ repo.lock = NewLock(start.repo))
  BY <1>1, <1>2 DEF Trees
<1>4. repo.lock # None => Resolves(repo.lock)
  BY <1>2, <1>3, NewLockResolves
<1> QED BY <1>1, <1>4 DEF LocksResolve, Compared

LEMMA LocksResolveStep == ASSUME TypeOK, TypeOK', LocksResolve, [Next]_vars PROVE LocksResolve'
<1>1. ASSUME NEW t \in Trees, CanInstall(t), NEW files, files = [t EXCEPT !.lock = NewLock(t)]
      PROVE  files.lock # None => Resolves(files.lock)
  <2>1. files.lock = NewLock(t)
    BY <1>1 DEF Trees
  <2> QED BY <1>1, <2>1, TypeRegistry, NewLockResolves
<1>2. CASE StartRun \/ Land \/ Discard
  BY <1>2 DEF StartRun, Land, Discard, Forget, LocksResolve
<1>3. CASE tree'.lock = tree.lock /\ UNCHANGED <<repo, before>>
  BY <1>3 DEF LocksResolve
<1>4. CASE UpgradeManager
  <2> DEFINE up == Upgraded(tree.pins, Wanted(tree.pins, input.manager, published["manager"]))
  <2>1. (tree' = tree \/ tree' = [tree EXCEPT !.pins = up]) /\ UNCHANGED <<repo, before>>
    BY <1>4 DEF UpgradeManager
  <2> HIDE DEF up
  <2> QED BY <2>1, <1>3 DEF TypeOK, Trees
<1>5. CASE UpgradeRuntimes
  <2> DEFINE to == RuntimeTo(tree.runtime, input.runtime, published["runtime"])
  <2>1. (tree' = tree \/ tree' = [tree EXCEPT !.runtime = to]) /\ UNCHANGED <<repo, before>>
    BY <1>5 DEF UpgradeRuntimes
  <2> HIDE DEF to
  <2> QED BY <2>1, <1>3 DEF TypeOK, Trees
<1>6. CASE UpdateConfigDependency
  <2>1. \E x : (tree' = tree \/ tree' = [tree EXCEPT !.plugin = x]) /\ UNCHANGED <<repo, before>>
    BY <1>6 DEF UpdateConfigDependency
  <2> QED BY <2>1, <1>3 DEF TypeOK, Trees
<1>7. CASE UpdateRegularDependencies \/ SyncPeers
  <2>1. \E x : tree' = [tree EXCEPT !.manifest = x]
    <3>1. CASE UpdateRegularDependencies
      BY <3>1 DEF UpdateRegularDependencies
    <3>2. CASE SyncPeers
      BY <3>2 DEF SyncPeers
    <3> QED BY <1>7, <3>1, <3>2
  <2>2. UNCHANGED <<repo, before>>
    BY <1>7 DEF UpdateRegularDependencies, SyncPeers
  <2> QED BY <2>1, <2>2, <1>3 DEF TypeOK, Trees
<1>8. CASE SkipConfigDependency \/ SkipInstall \/ Compare
  BY <1>8, <1>3 DEF SkipConfigDependency, SkipInstall, Compare, runVars
<1>9. CASE Install
  <2>1. /\ CanInstall(tree) /\ tree' = [tree EXCEPT !.lock = NewLock(tree)] /\ tree \in Trees
        /\ UNCHANGED <<repo, before>>
    BY <1>9 DEF Install, runVars, TypeOK
  <2>2. tree'.lock # None => Resolves(tree'.lock)
    BY <2>1, <1>1
  <2> QED BY <2>1, <2>2 DEF LocksResolve
<1>10. CASE \/ \E n \in Names : Publish(n)
            \/ Mature
            \/ UNCHANGED vars
  BY <1>10, <1>3 DEF Publish, Mature, runVars, vars
<1>11. CASE Relock
  <2>1. /\ CanInstall(repo) /\ repo' = [repo EXCEPT !.lock = NewLock(repo)] /\ repo \in Trees
        /\ UNCHANGED <<tree, before>>
    BY <1>11 DEF Relock, runVars, TypeOK
  <2>2. repo'.lock # None => Resolves(repo'.lock)
    BY <2>1, <1>1
  <2> QED BY <2>1, <2>2 DEF LocksResolve
<1>12. CASE \/ \E s \in Hand.slots, declared \in Hand.specs : EditSlot(s, declared)
            \/ \E e \in Hand.entries, spec \in Hand.ranges : EditEntry(e, spec)
  <2>1. UNCHANGED <<tree, before>>
    BY <1>12 DEF EditSlot, EditEntry, Edit, runVars
  <2>2. \E x : repo' = [repo EXCEPT !.manifest = x] \/ repo' = [repo EXCEPT !.catalogs = x]
    BY <1>12 DEF EditSlot, EditEntry, Edit
  <2>3. repo'.lock = repo.lock
    BY <2>2 DEF TypeOK, Trees
  <2> QED BY <2>1, <2>3 DEF LocksResolve
<1> QED BY <1>2, <1>4, <1>5, <1>6, <1>7, <1>8, <1>9, <1>10, <1>11, <1>12
        DEF Next, RunStep, WorldStep

LEMMA ComparedStep == Compared /\ [Next]_vars => Compared'
<1> SUFFICES ASSUME Compared, [Next]_vars PROVE Compared'
  OBVIOUS
<1> USE DEF Compared
<1>1. CASE StartRun \/ UpgradeManager \/ UpgradeRuntimes \/ UpdateConfigDependency
  BY <1>1 DEF StartRun, UpgradeManager, UpgradeRuntimes, UpdateConfigDependency
<1>2. CASE SkipConfigDependency \/ UpdateRegularDependencies \/ SyncPeers \/ Install
  BY <1>2 DEF SkipConfigDependency, UpdateRegularDependencies, SyncPeers, Install
<1>3. CASE SkipInstall \/ Land \/ Discard
  BY <1>3 DEF SkipInstall, Land, Discard
<1>4. CASE Compare
  BY <1>4 DEF Compare
<1>5. CASE WorldStep
  BY <1>5 DEF WorldStep, Publish, Mature, EditSlot, EditEntry, Edit, Relock, runVars
<1>6. CASE UNCHANGED vars
  BY <1>6 DEF vars, runVars
<1> QED BY <1>1, <1>2, <1>3, <1>4, <1>5, <1>6 DEF Next, RunStep

LEMMA Attribution == TypeOK /\ LocksResolve /\ Compared => ChangesAreAttributed
<1> SUFFICES ASSUME TypeOK, LocksResolve, Compared,
                    pc = "commit", before # None, tree.lock # None
             PROVE  ChangesAreAttributed
  BY DEF ChangesAreAttributed
<1>1. /\ before \in Locks /\ tree.lock \in Locks /\ Resolves(tree.lock)
      /\ changes = CompareLockfiles(before, tree.lock, input.pm)
  BY TreeParts DEF TypeOK, LocksResolve, Compared
<1>2. ASSUME NEW s \in Slots,
             Means(before, s) # Means(tree.lock, s),
             ~(IsRef(tree.lock.importers[s]) /\ before.importers[s] # tree.lock.importers[s]),
             ~(SpecOf(Means(before, s)) = SpecOf(Means(tree.lock, s))
                 /\ VersionOf(Means(tree.lock, s)) = None)
      PROVE  \E c \in ChangesOf(changes, s[1]) : c.type = s[2] /\ c.dependency = s[3]
  BY <1>1, <1>2, MovedSlotHasChange DEF ChangesOf
<1>3. ASSUME NEW c \in changes, NEW p \in c.affected
      PROVE  LET s == <<p, c.type, c.dependency>> IN
             \/ before.importers[s] # tree.lock.importers[s]
             \/ Means(before, s) # Means(tree.lock, s)
  BY <1>1, <1>3, ChangeHasMovedSlot
<1>4. ASSUME NEW e \in Entries, NEW s \in Consumers(tree.lock, e),
             NEW c \in ChangesOf(changes, s[1]),
             c.type = s[2], c.dependency = s[3], before.importers[s] = tree.lock.importers[s],
             s[2] \in WritableTypes, c.to \notin {SpecOf(tree.lock.entries[e]), Removed}
      PROVE  c.to = Exact(tree.lock.entries[e].version)
  BY <1>1, <1>4, ChangeNamesVersion DEF ChangesOf
<1> QED BY <1>2, <1>3, <1>4 DEF ChangesAreAttributed

(* Changes are attributed to exactly the slots that moved, whatever the two
   lockfiles say, for either package manager: the three clauses of
   ChangesAreAttributed.  The last rests on what every lockfile there is comes
   from: an entry that an installed dependency refers to resolved, to a version
   that was installed, so bun's one version of the name is the entry's. *)
THEOREM ChangesAlwaysAttributed == Spec => []ChangesAreAttributed
<1>1. Init => TypeOK /\ LocksResolve /\ Compared
  BY InitType, InitReported
<1>2. TypeOK /\ LocksResolve /\ Compared /\ [Next]_vars => (TypeOK /\ LocksResolve /\ Compared)'
  BY NextType, LocksResolveStep, ComparedStep
<1> QED BY <1>1, <1>2, Attribution, PTL DEF Spec

-----------------------------------------------------------------------------
(* What a run reports of the manifests *)

SlotOf(u) == <<u.package, u.type, u.dependency>>

BeforeBumps == {"manager", "runtimes", "config", "regular"}
AfterPeers  == {"install", "after", "commit"}

\* What a section's report says happened: from what the committed manifest says to
\* what the checkout's says, where the write went through.
Told(u) ==
  /\ repo.manifest[SlotOf(u)] # u.to
  /\ u.package \notin broken => tree.manifest[SlotOf(u)] = u.to

\* Nothing is bumped before the regular step; it bumps no peer range, and reports a
\* slot once; the peer step may report a slot twice.
Reported ==
  /\ pc # "idle" => before = repo.lock
  /\ pc \in BeforeBumps =>
       tree.manifest = repo.manifest /\ \A u \in updates : u.type \notin Types
  /\ pc = "peers" =>
       /\ \A u \in updates : u.type \in Types => u.type \in WritableTypes /\ Told(u)
       /\ \A s \in Slots : s[2] = "peerDependency" => tree.manifest[s] = repo.manifest[s]
  /\ pc \in AfterPeers =>
       \A u \in updates :
         u.type \in Types /\ u.package \notin broken /\ (\A w \in updates : SameSlot(u, w) => w = u) =>
           Told(u)

Outcomes == [Synchronised -> {"done", "unread", "unwritten"}]

\* A section after which nothing has failed left all as it was, or wrote a range and
\* reported it.
LEMMA SectionDid ==
  ASSUME NEW type, NEW p, NEW d, NEW outcome \in Outcomes, NEW acc \in Accs,
         ~SyncSection(acc, type, p, d, outcome).failed
  PROVE  LET next == SyncSection(acc, type, p, d, outcome)
         IN  /\ ~acc.failed
             /\ \/ next = acc
                \/ \E new : /\ new # acc.peer /\ next.peer = new
                            /\ next.reports = acc.reports \cup {Report("peerDependency", d, p, acc.peer, new)}
<1> DEFINE bumps == {u \in Synchronised : u.type = type /\ u.dependency = d /\ u.package = p}
           u     == CHOOSE u \in bumps : TRUE
           new   == PeerRange(input.strategy[d], acc.peer, u.from.at, u.to.at)
           next  == SyncSection(acc, type, p, d, outcome)
           lost  == [acc EXCEPT !.failed = TRUE]
           far   == [peer    |-> IF outcome[u] = "done" THEN new ELSE acc.peer,
                     reports |-> acc.reports \cup {Report("peerDependency", d, p, acc.peer, new)},
                     failed  |-> acc.failed \/ outcome[u] = "unwritten"]
<1>1. next = IF bumps = {} THEN acc
             ELSE IF outcome[u] = "unread" THEN lost
             ELSE IF ~Parses(acc.peer) \/ new \in {None, acc.peer} THEN acc ELSE far
  BY DEF SyncSection
<1>2. lost.failed
  BY DEF Accs
<1>3. CASE next = acc
  BY <1>3
<1>4. CASE next # acc
  <2>1. bumps # {} /\ outcome[u] # "unread" /\ new # acc.peer /\ next = far
    BY <1>1, <1>2, <1>4
  <2>2. u \in Synchronised
    BY <2>1
  <2> HIDE DEF u, new, next, bumps
  <2>3. ~far.failed
    BY <2>1 DEF next
  <2>4. ~acc.failed /\ outcome[u] # "unwritten"
    BY <2>3
  <2>5. outcome[u] = "done"
    BY <2>1, <2>2, <2>4 DEF Outcomes
  <2>6. next.peer = new /\ next.reports = acc.reports \cup {Report("peerDependency", d, p, acc.peer, new)}
    BY <2>1, <2>5
  <2> QED BY <2>1, <2>4, <2>6 DEF next
<1> QED BY <1>3, <1>4

\* How a peer range and its reports stand to the range the loop found first.
Accounted(acc, peer) ==
  \/ acc.reports = {} /\ acc.peer = peer
  \/ \E u : acc.reports = {u} /\ u.from = peer /\ u.to # peer /\ acc.peer = u.to
  \/ \E u, w \in acc.reports : u # w

LEMMA SectionAccounts ==
  ASSUME NEW acc \in Accs, NEW peer, Accounted(acc, peer), NEW type, NEW p, NEW d,
         NEW outcome \in Outcomes, ~SyncSection(acc, type, p, d, outcome).failed
  PROVE  Accounted(SyncSection(acc, type, p, d, outcome), peer)
<1> DEFINE next == SyncSection(acc, type, p, d, outcome)
<1>1. \/ next = acc
      \/ \E new : /\ new # acc.peer /\ next.peer = new
                  /\ next.reports = acc.reports \cup {Report("peerDependency", d, p, acc.peer, new)}
  BY SectionDid
<1>2. CASE next = acc
  BY <1>2
<1>3. CASE next # acc
  <2> HIDE DEF next
  <2>1. PICK new, rep : /\ rep = Report("peerDependency", d, p, acc.peer, new)
                        /\ new # acc.peer /\ next.peer = new
                        /\ next.reports = acc.reports \cup {rep}
    BY <1>1, <1>3
  <2>2. rep.from = acc.peer /\ rep.to = new
    BY <2>1 DEF Report
  <2>3. CASE acc.reports = {} /\ acc.peer = peer
    BY <2>1, <2>2, <2>3 DEF Accounted, next
  <2>4. CASE \E w : acc.reports = {w} /\ w.from = peer /\ w.to # peer /\ acc.peer = w.to
    <3>1. PICK w : acc.reports = {w} /\ w.from = peer /\ w.to # peer /\ acc.peer = w.to
      BY <2>4
    <3>2. rep # w /\ rep \in next.reports /\ w \in next.reports
      BY <2>1, <2>2, <3>1
    <3> QED BY <3>2 DEF Accounted, next
  <2>5. CASE \E x, w \in acc.reports : x # w
    BY <2>1, <2>5 DEF Accounted, next
  <2> QED BY <2>3, <2>4, <2>5 DEF Accounted
<1> QED BY <1>2, <1>3

\* The three sections in turn, each over what the loop holds after the last.
LEMMA SyncedBy ==
  ASSUME TypeOK, NEW p \in Packages, NEW d \in Deps, NEW outcome \in Outcomes
  PROVE  LET a0 == [peer |-> tree.manifest[<<p, "peerDependency", d>>], reports |-> {}, failed |-> FALSE]
             a1 == SyncSection(a0, "dependency", p, d, outcome)
             a2 == SyncSection(a1, "devDependency", p, d, outcome)
             a3 == SyncSection(a2, "optionalDependency", p, d, outcome)
         IN  /\ Synced(p, d, outcome) = a3
             /\ a0 \in Accs /\ a1 \in Accs /\ a2 \in Accs
             /\ ~a3.failed => ~a2.failed /\ ~a1.failed
<1> DEFINE a0 == [peer |-> tree.manifest[<<p, "peerDependency", d>>], reports |-> {}, failed |-> FALSE]
           a1 == SyncSection(a0, "dependency", p, d, outcome)
           a2 == SyncSection(a1, "devDependency", p, d, outcome)
           a3 == SyncSection(a2, "optionalDependency", p, d, outcome)
<1>1. Synced(p, d, outcome) = a3
  BY DEF Synced
<1>2. a0 \in Accs
  BY TreeParts DEF Accs, TypeOK, Slots, Types
<1>3. /\ "dependency" \in WritableTypes /\ "devDependency" \in WritableTypes
      /\ "optionalDependency" \in WritableTypes /\ updates \subseteq Reports /\ input \in Inputs
  BY DEF WritableTypes, TypeOK
<1> HIDE DEF a0, a1, a2, a3
<1>4. a1 \in Accs
  BY <1>2, <1>3, SyncSectionIs DEF a1
<1>5. a2 \in Accs
  BY <1>3, <1>4, SyncSectionIs DEF a2
<1>6. ~a3.failed => ~a2.failed
  BY <1>5, SectionDid DEF a3
<1>7. ~a2.failed => ~a1.failed
  BY <1>4, SectionDid DEF a2
<1> QED BY <1>1, <1>2, <1>4, <1>5, <1>6, <1>7 DEF a0, a1, a2, a3

LEMMA SyncedReports ==
  ASSUME TypeOK, NEW p \in Packages, NEW d \in Deps, NEW outcome \in Outcomes,
         ~Synced(p, d, outcome).failed
  PROVE  Accounted(Synced(p, d, outcome), tree.manifest[<<p, "peerDependency", d>>])
<1> DEFINE peer == tree.manifest[<<p, "peerDependency", d>>]
           a0 == [peer |-> peer, reports |-> {}, failed |-> FALSE]
           a1 == SyncSection(a0, "dependency", p, d, outcome)
           a2 == SyncSection(a1, "devDependency", p, d, outcome)
           a3 == SyncSection(a2, "optionalDependency", p, d, outcome)
<1>1. /\ Synced(p, d, outcome) = a3 /\ ~a3.failed /\ ~a2.failed /\ ~a1.failed
      /\ a0 \in Accs /\ a1 \in Accs /\ a2 \in Accs
  BY SyncedBy
<1>2. Accounted(a0, peer)
  BY DEF Accounted
<1> HIDE DEF a0, a1, a2, a3, peer
<1>3. Accounted(a1, peer)
  BY <1>1, <1>2, SectionAccounts DEF a1
<1>4. Accounted(a2, peer)
  BY <1>1, <1>3, SectionAccounts DEF a2
<1>5. Accounted(a3, peer)
  BY <1>1, <1>4, SectionAccounts DEF a3
<1> QED BY <1>1, <1>5 DEF peer

\* Every report of the peer step is about the peer range it was made for.
LEMMA SyncedAbout ==
  ASSUME TypeOK, NEW p \in Packages, NEW d \in Deps, NEW outcome,
         NEW u \in Synced(p, d, outcome).reports
  PROVE  u.type = "peerDependency" /\ u.dependency = d /\ u.package = p
<1> DEFINE About(acc) == \A w \in acc.reports :
                           w.type = "peerDependency" /\ w.dependency = d /\ w.package = p
           a0 == [peer |-> tree.manifest[<<p, "peerDependency", d>>], reports |-> {}, failed |-> FALSE]
           a1 == SyncSection(a0, "dependency", p, d, outcome)
           a2 == SyncSection(a1, "devDependency", p, d, outcome)
           a3 == SyncSection(a2, "optionalDependency", p, d, outcome)
<1>1. ASSUME NEW acc \in Accs, NEW type \in WritableTypes, About(acc)
      PROVE  About(SyncSection(acc, type, p, d, outcome)) /\ SyncSection(acc, type, p, d, outcome) \in Accs
  <2>1. \E from, to : SyncSection(acc, type, p, d, outcome).reports
                       \subseteq acc.reports \cup {Report("peerDependency", d, p, from, to)}
    <3> DEFINE bumps == {w \in Synchronised : w.type = type /\ w.dependency = d /\ w.package = p}
               w     == CHOOSE w \in bumps : TRUE
               new   == PeerRange(input.strategy[d], acc.peer, w.from.at, w.to.at)
    <3>1. [acc EXCEPT !.failed = TRUE].reports = acc.reports
      BY DEF Accs
    <3>2. SyncSection(acc, type, p, d, outcome).reports
            \subseteq acc.reports \cup {Report("peerDependency", d, p, acc.peer, new)}
      BY <3>1 DEF SyncSection
    <3> HIDE DEF new
    <3> QED BY <3>2
  <2>2. About(SyncSection(acc, type, p, d, outcome))
    BY <1>1, <2>1 DEF Report
  <2>3. SyncSection(acc, type, p, d, outcome) \in Accs
    BY SyncSectionIs DEF TypeOK
  <2> QED BY <2>2, <2>3
<1>2. About(a0) /\ a0 \in Accs
  BY TreeParts DEF Accs, TypeOK, Slots, Types
<1>3. Synced(p, d, outcome) = a3
  BY DEF Synced
<1>4. /\ "dependency" \in WritableTypes /\ "devDependency" \in WritableTypes
      /\ "optionalDependency" \in WritableTypes
  BY DEF WritableTypes
<1> HIDE DEF a0, a1, a2, a3, About
<1>5. About(a1) /\ a1 \in Accs
  BY <1>1, <1>2, <1>4 DEF a1
<1>6. About(a2) /\ a2 \in Accs
  BY <1>1, <1>4, <1>5 DEF a2
<1>7. About(a3)
  BY <1>1, <1>4, <1>6 DEF a3
<1> QED BY <1>3, <1>7 DEF About

LEMMA InitTold == Init => Reported
BY DEF Init, Reported, BeforeBumps, AfterPeers

\* The regular step reports what it bumps, once.
LEMMA RegularTold == ASSUME TypeOK, TypeOK', Reported, UpdateRegularDependencies PROVE Reported'
<1>1. PICK blind \in SUBSET input.matched, moving \in SUBSET Slots,
           failing \in SUBSET Packages :
        LET to(s) == Bump(tree.manifest[s], Eligible(s[3], blind))
        IN  /\ \A s \in moving : /\ s[2] \in WritableTypes /\ Parses(tree.manifest[s])
                                 /\ to(s) # tree.manifest[s]
            /\ tree' = [tree EXCEPT !.manifest =
                          [s \in Slots |-> IF s \in moving /\ s[1] \notin failing THEN to(s)
                                                                              ELSE tree.manifest[s]]]
            /\ updates' = updates \cup {Report(s[2], s[3], s[1], tree.manifest[s], to(s)) : s \in moving}
            /\ clean' => clean /\ blind = {}
            /\ broken' = failing
            /\ UNCHANGED <<input, repo, worldVars>>
  BY RegularReports
<1> DEFINE to(s) == Bump(tree.manifest[s], Eligible(s[3], blind))
           man == [s \in Slots |-> IF s \in moving /\ s[1] \notin failing THEN to(s)
                                                                     ELSE tree.manifest[s]]
<1>2. /\ pc = "regular" /\ pc' = "peers" /\ before' = before /\ before = repo.lock
      /\ tree.manifest = repo.manifest /\ \A u \in updates : u.type \notin Types
      /\ repo' = repo
  BY <1>1 DEF UpdateRegularDependencies, Reported, BeforeBumps
<1>3. tree'.manifest = man
  <2> HIDE DEF man
  <2>1. tree' = [tree EXCEPT !.manifest = man]
    BY <1>1 DEF man
  <2> QED BY <2>1 DEF TypeOK, Trees
<1>4. ASSUME NEW s \in Slots, s[2] = "peerDependency" PROVE tree'.manifest[s] = repo'.manifest[s]
  <2>1. s \notin moving
    BY <1>1, <1>4 DEF WritableTypes
  <2> QED BY <1>2, <1>3, <2>1
<1>5. ASSUME NEW u \in updates', u.type \in Types
      PROVE  u.type \in WritableTypes /\ Told(u)'
  <2>1. PICK s \in moving : u = Report(s[2], s[3], s[1], tree.manifest[s], to(s))
    <3> HIDE DEF to, man
    <3> QED BY <1>1, <1>2, <1>5 DEF to
  <2>2. /\ s \in Slots /\ s[2] \in WritableTypes /\ to(s) # tree.manifest[s]
    BY <1>1
  <2>3. man[s] = IF s[1] \notin failing THEN to(s) ELSE tree.manifest[s]
    BY <2>2
  <2> HIDE DEF to, man
  <2>4. /\ u.type = s[2] /\ u.to = to(s) /\ u.package = s[1] /\ SlotOf(u) = s
    BY <2>1, <2>2 DEF Report, SlotOf, Slots
  <2>5. broken' = failing
    BY <1>1
  <2> QED BY <1>2, <1>3, <2>2, <2>3, <2>4, <2>5 DEF Told
<1> QED BY <1>2, <1>4, <1>5 DEF Reported, BeforeBumps, AfterPeers

\* The peer step reports what it writes; a range it reports once is what it wrote.
LEMMA PeersTold == ASSUME TypeOK, TypeOK', Reported, SyncPeers PROVE Reported'
<1>1. PICK outcome \in Outcomes :
        /\ tree' = [tree EXCEPT !.manifest =
                      [s \in Slots |-> IF s[2] = "peerDependency"
                                       THEN Synced(s[1], s[3], outcome).peer
                                       ELSE tree.manifest[s]]]
        /\ updates' = updates \cup UNION {Synced(s[1], s[3], outcome).reports : s \in Slots}
        /\ broken' = broken \cup {p \in Packages : \E d \in Deps : Synced(p, d, outcome).failed}
        /\ UNCHANGED <<input, repo, worldVars>>
  <2> HIDE DEF Synced, Synchronised
  <2> QED BY PeerReported DEF Outcomes
<1> DEFINE man == [s \in Slots |-> IF s[2] = "peerDependency" THEN Synced(s[1], s[3], outcome).peer
                                                              ELSE tree.manifest[s]]
<1>2. /\ pc = "peers" /\ pc' = "install" /\ before' = before /\ before = repo.lock
      /\ repo' = repo
      /\ \A u \in updates : u.type \in Types => u.type \in WritableTypes /\ Told(u)
      /\ \A s \in Slots : s[2] = "peerDependency" => tree.manifest[s] = repo.manifest[s]
  BY <1>1 DEF SyncPeers, Reported
<1>3. tree'.manifest = man
  <2> HIDE DEF man
  <2>1. tree' = [tree EXCEPT !.manifest = man]
    BY <1>1 DEF man
  <2> QED BY <2>1 DEF TypeOK, Trees
<1>4. ASSUME NEW u \in updates', u.type \in Types, u.package \notin broken',
             \A w \in updates' : SameSlot(u, w) => w = u
      PROVE  Told(u)'
  <2>1. CASE u \in updates
    <3>1. u.type \in WritableTypes /\ Told(u) /\ u.package \notin broken
      BY <1>1, <1>2, <1>4, <2>1
    <3>2. SlotOf(u) \in Slots /\ SlotOf(u)[2] # "peerDependency"
      BY <2>1, <1>4, <3>1, SectionReport DEF TypeOK, SlotOf, Slots, WritableTypes
    <3> QED BY <1>2, <1>3, <3>1, <3>2 DEF Told
  <2>2. CASE u \notin updates
    <3>1. PICK s \in Slots : u \in Synced(s[1], s[3], outcome).reports
      BY <1>1, <2>2
    <3> DEFINE p == s[1]
               d == s[3]
               q == <<p, "peerDependency", d>>
               reports == Synced(p, d, outcome).reports
    <3>2. p \in Packages /\ d \in Deps /\ q \in Slots /\ q[1] = p /\ q[2] = "peerDependency" /\ q[3] = d
      BY DEF Slots, Types
    <3>3. \A w \in reports : w.type = "peerDependency" /\ w.dependency = d /\ w.package = p
      BY <3>2, SyncedAbout
    <3>4. reports \subseteq updates'
      BY <1>1
    <3>5. reports = {u}
      <4>1. \A w \in reports : SameSlot(u, w)
        BY <3>1, <3>3 DEF SameSlot
      <4> QED BY <1>4, <3>1, <3>4, <4>1
    <3>6. SlotOf(u) = q /\ ~Synced(p, d, outcome).failed
      BY <1>1, <1>4, <3>1, <3>2, <3>3 DEF SlotOf
    <3>7. man[q] = Synced(p, d, outcome).peer
      BY <3>2
    <3> HIDE DEF man, reports, q, p, d
    <3>8. Accounted(Synced(p, d, outcome), tree.manifest[q])
      BY <3>2, <3>6, SyncedReports DEF q
    <3>9. u.to # tree.manifest[q] /\ Synced(p, d, outcome).peer = u.to
      BY <3>5, <3>8 DEF Accounted, reports
    <3>10. tree.manifest[q] = repo.manifest[q]
      BY <1>2, <3>2
    <3> QED BY <1>2, <1>3, <3>6, <3>7, <3>9, <3>10 DEF Told
  <2> QED BY <2>1, <2>2
<1> QED BY <1>2, <1>4 DEF Reported, BeforeBumps, AfterPeers

LEMMA ReportedStep == ASSUME TypeOK, TypeOK', Reported, [Next]_vars PROVE Reported'
<1>1. CASE StartRun
  BY <1>1 DEF StartRun, Reported, BeforeBumps, AfterPeers
<1>2. CASE UpgradeManager \/ UpgradeRuntimes \/ UpdateConfigDependency
  <2>1. \A u \in updates' : u \in updates \/ u.type \notin Types
    BY <1>2, ToolReports
  <2>2. tree'.manifest = tree.manifest
    <3>1. \E x : \/ tree' = tree
                \/ tree' = [tree EXCEPT !.pins = x]
                \/ tree' = [tree EXCEPT !.runtime = x]
                \/ tree' = [tree EXCEPT !.plugin = x]
      <4>1. CASE UpgradeManager
        BY <4>1 DEF UpgradeManager
      <4>2. CASE UpgradeRuntimes
        BY <4>2 DEF UpgradeRuntimes
      <4>3. CASE UpdateConfigDependency
        BY <4>3 DEF UpdateConfigDependency
      <4> QED BY <1>2, <4>1, <4>2, <4>3
    <3> QED BY <3>1 DEF TypeOK, Trees
  <2>3. /\ pc \in {"manager", "runtimes", "config"} /\ pc' \in {"runtimes", "config", "regular"}
        /\ before' = before /\ repo' = repo
    BY <1>2 DEF UpgradeManager, UpgradeRuntimes, UpdateConfigDependency
  <2> QED BY <2>1, <2>2, <2>3 DEF Reported, BeforeBumps, AfterPeers
<1>3. CASE SkipConfigDependency
  BY <1>3 DEF SkipConfigDependency, Reported, BeforeBumps, AfterPeers
<1>4. CASE UpdateRegularDependencies
  BY <1>4, RegularTold
<1>5. CASE SyncPeers
  BY <1>5, PeersTold
<1>6. CASE Install
  <2>1. /\ pc = "install" /\ pc' = "after" /\ before' = before /\ repo' = repo
        /\ updates' = updates /\ broken' = broken
        /\ tree' = [tree EXCEPT !.lock = NewLock(tree)]
    BY <1>6 DEF Install, runVars
  <2>2. tree'.manifest = tree.manifest
    BY <2>1 DEF TypeOK, Trees
  <2> QED BY <2>1, <2>2 DEF Reported, BeforeBumps, AfterPeers, Told
<1>7. CASE SkipInstall \/ Compare
  BY <1>7 DEF SkipInstall, Compare, runVars, Reported, BeforeBumps, AfterPeers, Told
<1>8. CASE Land \/ Discard
  BY <1>8 DEF Land, Discard, Reported, BeforeBumps, AfterPeers
<1>9. CASE (\E n \in Names : Publish(n)) \/ Mature \/ UNCHANGED vars
  BY <1>9 DEF Publish, Mature, vars, runVars, Reported, Told
<1>10. CASE \/ \E s \in Hand.slots, declared \in Hand.specs : EditSlot(s, declared)
            \/ \E e \in Hand.entries, spec \in Hand.ranges : EditEntry(e, spec)
            \/ Relock
  BY <1>10 DEF EditSlot, EditEntry, Edit, Relock, Reported, BeforeBumps, AfterPeers
<1> QED BY <1>1, <1>2, <1>3, <1>4, <1>5, <1>6, <1>7, <1>8, <1>9, <1>10
        DEF Next, RunStep, WorldStep

LEMMA ReportsMatch == TypeOK /\ Caught /\ Compared /\ Reported => ReportsMatchLockfile
<1> SUFFICES ASSUME TypeOK, Caught, Compared, Reported, pc = "commit", InStep(repo),
                    NEW u \in updates,
                    u.type \in WritableTypes \/ (u.type = "peerDependency" /\ input.pm = "bun"),
                    u.package \notin broken, \A w \in updates : SameSlot(u, w) => w = u
             PROVE  \E c \in ChangesOf(changes, u.package) :
                      c.type = u.type /\ c.dependency = u.dependency /\ c.to = u.to
  BY DEF ReportsMatchLockfile
<1> DEFINE s == SlotOf(u)
           c == Change(s, repo.manifest[s], u.to)
<1>1. s \in Slots /\ s = <<u.package, u.type, u.dependency>> /\ u.to \in Specs
  BY SectionReport DEF TypeOK, SlotOf, Slots, Types
<1>2. repo.manifest[s] # u.to /\ tree.manifest[s] = u.to /\ before = repo.lock
  BY DEF Reported, AfterPeers, Told, Types
<1>3. /\ before # None /\ before.importers[s] = repo.manifest[s]
      /\ tree.lock # None /\ tree.lock.importers[s] = tree.manifest[s]
  <2>1. /\ before # None /\ before.importers = Recorded(repo)
        /\ tree.lock # None /\ tree.lock.importers = Recorded(tree)
    BY <1>2 DEF Caught, InStep
  <2>2. ~(input.pm = "pnpm" /\ s[2] = "peerDependency")
    BY <1>1 DEF WritableTypes
  <2>3. Recorded(repo)[s] = repo.manifest[s] /\ Recorded(tree)[s] = tree.manifest[s]
    BY <1>1, <2>2 DEF Recorded
  <2> QED BY <2>1, <2>3
<1>4. u.to # None /\ ~IsRef(u.to)
  BY <1>1, SpecsAssumption DEF IsRef, Specs, Operators
<1> HIDE DEF s
<1>5. c \in ImporterChanges(before, tree.lock)
  BY <1>1, <1>2, <1>3, <1>4 DEF ImporterChanges, KeyedSlots
<1>6. c \in changes
  BY <1>3, <1>5 DEF Compared, CompareLockfiles
<1>7. /\ c.type = u.type /\ c.dependency = u.dependency /\ c.to = u.to
      /\ u.package \in c.affected
  BY <1>1 DEF Change
<1> QED BY <1>6, <1>7 DEF ChangesOf

(* What a run reports of the manifests is what the lockfiles say, whichever steps
   reported and whichever reads and writes failed: every bump, and with bun every
   peer range, whose package met no failed read or write, unless it was synced to
   two sections in turn.  Of pnpm's peers the lockfile says nothing.  The invariant
   behind it: such a report is from a specifier the committed manifest has there to
   another, which the checkout's has. *)
THEOREM ReportsAlwaysMatchLockfile == Spec => []ReportsMatchLockfile
<1>1. Init => TypeOK /\ Untouched /\ Caught /\ Compared /\ Reported
  BY InitType, InitKept, InitReported, InitTold
<1>2. TypeOK /\ Untouched /\ Caught /\ Compared /\ Reported /\ [Next]_vars
        => (TypeOK /\ Untouched /\ Caught /\ Compared /\ Reported)'
  BY NextType, UntouchedStep, CaughtStep, ComparedStep, ReportedStep
<1> QED BY <1>1, <1>2, ReportsMatch, PTL DEF Spec

-----------------------------------------------------------------------------
(* Peer ranges that follow their dependency *)

LEMMA OlderIsNotNewer ==
  ASSUME NEW v \in Numbers, NEW w \in Numbers, Older(v, w) PROVE ~Older(w, v)
<1>1. PICK a, b, c \in Nat : v = <<a, b, c>>
  BY DEF Numbers
<1>2. PICK x, y, z \in Nat : w = <<x, y, z>>
  BY DEF Numbers
<1> QED BY <1>1, <1>2 DEF Older

\* What is not older and has no new major or minor has the same.
LEMMA SameMinor ==
  ASSUME NEW old \in Numbers, NEW new \in Numbers, ~Older(new, old), ~MinorOrMajor(old, new)
  PROVE  new[1] = old[1] /\ new[2] = old[2]
<1>1. PICK a, b, c \in Nat : old = <<a, b, c>>
  BY DEF Numbers
<1>2. PICK x, y, z \in Nat : new = <<x, y, z>>
  BY DEF Numbers
<1> QED BY <1>1, <1>2 DEF Older, MinorOrMajor

\* Only an upper bound is ever bumped down.
LEMMA BumpsGoUp ==
  ASSUME NEW spec \in Specs, NEW eligible \in SUBSET Versions, spec.op \notin {"<", "<="}
  PROVE  ~Older(Bump(spec, eligible).at, spec.at)
<1> DEFINE S    == {v \in eligible : ResolutionRange(spec, v)}
           best == ResolveLatest(S)
<1>1. best # None => best \in S /\ best \in Numbers
  BY ResolvesInside
<1>2. Bump(spec, eligible) = IF best = None THEN spec ELSE [spec EXCEPT !.at = best]
  BY DEF Bump
<1>3. spec.at \in Numbers /\ spec.op \in {"", "^", "~", ">=", ">"}
  BY DEF Specs, Operators
<1>4. ~Older(spec.at, spec.at)
  BY <1>3, NotOlderThanItself
<1>5. CASE best = None
  BY <1>2, <1>4, <1>5
<1>6. CASE best # None
  <2>1. best \in Numbers /\ ResolutionRange(spec, best)
    BY <1>1, <1>6
  <2> HIDE DEF best
  <2>2. ~Older(best, spec.at)
    <3>1. CASE ConfigDepUpgradeRange(spec.at, best)
      BY <3>1 DEF ConfigDepUpgradeRange
    <3>2. CASE Admits(spec, best)
      <4>1. \/ best = spec.at
            \/ ~Older(best, spec.at)
            \/ Older(spec.at, best)
        BY <1>3, <3>2 DEF Admits
      <4> QED BY <1>3, <1>4, <2>1, <4>1, OlderIsNotNewer
    <3> QED BY <2>1, <3>1, <3>2 DEF ResolutionRange
  <2>3. Bump(spec, eligible).at = best
    BY <1>2, <1>6 DEF Specs
  <2> QED BY <2>2, <2>3
<1> QED BY <1>5, <1>6

ReportsOf(s) == {u \in updates : u.type \in Types /\ SlotOf(u) = s}

\* A slot was bumped, and reported, or left alone.
Bumped(s, u) ==
  /\ u.from = repo.manifest[s] /\ Parses(u.from) /\ Parses(u.to)
  /\ u.from \in Specs /\ u.to \in Specs /\ u.to.op = u.from.op
  /\ u.from.op \notin {"<", "<="} => ~Older(u.to.at, u.from.at)
  /\ s[1] \notin broken => tree.manifest[s] = u.to

SlotBySlot ==
  pc = "peers" =>
    \A s \in Slots :
      \/ ReportsOf(s) = {} /\ tree.manifest[s] = repo.manifest[s]
      \/ \E u : ReportsOf(s) = {u} /\ Bumped(s, u)

StillFollow ==
  pc \in AfterPeers =>
    \A p \in Packages \ broken, d \in Deps : Follows(repo, p, d) => Follows(tree, p, d)

LEMMA RegularSlotBySlot ==
  ASSUME TypeOK, TypeOK', Reported, UpdateRegularDependencies PROVE SlotBySlot'
<1>1. PICK blind \in SUBSET input.matched, moving \in SUBSET Slots,
           failing \in SUBSET Packages :
        LET to(s) == Bump(tree.manifest[s], Eligible(s[3], blind))
        IN  /\ \A s \in moving : /\ s[2] \in WritableTypes /\ Parses(tree.manifest[s])
                                 /\ to(s) # tree.manifest[s]
            /\ tree' = [tree EXCEPT !.manifest =
                          [s \in Slots |-> IF s \in moving /\ s[1] \notin failing THEN to(s)
                                                                              ELSE tree.manifest[s]]]
            /\ updates' = updates \cup {Report(s[2], s[3], s[1], tree.manifest[s], to(s)) : s \in moving}
            /\ clean' => clean /\ blind = {}
            /\ broken' = failing
            /\ UNCHANGED <<input, repo, worldVars>>
  BY RegularReports
<1> DEFINE to(s) == Bump(tree.manifest[s], Eligible(s[3], blind))
           man == [s \in Slots |-> IF s \in moving /\ s[1] \notin failing THEN to(s)
                                                                     ELSE tree.manifest[s]]
           rep(s) == Report(s[2], s[3], s[1], tree.manifest[s], to(s))
<1>2. /\ tree.manifest = repo.manifest /\ \A u \in updates : u.type \notin Types
      /\ repo' = repo /\ broken' = failing
  BY <1>1 DEF UpdateRegularDependencies, Reported, BeforeBumps
<1>3. tree'.manifest = man
  <2> HIDE DEF man
  <2>1. tree' = [tree EXCEPT !.manifest = man]
    BY <1>1 DEF man
  <2> QED BY <2>1 DEF TypeOK, Trees
<1>4. ASSUME NEW s \in Slots PROVE SlotOf(rep(s)) = s /\ rep(s).type = s[2] /\ rep(s).type \in Types
                                   /\ rep(s).from = tree.manifest[s] /\ rep(s).to = to(s)
  <2> HIDE DEF to
  <2> QED BY DEF SlotOf, Report, Slots
<1>5. updates' = updates \cup {rep(s) : s \in moving}
  BY <1>1
<1>6. ASSUME NEW s \in Slots
      PROVE  \/ ReportsOf(s)' = {} /\ tree'.manifest[s] = repo'.manifest[s]
             \/ \E u : ReportsOf(s)' = {u} /\ Bumped(s, u)'
  <2>1. ReportsOf(s)' = {u \in updates' : u.type \in Types /\ SlotOf(u) = s}
    BY DEF ReportsOf, SlotOf
  <2>2. \A u \in updates' : u \notin updates => \E q \in moving : u = rep(q)
    <3> HIDE DEF rep
    <3> QED BY <1>5
  <2>3. CASE s \notin moving
    <3>1. ReportsOf(s)' = {}
      <4> HIDE DEF rep
      <4> QED BY <1>2, <1>4, <2>1, <2>2, <2>3
    <3>2. tree'.manifest[s] = repo'.manifest[s]
      BY <1>2, <1>3, <2>3
    <3> QED BY <3>1, <3>2
  <2>4. CASE s \in moving
    <3>1. ReportsOf(s)' = {rep(s)}
      <4> HIDE DEF rep
      <4>1. rep(s) \in updates'
        BY <1>5, <2>4
      <4> QED BY <1>2, <1>4, <2>1, <2>2, <4>1
    <3>2. s[2] \in WritableTypes /\ Parses(tree.manifest[s]) /\ to(s) # tree.manifest[s]
      BY <1>1, <2>4
    <3>3. tree.manifest[s] \in Specs /\ to(s) \in Specs /\ to(s).op = tree.manifest[s].op
      BY <3>2, BumpedSlot
    <3>4. tree.manifest[s].op \notin {"<", "<="} => ~Older(to(s).at, tree.manifest[s].at)
      <4>1. Eligible(s[3], blind) \in SUBSET Versions
        BY TypeRegistry, InstallableIs, DepsAreNames DEF Slots
      <4> QED BY <3>3, <4>1, BumpsGoUp
    <3>5. man[s] = IF s[1] \notin failing THEN to(s) ELSE tree.manifest[s]
      BY <2>4
    <3>6. rep(s).from = tree.manifest[s] /\ rep(s).to = to(s)
      BY <1>4
    <3>7. Parses(to(s))
      BY <3>3, SpecsAssumption DEF Parses, Specs
    <3>8. ASSUME NEW u, u = rep(s) PROVE Bumped(s, u)'
      <4> HIDE DEF rep, man, to
      <4> QED BY <1>2, <1>3, <3>2, <3>3, <3>4, <3>5, <3>6, <3>7, <3>8 DEF Bumped
    <3> HIDE DEF rep
    <3> QED BY <3>1, <3>8
  <2> QED BY <2>3, <2>4
<1> QED BY <1>6 DEF SlotBySlot

\* A section without a bump leaves a peer range and its reports alone.
LEMMA IdleSection ==
  ASSUME NEW acc, NEW type \in Types, NEW p, NEW d, NEW outcome,
         ReportsOf(<<p, type, d>>) = {}
  PROVE  SyncSection(acc, type, p, d, outcome) = acc
<1>1. {u \in Synchronised : u.type = type /\ u.dependency = d /\ u.package = p} = {}
  BY DEF ReportsOf, SlotOf, Synchronised
<1> QED BY <1>1 DEF SyncSection

\* One bump whose read and write go through moves a peer range to computePeerRange's.
LEMMA BusySection ==
  ASSUME NEW acc \in Accs, NEW type \in WritableTypes, NEW p, NEW d,
         NEW outcome \in Outcomes, NEW u,
         ReportsOf(<<p, type, d>>) = {u}, ~SyncSection(acc, type, p, d, outcome).failed,
         Parses(acc.peer), input.strategy[d] # "none"
  PROVE  LET new == PeerRange(input.strategy[d], acc.peer, u.from.at, u.to.at)
         IN  SyncSection(acc, type, p, d, outcome).peer = IF new = None THEN acc.peer ELSE new
<1> DEFINE bumps == {w \in Synchronised : w.type = type /\ w.dependency = d /\ w.package = p}
           new   == PeerRange(input.strategy[d], acc.peer, u.from.at, u.to.at)
           next  == SyncSection(acc, type, p, d, outcome)
           lost  == [acc EXCEPT !.failed = TRUE]
           far   == [peer    |-> IF outcome[u] = "done" THEN new ELSE acc.peer,
                     reports |-> acc.reports \cup {Report("peerDependency", d, p, acc.peer, new)},
                     failed  |-> acc.failed \/ outcome[u] = "unwritten"]
<1>1. bumps = {u} /\ u \in Synchronised
  BY DEF ReportsOf, SlotOf, Synchronised, Types
<1>2. (CHOOSE w \in bumps : TRUE) = u
  BY <1>1
<1>3. next = IF outcome[u] = "unread" THEN lost
             ELSE IF new \in {None, acc.peer} THEN acc ELSE far
  BY <1>1, <1>2 DEF SyncSection
<1>4. lost.failed
  BY DEF Accs
<1> HIDE DEF new, next, bumps
<1>5. CASE next = far
  <2>1. ~far.failed
    BY <1>5 DEF next
  <2>2. CASE new \in {None, acc.peer}
    BY <1>3, <1>4, <1>5, <2>2, <2>1 DEF next, new
  <2>3. CASE new \notin {None, acc.peer}
    <3>1. outcome[u] = "done"
      BY <1>1, <1>3, <1>4, <1>5, <2>1 DEF Outcomes
    <3>2. next.peer = new
      BY <1>5, <3>1
    <3> QED BY <2>3, <3>2 DEF next, new
  <2> QED BY <2>2, <2>3
<1>6. CASE next # far
  <2>1. next = acc /\ new \in {None, acc.peer}
    BY <1>3, <1>4, <1>6 DEF next
  <2> QED BY <2>1 DEF next, new
<1> QED BY <1>5, <1>6

\* Of a dependency one section alone bumped, the others leave the peer range alone.
LEMMA OneSectionSyncs ==
  ASSUME TypeOK, NEW p \in Packages, NEW d \in Deps, NEW outcome \in Outcomes,
         NEW type \in WritableTypes, NEW u,
         ~Synced(p, d, outcome).failed, input.strategy[d] # "none",
         Parses(tree.manifest[<<p, "peerDependency", d>>]),
         ReportsOf(<<p, type, d>>) = {u},
         \A other \in WritableTypes \ {type} : ReportsOf(<<p, other, d>>) = {}
  PROVE  LET peer == tree.manifest[<<p, "peerDependency", d>>]
             new  == PeerRange(input.strategy[d], peer, u.from.at, u.to.at)
         IN  Synced(p, d, outcome).peer = IF new = None THEN peer ELSE new
<1> DEFINE peer == tree.manifest[<<p, "peerDependency", d>>]
           new == PeerRange(input.strategy[d], peer, u.from.at, u.to.at)
           kept == IF new = None THEN peer ELSE new
           a0 == [peer |-> peer, reports |-> {}, failed |-> FALSE]
           a1 == SyncSection(a0, "dependency", p, d, outcome)
           a2 == SyncSection(a1, "devDependency", p, d, outcome)
           a3 == SyncSection(a2, "optionalDependency", p, d, outcome)
<1>1. /\ Synced(p, d, outcome) = a3 /\ ~a3.failed /\ ~a2.failed /\ ~a1.failed
      /\ a0 \in Accs /\ a1 \in Accs /\ a2 \in Accs
  BY SyncedBy
<1>2. a0.peer = peer
  OBVIOUS
<1> HIDE DEF peer, a0, a1, a2, a3, new, kept
<1>3. ASSUME NEW acc \in Accs, acc.peer = peer, ~SyncSection(acc, type, p, d, outcome).failed
      PROVE  SyncSection(acc, type, p, d, outcome).peer = kept
  BY <1>3, BusySection DEF peer, new, kept
<1>4. ASSUME NEW acc, NEW other \in WritableTypes, other # type
      PROVE  SyncSection(acc, other, p, d, outcome) = acc
  <2>1. other \in Types /\ ReportsOf(<<p, other, d>>) = {}
    BY <1>4 DEF Types
  <2> QED BY <2>1, IdleSection
<1>5. "dependency" \in WritableTypes /\ "devDependency" \in WritableTypes
      /\ "optionalDependency" \in WritableTypes
  BY DEF WritableTypes
<1>6. ASSUME type = "dependency" PROVE a3.peer = kept
  <2>1. a1.peer = kept
    BY <1>1, <1>2, <1>3, <1>6 DEF a1
  <2>2. a2 = a1
    BY <1>4, <1>5, <1>6 DEF a2
  <2>3. a3 = a2
    BY <1>4, <1>5, <1>6 DEF a3
  <2> QED BY <2>1, <2>2, <2>3
<1>7. ASSUME type = "devDependency" PROVE a3.peer = kept
  <2>1. a1 = a0
    BY <1>4, <1>5, <1>7 DEF a1
  <2>2. a2.peer = kept
    BY <1>1, <1>2, <1>3, <1>7, <2>1 DEF a2
  <2>3. a3 = a2
    BY <1>4, <1>5, <1>7 DEF a3
  <2> QED BY <2>2, <2>3
<1>8. ASSUME type = "optionalDependency" PROVE a3.peer = kept
  <2>1. a1 = a0
    BY <1>4, <1>5, <1>8 DEF a1
  <2>2. a2 = a1
    BY <1>4, <1>5, <1>8 DEF a2
  <2>3. a3.peer = kept
    BY <1>1, <1>2, <1>3, <1>8, <2>1, <2>2 DEF a3
  <2> QED BY <2>3
<1>9. a3.peer = kept
  BY <1>6, <1>7, <1>8 DEF WritableTypes
<1> QED BY <1>1, <1>9 DEF kept, peer, new

\* Without a bump in any section the peer range stays.
LEMMA NoSectionSyncs ==
  ASSUME NEW p, NEW d, NEW outcome,
         \A type \in WritableTypes : ReportsOf(<<p, type, d>>) = {}
  PROVE  Synced(p, d, outcome).peer = tree.manifest[<<p, "peerDependency", d>>]
<1>1. ASSUME NEW acc, NEW type \in WritableTypes PROVE SyncSection(acc, type, p, d, outcome) = acc
  <2>1. type \in Types /\ ReportsOf(<<p, type, d>>) = {}
    BY DEF Types
  <2> QED BY <2>1, IdleSection
<1>2. "dependency" \in WritableTypes /\ "devDependency" \in WritableTypes
      /\ "optionalDependency" \in WritableTypes
  BY DEF WritableTypes
<1> QED BY <1>1, <1>2 DEF Synced

\* computePeerRange keeps a peer range on the dependency that moved.
LEMMA PeerRangeFollows ==
  ASSUME NEW strategy \in {"lock", "minor"}, NEW peer \in Specs,
         NEW from \in Specs, NEW to \in Specs,
         strategy = "minor" => ~Older(to.at, from.at) /\ peer.at = <<from.at[1], from.at[2], 0>>
  PROVE  LET new  == PeerRange(strategy, peer, from.at, to.at)
             kept == IF new = None THEN peer ELSE new
         IN  /\ kept \in Specs
             /\ strategy = "lock" => kept.at = to.at
             /\ strategy = "minor" => kept.at = <<to.at[1], to.at[2], 0>>
<1> DEFINE new  == PeerRange(strategy, peer, from.at, to.at)
           kept == IF new = None THEN peer ELSE new
<1>1. from.at \in Numbers /\ to.at \in Numbers
  BY DEF Specs
<1>2. new \in Specs \cup {None}
  BY <1>1, PeerRangeIs
<1>3. CASE strategy = "lock"
  <2>1. new = [peer EXCEPT !.at = to.at]
    BY <1>3 DEF PeerRange
  <2>2. new \in Specs /\ new.at = to.at
    BY <1>1, <2>1 DEF Specs
  <2> HIDE DEF new
  <2> QED BY <1>3, <2>2, SpecsAssumption DEF new
<1>4. CASE strategy = "minor" /\ MinorOrMajor(from.at, to.at)
  <2>1. new = [peer EXCEPT !.at = <<to.at[1], to.at[2], 0>>]
    BY <1>4 DEF PeerRange
  <2>2. new.at = <<to.at[1], to.at[2], 0>> /\ new \in Specs
    <3>1. <<to.at[1], to.at[2], 0>> \in Numbers
      BY <1>1 DEF Numbers
    <3> QED BY <2>1, <3>1 DEF Specs
  <2> HIDE DEF new
  <2> QED BY <1>4, <2>2, SpecsAssumption DEF new
<1>5. CASE strategy = "minor" /\ ~MinorOrMajor(from.at, to.at)
  <2>1. new = None
    BY <1>5 DEF PeerRange
  <2>2. to.at[1] = from.at[1] /\ to.at[2] = from.at[2]
    BY <1>1, <1>5, SameMinor
  <2> HIDE DEF new
  <2> QED BY <1>5, <2>1, <2>2 DEF new
<1> QED BY <1>3, <1>4, <1>5

OwnSlots(t, p, d) ==
  {s \in Slots : s[1] = p /\ s[3] = d /\ s[2] \in WritableTypes /\ Parses(t.manifest[s])}

\* Follows, of what a range and the specifier it follows say.
InLine(strategy, peer, spec) ==
  \/ strategy = "lock" /\ peer.at = spec.at
  \/ /\ strategy = "minor" /\ spec.op \notin {"<", "<="}
     /\ peer.at = <<spec.at[1], spec.at[2], 0>>

LEMMA FollowsIs ==
  ASSUME NEW t, NEW p, NEW d
  PROVE  Follows(t, p, d) <=>
           /\ Parses(t.manifest[<<p, "peerDependency", d>>])
           /\ \E s \in Slots :
                /\ OwnSlots(t, p, d) = {s}
                /\ InLine(input.strategy[d], t.manifest[<<p, "peerDependency", d>>], t.manifest[s])
BY DEF Follows, OwnSlots, InLine

LEMMA PeersStillFollow ==
  ASSUME TypeOK, TypeOK', Reported, SlotBySlot, SyncPeers PROVE StillFollow'
<1>1. PICK outcome \in Outcomes :
        /\ tree' = [tree EXCEPT !.manifest =
                      [s \in Slots |-> IF s[2] = "peerDependency"
                                       THEN Synced(s[1], s[3], outcome).peer
                                       ELSE tree.manifest[s]]]
        /\ updates' = updates \cup UNION {Synced(s[1], s[3], outcome).reports : s \in Slots}
        /\ broken' = broken \cup {p \in Packages : \E d \in Deps : Synced(p, d, outcome).failed}
        /\ UNCHANGED <<input, repo, worldVars>>
  <2> HIDE DEF Synced, Synchronised
  <2> QED BY PeerReported DEF Outcomes
<1> DEFINE man == [s \in Slots |-> IF s[2] = "peerDependency" THEN Synced(s[1], s[3], outcome).peer
                                                              ELSE tree.manifest[s]]
<1>2. /\ repo' = repo /\ input' = input
      /\ \A s \in Slots : s[2] = "peerDependency" => tree.manifest[s] = repo.manifest[s]
      /\ \A s \in Slots : \/ ReportsOf(s) = {} /\ tree.manifest[s] = repo.manifest[s]
                         \/ \E u : ReportsOf(s) = {u} /\ Bumped(s, u)
  BY <1>1 DEF SyncPeers, Reported, SlotBySlot
<1>3. tree'.manifest = man
  <2> HIDE DEF man
  <2>1. tree' = [tree EXCEPT !.manifest = man]
    BY <1>1 DEF man
  <2> QED BY <2>1 DEF TypeOK, Trees
<1>4. ASSUME NEW p \in Packages, p \notin broken, p \notin broken', NEW d \in Deps,
             Follows(repo, p, d)
      PROVE  Follows(tree', p, d)
  <2> DEFINE q    == <<p, "peerDependency", d>>
             peer == tree.manifest[q]
             strategy == input.strategy[d]
  <2>1. q \in Slots /\ q[1] = p /\ q[2] = "peerDependency" /\ q[3] = d
    BY DEF Slots, Types
  <2>2. peer = repo.manifest[q] /\ man[q] = Synced(p, d, outcome).peer
    BY <1>2, <2>1
  <2>3. PICK s \in Slots : /\ OwnSlots(repo, p, d) = {s}
                           /\ InLine(strategy, peer, repo.manifest[s])
    BY <1>4, <2>2, FollowsIs
  <2>4. Parses(peer) /\ peer \in Specs
    BY <1>4, <2>1, <2>2, FollowsIs, ParsedIsSpec, TreeParts DEF TypeOK
  <2>5. /\ s = <<p, s[2], d>> /\ s[2] \in WritableTypes /\ s[1] = p
        /\ Parses(repo.manifest[s]) /\ strategy \in {"lock", "minor"}
    <3>1. s \in OwnSlots(repo, p, d)
      BY <2>3
    <3> QED BY <2>3, <3>1 DEF OwnSlots, InLine, Slots
  <2>6. ASSUME NEW r \in Slots, r[1] = p
        PROVE  /\ Parses(tree.manifest[r]) <=> Parses(repo.manifest[r])
               /\ ReportsOf(r) # {} => Parses(repo.manifest[r])
    BY <1>2, <1>4, <2>6 DEF Bumped
  <2>7. ASSUME NEW r \in Slots, r[2] \in WritableTypes PROVE man[r] = tree.manifest[r]
    BY <2>7 DEF WritableTypes
  <2> HIDE DEF man, q, peer, strategy
  <2>8. OwnSlots(tree', p, d) = {s}
    <3>1. OwnSlots(tree', p, d) = OwnSlots(repo, p, d)
      BY <1>3, <2>6, <2>7 DEF OwnSlots
    <3> QED BY <2>3, <3>1
  <2>9. ASSUME NEW type \in WritableTypes, type # s[2] PROVE ReportsOf(<<p, type, d>>) = {}
    <3> DEFINE r == <<p, type, d>>
    <3>1. r \in Slots /\ r[1] = p /\ r[2] = type /\ r[3] = d
      BY DEF Slots, Types
    <3> HIDE DEF r
    <3>2. r \notin OwnSlots(repo, p, d)
      BY <2>3, <2>9, <3>1
    <3>3. ~Parses(repo.manifest[r])
      BY <3>1, <3>2 DEF OwnSlots
    <3>4. ReportsOf(r) = {}
      BY <2>6, <3>1, <3>3
    <3> QED BY <3>4 DEF r
  <2>10. Parses(man[q]) /\ InLine(strategy, man[q], man[s])
    <3>1. man[s] = tree.manifest[s]
      BY <2>5, <2>7
    <3>2. CASE ReportsOf(s) = {} /\ tree.manifest[s] = repo.manifest[s]
      <4>1. ASSUME NEW type \in WritableTypes PROVE ReportsOf(<<p, type, d>>) = {}
        BY <2>5, <2>9, <3>2
      <4>2. Synced(p, d, outcome).peer = peer
        BY <4>1, NoSectionSyncs DEF peer, q
      <4> QED BY <2>2, <2>3, <2>4, <3>1, <3>2, <4>2
    <3>3. CASE \E u : ReportsOf(s) = {u} /\ Bumped(s, u)
      <4>1. PICK u : ReportsOf(s) = {u} /\ Bumped(s, u)
        BY <3>3
      <4>2. /\ u.from = repo.manifest[s] /\ tree.manifest[s] = u.to
            /\ u.from \in Specs /\ u.to \in Specs /\ u.to.op = u.from.op
            /\ u.from.op \notin {"<", "<="} => ~Older(u.to.at, u.from.at)
        BY <1>4, <2>5, <4>1 DEF Bumped
      <4> DEFINE new  == PeerRange(strategy, peer, u.from.at, u.to.at)
                 kept == IF new = None THEN peer ELSE new
      <4>3. Synced(p, d, outcome).peer = kept
        <5>1. ReportsOf(<<p, s[2], d>>) = {u}
          BY <2>5, <4>1
        <5>2. ~Synced(p, d, outcome).failed
          BY <1>1, <1>4
        <5> QED BY <1>4, <2>4, <2>5, <2>9, <5>1, <5>2, OneSectionSyncs DEF peer, q, strategy
      <4>4. strategy = "minor" => /\ ~Older(u.to.at, u.from.at)
                                  /\ peer.at = <<u.from.at[1], u.from.at[2], 0>>
        BY <2>3, <4>2 DEF InLine
      <4>5. /\ kept \in Specs
            /\ strategy = "lock" => kept.at = u.to.at
            /\ strategy = "minor" => kept.at = <<u.to.at[1], u.to.at[2], 0>>
        BY <2>4, <2>5, <4>2, <4>4, PeerRangeFollows
      <4> HIDE DEF new, kept
      <4>6. Parses(kept)
        BY <4>5, SpecsAssumption DEF Parses, Specs
      <4>7. strategy = "minor" => u.to.op \notin {"<", "<="}
        BY <2>3, <4>2 DEF InLine
      <4> QED BY <2>2, <2>5, <3>1, <4>2, <4>3, <4>5, <4>6, <4>7 DEF InLine
    <3> QED BY <1>2, <3>2, <3>3
  <2> QED BY <1>3, <2>8, <2>10, FollowsIs DEF q, strategy
<1>5. ASSUME NEW p \in Packages \ broken', NEW d \in Deps, Follows(repo, p, d)'
      PROVE  Follows(tree, p, d)'
  <2>1. p \notin broken /\ p \notin broken'
    BY <1>1, <1>5
  <2>2. Follows(repo, p, d)
    BY <1>2, <1>5 DEF Follows
  <2>3. Follows(tree', p, d)
    BY <1>4, <2>1, <2>2
  <2> QED BY <1>2, <2>3 DEF Follows
<1> QED BY <1>5 DEF StillFollow

LEMMA SlotBySlotStep == ASSUME TypeOK, TypeOK', Reported, SlotBySlot, [Next]_vars PROVE SlotBySlot'
<1>1. CASE UpdateRegularDependencies
  BY <1>1, RegularSlotBySlot
<1>2. CASE StartRun \/ UpgradeManager \/ UpgradeRuntimes \/ UpdateConfigDependency
  BY <1>2 DEF StartRun, UpgradeManager, UpgradeRuntimes, UpdateConfigDependency, SlotBySlot
<1>3. CASE SkipConfigDependency \/ SyncPeers \/ Install \/ SkipInstall
  BY <1>3 DEF SkipConfigDependency, SyncPeers, Install, SkipInstall, SlotBySlot
<1>4. CASE Compare \/ Land \/ Discard
  BY <1>4 DEF Compare, Land, Discard, SlotBySlot
<1>5. CASE (\E n \in Names : Publish(n)) \/ Mature \/ UNCHANGED vars
  BY <1>5 DEF Publish, Mature, vars, runVars, SlotBySlot, ReportsOf, Bumped
<1>6. CASE \/ \E s \in Hand.slots, declared \in Hand.specs : EditSlot(s, declared)
           \/ \E e \in Hand.entries, spec \in Hand.ranges : EditEntry(e, spec)
           \/ Relock
  BY <1>6 DEF EditSlot, EditEntry, Edit, Relock, SlotBySlot
<1> QED BY <1>1, <1>2, <1>3, <1>4, <1>5, <1>6 DEF Next, RunStep, WorldStep

LEMMA StillFollowStep ==
  ASSUME TypeOK, TypeOK', Reported, SlotBySlot, StillFollow, [Next]_vars PROVE StillFollow'
<1>1. CASE SyncPeers
  BY <1>1, PeersStillFollow
<1>2. CASE StartRun \/ UpgradeManager \/ UpgradeRuntimes \/ UpdateConfigDependency
  BY <1>2 DEF StartRun, UpgradeManager, UpgradeRuntimes, UpdateConfigDependency, StillFollow, AfterPeers
<1>3. CASE SkipConfigDependency \/ UpdateRegularDependencies \/ Land \/ Discard
  BY <1>3 DEF SkipConfigDependency, UpdateRegularDependencies, Land, Discard, StillFollow, AfterPeers
<1>4. ASSUME tree'.manifest = tree.manifest, UNCHANGED <<input, repo, broken>>, pc \in AfterPeers
      PROVE  StillFollow'
  <2>1. \A p, d : (Follows(repo, p, d)' <=> Follows(repo, p, d)) /\ (Follows(tree, p, d)' <=> Follows(tree, p, d))
    BY <1>4 DEF Follows
  <2> QED BY <1>4, <2>1 DEF StillFollow
<1>5. CASE Install
  <2>1. /\ tree' = [tree EXCEPT !.lock = NewLock(tree)] /\ pc = "install"
        /\ UNCHANGED <<input, repo, broken>>
    BY <1>5 DEF Install, runVars
  <2>2. tree'.manifest = tree.manifest
    BY <2>1 DEF TypeOK, Trees
  <2> QED BY <1>4, <2>1, <2>2 DEF AfterPeers
<1>6. CASE SkipInstall \/ Compare
  BY <1>4, <1>6 DEF SkipInstall, Compare, runVars, AfterPeers
<1>7. CASE (\E n \in Names : Publish(n)) \/ Mature \/ UNCHANGED vars
  <2>1. UNCHANGED <<input, repo, tree, broken, pc>>
    BY <1>7 DEF Publish, Mature, vars, runVars
  <2> QED BY <1>4, <2>1 DEF StillFollow
<1>8. CASE \/ \E s \in Hand.slots, declared \in Hand.specs : EditSlot(s, declared)
           \/ \E e \in Hand.entries, spec \in Hand.ranges : EditEntry(e, spec)
           \/ Relock
  BY <1>8 DEF EditSlot, EditEntry, Edit, Relock, StillFollow, AfterPeers
<1> QED BY <1>1, <1>2, <1>3, <1>5, <1>6, <1>7, <1>8 DEF Next, RunStep, WorldStep

(* A peer range that follows its dependency keeps following it, over any number of
   runs, whatever is published and edited in between, except in a package of which
   the run failed to read or to write the manifest: the peer step sees the one bump
   there was, and computePeerRange takes it to the bumped specifier's version, or to
   the .0 of its minor, because only an upper bound is bumped down. *)
THEOREM PeersAlwaysFollow == Spec => PeersFollow
<1>1. Init => TypeOK /\ Reported /\ SlotBySlot /\ StillFollow
  BY InitType, InitTold DEF Init, SlotBySlot, StillFollow, AfterPeers
<1>2. TypeOK /\ Reported /\ SlotBySlot /\ StillFollow /\ [Next]_vars
        => (TypeOK /\ Reported /\ SlotBySlot /\ StillFollow)'
  BY NextType, ReportedStep, SlotBySlotStep, StillFollowStep
<1>3. TypeOK /\ Reported /\ SlotBySlot /\ StillFollow /\ [Next]_vars
        => [Land => \A p \in Packages \ broken, d \in Deps :
                      Follows(repo, p, d) => Follows(repo', p, d)]_vars
  BY DEF StillFollow, AfterPeers, Land
<1> QED BY <1>1, <1>2, <1>3, PTL DEF Spec, PeersFollow

=============================================================================
