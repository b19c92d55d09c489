----------------------- MODULE WorkspaceSettlesProofs -----------------------
(***************************************************************************)
(* Proofs that the runs of WorkspaceRuns converge: a step of a run over    *)
(* what that step made, under the same registry, changes nothing, and a    *)
(* run over what a faultless run landed is such a step after another.      *)
(***************************************************************************)
EXTENDS WorkspaceReportsProofs

-----------------------------------------------------------------------------
(* Versions in order *)

LEMMA OlderTransitive ==
  ASSUME NEW u \in Numbers, NEW v \in Numbers, NEW w \in Numbers, ~Older(v, u), ~Older(w, v)
  PROVE  ~Older(w, u)
<1>1. PICK a, b, c \in Nat : u = <<a, b, c>>
  BY DEF Numbers
<1>2. PICK i, j, k \in Nat : v = <<i, j, k>>
  BY DEF Numbers
<1>3. PICK x, y, z \in Nat : w = <<x, y, z>>
  BY DEF Numbers
<1> QED BY <1>1, <1>2, <1>3 DEF Older

LEMMA HighestAbove ==
  ASSUME NEW S \in SUBSET Versions, S # {} PROVE \A w \in S : ~Older(Highest(S), w)
<1>1. \E v \in S : \A w \in S : ~Older(v, w)
  BY VersionsAssumption
<1> QED BY <1>1 DEF Highest

LEMMA LatestAbove ==
  ASSUME NEW S \in SUBSET Versions, ResolveLatest(S) # None
  PROVE  /\ ResolveLatest(S) \in S /\ ResolveLatest(S) \in Numbers
         /\ \A w \in S : ~Older(ResolveLatest(S), w)
<1>1. S # {} /\ ResolveLatest(S) = Highest(S)
  BY DEF ResolveLatest
<1> QED BY <1>1, ResolvesInside, HighestAbove

\* The latest of fewer versions, none older than the latest of all, is that one.
LEMMA LatestOfFewer ==
  ASSUME NEW S \in SUBSET Versions, NEW T \in SUBSET S, ResolveLatest(S) # None,
         \A v \in T : ~Older(v, ResolveLatest(S))
  PROVE  ResolveLatest(T) \in {None, ResolveLatest(S)}
<1> DEFINE best == ResolveLatest(S)
           next == ResolveLatest(T)
<1>1. best \in Numbers /\ \A w \in S : ~Older(best, w)
  BY LatestAbove
<1>2. ASSUME next # None PROVE next = best
  <2>1. next \in T /\ next \in Numbers
    BY <1>2, LatestAbove
  <2> HIDE DEF best, next
  <2>2. ~Older(next, best) /\ ~Older(best, next)
    BY <1>1, <2>1 DEF best
  <2> QED BY <1>1, <2>1, <2>2, Trichotomy
<1> QED BY <1>2

-----------------------------------------------------------------------------
(* Each step over what it made *)

\* A caret on a version a caret admits admits nothing the first does not.
LEMMA CaretNarrows ==
  ASSUME NEW at \in Numbers, NEW b \in Numbers, NEW v \in Numbers,
         Admits([op |-> "^", at |-> at], b), Admits([op |-> "^", at |-> b], v)
  PROVE  Admits([op |-> "^", at |-> at], v)
<1>1. /\ ~Older(b, at) /\ b[1] = at[1]
      /\ at[1] = 0 => b[2] = at[2] /\ (at[2] = 0 => b[3] = at[3])
  BY DEF Admits
<1>2. /\ ~Older(v, b) /\ v[1] = b[1]
      /\ b[1] = 0 => v[2] = b[2] /\ (b[2] = 0 => v[3] = b[3])
  BY DEF Admits
<1>3. ~Older(v, at)
  BY <1>1, <1>2, OlderTransitive
<1> HIDE DEF Older
<1> QED BY <1>1, <1>2, <1>3 DEF Admits

LEMMA CaretAdmitsItself ==
  ASSUME NEW at \in Numbers PROVE Admits([op |-> "^", at |-> at], at)
<1>1. [op |-> "^", at |-> at] \in Specs
  BY DEF Specs, Operators
<1> QED BY <1>1, AdmitsItsVersion

\* The range a plugin upgrades in, from what it was upgraded to, is no wider.
LEMMA UpgradeRangeNarrows ==
  ASSUME NEW at \in Numbers, NEW b \in Numbers, NEW v \in Numbers,
         ConfigDepUpgradeRange(at, b), ConfigDepUpgradeRange(b, v)
  PROVE  ConfigDepUpgradeRange(at, v)
<1>1. ~Older(v, at)
  BY OlderTransitive DEF ConfigDepUpgradeRange
<1>2. /\ at[1] \in Nat /\ b[1] \in Nat /\ v[1] \in Nat
      /\ ~Older(b, at) => b[1] >= at[1]
  <2>1. PICK x, y, z \in Nat : at = <<x, y, z>>
    BY DEF Numbers
  <2>2. PICK i, j, k \in Nat : b = <<i, j, k>>
    BY DEF Numbers
  <2> QED BY <2>1, <2>2 DEF Older, Numbers
<1> HIDE DEF Older
<1> QED BY <1>1, <1>2 DEF ConfigDepUpgradeRange

LEMMA BareIsBare ==
  ASSUME NEW ops \in SUBSET {"", "^", "~"}, NEW field \in Pinned(ops), NEW v \in Numbers
  PROVE  Bare(Bare(field)) = Bare(field) /\ Bare(At(field, v)) = At(field, v)
BY DEF Bare, At, Pinned

LEMMA NewPinIsBare == ASSUME NEW v \in Numbers PROVE Bare(NewPin(v)) = NewPin(v)
<1>1. NewPin(v) \in Pinned({""}) /\ NewPin(v).integrity = FALSE
  BY DEF NewPin, Pinned
<1> QED BY <1>1 DEF Bare, Pinned

\* The fields a step leaves: nothing to move, and no suffix to drop.
LEMMA UpgradedRests ==
  ASSUME NEW pins \in Pins, NEW v \in Numbers
  PROVE  LET up == Upgraded(pins, v)
         IN  Reference(up) = v /\ Upgraded(up, v) = up
<1> DEFINE p == pins.packageManager
           d == pins.devEngines
           up == Upgraded(pins, v)
<1>1. /\ p \in Pinned({""}) \cup {None} /\ d \in Pinned({"", "^", "~"}) \cup {None}
      /\ v # None
  BY VersionsAssumption DEF Pins
<1>2. PICK A, B : /\ up = [packageManager |-> A, devEngines |-> B]
                  /\ A # None => Bare(A) = A
                  /\ B # None => Bare(B) = B
                  /\ Reference([packageManager |-> A, devEngines |-> B]) = v
  <2>1. d # None => /\ Bare(d) # None /\ At(d, v) # None /\ Bare(d).at = d.at /\ At(d, v).at = v
                    /\ Bare(Bare(d)) = Bare(d) /\ Bare(At(d, v)) = At(d, v)
    <3>1. CASE d # None
      <4>1. d \in Pinned({"", "^", "~"})
        BY <1>1, <3>1
      <4> HIDE DEF d
      <4> QED BY <4>1, FieldMoves, BareIsBare
    <3> QED BY <3>1
  <2>2. p # None => Bare(p) # None /\ Bare(p).at = p.at /\ Bare(Bare(p)) = Bare(p)
    <3>1. CASE p # None
      <4>1. p \in Pinned({""}) /\ {""} \in SUBSET {"", "^", "~"}
        BY <1>1, <3>1
      <4> HIDE DEF p
      <4> QED BY <4>1, FieldMoves, BareIsBare
    <3> QED BY <3>1
  <2>3. NewPin(v) # None /\ NewPin(v).at = v /\ Bare(NewPin(v)) = NewPin(v)
    BY NewPinIs, NewPinIsBare
  <2>4. CASE v = Reference(pins)
    <3> DEFINE A == IF p = None THEN None ELSE Bare(p)
               B == IF d = None THEN None ELSE Bare(d)
    <3>1. up = [packageManager |-> A, devEngines |-> B]
      BY <1>1, <2>4 DEF Upgraded, Normalized
    <3>2. Reference([packageManager |-> A, devEngines |-> B]) = v
      BY <1>1, <2>1, <2>2, <2>4 DEF Reference
    <3> HIDE DEF up
    <3> QED BY <2>1, <2>2, <3>1, <3>2
  <2>5. CASE v # Reference(pins)
    <3> DEFINE A == IF p = None /\ d # None THEN None ELSE NewPin(v)
               B == IF d = None THEN None ELSE At(d, v)
    <3>1. up = [packageManager |-> A, devEngines |-> B]
      BY <1>1, <2>5 DEF Upgraded, Repinned
    <3>2. Reference([packageManager |-> A, devEngines |-> B]) = v
      BY <1>1, <2>1, <2>3, <2>5 DEF Reference
    <3> HIDE DEF up
    <3> QED BY <2>1, <2>3, <3>1, <3>2
  <2> QED BY <2>4, <2>5
<1>3. Normalized(up) = up
  BY <1>2 DEF Normalized
<1>4. Reference(up) = v
  BY <1>2
<1> HIDE DEF up
<1>5. Upgraded(up, v) = up
  BY <1>1, <1>3, <1>4 DEF Upgraded
<1> QED BY <1>4, <1>5 DEF up

(* upgradePackageManagerImpl, over what it made *)
LEMMA ManagerRests ==
  ASSUME NEW pins \in Pins, NEW mode \in Modes, NEW available \in SUBSET Versions,
         NEW v, v = Wanted(pins, mode, available),
         NEW up, up = Upgraded(pins, v),
         NEW again, again = Wanted(up, mode, available)
  PROVE  Upgraded(up, again) = up /\ (again # None => again = Reference(up))
<1> DEFINE S == {w \in available : Admits(Target(pins, mode), w)}
           T == {w \in available : Admits(Target(up, mode), w)}
<1>1. v \in Numbers \cup {None}
  BY WantedIs
<1>2. CASE v = None
  <2>1. up = pins
    BY <1>2 DEF Upgraded
  <2>2. again = None
    BY <1>2, <2>1
  <2> QED BY <2>1, <2>2 DEF Upgraded
<1>3. CASE v # None
  <2>1. v \in Numbers /\ mode # Off /\ v = ResolveLatest(S)
        /\ ~(mode = Automatic /\ Reference(pins) = None)
    BY <1>1, <1>3 DEF Wanted
  <2>2. Reference(up) = v /\ Upgraded(up, v) = up
    BY <2>1, UpgradedRests
  <2>3. again = ResolveLatest(T)
    BY <1>3, <2>1, <2>2 DEF Wanted
  <2>4. CASE mode # Automatic
    <3>1. Target(up, mode) = Target(pins, mode)
      BY <2>4 DEF Target
    <3>2. again = v
      BY <2>1, <2>3, <3>1
    <3> QED BY <2>2, <3>2
  <2>5. CASE mode = Automatic
    <3>1. /\ Target(pins, mode) = [op |-> "^", at |-> Reference(pins)]
          /\ Target(up, mode) = [op |-> "^", at |-> v]
      BY <2>2, <2>5 DEF Target
    <3>2. Reference(pins) \in Numbers
      BY <2>1, <2>5, ReferenceIs
    <3>3. v \in S /\ v \in available
      BY <1>3, <2>1, LatestAbove
    <3>4. ASSUME NEW w \in T PROVE w \in S /\ ~Older(w, v)
      <4>1. w \in available /\ w \in Numbers /\ Admits([op |-> "^", at |-> v], w)
        BY <3>1, VersionsAssumption
      <4>2. Admits([op |-> "^", at |-> Reference(pins)], v)
        BY <3>1, <3>3
      <4>3. Admits([op |-> "^", at |-> Reference(pins)], w)
        BY <2>1, <3>2, <4>1, <4>2, CaretNarrows
      <4>4. ~Older(w, v)
        BY <4>1 DEF Admits
      <4> QED BY <3>1, <4>1, <4>3, <4>4
    <3>5. v \in T
      BY <2>1, <3>1, <3>3, CaretAdmitsItself
    <3>6. S \in SUBSET Versions /\ T \in SUBSET S
      BY <3>4
    <3> HIDE DEF S, T
    <3>7. ResolveLatest(T) \in {None, v}
      BY <1>3, <2>1, <3>4, <3>6, LatestOfFewer
    <3>8. ResolveLatest(T) # None
      BY <3>5, <3>6, ResolvesInside
    <3> QED BY <2>2, <2>3, <3>7, <3>8
  <2> QED BY <2>4, <2>5
<1> QED BY <1>2, <1>3

(* upgradeOne, over what it made *)
LEMMA RuntimeRests ==
  ASSUME NEW entry \in Specs \cup {None}, NEW mode \in Modes, NEW available \in SUBSET Versions,
         NEW to, to = RuntimeTo(entry, mode, available)
  PROVE  RuntimeTo(to, mode, available) = to
<1> DEFINE Best(range) == ResolveLatest({v \in available : Admits(range, v)})
           best == Best(IF mode = Automatic THEN entry ELSE mode)
<1>1. to = IF entry = None \/ mode = Off \/ (mode = Automatic /\ entry.op = "") THEN entry
           ELSE IF best = None THEN entry ELSE Exact(best)
  BY DEF RuntimeTo
<1>2. CASE to = entry
  BY <1>2
<1>3. CASE to # entry
  <2>1. mode # Off /\ best # None /\ to = Exact(best)
    BY <1>1, <1>3
  <2>2. Exact(best).op = ""
    BY DEF Exact
  <2> HIDE DEF best
  <2>3. CASE mode = Automatic
    BY <2>1, <2>2, <2>3 DEF RuntimeTo
  <2>4. CASE mode # Automatic
    <3>1. best = Best(mode)
      BY <2>4 DEF best
    <3>2. RuntimeTo(to, mode, available) = IF to = None THEN to
                                           ELSE IF Best(mode) = None THEN to ELSE Exact(Best(mode))
      BY <2>1, <2>4 DEF RuntimeTo
    <3> HIDE DEF Best
    <3> QED BY <2>1, <3>1, <3>2
  <2> QED BY <2>3, <2>4
<1> QED BY <1>2, <1>3

(* updateConfigDepsImpl, over what it made *)
LEMMA PluginRests ==
  ASSUME NEW at \in Numbers, NEW available \in SUBSET Versions
  PROVE  LET Best(from) == ResolveLatest({v \in available : ConfigDepUpgradeRange(from, v)})
         IN  Best(at) # None => Best(Best(at)) \in {None, Best(at)}
<1> DEFINE Range(from) == {v \in available : ConfigDepUpgradeRange(from, v)}
           b == ResolveLatest(Range(at))
<1> SUFFICES ASSUME b # None PROVE ResolveLatest(Range(b)) \in {None, b}
  OBVIOUS
<1>1. Range(at) \in SUBSET Versions
  OBVIOUS
<1>2. b \in Numbers /\ b \in Range(at)
  BY <1>1, LatestAbove
<1> HIDE DEF b
<1>3. ASSUME NEW v \in Range(b) PROVE v \in Range(at) /\ ~Older(v, b)
  <2>1. v \in Numbers
    BY VersionsAssumption
  <2> QED BY <1>2, <2>1, UpgradeRangeNarrows DEF ConfigDepUpgradeRange
<1>4. Range(b) \in SUBSET Range(at)
  BY <1>3
<1> HIDE DEF Range
<1> QED BY <1>1, <1>3, <1>4, LatestOfFewer DEF b

(* updateRegularDepsImpl, on a specifier it made *)
LEMMA BumpRests ==
  ASSUME NEW spec \in Specs, NEW eligible \in SUBSET Versions, spec.op # "<",
         NEW to, to = Bump(spec, eligible)
  PROVE  Bump(to, eligible) = to
<1> DEFINE S    == {v \in eligible : ResolutionRange(spec, v)}
           T    == {v \in eligible : ResolutionRange(to, v)}
           best == ResolveLatest(S)
           next == ResolveLatest(T)
<1>1. to = IF best = None THEN spec ELSE [spec EXCEPT !.at = best]
  BY DEF Bump
<1>2. Bump(to, eligible) = IF next = None THEN to ELSE [to EXCEPT !.at = next]
  BY DEF Bump
<1>3. S \in SUBSET Versions /\ T \in SUBSET Versions
  OBVIOUS
<1>4. CASE to = spec
  BY <1>4
<1>5. CASE to # spec
  <2>1. best # None /\ to = [spec EXCEPT !.at = best]
    BY <1>1, <1>5
  <2>2. best \in S /\ best \in Numbers
    BY <1>3, <2>1, ResolvesInside
  <2> HIDE DEF best, next
  <2>3. spec = [op |-> spec.op, at |-> spec.at] /\ spec.at \in Numbers /\ spec.op \in Operators
    BY DEF Specs
  <2>4. to = [op |-> spec.op, at |-> best]
    BY <2>1, <2>3
  <2>5. spec.op # ""
    <3> SUFFICES ASSUME spec.op = "" PROVE FALSE
      OBVIOUS
    <3>1. best = spec.at
      BY <2>2 DEF ResolutionRange, Admits
    <3> QED BY <1>5, <2>3, <2>4, <3>1
  <2>6. ResolutionRange(spec, best)
    BY <2>2
  <2>7. next \in {None, best}
    <3>1. CASE spec.op = "<="
      <4>1. best \in T
        <5>1. ~Older(best, best)
          BY <2>2, NotOlderThanItself
        <5> HIDE DEF Older
        <5> QED BY <2>2, <2>4, <3>1, <5>1 DEF ResolutionRange, Admits
      <4>2. next \in T /\ next \in Numbers /\ ~Older(next, best)
        <5> HIDE DEF T
        <5>1. next # None
          BY <1>3, <4>1, ResolvesInside DEF next
        <5> QED BY <1>3, <4>1, <5>1, LatestAbove DEF next
      <4>3. ~Older(best, next)
        <5> HIDE DEF Older
        <5> QED BY <2>4, <3>1, <4>2 DEF ResolutionRange, Admits
      <4> QED BY <2>2, <4>2, <4>3, Trichotomy
    <3>2. CASE spec.op # "<="
      <4>1. ASSUME NEW v \in T PROVE v \in S /\ ~Older(v, best)
        <5>1. v \in Numbers /\ v \in eligible /\ ResolutionRange(to, v)
          BY VersionsAssumption
        <5> DEFINE at == spec.at
        <5>2. spec.op \in {"^", "~", ">=", ">"}
          BY <2>3, <2>5, <3>2 DEF Operators
        <5>3. CASE spec.op = "^"
          <6>1. CASE at[1] = 0
            <7>1. ConfigDepUpgradeRange(at, best)
              BY <2>6, <5>3, <6>1 DEF ResolutionRange
            <7>2. CASE best[1] = 0
              <8>1. ConfigDepUpgradeRange(best, v)
                BY <2>4, <5>1, <5>3, <7>2 DEF ResolutionRange
              <8>2. ConfigDepUpgradeRange(at, v)
                BY <2>2, <2>3, <5>1, <7>1, <8>1, UpgradeRangeNarrows
              <8> QED BY <5>1, <5>3, <6>1, <8>1, <8>2 DEF ResolutionRange, ConfigDepUpgradeRange
            <7>3. CASE best[1] # 0
              <8>1. Admits([op |-> "^", at |-> best], v)
                BY <2>4, <5>1, <5>3, <7>3 DEF ResolutionRange
              <8>2. ~Older(v, best) /\ v[1] = best[1]
                <9> HIDE DEF Older
                <9> QED BY <8>1 DEF Admits
              <8>3. ~Older(best, at) /\ best[1] < 2
                BY <6>1, <7>1 DEF ConfigDepUpgradeRange
              <8>4. ~Older(v, at)
                BY <2>2, <2>3, <5>1, <8>2, <8>3, OlderTransitive
              <8> HIDE DEF Older
              <8> QED BY <5>1, <5>3, <6>1, <8>2, <8>3, <8>4 DEF ResolutionRange, ConfigDepUpgradeRange
            <7> QED BY <7>2, <7>3
          <6>2. CASE at[1] # 0
            <7>1. Admits([op |-> "^", at |-> at], best) /\ spec = [op |-> "^", at |-> at]
              BY <2>3, <2>6, <5>3, <6>2 DEF ResolutionRange
            <7>2. best[1] # 0
              BY <6>2, <7>1 DEF Admits
            <7>3. Admits([op |-> "^", at |-> best], v)
              BY <2>4, <5>1, <5>3, <7>2 DEF ResolutionRange
            <7>4. Admits([op |-> "^", at |-> at], v)
              BY <2>2, <2>3, <5>1, <7>1, <7>3, CaretNarrows
            <7>5. ~Older(v, best)
              BY <7>3 DEF Admits
            <7> QED BY <5>1, <6>2, <7>1, <7>4, <7>5 DEF ResolutionRange
          <6> QED BY <6>1, <6>2
        <5>4. CASE spec.op # "^"
          <6>1. Admits(spec, best) /\ Admits(to, v) /\ spec.op \in {"~", ">=", ">"}
            BY <2>4, <2>6, <5>1, <5>2, <5>4 DEF ResolutionRange
          <6>2. ~Older(best, at) /\ ~Older(v, best)
            <7>1. CASE spec.op = ">"
              <8>1. Older(at, best) /\ Older(best, v)
                BY <2>4, <6>1, <7>1 DEF Admits
              <8> QED BY <2>2, <2>3, <5>1, <8>1, OlderIsNotNewer
            <7>2. CASE spec.op = "~"
              BY <2>4, <6>1, <7>2 DEF Admits
            <7>3. CASE spec.op = ">="
              BY <2>4, <6>1, <7>3 DEF Admits
            <7> QED BY <6>1, <7>1, <7>2, <7>3
          <6>3. ~Older(v, at)
            BY <2>2, <2>3, <5>1, <6>2, OlderTransitive
          <6>4. CASE spec.op = "~" \/ spec.op = ">="
            <7>1. spec.op = "~" => /\ best[1] = at[1] /\ best[2] = at[2]
                                   /\ v[1] = best[1] /\ v[2] = best[2]
              BY <2>4, <6>1 DEF Admits
            <7>2. Admits(spec, v)
              BY <6>3, <6>4, <7>1 DEF Admits
            <7> QED BY <5>1, <5>4, <6>2, <7>2 DEF ResolutionRange
          <6>5. CASE spec.op = ">"
            <7>1. Older(at, best) /\ Older(best, v)
              BY <2>4, <6>1, <6>5 DEF Admits
            <7>2. Older(at, v)
              <8>1. PICK a, b, c \in Nat : at = <<a, b, c>>
                BY <2>3 DEF Numbers
              <8>2. PICK i, j, k \in Nat : best = <<i, j, k>>
                BY <2>2 DEF Numbers
              <8>3. PICK x, y, z \in Nat : v = <<x, y, z>>
                BY <5>1 DEF Numbers
              <8> HIDE DEF at
              <8> QED BY <7>1, <8>1, <8>2, <8>3 DEF Older
            <7> HIDE DEF Older
            <7>3. Admits(spec, v)
              BY <6>5, <7>2 DEF Admits
            <7> QED BY <5>1, <5>4, <6>2, <7>3 DEF ResolutionRange
          <6> QED BY <6>1, <6>4, <6>5
        <5> QED BY <5>3, <5>4
      <4>2. T \in SUBSET S
        BY <4>1
      <4> HIDE DEF S, T
      <4> QED BY <1>3, <2>1, <4>1, <4>2, LatestOfFewer DEF best, next
    <3> QED BY <3>1, <3>2
  <2> QED BY <1>2, <2>4, <2>7
<1> QED BY <1>4, <1>5

-----------------------------------------------------------------------------
(* Files at rest *)

\* What each step, run over the files under this registry, leaves as it is.
PinsRest(t) ==
  LET v == Wanted(t.pins, input.manager, published["manager"])
  IN  Upgraded(t.pins, v) = t.pins /\ (v # None => v = Reference(t.pins))

RuntimeRest(t) == RuntimeTo(t.runtime, input.runtime, published["runtime"]) = t.runtime

PluginBest(at) == ResolveLatest({v \in Eligible("plugin", {}) : ConfigDepUpgradeRange(at, v)})

PluginRest(t) ==
  input.pm = "pnpm" /\ t.plugin # None /\ PluginBest(t.plugin.at) # None =>
    t.plugin = [at |-> PluginBest(t.plugin.at), integrity |-> FALSE]

RegularRest(t) ==
  \A s \in Slots :
    /\ s[2] \in WritableTypes /\ s[3] \in input.matched
    /\ Parses(t.manifest[s]) /\ t.manifest[s].op # "<"
    => Bump(t.manifest[s], Eligible(s[3], {})) = t.manifest[s]

AtRest(t) == PinsRest(t) /\ RuntimeRest(t) /\ PluginRest(t) /\ RegularRest(t)

AfterRegular  == {"peers", "install", "after", "commit"}
AfterConfig   == AfterRegular \cup {"regular"}
AfterRuntimes == AfterConfig \cup {"config"}
AfterManager  == AfterRuntimes \cup {"runtimes"}

\* A step that met no fault has left its files at rest, and they are until the
\* registry moves.
Rested ==
  quiet /\ clean =>
    /\ pc \in AfterManager => PinsRest(tree)
    /\ pc \in AfterRuntimes => RuntimeRest(tree)
    /\ pc \in AfterConfig => PluginRest(tree)
    /\ pc \in AfterRegular /\ broken = {} => RegularRest(tree)

RestsWhenSettled == settled => AtRest(repo)

\* A run over files at rest leaves them alone.
Steady ==
  settled /\ clean /\ pc # "idle" /\ BoundedBelow(repo) =>
    /\ pc \in BeforeBumps => broken = {}
    /\ broken = {} => tree = repo /\ updates = {}

LEMMA RestFrame ==
  ASSUME UNCHANGED <<input, repo, published, young>>
  PROVE  /\ tree'.pins = tree.pins /\ PinsRest(tree) => PinsRest(tree)'
         /\ tree'.runtime = tree.runtime /\ RuntimeRest(tree) => RuntimeRest(tree)'
         /\ tree'.plugin = tree.plugin /\ PluginRest(tree) => PluginRest(tree)'
         /\ (\A s \in Slots : s[2] \in WritableTypes => tree'.manifest[s] = tree.manifest[s])
              /\ RegularRest(tree) => RegularRest(tree)'
<1>1. tree'.pins = tree.pins /\ PinsRest(tree) => PinsRest(tree)'
  BY DEF PinsRest
<1>2. tree'.runtime = tree.runtime /\ RuntimeRest(tree) => RuntimeRest(tree)'
  BY DEF RuntimeRest
<1>3. \A n : Eligible(n, {})' = Eligible(n, {})
  BY DEF Eligible, Installable, Gate
<1>4. \A at : PluginBest(at)' = PluginBest(at)
  BY <1>3 DEF PluginBest
<1>5. tree'.plugin = tree.plugin /\ PluginRest(tree) => PluginRest(tree)'
  BY <1>4 DEF PluginRest
<1>6. (\A s \in Slots : s[2] \in WritableTypes => tree'.manifest[s] = tree.manifest[s])
        /\ RegularRest(tree) => RegularRest(tree)'
  BY <1>3 DEF RegularRest
<1> QED BY <1>1, <1>2, <1>5, <1>6

\* Which steps have run, by the run's next step.
LEMMA StepsOrder ==
  /\ "manager" \notin AfterManager \cup {"idle"} /\ "idle" \notin AfterManager
  /\ "runtimes" \in AfterManager /\ "runtimes" \notin AfterRuntimes
  /\ "config" \in AfterRuntimes /\ "config" \notin AfterConfig
  /\ "regular" \in AfterConfig /\ "regular" \notin AfterRegular
  /\ {"peers", "install", "after", "commit"} = AfterRegular
  /\ AfterRegular \subseteq AfterConfig /\ AfterConfig \subseteq AfterRuntimes
  /\ AfterRuntimes \subseteq AfterManager
BY DEF AfterRegular, AfterConfig, AfterRuntimes, AfterManager

LEMMA ManagerRested == ASSUME TypeOK, Rested, UpgradeManager PROVE Rested'
<1> DEFINE v  == Wanted(tree.pins, input.manager, published["manager"])
           up == Upgraded(tree.pins, v)
<1>1. pc' = "runtimes" /\ UNCHANGED <<input, repo, published, young>>
  BY DEF UpgradeManager, worldVars
<1>2. SUFFICES ASSUME clean' PROVE PinsRest(tree)'
  BY <1>1, StepsOrder DEF Rested
<1>3. tree.pins \in Pins /\ input.manager \in Modes /\ published["manager"] \in SUBSET Versions
  BY TreeParts, DepsAreNames DEF TypeOK, Inputs
<1>4. tree' = [tree EXCEPT !.pins = up]
  BY <1>2 DEF UpgradeManager
<1>5. tree'.pins = up
  <2> HIDE DEF up
  <2> QED BY <1>4 DEF TypeOK, Trees
<1> HIDE DEF v, up
<1>6. LET again == Wanted(up, input.manager, published["manager"])
      IN  Upgraded(up, again) = up /\ (again # None => again = Reference(up))
  BY <1>3, ManagerRests DEF v, up
<1> QED BY <1>1, <1>5, <1>6 DEF PinsRest

LEMMA RuntimesRested == ASSUME TypeOK, Rested, UpgradeRuntimes PROVE Rested'
<1> DEFINE to == RuntimeTo(tree.runtime, input.runtime, published["runtime"])
<1>1. /\ pc = "runtimes" /\ pc' = "config" /\ UNCHANGED <<input, repo, quiet, published, young>>
      /\ clean' => clean /\ tree' = [tree EXCEPT !.runtime = to]
  BY DEF UpgradeRuntimes, worldVars
<1>2. SUFFICES ASSUME clean', quiet' PROVE PinsRest(tree)' /\ RuntimeRest(tree)'
  BY <1>1, StepsOrder DEF Rested
<1>3. tree.runtime \in Specs \cup {None} /\ input.runtime \in Modes
      /\ published["runtime"] \in SUBSET Versions
  BY TreeParts, DepsAreNames DEF TypeOK, Inputs
<1> HIDE DEF to
<1>4. tree'.runtime = to /\ tree'.pins = tree.pins
  BY <1>1, <1>2 DEF TypeOK, Trees
<1>5. RuntimeTo(to, input.runtime, published["runtime"]) = to
  BY <1>3, RuntimeRests DEF to
<1>6. RuntimeRest(tree)'
  BY <1>1, <1>4, <1>5 DEF RuntimeRest
<1>7. PinsRest(tree)
  BY <1>1, <1>2, StepsOrder DEF Rested
<1> QED BY <1>1, <1>4, <1>6, <1>7, RestFrame

LEMMA PluginBestIs == ASSUME input.pm = "pnpm", tree.plugin # None PROVE PluginTo({}) = PluginBest(tree.plugin.at)
BY DEF PluginTo, PluginBest, Eligible

LEMMA ConfigRested ==
  ASSUME TypeOK, Rested, UpdateConfigDependency \/ SkipConfigDependency PROVE Rested'
<1> SUFFICES ASSUME clean', quiet' PROVE Rested'
  BY DEF Rested
<1>1. /\ pc = "config" /\ pc' = "regular" /\ UNCHANGED <<input, repo, quiet, published, young>> /\ clean
      /\ \/ /\ tree' = [tree EXCEPT !.plugin = [at |-> PluginTo({}), integrity |-> FALSE]]
            /\ PluginTo({}) # None
         \/ tree' = tree /\ PluginTo({}) = None
  <2>1. CASE UpdateConfigDependency
    <3>1. PICK blind \in SUBSET {"plugin"}, written \in BOOLEAN :
            /\ PluginTo(blind) # None
            /\ tree' = IF written THEN [tree EXCEPT !.plugin = [at |-> PluginTo(blind), integrity |-> FALSE]]
                                  ELSE tree
            /\ clean' = (clean /\ written /\ blind = {})
      BY <2>1 DEF UpdateConfigDependency
    <3>2. written /\ blind = {} /\ clean
      BY <3>1
    <3> QED BY <2>1, <3>1, <3>2 DEF UpdateConfigDependency, worldVars
  <2>2. CASE SkipConfigDependency
    BY <2>2 DEF SkipConfigDependency, worldVars
  <2> QED BY <2>1, <2>2
<1>2. PinsRest(tree) /\ RuntimeRest(tree)
  BY <1>1, StepsOrder DEF Rested
<1>3. SUFFICES PinsRest(tree)' /\ RuntimeRest(tree)' /\ PluginRest(tree)'
  BY <1>1, StepsOrder DEF Rested
<1>4. CASE tree' = tree /\ PluginTo({}) = None
  <2>1. PluginRest(tree)
    BY <1>4, PluginBestIs DEF PluginRest
  <2> QED BY <1>1, <1>2, <1>4, <2>1, RestFrame
<1>5. CASE /\ tree' = [tree EXCEPT !.plugin = [at |-> PluginTo({}), integrity |-> FALSE]]
           /\ PluginTo({}) # None
  <2> DEFINE b == PluginTo({})
  <2>1. input.pm = "pnpm" /\ tree.plugin # None /\ b = PluginBest(tree.plugin.at)
    BY <1>5, PluginBestIs DEF PluginTo
  <2>2. tree.plugin.at \in Numbers /\ Eligible("plugin", {}) \in SUBSET Versions
    BY <2>1, TreeParts, TypeRegistry, InstallableIs, DepsAreNames DEF TypeOK, Plugins, Plugged
  <2>3. PluginBest(b) \in {None, b}
    <3>1. PluginBest(tree.plugin.at) # None
      BY <1>5, <2>1
    <3>2. PluginBest(PluginBest(tree.plugin.at)) \in {None, PluginBest(tree.plugin.at)}
      BY <2>2, <3>1, PluginRests DEF PluginBest
    <3> QED BY <2>1, <3>2
  <2> HIDE DEF b
  <2>4. /\ tree'.plugin = [at |-> b, integrity |-> FALSE]
        /\ tree'.pins = tree.pins /\ tree'.runtime = tree.runtime
    BY <1>5 DEF TypeOK, Trees, b
  <2>5. PluginBest(tree.plugin.at)' = PluginBest(b)
    BY <1>1, <2>4 DEF PluginBest, Eligible, Installable, Gate
  <2>6. PluginRest(tree)'
    BY <2>3, <2>4, <2>5 DEF PluginRest
  <2> QED BY <1>1, <1>2, <2>4, <2>6, RestFrame
<1> QED BY <1>1, <1>4, <1>5

\* What a regular step that met no fault did: every slot it may bump, bumped.
LEMMA RegularDid ==
  ASSUME TypeOK, UpdateRegularDependencies, clean'
  PROVE  \E failing \in SUBSET Packages, moving \in SUBSET Slots :
           LET to(s) == Bump(tree.manifest[s], Eligible(s[3], {}))
           IN  /\ moving = {s \in Slots : /\ s[2] \in WritableTypes /\ s[3] \in input.matched
                                          /\ Parses(tree.manifest[s]) /\ to(s) # tree.manifest[s]}
               /\ failing \subseteq {s[1] : s \in moving}
               /\ tree' = [tree EXCEPT !.manifest =
                             [s \in Slots |-> IF s \in moving /\ s[1] \notin failing THEN to(s)
                                                                        ELSE tree.manifest[s]]]
               /\ updates' = updates
                             \cup {Report(s[2], s[3], s[1], tree.manifest[s], to(s)) : s \in moving}
               /\ clean /\ broken' = failing
<1>1. PICK silent \in SUBSET input.matched, blind \in SUBSET input.matched,
           failing \in SUBSET Packages :
        LET to(s)  == Bump(tree.manifest[s], Eligible(s[3], blind))
            moving == {s \in Slots : /\ s[2] \in WritableTypes /\ s[3] \in input.matched \ silent
                                     /\ Parses(tree.manifest[s]) /\ to(s) # tree.manifest[s]}
        IN
        /\ pc = "regular" /\ pc' = "peers"
        /\ failing \subseteq {s[1] : s \in moving}
        /\ tree' = [tree EXCEPT !.manifest =
                      [s \in Slots |-> IF s \in moving /\ s[1] \notin failing THEN to(s) ELSE @[s]]]
        /\ updates' = updates \cup {Report(s[2], s[3], s[1], tree.manifest[s], to(s)) : s \in moving}
        /\ broken' = failing
        /\ clean' = (clean /\ silent = {} /\ blind = {})
        /\ UNCHANGED <<input, repo, before, wanted, changes, quiet, settled, worldVars>>
  BY DEF UpdateRegularDependencies
<1>2. clean /\ silent = {} /\ blind = {}
  BY <1>1
<1> DEFINE to(s)  == Bump(tree.manifest[s], Eligible(s[3], {}))
           moving == {s \in Slots : /\ s[2] \in WritableTypes /\ s[3] \in input.matched
                                    /\ Parses(tree.manifest[s]) /\ to(s) # tree.manifest[s]}
<1>4. /\ failing \subseteq {s[1] : s \in moving}
      /\ tree' = [tree EXCEPT !.manifest =
                    [s \in Slots |-> IF s \in moving /\ s[1] \notin failing THEN to(s)
                                                               ELSE tree.manifest[s]]]
      /\ updates' = updates \cup {Report(s[2], s[3], s[1], tree.manifest[s], to(s)) : s \in moving}
  BY <1>1, <1>2
<1>5. moving \in SUBSET Slots
  OBVIOUS
<1> QED BY <1>1, <1>2, <1>4, <1>5

LEMMA RegularRested == ASSUME TypeOK, Rested, UpdateRegularDependencies PROVE Rested'
<1> SUFFICES ASSUME clean', quiet' PROVE Rested'
  BY DEF Rested
<1>1. /\ pc = "regular" /\ pc' = "peers" /\ UNCHANGED <<input, repo, quiet, published, young>>
  BY DEF UpdateRegularDependencies, worldVars
<1> DEFINE to(s) == Bump(tree.manifest[s], Eligible(s[3], {}))
<1>2. PICK failing \in SUBSET Packages, moving \in SUBSET Slots :
        /\ moving = {s \in Slots : /\ s[2] \in WritableTypes /\ s[3] \in input.matched
                                   /\ Parses(tree.manifest[s]) /\ to(s) # tree.manifest[s]}
        /\ tree' = [tree EXCEPT !.manifest =
                      [s \in Slots |-> IF s \in moving /\ s[1] \notin failing THEN to(s)
                                                                 ELSE tree.manifest[s]]]
        /\ clean /\ broken' = failing
  BY RegularDid
<1>3. PinsRest(tree) /\ RuntimeRest(tree) /\ PluginRest(tree)
  BY <1>1, <1>2, StepsOrder DEF Rested
<1>4. tree'.pins = tree.pins /\ tree'.runtime = tree.runtime /\ tree'.plugin = tree.plugin
  BY <1>2 DEF TypeOK, Trees
<1>5. PinsRest(tree)' /\ RuntimeRest(tree)' /\ PluginRest(tree)'
  BY <1>1, <1>3, <1>4, RestFrame
<1>6. ASSUME broken' = {} PROVE RegularRest(tree)'
  <2> SUFFICES ASSUME NEW s \in Slots, s[2] \in WritableTypes, s[3] \in input.matched,
                      Parses(tree'.manifest[s]), tree'.manifest[s].op # "<"
               PROVE  Bump(tree'.manifest[s], Eligible(s[3], {})') = tree'.manifest[s]
    BY <1>1 DEF RegularRest
  <2>1. Eligible(s[3], {})' = Eligible(s[3], {}) /\ Eligible(s[3], {}) \in SUBSET Versions
    <3>1. s[3] \in Names
      BY DepsAreNames DEF Slots
    <3> QED BY <1>1, <3>1, TypeRegistry, InstallableIs DEF Eligible, Installable, Gate
  <2>2. tree'.manifest[s] = IF s \in moving THEN to(s) ELSE tree.manifest[s]
    <3> DEFINE man == [q \in Slots |-> IF q \in moving /\ q[1] \notin failing THEN to(q)
                                                                  ELSE tree.manifest[q]]
    <3>1. tree' = [tree EXCEPT !.manifest = man] /\ failing = {}
      BY <1>2, <1>6
    <3>2. tree'.manifest = man
      <4> HIDE DEF man
      <4> QED BY <3>1 DEF TypeOK, Trees
    <3> QED BY <3>1, <3>2
  <2>3. Parses(tree.manifest[s])
    BY <1>2, <2>2
  <2>4. tree'.manifest[s] = to(s)
    BY <1>2, <2>2, <2>3
  <2>5. tree.manifest[s] \in Specs
    BY <2>3, ParsedIsSpec, TreeParts DEF TypeOK
  <2>6. tree.manifest[s].op # "<"
    BY <2>1, <2>4, <2>5, BumpIs
  <2> HIDE DEF to
  <2> QED BY <2>1, <2>4, <2>5, <2>6, BumpRests DEF to
<1> QED BY <1>1, <1>5, <1>6, StepsOrder DEF Rested

LEMMA PeersRested == ASSUME TypeOK, Rested, SyncPeers PROVE Rested'
<1> SUFFICES ASSUME clean', quiet' PROVE Rested'
  BY DEF Rested
<1>1. PICK outcome \in Outcomes :
        /\ tree' = [tree EXCEPT !.manifest =
                      [s \in Slots |-> IF s[2] = "peerDependency"
                                       THEN Synced(s[1], s[3], outcome).peer
                                       ELSE tree.manifest[s]]]
        /\ clean' = clean
        /\ broken' = broken \cup {p \in Packages : \E d \in Deps : Synced(p, d, outcome).failed}
        /\ UNCHANGED <<input, repo, worldVars>>
  <2> HIDE DEF Synced, Synchronised
  <2> QED BY PeerReported DEF Outcomes
<1>2. pc = "peers" /\ pc' = "install" /\ UNCHANGED <<input, repo, quiet, published, young>>
  BY DEF SyncPeers, worldVars
<1>3. PinsRest(tree) /\ RuntimeRest(tree) /\ PluginRest(tree) /\ (broken = {} => RegularRest(tree))
  BY <1>1, <1>2, StepsOrder DEF Rested
<1> DEFINE man == [s \in Slots |-> IF s[2] = "peerDependency" THEN Synced(s[1], s[3], outcome).peer
                                                              ELSE tree.manifest[s]]
<1>4. /\ tree'.pins = tree.pins /\ tree'.runtime = tree.runtime /\ tree'.plugin = tree.plugin
      /\ tree'.manifest = man
  <2>1. tree' = [tree EXCEPT !.manifest = man]
    BY <1>1
  <2> HIDE DEF man
  <2> QED BY <2>1 DEF TypeOK, Trees
<1>5. \A s \in Slots : s[2] \in WritableTypes => tree'.manifest[s] = tree.manifest[s]
  BY <1>4 DEF WritableTypes
<1>6. PinsRest(tree)' /\ RuntimeRest(tree)' /\ PluginRest(tree)'
      /\ (RegularRest(tree) => RegularRest(tree)')
  BY <1>2, <1>3, <1>4, <1>5, RestFrame
<1> QED BY <1>1, <1>2, <1>3, <1>6 DEF Rested

LEMMA RestedStep == ASSUME TypeOK, Rested, [Next]_vars PROVE Rested'
<1>1. CASE StartRun
  BY <1>1, StepsOrder DEF StartRun, Rested
<1>2. CASE UpgradeManager \/ UpgradeRuntimes \/ UpdateConfigDependency \/ SkipConfigDependency
  BY <1>2, ManagerRested, RuntimesRested, ConfigRested
<1>3. CASE UpdateRegularDependencies \/ SyncPeers
  BY <1>3, RegularRested, PeersRested
<1>4. CASE Install \/ SkipInstall \/ Compare
  <2> SUFFICES ASSUME clean', quiet' PROVE Rested'
    BY DEF Rested
  <2>1. /\ pc \in AfterRegular /\ UNCHANGED <<input, repo, published, young, clean, quiet, broken>>
        /\ tree' = tree \/ tree' = [tree EXCEPT !.lock = NewLock(tree)]
    BY <1>4, StepsOrder DEF Install, SkipInstall, Compare, runVars, worldVars
  <2>2. PinsRest(tree) /\ RuntimeRest(tree) /\ PluginRest(tree) /\ (broken = {} => RegularRest(tree))
    BY <2>1, StepsOrder DEF Rested
  <2>3. /\ tree'.pins = tree.pins /\ tree'.runtime = tree.runtime /\ tree'.plugin = tree.plugin
        /\ tree'.manifest = tree.manifest
    BY <2>1 DEF TypeOK, Trees
  <2>4. /\ PinsRest(tree)' /\ RuntimeRest(tree)' /\ PluginRest(tree)'
        /\ (RegularRest(tree) => RegularRest(tree)')
    BY <2>1, <2>2, <2>3, RestFrame
  <2> QED BY <2>1, <2>2, <2>4 DEF Rested
<1>5. CASE Land \/ Discard
  BY <1>5, StepsOrder DEF Land, Discard, Rested
<1>6. CASE (\E n \in Names : Publish(n)) \/ Mature
  BY <1>6 DEF Publish, Mature, Rested
<1>7. CASE \/ \E s \in Hand.slots, declared \in Hand.specs : EditSlot(s, declared)
           \/ \E e \in Hand.entries, spec \in Hand.ranges : EditEntry(e, spec)
           \/ Relock
  BY <1>7, StepsOrder DEF EditSlot, EditEntry, Edit, Relock, Rested
<1>8. CASE UNCHANGED vars
  <2>1. UNCHANGED <<input, repo, published, young, tree, pc, clean, quiet, broken>>
    BY <1>8 DEF vars, runVars, worldVars
  <2> QED BY <2>1, RestFrame DEF Rested
<1> QED BY <1>1, <1>2, <1>3, <1>4, <1>5, <1>6, <1>7, <1>8 DEF Next, RunStep, WorldStep

\* What lies at rest when it is committed does in the repository.
LEMMA RepoFrame ==
  ASSUME UNCHANGED <<input, published, young>>,
         repo' = repo \/ (repo' = tree /\ Gate(tree) = Gate(repo))
  PROVE  /\ repo' = repo /\ AtRest(repo) => AtRest(repo)'
         /\ repo' = tree /\ AtRest(tree) => AtRest(repo)'
<1>0. Gate(repo)' = Gate(repo)
  BY DEF Gate
<1>1. \A n : Eligible(n, {})' = Eligible(n, {})
  BY <1>0 DEF Eligible, Installable
<1>2. \A at : PluginBest(at)' = PluginBest(at)
  BY <1>1 DEF PluginBest
<1>3. CASE repo' = repo /\ AtRest(repo)
  BY <1>1, <1>2, <1>3 DEF AtRest, PinsRest, RuntimeRest, PluginRest, RegularRest
<1>4. CASE repo' = tree /\ AtRest(tree)
  BY <1>1, <1>2, <1>4 DEF AtRest, PinsRest, RuntimeRest, PluginRest, RegularRest
<1> QED BY <1>3, <1>4

LEMMA RestsWhenSettledStep ==
  ASSUME TypeOK, Rested, RestsWhenSettled, [Next]_vars PROVE RestsWhenSettled'
<1>1. CASE Land
  <2> SUFFICES ASSUME settled' PROVE AtRest(repo)'
    BY DEF RestsWhenSettled
  <2>1. /\ pc = "commit" /\ quiet /\ clean /\ broken = {} /\ repo' = tree /\ Gate(tree) = Gate(repo)
        /\ UNCHANGED <<input, published, young>>
    BY <1>1 DEF Land, worldVars
  <2>2. AtRest(tree)
    BY <2>1, StepsOrder DEF Rested, AtRest
  <2> QED BY <2>1, <2>2, RepoFrame
<1>2. ASSUME UNCHANGED <<input, repo, published, young, settled>> PROVE RestsWhenSettled'
  BY <1>2, RepoFrame DEF RestsWhenSettled
<1>3. CASE StartRun \/ UpgradeManager \/ UpgradeRuntimes \/ UpdateConfigDependency
  BY <1>2, <1>3 DEF StartRun, UpgradeManager, UpgradeRuntimes, UpdateConfigDependency, worldVars
<1>4. CASE SkipConfigDependency \/ UpdateRegularDependencies \/ SyncPeers \/ Install
  BY <1>2, <1>4 DEF SkipConfigDependency, UpdateRegularDependencies, SyncPeers, Install, worldVars
<1>5. CASE SkipInstall \/ Compare \/ Discard \/ UNCHANGED vars
  BY <1>2, <1>5 DEF SkipInstall, Compare, Discard, vars, worldVars
<1>6. CASE WorldStep
  <2>1. settled' = FALSE
    BY <1>6 DEF WorldStep, Publish, Mature, EditSlot, EditEntry, Edit, Relock
  <2> QED BY <2>1 DEF RestsWhenSettled
<1> QED BY <1>1, <1>3, <1>4, <1>5, <1>6 DEF Next, RunStep

-----------------------------------------------------------------------------
(* A run over files at rest *)

LEMMA ManagerSteady ==
  ASSUME TypeOK, AtRest(tree), UpgradeManager, clean' PROVE tree' = tree /\ updates' = updates
<1> DEFINE v  == Wanted(tree.pins, input.manager, published["manager"])
           up == Upgraded(tree.pins, v)
<1>1. tree' = [tree EXCEPT !.pins = up] /\ (~(v # None /\ v # Reference(tree.pins)) => updates' = updates)
  BY DEF UpgradeManager
<1>2. up = tree.pins /\ ~(v # None /\ v # Reference(tree.pins))
  BY DEF AtRest, PinsRest
<1> HIDE DEF v, up
<1> QED BY <1>1, <1>2 DEF TypeOK, Trees

LEMMA RuntimesSteady ==
  ASSUME TypeOK, AtRest(tree), UpgradeRuntimes, clean' PROVE tree' = tree /\ updates' = updates
<1> DEFINE to == RuntimeTo(tree.runtime, input.runtime, published["runtime"])
<1>1. tree' = [tree EXCEPT !.runtime = to] /\ (to = tree.runtime => updates' = updates)
  BY DEF UpgradeRuntimes, RuntimeMoves
<1>2. to = tree.runtime
  BY DEF AtRest, RuntimeRest
<1> HIDE DEF to
<1> QED BY <1>1, <1>2 DEF TypeOK, Trees

LEMMA ConfigSteady ==
  ASSUME TypeOK, AtRest(tree), UpdateConfigDependency, clean' PROVE tree' = tree /\ updates' = updates
<1> DEFINE to  == PluginTo({})
           new == [at |-> to, integrity |-> FALSE]
<1>1. /\ to # None /\ tree' = [tree EXCEPT !.plugin = new]
      /\ to = tree.plugin.at => updates' = updates
  <2>1. PICK blind \in SUBSET {"plugin"}, written \in BOOLEAN :
          /\ PluginTo(blind) # None
          /\ tree' = IF written THEN [tree EXCEPT !.plugin = [at |-> PluginTo(blind), integrity |-> FALSE]]
                                ELSE tree
          /\ PluginTo(blind) = tree.plugin.at => updates' = updates
          /\ clean' = (clean /\ written /\ blind = {})
    BY DEF UpdateConfigDependency
  <2>2. written /\ blind = {}
    BY <2>1
  <2> QED BY <2>1, <2>2
<1>2. input.pm = "pnpm" /\ tree.plugin # None /\ to = PluginBest(tree.plugin.at)
  BY <1>1, PluginBestIs DEF PluginTo
<1> HIDE DEF to
<1>3. tree.plugin = new
  BY <1>1, <1>2 DEF AtRest, PluginRest
<1>4. to = tree.plugin.at
  BY <1>3
<1> HIDE DEF new
<1> QED BY <1>1, <1>3, <1>4 DEF TypeOK, Trees

LEMMA RegularSteady ==
  ASSUME TypeOK, AtRest(tree), BoundedBelow(tree), UpdateRegularDependencies, clean'
  PROVE  tree' = tree /\ updates' = updates /\ broken' = {}
<1> DEFINE to(s) == Bump(tree.manifest[s], Eligible(s[3], {}))
<1>1. PICK failing \in SUBSET Packages, moving \in SUBSET Slots :
        /\ moving = {s \in Slots : /\ s[2] \in WritableTypes /\ s[3] \in input.matched
                                   /\ Parses(tree.manifest[s]) /\ to(s) # tree.manifest[s]}
        /\ failing \subseteq {s[1] : s \in moving}
        /\ tree' = [tree EXCEPT !.manifest =
                      [s \in Slots |-> IF s \in moving /\ s[1] \notin failing THEN to(s)
                                                                 ELSE tree.manifest[s]]]
        /\ updates' = updates \cup {Report(s[2], s[3], s[1], tree.manifest[s], to(s)) : s \in moving}
        /\ clean /\ broken' = failing
  BY RegularDid
<1>2. moving = {}
  BY <1>1 DEF BoundedBelow, AtRest, RegularRest
<1>3. failing = {} /\ updates' = updates /\ tree' = [tree EXCEPT !.manifest = [s \in Slots |-> tree.manifest[s]]]
  BY <1>1, <1>2
<1>4. [s \in Slots |-> tree.manifest[s]] = tree.manifest
  BY TreeParts DEF TypeOK
<1>5. tree' = tree
  BY <1>3, <1>4 DEF TypeOK, Trees
<1> QED BY <1>1, <1>3, <1>5

LEMMA PeersSteady ==
  ASSUME TypeOK, updates = {}, SyncPeers PROVE tree' = tree /\ updates' = updates
<1>1. PICK outcome \in Outcomes :
        /\ tree' = [tree EXCEPT !.manifest =
                      [s \in Slots |-> IF s[2] = "peerDependency"
                                       THEN Synced(s[1], s[3], outcome).peer
                                       ELSE tree.manifest[s]]]
        /\ updates' = updates \cup UNION {Synced(s[1], s[3], outcome).reports : s \in Slots}
  <2> HIDE DEF Synced, Synchronised
  <2> QED BY PeerReported DEF Outcomes
<1>2. ASSUME NEW p, NEW d
      PROVE  Synced(p, d, outcome)
               = [peer |-> tree.manifest[<<p, "peerDependency", d>>], reports |-> {}, failed |-> FALSE]
  <2>1. ASSUME NEW acc, NEW type PROVE SyncSection(acc, type, p, d, outcome) = acc
    <3>1. {u \in Synchronised : u.type = type /\ u.dependency = d /\ u.package = p} = {}
      BY DEF Synchronised
    <3> QED BY <3>1 DEF SyncSection
  <2> QED BY <2>1 DEF Synced
<1>3. \A s \in Slots : s[2] = "peerDependency" => <<s[1], "peerDependency", s[3]>> = s
  BY DEF Slots
<1>4. /\ updates' = updates
      /\ tree' = [tree EXCEPT !.manifest = [s \in Slots |-> tree.manifest[s]]]
  <2>1. ASSUME NEW p, NEW d
        PROVE  /\ Synced(p, d, outcome).peer = tree.manifest[<<p, "peerDependency", d>>]
               /\ Synced(p, d, outcome).reports = {}
    BY <1>2
  <2>2. [s \in Slots |-> IF s[2] = "peerDependency" THEN Synced(s[1], s[3], outcome).peer
                                                   ELSE tree.manifest[s]]
          = [s \in Slots |-> tree.manifest[s]]
    BY <1>3, <2>1
  <2>3. UNION {Synced(s[1], s[3], outcome).reports : s \in Slots} = {}
    BY <2>1
  <2> QED BY <1>1, <2>2, <2>3
<1>5. [s \in Slots |-> tree.manifest[s]] = tree.manifest
  BY TreeParts DEF TypeOK
<1> QED BY <1>4, <1>5 DEF TypeOK, Trees

LEMMA SteadyStep ==
  ASSUME TypeOK, RestsWhenSettled, Steady, [Next]_vars PROVE Steady'
<1> SUFFICES ASSUME settled', clean', pc' # "idle", BoundedBelow(repo)'
             PROVE  /\ pc' \in BeforeBumps => broken' = {}
                    /\ broken' = {} => tree' = repo' /\ updates' = {}
  BY DEF Steady
<1>0. ASSUME UNCHANGED <<input, repo>> PROVE BoundedBelow(repo)
  BY <1>0 DEF BoundedBelow
<1>1. CASE StartRun
  BY <1>1 DEF StartRun
<1>2. CASE Land \/ Discard
  BY <1>2 DEF Land, Discard
<1>3. CASE WorldStep
  BY <1>3 DEF WorldStep, Publish, Mature, EditSlot, EditEntry, Edit, Relock
<1>4. CASE UNCHANGED vars
  BY <1>0, <1>4 DEF vars, runVars, Steady
<1>5. CASE UpgradeManager \/ UpgradeRuntimes \/ UpdateConfigDependency \/ SkipConfigDependency
  <2>1. /\ UNCHANGED <<input, repo>> /\ settled' = settled /\ broken' = broken /\ clean
        /\ pc \in BeforeBumps /\ pc # "idle"
    BY <1>5 DEF UpgradeManager, UpgradeRuntimes, UpdateConfigDependency, SkipConfigDependency, BeforeBumps
  <2>2. broken = {} /\ tree = repo /\ updates = {} /\ AtRest(tree)
    BY <1>0, <2>1 DEF Steady, RestsWhenSettled
  <2>3. tree' = tree /\ updates' = updates
    <3>1. CASE SkipConfigDependency
      BY <3>1 DEF SkipConfigDependency
    <3> QED BY <1>5, <2>2, <3>1, ManagerSteady, RuntimesSteady, ConfigSteady
  <2> QED BY <2>1, <2>2, <2>3
<1>6. CASE UpdateRegularDependencies
  <2>1. /\ UNCHANGED <<input, repo>> /\ settled' = settled /\ clean
        /\ pc \in BeforeBumps /\ pc # "idle"
    BY <1>6 DEF UpdateRegularDependencies, BeforeBumps
  <2>2. broken = {} /\ tree = repo /\ updates = {} /\ AtRest(tree) /\ BoundedBelow(tree)
    BY <1>0, <2>1 DEF Steady, RestsWhenSettled
  <2>3. tree' = tree /\ updates' = updates /\ broken' = {}
    BY <1>6, <2>2, RegularSteady
  <2> QED BY <2>1, <2>2, <2>3
<1>7. CASE SyncPeers
  <2>1. /\ UNCHANGED <<input, repo>> /\ settled' = settled /\ clean /\ pc # "idle" /\ pc' = "install"
        /\ broken' = {} => broken = {}
    BY <1>7 DEF SyncPeers
  <2>2. ASSUME broken = {} PROVE tree = repo /\ updates = {}
    BY <1>0, <2>1, <2>2 DEF Steady
  <2> QED BY <1>7, <2>1, <2>2, PeersSteady DEF BeforeBumps
<1>8. CASE Install \/ SkipInstall \/ Compare
  <2>1. /\ UNCHANGED <<input, repo>> /\ settled' = settled /\ clean /\ pc \in {"install", "after"}
        /\ pc' \notin BeforeBumps /\ broken' = broken /\ updates' = updates
        /\ tree' = tree \/ updates # {}
    BY <1>8 DEF Install, SkipInstall, Compare, runVars, ShouldInstall, BeforeBumps
  <2>2. ASSUME broken = {} PROVE tree = repo /\ updates = {}
    BY <1>0, <2>1, <2>2 DEF Steady
  <2> QED BY <2>1, <2>2
<1> QED BY <1>1, <1>2, <1>3, <1>4, <1>5, <1>6, <1>7, <1>8 DEF Next, RunStep

\* Two snapshots alike say that nothing moved.
LEMMA NothingMoved == ASSUME NEW lock, NEW pm PROVE CompareLockfiles(lock, lock, pm) = {}
<1> DEFINE N == Normal(lock, pm)
<1>1. ASSUME NEW c PROVE c \notin CatalogChanges(lock, lock, pm)
  <2>1. \A e \in Entries : ~EntryMoves(N[e], N[e])
    BY SameDidNotMove
  <2> QED BY <2>1, CatalogChangesAre
<1>2. ImporterChanges(lock, lock) = {}
  BY DEF ImporterChanges, KeyedSlots
<1> QED BY <1>1, <1>2 DEF CompareLockfiles

LEMMA SteadySettles == TypeOK /\ Compared /\ Reported /\ Steady => Settles
<1> SUFFICES ASSUME TypeOK, Compared, Reported, Steady,
                    pc = "commit", settled, clean, broken = {}, BoundedBelow(repo)
             PROVE  updates = {} /\ changes = {} /\ tree = repo
  BY DEF Settles
<1>1. updates = {} /\ tree = repo
  BY DEF Steady
<1>2. changes = CompareLockfiles(repo.lock, repo.lock, input.pm)
  BY <1>1 DEF Compared, Reported
<1> QED BY <1>1, <1>2, NothingMoved

LEMMA InitSettles == Init => Rested /\ RestsWhenSettled /\ Steady
BY StepsOrder DEF Init, Rested, RestsWhenSettled, Steady

(* Runs converge, for any workspace none of whose matched specifiers is a strict
   upper bound (`<`), any inputs and any registry: over files that a faultless run,
   which left the release-age gate as it found it, has landed, with nothing
   published, matured or edited since it began, a run that meets no fault reports
   nothing and leaves every file as it is.  The invariant behind it: each step has
   left its files such that the step changes nothing in them, under the registry it
   asked and the gate of the committed files; so has the run that landed; and a run
   over such files never moves one, nor reports, so no install runs, no peer range
   moves and the two snapshots of the lockfile are one. *)
THEOREM RunsAlwaysSettle == Spec => []Settles
<1> DEFINE Inv == TypeOK /\ Compared /\ Reported /\ Rested /\ RestsWhenSettled /\ Steady
<1>1. Init => Inv
  BY InitType, InitReported, InitTold, InitSettles
<1>2. Inv /\ [Next]_vars => Inv'
  BY NextType, ComparedStep, ReportedStep, RestedStep, RestsWhenSettledStep, SteadyStep
<1>3. Inv => Settles
  BY SteadySettles
<1> QED BY <1>1, <1>2, <1>3, PTL DEF Spec

=============================================================================
