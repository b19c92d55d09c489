------------------------------ MODULE Specifiers ------------------------------
(***************************************************************************)
(* Versions, the specifiers a manifest declares, and how the update        *)
(* services move a specifier: utils/semver.ts, utils/deps.ts and the pure  *)
(* half of regular-deps.ts, peer-sync.ts and config-deps.ts.               *)
(*                                                                         *)
(* A version is a triple of numbers; prereleases are what                  *)
(* resolveLatestSatisfying drops first and are left out.  A specifier is   *)
(* an operator and a version.  What parseSpecifier answers null for (a     *)
(* catalog reference, a dist-tag, a compound range, an `=` pin) is never   *)
(* rewritten; catalog references stand for all of it.                      *)
(***************************************************************************)
EXTENDS Integers

CONSTANTS
  Versions,  \* the stable versions any package may publish
  None       \* no version, no specifier, no field: the code's null

Numbers == Nat \X Nat \X Nat

Older(v, w) ==
  \/ v[1] < w[1]
  \/ v[1] = w[1] /\ v[2] < w[2]
  \/ v[1] = w[1] /\ v[2] = w[2] /\ v[3] < w[3]

ASSUME VersionsAssumption ==
  /\ Versions \subseteq Numbers
  /\ None \notin Numbers
  /\ \A S \in SUBSET Versions : S # {} => \E v \in S : \A w \in S : ~Older(v, w)

Operators     == {"", "^", "~", ">=", ">", "<=", "<"}
Specs         == [op : Operators, at : Numbers]
Exact(v)      == [op |-> "", at |-> v]
CatalogRef(c) == [op |-> "catalog:", at |-> c]

ASSUME SpecsAssumption == None \notin Specs

\* parseSpecifier: is this one operator and one complete version?
Parses(spec) == spec # None /\ spec.op \in Operators

\* The semver grammar's reading of a specifier.
Admits(spec, v) ==
  LET at == spec.at IN
  \/ spec.op = ""   /\ v = at
  \/ spec.op = "^"  /\ ~Older(v, at) /\ v[1] = at[1]
                    /\ (at[1] = 0 => v[2] = at[2] /\ (at[2] = 0 => v[3] = at[3]))
  \/ spec.op = "~"  /\ ~Older(v, at) /\ v[1] = at[1] /\ v[2] = at[2]
  \/ spec.op = ">=" /\ ~Older(v, at)
  \/ spec.op = ">"  /\ Older(at, v)
  \/ spec.op = "<=" /\ ~Older(at, v)
  \/ spec.op = "<"  /\ Older(v, at)

Highest(S) == CHOOSE v \in S : \A w \in S : ~Older(v, w)

\* resolveLatestSatisfying, given the candidates its range admits.
ResolveLatest(S) == IF S = {} THEN None ELSE Highest(S)

\* configDepUpgradeRange: the current major, and the first stable one from 0.x.
ConfigDepUpgradeRange(at, v) ==
  ~Older(v, at) /\ v[1] < (IF at[1] = 0 THEN 2 ELSE at[1] + 1)

\* resolutionRangeForSpecifier: a caret on 0.x is widened, the rest is literal.
ResolutionRange(spec, v) ==
  IF spec.op = "^" /\ spec.at[1] = 0 THEN ConfigDepUpgradeRange(spec.at, v)
                                     ELSE Admits(spec, v)

\* Mutant: a specifier nothing satisfies is written as well.
BumpUnresolved(spec, eligible) ==
  [spec EXCEPT !.at = ResolveLatest({v \in eligible : ResolutionRange(spec, v)})]

\* The operator is applied again to the version the specifier resolves to.
Bump(spec, eligible) ==
  LET best == ResolveLatest({v \in eligible : ResolutionRange(spec, v)})
  IN  IF best = None THEN spec ELSE [spec EXCEPT !.at = best]

\* Mutant: a new major with a lower minor does not count as a bump.
MinorOnly(old, new) == new[2] > old[2]

MinorOrMajor(old, new) == new[1] > old[1] \/ (new[1] = old[1] /\ new[2] > old[2])

\* computePeerRange: the range the peer gets, or None where it keeps its own.
PeerRange(strategy, peer, old, new) ==
  IF strategy = "lock" THEN [peer EXCEPT !.at = new]
  ELSE IF MinorOrMajor(old, new) THEN [peer EXCEPT !.at = <<new[1], new[2], 0>>]
  ELSE None

=============================================================================
