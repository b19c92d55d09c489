------------------------------- MODULE ToolPins -------------------------------
(***************************************************************************)
(* The versions the root manifest pins its tools to, and how a run moves   *)
(* them: package-manager-upgrade.ts (packageManager and                    *)
(* devEngines.packageManager) and runtime-upgrade.ts (devEngines.runtime). *)
(*                                                                         *)
(* A field the services do not read as a reference (absent, another        *)
(* manager's, a range without a single version) is None.  A mode is a      *)
(* range, or one of the two words; a field of the package manager may      *)
(* carry an integrity after its version.                                   *)
(***************************************************************************)
EXTENDS Specifiers

Off       == [op |-> "false", at |-> None]
Automatic == [op |-> "auto", at |-> None]
Modes     == Specs \cup {Off, Automatic}

\* packageManager is exact; devEngines may carry an operator.
Pinned(ops) == [op : ops, at : Numbers, integrity : BOOLEAN]
Pins == [packageManager : Pinned({""}) \cup {None}, devEngines : Pinned({"", "^", "~"}) \cup {None}]

ASSUME PinsAssumption == None \notin Pinned({"", "^", "~"})

Bare(field)     == [field EXCEPT !.integrity = FALSE]
At(field, v)    == [field EXCEPT !.at = v, !.integrity = FALSE]
NewPin(v)       == [op |-> "", at |-> v, integrity |-> FALSE]

\* The reference favours devEngines.
Reference(pins) ==
  IF pins.devEngines # None THEN pins.devEngines.at
  ELSE IF pins.packageManager # None THEN pins.packageManager.at
  ELSE None

\* `auto` is a caret on the reference, taken literally: 0.x is not widened.
Target(pins, mode) == IF mode = Automatic THEN [op |-> "^", at |-> Reference(pins)] ELSE mode

\* The version to move to, or None: disabled, no reference, nothing satisfies.
Wanted(pins, mode, available) ==
  IF mode = Off \/ (mode = Automatic /\ Reference(pins) = None) THEN None
  ELSE ResolveLatest({v \in available : Admits(Target(pins, mode), v)})

\* already-current: suffixes go, each field against its own version.
Normalized(pins) ==
  [packageManager |-> IF pins.packageManager = None THEN None ELSE Bare(pins.packageManager),
   devEngines     |-> IF pins.devEngines = None THEN None ELSE Bare(pins.devEngines)]

\* Mutant: where devEngines pins the manager, packageManager is left alone.
RepinnedDevEngines(pins, v) ==
  IF pins.devEngines # None THEN [pins EXCEPT !.devEngines = At(@, v)]
                            ELSE [pins EXCEPT !.packageManager = NewPin(v)]

\* Every field there is moves, devEngines under its operator; with none,
\* packageManager is added.
Repinned(pins, v) ==
  [packageManager |-> IF pins.packageManager = None /\ pins.devEngines # None
                      THEN None ELSE NewPin(v),
   devEngines     |-> IF pins.devEngines = None THEN None ELSE At(pins.devEngines, v)]

\* upgradePackageManagerImpl, as what it makes of the two fields.
Upgraded(pins, v) ==
  IF v = None THEN pins
  ELSE IF v = Reference(pins) THEN Normalized(pins)
  ELSE Repinned(pins, v)

\* upgradeOne: a declared range, or any entry under an explicit range, becomes
\* the exact version it resolves to; auto leaves an exact entry alone.
RuntimeTo(entry, mode, available) ==
  IF entry = None \/ mode = Off \/ (mode = Automatic /\ entry.op = "") THEN entry
  ELSE LET range == IF mode = Automatic THEN entry ELSE mode
           best  == ResolveLatest({v \in available : Admits(range, v)})
       IN  IF best = None THEN entry ELSE Exact(best)

\* Mutant: a runtime that is current already is an upgrade as well.
RuntimeResolves(entry, to) == to # None

\* One that resolves to what it says is current: nothing to write or report.
RuntimeMoves(entry, to) == to # entry

=============================================================================
