--------------------------- MODULE MCWorkspaceRuns ---------------------------
(* A workspace of two packages that share one dependency and one catalog.  *)
EXTENDS WorkspaceRuns

CONSTANTS app, lib, dep, cat

V(x, y, z)       == <<x, y, z>>
Spec1(op, v)     == [op |-> op, at |-> v]
Pin(op, v, hash) == [op |-> op, at |-> v, integrity |-> hash]

SomeVersions == {V(0, 2, 0), V(1, 0, 0), V(1, 0, 1), V(1, 1, 0), V(2, 0, 0)}

AllReleases ==
  [n \in {dep, "manager", "runtime", "plugin"} |->
     CASE n = dep       -> {V(0, 2, 0), V(1, 0, 0), V(1, 0, 1), V(1, 1, 0)}
       [] n = "manager" -> {V(1, 0, 0), V(1, 1, 0), V(2, 0, 0)}
       [] n = "runtime" -> {V(1, 0, 0)}
       [] n = "plugin"  -> {V(0, 2, 0), V(1, 0, 0), V(2, 0, 0)}]

FirstReleases ==
  [n \in {dep, "manager", "runtime", "plugin"} |->
     CASE n = dep       -> {V(0, 2, 0), V(1, 0, 0)}
       [] n = "manager" -> {V(1, 0, 0), V(2, 0, 0)}
       [] n = "runtime" -> {V(1, 0, 0)}
       [] n = "plugin"  -> {V(0, 2, 0), V(1, 0, 0)}]

\* Its hook sets a release-age window from 1.0.0 on.
Windowed == {V(1, 0, 0), V(2, 0, 0)}

\* The plugin's entry moves with its major, and is gone from 2.0.0 on.
Hook == [v \in SomeVersions |-> [e \in {<<cat, dep>>} |->
           IF v[1] = 0 THEN Spec1("~", V(0, 2, 0))
           ELSE IF v[1] = 1 THEN Spec1(">=", V(0, 2, 0)) ELSE None]]

Manifest(own, dev, peer, other) ==
  [s \in Slots |-> CASE s = <<app, "dependency", dep>>     -> own
                     [] s = <<app, "devDependency", dep>>  -> dev
                     [] s = <<app, "peerDependency", dep>> -> peer
                     [] s = <<lib, "dependency", dep>>     -> other
                     [] OTHER -> None]

Tree(pm, engines, runtime, plugin, entry, manifest) ==
  [pins |-> [packageManager |-> pm, devEngines |-> engines], runtime |-> runtime,
   plugin |-> plugin, catalogs |-> [e \in Entries |-> entry], manifest |-> manifest,
   lock |-> None]

Input(pm, manager, runtime, strategy, inline) ==
  [pm |-> pm, manager |-> manager, runtime |-> runtime,
   strategy |-> [x \in Deps |-> strategy], matched |-> Deps, inline |-> inline]

Caret(v) == Spec1("^", v)
Ref      == CatalogRef(cat)

\* pnpm: a peer that follows a caret on 0.x, a consumer of the plugin's entry,
\* suffixes everywhere, no release-age window until the plugin moves.
Pnpm ==
  [input |-> Input("pnpm", Automatic, Off, "minor", FALSE), locked |-> TRUE,
   repo |-> Tree(Pin("", V(1, 0, 0), TRUE), Pin("^", V(1, 0, 0), TRUE), Caret(V(1, 0, 0)),
                 [at |-> V(0, 2, 0), integrity |-> TRUE], None,
                 Manifest(None, Caret(V(0, 2, 0)), Caret(V(0, 2, 0)), Ref))]

\* bun: two sections with different ranges, peer-lock, an explicit range that
\* adds the pin, the entry in the manifest.
Bun ==
  [input |-> Input("bun", Spec1(">=", V(1, 0, 0)), Spec1("^", V(1, 0, 0)), "lock", FALSE),
   locked |-> TRUE,
   repo |-> Tree(None, None, Caret(V(1, 0, 0)), None, Spec1(">=", V(0, 2, 0)),
                 Manifest(Spec1("~", V(1, 0, 0)), Caret(V(0, 2, 0)), Caret(V(0, 2, 0)), Ref))]

\* The fields name different majors, no lockfile yet.
Fresh ==
  [input |-> Input("pnpm", Automatic, Automatic, "lock", TRUE), locked |-> FALSE,
   repo |-> Tree(Pin("", V(2, 0, 0), FALSE), Pin("~", V(1, 0, 0), FALSE), Caret(V(1, 0, 0)),
                 None, Caret(V(1, 0, 0)),
                 Manifest(Spec1(">=", V(0, 2, 0)), None, Spec1("", V(0, 2, 0)), Caret(V(1, 0, 0))))]

\* Upper bounds, which runs lower, and a peer that would have to follow one down.
Bounded ==
  [input |-> Input("pnpm", Off, Off, "minor", TRUE), locked |-> TRUE,
   repo |-> Tree(None, None, None, None, None,
                 Manifest(Spec1("<=", V(1, 1, 0)), None, Caret(V(1, 1, 0)),
                          Spec1("<", V(2, 0, 0))))]

SomeStarts == {Pnpm, Bun, Fresh, Bounded}

SomeHand == [slots |-> {<<lib, "dependency", dep>>},
             specs |-> {None, CatalogRef(cat), Spec1("~", V(1, 0, 1))},
             entries |-> {<<cat, dep>>}, ranges |-> {None}]

\* A range that excludes the version it resolves to.
Above ==
  [Fresh EXCEPT !.repo.manifest[<<app, "dependency", dep>>] = Spec1(">", V(0, 2, 0))]

AboveStart == {Above}
GateStart  == {Pnpm}

=============================================================================
