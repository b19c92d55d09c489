---------------------------- MODULE WorkspaceRuns ----------------------------
(***************************************************************************)
(* The update steps of a run on the files of a workspace, and runs one     *)
(* after another: the pins of the root manifest, the pnpm configuration    *)
(* dependency and the catalogs it ships, the specifiers of every package,  *)
(* the lockfile, and the changes a run reads out of its two snapshots of   *)
(* it.  Between and during runs versions are published and mature; between *)
(* runs people edit the committed files, with or without an install.       *)
(*                                                                         *)
(* A run commits to repo directly: branch and pull request are in module   *)
(* UpdateBranch, the order of steps and exits in UpdateRun, the bun        *)
(* configuration dependencies in CatalogRuns, the install in ActionJob.    *)
(* Only one configuration dependency and one runtime are followed; packages *)
(* neither come nor go.                                                    *)
(***************************************************************************)
EXTENDS ToolPins, LockfileDiff

CONSTANTS
  Releases,    \* the versions each published thing may come to have
  Published0,  \* those it has at first
  Ships,       \* the catalog entries each version of the plugin adds
  Strict,      \* the versions of the plugin whose hook sets a release-age window
  Starts,      \* the inputs and the committed files a behaviour may start from
  Hand,        \* the slots and catalog entries people edit, and what to
  MaxEvents    \* bound: publications and edits

Names == Deps \cup {"manager", "runtime", "plugin"}
Gated == Deps \cup {"plugin"}    \* what the release-age gate filters

\* The workflow's inputs; does pnpm-workspace.yaml set a release-age window itself?
Inputs == [pm : {"pnpm", "bun"}, manager : Modes, runtime : Modes,
           strategy : [Deps -> {"none", "lock", "minor"}], matched : SUBSET Deps,
           inline : BOOLEAN]
Plugged == [at : Numbers, integrity : BOOLEAN]
Plugins == Plugged \cup {None}
Trees == [pins : Pins, runtime : Specs \cup {None}, plugin : Plugins,
          catalogs : [Entries -> Specs \cup {None}], manifest : [Slots -> Declared],
          lock : Locks \cup {None}]
Reports == [type : {"packageManager", "runtime", "config"}, dependency : Names,
            package : {None}, from : Specs \cup {None}, to : Specs]
           \cup [type : Types, dependency : Deps, package : Packages, from : Specs, to : Specs]

ASSUME WorkspaceAssumption ==
  /\ Deps \cap {"manager", "runtime", "plugin"} = {}
  /\ Releases \in [Names -> SUBSET Versions]
  /\ Published0 \in [Names -> SUBSET Versions]
  /\ Ships \in [Versions -> [Entries -> Specs \cup {None}]]
  /\ Strict \subseteq Versions
  /\ Starts \subseteq [input : Inputs, repo : Trees, locked : BOOLEAN]
  /\ Hand \in [slots : SUBSET Slots, specs : SUBSET Declared,
               entries : SUBSET Entries, ranges : SUBSET (Specs \cup {None})]
  /\ MaxEvents \in Nat
  /\ None \notin Locks /\ None \notin Plugged

VARIABLES
  input,      \* the inputs of the workflow, and the window of the workspace
  repo,       \* the committed files
  tree,       \* the files of the run's checkout
  pc,         \* the run's next step
  before,     \* its first snapshot of the lockfile
  updates,    \* the updates its steps report
  wanted,     \* the package manager version to activate, if the pin moved
  changes,    \* what compareLockfiles found
  broken,     \* packages with a manifest read or write that failed in this run
  clean,      \* every lookup of this run was answered, every root write done
  quiet,      \* nothing happened outside since this run began
  settled,    \* nor since the run that landed last began, which met no fault and left
              \* the release-age gate as it found it
  published,  \* the registry
  young,      \* published within the release-age window
  events      \* publications and edits so far

runVars   == <<before, updates, wanted, changes, broken, clean>>
worldVars == <<published, young, events>>
vars == <<input, repo, tree, pc, runVars, quiet, settled, worldVars>>

-----------------------------------------------------------------------------
(* The files *)

\* The entry in force: pnpm's plugin hook adds to, and overrides, the file's.
CatalogSpec(t, e) ==
  IF input.pm = "pnpm" /\ t.plugin # None /\ t.plugin.at \in Versions
     /\ Ships[t.plugin.at][e] # None
  THEN Ships[t.plugin.at][e] ELSE t.catalogs[e]

\* What a slot asks for; a reference without its entry asks for nothing.
Asked(t, s) ==
  IF IsRef(t.manifest[s]) THEN CatalogSpec(t, <<t.manifest[s].at, s[3]>>) ELSE t.manifest[s]

\* Is there a release-age window over these files: pnpm's own setting, or one the
\* hook of the plugin sets.
Gate(t) == input.pm = "pnpm" /\ (input.inline \/ (t.plugin # None /\ t.plugin.at \in Strict))

\* What an install of these files may take: behind a gate, nothing young.
Installable(t, n) == IF Gate(t) THEN published[n] \ young[n] ELSE published[n]

\* Mutant: the gate is left to the install.
EligibleUngated(n, blind) == published[n]

\* filterVersions: behind the gate the service assembled on its first use, when the
\* plugin was the committed one, and remembers for the run.  It fails open where
\* publish times cannot be read.
Eligible(n, blind) == IF n \in blind THEN published[n] ELSE Installable(repo, n)

Resolution(t, spec, n) == ResolveLatest({v \in Installable(t, n) : Admits(spec, v)})

Used(t, d) == {s \in Slots : s[3] = d /\ s[2] \in WritableTypes /\ t.manifest[s] # None}

\* What the lockfile's importers hold: every section with bun, all but the peers
\* with pnpm.
Recorded(t) ==
  [s \in Slots |-> IF input.pm = "pnpm" /\ s[2] = "peerDependency" THEN None ELSE t.manifest[s]]

Consumed(t, e) == \E s \in Slots : Recorded(t)[s] = CatalogRef(e[1]) /\ s[3] = e[2]

\* Every dependency a package installs has a version to install.
CanInstall(t) ==
  /\ \A d \in Deps : \A s \in Used(t, d) :
       Asked(t, s) # None /\ Resolution(t, Asked(t, s), d) # None
  /\ t.plugin # None => t.plugin.at \in published["plugin"]

\* The lockfile a full resolution writes; pnpm lists the entries in use only.
NewLock(t) ==
  [importers |-> Recorded(t),
   entries   |-> [e \in Entries |->
                    IF CatalogSpec(t, e) = None \/ (input.pm = "pnpm" /\ ~Consumed(t, e))
                    THEN None
                    ELSE [spec |-> CatalogSpec(t, e),
                          version |-> Resolution(t, CatalogSpec(t, e), e[2])]],
   resolved  |-> [d \in Deps |-> {Resolution(t, Asked(t, s), d) : s \in Used(t, d)}],
   plugin    |-> IF t.plugin = None THEN None ELSE t.plugin.at]

Report(type, name, p, from, to) ==
  [type |-> type, dependency |-> name, package |-> p, from |-> from, to |-> to]

-----------------------------------------------------------------------------
(* A run *)

\* A checkout of the committed files, and the first snapshot.
StartRun ==
  /\ pc = "idle"
  /\ tree' = repo /\ before' = repo.lock
  /\ updates' = {} /\ wanted' = None /\ changes' = {} /\ broken' = {}
  /\ clean' = TRUE /\ quiet' = TRUE
  /\ pc' = "manager"
  /\ UNCHANGED <<input, repo, settled, worldVars>>

\* upgradePackageManagerStep: a failed read, query or write is a skip.
UpgradeManager ==
  LET v     == Wanted(tree.pins, input.manager, published["manager"])
      ref   == Reference(tree.pins)
      moves == v # None /\ v # ref
  IN
  /\ pc = "manager" /\ pc' = "runtimes"
  /\ \/ /\ tree' = [tree EXCEPT !.pins = Upgraded(@, v)]
        /\ wanted' = IF moves THEN v ELSE None
        /\ updates' = IF ~moves THEN updates
                      ELSE updates \cup {Report("packageManager", "manager", None,
                                                IF ref = None THEN None ELSE Exact(ref), Exact(v))}
        /\ clean' = clean
     \/ /\ input.manager # Off
        /\ clean' = FALSE
        /\ UNCHANGED <<tree, wanted, updates>>
  /\ UNCHANGED <<input, repo, before, changes, broken, quiet, settled, worldVars>>

\* upgradeRuntimesStep: one write for all runtimes; a failure is no upgrade.
UpgradeRuntimes ==
  LET to == RuntimeTo(tree.runtime, input.runtime, published["runtime"]) IN
  /\ pc = "runtimes" /\ pc' = "config"
  /\ \/ /\ tree' = [tree EXCEPT !.runtime = to]
        /\ updates' = IF RuntimeMoves(tree.runtime, to)
                      THEN updates \cup {Report("runtime", "runtime", None, tree.runtime, to)}
                      ELSE updates
        /\ clean' = clean
     \/ /\ input.runtime # Off
        /\ clean' = FALSE
        /\ UNCHANGED <<tree, updates>>
  /\ UNCHANGED <<input, repo, before, wanted, changes, broken, quiet, settled, worldVars>>

\* The version an eligible release moves the plugin to, if pnpm has one.
PluginTo(blind) ==
  IF input.pm # "pnpm" \/ tree.plugin = None THEN None
  ELSE ResolveLatest({v \in Eligible("plugin", blind) : ConfigDepUpgradeRange(tree.plugin.at, v)})

\* updateConfigDepsImpl, on pnpm: written bare, also where only the integrity
\* goes; an update whose write failed is reported all the same.
UpdateConfigDependency ==
  \E blind \in SUBSET {"plugin"}, written \in BOOLEAN :
    LET at == tree.plugin.at
        to == PluginTo(blind)
    IN
    /\ pc = "config" /\ pc' = "regular"
    /\ to # None
    /\ tree' = IF written THEN [tree EXCEPT !.plugin = [at |-> to, integrity |-> FALSE]] ELSE tree
    /\ updates' = IF to = at THEN updates
                  ELSE updates \cup {Report("config", "plugin", None, Exact(at), Exact(to))}
    /\ clean' = (clean /\ written /\ blind = {})
    /\ UNCHANGED <<input, repo, before, wanted, changes, broken, quiet, settled, worldVars>>

\* No entry, no eligible version in range, or a registry that does not answer.
SkipConfigDependency ==
  \E silent \in BOOLEAN :
    /\ pc = "config" /\ pc' = "regular"
    /\ silent \/ PluginTo({}) = None
    /\ clean' = (clean /\ ~silent)
    /\ UNCHANGED <<input, repo, tree, before, updates, wanted, changes, broken, quiet, settled,
                   worldVars>>

\* updateRegularDepsImpl: every slot of a matched dependency whose specifier
\* parses is bumped; a package's edits are written together or, when the write
\* fails, not at all, and reported either way.
UpdateRegularDependencies ==
  \E silent, blind \in SUBSET input.matched, failing \in SUBSET Packages :
    LET to(s)  == Bump(tree.manifest[s], Eligible(s[3], blind))
        moving == {s \in Slots : /\ s[2] \in WritableTypes /\ s[3] \in input.matched \ silent
                                 /\ Parses(tree.manifest[s]) /\ to(s) # tree.manifest[s]}
    IN
    /\ pc = "regular" /\ pc' = "peers"
    /\ failing \subseteq {s[1] : s \in moving}
    /\ tree' = [tree EXCEPT !.manifest =
                  [s \in Slots |-> IF s \in moving /\ s[1] \notin failing THEN to(s) ELSE @[s]]]
    /\ updates' = updates \cup {Report(s[2], s[3], s[1], tree.manifest[s], to(s)) : s \in moving}
    /\ broken' = failing
    /\ clean' = (clean /\ silent = {} /\ blind = {})
    /\ UNCHANGED <<input, repo, before, wanted, changes, quiet, settled, worldVars>>

\* The updates syncPeers looks at.
Synchronised == {u \in updates : u.type \in WritableTypes /\ input.strategy[u.dependency] # "none"}

\* One iteration of syncPeers: the peer range as the loop finds it on disk, what it
\* reports, and whether a read or a write failed.  A manifest that cannot be read is
\* passed over; an edit that fails is reported all the same.
SyncSection(acc, type, p, d, outcome) ==
  LET bumps == {u \in Synchronised : u.type = type /\ u.dependency = d /\ u.package = p}
      bump  == CHOOSE u \in bumps : TRUE
      new   == PeerRange(input.strategy[d], acc.peer, bump.from.at, bump.to.at)
  IN  IF bumps = {} THEN acc
      ELSE IF outcome[bump] = "unread" THEN [acc EXCEPT !.failed = TRUE]
      ELSE IF ~Parses(acc.peer) \/ new \in {None, acc.peer} THEN acc
      ELSE [peer    |-> IF outcome[bump] = "done" THEN new ELSE acc.peer,
            reports |-> acc.reports \cup {Report("peerDependency", d, p, acc.peer, new)},
            failed  |-> acc.failed \/ outcome[bump] = "unwritten"]

\* The updates come section by section, each against what the last one wrote.
Synced(p, d, outcome) ==
  LET acc == [peer |-> tree.manifest[<<p, "peerDependency", d>>], reports |-> {}, failed |-> FALSE]
  IN  SyncSection(SyncSection(SyncSection(acc, "dependency", p, d, outcome),
                              "devDependency", p, d, outcome),
                  "optionalDependency", p, d, outcome)

SyncPeers ==
  \E outcome \in [Synchronised -> {"done", "unread", "unwritten"}] :
    /\ pc = "peers" /\ pc' = "install"
    /\ tree' = [tree EXCEPT !.manifest =
                  [s \in Slots |-> IF s[2] = "peerDependency" THEN Synced(s[1], s[3], outcome).peer
                                                              ELSE @[s]]]
    /\ updates' = updates \cup UNION {Synced(s[1], s[3], outcome).reports : s \in Slots}
    /\ broken' = broken \cup {p \in Packages : \E d \in Deps : Synced(p, d, outcome).failed}
    /\ UNCHANGED <<input, repo, before, wanted, changes, clean, quiet, settled, worldVars>>

\* Mutant: a configuration dependency that moved is no reason to install.
InstallWithoutConfig == \E u \in updates : u.type \in Types \cup {"packageManager"}

ShouldInstall == \E u \in updates : u.type # "runtime"

Install ==
  /\ pc = "install" /\ pc' = "after"
  /\ ShouldInstall
  /\ CanInstall(tree)
  /\ tree' = [tree EXCEPT !.lock = NewLock(tree)]
  /\ UNCHANGED <<input, repo, runVars, quiet, settled, worldVars>>

SkipInstall ==
  /\ pc = "install" /\ pc' = "after"
  /\ ~ShouldInstall
  /\ UNCHANGED <<input, repo, tree, runVars, quiet, settled, worldVars>>

\* The second snapshot, and what it says moved.
Compare ==
  /\ pc = "after" /\ pc' = "commit"
  /\ changes' = CompareLockfiles(before, tree.lock, input.pm)
  /\ UNCHANGED <<input, repo, tree, before, updates, wanted, broken, clean, quiet, settled,
                 worldVars>>

Forget == updates' = {} /\ wanted' = None /\ changes' = {} /\ broken' = {} /\ before' = None

\* The commit, merged before the next run; nothing changed, nothing committed.
Land ==
  /\ pc = "commit" /\ pc' = "idle"
  /\ repo' = tree
  /\ settled' = (quiet /\ clean /\ broken = {} /\ Gate(tree) = Gate(repo))
  /\ clean' = TRUE /\ quiet' = TRUE
  /\ Forget
  /\ UNCHANGED <<input, tree, worldVars>>

\* A step fails the job, the install among them, or the commit is not merged.
Discard ==
  /\ pc # "idle" /\ pc' = "idle"
  /\ tree' = repo
  /\ clean' = TRUE /\ quiet' = TRUE
  /\ Forget
  /\ UNCHANGED <<input, repo, settled, worldVars>>

-----------------------------------------------------------------------------
(* The rest of the world *)

Publish(n) ==
  \E v \in Releases[n] \ published[n] :
    /\ events < MaxEvents /\ events' = events + 1
    /\ published' = [published EXCEPT ![n] = @ \cup {v}]
    /\ young' = IF n \in Gated THEN [young EXCEPT ![n] = @ \cup {v}] ELSE young
    /\ quiet' = FALSE /\ settled' = FALSE
    /\ UNCHANGED <<input, repo, tree, pc, runVars>>

\* Time passes: nothing is younger than the window any more.
Mature ==
  /\ \E n \in Names : young[n] # {}
  /\ young' = [n \in Names |-> {}]
  /\ quiet' = FALSE /\ settled' = FALSE
  /\ UNCHANGED <<input, repo, tree, pc, runVars, published, events>>

Edit(files) ==
  /\ pc = "idle" /\ repo # files
  /\ events < MaxEvents /\ events' = events + 1
  /\ repo' = files
  /\ settled' = FALSE
  /\ UNCHANGED <<input, tree, pc, runVars, quiet, published, young>>

EditSlot(s, declared) == Edit([repo EXCEPT !.manifest[s] = declared])

EditEntry(e, spec) == Edit([repo EXCEPT !.catalogs[e] = spec])

\* Somebody installs, and commits the lockfile their edits call for.
Relock ==
  /\ pc = "idle" /\ CanInstall(repo) /\ repo.lock # NewLock(repo)
  /\ repo' = [repo EXCEPT !.lock = NewLock(repo)]
  /\ settled' = FALSE
  /\ UNCHANGED <<input, tree, pc, runVars, quiet, worldVars>>

-----------------------------------------------------------------------------
Init ==
  \E start \in Starts :
    /\ input = start.input
    /\ published = Published0 /\ young = [n \in Names |-> {}] /\ events = 0
    /\ start.locked => CanInstall(start.repo)
    /\ repo = [start.repo EXCEPT !.lock = IF start.locked THEN NewLock(start.repo) ELSE None]
    /\ tree = repo /\ pc = "idle" /\ before = None
    /\ updates = {} /\ wanted = None /\ changes = {} /\ broken = {}
    /\ clean = TRUE /\ quiet = TRUE /\ settled = FALSE

RunStep ==
  \/ StartRun \/ UpgradeManager \/ UpgradeRuntimes
  \/ UpdateConfigDependency \/ SkipConfigDependency
  \/ UpdateRegularDependencies \/ SyncPeers
  \/ Install \/ SkipInstall \/ Compare \/ Land \/ Discard

WorldStep ==
  \/ \E n \in Names : Publish(n)
  \/ Mature
  \/ \E s \in Hand.slots, declared \in Hand.specs : EditSlot(s, declared)
  \/ \E e \in Hand.entries, spec \in Hand.ranges : EditEntry(e, spec)
  \/ Relock

Next == RunStep \/ WorldStep

Spec == Init /\ [][Next]_vars

-----------------------------------------------------------------------------
(* Properties *)

(* Every variable keeps its type; a lookup that found nothing never leaves a
   field without a version. *)
TypeOK ==
  /\ input \in Inputs
  /\ repo \in Trees /\ tree \in Trees
  /\ pc \in {"idle", "manager", "runtimes", "config", "regular", "peers", "install",
             "after", "commit"}
  /\ before \in Locks \cup {None}
  /\ updates \subseteq Reports
  /\ wanted \in Numbers \cup {None}
  /\ broken \subseteq Packages
  /\ clean \in BOOLEAN /\ quiet \in BOOLEAN /\ settled \in BOOLEAN
  /\ published \in [Names -> SUBSET Versions] /\ young \in [Names -> SUBSET Versions]
  /\ events \in 0..MaxEvents

\* Does the update admit a version the install of the run's files may take?
Installs(u) == Resolution(tree, u.to, u.dependency) # None

(* The release-age gate is mirrored when versions are resolved so that no update
   is proposed that the install would refuse (regular-deps.ts:287-288,
   docs/02-configuration.md, Release-age gating): unless publish times could not
   be read, every bump of a manifest to a version it includes still admits a
   version pnpm installs, whatever is published or matures before the install.
   The gate is the one of before the run: where the plugin moves to a version that
   sets a window and there was none, the install may refuse the bump. *)
BumpsInstall ==
  clean /\ (Gate(tree) => Gate(repo)) =>
    \A u \in updates : u.type \in WritableTypes /\ u.to.op \notin {">", "<"} => Installs(u)

\* Under a strict upper bound every run finds a lower version: `<` never rests.
BoundedBelow(t) ==
  \A s \in Slots : s[2] \in WritableTypes /\ s[3] \in input.matched /\ Parses(t.manifest[s]) =>
                     t.manifest[s].op # "<"

(* Runs converge: over files that a run which met no fault and left the release-age
   gate as it was has landed, with nothing published, matured or edited since it
   began, a run reports nothing and leaves every file as it is, suffixes, peers and
   lockfile included.  A workspace with a matched `<` specifier never settles, and is
   left out. *)
Settles ==
  pc = "commit" /\ settled /\ clean /\ broken = {} /\ BoundedBelow(repo) =>
    updates = {} /\ changes = {} /\ tree = repo

InStep(t) ==
  /\ t.lock # None
  /\ t.lock.importers = Recorded(t)
  /\ t.plugin # None => t.lock.plugin = t.plugin.at
  /\ \A e \in Entries : t.lock.entries[e] # None => t.lock.entries[e].spec = CatalogSpec(t, e)

LandsInStep == Land /\ InStep(repo) => InStep(repo')

(* A commit never leaves the lockfile behind: where it agreed with the manifests,
   the plugin and the catalogs before the run, it does in what the run commits,
   whichever steps reported, and whichever writes failed behind a report. *)
LockfileKeepsUp == [][LandsInStep]_vars

\* A field that was there is still there: under its own operator, where it was or
\* at the version to activate.
FieldKept(field, op, kept) ==
  field # None =>
    /\ kept # None
    /\ kept.op = op
    /\ kept.at = IF wanted' = None THEN field.at ELSE wanted'

PinsAgree ==
  UpgradeManager =>
    /\ FieldKept(tree.pins.packageManager, tree.pins.packageManager.op, tree'.pins.packageManager)
    /\ FieldKept(tree.pins.devEngines, tree.pins.devEngines.op, tree'.pins.devEngines)
    /\ wanted' # None /\ input.manager = Automatic =>
         /\ Older(Reference(tree.pins), wanted')
         /\ wanted'[1] = Reference(tree.pins)[1]

(* The two package manager fields move together and only forward: when the pin
   moves, every field there was is still there, bare, at the version handed to the
   activation, and in auto mode above the reference and within its major; when it
   does not, neither field changes its version. *)
PinsMoveTogether == [][PinsAgree]_vars

\* Does the peer range follow the one slot that declares the dependency?  Runs
\* lower an upper bound, and peer-minor follows no version down.
Follows(t, p, d) ==
  LET peer == t.manifest[<<p, "peerDependency", d>>]
      own  == {s \in Slots : s[1] = p /\ s[3] = d /\ s[2] \in WritableTypes
                             /\ Parses(t.manifest[s])}
  IN  /\ Parses(peer)
      /\ \E s \in own :
           LET spec == t.manifest[s] IN
           /\ own = {s}
           /\ \/ input.strategy[d] = "lock" /\ peer.at = spec.at
              \/ /\ input.strategy[d] = "minor" /\ spec.op \notin {"<", "<="}
                 /\ peer.at = <<spec.at[1], spec.at[2], 0>>

(* A peer range that follows its dependency keeps following it over any number of
   runs: on every version under peer-lock, to the .0 of every new minor or major
   under peer-minor.  Only a read or write of the package's manifest that failed can
   break it. *)
PeersFollow ==
  [][Land => \A p \in Packages \ broken, d \in Deps :
               Follows(repo, p, d) => Follows(repo', p, d)]_vars

SameSlot(u, w) ==
  w.type = u.type /\ w.dependency = u.dependency /\ w.package = u.package

(* What a run reports of the manifests is what the lockfiles say: where the
   lockfile agreed with the committed manifests, every reported bump, and with bun
   every synced peer, whose write went through is a change of that dependency, in
   that section of that package, to the reported specifier.  A peer range synced to
   two sections in turn is reported twice and may end where it was; it is left out,
   and so are pnpm's peers, which its lockfile does not record. *)
ReportsMatchLockfile ==
  pc = "commit" /\ InStep(repo) =>
    \A u \in updates :
      /\ u.type \in WritableTypes \/ (u.type = "peerDependency" /\ input.pm = "bun")
      /\ u.package \notin broken
      /\ \A w \in updates : SameSlot(u, w) => w = u
      => \E c \in ChangesOf(changes, u.package) :
           c.type = u.type /\ c.dependency = u.dependency /\ c.to = u.to

\* What a snapshot says of a slot, catalog entries looked up.
Means(lock, s) ==
  IF IsRef(lock.importers[s])
  THEN Normal(lock, input.pm)[<<lock.importers[s].at, s[3]>>]
  ELSE IF lock.importers[s] = None THEN None
  ELSE [spec |-> lock.importers[s], version |-> None]

(* Changes are attributed to exactly the slots that moved.  A slot whose meaning
   moved has a change, unless it became a catalog reference or its new version is
   ambiguous; a change is about a slot that moved; and a version it names for a
   dependency that is installed is the one the catalog entry resolved to. *)
ChangesAreAttributed ==
  pc = "commit" /\ before # None /\ tree.lock # None =>
    /\ \A s \in Slots :
         LET b == Means(before, s)
             a == Means(tree.lock, s)
             became == IsRef(tree.lock.importers[s]) /\ before.importers[s] # tree.lock.importers[s]
             unsure == SpecOf(b) = SpecOf(a) /\ VersionOf(a) = None
         IN  b # a /\ ~became /\ ~unsure =>
               \E c \in ChangesOf(changes, s[1]) : c.type = s[2] /\ c.dependency = s[3]
    /\ \A c \in changes : \A p \in c.affected :
         LET s == <<p, c.type, c.dependency>> IN
         \/ before.importers[s] # tree.lock.importers[s]
         \/ Means(before, s) # Means(tree.lock, s)
    /\ \A e \in Entries : \A s \in Consumers(tree.lock, e) : \A c \in ChangesOf(changes, s[1]) :
         c.type = s[2] /\ c.dependency = s[3] /\ before.importers[s] = tree.lock.importers[s]
           /\ s[2] \in WritableTypes /\ c.to \notin {SpecOf(tree.lock.entries[e]), Removed} =>
             c.to = Exact(tree.lock.entries[e].version)

-----------------------------------------------------------------------------
(* What a comment says and the program does not do *)

(* The release-age gate is mirrored so that a step never writes a specifier whose
   floor pnpm would refuse to install (regular-deps.ts:287-288), whatever the
   operator of the specifier. *)
EveryBumpInstalls ==
  clean => \A u \in updates : u.type \in WritableTypes => Installs(u)

(* The action applies the gate pnpm applies at the install, so that it never proposes
   a version pnpm would refuse (release-age.ts:5-7), whatever the run moved before. *)
NoBumpRefused ==
  clean => \A u \in updates : u.type \in WritableTypes /\ u.to.op \notin {">", "<"} => Installs(u)

=============================================================================
