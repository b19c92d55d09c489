# A formal model of silk-update-action

The action updates the dependencies of a repository on a schedule: it resets a dedicated branch,
upgrades what its inputs select, installs, runs commands, commits through the GitHub API and opens
or updates one pull request. The modules here model what is hard to test in it: runs that overlap,
people who push, merge and close between two of its calls, steps that fail, hang or are cut off,
outputs that are published one after another, and what many runs in a row make of the files of a
repository while its registry moves. Paths are relative to the repository; the implementation is
`src/**/*.ts`.

## Inventory

| component | state it keeps | operations | what makes it correct |
|---|---|---|---|
| update branch (`services/branch.ts`, `steps/branch.ts`) | the branch on GitHub, the local checkout | validate, foreign-commit check, reset, checkout, commit, resync | a person's commit is not discarded; a commit is not overwritten; the branch can always be updated again |
| pull request (`services/report.ts`, `steps/commit-and-pr.ts`) | one open pull request, its managed region, auto-merge | list, upsert, enable auto-merge | a landed commit gets its pull request; auto-merge is earned; prose survives; dry runs are quiet |
| run pipeline (`program.ts`, `steps/*.ts`, `schema/outputs.ts`) | the working tree, the check run, five outputs | thirty steps in a fixed order, four exits, failure, timeout | every exit tells one story; nothing untested is committed; the run ends |
| package manager and runtime upgrade (`services/package-manager-upgrade.ts`, `services/runtime-upgrade.ts`) | two pins and `devEngines.runtime` in `package.json` | read the reference, resolve, rewrite | both pins name one version, in its range; a current pin is left alone |
| activation (`steps/activate-package-manager.ts`) | a directory ahead of PATH | provision | installs and commands run under the pinned manager |
| config dependencies of pnpm (`services/config-deps.ts`) | `pnpm-workspace.yaml` | resolve, strip the integrity, rewrite | an edit is followed by an install, and is not found again |
| catalog config dependencies of bun (`services/catalog-config-deps.ts`, `utils/catalogs.ts`, `services/module-catalogs.ts`) | the catalogs of the root manifest | read, fetch, merge in listed order, write once | a user's range survives, an upstream change or removal is followed, what is written reads back |
| regular dependencies and peer sync (`services/regular-deps.ts`, `services/peer-sync.ts`) | every `package.json` | collect, gate by age, resolve, rewrite | what is written can be installed; a peer range keeps following its dependency |
| release age gate (`services/release-age.ts`) | the gate, cached | filter versions | nothing is proposed that pnpm refuses; fails open |
| install and its retries (`steps/install.ts`, `utils/unmatched-retry.ts`) | the lockfile | clean and install, wait, again | only an unmatched version is retried, from a clean slate, within the timeout |
| lockfile comparison (`services/lockfile.ts`) | two snapshots | read, compare | every move is attributed to the slots that moved, and to no other |
| peer gate (`steps/peer-check.ts`, `utils/peers.ts`) | memoized catalogs and discovery | refresh, check, decide | fails closed |
| changesets and base history | `.changeset/`, the local history | fetch, deepen, regenerate | a merge base is there before it is needed |
| token lifecycle (`pre.ts`, `main.ts`, `post.ts`) | the token and the start time in the runner's state | provision, use, revoke | revoked on every path |
| inputs (`schema/inputs.ts`) | - | parse, cross-check | a malformed input stops the run before it changes anything |
| workspace file formatting, rendering, wiring | - | layout, text, layers | - |

The components interact inside one run by direct calls in the order of `program.ts`; the three
phases of a job interact through the action's state; runs interact with each other and with people
through GitHub (the source branch, the update branch, the pull request), with no lock between them,
and through the files one run commits and the next one reads. The documented workflow has a
schedule and a manual trigger and no concurrency group. The hard behaviours are the check-then-act
pairs on GitHub, state of the pull request that outlives a run, effects published before anything
says so, failures that degrade to warnings while the report goes on, and provenance that is not
stored: which catalog entry is the action's is guessed anew by every run. `PROJECT.json` lists them
as hazards, each at its line.

## Modules

| module | models | uses |
|---|---|---|
| `UpdateBranch` | the update branch and its pull request, shared by runs, people and GitHub | |
| `UpdateBranchProofs` | theorems about it | `UpdateBranch` |
| `RunReport` | abstract: what a workflow may rely on when it reads `has-changes` | |
| `UpdateRun` | one run of the main phase, step by step | `RunReport` (implemented) |
| `UpdateRunProofs` | theorems about it | `UpdateRun` |
| `CatalogMerge` | catalog maps, their merges, and the three places the manifest keeps them | |
| `CatalogRuns` | bun config dependencies over many runs, the registry and people | `CatalogMerge` |
| `CatalogRunsProofs` | theorems about it | `CatalogRuns` |
| `ActionJob` | a job: pre, main, post, its token; and main's installs, package manager and peer gate | |
| `ActionJobProofs` | theorems about it | `ActionJob` |
| `Specifiers` | versions, specifiers, the ranges they are resolved in, peer ranges | |
| `ToolPins` | the package manager and runtime pins and how they move | `Specifiers` |
| `LockfileDiff` | the comparison of two lockfile snapshots | `Specifiers` |
| `WorkspaceRuns` | the update steps on the files of a workspace, run after run | `ToolPins`, `LockfileDiff` |
| `WorkspaceRunsProofs` | theorems about it: what a step writes, the pins, the lockfile of a commit | `WorkspaceRuns` |
| `WorkspaceReportsProofs` | what a run says of what it did: changes, reports, peers | `WorkspaceRunsProofs` |
| `WorkspaceSettlesProofs` | convergence of runs | `WorkspaceReportsProofs` |
| `MCUpdateBranch`, `MCUpdateRun`, `MCCatalogRuns`, `MCActionJob`, `MCWorkspaceRuns` | instances for TLC | |

The five state machines share no variables. Each looks at a run at the grain its hazards need:
`ActionJob` sees phases and leaves the inside of main to `UpdateRun`; `UpdateRun` sees steps and
outputs, and knows of an update only that it is reported or edited; `WorkspaceRuns` and
`CatalogRuns` see what the updates write, and take for granted that what a run commits is merged or
thrown away; `UpdateBranch` sees how it is merged or lost.

### UpdateBranch

`source` counts the moves of the source branch; `branch` is the update branch as the source sha it
was set to and the commits on top of it, a run's commit being named by the run; `pr` is the last
pull request from it, with its state, auto-merge, the run whose report it shows and the edits
people made outside the managed markers. Each run has a program counter `pc` with one value per
call to GitHub, and what it has read: `seen` (the compare of the foreign-commit check), `base` (the
source sha), `snap` (the head `commitFiles` builds on), `prior` (the description), `withheld` (the
verdict of the peer gate). `pushed`, `lost`, `cleared` and `landed` are history variables that only
the properties read.

The actions of a run follow `branchStep`, `manageBranchImpl`, `commitAndPrStep`,
`commitChangesImpl` and `createOrUpdatePRImpl` in their order; an await on GitHub is where one
action ends and the next begins. `commitFiles` is two actions, because the kit reads the head and
then moves the ref without force, so GitHub refuses what is not a fast-forward. The update steps
are one opaque step with the outcomes of `program.ts` (nothing to do, or changes and a verdict of
the gate). `Abort` ends a run before any call: a fatal error, the timeout, a cancellation. People
push, edit, close, merge and delete, and the source moves, at any moment; these actions are
external. GitHub may close a pull request whose branch was reset to its base, or not: both are
allowed. A run that can tell its own commits has an App identity (`HasIdentity`); `ownAuthor`
degrades to none, and the check is then skipped.

### UpdateRun

One run, from the baseline of its outputs to the end of the job. The state is what later steps and
readers can tell apart: which kinds of update were `reported`, which manifest edits are `stale` (no
install has followed them), whether git status lists an entry (`tree`) and the lockfile `moved`,
what the run published (`landed`, `opened`), the conclusion it `recorded` and the check run on
GitHub, and each output. An update step chooses what it reports and what it edits within what its
code allows; the two differ, because a failed write is a warning while the updates are reported,
and because an integrity may be stripped or a catalog merged with no update. Every exit of
`innerProgram` is the same sequence of calls (conclude, has-changes, updates-count, the pull
request's outputs, the document, the summary) with values that depend on the `path`. The baseline
is one action: a crash among its five writes leaves outputs unset that GitHub treats as empty.

`Fail` ends the program at any step that may fail, `Timeout` at any step under the timeout, `Kill`
anywhere; each may leave a commit or a pull request that GitHub carried out although the call did
not return (`InFlight`). `withCheckRun` is the kit's: it completes the check run with the recorded
conclusion, or with what the exit implies; a completion that fails is ignored after a failure and
fails a run that had succeeded. The steps that cannot fail (`NeverFails`) are those whose errors
the code turns into warnings.

`RunReport` is what a workflow may rely on: `has-changes` has a value before any work, it is never
taken back, nothing is published once it is true, and a run that succeeds without setting it has
published nothing. A run that fails may have published more than it says. `UpdateRun` implements
it with the commit and the pull request as the published work; the property is `KeepsContract`.

### CatalogMerge and CatalogRuns

A catalog map gives each entry (a catalog and a dependency) a range or nothing, and each merge of
the code is an operator on such maps: `Over` (plugin wins), `ThreeWay`, `OverlayOwned`. A manifest
keeps entries in three places; `ReadManifest` and `WriteCatalogs` are how they are read and where
they are put.

`CatalogRuns` is `updateImpl` over many runs: it reads the manifest (`StartRun`), goes through the
listed dependencies (`MergeDep`, or `SkipDep` for whatever cannot be read), writes once
(`WriteManifest`), and what it made is merged (`Land`) or not (`Discard`). The world publishes and
unpublishes releases, and people edit entries in any place, move specifiers and lose the lockfile.
The program stores nothing about which entry is whose; it diffs with the release the lockfile
names. The history variables know: `author` whose an entry is, `merged` which release was merged
last, `drift` that the lockfile came to name another one, `lossy` that a base was gone and the
plugin's entries were taken. The properties are stated with them, so each says under what
circumstances the guess is right. The install that follows is bun's; here it may keep what is locked
or resolve anew, so that no property rests on which. (`WorkspaceRuns`, where the version an install
takes is what the properties are about, takes `src/steps/install.ts:46` at its word: `--force`
resolves anew.)

A dependency is taken to be listed once (`ListedOnce`): the input does not enforce it. Edits of the
pull request while it is open are left out; people edit between runs.

### ActionJob

`pre` saves the start time and provisions a token, `main` runs, `post` reads the start time and
revokes. A phase that fails or is cancelled (`Cancel`) is followed by post; a lost runner is not.
`excused` records what keeps the token from being revoked: the runner was lost, the token was
minted but could not be saved or revoked, GitHub did not answer, or the start time does not decode,
in which case post fails before it gets to the token (only defects are caught there).

Of main it models the attempts of the install (`Clean`, `InstallSucceeds`, `InstallFails`, `Retry`,
`GiveUp`), with what the lockfile is made of, the seconds waited, which manager is first on PATH
(`binDir`) and which one wrote the lockfile; and the peer gate with what the two memoizing services
remember (`rules`, `members`) against what is on disk (`world`). `input.script` is a clean or purge
script of the workspace's own, which `pnpm clean` runs in place of the built-in
(`src/steps/install.ts:43`): what it does with the lockfile is its business, so `Clean` then leaves it
or removes it. `Activate` has both answers of the installer: one from the tool cache puts its
directory ahead of PATH, one from the runner's manager leaves PATH as it was. Which answers there
are is the kit's contract (`Installer`): the ambient one only if the step allows it (`AllowAmbient`),
and the step does not. A failing lookup is a choice of
`PeerCheck`; the report counts right only when everything was read and is of the updated workspace.

### Specifiers, ToolPins, LockfileDiff and WorkspaceRuns

A version is a triple, a specifier an operator and a version; `Bump`, `PeerRange`, `Upgraded` and
`RuntimeTo` are what the services write. `LockfileDiff` has the lockfile as the services read it,
and its two comparisons.

`WorkspaceRuns` has the files of a workspace (`repo`, and `tree` in a run) and one action for each
update step, in the order of `program.ts`, each with the lookups that may fail (`silent`), publish
times that cannot be read (`blind`) and writes that fail behind a report (`failing`, `written`). Each
edit of the peer sync has an outcome of its own: its manifest could not be read, and the peer is passed
over without a report; it could not be written, and the peer is reported all the same; or it was done.
`broken` has the packages a read or a write of which failed.

There is a release-age window (`Gate`) if `pnpm-workspace.yaml` sets one, or if the hook of the plugin
does at the version it is at (`Strict`). The action assembles its gate on first use, with the
committed plugin, and keeps it for the run, so `Eligible` reads `repo`; the install runs the plugin
the run moved to, so `Resolution` is asked of `tree`. The two differ when the run moves the plugin
into or out of a window.

The install is the package manager's: it fails unless everything has a version to install, and writes a
full resolution. What a lockfile says of the manifests is `Recorded`: bun's has every section, pnpm's
importers have no peers. `updates` is what the steps report, `changes` what the comparison finds.
`Publish`, `Mature`, `EditSlot`, `EditEntry` and `Relock` are the world. `clean`, `quiet`,
`settled` and `broken` are what the properties need to know of faults and outside events.

## Runs

| run | instance | shows |
|---|---|---|
| `BranchOverlap` | two runs, two human commits, one move of the source, dry and real runs, symmetry | no overlap, push, merge, close, deletion or failure makes a run discard a commit it saw, overwrite one, publish from a dry run or leave auto-merge that no run has earned |
| `BranchSchedule` | one run repeated for ever, one human commit, one edit | once runs stop failing, a commit without a pull request gets one, deleting the branch unblocks it; prose that was there when a run read the description stays |
| `RunSteps` | three package managers, all inputs | edits are installed before they are committed, a successful job tells one story, `RunReport` is implemented, the run ends |
| `CatalogRuns` | two dependencies of two releases, one on 0.x, one entry, two ranges, two outside events, symmetry | users' ranges survive, the action's entries follow their releases, an entry goes only where the base of the dependency that moves shipped it as it is, the manifest reads back as merged |
| `ActionJob` | three package managers, three gate modes, three timeouts, 0, 1, 2 and 5 retries | the token is revoked, an install whose lockfile the step itself removes starts from none, what runs after the pin moved runs under the pinned manager, the gate passes only what it verified, the waits fit, the job ends |
| `WorkspaceRuns` | four workspaces of two packages, one dependency, one catalog, two outside events | bumps can be installed behind the gate they were resolved behind, runs settle, reports match the lockfile, changes are attributed, the lockfile keeps up, pins and peers move together |
| `BranchPushRace` | | a push between the check and the reset is discarded |
| `BranchWithheld` | | auto-merge of an earlier run survives a run that withholds it |
| `BranchClosed` | | a closed or squash-merged pull request does not unblock the next run |
| `CatalogListed` | | the entry of the dependency listed last is frozen as an override |
| `WorkspaceAbove` | | a `>` specifier is rewritten so that nothing satisfies it |
| `WorkspaceGate` | | a plugin moved to where it sets a release-age window leaves the run's bumps to versions its install refuses |

The last six refute a sentence of the documentation or of a comment; `PROJECT.json` quotes it.

What the properties leave out, and why:
- `ReportsAgree` leaves `updates-count` out of one exit: an unchanged run lists its updates in the
  document and counts none (`src/program.ts:453`, `:466`), which the property states as the one
  disagreement there is. The comment at `:385` says there is none.
- `RemovalsNeedBase` says on whose authority an entry goes, not whose it is: an entry that another
  dependency ships with the same range, or that a user set to it, goes as well, because the code
  cannot tell them apart (see below).
- `OverridesSurvive` leaves out runs that met an unpublished base, where the code lets the plugin
  win.
- `FollowsMerged` leaves out repositories whose lockfile no longer names the release merged last, and
  entries several dependencies ship.
- `CleanSlate` leaves out pnpm workspaces with a clean script of their own, which may leave the
  lockfile, and bun, which keeps the file and resolves anew.
- `BumpsInstall` leaves out `>` and `<`, for which it fails (`WorkspaceAbove` has the witness); runs
  that put a release-age window where there was none, for which it fails too (`WorkspaceGate`); and
  runs that could not read publish times, where the gate fails open by design.
- `Settles` leaves out workspaces with a matched `<` specifier, which every run lowers (see below),
  and what a run landed that moved the gate, because the next one resolves behind another.
- `ReportsMatchLockfile` leaves out packages with a read or write that failed, a peer reported twice,
  and pnpm's peers, which its lockfile does not record.
- `PeersFollow` leaves out packages with a read or write that failed, because no later run looks at
  the peer again, and, under `peer-minor`, upper bounds, which runs lower while the peer is only ever
  raised.
- `ChangesAreAttributed` says of the version a change names only for the sections that are installed:
  a peer may refer to an entry nothing installs, and bun's lockfile then has no version for it but
  another slot's.

**Bounds.** Two runs are enough for every race of two actors on one branch: a third adds nothing
that its predecessors' actions and the people's do not do already. Two human commits let one be
seen by a check and another arrive after it. One move of the source (`MaxSource`) makes a sha that
was read stale; a merge uses it too. `BranchSchedule` keeps one run because its name is given to
the next one (`Reschedule`), so that a behaviour has any number of runs in a finite state; the
merge commit of the old one is forgotten with the name. `UpdateRun` has no bounds: its state is
finite.
`CatalogRuns`: the merges work entry by entry, so that one entry, which two dependencies may share,
is enough for every conflict; with two ranges, what disk, base and next hold can agree and differ
in every way two of them can. `MaxVersion` 2 gives each a release to move to, and `MaxEvents` 2 an
edit and a release, or two releases, or a release that is unpublished. Runs are not bounded.
`ActionJob`: `Timeouts` has one value the first wait fills to the second, one that leaves a second
of head room after five retries, and the default; the other constants are all the values there are.
`WorkspaceRuns`: the versions have a 0.x, a new patch, minor and major, so that every operator has
a version inside and one outside; the four workspaces (`SomeStarts`) are pnpm with a configuration
dependency, suffixes, a catalog reference and `peer-minor`; bun with a dependency in two sections,
an explicit range that adds a pin, and `peer-lock`; one without a lockfile whose pins name
different majors; and one of upper bounds under `peer-minor`. `MaxEvents` 2 lets a version be published while a run is at work and an edit
precede the next. Runs are not bounded. In `WorkspaceRuns` and
`WorkspaceGate` the plugin's hook sets a window from 1.0.0 on (`Windowed`), so that the move from 0.x
enters it. `WorkspaceAbove` needs one workspace and no event, `WorkspaceGate` one of each: the plugin
moves to 1.0.0 and the event publishes the young version.
A workspace that has a lockfile is one its package manager could install (`CanInstall` in `Init`).

**Symmetry** is used in `BranchOverlap`, `CatalogRuns` and `CatalogListed` only, where nothing is a
liveness property and nothing in the specification tells two runs, two commits or two ranges apart.

**Deadlock** is not checked where the system stops: all runs have ended, or the one run or job has.
In `BranchSchedule`, `CatalogRuns` and `WorkspaceRuns`, where another run can always start, it is.

**Fairness.** `UpdateBranch`: the schedule keeps firing and a run that has started does not stop
for ever between two calls, because the timeout ends it. People and GitHub owe nothing. The two
liveness properties assume in addition that from some time on runs neither fail nor find nothing
to do: without that a repository whose registry is down never gets its pull request.
`UpdateRun`: the local steps before the timeout starts end, the timeout fires, and the completion
of the check run returns or fails. Every step under the timeout may hang for ever.
`ActionJob`: the runner carries each phase on (`WF_vars(Pre \/ Main \/ Post)`). An install that hangs
(`hung`) has no step of its own but the timeout's, which is an action of main.
`CatalogRuns` and `WorkspaceRuns` state none: what they promise of later runs is said of the runs
there are.

## Proofs

The theorems hold for any sets of runs, human commits and edits, any bound on the source, any
inputs, any dependencies, releases, ranges, packages and starting files. The only assumptions are
the named ones of the modules: types, and that values which mean "none" differ from the others.
(`SpecsAssumption`, `PinsAssumption` and `LocksAssumption` are of that kind: the code's null is no
specifier, no pin, no catalog reference and no lockfile entry.) Two say more. `ListedOnce` is
explained above; `VersionsAssumption` says that a nonempty set of the versions published has a
highest one, which holds of any finite set. What is assumed of the world outside is in its actions;
`PinnedManagerAlways` rests on one such contract, that the kit's installer does not answer from the
runner's manager when told not to.

`UpdateBranchProofs`:
- `TypeCorrect`, with `ClosedType` for the pull request that GitHub closes.
- `SeenWorkIsSafe` (`SeenWorkSurvives`). Alone it is not inductive: it must know that a run between
  its check and its reset has seen no human commit (`SeenInv`), because the check would have
  stopped it. The reset then only discards commits outside `seen`.
- `CommitsAreSafe` (`CommitsLeaveByReset`), an action property: every action but the reset and the
  deletion keeps the commits; `UpdateRef` does because a fast-forward contains the branch it moves.
- `DryRunIsQuiet` and `AutoMergeIsEarned` rest on `PublishInv`, which says where a dry run can be
  and that a run about to enable auto-merge was not withheld.
- `SettledProseIsSafe` (`SettledProseStays`), an action property: an edit is settled once every run
  that is going to write has read it, and the write puts back what was read.

`UpdateRunProofs`:
- `Flow` is the inductive account of where the run is, what it has said and what it can have
  published; `TypeStep` and `FlowStep` preserve it and the types together.
- `EditsAreInstalled` (`ReportedEditsInstalled`): before the install nothing has landed (`Flow`),
  the install leaves no edit, and without it nothing it follows was reported (`EditsInv`).
- `ReportsAreOne` (`ReportsAgree`): each part of the report is fixed from the step that publishes
  it until the program returns (`ReportInv`), and only a program that returned succeeds. The count is
  the document's on three of the exits, and none on the unchanged one.
- `RunImplementsReport` (`KeepsContract`): the refinement of `RunReport`, one case per action.

`CatalogRunsProofs`:
- `WhatIsWrittenReadsBack` (`ReadBack`). Inductive together with `AtRest` (between runs the tree is
  the repository) and `Pending` (in a run, as long as nothing counts as changed, the merged catalogs
  are the manifest's): that is why not writing is right when there is nothing to write.
- `RemovalsAlwaysNeedBase` (`RemovalsNeedBase`), from `RouteRemovesOnBase`: `OverlayOwned` only adds to the
  base what the next release ships, so that an entry `next` omits is removed on the base alone.
- `OverridesAlwaysSurvive` (`OverridesSurvive`): in addition, what counts as contributed in this run
  a release ships (`OwnedShipped`), so that no entry of a user's is taken for an earlier plugin's.
- `EntriesFollowReleases` (`FollowsMerged`): `Followed` carries it through a run, where a dependency
  still to be merged has the base it was merged at last time, one that was has its new release, and
  the entries of one are not touched by another's merge (`RouteLeavesOthers`, `RouteFollows`).

`ActionJobProofs` has one invariant, `IInv`, with a part for each place of the state:
- `TokensAreRevoked` from `TokenPlace`: a live token is in the action's state or excused.
- `InstallsAreClean` (`CleanSlate`) from `SlatePlace`: where the step itself removes the lockfile, an
  attempt under way has none but its own, whatever the ones before it left.
- `PinnedManagerAlways` (`PinnedManagerWrites`) from `ManagerPlace`: from the activation on the pinned
  directory is there, because the step does not allow the ambient answer.
- `GateNeverGuesses` from `GatePlace`: what the gate judged does not change after it.
- `WaitsAlwaysFit` (`WaitsFit`) from `WaitPlace`: the seconds waited are those of the retries made,
  and inputs whose waits do not fit are refused. Both are sums of the same delays, one of them a
  recursive function; `WaitSecondsIs` shows that function to exist and to be `SumTo`, by induction
  over the naturals, which is proved here from the least element of a set (`LeastNumber`), so that no
  operator has to be passed to a theorem.

`WorkspaceRunsProofs`:
- `TypeCorrect` rests on lemmas about every operator that writes (`BumpIs`, `PeerRangeIs`,
  `UpgradedIs`, `RuntimeIs`, `NewLockIs`, `SyncedIs`): it says that nothing written is a hole.
- `PinsAlwaysMoveTogether` (`PinsMoveTogether`) from `UpgradedIs`, case by case of the fields there.
- `BumpsCanBeInstalled` (`BumpsInstall`): a bump admits its own version (`AdmitsItsVersion`, for all
  operators but two), which the gate of the committed files let through. The invariant `Proposable`
  says so of those files, not of the checkout, because they are what the gate was assembled from;
  what they admit they go on admitting (`RepoResolutionStays`: nothing published matures backwards),
  and behind no stricter gate the checkout does as well (`ProposableInstalls`).
- `LockfileAlwaysKeepsUp` (`LockfileKeepsUp`): until the install, either a report calls for it or
  the files are as they were but for suffixes (`Untouched`); after it, the tree is in step
  (`Caught`). The point is that every edit of a step is behind a report, and a report without its
  edit does no harm.

`WorkspaceReportsProofs`:
- `ChangesAlwaysAttributed` (`ChangesAreAttributed`). The comparison itself is a matter of lemmas about
  any two lockfiles (`CatalogChangesAre`, `ChangeComesFrom`, `ChangeHasMovedSlot`,
  `ChangeNamesVersion`); the invariants are that `changes` is the comparison of the two snapshots
  (`Compared`) and that a lockfile has, for the entries its slots install, the version it resolved
  their names to (`LocksResolve`), without which a change could name another.
- `ReportsAlwaysMatchLockfile` (`ReportsMatchLockfile`). `Reported` follows a report from the step that
  makes it: the committed manifest says something else at its slot, and the checkout says what was
  reported. The loop of `syncPeers` is where this is not obvious: `SectionDid` says what one section
  that failed at nothing did, `Accounted` what the ranges and reports of a package are after any of its
  sections, and the slots reported twice fall out.
  `Caught` then takes the checkout's manifest to what the lockfile records of it.
- `PeersAlwaysFollow` (`PeersFollow`). Slot by slot, the regular step either bumped and reported once or
  left things alone (`SlotBySlot`); where a peer followed the one slot that declares its dependency,
  it follows from the peer step on (`StillFollow`). `peer-minor` needs that a bump never goes down
  (`BumpsGoUp`), which is where `<` and `<=` are lost.

`WorkspaceSettlesProofs`:
- `RunsAlwaysSettle` (`Settles`). The heart is that each service is idempotent under one registry:
  `ManagerRests`, `RuntimeRests`, `PluginRests` and `BumpRests` say that what it wrote it would leave
  alone, suffixes included. For specifiers this rests on ranges that narrow: what the range of the
  result admits the first range admitted (`CaretNarrows`, `UpgradeRangeNarrows`, the caret on 0.x
  widened to 1.x among them), and it is not older (`LatestOfFewer`). `BumpRests` fails for `<` alone.
  Then `Rested` carries it through a run that met no fault, `RestsWhenSettled` through the commit, and
  `Steady` says that the next run moves nothing and reports nothing; with no report no install runs,
  and the comparison of a lockfile with itself is empty (`NothingMoved`). A run that leaves the gate as
  it was hands the next one the gate it resolved behind, which is why `settled` asks for it.

Only model-checked: `NextRunUpsertsPr`, `DeletingUnblocks`, `RunEnds` and `JobEnds`, which are
liveness under fairness and out of the prover's reach. Every invariant and every action property a
passing run checks has a theorem.

## Also seen

Disagreements met while modelling that have no run of their own:
- `updates-count` is `"0"` on the neutral exit while the document lists all updates
  (`src/program.ts:453`, `:466`), although the comment at `:385` calls them the same fact.
- After a failed command `updates-count` is the number of updates (`:391`);
  `docs/05-execution-phases.md:141` says 0.
- A run that opens its pull request and is then timed out reports `has-changes: false`, the false
  statement that the comment at `src/program.ts:101` rules out. `RunReport` allows it.
- A malformed input fails before the check run exists (`src/program.ts:110`);
  `okf/interfaces/action-inputs.md:38` says it fails the check run.
- An integrity stripped from a current entry is an edit without an update, so no install follows
  it (`src/services/config-deps.ts:174`), although the log line says the lockfile records it.
- A pull request may describe a run that committed nothing (`src/services/branch.ts:344`);
  `src/steps/commit-and-pr.ts:5` says it describes a commit that exists.
- An edit of the description made while a run is between reading and writing it is lost
  (`src/services/report.ts:178`); the comment at `:146` says it survives. `SettledProseStays` says
  what does.
- `has-changes` is true when nothing was committed or the pull request could not be written
  (`src/program.ts:559`); `docs/02-configuration.md:398` says it means both.
- A run that fails after detection publishes a document whose `packageManager` is null
  (`src/program.ts:353`); `docs/02-configuration.md:391` says null means none was detected.
- The comment at `src/services/catalog-config-deps.ts:212` calls the locked release the one merged
  last run. A release published between the merge and the install, or a dependency that was skipped
  while the install relocked it, makes them differ, and the action's entries are then kept as
  overrides for good (`drift`).
- With the lockfile gone and a caret specifier the base resolves to the version to move to, and no
  entry moves. A later plugin that drops an entry removes it although an earlier one ships the same
  value. Entries another run wrote are reported as kept. A malformed catalog section reads as empty
  and is deleted. Moved catalogs alone do not call for an install (`src/program.ts:353`).
- A dry run resets the update branch, or creates it (`src/steps/branch.ts:92`);
  `docs/02-configuration.md:312-313` says that it does not push.
- A clean script of the workspace's own may leave the lockfile (`src/steps/install.ts:43`), and the
  install is then not from a clean slate, which `:33-37` says it always is.
- A config dependency listed twice is not deduplicated (`src/schema/inputs.ts:115`).
- A start time that does not decode fails post before the token is revoked (`src/post.ts:21`): the
  failure is typed, and only defects are caught.
- A retry budget longer than the hour a token lives is accepted (`docs/03-github-app-setup.md:19` gives the hour).
- A `<` specifier is lowered by every run: with 1.1.0 the newest below, `<2.0.0` becomes
  `<1.1.0`, and so on until nothing published is below it and the install has nothing to take.
- `peer-minor` does not follow an upper bound down: `<=1.1.0` lowered to `<=1.0.0`, 1.1.0 being too young, leaves the peer at
  the .0 of 1.1.
- bun's lockfile has versions by name only (`src/services/lockfile.ts:205`): an entry only a peer
  refers to is reported at the version the name resolved to elsewhere.
- A dependency in two sections under `peer-lock` reports its peer twice; a manifest write that
  fails still moves the peer, and a peer passed over because its manifest could not be read
  (`src/services/peer-sync.ts:115`), or one whose write failed, is not looked at by later runs.
- A slot that changes from a range to a catalog reference is not reported, and one removed together
  with its catalog entry is reported twice.
- While `devEngines` is current a lagging `packageManager` is never moved; where the two name
  different majors, auto moves `packageManager` to the major of `devEngines`, down if need be.
- auto freezes a runtime at the first exact version it writes.

## Not modelled

- The content of the files a commit carries: a commit is who made it. A file somebody pushes
  between the checkout and the commit is overwritten by its old content; no property says so.
- `ensureBaseHistory` and the regeneration of changesets: a row of fetches whose failures are all
  ignored, then a call to the kit.
- Rendering, formatting, layers, schemas and error classes, which have no behaviour to check, and
  the parsing of inputs but for the check across retries and timeout.
- Package managers, the registry, GitHub, the runner and the kit's libraries are external: they are
  modelled by what the code relies on, with every answer they may give.
- Peers that pnpm installs by itself (`auto-install-peers`) and then records among the dependencies.
- Prereleases, compound ranges and dist-tags, which the services do not rewrite; workspace packages
  that come and go, and the fallback names when discovery fails; npm in `WorkspaceRuns`, which has
  no catalogs.
- Edits of the open pull request between two runs of `CatalogRuns` and `WorkspaceRuns`: a run starts
  from the repository. What happens to the branch is in `UpdateBranch`.
