---------------------------- MODULE UpdateBranch ----------------------------
(***************************************************************************)
(* The update branch and its pull request, shared by the runs of the       *)
(* action, by the people who push to the branch or close its pull request, *)
(* and by GitHub.                                                          *)
(*                                                                         *)
(* A run is split at its calls to GitHub, so that anybody may act between  *)
(* two of them: validateBranches, foreignCommits, the source sha, the      *)
(* upsert of the branch, the local checkout, the update steps (one opaque  *)
(* step here, module UpdateRun opens it), the two halves of commitFiles,   *)
(* the local resync, and the three calls of createOrUpdatePR.  A failure,  *)
(* a timeout or a cancellation may end a run before any of them.           *)
(*                                                                         *)
(* Runs may overlap: the documented workflow has a schedule and a manual   *)
(* trigger and no concurrency group.  The actions of people and of GitHub  *)
(* are external to src/.                                                   *)
(***************************************************************************)
EXTENDS Naturals

CONSTANTS
  Runs,          \* runs of the action; a run's commit is named by the run
  HumanCommits,  \* commits people may push onto the update branch
  Edits,         \* edits people may make to the pull request description
  NoRun,         \* the author of a pull request that was never written
  MaxSource,     \* bound: how often the source branch may move
  HasIdentity,   \* does the token name an App identity?
  AutoMerge,     \* is the auto-merge input set?
  DryRunModes,   \* values of the dry-run input the runs may be started with
  Recurring      \* does the schedule start a finished run again?

ASSUME RunsAssumption ==
  /\ NoRun \notin Runs
  /\ Runs \cap HumanCommits = {}
  /\ MaxSource \in Nat
  /\ HasIdentity \in BOOLEAN
  /\ AutoMerge \in BOOLEAN
  /\ DryRunModes \subseteq BOOLEAN
  /\ Recurring \in BOOLEAN

VARIABLES
  \* GitHub
  source,    \* how often the head of the source branch has moved
  merged,    \* the commits a merge commit made part of the source branch
  branch,    \* the update branch: the source sha it was set to, and since
  pr,        \* the last pull request from the update branch
  \* the runs
  pc,        \* the next call of each run
  dry,       \* its dry-run input
  seen,      \* the commits its foreign-commit check looked at
  base,      \* the source sha it read
  snap,      \* the branch as commitFiles read it
  withheld,  \* did its peer gate withhold auto-merge?
  prior,     \* the description its first pull request query returned
  \* history, read by the properties only
  pushed,    \* commits people have pushed
  lost,      \* <<h, r>>: the reset of run r discarded commit h
  cleared,   \* commits on the branch when its pull request was merged or
             \* closed or the branch was deleted
  landed     \* runs whose commit reached the branch

githubVars  == <<source, merged, branch, pr>>
historyVars == <<pushed, lost, cleared, landed>>
vars == <<source, merged, branch, pr, pc, dry, seen, base, snap, withheld, prior,
          pushed, lost, cleared, landed>>

-----------------------------------------------------------------------------
(* Types *)

Commits == Runs \cup HumanCommits
Branch  == [exists : BOOLEAN, base : 0..MaxSource, on : SUBSET Commits]
PullRequest == [state : {"none", "open", "closed", "merged"},
                auto  : BOOLEAN,             \* is auto-merge enabled?
                by    : Runs \cup {NoRun},   \* the run its description is of
                prose : SUBSET Edits]        \* outside the managed markers

\* Where a run stands: waiting, before one of its calls, or ended.
Active == {"validate", "check", "sha", "upsert", "checkout", "work", "commit",
           "ref", "resync", "list", "upsertPr", "autoMerge"}
Ended  == {"foreign", "unchanged", "completed", "failed"}

NoBranch == [exists |-> FALSE, base |-> 0, on |-> {}]
NoPr     == [state |-> "none", auto |-> FALSE, by |-> NoRun, prose |-> {}]

TypeOK ==
  /\ source \in 0..MaxSource
  /\ merged \subseteq Commits
  /\ branch \in Branch
  /\ pr \in PullRequest
  /\ pc \in [Runs -> {"idle"} \cup Active \cup Ended]
  /\ dry \in [Runs -> BOOLEAN]
  /\ seen \in [Runs -> SUBSET Commits]
  /\ base \in [Runs -> 0..MaxSource]
  /\ snap \in [Runs -> Branch]
  /\ withheld \in [Runs -> BOOLEAN]
  /\ prior \in [Runs -> SUBSET Edits]
  /\ pushed \subseteq HumanCommits
  /\ lost \subseteq HumanCommits \X Runs
  /\ cleared \subseteq HumanCommits
  /\ landed \subseteq Runs

Init ==
  /\ source = 0 /\ merged = {}
  /\ branch = NoBranch
  /\ pr = NoPr
  /\ pc = [r \in Runs |-> "idle"]
  /\ dry = [r \in Runs |-> FALSE]
  /\ seen = [r \in Runs |-> {}]
  /\ base = [r \in Runs |-> 0]
  /\ snap = [r \in Runs |-> NoBranch]
  /\ withheld = [r \in Runs |-> FALSE]
  /\ prior = [r \in Runs |-> {}]
  /\ pushed = {} /\ lost = {} /\ cleared = {} /\ landed = {}

-----------------------------------------------------------------------------
(* The steps of a run *)

Goto(r, from, to) == pc[r] = from /\ pc' = [pc EXCEPT ![r] = to]

Start(r) ==
  /\ Goto(r, "idle", "validate")
  /\ dry' \in {[dry EXCEPT ![r] = d] : d \in DryRunModes}
  /\ UNCHANGED <<githubVars, historyVars, seen, base, snap, withheld, prior>>

\* Both refs exist.  (A missing one is InvalidInputError: Abort.)
ValidateBranches(r) ==
  /\ Goto(r, "validate", "check")
  /\ UNCHANGED <<githubVars, historyVars, dry, seen, base, snap, withheld, prior>>

\* compare: the commits of the branch the source branch does not have.
Ahead == branch.on \ merged

\* Mutant: the author filter is inverted.
OwnCommits == Ahead \cap Runs

\* Those that no run of the action made; none when the branch does not exist.
ForeignCommits == Ahead \ Runs

\* Mutants: the runs' own commits, or a branch that does not exist, block a run.
BlockedByOwn    == HasIdentity /\ Ahead # {}
BlockedIfAbsent == HasIdentity /\ (ForeignCommits # {} \/ ~branch.exists)

\* branchStep: look before the reset, or, with no App identity, do not look.
Blocked == HasIdentity /\ ForeignCommits # {}

CheckForeign(r) ==
  /\ pc[r] = "check"
  /\ pc' = [pc EXCEPT ![r] = IF Blocked THEN "foreign" ELSE "sha"]
  /\ seen' = [seen EXCEPT ![r] = Ahead]
  /\ UNCHANGED <<githubVars, historyVars, dry, base, snap, withheld, prior>>

\* manage: the source sha is read, and the branch is set to it afterwards.
ReadSourceSha(r) ==
  /\ Goto(r, "sha", "upsert")
  /\ base' = [base EXCEPT ![r] = source]
  /\ UNCHANGED <<githubVars, historyVars, dry, seen, snap, withheld, prior>>

Closed(p) == IF p.state = "open" THEN [p EXCEPT !.state = "closed", !.auto = FALSE] ELSE p

\* GitBranch.upsert: create, or force-reset the branch that already exists.
\* GitHub may or may not close the pull request that has no commit left.
UpsertBranch(r) ==
  /\ Goto(r, "upsert", "checkout")
  /\ pr' \in {pr, Closed(pr)}
  /\ branch' = [exists |-> TRUE, base |-> base[r], on |-> {}]
  /\ lost' = lost \cup ((Ahead \cap HumanCommits) \X {r})
  /\ UNCHANGED <<source, merged, dry, seen, base, snap, withheld, prior,
                 pushed, cleared, landed>>

\* The explicit fetch and checkout -B need the branch to be there still.
CheckoutBranch(r) ==
  /\ branch.exists
  /\ Goto(r, "checkout", "work")
  /\ UNCHANGED <<githubVars, historyVars, dry, seen, base, snap, withheld, prior>>

\* The update steps find nothing to do: the run ends neutral.
FindNothing(r) ==
  /\ Goto(r, "work", "unchanged")
  /\ UNCHANGED <<githubVars, historyVars, dry, seen, base, snap, withheld, prior>>

\* They change something; the peer gate withholds auto-merge or does not,
\* and has nothing to withhold when the input is not set.
FindChanges(r) ==
  /\ Goto(r, "work", "commit")
  /\ withheld' \in {[withheld EXCEPT ![r] = w] :
                      w \in IF AutoMerge THEN BOOLEAN ELSE {FALSE}}
  /\ UNCHANGED <<githubVars, historyVars, dry, seen, base, snap, prior>>

\* commitAndPrStep skips both halves on a dry run.
SkipCommitAndPr(r) ==
  /\ dry[r]
  /\ Goto(r, "commit", "completed")
  /\ UNCHANGED <<githubVars, historyVars, dry, seen, base, snap, withheld, prior>>

\* Mutant: only the commit is skipped on a dry run.
NothingToCommitOnDryRun(r) ==
  /\ Goto(r, "commit", "list")
  /\ UNCHANGED <<githubVars, historyVars, dry, seen, base, snap, withheld, prior>>

\* No status entry (an ignored lockfile moved), or none that can be read:
\* commitChanges returns without a commit and the step goes on to the PR.
NothingToCommit(r) ==
  /\ ~dry[r]
  /\ Goto(r, "commit", "list")
  /\ UNCHANGED <<githubVars, historyVars, dry, seen, base, snap, withheld, prior>>

\* commitFiles reads the head of the branch and builds a commit on it ...
ReadHead(r) ==
  /\ ~dry[r]
  /\ branch.exists
  /\ Goto(r, "commit", "ref")
  /\ snap' = [snap EXCEPT ![r] = branch]
  /\ UNCHANGED <<githubVars, historyVars, dry, seen, base, withheld, prior>>

\* ... and moves the ref to it without force: only a fast-forward is accepted.
FastForward(r) ==
  /\ branch.exists
  /\ \/ branch.base = snap[r].base /\ branch.on \subseteq snap[r].on
     \/ branch.base <= snap[r].base /\ branch.on = {}

\* Mutant: the ref is moved with force.
ForceRef(r) ==
  /\ branch.exists
  /\ Goto(r, "ref", "resync")
  /\ branch' = [snap[r] EXCEPT !.on = @ \cup {r}]
  /\ landed' = landed \cup {r}
  /\ UNCHANGED <<source, merged, pr, dry, seen, base, snap, withheld, prior,
                 pushed, lost, cleared>>

UpdateRef(r) ==
  /\ FastForward(r)
  /\ Goto(r, "ref", "resync")
  /\ branch' = [snap[r] EXCEPT !.on = @ \cup {r}]
  /\ landed' = landed \cup {r}
  /\ UNCHANGED <<source, merged, pr, dry, seen, base, snap, withheld, prior,
                 pushed, lost, cleared>>

\* fetch and reset --hard to the branch.
ResyncLocal(r) ==
  /\ branch.exists
  /\ Goto(r, "resync", "list")
  /\ UNCHANGED <<githubVars, historyVars, dry, seen, base, snap, withheld, prior>>

\* Mutant: the description of no pull request is not coalesced to the empty one.
UncoalescedBody == IF pr.state = "open" THEN pr.prose ELSE {NoRun}

\* Mutant: the description is not read before it is written.
RegeneratedBody == {}

PriorBody == IF pr.state = "open" THEN pr.prose ELSE {}

\* createOrUpdatePR reads the open pull request's description ...
ListPr(r) ==
  /\ Goto(r, "list", "upsertPr")
  /\ prior' = [prior EXCEPT ![r] = PriorBody]
  /\ UNCHANGED <<githubVars, historyVars, dry, seen, base, snap, withheld>>

\* Mutant: the verdict of the peer gate is not consulted.
AutoMergeSet(r) == AutoMerge

\* A withheld auto-merge is passed as "".
AutoMergeWanted(r) == AutoMerge /\ ~withheld[r]

\* ... and writes it back around the regenerated managed region, into the pull
\* request that is open now or into a new one (which needs a commit to show).
UpsertPr(r) ==
  /\ \/ pr.state = "open"
     \/ branch.exists /\ Ahead # {}
  /\ Goto(r, "upsertPr", IF AutoMergeWanted(r) THEN "autoMerge" ELSE "completed")
  /\ pr' = [state |-> "open", auto |-> pr.state = "open" /\ pr.auto,
            by |-> r, prose |-> prior[r]]
  /\ UNCHANGED <<source, merged, branch, historyVars, dry, seen, base, snap, withheld, prior>>

\* A failed query or write degrades to a warning and no pull request.
PrFails(r) ==
  /\ pc[r] \in {"list", "upsertPr"}
  /\ pc' = [pc EXCEPT ![r] = "completed"]
  /\ UNCHANGED <<githubVars, historyVars, dry, seen, base, snap, withheld, prior>>

SetAutoMerge(r) ==
  /\ pr.state = "open"
  /\ Goto(r, "autoMerge", "completed")
  /\ pr' = [pr EXCEPT !.auto = TRUE]
  /\ UNCHANGED <<source, merged, branch, historyVars, dry, seen, base, snap, withheld, prior>>

\* So does a refused auto-merge.
AutoMergeFails(r) ==
  /\ Goto(r, "autoMerge", "completed")
  /\ UNCHANGED <<githubVars, historyVars, dry, seen, base, snap, withheld, prior>>

\* Any fatal error, the timeout, or the cancellation of the job.
Abort(r) ==
  /\ pc[r] \in Active
  /\ pc' = [pc EXCEPT ![r] = "failed"]
  /\ UNCHANGED <<githubVars, historyVars, dry, seen, base, snap, withheld, prior>>

\* The schedule fires again.  The name of the ended run is given to the next
\* one, so nothing but its commit on the branch is remembered under it.
Reschedule(r) ==
  /\ Recurring
  /\ pc[r] \in Ended
  /\ pc' = [pc EXCEPT ![r] = "idle"]
  /\ merged' = merged \ {r}
  /\ pr' = [pr EXCEPT !.by = IF @ = r THEN NoRun ELSE @]
  /\ lost' = lost \ (HumanCommits \X {r})
  /\ landed' = landed \ {r}
  /\ UNCHANGED <<source, branch, pushed, cleared, dry, seen, base, snap,
                 withheld, prior>>

-----------------------------------------------------------------------------
(* People and GitHub *)

runVars == <<pc, dry, seen, base, snap, withheld, prior>>

PushCommit(h) ==
  /\ branch.exists
  /\ h \notin pushed
  /\ pushed' = pushed \cup {h}
  /\ branch' = [branch EXCEPT !.on = @ \cup {h}]
  /\ UNCHANGED <<source, merged, pr, runVars, lost, cleared, landed>>

EditDescription(e) ==
  /\ pr.state = "open"
  /\ pr' = [pr EXCEPT !.prose = @ \cup {e}]
  /\ UNCHANGED <<source, merged, branch, runVars, historyVars>>

ClosePr ==
  /\ pr.state = "open"
  /\ pr' = Closed(pr)
  /\ cleared' = cleared \cup (Ahead \cap HumanCommits)
  /\ UNCHANGED <<source, merged, branch, runVars, pushed, lost, landed>>

\* A merge commit makes the commits part of the source; a squash or a rebase
\* leaves the branch ahead of it.  A person merges, or GitHub does once auto-merge is on.
MergePr(strategy) ==
  /\ pr.state = "open"
  /\ Ahead # {}
  /\ source < MaxSource
  /\ source' = source + 1
  /\ pr' = [pr EXCEPT !.state = "merged", !.auto = FALSE]
  /\ merged' = IF strategy = "merge" THEN merged \cup branch.on ELSE merged
  /\ cleared' = cleared \cup (Ahead \cap HumanCommits)
  /\ UNCHANGED <<branch, runVars, pushed, lost, landed>>

\* Deleting the branch closes its pull request.
DeleteBranch ==
  /\ branch.exists
  /\ branch' = NoBranch
  /\ pr' = Closed(pr)
  /\ cleared' = cleared \cup (Ahead \cap HumanCommits)
  /\ UNCHANGED <<source, merged, runVars, pushed, lost, landed>>

MoveSource ==
  /\ source < MaxSource
  /\ source' = source + 1
  /\ UNCHANGED <<merged, branch, pr, runVars, historyVars>>

-----------------------------------------------------------------------------

RunStep(r) ==
  \/ Start(r) \/ ValidateBranches(r) \/ CheckForeign(r)
  \/ ReadSourceSha(r) \/ UpsertBranch(r) \/ CheckoutBranch(r)
  \/ FindNothing(r) \/ FindChanges(r)
  \/ SkipCommitAndPr(r) \/ NothingToCommit(r)
  \/ ReadHead(r) \/ UpdateRef(r) \/ ResyncLocal(r)
  \/ ListPr(r) \/ UpsertPr(r) \/ PrFails(r)
  \/ SetAutoMerge(r) \/ AutoMergeFails(r)
  \/ Abort(r) \/ Reschedule(r)

WorldStep ==
  \/ \E h \in HumanCommits : PushCommit(h)
  \/ \E e \in Edits : EditDescription(e)
  \/ ClosePr
  \/ \E s \in {"merge", "squash"} : MergePr(s)
  \/ DeleteBranch
  \/ MoveSource

Next == (\E r \in Runs : RunStep(r)) \/ WorldStep

Spec == Init /\ [][Next]_vars

\* The schedule keeps firing and a run does not hang: it has a timeout.  Nobody
\* else is obliged to act.
Fairness == \A r \in Runs : WF_vars(RunStep(r))

FairSpec == Spec /\ Fairness

-----------------------------------------------------------------------------
(* Properties *)

\* A run that can tell its own commits never discards a human commit that was
\* on the branch when it looked (branchStep: foreignCommits before manage),
\* whatever other runs and people did in between.
SeenWorkSurvives ==
  HasIdentity => \A r \in Runs : \A h \in seen[r] : <<h, r>> \notin lost

\* A commit, a run's or a person's, leaves the branch only when a run resets it
\* or the branch is deleted: commitFiles moves the ref without force, so what
\* was pushed, or reset, since it read the head is not overwritten.
CommitsLeaveByReset ==
  [][\A c \in Commits :
       c \in branch.on /\ c \notin branch'.on =>
         \/ ~branch'.exists
         \/ \E r \in Runs : pc[r] = "upsert" /\ pc'[r] = "checkout"]_vars

\* A dry run neither commits nor writes a pull request (commitAndPrStep).
DryRunPublishesNothing ==
  \A r \in Runs : dry[r] => r \notin landed /\ pr.by # r

\* Auto-merge is enabled only by a run that was asked to and whose peer gate
\* did not withhold it (program.ts passes "" for a withheld auto-merge).
AutoMergeEarned ==
  pr.auto => AutoMerge /\ (Recurring \/ \E r \in Runs :
                              /\ pc[r] = "completed"
                              /\ ~withheld[r] /\ ~dry[r])

\* An edit of the open description that no run is about to write over.
Settled(e) ==
  /\ pr.state = "open"
  /\ e \in pr.prose
  /\ \A r \in Runs : pc[r] = "upsertPr" => e \in prior[r]

EditsStay ==
  \A e \in Edits : Settled(e) /\ pr'.state = "open" => Settled(e)'

\* An edit made outside the managed markers is lost only to a run that had read
\* the description before it: once no such run is left, no later run removes it
\* while the pull request is open (createOrUpdatePR reads the description
\* and writes it back around its own region).
SettledProseStays == [][EditsStay]_vars

\* A run fails, finds no update, or has no file to commit.
Trouble ==
  \E r \in Runs : Abort(r) \/ PrFails(r) \/ FindNothing(r) \/ NothingToCommit(r)

\* The next run upserts the pull request a run could not write
\* (commit-and-pr.ts), unless somebody pushes to the branch or deletes it: true
\* once runs stop failing, with updates still to be had.
NextRunUpsertsPr ==
  <>[][~Trouble]_vars =>
    ((branch.on \cap Runs # {} /\ pr.state # "open")
       ~> (pr.state = "open" \/ ForeignCommits # {} \/ ~branch.exists))

\* Deleting the branch lets the next run update it again, whoever had pushed
\* to it (the summary of the neutral check run, program.ts).
DeletingUnblocks ==
  <>[][~Trouble]_vars => (~branch.exists ~> (branch.exists /\ ForeignCommits = {}))

-----------------------------------------------------------------------------
(* What the documentation says and the program does not do *)

\* The foreign-commit check guards every commit a person pushed from the reset.
NoHumanCommitDiscarded == HasIdentity => lost = {}

\* When auto-merge is withheld the pull request still opens, it just cannot
\* merge itself.
WithheldCannotMergeItself ==
  \A r \in Runs :
    pc[r] = "completed" /\ withheld[r] /\ r \in landed /\ pr.by = r => ~pr.auto

\* After the pull request with somebody's commits is merged or closed, or the
\* branch deleted, those commits do not stop the next run.
ClearedCommitsDoNotBlock ==
  [][\A r \in Runs : pc[r] = "check" /\ pc'[r] = "foreign" =>
       ~(ForeignCommits \subseteq cleared)]_vars

=============================================================================
