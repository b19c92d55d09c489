------------------------------ MODULE UpdateRun ------------------------------
(***************************************************************************)
(* One run of the main phase: the steps of program.ts in their order, what *)
(* each leaves in the working tree, on GitHub, in the check run and in the *)
(* outputs, and how the run ends when a step fails, hangs or is killed.    *)
(*                                                                         *)
(* An update step is seen through what it reports and what it writes; the  *)
(* two differ: a write may fail after the update is reported, and a file   *)
(* may be rewritten (an integrity stripped, catalog entries merged) with   *)
(* nothing reported.  Other runs and people are in module UpdateBranch.    *)
(* withCheckRun and the timeout are the kit's, external to src/.           *)
(***************************************************************************)
EXTENDS Naturals

CONSTANTS
  PackageManagers,  \* the package managers a workspace may be detected to use
  DryRuns,          \* values of the dry-run input
  AutoMerges        \* is the auto-merge input set?

ASSUME InputsAssumption ==
  /\ PackageManagers \subseteq {"pnpm", "bun", "npm"}
  /\ DryRuns \subseteq BOOLEAN
  /\ AutoMerges \subseteq BOOLEAN

VARIABLES
  input,      \* the inputs of the run that steer it
  pc,         \* the next step
  \* the working tree
  reported,   \* the kinds of update the steps have reported
  stale,      \* manifest edits no install has followed
  tree,       \* does git status list an entry?
  moved,      \* did the lockfile change since the first snapshot?
  \* GitHub
  landed,     \* the run's commit is on the branch
  opened,     \* the run opened or updated the pull request
  \* what the program knows and says
  pullRequest,  \* createOrUpdatePR returned one
  path,         \* the exit the run takes
  recorded,     \* the conclusion it recorded for the check run
  checkRun,     \* the check run on GitHub
  hasChanges,   \* the output has-changes
  count,        \* the output updates-count, as the updates it counts
  prNumber,     \* is the output pr-number set?
  doc,          \* the output result
  exit,         \* how the program inside the check run ended
  job           \* the result of the main phase

workVars   == <<reported, stale, tree, moved>>
githubVars == <<landed, opened>>
outputVars == <<hasChanges, count, prNumber, doc>>
endVars    == <<path, recorded, checkRun, exit, job>>
vars == <<input, pc, reported, stale, tree, moved, landed, opened, pullRequest, path,
          recorded, checkRun, hasChanges, count, prNumber, doc, exit, job>>

-----------------------------------------------------------------------------
(* Types *)

\* Updates, by the step that reports them; the install follows all but runtimes.
Kinds     == {"pm", "runtime", "config", "regular", "peer"}
Installed == {"pm", "config", "regular", "peer"}

Document == [detected : BOOLEAN, hasChanges : BOOLEAN, updates : SUBSET Kinds,
             pullRequest : BOOLEAN]

\* The steps, by where they run: before the timeout starts, under it, in the
\* check run, and after the program in the check run has ended.
Early  == {"baseline", "inputs"}
Inside == {"detect", "status", "branch", "before", "pm", "activate", "runtime",
           "config", "regular", "peerSync", "install", "format", "commands", "after",
           "changes", "changesets", "peerCheck", "commit", "resync", "pr", "autoMerge",
           "conclude", "hasChanges", "count", "prOutputs", "doc", "summary"}
Steps  == Early \cup Inside \cup {"open", "complete", "end"}

Verdicts == {"success", "neutral", "failure"}

TypeOK ==
  /\ input \in [pm : PackageManagers, dryRun : DryRuns, autoMerge : AutoMerges]
  /\ pc \in Steps
  /\ reported \subseteq Kinds
  /\ stale \subseteq Installed
  /\ tree \in BOOLEAN
  /\ moved \in BOOLEAN
  /\ landed \in BOOLEAN
  /\ opened \in BOOLEAN
  /\ pullRequest \in BOOLEAN
  /\ path \in {"none", "foreign", "failed", "unchanged", "complete"}
  /\ recorded \in {"none"} \cup Verdicts
  /\ checkRun \in {"none", "in_progress", "cancelled"} \cup Verdicts
  /\ hasChanges \in {"unset", "false", "true"}
  /\ count \subseteq Kinds
  /\ prNumber \in BOOLEAN
  /\ doc \in Document
  /\ exit \in {"none", "success", "failure", "interrupted"}
  /\ job \in {"running", "succeeded", "failed", "cancelled"}

Init ==
  /\ input \in [pm : PackageManagers, dryRun : DryRuns, autoMerge : AutoMerges]
  /\ pc = "baseline"
  /\ reported = {} /\ stale = {} /\ tree = FALSE /\ moved = FALSE
  /\ landed = FALSE /\ opened = FALSE
  /\ pullRequest = FALSE
  /\ path = "none" /\ recorded = "none" /\ checkRun = "none"
  /\ hasChanges = "unset" /\ count = {} /\ prNumber = FALSE
  /\ doc = [detected |-> FALSE, hasChanges |-> FALSE, updates |-> {}, pullRequest |-> FALSE]
  /\ exit = "none" /\ job = "running"

Goto(from, to) == pc = from /\ pc' = to

-----------------------------------------------------------------------------
(* Before the check run *)

\* Every output gets its "nothing happened" value before any work.
EmitBaseline ==
  /\ Goto("baseline", "inputs")
  /\ hasChanges' = "false"
  /\ UNCHANGED <<input, workVars, githubVars, pullRequest, count, prNumber, doc, endVars>>

ReadInputs ==
  /\ Goto("inputs", "open")
  /\ UNCHANGED <<input, workVars, githubVars, pullRequest, outputVars, endVars>>

\* withCheckRun creates the check run and starts the program inside it.
OpenCheckRun ==
  /\ Goto("open", "detect")
  /\ checkRun' = "in_progress"
  /\ UNCHANGED <<input, workVars, githubVars, pullRequest, outputVars, path, recorded,
                 exit, job>>

\* Nothing has started yet that would have to be completed.
FailEarly ==
  /\ pc \in Early \cup {"open"}
  /\ pc' = "end"
  /\ job' = "failed"
  /\ UNCHANGED <<input, workVars, githubVars, pullRequest, outputVars, path, recorded,
                 checkRun, exit>>

-----------------------------------------------------------------------------
(* The update steps *)

\* The steps that only read, or whose effect is in another module.
Follow == [detect |-> "status", status |-> "branch", before |-> "pm",
           after |-> "changes", peerCheck |-> "commit", summary |-> "complete"]

ReadStep ==
  /\ pc \in {"detect", "status", "before", "after", "peerCheck"}
  /\ pc' = Follow[pc]
  /\ UNCHANGED <<input, workVars, githubVars, pullRequest, outputVars, endVars>>

\* branchStep resets the branch, or finds commits that are not the action's.
ManageBranch ==
  /\ pc = "branch"
  /\ \/ pc' = "before" /\ UNCHANGED path
     \/ pc' = "conclude" /\ path' = "foreign"
  /\ UNCHANGED <<input, workVars, githubVars, pullRequest, outputVars, recorded, checkRun,
                 exit, job>>

\* An update step reports updates of its kind or none, and edits its manifest or not.
Update(kind, report, edit) ==
  /\ reported' = IF report THEN reported \cup {kind} ELSE reported
  /\ stale' = IF edit THEN stale \cup ({kind} \cap Installed) ELSE stale
  /\ tree' = (tree \/ edit)
  /\ UNCHANGED <<input, moved, githubVars, pullRequest, outputVars, endVars>>

\* Applied; or nothing to do, and an inline integrity stripped or not: the
\* manager does not resolve differently for it.  A failed read or write warns.
UpgradePackageManager ==
  \/ Goto("pm", "activate") /\ Update("pm", TRUE, TRUE)
  \/ /\ Goto("pm", "runtime")
     /\ tree' \in {tree, TRUE}
     /\ UNCHANGED <<input, reported, stale, moved, githubVars, pullRequest, outputVars, endVars>>

\* A pin that moved is provisioned for the install.
ActivatePackageManager ==
  /\ Goto("activate", "runtime")
  /\ UNCHANGED <<input, workVars, githubVars, pullRequest, outputVars, endVars>>

UpgradeRuntimes ==
  /\ Goto("runtime", "config")
  /\ \E changed \in BOOLEAN : Update("runtime", changed, changed)

\* pnpm reports an update even if the write fails, and rewrites an entry with an
\* inline integrity that is current; bun merges catalogs whose plugin did not
\* move; npm has no catalogs.
UpdateConfigDependencies ==
  /\ Goto("config", "regular")
  /\ \E report, edit \in BOOLEAN :
       /\ input.pm = "npm" => ~report /\ ~edit
       /\ input.pm = "bun" /\ report => edit
       /\ Update("config", report, edit)

\* A failed write warns; the updates of that file are reported all the same.
UpdateRegularDependencies ==
  /\ Goto("regular", "peerSync")
  /\ \E report, edit \in BOOLEAN :
       /\ edit => report
       /\ Update("regular", report, edit)

\* Peer ranges follow the updates the previous step reported.
SyncPeers ==
  /\ Goto("peerSync", "install")
  /\ \E report, edit \in BOOLEAN :
       /\ edit => report
       /\ report => "regular" \in reported
       /\ Update("peer", report, edit)

-----------------------------------------------------------------------------
(* Install, formatting and commands *)

\* Mutant: the updates of config dependencies are left out.
InstallWithoutConfig == reported \cap {"pm", "regular", "peer"} # {}

\* shouldInstall folds the results of four steps, the runtimes' not among them.
ShouldInstall == reported \cap Installed # {}

SkipInstall ==
  /\ ~ShouldInstall
  /\ Goto("install", "format")
  /\ UNCHANGED <<input, workVars, githubVars, pullRequest, outputVars, endVars>>

\* The lockfile is regenerated; it may come out as it was, and may be ignored.
Install ==
  /\ ShouldInstall
  /\ Goto("install", "format")
  /\ stale' = {}
  /\ moved' \in BOOLEAN
  /\ tree' \in {tree, TRUE}
  /\ UNCHANGED <<input, reported, githubVars, pullRequest, outputVars, endVars>>

\* Only pnpm has a workspace file to format.
FormatWorkspace ==
  /\ Goto("format", "commands")
  /\ tree' \in IF input.pm = "pnpm" THEN {tree, TRUE} ELSE {tree}
  /\ UNCHANGED <<input, reported, stale, moved, githubVars, pullRequest, outputVars, endVars>>

\* Every command runs; they may change the tree and the lockfile, or change
\* them back.  One that failed ends the run through its own exit.
RunCommands ==
  /\ pc = "commands"
  /\ tree' \in BOOLEAN
  /\ moved' \in BOOLEAN
  /\ \/ pc' = "after" /\ UNCHANGED path
     \/ pc' = "conclude" /\ path' = "failed"
  /\ UNCHANGED <<input, reported, stale, githubVars, pullRequest, outputVars, recorded,
                 checkRun, exit, job>>

\* A status entry or a lockfile change is a change; without one the run ends.
DetectChanges ==
  /\ pc = "changes"
  /\ \/ (tree \/ moved) /\ pc' = "changesets" /\ UNCHANGED path
     \/ ~tree /\ ~moved /\ pc' = "conclude" /\ path' = "unchanged"
  /\ UNCHANGED <<input, workVars, githubVars, pullRequest, outputVars, recorded, checkRun,
                 exit, job>>

\* Changeset files may be written, or not be asked for.
RegenerateChangesets ==
  /\ Goto("changesets", "peerCheck")
  /\ tree' \in {tree, TRUE}
  /\ UNCHANGED <<input, reported, stale, moved, githubVars, pullRequest, outputVars, endVars>>

-----------------------------------------------------------------------------
(* Commit and pull request *)

Complete(to) == pc' = to /\ path' = "complete"

SkipCommitAndPr ==
  /\ pc = "commit"
  /\ input.dryRun
  /\ Complete("conclude")
  /\ UNCHANGED <<input, workVars, githubVars, pullRequest, outputVars, recorded, checkRun,
                 exit, job>>

\* commitChanges with no entry it can read: no commit, and on to the pull request.
NothingToCommit ==
  /\ ~input.dryRun
  /\ Goto("commit", "pr")
  /\ UNCHANGED <<input, workVars, githubVars, pullRequest, outputVars, endVars>>

CommitFiles ==
  /\ ~input.dryRun
  /\ tree
  /\ Goto("commit", "resync")
  /\ landed' = TRUE
  /\ UNCHANGED <<input, workVars, opened, pullRequest, outputVars, endVars>>

Resync ==
  /\ Goto("resync", "pr")
  /\ UNCHANGED <<input, workVars, githubVars, pullRequest, outputVars, endVars>>

\* Auto-merge is a call of its own, skipped when the peer gate withholds it.
UpsertPr ==
  /\ pc = "pr"
  /\ opened' = TRUE
  /\ pullRequest' = TRUE
  /\ \/ input.autoMerge /\ pc' = "autoMerge" /\ UNCHANGED path
     \/ Complete("conclude")
  /\ UNCHANGED <<input, workVars, landed, outputVars, recorded, checkRun, exit, job>>

\* A call that fails, or is cut off, may have been carried out by GitHub.
InFlight ==
  /\ landed' \in IF pc = "commit" /\ tree /\ ~input.dryRun THEN BOOLEAN ELSE {landed}
  /\ opened' \in IF pc = "pr" THEN BOOLEAN ELSE {opened}

\* No pull request is a warning.
PrFails ==
  /\ pc = "pr"
  /\ InFlight
  /\ Complete("conclude")
  /\ UNCHANGED <<input, workVars, pullRequest, outputVars, recorded, checkRun, exit, job>>

\* Enabled or refused, the run goes on.
SetAutoMerge ==
  /\ pc = "autoMerge"
  /\ Complete("conclude")
  /\ UNCHANGED <<input, workVars, githubVars, pullRequest, outputVars, recorded, checkRun,
                 exit, job>>

-----------------------------------------------------------------------------
(* What each exit publishes, in this order *)

\* Mutant: a conclusion GitHub has no verdict for.
UnchangedStale    == [foreign |-> "neutral", failed |-> "failure", unchanged |-> "stale",
                      complete |-> "success"]

Conclusion == [foreign |-> "neutral", failed |-> "failure", unchanged |-> "neutral",
               complete |-> "success"]

Conclude ==
  /\ Goto("conclude", "hasChanges")
  /\ recorded' = Conclusion[path]
  /\ UNCHANGED <<input, workVars, githubVars, pullRequest, outputVars, path, checkRun, exit, job>>

\* Mutant: changes are claimed from the pull request, not from the exit.
ClaimFromPullRequest ==
  /\ Goto("hasChanges", "count")
  /\ hasChanges' = IF pullRequest THEN "true" ELSE "false"
  /\ UNCHANGED <<input, workVars, githubVars, pullRequest, count, prNumber, doc, endVars>>

SetHasChanges ==
  /\ Goto("hasChanges", "count")
  /\ hasChanges' = IF path = "complete" THEN "true" ELSE "false"
  /\ UNCHANGED <<input, workVars, githubVars, pullRequest, count, prNumber, doc, endVars>>

\* Mutant: failed commands publish "0", as the guide to the phases has it.
CountNothingFailed ==
  /\ Goto("count", "prOutputs")
  /\ count' = IF path = "complete" THEN reported ELSE {}
  /\ UNCHANGED <<input, workVars, githubVars, pullRequest, hasChanges, prNumber, doc, endVars>>

\* The literal "0", or the number of all updates.
SetCount ==
  /\ Goto("count", "prOutputs")
  /\ count' = IF path \in {"foreign", "unchanged"} THEN {} ELSE reported
  /\ UNCHANGED <<input, workVars, githubVars, pullRequest, hasChanges, prNumber, doc, endVars>>

SetPrOutputs ==
  /\ Goto("prOutputs", "doc")
  /\ prNumber' = (path = "complete" /\ pullRequest)
  /\ UNCHANGED <<input, workVars, githubVars, pullRequest, hasChanges, count, doc, endVars>>

EmitRunResult ==
  /\ Goto("doc", "summary")
  /\ doc' = [detected |-> TRUE, hasChanges |-> path = "complete", updates |-> reported,
             pullRequest |-> path = "complete" /\ pullRequest]
  /\ UNCHANGED <<input, workVars, githubVars, pullRequest, hasChanges, count, prNumber, endVars>>

\* The job summary, if there is one, and the end of the program: the failed
\* commands fail it.
Return ==
  /\ Goto("summary", "complete")
  /\ exit' = IF path = "failed" THEN "failure" ELSE "success"
  /\ UNCHANGED <<input, workVars, githubVars, pullRequest, outputVars, path, recorded,
                 checkRun, job>>

-----------------------------------------------------------------------------
(* Failures, the timeout and the end *)

\* These degrade to warnings, or only decide.
NeverFails == {"pm", "runtime", "regular", "commands", "peerCheck", "pr", "autoMerge", "conclude"}

\* Some of the others call what may fail only in some runs.
MayFail ==
  /\ pc \in Inside \ NeverFails
  /\ pc = "config" => input.pm = "bun"
  /\ pc = "install" => ShouldInstall
  /\ pc = "format" => input.pm = "pnpm"
  /\ pc = "commit" => ~input.dryRun
  /\ pc = "prOutputs" => path = "complete" /\ pullRequest
  /\ pc = "summary" => path = "complete"

\* A failure or a defect ends the program in the check run.
Fail ==
  /\ MayFail
  /\ InFlight
  /\ pc' = "complete"
  /\ exit' = "failure"
  /\ UNCHANGED <<input, workVars, pullRequest, outputVars, path, recorded, checkRun, job>>

\* Mutant: the timeout does not reach the install.
AllButInstall == pc \in Inside \ {"install"}

\* The timeout is around the whole program in the check run.
UnderTimeout == pc \in Inside

Timeout ==
  /\ UnderTimeout
  /\ InFlight
  /\ pc' = "complete"
  /\ exit' = "interrupted"
  /\ UNCHANGED <<input, workVars, pullRequest, outputVars, path, recorded, checkRun, job>>

\* withCheckRun completes the check run with the recorded conclusion, or with
\* what the exit implies.  The timeout may fire meanwhile.
Implied == [success |-> "success", failure |-> "failure", interrupted |-> "cancelled"]

CompleteCheckRun ==
  /\ Goto("complete", "end")
  /\ checkRun' = IF recorded # "none" THEN recorded ELSE Implied[exit]
  /\ job' \in IF exit = "success" THEN {"succeeded", "failed"} ELSE {"failed"}
  /\ UNCHANGED <<input, workVars, githubVars, pullRequest, outputVars, path, recorded, exit>>

\* A failed completion is ignored after a failure and fails a run that succeeded.
CompleteFails ==
  /\ Goto("complete", "end")
  /\ job' = "failed"
  /\ UNCHANGED <<input, workVars, githubVars, pullRequest, outputVars, path, recorded,
                 checkRun, exit>>

\* The runner kills the process.
Kill ==
  /\ pc # "end"
  /\ InFlight
  /\ pc' = "end"
  /\ job' = "cancelled"
  /\ UNCHANGED <<input, workVars, pullRequest, outputVars, path, recorded, checkRun, exit>>

-----------------------------------------------------------------------------

Next ==
  \/ EmitBaseline \/ ReadInputs \/ OpenCheckRun \/ FailEarly
  \/ ReadStep \/ ManageBranch
  \/ UpgradePackageManager \/ ActivatePackageManager \/ UpgradeRuntimes
  \/ UpdateConfigDependencies \/ UpdateRegularDependencies \/ SyncPeers
  \/ SkipInstall \/ Install \/ FormatWorkspace \/ RunCommands
  \/ DetectChanges \/ RegenerateChangesets
  \/ SkipCommitAndPr \/ NothingToCommit \/ CommitFiles \/ Resync
  \/ UpsertPr \/ PrFails \/ SetAutoMerge
  \/ Conclude \/ SetHasChanges \/ SetCount \/ SetPrOutputs \/ EmitRunResult \/ Return
  \/ Fail \/ Timeout \/ CompleteCheckRun \/ CompleteFails \/ Kill

Spec == Init /\ [][Next]_vars

\* Local steps and the two calls for the check run end.  The steps under the
\* timeout need not: a registry may never answer, a command never exit.
Fairness ==
  /\ WF_vars(EmitBaseline \/ ReadInputs \/ OpenCheckRun \/ FailEarly)
  /\ WF_vars(Timeout)
  /\ WF_vars(CompleteCheckRun \/ CompleteFails)

FairSpec == Spec /\ Fairness

-----------------------------------------------------------------------------
(* Properties *)

\* A run whose install failed commits nothing: every edit a step reported was
\* followed by an install before the commit landed (install.ts).
ReportedEditsInstalled == landed => reported \cap stale = {}

\* When the job succeeds, the check run's verdict is what the document says.  A
\* document, once published, and the scalar outputs tell one story, whatever
\* fails after it, and a pull request they name is on GitHub.  There is one
\* disagreement: an unchanged run lists its updates and counts none (program.ts).
ReportsAgree ==
  /\ job = "succeeded" =>
       /\ doc.detected
       /\ checkRun = IF doc.hasChanges THEN "success" ELSE "neutral"
  /\ doc.detected =>
       /\ doc.hasChanges <=> hasChanges = "true"
       /\ doc.pullRequest <=> prNumber
       /\ prNumber => opened
       /\ count = IF path = "unchanged" THEN {} ELSE doc.updates

\* Whatever step hangs, the run ends: the timeout covers all that may.
RunEnds == <>(pc = "end")

\* What the run has published, and how the main phase ended.
PublishedWork == (IF landed THEN {"commit"} ELSE {}) \cup (IF opened THEN {"pull request"} ELSE {})
Ending == IF job = "running" THEN "no" ELSE IF job = "succeeded" THEN "succeeded" ELSE "failed"

Contract == INSTANCE RunReport WITH work <- PublishedWork, claim <- hasChanges, ended <- Ending

\* The run implements RunReport: a workflow may rely on has-changes as it says.
KeepsContract == Contract!Spec

=============================================================================
