------------------------------ MODULE ActionJob ------------------------------
(***************************************************************************)
(* A job that runs the action: pre.ts, main.ts and post.ts as the runner   *)
(* starts them, the installation token they hand each other through the    *)
(* action's state, and what main does around its install: the retries, the *)
(* package manager that writes the lockfile, and the peer gate that reads  *)
(* it.  The rest of main is in module UpdateRun.                           *)
(*                                                                         *)
(* The runner, the App token service and the workspace readers are         *)
(* external.  A phase that fails or is cancelled is followed by post; a    *)
(* runner that is lost is not.  Time passes only where the program waits;  *)
(* any other step may take long enough for the timeout to fire.            *)
(***************************************************************************)
EXTENDS Naturals

CONSTANTS
  Timeouts,         \* values of the timeout input, in seconds
  Retries,          \* values of the retry-unmatched input
  PackageManagers,  \* the package managers a workspace may use
  Modes             \* values of the check-peers input

ASSUME JobAssumption ==
  /\ Timeouts \subseteq Nat
  /\ Retries \subseteq Nat
  /\ PackageManagers \subseteq {"pnpm", "bun", "npm"}
  /\ Modes \subseteq {"false", "warn", "no-auto-merge"}

VARIABLES
  input,      \* the inputs that steer the job; does the run move the pin, and has the
              \* workspace a clean script of its own?
  pc,         \* the next step
  \* the token, at GitHub and in the action's state
  token,      \* has it been minted, and revoked?
  saved,      \* do later phases see it?
  startTime,  \* what the action's state holds of the start time
  excused,    \* history: something outside the program kept it from revoking
  \* the install
  attempt,    \* attempts begun
  waited,     \* seconds waited between them
  lockfile,   \* what the lockfile on disk is made of
  manager,    \* what wrote it: the manager of the runner's PATH or the pinned one
  binDir,     \* is the pinned manager's directory put ahead of PATH?
  mixed,      \* history: some command ran under a manager that is not pinned
  \* the peer gate
  world,      \* the rules and members on disk: of before or after the updates
  rules,      \* what the catalogs service remembers of them
  members,    \* what discovery remembers of them
  required,   \* is a required peer unsatisfied in the updated workspace?
  seen,       \* the lockfile snapshot of after the install
  gate        \* the gate's decision

tokenVars   == <<token, saved, startTime, excused>>
installVars == <<attempt, waited, lockfile, manager, binDir, mixed>>
gateVars    == <<world, rules, members, required, seen, gate>>
vars == <<input, pc, token, saved, startTime, excused, attempt, waited, lockfile, manager,
          binDir, mixed, world, rules, members, required, seen, gate>>

-----------------------------------------------------------------------------
(* Types *)

PreSteps  == {"saveStart", "provision"}
\* Main reads its inputs before its timeout starts.
Timed     == {"clients", "activate", "updates", "clean", "install", "hung", "unmatched",
              "commands", "snapshot", "peerCheck", "publish"}
MainSteps == {"inputs"} \cup Timed
Running   == PreSteps \cup MainSteps
Steps     == Running \cup {"post", "dispose", "done"}

Sides == {"before", "after"}

TypeOK ==
  /\ input \in [timeout : Timeouts, retries : Retries, pm : PackageManagers, mode : Modes,
                autoMerge : BOOLEAN, moved : BOOLEAN, script : BOOLEAN]
  /\ pc \in Steps
  /\ token \in {"none", "live", "revoked"}
  /\ saved \in BOOLEAN
  /\ startTime \in {"none", "saved", "unreadable"}
  /\ excused \in BOOLEAN
  /\ attempt \in Nat
  /\ waited \in Nat
  /\ lockfile \in {"committed", "absent", "partial", "clean", "layered"}
  /\ manager \in {"none", "ambient", "pinned"}
  /\ binDir \in BOOLEAN
  /\ mixed \in BOOLEAN
  /\ world \in Sides
  /\ rules \in Sides \cup {"none"}
  /\ members \in Sides \cup {"none"}
  /\ required \in BOOLEAN
  /\ seen \in {"none", "read", "missing"}
  /\ gate \in {"open", "withheld", "pass"}

-----------------------------------------------------------------------------
(* The waits *)

\* unmatchedDelayMinutes: 3, 6, 10, 15, then ten more each time.
DelayMinutes(retry) ==
  IF retry <= 4 THEN <<3, 6, 10, 15>>[retry] ELSE 15 + 10 * (retry - 4)

\* unmatchedWaitSeconds, the waits of so many retries together.
WaitSeconds(retries) ==
  LET total[n \in 0..retries] == IF n = 0 THEN 0 ELSE total[n - 1] + 60 * DelayMinutes(n)
  IN total[retries]

-----------------------------------------------------------------------------
(* Pre *)

\* The job goes on to post: a step failed, or main ended.
ToPost == pc' = "post"

SaveStart ==
  /\ pc = "saveStart"
  /\ \/ pc' = "provision" /\ startTime' \in {"saved", "unreadable"}
     \/ ToPost /\ startTime' = "none"
  /\ UNCHANGED <<input, token, saved, excused, installVars, gateVars>>

\* The credentials may be missing; the token may lack a permission or not be
\* saved, and is then revoked, as far as GitHub answers.
Provision ==
  /\ pc = "provision"
  /\ \/ pc' = "inputs" /\ token' = "live" /\ saved' = TRUE /\ UNCHANGED excused
     \/ ToPost /\ token' \in {"none", "revoked"} /\ UNCHANGED <<saved, excused>>
     \/ ToPost /\ token' = "live" /\ excused' = TRUE /\ UNCHANGED saved
  /\ UNCHANGED <<input, startTime, installVars, gateVars>>

-----------------------------------------------------------------------------
(* Main *)

\* Mutant: a budget that takes the whole timeout is let through.
RejectsLate(retries, timeout) == WaitSeconds(retries) > timeout

\* A retry budget that cannot fit in the timeout is refused.
Rejects(retries, timeout) == WaitSeconds(retries) >= timeout

ReadInputs ==
  /\ pc = "inputs"
  /\ pc' = IF Rejects(input.retries, input.timeout) THEN "post" ELSE "clients"
  /\ UNCHANGED <<input, tokenVars, installVars, gateVars>>

\* The client reads the saved token; without it, or with an expired one, the
\* program dies.
BuildClients ==
  /\ pc = "clients"
  /\ saved
  /\ pc' = "activate"
  /\ UNCHANGED <<input, tokenVars, installVars, gateVars>>

\* Mutant: the runner's own manager will do.
AmbientWillDo == TRUE

\* The step asks for a provisioned manager, never the runner's.
AllowAmbient == FALSE

\* What the kit's installer answers from: the ambient manager only if it may.
Installer(allowAmbient) == {"tool-cache"} \cup (IF allowAmbient THEN {"ambient"} ELSE {})

\* When the run moved the pin, the pinned manager is installed, and its directory
\* goes ahead of PATH; an ambient answer is a warning, and PATH stays as it was.
Activate ==
  /\ pc = "activate"
  /\ pc' = "updates"
  /\ \E source \in Installer(AllowAmbient) : binDir' = (input.moved /\ source = "tool-cache")
  /\ UNCHANGED <<input, tokenVars, attempt, waited, lockfile, manager, mixed, gateVars>>

\* The updates list the workspace, and may ask for the release-age gate, which the
\* catalogs service answers from the plugins installed now.  They rewrite manifests;
\* the install follows when there is an update.
Updates ==
  /\ pc = "updates"
  /\ members' = "before"
  /\ rules' \in {"none", "before"}
  /\ \/ pc' = "clean" /\ attempt' = 1 /\ world' = "after"
     \/ ~input.moved /\ pc' = "commands" /\ UNCHANGED <<attempt, world>>
  /\ UNCHANGED <<input, tokenVars, waited, lockfile, manager, binDir, mixed,
                 required, seen, gate>>

\* Mutant: PATH is the pinned directory alone, also when there is none.
ReplacedPath == IF binDir THEN "pinned" ELSE "missing"

\* The manager a child command finds first.
ManagerOnPath == IF binDir THEN "pinned" ELSE "ambient"

\* Who removes the lockfile itself: npm's branch, and pnpm's built-in clean, which
\* a workspace's own script replaces.
Cleans == input.pm = "npm" \/ (input.pm = "pnpm" /\ ~input.script)

\* Each attempt starts by removing the lockfile, or with the workspace's own script,
\* which may leave it; bun's install resolves anew.
Clean ==
  /\ pc = "clean"
  /\ pc' = "install"
  /\ lockfile' \in IF Cleans THEN {"absent"}
                   ELSE IF input.script THEN {"absent", lockfile}
                   ELSE {lockfile}
  /\ mixed' = (mixed \/ (input.moved /\ ManagerOnPath # "pinned"))
  /\ UNCHANGED <<input, tokenVars, attempt, waited, manager, binDir, gateVars>>

InstallSucceeds ==
  /\ pc = "install"
  /\ pc' = "commands"
  /\ lockfile' = IF lockfile = "absent" THEN "clean" ELSE "layered"
  /\ manager' = ManagerOnPath
  /\ mixed' = (mixed \/ (input.moved /\ manager' # "pinned"))
  /\ UNCHANGED <<input, tokenVars, attempt, waited, binDir, gateVars>>

\* An attempt fails, having written what it got to; or never returns.
InstallFails ==
  /\ pc = "install"
  /\ pc' \in {"unmatched", "post", "hung"}
  /\ lockfile' \in {lockfile, "partial"}
  /\ manager' = ManagerOnPath
  /\ UNCHANGED <<input, tokenVars, attempt, waited, binDir, mixed, gateVars>>

\* Mutant: only the install itself is run again.
RetryInstall == "install"

\* What a retry starts with.
RetryFrom == "clean"

\* Mutant: the budget is not counted.
AlwaysRetries == TRUE

\* Only a version the registry does not serve yet is retried, within the budget,
MayRetry == attempt <= input.retries

Wait == 60 * DelayMinutes(attempt)

Retry ==
  /\ pc = "unmatched"
  /\ MayRetry
  /\ waited + Wait < input.timeout
  /\ pc' = RetryFrom
  /\ waited' = waited + Wait
  /\ attempt' = attempt + 1
  /\ UNCHANGED <<input, tokenVars, lockfile, manager, binDir, mixed, gateVars>>

\* and after it the failure is the run's.
GiveUp ==
  /\ pc = "unmatched"
  /\ ~MayRetry
  /\ ToPost
  /\ UNCHANGED <<input, tokenVars, installVars, gateVars>>

\* The run commands may rewrite what they like; a failed one ends the run.
Commands ==
  /\ pc = "commands"
  /\ pc' \in {"snapshot", "post"}
  /\ world' \in {world, "after"}
  /\ required' \in BOOLEAN
  /\ mixed' = (mixed \/ (input.moved /\ ManagerOnPath # "pinned"))
  /\ UNCHANGED <<input, tokenVars, attempt, waited, lockfile, manager, binDir,
                 rules, members, seen, gate>>

\* captureLockfileState: a lockfile that is missing or does not parse is no
\* lockfile; with nothing changed the run ends here.
Snapshot ==
  /\ pc = "snapshot"
  /\ pc' \in {"peerCheck", "post"}
  /\ seen' \in {"read", "missing"}
  /\ UNCHANGED <<input, tokenVars, installVars, world, rules, members, required, gate>>

\* Mutant: what the services remember is not read again.
Remembered(memory) == IF memory = "none" THEN world ELSE memory

\* refresh() drops what a service remembers: it reads the disk.
Refreshed(memory) == world

\* Mutant: a report that could not be verified has no rows, and passes.
PassesUnverified(supported, resolved, unverified, count) == count = 0

\* decidePeerGate, past the modes that do not gate.
Passes(supported, resolved, unverified, count) ==
  supported /\ resolved /\ ~unverified /\ count = 0

\* The report counts unsatisfied required peers under the rules and members it was
\* given: rules of before the updates may hide some and show others.  A lookup that
\* failed is left out of the options, and the report says what that leaves open: the
\* rules and members unverified, a range of an unknown catalog unresolved.
PeerCheck ==
  /\ pc = "peerCheck"
  /\ pc' = "publish"
  /\ IF input.mode = "false" \/ seen = "missing"
       THEN /\ gate' = IF input.mode = "no-auto-merge" /\ input.autoMerge
                         THEN "withheld" ELSE "open"
            /\ UNCHANGED <<rules, members>>
       ELSE /\ rules' = Refreshed(rules)
            /\ members' = Refreshed(members)
            /\ \E supported \in BOOLEAN, resolved \in BOOLEAN, rulesKnown \in BOOLEAN,
                  membersKnown \in BOOLEAN, count \in {0, 1} :
                 /\ supported /\ resolved /\ rulesKnown /\ membersKnown
                    /\ rules' = world /\ members' = world => (count = 1) = required
                 /\ gate' = IF input.mode # "no-auto-merge" \/ ~input.autoMerge THEN "open"
                            ELSE IF Passes(supported, resolved, ~rulesKnown \/ ~membersKnown, count)
                              THEN "pass"
                            ELSE "withheld"
  /\ UNCHANGED <<input, tokenVars, installVars, world, required, seen>>

Publish ==
  /\ pc = "publish"
  /\ ToPost
  /\ UNCHANGED <<input, tokenVars, installVars, gateVars>>

\* Mutant: the timeout does not reach into a child command.
InterruptibleSteps == Timed \ {"hung"}

\* The timeout wraps everything after the inputs.
Interruptible == Timed

\* Any step may fail, or outlast the timeout.
Fails ==
  /\ pc \in Interruptible
  /\ ToPost
  /\ UNCHANGED <<input, tokenVars, installVars, gateVars>>

-----------------------------------------------------------------------------
(* The runner, and post *)

\* The job is cancelled: post runs;
Cancel ==
  /\ pc \in Running
  /\ ToPost
  /\ UNCHANGED <<input, tokenVars, installVars, gateVars>>

\* the process is killed between minting the token and saving it,
KilledMinting ==
  /\ pc = "provision"
  /\ ToPost
  /\ token' = "live" /\ excused' = TRUE
  /\ UNCHANGED <<input, saved, startTime, installVars, gateVars>>

\* or the runner is lost.
RunnerLost ==
  /\ pc # "done"
  /\ pc' = "done"
  /\ excused' = TRUE
  /\ UNCHANGED <<input, token, saved, startTime, installVars, gateVars>>

\* Mutant: the token is disposed of in the branch that reports the duration of a
\* run that got to its inputs.
DisposesAfterRun == startTime = "saved" /\ attempt > 0

\* A start time that does not decode fails post before it gets to the token.
Disposes == startTime # "unreadable"

ReadStart ==
  /\ pc = "post"
  /\ pc' = IF Disposes THEN "dispose" ELSE "done"
  /\ excused' = (excused \/ startTime = "unreadable")
  /\ UNCHANGED <<input, token, saved, startTime, installVars, gateVars>>

\* dispose() does nothing without a saved token; a failed revocation is a warning.
Dispose ==
  /\ pc = "dispose"
  /\ pc' = "done"
  /\ \/ saved /\ token' = "revoked" /\ UNCHANGED excused
     \/ saved /\ excused' = TRUE /\ UNCHANGED token
     \/ ~saved /\ UNCHANGED <<token, excused>>
  /\ UNCHANGED <<input, saved, startTime, installVars, gateVars>>

-----------------------------------------------------------------------------

Init ==
  /\ input \in [timeout : Timeouts, retries : Retries, pm : PackageManagers, mode : Modes,
                autoMerge : BOOLEAN, moved : BOOLEAN, script : BOOLEAN]
  /\ input.script => input.pm = "pnpm"
  /\ pc = "saveStart"
  /\ token = "none" /\ saved = FALSE /\ startTime = "none" /\ excused = FALSE
  /\ attempt = 0 /\ waited = 0
  /\ lockfile = "committed" /\ manager = "none" /\ binDir = FALSE /\ mixed = FALSE
  /\ world = "before" /\ rules = "none" /\ members = "none"
  /\ required \in BOOLEAN
  /\ seen = "none" /\ gate = "open"

Pre  == SaveStart \/ Provision
Main == ReadInputs \/ BuildClients \/ Activate \/ Updates \/ Clean \/ InstallSucceeds
        \/ InstallFails \/ Retry \/ GiveUp \/ Commands \/ Snapshot \/ PeerCheck \/ Publish
        \/ Fails
Post == ReadStart \/ Dispose
Runner == Cancel \/ KilledMinting \/ RunnerLost

Next == Pre \/ Main \/ Post \/ Runner
Spec == Init /\ [][Next]_vars

\* The runner carries a phase on; the timeout ends a command that hangs.
FairSpec == Spec /\ WF_vars(Pre \/ Main \/ Post)

-----------------------------------------------------------------------------
(* Properties *)

\* Whichever phase failed or was cancelled, the token the job minted is revoked
\* when it ends, unless the runner, GitHub or the action's state kept post from it
\* (pre.ts, post.ts).
TokenRevoked == pc = "done" /\ token = "live" => excused

\* Where the removal is npm's or pnpm's own, an install that the run goes on from
\* wrote the lockfile from nothing, in its own attempt: nothing an earlier attempt or
\* the commit left is in it.  A workspace's own clean script may leave either
\* (runInstall).
CleanSlate ==
  attempt > 0 /\ Cleans /\ pc \in {"commands", "snapshot", "peerCheck", "publish"} =>
    lockfile = "clean"

\* Once the run moved the pin, the lockfile is the pinned manager's, and no command
\* has run under another: the installer is told not to answer from the runner's, and
\* keeps to it (activatePackageManagerStep, spawnOptions).
PinnedManagerWrites ==
  input.moved /\ pc \in {"commands", "snapshot", "peerCheck", "publish"} =>
    manager = "pinned" /\ ~mixed

\* Auto-merge is left on by a gate that can withhold it only when the updated
\* workspace, under its own rules, has every required peer (peerCheckStep).
GateIsProven == gate = "pass" => ~required /\ seen = "read"

\* Inputs that were let through leave time for every wait of the budget: no retry
\* that is due is one only the timeout can end (readInputs, unmatchedWaitSeconds).
WaitsFit == pc = "unmatched" /\ MayRetry => waited + Wait < input.timeout

\* Every job ends, whatever hangs.
JobEnds == <>(pc = "done")

=============================================================================
