------------------------- MODULE UpdateBranchProofs -------------------------
(* Proofs about UpdateBranch, for every set of runs, commits and edits. *)
EXTENDS UpdateBranch, TLAPS

-----------------------------------------------------------------------------
(* Type correctness *)

\* Closing a pull request, which GitHub does when the branch is reset or
\* deleted (branchCreate, manageBranchImpl), gives a pull request.
LEMMA ClosedType == ASSUME NEW p \in PullRequest PROVE Closed(p) \in PullRequest
  BY DEF PullRequest, Closed

\* It neither signs the pull request nor enables auto-merge.
LEMMA ClosedKeeps ==
  ASSUME NEW p \in PullRequest
  PROVE  Closed(p).by = p.by /\ (Closed(p).auto => p.auto)
  BY DEF PullRequest, Closed

\* The type invariant of the shared branch holds in every reachable state.
THEOREM TypeCorrect == Spec => []TypeOK
<1>1. Init => TypeOK
  BY RunsAssumption DEF Init, TypeOK, Branch, PullRequest, NoBranch, NoPr
<1>2. TypeOK /\ [Next]_vars => TypeOK'
  <2> SUFFICES ASSUME TypeOK, [Next]_vars PROVE TypeOK'
    OBVIOUS
  <2> USE RunsAssumption DEF TypeOK, Branch, PullRequest, Commits, Active, Ended,
                             NoBranch, Goto, githubVars, historyVars, runVars
  <2>1. ASSUME NEW r \in Runs, RunStep(r) PROVE TypeOK'
    <3>1. CASE Start(r) BY <3>1 DEF Start
    <3>2. CASE ValidateBranches(r) BY <3>2 DEF ValidateBranches
    <3>3. CASE CheckForeign(r) BY <3>3 DEF CheckForeign, Ahead
    <3>4. CASE ReadSourceSha(r) BY <3>4 DEF ReadSourceSha
    <3>5. CASE UpsertBranch(r)
      <4>1. pr' \in PullRequest
        BY <3>5, ClosedType DEF UpsertBranch
      <4>2. lost' \subseteq HumanCommits \X Runs
        BY <3>5 DEF UpsertBranch
      <4>3. branch' \in Branch
        BY <3>5 DEF UpsertBranch
      <4> QED
        BY <3>5, <4>1, <4>2, <4>3 DEF UpsertBranch
    <3>6. CASE CheckoutBranch(r) BY <3>6 DEF CheckoutBranch
    <3>7. CASE FindNothing(r) BY <3>7 DEF FindNothing
    <3>8. CASE FindChanges(r)
      <4>1. withheld' \in [Runs -> BOOLEAN]
        <5>1. PICK w \in BOOLEAN : withheld' = [withheld EXCEPT ![r] = w]
          BY <3>8 DEF FindChanges
        <5> QED
          BY <5>1
      <4> QED
        BY <3>8, <4>1 DEF FindChanges
    <3>9. CASE SkipCommitAndPr(r) BY <3>9 DEF SkipCommitAndPr
    <3>10. CASE NothingToCommit(r) BY <3>10 DEF NothingToCommit
    <3>11. CASE ReadHead(r) BY <3>11 DEF ReadHead
    <3>12. CASE UpdateRef(r) BY <3>12 DEF UpdateRef
    <3>13. CASE ResyncLocal(r) BY <3>13 DEF ResyncLocal
    <3>14. CASE ListPr(r) BY <3>14 DEF ListPr, PriorBody
    <3>15. CASE UpsertPr(r) BY <3>15 DEF UpsertPr
    <3>16. CASE PrFails(r) BY <3>16 DEF PrFails
    <3>17. CASE SetAutoMerge(r) BY <3>17 DEF SetAutoMerge
    <3>18. CASE AutoMergeFails(r) BY <3>18 DEF AutoMergeFails
    <3>19. CASE Abort(r) BY <3>19 DEF Abort
    <3>20. CASE Reschedule(r) BY <3>20 DEF Reschedule
    <3> QED
      BY <2>1, <3>1, <3>2, <3>3, <3>4, <3>5, <3>6, <3>7, <3>8, <3>9, <3>10, <3>11,
         <3>12, <3>13, <3>14, <3>15, <3>16, <3>17, <3>18, <3>19, <3>20 DEF RunStep
  <2>2. CASE WorldStep
    <3>1. CASE \E h \in HumanCommits : PushCommit(h) BY <3>1 DEF PushCommit
    <3>2. CASE \E e \in Edits : EditDescription(e)
      <4>1. PICK e \in Edits : EditDescription(e)
        BY <3>2
      <4>2. pr' \in PullRequest
        <5>1. pr' = [pr EXCEPT !.prose = pr.prose \cup {e}]
          BY <4>1 DEF EditDescription
        <5>2. pr.prose \cup {e} \in SUBSET Edits
          OBVIOUS
        <5> QED
          BY <5>1, <5>2
      <4>3. UNCHANGED <<source, merged, branch, runVars, historyVars>>
        BY <4>1 DEF EditDescription
      <4> QED
        BY <4>2, <4>3
    <3>3. CASE ClosePr BY <3>3, ClosedType DEF ClosePr
    <3>4. CASE \E s \in {"merge", "squash"} : MergePr(s)
      <4>1. merged' \subseteq Commits
        BY <3>4 DEF MergePr
      <4>2. cleared' \subseteq HumanCommits
        BY <3>4 DEF MergePr
      <4>3. pr' \in PullRequest
        <5>1. pr' = [pr EXCEPT !.state = "merged", !.auto = FALSE]
          BY <3>4 DEF MergePr
        <5> QED
          BY <5>1
      <4>4. source' \in 0..MaxSource
        BY <3>4 DEF MergePr
      <4>5. UNCHANGED <<branch, runVars, pushed, lost, landed>>
        BY <3>4 DEF MergePr
      <4> QED
        BY <4>1, <4>2, <4>3, <4>4, <4>5
    <3>5. CASE DeleteBranch
      <4>1. pr' \in PullRequest
        BY <3>5, ClosedType DEF DeleteBranch
      <4>2. cleared' \subseteq HumanCommits
        BY <3>5 DEF DeleteBranch
      <4> QED
        BY <3>5, <4>1, <4>2 DEF DeleteBranch
    <3>6. CASE MoveSource BY <3>6 DEF MoveSource
    <3> QED
      BY <2>2, <3>1, <3>2, <3>3, <3>4, <3>5, <3>6 DEF WorldStep
  <2>3. CASE UNCHANGED vars
    BY <2>3 DEF vars
  <2> QED
    BY <2>1, <2>2, <2>3 DEF Next
<1> QED
  BY <1>1, <1>2, PTL DEF Spec

-----------------------------------------------------------------------------
(* What a run that can tell its own commits saw, it does not discard *)

\* A run that has not got past its check has discarded nothing; one that is
\* about to reset the branch, or has discarded something, saw no human commit.
SeenInv ==
  \A r \in Runs :
    /\ pc[r] \in {"idle", "validate", "check"} =>
         \A h \in HumanCommits : <<h, r>> \notin lost
    /\ /\ HasIdentity
       /\ \/ pc[r] \in {"sha", "upsert"}
          \/ \E h \in HumanCommits : <<h, r>> \in lost
       => seen[r] \subseteq Runs

\* The steps that neither look at the branch nor reset it.
QuietStep(r) ==
  /\ UNCHANGED <<seen, lost>>
  /\ \E to \in {"checkout", "work", "unchanged", "commit", "completed", "ref", "resync",
               "list", "upsertPr", "autoMerge", "failed"} : pc' = [pc EXCEPT ![r] = to]

\* A step of a run preserves SeenInv: CheckForeign establishes it, the reset
\* (manageBranchImpl) relies on it.
LEMMA SeenRunStep ==
  ASSUME TypeOK, SeenInv, NEW r \in Runs, RunStep(r) PROVE SeenInv'
<1> USE RunsAssumption DEF TypeOK, Commits, SeenInv, Goto, historyVars
<1>1. CASE Start(r) BY <1>1 DEF Start
<1>2. CASE ValidateBranches(r) BY <1>2 DEF ValidateBranches
<1>3. CASE CheckForeign(r)
  <2>1. HasIdentity /\ pc'[r] = "sha" => seen'[r] \subseteq Runs
    BY <1>3 DEF CheckForeign, Blocked, ForeignCommits, Ahead
  <2>2. \A h \in HumanCommits : <<h, r>> \notin lost'
    BY <1>3 DEF CheckForeign
  <2>3. /\ pc'[r] \in {"sha", "foreign"}
        /\ UNCHANGED lost
        /\ \A q \in Runs \ {r} : pc'[q] = pc[q] /\ seen'[q] = seen[q]
    BY <1>3 DEF CheckForeign
  <2> QED
    BY <2>1, <2>2, <2>3
<1>4. CASE ReadSourceSha(r) BY <1>4 DEF ReadSourceSha
<1>5. CASE UpsertBranch(r)
  <2>1. HasIdentity => seen'[r] \subseteq Runs
    BY <1>5 DEF UpsertBranch
  <2>2. \A q \in Runs \ {r} : \A h \in HumanCommits : <<h, q>> \in lost' => <<h, q>> \in lost
    BY <1>5 DEF UpsertBranch
  <2>3. /\ pc'[r] = "checkout"
        /\ \A q \in Runs \ {r} : pc'[q] = pc[q] /\ seen'[q] = seen[q]
    BY <1>5 DEF UpsertBranch
  <2> QED
    BY <2>1, <2>2, <2>3
<1>6. CASE Reschedule(r)
  <2>1. \A h \in HumanCommits : <<h, r>> \notin lost'
    BY <1>6 DEF Reschedule
  <2>2. lost' \subseteq lost /\ seen' = seen
    BY <1>6 DEF Reschedule
  <2>3. pc'[r] = "idle" /\ \A q \in Runs \ {r} : pc'[q] = pc[q]
    BY <1>6 DEF Reschedule
  <2> QED
    BY <2>1, <2>2, <2>3
<1>7. CASE QuietStep(r)
  BY <1>7 DEF QuietStep
<1> QED
  <2> USE DEF QuietStep
  <2>1. CASE CheckoutBranch(r) BY <1>7, <2>1 DEF CheckoutBranch
  <2>2. CASE FindNothing(r) BY <1>7, <2>2 DEF FindNothing
  <2>3. CASE FindChanges(r) BY <1>7, <2>3 DEF FindChanges
  <2>4. CASE SkipCommitAndPr(r) BY <1>7, <2>4 DEF SkipCommitAndPr
  <2>5. CASE NothingToCommit(r) BY <1>7, <2>5 DEF NothingToCommit
  <2>6. CASE ReadHead(r) BY <1>7, <2>6 DEF ReadHead
  <2>7. CASE UpdateRef(r) BY <1>7, <2>7 DEF UpdateRef
  <2>8. CASE ResyncLocal(r) BY <1>7, <2>8 DEF ResyncLocal
  <2>9. CASE ListPr(r) BY <1>7, <2>9 DEF ListPr
  <2>10. CASE UpsertPr(r) BY <1>7, <2>10 DEF UpsertPr
  <2>11. CASE PrFails(r) BY <1>7, <2>11 DEF PrFails
  <2>12. CASE SetAutoMerge(r) BY <1>7, <2>12 DEF SetAutoMerge
  <2>13. CASE AutoMergeFails(r) BY <1>7, <2>13 DEF AutoMergeFails
  <2>14. CASE Abort(r) BY <1>7, <2>14 DEF Abort
  <2> HIDE DEF QuietStep
  <2> QED
    BY <1>1, <1>2, <1>3, <1>4, <1>5, <1>6, <2>1, <2>2, <2>3, <2>4, <2>5, <2>6, <2>7, <2>8,
       <2>9, <2>10, <2>11, <2>12, <2>13, <2>14 DEF RunStep

\* Whatever other runs and people do between the check and the reset, a run of
\* an App with an identity discards no human commit its check saw (branchStep).
THEOREM SeenWorkIsSafe == Spec => []SeenWorkSurvives
<1>1. Init => SeenInv
  BY DEF Init, SeenInv
<1>2. TypeOK /\ SeenInv /\ [Next]_vars => SeenInv'
  <2> SUFFICES ASSUME TypeOK, SeenInv, [Next]_vars PROVE SeenInv'
    OBVIOUS
  <2>1. ASSUME NEW r \in Runs, RunStep(r) PROVE SeenInv'
    BY <2>1, SeenRunStep
  <2>2. CASE WorldStep
    <3>1. UNCHANGED <<pc, seen, lost>>
      BY <2>2 DEF WorldStep, PushCommit, EditDescription, ClosePr, MergePr, DeleteBranch,
                  MoveSource, runVars, historyVars
    <3> QED
      BY <3>1 DEF SeenInv
  <2>3. CASE UNCHANGED vars
    BY <2>3 DEF vars, SeenInv
  <2> QED
    BY <2>1, <2>2, <2>3 DEF Next
<1>3. TypeOK /\ SeenInv => SeenWorkSurvives
  BY RunsAssumption DEF TypeOK, SeenInv, SeenWorkSurvives
<1> QED
  BY <1>1, <1>2, <1>3, TypeCorrect, PTL DEF Spec

-----------------------------------------------------------------------------
(* Commits leave the branch by a reset or with the branch *)

\* The action of CommitsLeaveByReset, and the steps that leave the branch alone.
LeaveByReset ==
  \A c \in Commits :
    c \in branch.on /\ c \notin branch'.on =>
      \/ ~branch'.exists
      \/ \E r \in Runs : pc[r] = "upsert" /\ pc'[r] = "checkout"

\* commitFiles moves the ref without force: a run's push never drops what
\* somebody pushed, or a reset left, since it read the head of the branch.
THEOREM CommitsAreSafe == Spec => CommitsLeaveByReset
<1>1. TypeOK /\ [Next]_vars => [LeaveByReset]_vars
  <2> SUFFICES ASSUME TypeOK, Next PROVE LeaveByReset
    BY DEF LeaveByReset, vars
  <2> USE DEF LeaveByReset
  <2>1. ASSUME NEW r \in Runs, RunStep(r) PROVE LeaveByReset
    <3>1. CASE UpsertBranch(r)
      BY <3>1 DEF UpsertBranch, Goto, TypeOK
    <3>2. CASE UpdateRef(r)
      <4>1. branch'.on = snap[r].on \cup {r}
        BY <3>2 DEF UpdateRef, TypeOK, Branch
      <4>2. branch.on \subseteq snap[r].on
        BY <3>2 DEF UpdateRef, FastForward
      <4> QED
        BY <4>1, <4>2
    <3>3. CASE UNCHANGED branch
      BY <3>3
    <3> QED
      BY <2>1, <3>1, <3>2, <3>3
         DEF RunStep, Start, ValidateBranches, CheckForeign, ReadSourceSha, CheckoutBranch,
             FindNothing, FindChanges, SkipCommitAndPr, NothingToCommit, ReadHead,
             ResyncLocal, ListPr, UpsertPr, PrFails, SetAutoMerge, AutoMergeFails, Abort,
             Reschedule, githubVars
  <2>2. CASE WorldStep
    <3>1. CASE \E h \in HumanCommits : PushCommit(h)
      <4>1. branch.on \subseteq branch'.on
        BY <3>1 DEF PushCommit, TypeOK, Branch
      <4> QED
        BY <4>1
    <3>2. CASE DeleteBranch
      BY <3>2 DEF DeleteBranch, NoBranch
    <3>3. CASE UNCHANGED branch
      BY <3>3
    <3> QED
      BY <2>2, <3>1, <3>2, <3>3 DEF WorldStep, EditDescription, ClosePr, MergePr, MoveSource
  <2> QED
    BY <2>1, <2>2 DEF Next
<1> QED
  BY <1>1, TypeCorrect, PTL DEF Spec, CommitsLeaveByReset, LeaveByReset

-----------------------------------------------------------------------------
(* What a run publishes *)

\* A run has published nothing before its commit step, and only a run that is
\* not dry goes past it; only one that may enable auto-merge gets to that call.
PublishInv ==
  \A r \in Runs :
    /\ pc[r] \in {"idle", "validate", "check", "sha", "upsert", "checkout", "work", "commit"}
         => r \notin landed /\ pr.by # r
    /\ pc[r] \in {"ref", "resync", "list", "upsertPr", "autoMerge"} => ~dry[r]
    /\ pc[r] = "autoMerge" => AutoMerge /\ ~withheld[r]
    /\ dry[r] => r \notin landed /\ pr.by # r

\* The four parts together are inductive.
LEMMA PublishRunStep ==
  ASSUME TypeOK, PublishInv, NEW r \in Runs, RunStep(r) PROVE PublishInv'
<1> USE RunsAssumption DEF PublishInv, TypeOK, PullRequest, Goto, githubVars, historyVars
<1>1. CASE Start(r)
  <2>1. PICK d \in BOOLEAN : dry' = [dry EXCEPT ![r] = d]
    BY <1>1 DEF Start
  <2>2. pc' = [pc EXCEPT ![r] = "validate"] /\ pc[r] = "idle"
    BY <1>1 DEF Start
  <2>3. UNCHANGED <<landed, pr, withheld>>
    BY <1>1 DEF Start
  <2> QED
    BY <2>1, <2>2, <2>3
<1>2. CASE ValidateBranches(r) BY <1>2 DEF ValidateBranches
<1>3. CASE CheckForeign(r) BY <1>3 DEF CheckForeign
<1>4. CASE ReadSourceSha(r) BY <1>4 DEF ReadSourceSha
<1>5. CASE UpsertBranch(r)
  <2>1. pr'.by = pr.by
    BY <1>5 DEF UpsertBranch, Closed
  <2> QED
    BY <1>5, <2>1 DEF UpsertBranch
<1>6. CASE CheckoutBranch(r) BY <1>6 DEF CheckoutBranch
<1>7. CASE FindNothing(r) BY <1>7 DEF FindNothing
<1>8. CASE FindChanges(r)
  <2>1. PICK w \in BOOLEAN : withheld' = [withheld EXCEPT ![r] = w]
    BY <1>8 DEF FindChanges
  <2>2. pc' = [pc EXCEPT ![r] = "commit"] /\ pc[r] = "work"
    BY <1>8 DEF FindChanges
  <2>3. UNCHANGED <<landed, pr, dry>>
    BY <1>8 DEF FindChanges
  <2> QED
    BY <2>1, <2>2, <2>3
<1>9. CASE SkipCommitAndPr(r) BY <1>9 DEF SkipCommitAndPr
<1>10. CASE NothingToCommit(r) BY <1>10 DEF NothingToCommit
<1>11. CASE ReadHead(r) BY <1>11 DEF ReadHead
<1>12. CASE UpdateRef(r) BY <1>12 DEF UpdateRef
<1>13. CASE ResyncLocal(r) BY <1>13 DEF ResyncLocal
<1>14. CASE ListPr(r) BY <1>14 DEF ListPr
<1>15. CASE UpsertPr(r) BY <1>15 DEF UpsertPr, AutoMergeWanted
<1>16. CASE PrFails(r) BY <1>16 DEF PrFails
<1>17. CASE SetAutoMerge(r) BY <1>17 DEF SetAutoMerge
<1>18. CASE AutoMergeFails(r) BY <1>18 DEF AutoMergeFails
<1>19. CASE Abort(r) BY <1>19 DEF Abort, Active
<1>20. CASE Reschedule(r)
  <2>1. pr'.by # r /\ r \notin landed'
    BY <1>20 DEF Reschedule
  <2>2. \A q \in Runs \ {r} : (q \in landed' => q \in landed) /\ (pr'.by = q => pr.by = q)
    BY <1>20 DEF Reschedule
  <2>3. UNCHANGED <<dry, withheld>> /\ pc' = [pc EXCEPT ![r] = "idle"]
    BY <1>20 DEF Reschedule
  <2> QED
    BY <2>1, <2>2, <2>3
<1> QED
  BY <1>1, <1>2, <1>3, <1>4, <1>5, <1>6, <1>7, <1>8, <1>9, <1>10, <1>11, <1>12, <1>13,
     <1>14, <1>15, <1>16, <1>17, <1>18, <1>19, <1>20 DEF RunStep

\* Nobody else signs a pull request or makes a run's commit land.
LEMMA PublishInvariant == Spec => []PublishInv
<1>1. Init => PublishInv
  <2> SUFFICES ASSUME Init PROVE PublishInv
    OBVIOUS
  <2>1. pr.by = NoRun /\ landed = {}
    BY DEF Init, NoPr
  <2>2. \A r \in Runs : pc[r] = "idle" /\ ~dry[r]
    BY DEF Init
  <2> QED
    BY <2>1, <2>2, RunsAssumption DEF PublishInv
<1>2. TypeOK /\ PublishInv /\ [Next]_vars => PublishInv'
  <2> SUFFICES ASSUME TypeOK, PublishInv, [Next]_vars PROVE PublishInv'
    OBVIOUS
  <2>1. ASSUME NEW r \in Runs, RunStep(r) PROVE PublishInv'
    BY <2>1, PublishRunStep
  <2>2. CASE WorldStep
    <3>1. pr'.by = pr.by
      <4>1. CASE ClosePr BY <4>1, ClosedKeeps DEF ClosePr, TypeOK
      <4>2. CASE DeleteBranch BY <4>2, ClosedKeeps DEF DeleteBranch, TypeOK
      <4>3. CASE \E s \in {"merge", "squash"} : MergePr(s)
        BY <4>3 DEF MergePr, TypeOK, PullRequest
      <4>4. CASE \E e \in Edits : EditDescription(e)
        BY <4>4 DEF EditDescription, TypeOK, PullRequest
      <4> QED
        BY <2>2, <4>1, <4>2, <4>3, <4>4 DEF WorldStep, PushCommit, MoveSource
    <3>2. UNCHANGED <<pc, dry, withheld, landed>>
      BY <2>2 DEF WorldStep, PushCommit, EditDescription, ClosePr, MergePr, DeleteBranch,
                  MoveSource, runVars, historyVars
    <3> QED
      BY <3>1, <3>2 DEF PublishInv
  <2>3. CASE UNCHANGED vars
    BY <2>3 DEF vars, PublishInv
  <2> QED
    BY <2>1, <2>2, <2>3 DEF Next
<1> QED
  BY <1>1, <1>2, TypeCorrect, PTL DEF Spec

\* A dry run's commit never lands and no pull request is a dry run's
\* (commitAndPrStep), whatever happens around it.
THEOREM DryRunIsQuiet == Spec => []DryRunPublishesNothing
<1>1. PublishInv => DryRunPublishesNothing
  BY DEF PublishInv, DryRunPublishesNothing
<1> QED
  BY <1>1, PublishInvariant, PTL

\* An enabled auto-merge goes back to a completed run, not dry, whose peer gate
\* did not withhold it (program.ts, createOrUpdatePRImpl).
THEOREM AutoMergeIsEarned == Spec => []AutoMergeEarned
<1>1. Init => AutoMergeEarned
  BY DEF Init, NoPr, AutoMergeEarned
<1>2. TypeOK /\ PublishInv /\ AutoMergeEarned /\ [Next]_vars => AutoMergeEarned'
  <2> SUFFICES ASSUME TypeOK, PublishInv, AutoMergeEarned, [Next]_vars, pr'.auto
               PROVE  AutoMergeEarned'
    BY DEF AutoMergeEarned
  <2> USE DEF TypeOK, PullRequest
  <2>1. CASE \E r \in Runs : SetAutoMerge(r)
    <3>1. PICK r \in Runs : SetAutoMerge(r)
      BY <2>1
    <3>2. AutoMerge /\ ~withheld[r] /\ ~dry[r]
      BY <3>1 DEF SetAutoMerge, Goto, PublishInv
    <3>3. pc'[r] = "completed" /\ UNCHANGED <<withheld, dry>>
      BY <3>1 DEF SetAutoMerge, Goto
    <3> QED
      BY <3>2, <3>3 DEF AutoMergeEarned
  <2>2. CASE pr.auto
    <3>1. ASSUME NEW r \in Runs, pc[r] = "completed", ~Recurring
          PROVE  pc'[r] = "completed" /\ withheld'[r] = withheld[r] /\ dry'[r] = dry[r]
      <4>1. CASE WorldStep
        BY <3>1, <4>1 DEF WorldStep, PushCommit, EditDescription, ClosePr, MergePr,
                          DeleteBranch, MoveSource, runVars
      <4>2. ASSUME NEW q \in Runs, RunStep(q)
            PROVE  pc'[r] = "completed" /\ withheld'[r] = withheld[r] /\ dry'[r] = dry[r]
        <5>1. pc[q] # "completed"
          BY <3>1, <4>2 DEF RunStep, Start, ValidateBranches, CheckForeign, ReadSourceSha,
             UpsertBranch, CheckoutBranch, FindNothing, FindChanges, SkipCommitAndPr,
             NothingToCommit, ReadHead, UpdateRef, ResyncLocal, ListPr, UpsertPr, PrFails,
             SetAutoMerge, AutoMergeFails, Abort, Reschedule, Goto, Active
        <5>2. \A s \in Runs \ {q} : pc'[s] = pc[s] /\ withheld'[s] = withheld[s] /\ dry'[s] = dry[s]
          <6>1. CASE Start(q)
            BY <6>1, RunsAssumption DEF Start, Goto
          <6>2. CASE FindChanges(q)
            BY <6>2 DEF FindChanges, Goto
          <6>3. CASE UNCHANGED <<dry, withheld>>
            BY <3>1, <4>2, <6>3 DEF RunStep, Start, ValidateBranches, CheckForeign, ReadSourceSha,
               UpsertBranch, CheckoutBranch, FindNothing, FindChanges, SkipCommitAndPr,
               NothingToCommit, ReadHead, UpdateRef, ResyncLocal, ListPr, UpsertPr, PrFails,
               SetAutoMerge, AutoMergeFails, Abort, Reschedule, Goto
          <6> QED
            BY <3>1, <4>2, <6>1, <6>2, <6>3 DEF RunStep, ValidateBranches, CheckForeign,
               ReadSourceSha, UpsertBranch, CheckoutBranch, FindNothing, SkipCommitAndPr,
               NothingToCommit, ReadHead, UpdateRef, ResyncLocal, ListPr, UpsertPr, PrFails,
               SetAutoMerge, AutoMergeFails, Abort, Reschedule
        <5> QED
          BY <3>1, <5>1, <5>2
      <4> QED
        BY <3>1, <4>1, <4>2 DEF Next, vars
    <3> QED
      BY <2>2, <3>1 DEF AutoMergeEarned
  <2>3. CASE ~pr.auto /\ ~\E r \in Runs : SetAutoMerge(r)
    <3>1. CASE WorldStep
      BY <2>3, <3>1 DEF WorldStep, PushCommit, EditDescription, ClosePr, MergePr,
                        DeleteBranch, MoveSource, Closed
    <3>2. ASSUME NEW r \in Runs, RunStep(r) PROVE FALSE
      <4>1. CASE UpsertBranch(r)
        BY <2>3, <4>1, ClosedKeeps DEF UpsertBranch
      <4>2. CASE UpsertPr(r)
        BY <2>3, <4>2 DEF UpsertPr
      <4>3. CASE Reschedule(r)
        BY <2>3, <4>3 DEF Reschedule
      <4>4. CASE UNCHANGED pr
        BY <2>3, <4>4
      <4> QED
        BY <2>3, <3>2, <4>1, <4>2, <4>3, <4>4 DEF RunStep, Start, ValidateBranches, CheckForeign, ReadSourceSha,
           CheckoutBranch, FindNothing, FindChanges, SkipCommitAndPr, NothingToCommit,
           ReadHead, UpdateRef, ResyncLocal, ListPr, PrFails, AutoMergeFails, Abort,
           githubVars
    <3> QED
      BY <2>3, <3>1, <3>2 DEF Next, vars
  <2> QED
    BY <2>1, <2>2, <2>3
<1> QED
  BY <1>1, <1>2, TypeCorrect, PublishInvariant, PTL DEF Spec

-----------------------------------------------------------------------------
(* The description *)

LEMMA ProseRunStep ==
  ASSUME TypeOK, NEW r \in Runs, RunStep(r), NEW e, Settled(e), pr'.state = "open"
  PROVE  Settled(e)'
<1> USE DEF TypeOK, Settled
<1>1. ASSUME UpsertBranch(r) PROVE Settled(e)'
  <2>1. pr' = pr
    BY <1>1 DEF UpsertBranch, Closed, PullRequest
  <2> QED BY <1>1, <2>1 DEF UpsertBranch, Goto
<1>2. ASSUME ListPr(r) PROVE Settled(e)'
  <2>1. PriorBody = pr.prose
    BY DEF PriorBody
  <2> QED BY <1>2, <2>1 DEF ListPr, Goto, githubVars
<1>3. ASSUME UpsertPr(r) PROVE Settled(e)'
  <2>1. pc[r] = "upsertPr" /\ pr'.prose = prior[r] /\ prior' = prior
    BY <1>3 DEF UpsertPr, Goto
  <2>2. \A q \in Runs : pc'[q] = "upsertPr" => pc[q] = "upsertPr"
    BY <1>3 DEF UpsertPr, Goto
  <2> QED BY <2>1, <2>2
<1>4. ASSUME ~UpsertBranch(r), ~ListPr(r), ~UpsertPr(r) PROVE Settled(e)'
  <2>2. CASE Start(r) BY <2>2 DEF Start, Goto, githubVars, historyVars, PullRequest
  <2>3. CASE ValidateBranches(r) BY <2>3 DEF ValidateBranches, Goto, githubVars, historyVars, PullRequest
  <2>4. CASE CheckForeign(r) BY <2>4 DEF CheckForeign, Goto, githubVars, historyVars, PullRequest
  <2>5. CASE ReadSourceSha(r) BY <2>5 DEF ReadSourceSha, Goto, githubVars, historyVars, PullRequest
  <2>6. CASE CheckoutBranch(r) BY <2>6 DEF CheckoutBranch, Goto, githubVars, historyVars, PullRequest
  <2>7. CASE FindNothing(r) BY <2>7 DEF FindNothing, Goto, githubVars, historyVars, PullRequest
  <2>8. CASE FindChanges(r) BY <2>8 DEF FindChanges, Goto, githubVars, historyVars, PullRequest
  <2>9. CASE SkipCommitAndPr(r) BY <2>9 DEF SkipCommitAndPr, Goto, githubVars, historyVars, PullRequest
  <2>10. CASE NothingToCommit(r) BY <2>10 DEF NothingToCommit, Goto, githubVars, historyVars, PullRequest
  <2>11. CASE ReadHead(r) BY <2>11 DEF ReadHead, Goto, githubVars, historyVars, PullRequest
  <2>12. CASE UpdateRef(r) BY <2>12 DEF UpdateRef, Goto, githubVars, historyVars, PullRequest
  <2>13. CASE ResyncLocal(r) BY <2>13 DEF ResyncLocal, Goto, githubVars, historyVars, PullRequest
  <2>14. CASE PrFails(r) BY <2>14 DEF PrFails, Goto, githubVars, historyVars, PullRequest
  <2>15. CASE SetAutoMerge(r) BY <2>15 DEF SetAutoMerge, Goto, githubVars, historyVars, PullRequest
  <2>16. CASE AutoMergeFails(r) BY <2>16 DEF AutoMergeFails, Goto, githubVars, historyVars, PullRequest
  <2>17. CASE Abort(r) BY <2>17 DEF Abort, Goto, githubVars, historyVars, PullRequest
  <2>18. CASE Reschedule(r) BY <2>18 DEF Reschedule, Goto, githubVars, historyVars, PullRequest
  <2> QED BY <1>4, <2>2, <2>3, <2>4, <2>5, <2>6, <2>7, <2>8, <2>9, <2>10, <2>11, <2>12, <2>13, <2>14, <2>15, <2>16, <2>17, <2>18 DEF RunStep
<1> QED BY <1>1, <1>2, <1>3, <1>4

LEMMA ProseStep == ASSUME TypeOK, [Next]_vars PROVE EditsStay
<1> SUFFICES ASSUME NEW e \in Edits, Settled(e), pr'.state = "open" PROVE Settled(e)'
  BY DEF EditsStay
<1>1. ASSUME NEW r \in Runs, RunStep(r) PROVE Settled(e)'
  BY <1>1, ProseRunStep
<1>2. CASE WorldStep
  <2>1. CASE \E h \in HumanCommits : PushCommit(h)
    BY <2>1 DEF PushCommit, Settled, runVars
  <2>2. CASE \E f \in Edits : EditDescription(f)
    BY <2>2 DEF EditDescription, Settled, runVars, TypeOK, PullRequest
  <2>3. CASE ClosePr
    BY <2>3 DEF ClosePr, Closed, Settled, TypeOK, PullRequest
  <2>4. CASE \E s \in {"merge", "squash"} : MergePr(s)
    BY <2>4 DEF MergePr, Settled, TypeOK, PullRequest
  <2>5. CASE DeleteBranch
    BY <2>5 DEF DeleteBranch, Closed, Settled, TypeOK, PullRequest
  <2>6. CASE MoveSource
    BY <2>6 DEF MoveSource, Settled, runVars
  <2> QED BY <1>2, <2>1, <2>2, <2>3, <2>4, <2>5, <2>6 DEF WorldStep
<1>3. CASE UNCHANGED vars
  BY <1>3 DEF vars, Settled
<1> QED BY <1>1, <1>2, <1>3 DEF Next

(* However many runs overlap, an edit of the description that no run in flight is
   about to write over is never removed while the pull request stays open. *)
THEOREM SettledProseIsSafe == Spec => SettledProseStays
<1>1. TypeOK /\ [Next]_vars => [EditsStay]_vars
  BY ProseStep
<1> QED BY TypeCorrect, <1>1, PTL DEF Spec, SettledProseStays

=============================================================================
