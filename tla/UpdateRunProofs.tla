--------------------------- MODULE UpdateRunProofs ---------------------------
(* Proofs about UpdateRun, for every package manager and every input. *)
EXTENDS UpdateRun, TLAPS

\* What has-changes says once the exit a run takes has set it.
Claimed == IF path = "complete" THEN "true" ELSE "false"

\* The steps of an exit, and those before the run can publish anything.
ExitSteps == {"conclude", "hasChanges", "count", "prOutputs", "doc", "summary"}
Unclaimed == Steps \ {"baseline", "count", "prOutputs", "doc", "summary", "complete", "end"}
Unpublished == Early \cup {"open", "detect", "status", "branch", "before", "pm", "activate",
  "runtime", "config", "regular", "peerSync", "install", "format", "commands", "after",
  "changes", "changesets", "peerCheck", "commit"}

\* The program in the check run has returned.
Returned == pc = "complete" /\ exit = "success"

\* Where the run is, what it has said so far and what it has published.
Flow ==
  /\ pc # "end" => job = "running"
  /\ pc = "baseline" => hasChanges = "unset"
  /\ pc \in Unclaimed => hasChanges = "false"
  /\ pc \in ExitSteps => path # "none"
  /\ pc \in {"count", "prOutputs", "doc", "summary"} => hasChanges = Claimed
  /\ pc = "complete" => exit # "none" /\ hasChanges # "unset"
  /\ Returned => path \notin {"none", "failed"} /\ hasChanges = Claimed
  /\ exit = "success" => pc \in {"complete", "end"}
  /\ pc \in Unpublished \/ path \in {"foreign", "failed", "unchanged"} => ~landed /\ ~opened
  /\ pc \in {"resync", "pr"} => ~opened
  /\ pc \notin ExitSteps \cup {"complete", "end"} => path = "none"

-----------------------------------------------------------------------------
(* Type correctness, and the flow of control it rests on *)

\* The types survive every step: an exit has a conclusion, an end has a cause.
LEMMA TypeStep == TypeOK /\ Flow /\ [Next]_vars => TypeOK'
<1> SUFFICES ASSUME TypeOK, Flow, [Next]_vars PROVE TypeOK'
  OBVIOUS
<1> USE DEF TypeOK, Document, Steps, Early, Inside, Kinds, Installed, Verdicts, Goto, Complete,
            workVars, githubVars, outputVars, endVars, ExitSteps
<1>1. CASE EmitBaseline BY <1>1 DEF EmitBaseline
<1>2. CASE ReadInputs BY <1>2 DEF ReadInputs
<1>3. CASE OpenCheckRun BY <1>3 DEF OpenCheckRun
<1>4. CASE FailEarly BY <1>4 DEF FailEarly
<1>5. CASE ReadStep BY <1>5 DEF ReadStep, Follow
<1>6. CASE ManageBranch BY <1>6 DEF ManageBranch
<1>7. CASE UpgradePackageManager
  <2>1. CASE Goto("pm", "activate") /\ Update("pm", TRUE, TRUE)
    BY <2>1 DEF Update
  <2>2. CASE ~(Goto("pm", "activate") /\ Update("pm", TRUE, TRUE))
    <3>1. pc' = "runtime" /\ tree' \in {tree, TRUE}
      BY <1>7, <2>2 DEF UpgradePackageManager
    <3>2. UNCHANGED <<input, reported, stale, moved, githubVars, pullRequest, outputVars, endVars>>
      BY <1>7, <2>2 DEF UpgradePackageManager
    <3>3. tree' \in BOOLEAN
      BY <3>1
    <3> QED
      BY <3>1, <3>2, <3>3
  <2> QED
    BY <2>1, <2>2
<1>8. CASE ActivatePackageManager BY <1>8 DEF ActivatePackageManager
<1>9. CASE UpgradeRuntimes BY <1>9 DEF UpgradeRuntimes, Update
<1>10. CASE UpdateConfigDependencies BY <1>10 DEF UpdateConfigDependencies, Update
<1>11. CASE UpdateRegularDependencies BY <1>11 DEF UpdateRegularDependencies, Update
<1>12. CASE SyncPeers BY <1>12 DEF SyncPeers, Update
<1>13. CASE SkipInstall BY <1>13 DEF SkipInstall
<1>14. CASE Install
  <2>1. moved' \in BOOLEAN
    BY <1>14 DEF Install
  <2>2. tree' \in BOOLEAN
    BY <1>14 DEF Install
  <2> QED
    BY <1>14, <2>1, <2>2 DEF Install
<1>15. CASE FormatWorkspace
  <2>1. tree' \in BOOLEAN
    BY <1>15 DEF FormatWorkspace
  <2> QED
    BY <1>15, <2>1 DEF FormatWorkspace
<1>16. CASE RunCommands
  <2>1. moved' \in BOOLEAN
    BY <1>16 DEF RunCommands
  <2>2. tree' \in BOOLEAN
    BY <1>16 DEF RunCommands
  <2> QED
    BY <1>16, <2>1, <2>2 DEF RunCommands
<1>17. CASE DetectChanges BY <1>17 DEF DetectChanges
<1>18. CASE RegenerateChangesets
  <2>1. tree' \in BOOLEAN
    BY <1>18 DEF RegenerateChangesets
  <2> QED
    BY <1>18, <2>1 DEF RegenerateChangesets
<1>19. CASE SkipCommitAndPr BY <1>19 DEF SkipCommitAndPr
<1>20. CASE NothingToCommit BY <1>20 DEF NothingToCommit
<1>21. CASE CommitFiles BY <1>21 DEF CommitFiles
<1>22. CASE Resync BY <1>22 DEF Resync
<1>23. CASE UpsertPr BY <1>23 DEF UpsertPr
<1>24. CASE PrFails BY <1>24 DEF PrFails, InFlight
<1>25. CASE SetAutoMerge BY <1>25 DEF SetAutoMerge
<1>26. CASE Conclude
  <2>1. path \in {"foreign", "failed", "unchanged", "complete"}
    BY <1>26 DEF Conclude, Flow
  <2>2. Conclusion[path] \in Verdicts
    BY <2>1 DEF Conclusion
  <2> QED
    BY <1>26, <2>2 DEF Conclude
<1>27. CASE SetHasChanges BY <1>27 DEF SetHasChanges
<1>28. CASE SetCount
  <2>1. count' \subseteq Kinds
    BY <1>28 DEF SetCount
  <2> QED
    BY <1>28, <2>1 DEF SetCount
<1>29. CASE SetPrOutputs BY <1>29 DEF SetPrOutputs
<1>30. CASE EmitRunResult BY <1>30 DEF EmitRunResult
<1>31. CASE Return BY <1>31 DEF Return
<1>32. CASE Fail BY <1>32 DEF Fail, MayFail, InFlight
<1>33. CASE Timeout BY <1>33 DEF Timeout, UnderTimeout, InFlight
<1>34. CASE CompleteCheckRun
  <2>1. exit \in {"success", "failure", "interrupted"}
    BY <1>34 DEF CompleteCheckRun, Implied, Flow
  <2>2. Implied[exit] \in {"success", "failure", "cancelled"}
    BY <2>1 DEF Implied
  <2>3. checkRun' \in {"cancelled"} \cup Verdicts
    BY <1>34, <2>2 DEF CompleteCheckRun
  <2>4. job' \in {"succeeded", "failed"}
    BY <1>34 DEF CompleteCheckRun
  <2> QED
    BY <1>34, <2>3, <2>4 DEF CompleteCheckRun
<1>35. CASE CompleteFails BY <1>35 DEF CompleteFails
<1>36. CASE Kill BY <1>36 DEF Kill, InFlight
<1>37. CASE UNCHANGED vars BY <1>37 DEF vars
<1> QED
  BY <1>1, <1>2, <1>3, <1>4, <1>5, <1>6, <1>7, <1>8, <1>9, <1>10, <1>11, <1>12, <1>13, <1>14,
     <1>15, <1>16, <1>17, <1>18, <1>19, <1>20, <1>21, <1>22, <1>23, <1>24, <1>25, <1>26,
     <1>27, <1>28, <1>29, <1>30, <1>31, <1>32, <1>33, <1>34, <1>35, <1>36, <1>37 DEF Next

\* So does the account of what the run has said and published.
LEMMA FlowStep == TypeOK /\ Flow /\ [Next]_vars => Flow'
<1> SUFFICES ASSUME TypeOK, Flow, [Next]_vars PROVE Flow'
  OBVIOUS
<1> USE DEF TypeOK, Flow, Claimed, Returned, ExitSteps, Unclaimed, Unpublished, Steps, Early,
            Inside, Goto, Complete, workVars, githubVars, outputVars, endVars
<1>1. CASE EmitBaseline BY <1>1 DEF EmitBaseline
<1>2. CASE ReadInputs BY <1>2 DEF ReadInputs
<1>3. CASE OpenCheckRun BY <1>3 DEF OpenCheckRun
<1>4. CASE FailEarly BY <1>4 DEF FailEarly
<1>5. CASE ReadStep BY <1>5 DEF ReadStep, Follow
<1>6. CASE ManageBranch BY <1>6 DEF ManageBranch
<1>7. CASE UpgradePackageManager
  <2>1. CASE Goto("pm", "activate") /\ Update("pm", TRUE, TRUE)
    BY <2>1 DEF Update
  <2>2. CASE ~(Goto("pm", "activate") /\ Update("pm", TRUE, TRUE))
    <3>1. pc = "pm" /\ pc' = "runtime"
      BY <1>7, <2>2 DEF UpgradePackageManager
    <3>2. UNCHANGED <<input, reported, stale, moved, githubVars, pullRequest, outputVars, endVars>>
      BY <1>7, <2>2 DEF UpgradePackageManager
    <3> QED
      BY <3>1, <3>2
  <2> QED
    BY <2>1, <2>2
<1>8. CASE ActivatePackageManager BY <1>8 DEF ActivatePackageManager
<1>9. CASE UpgradeRuntimes BY <1>9 DEF UpgradeRuntimes, Update
<1>10. CASE UpdateConfigDependencies BY <1>10 DEF UpdateConfigDependencies, Update
<1>11. CASE UpdateRegularDependencies BY <1>11 DEF UpdateRegularDependencies, Update
<1>12. CASE SyncPeers BY <1>12 DEF SyncPeers, Update
<1>13. CASE SkipInstall BY <1>13 DEF SkipInstall
<1>14. CASE Install BY <1>14 DEF Install
<1>15. CASE FormatWorkspace BY <1>15 DEF FormatWorkspace
<1>16. CASE RunCommands BY <1>16 DEF RunCommands
<1>17. CASE DetectChanges BY <1>17 DEF DetectChanges
<1>18. CASE RegenerateChangesets BY <1>18 DEF RegenerateChangesets
<1>19. CASE SkipCommitAndPr BY <1>19 DEF SkipCommitAndPr
<1>20. CASE NothingToCommit BY <1>20 DEF NothingToCommit
<1>21. CASE CommitFiles BY <1>21 DEF CommitFiles
<1>22. CASE Resync BY <1>22 DEF Resync
<1>23. CASE UpsertPr BY <1>23 DEF UpsertPr
<1>24. CASE PrFails BY <1>24 DEF PrFails, InFlight
<1>25. CASE SetAutoMerge BY <1>25 DEF SetAutoMerge
<1>26. CASE Conclude BY <1>26 DEF Conclude, Conclusion
<1>27. CASE SetHasChanges BY <1>27 DEF SetHasChanges
<1>28. CASE SetCount BY <1>28 DEF SetCount
<1>29. CASE SetPrOutputs BY <1>29 DEF SetPrOutputs
<1>30. CASE EmitRunResult BY <1>30 DEF EmitRunResult
<1>31. CASE Return BY <1>31 DEF Return
<1>32. CASE Fail BY <1>32 DEF Fail, MayFail, InFlight
<1>33. CASE Timeout BY <1>33 DEF Timeout, UnderTimeout, InFlight
<1>34. CASE CompleteCheckRun BY <1>34 DEF CompleteCheckRun, Implied
<1>35. CASE CompleteFails BY <1>35 DEF CompleteFails
<1>36. CASE Kill BY <1>36 DEF Kill, InFlight
<1>37. CASE UNCHANGED vars BY <1>37 DEF vars
<1> QED
  BY <1>1, <1>2, <1>3, <1>4, <1>5, <1>6, <1>7, <1>8, <1>9, <1>10, <1>11, <1>12, <1>13, <1>14,
     <1>15, <1>16, <1>17, <1>18, <1>19, <1>20, <1>21, <1>22, <1>23, <1>24, <1>25, <1>26,
     <1>27, <1>28, <1>29, <1>30, <1>31, <1>32, <1>33, <1>34, <1>35, <1>36, <1>37 DEF Next

\* Both hold in every reachable state.
LEMMA Invariant == Spec => [](TypeOK /\ Flow)
<1>1. Init => TypeOK /\ Flow
  <2> SUFFICES ASSUME Init PROVE TypeOK /\ Flow
    OBVIOUS
  <2>1. Flow
    BY DEF Init, Flow, Returned, Claimed, ExitSteps, Unclaimed, Unpublished, Steps, Early, Inside
  <2>2. doc \in Document
    BY DEF Init, Document
  <2>3. TypeOK
    BY <2>2 DEF Init, TypeOK, Steps, Early, Inside, Verdicts
  <2> QED
    BY <2>1, <2>3
<1> QED
  BY <1>1, TypeStep, FlowStep, PTL DEF Spec

\* The type invariant of a run holds in every reachable state.
THEOREM TypeCorrect == Spec => []TypeOK
  BY Invariant, PTL

-----------------------------------------------------------------------------
(* The install comes before the commit *)

\* The steps from the install's success on to the ones that publish.
AfterInstall == {"format", "commands", "after", "changes", "changesets", "peerCheck", "commit",
  "resync", "pr", "autoMerge"}

\* Once the run is past the install no reported edit is without one, and it
\* stays so: none of the later steps edits a manifest or reports an update.
EditsInv ==
  /\ pc \in AfterInstall => reported \cap stale = {}
  /\ landed => reported \cap stale = {}

\* Every step preserves EditsInv: before the install nothing has landed (Flow),
\* the install leaves no edit, and without it nothing it follows was reported.
LEMMA EditsStep == TypeOK /\ Flow /\ EditsInv /\ [Next]_vars => EditsInv'
<1> SUFFICES ASSUME TypeOK, Flow, EditsInv, [Next]_vars PROVE EditsInv'
  OBVIOUS
<1> USE DEF EditsInv, AfterInstall, Flow, Unpublished, Early, Goto, Complete, workVars,
            githubVars, outputVars, endVars
<1>1. CASE EmitBaseline BY <1>1 DEF EmitBaseline
<1>2. CASE ReadInputs BY <1>2 DEF ReadInputs
<1>3. CASE OpenCheckRun BY <1>3 DEF OpenCheckRun
<1>4. CASE FailEarly BY <1>4 DEF FailEarly
<1>5. CASE ReadStep BY <1>5 DEF ReadStep, Follow
<1>6. CASE ManageBranch BY <1>6 DEF ManageBranch
<1>7. CASE UpgradePackageManager
  <2>1. CASE Goto("pm", "activate") /\ Update("pm", TRUE, TRUE)
    BY <2>1 DEF Update
  <2>2. CASE ~(Goto("pm", "activate") /\ Update("pm", TRUE, TRUE))
    <3>1. pc = "pm" /\ pc' = "runtime"
      BY <1>7, <2>2 DEF UpgradePackageManager
    <3>2. UNCHANGED <<input, reported, stale, moved, githubVars, pullRequest, outputVars, endVars>>
      BY <1>7, <2>2 DEF UpgradePackageManager
    <3> QED
      BY <3>1, <3>2
  <2> QED
    BY <2>1, <2>2
<1>8. CASE ActivatePackageManager BY <1>8 DEF ActivatePackageManager
<1>9. CASE UpgradeRuntimes BY <1>9 DEF UpgradeRuntimes, Update
<1>10. CASE UpdateConfigDependencies BY <1>10 DEF UpdateConfigDependencies, Update
<1>11. CASE UpdateRegularDependencies BY <1>11 DEF UpdateRegularDependencies, Update
<1>12. CASE SyncPeers BY <1>12 DEF SyncPeers, Update
<1>13. CASE SkipInstall
  <2>1. stale \subseteq Installed
    BY DEF TypeOK
  <2>2. reported \cap stale = {}
    BY <1>13, <2>1 DEF SkipInstall, ShouldInstall
  <2> QED
    BY <1>13, <2>2 DEF SkipInstall
<1>14. CASE Install BY <1>14 DEF Install
<1>15. CASE FormatWorkspace BY <1>15 DEF FormatWorkspace
<1>16. CASE RunCommands BY <1>16 DEF RunCommands
<1>17. CASE DetectChanges BY <1>17 DEF DetectChanges
<1>18. CASE RegenerateChangesets BY <1>18 DEF RegenerateChangesets
<1>19. CASE SkipCommitAndPr BY <1>19 DEF SkipCommitAndPr
<1>20. CASE NothingToCommit BY <1>20 DEF NothingToCommit
<1>21. CASE CommitFiles BY <1>21 DEF CommitFiles
<1>22. CASE Resync BY <1>22 DEF Resync
<1>23. CASE UpsertPr BY <1>23 DEF UpsertPr
<1>24. CASE PrFails BY <1>24 DEF PrFails, InFlight
<1>25. CASE SetAutoMerge BY <1>25 DEF SetAutoMerge
<1>26. CASE Conclude BY <1>26 DEF Conclude, Conclusion
<1>27. CASE SetHasChanges BY <1>27 DEF SetHasChanges
<1>28. CASE SetCount BY <1>28 DEF SetCount
<1>29. CASE SetPrOutputs BY <1>29 DEF SetPrOutputs
<1>30. CASE EmitRunResult BY <1>30 DEF EmitRunResult
<1>31. CASE Return BY <1>31 DEF Return
<1>32. CASE Fail BY <1>32 DEF Fail, MayFail, InFlight
<1>33. CASE Timeout BY <1>33 DEF Timeout, UnderTimeout, InFlight
<1>34. CASE CompleteCheckRun BY <1>34 DEF CompleteCheckRun, Implied
<1>35. CASE CompleteFails BY <1>35 DEF CompleteFails
<1>36. CASE Kill BY <1>36 DEF Kill, InFlight
<1>37. CASE UNCHANGED vars BY <1>37 DEF vars
<1> QED
  BY <1>1, <1>2, <1>3, <1>4, <1>5, <1>6, <1>7, <1>8, <1>9, <1>10, <1>11, <1>12, <1>13, <1>14,
     <1>15, <1>16, <1>17, <1>18, <1>19, <1>20, <1>21, <1>22, <1>23, <1>24, <1>25, <1>26,
     <1>27, <1>28, <1>29, <1>30, <1>31, <1>32, <1>33, <1>34, <1>35, <1>36, <1>37 DEF Next

\* A run whose install failed commits nothing: every edit a step reported was
\* followed by an install before the commit landed, whatever the steps report,
\* edit or fail at.
THEOREM EditsAreInstalled == Spec => []ReportedEditsInstalled
<1>1. Init => EditsInv
  BY DEF Init, EditsInv, AfterInstall
<1>2. EditsInv => ReportedEditsInstalled
  BY DEF EditsInv, ReportedEditsInstalled
<1> QED
  BY <1>1, <1>2, EditsStep, Invariant, PTL DEF Spec

-----------------------------------------------------------------------------
(* What a run says agrees with itself *)

\* The exit steps after the one that publishes each part of the report.
RecordedAt == {"hasChanges", "count", "prOutputs", "doc", "summary"}
Opened     == path = "complete" /\ pullRequest

\* What the outputs hold once they are all set, and the document when it is.
Counted == IF path \in {"foreign", "unchanged"} THEN {} ELSE reported
Told ==
  /\ hasChanges = IF path = "complete" THEN "true" ELSE "false"
  /\ prNumber <=> Opened
  /\ count = Counted
  /\ doc.updates = reported
  /\ doc.hasChanges <=> path = "complete"
  /\ doc.pullRequest <=> Opened

\* Each part of the report, from the step that publishes it on; the document
\* ends the story whatever comes after it, and the job succeeds only if the
\* program returned.
ReportInv ==
  /\ pullRequest => opened
  /\ pc \in Unpublished \cup {"resync", "pr"} => ~pullRequest
  /\ pc \in {"baseline", "inputs", "open", "detect", "status", "branch"} \/ path = "foreign" =>
       reported = {}
  /\ pc \in RecordedAt \/ Returned => recorded = Conclusion[path]
  /\ pc \in {"doc", "summary"} => (prNumber <=> Opened)
  /\ pc \in {"prOutputs", "doc", "summary"} => count = Counted
  /\ doc.detected => pc \in {"summary", "complete", "end"} /\ Told
  /\ pc = "summary" \/ Returned => doc.detected
  /\ job = "succeeded" => pc = "end" /\ ReportsAgree

\* Every step preserves ReportInv.
LEMMA ReportStep == TypeOK /\ Flow /\ ReportInv /\ [Next]_vars => ReportInv'
<1> SUFFICES ASSUME TypeOK, Flow, ReportInv, [Next]_vars PROVE ReportInv'
  OBVIOUS
<1> USE DEF ReportInv, RecordedAt, Opened, Counted, Told, Returned, Flow, Claimed, ExitSteps,
            Unpublished, Early, Inside, ReportsAgree, Goto, Complete, workVars, githubVars, outputVars, endVars
<1>1. CASE EmitBaseline BY <1>1 DEF EmitBaseline
<1>2. CASE ReadInputs BY <1>2 DEF ReadInputs
<1>3. CASE OpenCheckRun BY <1>3 DEF OpenCheckRun
<1>4. CASE FailEarly BY <1>4 DEF FailEarly
<1>5. CASE ReadStep BY <1>5 DEF ReadStep, Follow
<1>6. CASE ManageBranch BY <1>6 DEF ManageBranch
<1>7. CASE UpgradePackageManager
  <2>1. CASE Goto("pm", "activate") /\ Update("pm", TRUE, TRUE)
    BY <2>1 DEF Update
  <2>2. CASE ~(Goto("pm", "activate") /\ Update("pm", TRUE, TRUE))
    <3>1. pc = "pm" /\ pc' = "runtime"
      BY <1>7, <2>2 DEF UpgradePackageManager
    <3>2. UNCHANGED <<input, reported, stale, moved, githubVars, pullRequest, outputVars, endVars>>
      BY <1>7, <2>2 DEF UpgradePackageManager
    <3> QED
      BY <3>1, <3>2
  <2> QED
    BY <2>1, <2>2
<1>8. CASE ActivatePackageManager BY <1>8 DEF ActivatePackageManager
<1>9. CASE UpgradeRuntimes BY <1>9 DEF UpgradeRuntimes, Update
<1>10. CASE UpdateConfigDependencies BY <1>10 DEF UpdateConfigDependencies, Update
<1>11. CASE UpdateRegularDependencies BY <1>11 DEF UpdateRegularDependencies, Update
<1>12. CASE SyncPeers BY <1>12 DEF SyncPeers, Update
<1>13. CASE SkipInstall BY <1>13 DEF SkipInstall
<1>14. CASE Install BY <1>14 DEF Install
<1>15. CASE FormatWorkspace BY <1>15 DEF FormatWorkspace
<1>16. CASE RunCommands BY <1>16 DEF RunCommands
<1>17. CASE DetectChanges BY <1>17 DEF DetectChanges
<1>18. CASE RegenerateChangesets BY <1>18 DEF RegenerateChangesets
<1>19. CASE SkipCommitAndPr BY <1>19 DEF SkipCommitAndPr
<1>20. CASE NothingToCommit BY <1>20 DEF NothingToCommit
<1>21. CASE CommitFiles BY <1>21 DEF CommitFiles
<1>22. CASE Resync BY <1>22 DEF Resync
<1>23. CASE UpsertPr BY <1>23 DEF UpsertPr
<1>24. CASE PrFails BY <1>24 DEF PrFails, InFlight
<1>25. CASE SetAutoMerge BY <1>25 DEF SetAutoMerge
<1>26. CASE Conclude BY <1>26 DEF Conclude, Conclusion
<1>27. CASE SetHasChanges BY <1>27 DEF SetHasChanges
<1>28. CASE SetCount BY <1>28 DEF SetCount
<1>29. CASE SetPrOutputs BY <1>29 DEF SetPrOutputs
<1>30. CASE EmitRunResult BY <1>30 DEF EmitRunResult
<1>31. CASE Return BY <1>31 DEF Return
<1>32. CASE Fail BY <1>32 DEF Fail, MayFail, InFlight
<1>33. CASE Timeout BY <1>33 DEF Timeout, UnderTimeout, InFlight
<1>34. CASE CompleteCheckRun
  <2>1. CASE job' = "succeeded"
    <3>1. Returned
      BY <1>34, <2>1 DEF CompleteCheckRun
    <3>2. path \in {"foreign", "unchanged", "complete"}
      BY <3>1 DEF TypeOK
    <3>3. Conclusion[path] = IF path = "complete" THEN "success" ELSE "neutral"
      BY <3>2 DEF Conclusion
    <3>4. checkRun' = Conclusion[path]
      BY <1>34, <3>1, <3>3 DEF CompleteCheckRun
    <3>5. hasChanges = Claimed
      BY <3>1
    <3> QED
      BY <1>34, <3>1, <3>3, <3>4, <3>5 DEF CompleteCheckRun
  <2>2. CASE job' # "succeeded"
    BY <1>34, <2>2 DEF CompleteCheckRun
  <2> QED
    BY <2>1, <2>2
<1>35. CASE CompleteFails BY <1>35 DEF CompleteFails
<1>36. CASE Kill BY <1>36 DEF Kill, InFlight
<1>37. CASE UNCHANGED vars BY <1>37 DEF vars
<1> QED
  BY <1>1, <1>2, <1>3, <1>4, <1>5, <1>6, <1>7, <1>8, <1>9, <1>10, <1>11, <1>12, <1>13, <1>14,
     <1>15, <1>16, <1>17, <1>18, <1>19, <1>20, <1>21, <1>22, <1>23, <1>24, <1>25, <1>26,
     <1>27, <1>28, <1>29, <1>30, <1>31, <1>32, <1>33, <1>34, <1>35, <1>36, <1>37 DEF Next

\* Every published document agrees with the scalar outputs, but for the count of
\* an unchanged run; a pull request they name is on GitHub; and the check run of
\* a job that succeeded has the document's verdict.
THEOREM ReportsAreOne == Spec => []ReportsAgree
<1>1. Init => ReportInv
  BY DEF Init, ReportInv, RecordedAt, Returned
<1>2. ReportInv => ReportsAgree
  BY DEF ReportInv, ReportsAgree, Told, Opened, Counted
<1> QED
  BY <1>1, <1>2, ReportStep, Invariant, PTL DEF Spec

-----------------------------------------------------------------------------
(* A run implements RunReport *)

\* A call that is cut off only adds to what the run has published, and is one
\* the run makes while has-changes is still false.
LEMMA InFlightAdds ==
  ASSUME TypeOK, Flow, InFlight, pc # "end"
  PROVE  /\ PublishedWork \subseteq PublishedWork' /\ PublishedWork' \subseteq Contract!Published
         /\ hasChanges = "false" \/ UNCHANGED PublishedWork
<1>1. CASE pc = "commit"
  <2>1. ~landed /\ ~opened /\ landed' \in BOOLEAN /\ opened' = opened /\ hasChanges = "false"
    BY <1>1 DEF TypeOK, Flow, InFlight, Unpublished, Unclaimed, Steps, Early, Inside
  <2> QED
    BY <2>1 DEF PublishedWork, Contract!Published
<1>2. CASE pc = "pr"
  <2>1. ~opened /\ opened' \in BOOLEAN /\ landed' = landed /\ hasChanges = "false"
    BY <1>2 DEF TypeOK, Flow, InFlight, Unclaimed, Steps, Early, Inside
  <2> QED
    BY <2>1 DEF PublishedWork, Contract!Published
<1>3. CASE pc \notin {"commit", "pr"}
  BY <1>3 DEF InFlight, PublishedWork, Contract!Published
<1> QED
  BY <1>1, <1>2, <1>3

\* Every step of a run is a step of the contract or leaves it alone.
LEMMA ContractStep == TypeOK /\ Flow /\ [Next]_vars => [Contract!Next]_(Contract!vars)
<1> SUFFICES ASSUME TypeOK, Flow, [Next]_vars PROVE [Contract!Next]_(Contract!vars)
  OBVIOUS
<1> USE DEF Contract!Next, Contract!vars, Contract!Baseline, Contract!Publish, Contract!Claim,
            Contract!Succeed, Contract!Die, Contract!Published, PublishedWork, Ending, Flow,
            Claimed, Returned, ExitSteps, Unclaimed, Unpublished, Steps, Early, Inside, Goto,
            Complete, workVars, githubVars, outputVars, endVars
<1>1. CASE EmitBaseline BY <1>1 DEF EmitBaseline
<1>2. CASE ReadInputs BY <1>2 DEF ReadInputs
<1>3. CASE OpenCheckRun BY <1>3 DEF OpenCheckRun
<1>4. CASE FailEarly BY <1>4 DEF FailEarly
<1>5. CASE ReadStep BY <1>5 DEF ReadStep, Follow
<1>6. CASE ManageBranch BY <1>6 DEF ManageBranch
<1>7. CASE UpgradePackageManager
  <2>1. CASE Goto("pm", "activate") /\ Update("pm", TRUE, TRUE)
    BY <2>1 DEF Update
  <2>2. CASE ~(Goto("pm", "activate") /\ Update("pm", TRUE, TRUE))
    <3>1. pc = "pm" /\ pc' = "runtime"
      BY <1>7, <2>2 DEF UpgradePackageManager
    <3>2. UNCHANGED <<input, reported, stale, moved, githubVars, pullRequest, outputVars, endVars>>
      BY <1>7, <2>2 DEF UpgradePackageManager
    <3> QED
      BY <3>1, <3>2
  <2> QED
    BY <2>1, <2>2
<1>8. CASE ActivatePackageManager BY <1>8 DEF ActivatePackageManager
<1>9. CASE UpgradeRuntimes BY <1>9 DEF UpgradeRuntimes, Update
<1>10. CASE UpdateConfigDependencies BY <1>10 DEF UpdateConfigDependencies, Update
<1>11. CASE UpdateRegularDependencies BY <1>11 DEF UpdateRegularDependencies, Update
<1>12. CASE SyncPeers BY <1>12 DEF SyncPeers, Update
<1>13. CASE SkipInstall BY <1>13 DEF SkipInstall
<1>14. CASE Install BY <1>14 DEF Install
<1>15. CASE FormatWorkspace BY <1>15 DEF FormatWorkspace
<1>16. CASE RunCommands BY <1>16 DEF RunCommands
<1>17. CASE DetectChanges BY <1>17 DEF DetectChanges
<1>18. CASE RegenerateChangesets BY <1>18 DEF RegenerateChangesets
<1>19. CASE SkipCommitAndPr BY <1>19 DEF SkipCommitAndPr
<1>20. CASE NothingToCommit BY <1>20 DEF NothingToCommit
<1>21. CASE CommitFiles BY <1>21 DEF CommitFiles
<1>22. CASE Resync BY <1>22 DEF Resync
<1>23. CASE UpsertPr BY <1>23 DEF UpsertPr
<1>24. CASE PrFails
  <2>1. InFlight /\ pc # "end" /\ UNCHANGED hasChanges
    BY <1>24 DEF PrFails
  <2>2. job' = "running" \/ job' \in {"failed", "cancelled"}
    BY <1>24 DEF PrFails
  <2> HIDE DEF PublishedWork, Contract!Published
  <2> QED
    BY <1>24, <2>1, <2>2, InFlightAdds DEF PrFails
<1>25. CASE SetAutoMerge BY <1>25 DEF SetAutoMerge
<1>26. CASE Conclude BY <1>26 DEF Conclude, Conclusion
<1>27. CASE SetHasChanges BY <1>27 DEF SetHasChanges
<1>28. CASE SetCount BY <1>28 DEF SetCount
<1>29. CASE SetPrOutputs BY <1>29 DEF SetPrOutputs
<1>30. CASE EmitRunResult BY <1>30 DEF EmitRunResult
<1>31. CASE Return BY <1>31 DEF Return
<1>32. CASE Fail
  <2>1. InFlight /\ pc # "end" /\ UNCHANGED hasChanges
    BY <1>32 DEF Fail, MayFail
  <2>2. job' = "running" \/ job' \in {"failed", "cancelled"}
    BY <1>32 DEF Fail, MayFail
  <2> HIDE DEF PublishedWork, Contract!Published
  <2> QED
    BY <1>32, <2>1, <2>2, InFlightAdds DEF Fail, MayFail
<1>33. CASE Timeout
  <2>1. InFlight /\ pc # "end" /\ UNCHANGED hasChanges
    BY <1>33 DEF Timeout, UnderTimeout
  <2>2. job' = "running" \/ job' \in {"failed", "cancelled"}
    BY <1>33 DEF Timeout, UnderTimeout
  <2> HIDE DEF PublishedWork, Contract!Published
  <2> QED
    BY <1>33, <2>1, <2>2, InFlightAdds DEF Timeout, UnderTimeout
<1>34. CASE CompleteCheckRun
  <2>1. CASE job' = "succeeded"
    <3>1. Returned /\ pc = "complete" /\ UNCHANGED <<landed, opened, hasChanges>>
      BY <1>34, <2>1 DEF CompleteCheckRun
    <3>2. hasChanges = "false" => ~landed /\ ~opened
      BY <3>1 DEF TypeOK
    <3>3. hasChanges # "unset" /\ job = "running"
      BY <3>1
    <3>4. Contract!Succeed
      BY <2>1, <3>1, <3>2, <3>3
    <3> QED
      BY <3>4
  <2>2. CASE job' = "failed"
    BY <1>34, <2>2 DEF CompleteCheckRun
  <2> QED
    BY <1>34, <2>1, <2>2 DEF CompleteCheckRun
<1>35. CASE CompleteFails BY <1>35 DEF CompleteFails
<1>36. CASE Kill
  <2>1. InFlight /\ pc # "end" /\ UNCHANGED hasChanges
    BY <1>36 DEF Kill
  <2>2. job' = "running" \/ job' \in {"failed", "cancelled"}
    BY <1>36 DEF Kill
  <2> HIDE DEF PublishedWork, Contract!Published
  <2> QED
    BY <1>36, <2>1, <2>2, InFlightAdds DEF Kill
<1>37. CASE UNCHANGED vars BY <1>37 DEF vars
<1> QED
  BY <1>1, <1>2, <1>3, <1>4, <1>5, <1>6, <1>7, <1>8, <1>9, <1>10, <1>11, <1>12, <1>13, <1>14,
     <1>15, <1>16, <1>17, <1>18, <1>19, <1>20, <1>21, <1>22, <1>23, <1>24, <1>25, <1>26,
     <1>27, <1>28, <1>29, <1>30, <1>31, <1>32, <1>33, <1>34, <1>35, <1>36, <1>37 DEF Next

\* A run implements RunReport: has-changes has a value before any work is done,
\* is never taken back, and a run that succeeds without setting it has
\* published nothing.
THEOREM RunImplementsReport == Spec => KeepsContract
<1>1. Init => Contract!Init
  BY DEF Init, Contract!Init, PublishedWork, Ending
<1> QED
  BY <1>1, ContractStep, Invariant, PTL DEF Spec, KeepsContract, Contract!Spec

=============================================================================
