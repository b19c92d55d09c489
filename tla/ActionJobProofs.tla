--------------------------- MODULE ActionJobProofs ---------------------------
(***************************************************************************)
(* Proofs about ActionJob, for any inputs.  One inductive invariant says   *)
(* where in the job each piece of state gets its value; the waits of a retry     *)
(* budget, a recursive function, are summed by induction over sets.        *)
(***************************************************************************)
EXTENDS ActionJob, FiniteSetTheorems, WellFoundedInduction, TLAPS

-----------------------------------------------------------------------------
(* Induction, as a fact about sets *)

\* Every nonempty set of numbers has a least one: their initial segments are
\* finite sets, which strict inclusion orders well.
LEMMA LeastNumber ==
  ASSUME NEW T \in SUBSET Nat, T # {}
  PROVE  \E x \in T : \A y \in T : x <= y
<1> DEFINE upTo == {0..n : n \in T}
<1>1. IsWellFoundedOn(StrictSubsetOrdering(Nat), FiniteSubsetsOf(Nat))
  BY FS_StrictSubsetOrderingWellFounded
<1>2. upTo \subseteq FiniteSubsetsOf(Nat) /\ upTo # {}
  <2>1. ASSUME NEW n \in T PROVE 0..n \in FiniteSubsetsOf(Nat)
    <3>1. IsFiniteSet(0..n)
      BY FS_Interval
    <3> QED BY <3>1 DEF FiniteSubsetsOf
  <2> QED BY <2>1
<1> HIDE DEF upTo
<1>3. PICK X \in upTo : \A Y \in upTo : <<Y, X>> \notin StrictSubsetOrdering(Nat)
  BY <1>1, <1>2, WFMin
<1>4. PICK x \in T : X = 0..x
  BY DEF upTo
<1>5. ASSUME NEW y \in T, y < x PROVE FALSE
  <2>1. 0..y \in upTo
    BY DEF upTo
  <2>2. 0..y \subseteq 0..x /\ x \in 0..x /\ x \notin 0..y /\ 0..x \subseteq Nat
    BY <1>5
  <2>3. <<0..y, 0..x>> \in StrictSubsetOrdering(Nat)
    BY <2>2 DEF StrictSubsetOrdering
  <2> QED BY <1>3, <1>4, <2>1, <2>3
<1> QED BY <1>5

LEMMA Induction ==
  ASSUME NEW S, 0 \in S, \A n \in Nat : n \in S => n + 1 \in S
  PROVE  Nat \subseteq S
<1> SUFFICES ASSUME Nat \ S # {} PROVE FALSE
  OBVIOUS
<1>1. PICK x \in Nat \ S : \A y \in Nat \ S : x <= y
  BY LeastNumber
<1>2. x - 1 \in Nat /\ x - 1 \in S
  BY <1>1
<1> QED BY <1>1, <1>2

-----------------------------------------------------------------------------
(* The waits of a budget *)

\* The waits of n retries together, in closed form.
SumTo(n) ==
  60 * IF n <= 4 THEN <<0, 3, 9, 19, 34>>[n + 1] ELSE 34 + 15 * (n - 4) + 5 * (n - 4) * (n - 3)

LEMMA DelayIsNat == ASSUME NEW n \in Nat \ {0} PROVE DelayMinutes(n) \in Nat
<1>1. CASE n \in 1..4
  BY <1>1 DEF DelayMinutes
<1>2. CASE n > 4
  BY <1>2 DEF DelayMinutes
<1> QED BY <1>1, <1>2

LEMMA SumSteps ==
  /\ SumTo(0) = 0
  /\ \A n \in Nat : SumTo(n) \in Nat /\ SumTo(n + 1) = SumTo(n) + 60 * DelayMinutes(n + 1)
<1>1. ASSUME NEW n \in 0..3
      PROVE  SumTo(n) \in Nat /\ SumTo(n + 1) = SumTo(n) + 60 * DelayMinutes(n + 1)
  BY DEF SumTo, DelayMinutes
<1>2. SumTo(4) \in Nat /\ SumTo(5) = SumTo(4) + 60 * DelayMinutes(5)
  BY DEF SumTo, DelayMinutes
<1>3. ASSUME NEW n \in Nat, n > 4
      PROVE  SumTo(n) \in Nat /\ SumTo(n + 1) = SumTo(n) + 60 * DelayMinutes(n + 1)
  <2>1. PICK k \in Nat : n = k + 5
    <3>1. n - 5 \in Nat /\ n = (n - 5) + 5
      BY <1>3
    <3> QED BY <3>1
  <2>2. SumTo(n) = 60 * (34 + 15 * (k + 1) + 5 * (k + 1) * (k + 2))
    BY <2>1 DEF SumTo
  <2>3. SumTo(n + 1) = 60 * (34 + 15 * (k + 2) + 5 * (k + 2) * (k + 3))
    BY <2>1 DEF SumTo
  <2>4. DelayMinutes(n + 1) = 15 + 10 * (k + 2)
    BY <2>1 DEF DelayMinutes
  <2>5. (k + 1) * (k + 2) \in Nat /\ (k + 2) * (k + 3) = (k + 1) * (k + 2) + 2 * (k + 2)
    OBVIOUS
  <2> QED BY <2>2, <2>3, <2>4, <2>5
<1>4. SumTo(0) = 0
  BY DEF SumTo
<1>5. \A n \in Nat : n \in 0..3 \/ n = 4 \/ n > 4
  OBVIOUS
<1> QED BY <1>1, <1>2, <1>3, <1>4, <1>5

(* unmatchedWaitSeconds computes the sum of the waits for every budget: the
   recursion it is written as has exactly one solution, which is the closed form. *)
THEOREM WaitSecondsIs == ASSUME NEW r \in Nat PROVE WaitSeconds(r) = SumTo(r)
<1> DEFINE With(f) == [n \in 0..r |-> IF n = 0 THEN 0 ELSE f[n - 1] + 60 * DelayMinutes(n)]
           total == CHOOSE f : f = With(f)
           sums == [n \in 0..r |-> SumTo(n)]
<1>1. WaitSeconds(r) = total[r]
  BY DEF WaitSeconds
<1>2. sums = With(sums)
  <2>1. ASSUME NEW n \in 0..r, n # 0 PROVE SumTo(n) = sums[n - 1] + 60 * DelayMinutes(n)
    <3>1. n - 1 \in Nat /\ n - 1 \in 0..r /\ (n - 1) + 1 = n
      BY <2>1
    <3>2. SumTo((n - 1) + 1) = SumTo(n - 1) + 60 * DelayMinutes((n - 1) + 1)
      BY <3>1, SumSteps
    <3> QED BY <3>1, <3>2
  <2> QED BY <2>1, SumSteps
<1>3. total = With(total)
  <2> HIDE DEF sums, With
  <2> QED BY <1>2 DEF total
<1> HIDE DEF total
<1> DEFINE S == {n \in Nat : n <= r => total[n] = SumTo(n)}
<1>4. 0 \in S
  BY <1>3, SumSteps
<1>5. ASSUME NEW n \in Nat, n \in S PROVE n + 1 \in S
  <2> SUFFICES ASSUME n + 1 <= r PROVE total[n + 1] = SumTo(n + 1)
    OBVIOUS
  <2>1. total[n + 1] = total[n] + 60 * DelayMinutes(n + 1)
    BY <1>3
  <2>2. total[n] = SumTo(n)
    BY <1>5
  <2> QED BY <2>1, <2>2, SumSteps
<1>6. r \in S
  <2> HIDE DEF S
  <2> QED BY <1>4, <1>5, Induction
<1> QED BY <1>1, <1>6

LEMMA WaitsGrow == ASSUME NEW k \in Nat, NEW r \in Nat, k <= r PROVE SumTo(k) <= SumTo(r)
<1> DEFINE S == {n \in Nat : SumTo(k) <= SumTo(k + n)}
<1>1. 0 \in S
  BY SumSteps
<1>2. ASSUME NEW n \in Nat, n \in S PROVE n + 1 \in S
  <2>1. SumTo(k + n) \in Nat /\ SumTo(k + (n + 1)) = SumTo(k + n) + 60 * DelayMinutes(k + n + 1)
    <3>1. k + n \in Nat /\ (k + n) + 1 = k + (n + 1)
      OBVIOUS
    <3> QED BY <3>1, SumSteps
  <2>2. DelayMinutes(k + n + 1) \in Nat
    BY DelayIsNat
  <2>3. SumTo(k) \in Nat
    BY SumSteps
  <2> QED BY <1>2, <2>1, <2>2, <2>3
<1>3. r - k \in S
  <2> HIDE DEF S
  <2> QED BY <1>1, <1>2, Induction
<1> QED BY <1>3

-----------------------------------------------------------------------------
(* Where the job is *)

\* Where main is once the attempts have begun, and once they are over.
Attempting == {"clean", "install", "hung", "unmatched"}
Installed  == {"commands", "snapshot", "peerCheck", "publish"}
Ending     == {"post", "dispose", "done"}

\* The token is the action's state's unless something outside kept it from there,
\* and before it is provisioned there is none.
TokenPlace ==
  /\ pc \in PreSteps => token = "none" /\ ~saved
  /\ token = "live" => saved \/ excused
  /\ TokenRevoked

\* An attempt is under way only from the clean slate it made.
SlatePlace ==
  /\ pc \in PreSteps \cup {"inputs", "clients", "activate", "updates"} => attempt = 0
  /\ pc \in Attempting => attempt >= 1
  /\ pc = "install" /\ Cleans => lockfile = "absent"
  /\ CleanSlate

\* The pinned manager is first on PATH from its activation on.
ManagerPlace ==
  /\ input.moved /\ pc \in {"updates"} \cup Attempting \cup Installed => binDir
  /\ ~mixed
  /\ PinnedManagerWrites

\* What the gate judged does not change under it.
SeenPlace == pc \in {"peerCheck", "publish"} => seen # "none"
GatePlace ==
  /\ SeenPlace
  /\ gate = "pass" => pc \in {"publish"} \cup Ending /\ ~required /\ seen = "read"

IInv == TypeOK /\ TokenPlace /\ SlatePlace /\ ManagerPlace /\ GatePlace

LEMMA WaitIsNat == ASSUME attempt \in Nat, attempt >= 1 PROVE Wait \in Nat
BY DelayIsNat DEF Wait

LEMMA InitIInv == Init => IInv
<1> SUFFICES ASSUME Init PROVE IInv
  OBVIOUS
<1>1. TypeOK
  <2>1. required \in BOOLEAN /\ input \in [timeout : Timeouts, retries : Retries, pm : PackageManagers,
                                          mode : Modes, autoMerge : BOOLEAN, moved : BOOLEAN,
                                          script : BOOLEAN]
    BY DEF Init
  <2>2. pc \in Steps
    BY DEF Init, Steps, Running, PreSteps
  <2> QED BY <2>1, <2>2 DEF Init, TypeOK, Sides
<1>2. TokenPlace /\ SlatePlace /\ ManagerPlace /\ GatePlace
  BY DEF Init, TokenPlace, SlatePlace, ManagerPlace, GatePlace, TokenRevoked, CleanSlate,
         PinnedManagerWrites, Attempting, Installed, SeenPlace
<1> QED BY <1>1, <1>2 DEF IInv

LEMMA NextIInv == IInv /\ [Next]_vars => IInv'
<1> SUFFICES ASSUME IInv, [Next]_vars PROVE IInv'
  OBVIOUS
<1> USE DEF IInv, tokenVars, installVars, gateVars, ToPost
<1>t. TypeOK'
  <2> USE DEF TypeOK, Steps, Running, PreSteps, MainSteps, Timed, Sides
  <2>1. CASE SaveStart
    BY <2>1 DEF SaveStart
  <2>2. CASE Provision
    <3>1. token' \in {"none", "live", "revoked"} /\ saved' \in BOOLEAN /\ excused' \in BOOLEAN
      BY <2>2 DEF Provision
    <3>2. pc' \in Steps
      BY <2>2 DEF Provision
    <3>3. UNCHANGED <<input, startTime, installVars, gateVars>>
      BY <2>2 DEF Provision
    <3> QED BY <3>1, <3>2, <3>3
  <2>3. CASE ReadInputs
    BY <2>3 DEF ReadInputs, Rejects
  <2>4. CASE BuildClients
    BY <2>4 DEF BuildClients
  <2>5. CASE Activate
    BY <2>5 DEF Activate, Installer, AllowAmbient
  <2>6. CASE Updates
    BY <2>6 DEF Updates
  <2>7. CASE Clean
    BY <2>7 DEF Clean, ManagerOnPath
  <2>8. CASE InstallSucceeds
    BY <2>8 DEF InstallSucceeds, ManagerOnPath
  <2>9. CASE InstallFails
    BY <2>9 DEF InstallFails, ManagerOnPath
  <2>10. CASE Retry
    <3>1. Wait \in Nat
      BY <2>10, WaitIsNat DEF Retry, SlatePlace, Attempting
    <3>2. waited' \in Nat /\ attempt' \in Nat
      BY <2>10, <3>1 DEF Retry
    <3> QED BY <2>10, <3>2 DEF Retry, RetryFrom
  <2>11. CASE GiveUp
    BY <2>11 DEF GiveUp, MayRetry
  <2>12. CASE Commands
    BY <2>12 DEF Commands, ManagerOnPath
  <2>13. CASE Snapshot
    BY <2>13 DEF Snapshot
  <2>14. CASE PeerCheck
    BY <2>14 DEF PeerCheck, Refreshed, Passes
  <2>15. CASE Publish
    BY <2>15 DEF Publish
  <2>16. CASE Fails
    BY <2>16 DEF Fails, Interruptible
  <2>17. CASE Cancel
    BY <2>17 DEF Cancel
  <2>18. CASE KilledMinting
    BY <2>18 DEF KilledMinting
  <2>19. CASE RunnerLost
    BY <2>19 DEF RunnerLost
  <2>20. CASE ReadStart
    BY <2>20 DEF ReadStart, Disposes
  <2>21. CASE Dispose
    <3>1. token' \in {"none", "live", "revoked"} /\ saved' \in BOOLEAN /\ excused' \in BOOLEAN
      BY <2>21 DEF Dispose
    <3>2. pc' \in Steps
      BY <2>21 DEF Dispose
    <3>3. UNCHANGED <<input, startTime, installVars, gateVars>>
      BY <2>21 DEF Dispose
    <3> QED BY <3>1, <3>2, <3>3
  <2>22. CASE UNCHANGED vars
    BY <2>22 DEF vars
  <2> QED BY <2>1, <2>2, <2>3, <2>4, <2>5, <2>6, <2>7, <2>8, <2>9, <2>10, <2>11, <2>12, <2>13, <2>14, <2>15, <2>16, <2>17, <2>18, <2>19, <2>20, <2>21, <2>22
          DEF Next, Pre, Main, Post, Runner
<1>a. TokenPlace'
  <2> USE DEF Running, PreSteps, MainSteps, Timed
  <2>1. CASE SaveStart
    BY <2>1 DEF SaveStart, TokenPlace, TokenRevoked, TypeOK
  <2>2. CASE Provision
    BY <2>2 DEF Provision, TokenPlace, TokenRevoked, TypeOK
  <2>3. CASE ReadInputs
    BY <2>3 DEF ReadInputs, Rejects, TokenPlace, TokenRevoked, TypeOK
  <2>4. CASE BuildClients
    BY <2>4 DEF BuildClients, TokenPlace, TokenRevoked, TypeOK
  <2>5. CASE Activate
    BY <2>5 DEF Activate, Installer, AllowAmbient, TokenPlace, TokenRevoked, TypeOK
  <2>6. CASE Updates
    BY <2>6 DEF Updates, TokenPlace, TokenRevoked, TypeOK
  <2>7. CASE Clean
    BY <2>7 DEF Clean, ManagerOnPath, TokenPlace, TokenRevoked, TypeOK
  <2>8. CASE InstallSucceeds
    BY <2>8 DEF InstallSucceeds, ManagerOnPath, TokenPlace, TokenRevoked, TypeOK
  <2>9. CASE InstallFails
    BY <2>9 DEF InstallFails, ManagerOnPath, TokenPlace, TokenRevoked, TypeOK
  <2>10. CASE Retry
    BY <2>10 DEF Retry, MayRetry, RetryFrom, TokenPlace, TokenRevoked, TypeOK
  <2>11. CASE GiveUp
    BY <2>11 DEF GiveUp, MayRetry, TokenPlace, TokenRevoked, TypeOK
  <2>12. CASE Commands
    BY <2>12 DEF Commands, ManagerOnPath, TokenPlace, TokenRevoked, TypeOK
  <2>13. CASE Snapshot
    BY <2>13 DEF Snapshot, TokenPlace, TokenRevoked, TypeOK
  <2>14. CASE PeerCheck
    BY <2>14 DEF PeerCheck, Refreshed, Passes, TokenPlace, TokenRevoked, TypeOK
  <2>15. CASE Publish
    BY <2>15 DEF Publish, TokenPlace, TokenRevoked, TypeOK
  <2>16. CASE Fails
    BY <2>16 DEF Fails, Interruptible, TokenPlace, TokenRevoked, TypeOK
  <2>17. CASE Cancel
    BY <2>17 DEF Cancel, TokenPlace, TokenRevoked, TypeOK
  <2>18. CASE KilledMinting
    BY <2>18 DEF KilledMinting, TokenPlace, TokenRevoked, TypeOK
  <2>19. CASE RunnerLost
    BY <2>19 DEF RunnerLost, TokenPlace, TokenRevoked, TypeOK
  <2>20. CASE ReadStart
    BY <2>20 DEF ReadStart, Disposes, TokenPlace, TokenRevoked, TypeOK
  <2>21. CASE Dispose
    BY <2>21 DEF Dispose, TokenPlace, TokenRevoked, TypeOK
  <2>22. CASE UNCHANGED vars
    BY <2>22 DEF vars, TokenPlace, TokenRevoked, TypeOK
  <2> QED BY <2>1, <2>2, <2>3, <2>4, <2>5, <2>6, <2>7, <2>8, <2>9, <2>10, <2>11, <2>12, <2>13, <2>14, <2>15, <2>16, <2>17, <2>18, <2>19, <2>20, <2>21, <2>22
          DEF Next, Pre, Main, Post, Runner
<1>b. SlatePlace'
  <2> USE DEF Running, PreSteps, MainSteps, Timed
  <2>1. CASE SaveStart
    BY <2>1 DEF SaveStart, SlatePlace, CleanSlate, Cleans, Attempting, TypeOK
  <2>2. CASE Provision
    BY <2>2 DEF Provision, SlatePlace, CleanSlate, Cleans, Attempting, TypeOK
  <2>3. CASE ReadInputs
    BY <2>3 DEF ReadInputs, Rejects, SlatePlace, CleanSlate, Cleans, Attempting, TypeOK
  <2>4. CASE BuildClients
    BY <2>4 DEF BuildClients, SlatePlace, CleanSlate, Cleans, Attempting, TypeOK
  <2>5. CASE Activate
    BY <2>5 DEF Activate, Installer, AllowAmbient, SlatePlace, CleanSlate, Cleans, Attempting, TypeOK
  <2>6. CASE Updates
    BY <2>6 DEF Updates, SlatePlace, CleanSlate, Cleans, Attempting, TypeOK
  <2>7. CASE Clean
    BY <2>7 DEF Clean, ManagerOnPath, SlatePlace, CleanSlate, Cleans, Attempting, TypeOK
  <2>8. CASE InstallSucceeds
    BY <2>8 DEF InstallSucceeds, ManagerOnPath, SlatePlace, CleanSlate, Cleans, Attempting, TypeOK
  <2>9. CASE InstallFails
    BY <2>9 DEF InstallFails, ManagerOnPath, SlatePlace, CleanSlate, Cleans, Attempting, TypeOK
  <2>10. CASE Retry
    BY <2>10 DEF Retry, MayRetry, RetryFrom, SlatePlace, CleanSlate, Cleans, Attempting, TypeOK
  <2>11. CASE GiveUp
    BY <2>11 DEF GiveUp, MayRetry, SlatePlace, CleanSlate, Cleans, Attempting, TypeOK
  <2>12. CASE Commands
    BY <2>12 DEF Commands, ManagerOnPath, SlatePlace, CleanSlate, Cleans, Attempting, TypeOK
  <2>13. CASE Snapshot
    BY <2>13 DEF Snapshot, SlatePlace, CleanSlate, Cleans, Attempting, TypeOK
  <2>14. CASE PeerCheck
    BY <2>14 DEF PeerCheck, Refreshed, Passes, SlatePlace, CleanSlate, Cleans, Attempting, TypeOK
  <2>15. CASE Publish
    BY <2>15 DEF Publish, SlatePlace, CleanSlate, Cleans, Attempting, TypeOK
  <2>16. CASE Fails
    BY <2>16 DEF Fails, Interruptible, SlatePlace, CleanSlate, Cleans, Attempting, TypeOK
  <2>17. CASE Cancel
    BY <2>17 DEF Cancel, SlatePlace, CleanSlate, Cleans, Attempting, TypeOK
  <2>18. CASE KilledMinting
    BY <2>18 DEF KilledMinting, SlatePlace, CleanSlate, Cleans, Attempting, TypeOK
  <2>19. CASE RunnerLost
    BY <2>19 DEF RunnerLost, SlatePlace, CleanSlate, Cleans, Attempting, TypeOK
  <2>20. CASE ReadStart
    BY <2>20 DEF ReadStart, Disposes, SlatePlace, CleanSlate, Cleans, Attempting, TypeOK
  <2>21. CASE Dispose
    BY <2>21 DEF Dispose, SlatePlace, CleanSlate, Cleans, Attempting, TypeOK
  <2>22. CASE UNCHANGED vars
    BY <2>22 DEF vars, SlatePlace, CleanSlate, Cleans, Attempting, TypeOK
  <2> QED BY <2>1, <2>2, <2>3, <2>4, <2>5, <2>6, <2>7, <2>8, <2>9, <2>10, <2>11, <2>12, <2>13, <2>14, <2>15, <2>16, <2>17, <2>18, <2>19, <2>20, <2>21, <2>22
          DEF Next, Pre, Main, Post, Runner
<1>c. ManagerPlace'
  <2> USE DEF Running, PreSteps, MainSteps, Timed
  <2>1. CASE SaveStart
    BY <2>1 DEF SaveStart, ManagerPlace, PinnedManagerWrites, Attempting, Installed, TypeOK
  <2>2. CASE Provision
    BY <2>2 DEF Provision, ManagerPlace, PinnedManagerWrites, Attempting, Installed, TypeOK
  <2>3. CASE ReadInputs
    BY <2>3 DEF ReadInputs, Rejects, ManagerPlace, PinnedManagerWrites, Attempting, Installed, TypeOK
  <2>4. CASE BuildClients
    BY <2>4 DEF BuildClients, ManagerPlace, PinnedManagerWrites, Attempting, Installed, TypeOK
  <2>5. CASE Activate
    BY <2>5 DEF Activate, Installer, AllowAmbient, ManagerPlace, PinnedManagerWrites, Attempting, Installed, TypeOK
  <2>6. CASE Updates
    BY <2>6 DEF Updates, ManagerPlace, PinnedManagerWrites, Attempting, Installed, TypeOK
  <2>7. CASE Clean
    BY <2>7 DEF Clean, ManagerOnPath, ManagerPlace, PinnedManagerWrites, Attempting, Installed, TypeOK
  <2>8. CASE InstallSucceeds
    BY <2>8 DEF InstallSucceeds, ManagerOnPath, ManagerPlace, PinnedManagerWrites, Attempting, Installed, TypeOK
  <2>9. CASE InstallFails
    BY <2>9 DEF InstallFails, ManagerOnPath, ManagerPlace, PinnedManagerWrites, Attempting, Installed, TypeOK
  <2>10. CASE Retry
    BY <2>10 DEF Retry, MayRetry, RetryFrom, ManagerPlace, PinnedManagerWrites, Attempting, Installed, TypeOK
  <2>11. CASE GiveUp
    BY <2>11 DEF GiveUp, MayRetry, ManagerPlace, PinnedManagerWrites, Attempting, Installed, TypeOK
  <2>12. CASE Commands
    BY <2>12 DEF Commands, ManagerOnPath, ManagerPlace, PinnedManagerWrites, Attempting, Installed, TypeOK
  <2>13. CASE Snapshot
    BY <2>13 DEF Snapshot, ManagerPlace, PinnedManagerWrites, Attempting, Installed, TypeOK
  <2>14. CASE PeerCheck
    BY <2>14 DEF PeerCheck, Refreshed, Passes, ManagerPlace, PinnedManagerWrites, Attempting, Installed, TypeOK
  <2>15. CASE Publish
    BY <2>15 DEF Publish, ManagerPlace, PinnedManagerWrites, Attempting, Installed, TypeOK
  <2>16. CASE Fails
    BY <2>16 DEF Fails, Interruptible, ManagerPlace, PinnedManagerWrites, Attempting, Installed, TypeOK
  <2>17. CASE Cancel
    BY <2>17 DEF Cancel, ManagerPlace, PinnedManagerWrites, Attempting, Installed, TypeOK
  <2>18. CASE KilledMinting
    BY <2>18 DEF KilledMinting, ManagerPlace, PinnedManagerWrites, Attempting, Installed, TypeOK
  <2>19. CASE RunnerLost
    BY <2>19 DEF RunnerLost, ManagerPlace, PinnedManagerWrites, Attempting, Installed, TypeOK
  <2>20. CASE ReadStart
    BY <2>20 DEF ReadStart, Disposes, ManagerPlace, PinnedManagerWrites, Attempting, Installed, TypeOK
  <2>21. CASE Dispose
    BY <2>21 DEF Dispose, ManagerPlace, PinnedManagerWrites, Attempting, Installed, TypeOK
  <2>22. CASE UNCHANGED vars
    BY <2>22 DEF vars, ManagerPlace, PinnedManagerWrites, Attempting, Installed, TypeOK
  <2> QED BY <2>1, <2>2, <2>3, <2>4, <2>5, <2>6, <2>7, <2>8, <2>9, <2>10, <2>11, <2>12, <2>13, <2>14, <2>15, <2>16, <2>17, <2>18, <2>19, <2>20, <2>21, <2>22
          DEF Next, Pre, Main, Post, Runner
<1>d. GatePlace'
  <2> USE DEF Running, PreSteps, MainSteps, Timed
  <2>1. CASE SaveStart
    BY <2>1 DEF SaveStart, GatePlace, SeenPlace, Ending, TypeOK
  <2>2. CASE Provision
    BY <2>2 DEF Provision, GatePlace, SeenPlace, Ending, TypeOK
  <2>3. CASE ReadInputs
    BY <2>3 DEF ReadInputs, Rejects, GatePlace, SeenPlace, Ending, TypeOK
  <2>4. CASE BuildClients
    BY <2>4 DEF BuildClients, GatePlace, SeenPlace, Ending, TypeOK
  <2>5. CASE Activate
    BY <2>5 DEF Activate, Installer, AllowAmbient, GatePlace, SeenPlace, Ending, TypeOK
  <2>6. CASE Updates
    BY <2>6 DEF Updates, GatePlace, SeenPlace, Ending, TypeOK
  <2>7. CASE Clean
    BY <2>7 DEF Clean, ManagerOnPath, GatePlace, SeenPlace, Ending, TypeOK
  <2>8. CASE InstallSucceeds
    BY <2>8 DEF InstallSucceeds, ManagerOnPath, GatePlace, SeenPlace, Ending, TypeOK
  <2>9. CASE InstallFails
    BY <2>9 DEF InstallFails, ManagerOnPath, GatePlace, SeenPlace, Ending, TypeOK
  <2>10. CASE Retry
    BY <2>10 DEF Retry, MayRetry, RetryFrom, GatePlace, SeenPlace, Ending, TypeOK
  <2>11. CASE GiveUp
    BY <2>11 DEF GiveUp, MayRetry, GatePlace, SeenPlace, Ending, TypeOK
  <2>12. CASE Commands
    BY <2>12 DEF Commands, ManagerOnPath, GatePlace, SeenPlace, Ending, TypeOK
  <2>13. CASE Snapshot
    BY <2>13 DEF Snapshot, GatePlace, SeenPlace, Ending, TypeOK
  <2>14. CASE PeerCheck
    <3>1. CASE gate' = "pass"
      <4>1. seen # "missing" /\ input.mode # "false"
        BY <2>14, <3>1 DEF PeerCheck
      <4>2. PICK supported \in BOOLEAN, resolved \in BOOLEAN, rulesKnown \in BOOLEAN,
                 membersKnown \in BOOLEAN, count \in {0, 1} :
              /\ supported /\ resolved /\ rulesKnown /\ membersKnown
                 /\ rules' = world /\ members' = world => (count = 1) = required
              /\ Passes(supported, resolved, ~rulesKnown \/ ~membersKnown, count)
              /\ rules' = world /\ members' = world
        BY <2>14, <3>1, <4>1 DEF PeerCheck, Refreshed
      <4>3. ~required
        BY <4>2 DEF Passes, TypeOK
      <4>4. seen = "read"
        BY <2>14, <4>1 DEF PeerCheck, GatePlace, TypeOK, SeenPlace
      <4> QED BY <2>14, <4>3, <4>4 DEF PeerCheck, GatePlace, SeenPlace
    <3>2. CASE gate' # "pass"
      BY <2>14, <3>2 DEF PeerCheck, GatePlace, SeenPlace
    <3> QED BY <3>1, <3>2
  <2>15. CASE Publish
    BY <2>15 DEF Publish, GatePlace, SeenPlace, Ending, TypeOK
  <2>16. CASE Fails
    BY <2>16 DEF Fails, Interruptible, GatePlace, SeenPlace, Ending, TypeOK
  <2>17. CASE Cancel
    BY <2>17 DEF Cancel, GatePlace, SeenPlace, Ending, TypeOK
  <2>18. CASE KilledMinting
    BY <2>18 DEF KilledMinting, GatePlace, SeenPlace, Ending, TypeOK
  <2>19. CASE RunnerLost
    BY <2>19 DEF RunnerLost, GatePlace, SeenPlace, Ending, TypeOK
  <2>20. CASE ReadStart
    BY <2>20 DEF ReadStart, Disposes, GatePlace, SeenPlace, Ending, TypeOK
  <2>21. CASE Dispose
    BY <2>21 DEF Dispose, GatePlace, SeenPlace, Ending, TypeOK
  <2>22. CASE UNCHANGED vars
    BY <2>22 DEF vars, GatePlace, SeenPlace, Ending, TypeOK
  <2> QED BY <2>1, <2>2, <2>3, <2>4, <2>5, <2>6, <2>7, <2>8, <2>9, <2>10, <2>11, <2>12, <2>13, <2>14, <2>15, <2>16, <2>17, <2>18, <2>19, <2>20, <2>21, <2>22
          DEF Next, Pre, Main, Post, Runner
<1> QED BY <1>t, <1>a, <1>b, <1>c, <1>d

LEMMA IInvHolds == Spec => []IInv
  BY InitIInv, NextIInv, PTL DEF Spec

\* Every reachable state is of the declared types (ActionJob's TypeOK).
THEOREM TypeCorrect == Spec => []TypeOK
<1>1. IInv => TypeOK
  BY DEF IInv
<1> QED BY <1>1, IInvHolds, PTL

\* However the job goes, a token that outlives it is one the runner, GitHub or the
\* action's state kept from post (ActionJob's TokenRevoked).
THEOREM TokensAreRevoked == Spec => []TokenRevoked
<1>1. IInv => TokenRevoked
  BY DEF IInv, TokenPlace
<1> QED BY <1>1, IInvHolds, PTL

\* Where the removal is npm's or pnpm's own, a run goes on from an install of nothing
\* but its own attempt, after any number of retries (ActionJob's CleanSlate).
THEOREM InstallsAreClean == Spec => []CleanSlate
<1>1. IInv => CleanSlate
  BY DEF IInv, SlatePlace
<1> QED BY <1>1, IInvHolds, PTL

\* Once the pin moved, nothing runs under the manager the job started with, given an
\* installer that answers from it only when allowed (ActionJob's PinnedManagerWrites).
THEOREM PinnedManagerAlways == Spec => []PinnedManagerWrites
<1>1. IInv => PinnedManagerWrites
  BY DEF IInv, ManagerPlace
<1> QED BY <1>1, IInvHolds, PTL

\* The peer gate never passes a workspace it could not verify, or judged by what it
\* remembered (ActionJob's GateIsProven).
THEOREM GateNeverGuesses == Spec => []GateIsProven
<1>1. IInv => GateIsProven
  BY DEF IInv, GatePlace, GateIsProven
<1> QED BY <1>1, IInvHolds, PTL

-----------------------------------------------------------------------------
(* Waits that fit *)

\* What was waited is the sum of the waits so far, and past the inputs the whole
\* budget is known to fit.
WaitPlace ==
  /\ attempt = 0 => waited = 0
  /\ attempt >= 1 => waited = SumTo(attempt - 1)
  /\ pc \in Timed => ~Rejects(input.retries, input.timeout)

LEMMA WaitStep == IInv /\ WaitPlace /\ [Next]_vars => WaitPlace'
<1> SUFFICES ASSUME IInv, WaitPlace, [Next]_vars PROVE WaitPlace'
  OBVIOUS
<1> USE DEF tokenVars, installVars, gateVars, ToPost
<1>1. ASSUME UNCHANGED <<input, attempt, waited>>, pc' \in Timed => pc \in Timed
      PROVE  WaitPlace'
  BY <1>1 DEF WaitPlace, Rejects, WaitSeconds, DelayMinutes
<1>2. CASE ReadInputs
  <2>1. pc' \in Timed => ~Rejects(input.retries, input.timeout)
    BY <1>2 DEF ReadInputs, Timed
  <2>2. UNCHANGED <<input, attempt, waited>>
    BY <1>2 DEF ReadInputs
  <2> QED BY <2>1, <2>2 DEF WaitPlace, Rejects, WaitSeconds, DelayMinutes
<1>3. CASE Updates
  <2>1. attempt = 0 /\ waited = 0
    BY <1>3 DEF Updates, IInv, SlatePlace, WaitPlace
  <2>2. pc \in Timed /\ UNCHANGED <<input, waited>> /\ attempt' \in {0, 1}
    BY <1>3, <2>1 DEF Updates, Timed
  <2>3. ~Rejects(input.retries, input.timeout)'
    BY <2>2 DEF WaitPlace, Rejects, WaitSeconds, DelayMinutes
  <2> QED BY <2>1, <2>2, <2>3, SumSteps DEF WaitPlace
<1>4. CASE Retry
  <2>1. /\ attempt \in Nat /\ attempt >= 1 /\ waited = SumTo(attempt - 1)
        /\ pc \in Timed /\ input' = input
        /\ waited' = waited + 60 * DelayMinutes(attempt) /\ attempt' = attempt + 1
    BY <1>4 DEF Retry, Wait, IInv, TypeOK, SlatePlace, Attempting, WaitPlace, Timed
  <2>2. attempt - 1 \in Nat /\ (attempt - 1) + 1 = attempt
    BY <2>1
  <2>3. SumTo((attempt - 1) + 1) = SumTo(attempt - 1) + 60 * DelayMinutes((attempt - 1) + 1)
    BY <2>2, SumSteps
  <2>4. waited' = SumTo(attempt) /\ attempt' - 1 = attempt /\ attempt' # 0
    BY <2>1, <2>2, <2>3
  <2>5. ~Rejects(input.retries, input.timeout)'
    BY <2>1 DEF WaitPlace, Rejects, WaitSeconds, DelayMinutes
  <2> QED BY <2>4, <2>5 DEF WaitPlace
<1>5. CASE SaveStart \/ Provision
  BY <1>1, <1>5 DEF SaveStart, Provision, Timed
<1>6. CASE BuildClients \/ Activate \/ Clean \/ InstallSucceeds \/ InstallFails
  BY <1>1, <1>6 DEF BuildClients, Activate, Clean, InstallSucceeds, InstallFails, Timed
<1>7. CASE GiveUp \/ Commands \/ Snapshot \/ PeerCheck \/ Publish \/ Fails
  BY <1>1, <1>7 DEF GiveUp, Commands, Snapshot, PeerCheck, Publish, Fails, Timed
<1>8. CASE Cancel \/ KilledMinting \/ RunnerLost \/ ReadStart \/ Dispose
  BY <1>1, <1>8 DEF Cancel, KilledMinting, RunnerLost, ReadStart, Dispose, Timed
<1>9. CASE UNCHANGED vars
  BY <1>1, <1>9 DEF vars
<1> QED BY <1>2, <1>3, <1>4, <1>5, <1>6, <1>7, <1>8, <1>9 DEF Next, Pre, Main, Post, Runner

LEMMA WaitsFitHere == IInv /\ WaitPlace => WaitsFit
<1> SUFFICES ASSUME IInv, WaitPlace, pc = "unmatched", MayRetry
             PROVE  waited + Wait < input.timeout
  BY DEF WaitsFit
<1>1. /\ attempt \in Nat \ {0} /\ waited = SumTo(attempt - 1)
      /\ input.retries \in Nat /\ input.timeout \in Nat /\ attempt <= input.retries
  <2>1. attempt \in Nat /\ attempt >= 1
    BY DEF IInv, TypeOK, SlatePlace, Attempting
  <2>2. input.retries \in Nat /\ input.timeout \in Nat
    BY JobAssumption DEF IInv, TypeOK
  <2> QED BY <2>1, <2>2 DEF WaitPlace, MayRetry
<1>2. attempt - 1 \in Nat /\ (attempt - 1) + 1 = attempt
  BY <1>1
<1>3. SumTo((attempt - 1) + 1) = SumTo(attempt - 1) + 60 * DelayMinutes((attempt - 1) + 1)
  BY <1>2, SumSteps
<1>4. waited + Wait = SumTo(attempt)
  BY <1>1, <1>2, <1>3 DEF Wait
<1>5. SumTo(attempt) <= SumTo(input.retries) /\ SumTo(attempt) \in Nat /\ SumTo(input.retries) \in Nat
  BY <1>1, WaitsGrow, SumSteps
<1>6. ~(SumTo(input.retries) >= input.timeout)
  <2>1. ~(WaitSeconds(input.retries) >= input.timeout)
    BY DEF WaitPlace, Timed, Rejects
  <2> QED BY <1>1, <2>1, WaitSecondsIs
<1> QED BY <1>1, <1>4, <1>5, <1>6

(* No retry that is due is one only the timeout can end, however large the budget:
   the inputs are refused unless all of its waits fit, and the waits of a run add up
   to a part of them (readInputs, unmatchedWaitSeconds). *)
THEOREM WaitsAlwaysFit == Spec => []WaitsFit
<1>1. Init => IInv /\ WaitPlace
  BY InitIInv DEF Init, WaitPlace, Timed
<1>2. IInv /\ WaitPlace /\ [Next]_vars => (IInv /\ WaitPlace)'
  BY NextIInv, WaitStep
<1> QED BY <1>1, <1>2, WaitsFitHere, PTL DEF Spec

=============================================================================
