------------------------------ MODULE RunReport ------------------------------
(***************************************************************************)
(* What a workflow that uses the action may rely on when it reads the      *)
(* output has-changes: it has a value before any work is done, it is never *)
(* taken back, nothing is published once it is true, and a run that        *)
(* succeeds without setting it has published nothing.  A run that fails    *)
(* may have published more than it says.                                   *)
(***************************************************************************)

VARIABLES
  work,   \* what the run has published: its commit, its pull request
  claim,  \* the output has-changes
  ended   \* has the main phase ended, and how?

vars == <<work, claim, ended>>

Published == {"commit", "pull request"}

TypeOK ==
  /\ work \subseteq Published
  /\ claim \in {"unset", "false", "true"}
  /\ ended \in {"no", "succeeded", "failed"}

Init == work = {} /\ claim = "unset" /\ ended = "no"

Baseline ==
  /\ claim = "unset" /\ ended = "no"
  /\ claim' = "false"
  /\ UNCHANGED <<work, ended>>

Publish ==
  /\ claim = "false" /\ ended = "no"
  /\ work \subseteq work' /\ work' \subseteq Published
  /\ UNCHANGED <<claim, ended>>

Claim ==
  /\ claim = "false" /\ ended = "no"
  /\ claim' = "true"
  /\ UNCHANGED <<work, ended>>

Succeed ==
  /\ claim # "unset" /\ ended = "no"
  /\ claim = "false" => work = {}
  /\ ended' = "succeeded"
  /\ UNCHANGED <<work, claim>>

\* A run may be killed while it publishes, and before its baseline is out.
Die ==
  /\ ended = "no"
  /\ ended' = "failed"
  /\ \/ UNCHANGED work
     \/ claim = "false" /\ work \subseteq work' /\ work' \subseteq Published
  /\ UNCHANGED claim

Next == Baseline \/ Publish \/ Claim \/ Succeed \/ Die

Spec == Init /\ [][Next]_vars

=============================================================================
