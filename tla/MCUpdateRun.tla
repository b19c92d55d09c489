----------------------------- MODULE MCUpdateRun -----------------------------
(* UpdateRun on every package manager and every input that steers a run. *)
EXTENDS UpdateRun

AllPackageManagers == {"pnpm", "bun", "npm"}

=============================================================================
