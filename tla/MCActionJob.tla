----------------------------- MODULE MCActionJob -----------------------------
(* ActionJob on every package manager and mode.                              *)
EXTENDS ActionJob

\* The default timeout, one that the first wait fills, and one that leaves a
\* second to the first five.
SomeTimeouts == {180, 480, 3541}

=============================================================================
