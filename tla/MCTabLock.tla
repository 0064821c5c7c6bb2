----------------------------- MODULE MCTabLock -----------------------------
EXTENDS TabLock, TLC

(* Tabs run the same program and share one cookie; sound for safety only.   *)
Symmetry == Permutations(Tab)

=============================================================================
