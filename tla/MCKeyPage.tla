------------------------------ MODULE MCKeyPage ------------------------------
(* KeyPage with two tabs of one browser, which are alike.                  *)
EXTENDS KeyPage, TLC

CONSTANT b1

OneBrowser == {b1}
SharedJar == [t \in Tab |-> b1]

Symmetry ==
  Permutations(Session) \cup Permutations(Ticket) \cup Permutations(Code)
    \cup Permutations(Value) \cup Permutations(Tab)

=============================================================================
