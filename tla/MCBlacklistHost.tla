--------------------------- MODULE MCBlacklistHost ---------------------------
(* Instances of BlacklistHost for TLC. *)
EXTENDS BlacklistHost, FiniteSetsExt, TLC

CONSTANTS p1, p2, w1, w2, old, new

(* Two commands and an init, or one and two. *)
AnyThree == kSubset(3, Proc \cup Writer)

(* Processes and writers are interchangeable: no operator chooses one. *)
Symm == Permutations(Proc) \cup Permutations(Writer)
=============================================================================
