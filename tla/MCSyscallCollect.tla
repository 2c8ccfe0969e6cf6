-------------------------- MODULE MCSyscallCollect --------------------------
(* Instances of SyscallCollect for TLC. *)
EXTENDS SyscallCollect, TLC

CONSTANTS c1, c2, e1, e2, e3, e4, read, futex, app, other

(* CPUs and map elements are interchangeable: no operator chooses one. *)
Symm == Permutations(CPU) \cup Permutations(Slot)
=============================================================================
