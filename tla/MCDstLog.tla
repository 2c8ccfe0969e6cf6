------------------------------ MODULE MCDstLog ------------------------------
(* Instances of DstLog for TLC. *)
EXTENDS DstLogInv, TLC

CONSTANTS c1, c2,         \* CPUs
          e1, e2, e3, e4, \* elements of a map
          pub, lan, v6,   \* a public, a private and a public IPv6 address
          app, other      \* the requested task and another one

(* Two CPUs and map elements are interchangeable: no operator chooses one.  *)
Symm == Permutations(CPU) \cup Permutations(Slot)
=============================================================================
