--------------------------- MODULE MCSyscallStack ---------------------------
(* Instances of SyscallStack for TLC: two of three stacks share a bucket.   *)
EXTENDS SyscallStack, TLC

CONSTANTS c1, c2, e1, e2, e3, b1, b2, s1, s2, s3

MCIdOf == (s1 :> b1) @@ (s2 :> b1) @@ (s3 :> b2)

Made(comm, sys, stack, pid) == [comm |-> comm, sys |-> sys, stack |-> stack, pid |-> pid]

(* One stack of two processes, its neighbour in the bucket, another bucket;   *)
(* a task that is not asked for and a system call that is not.                *)
MCCalls == {Made("app", "futex", s1, 1), Made("app", "futex", s1, 2),
            Made("app", "futex", s2, 1), Made("app", "read", s2, 2),
            Made("other", "futex", s3, 1)}

Symm == Permutations(CPU) \cup Permutations(Slot)
=============================================================================
