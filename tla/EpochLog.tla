------------------------------ MODULE EpochLog ------------------------------
(***************************************************************************)
(* What a log that is reported in pieces promises: `dstlog`, the dry run of *)
(* `ip-blacklist`, and the captures.  Events are counted per item.  Time    *)
(* is cut into epochs: an event belongs to the epoch in which it is         *)
(* counted, a rotation closes the current epoch, and one report prints all  *)
(* the counts of the closed epoch, each exactly once, before the next       *)
(* rotation.  The promise ends with the first race between a rotation and   *)
(* an event being counted, or between two events of one item.               *)
(***************************************************************************)
EXTENDS Naturals

CONSTANT Item

VARIABLES
    current,  \* counts of the current epoch
    closed,   \* counts of the closed epoch, while they wait for their report
    printed,  \* counts reported in all, for the items that are shown
    shown,    \* the items a report lists
    raced     \* the promise has ended

vars == <<current, closed, printed, shown, raced>>

Nothing == [i \in Item |-> 0]

Init ==
    /\ current = Nothing /\ closed = Nothing /\ printed = Nothing
    /\ shown \subseteq Item
    /\ raced = FALSE

Count(i) ==
    /\ current' = [current EXCEPT ![i] = @ + 1]
    /\ UNCHANGED <<closed, printed, shown, raced>>

Rotate ==
    /\ closed = Nothing
    /\ closed' = current
    /\ current' = Nothing
    /\ UNCHANGED <<printed, shown, raced>>

Report ==
    /\ printed' = [i \in Item |-> IF i \in shown THEN printed[i] + closed[i]
                                  ELSE printed[i]]
    /\ closed' = Nothing
    /\ UNCHANGED <<current, shown, raced>>

Next ==
    \/ \E i \in Item : Count(i)
    \/ Rotate
    \/ Report
    \/ raced'

Spec == Init /\ [][Next]_vars
=============================================================================
