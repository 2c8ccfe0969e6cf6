------------------------------ MODULE MCNetBw -------------------------------
(* Instances of NetBw for TLC. *)
EXTENDS NetBw, TLC

CONSTANTS c1, c2, e1, e2, e3, e4, pid1, pid2, nginx, bash

Line(on, comm, sum, sort) ==
    [on |-> on, comm |-> comm, sum |-> sum, sort |-> sort]

(* Both protocols, per interval and in total; one protocol and a name; nothing *)
(* to collect; a sort key that is not collected.                              *)
AllLines == {Line(Table, FALSE, s, {}) : s \in BOOLEAN}
       \cup {Line({"udp"}, c, s, {}) : c, s \in BOOLEAN}
       \cup {Line({}, FALSE, FALSE, {}), Line({"udp"}, FALSE, FALSE, {"tcp"})}

(* With one map, three sends: two CPUs may meet in an entry while the task     *)
(* clears another one.                                                        *)
SendsOf(line) == IF line = Line({"udp"}, FALSE, FALSE, {}) THEN 3 ELSE 2

(* Nobody looks at names without --comm. *)
NamesOf(line) == IF line.comm THEN Comm ELSE {bash}

(* CPUs and map elements are interchangeable: no operator chooses one. *)
Symm == Permutations(CPU) \cup Permutations(Slot)
=============================================================================
