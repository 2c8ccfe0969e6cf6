----------------------------- MODULE CommFilter -----------------------------
(***************************************************************************)
(* The names of tasks as the filters see them: build_comm_filter           *)
(* (rstrace/src/util.rs) makes a filter of a name on the command line, and *)
(* comm_eq (rstrace-ebpf/src/exec_trace.rs) compares it with a task's;     *)
(* comm_matches (rstrace-ebpf/src/helpers.rs) is the same comparison.      *)
(* A name is a sequence of bytes, in a map an array that zeros fill up.    *)
(***************************************************************************)
EXTENDS Naturals, SequencesExt

CONSTANTS
    Byte,        \* the bytes of names
    Zero,        \* the byte that is in none
    MaxCommLen   \* MAX_COMM_LEN: 16, as in the kernel

ASSUME CommFilterAssumption == Zero \notin Byte /\ MaxCommLen \in Nat \ {0}

CommBytes == [1 .. MaxCommLen -> Byte \cup {Zero}]

Padded(name) ==
    [i \in 1 .. MaxCommLen |-> IF i \in DOMAIN name THEN name[i] ELSE Zero]

(* A task's name: the kernel cuts it off in front of a last zero. *)
TaskName(name) == Len(name) < MaxCommLen

(* Mutant: a name that is too long is cut off. *)
BuildCommFilterCuts(name) ==
    IF name = <<>> THEN {}
    ELSE {[Padded(name) EXCEPT ![MaxCommLen] = Zero]}

(* The filter, or nothing. *)
BuildCommFilter(name) ==
    IF name = <<>> \/ Len(name) > MaxCommLen - 1 THEN {} ELSE {Padded(name)}

(* The first zero of the filter ends the comparison. *)
CommEq(filter, comm) ==
    \A i \in 1 .. MaxCommLen :
        (\A j \in 1 .. i : filter[j] # Zero) => filter[i] = comm[i]
=============================================================================
