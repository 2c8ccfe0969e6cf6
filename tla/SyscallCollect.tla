--------------------------- MODULE SyscallCollect ---------------------------
(***************************************************************************)
(* `rstrace syscall-collect`: how often each system call was entered in    *)
(* the last interval.                                                      *)
(*                                                                         *)
(* Kernel side (rstrace-ebpf/src/syscall.rs): a raw tracepoint on          *)
(* sys_enter that counts in SYSCALL_COUNTS.  User side                     *)
(* (rstrace/src/syscall_collect.rs): a task that attaches it, sets the     *)
(* filter, and on every tick reads the map, prints what it read, reads the *)
(* map again for its keys and removes them.  The tracepoint counts on      *)
(* while all this goes on.                                                 *)
(***************************************************************************)
EXTENDS Integers, CounterMaps

CONSTANT MaxEvents   \* bound of the model: tracepoint hits in one behaviour

ASSUME SyscallCollectAssumption == MaxEvents \in Nat

Map == CHOOSE t \in Table : TRUE

VARIABLES
    args,      \* comm: --comm was given; ok: build_comm_filter accepts it
    attached,
    upc,       \* where the task stands
    got,       \* local entries: the counts read, summed per system call
    events,    \* tracepoint hits so far (only to bound the model)
    \* history
    printed,   \* counts printed, per system call
    late,      \* something was counted between a tick and the end of its clearing
    began,     \* the filter was set when the probe of each CPU began
    strangers  \* a task that was not asked for was counted by such a probe

taskVars == <<args, attached, upc, got>>
vars == <<tables, filterOn, probe, it, iterating, recorded, collided, orphaned,
          taskVars, events, printed, late, began, strangers>>

Nothing == [k \in Key |-> 0]
Busy == upc \in {"read", "emit", "clear", "remove"}

Init ==
    /\ CountersInit
    /\ args \in [comm : BOOLEAN, ok : BOOLEAN]
    /\ attached = FALSE /\ upc = "attach" /\ got = Nothing /\ events = 0
    /\ printed = Nothing /\ late = FALSE
    /\ began = [c \in CPU |-> FALSE] /\ strangers = FALSE

(* sys_enter of system call k in task m. *)
Enter(c, m, k) ==
    /\ attached
    /\ events < MaxEvents
    /\ events' = events + 1
    /\ EnterProbe(c, m, Map, k, 1)
    /\ began' = [began EXCEPT ![c] = upc \notin {"attach", "filter"}]
    /\ UNCHANGED <<taskVars, printed, late, strangers>>

Probe(c) ==
    /\ ProbeStep(c)
    /\ IF recorded' # recorded
       THEN /\ late' = (late \/ Busy)
            /\ strangers' = (strangers \/ (args.comm /\ began[c]
                                               /\ probe[c].comm \notin Target))
       ELSE UNCHANGED <<late, strangers>>
    /\ UNCHANGED <<taskVars, events, printed, began>>

-----------------------------------------------------------------------------
(* The task.                                                                *)

counters  == <<tables, filterOn, probe, it, iterating, recorded, collided, orphaned>>
histVars  == <<events, late, began, strangers>>

Attach ==
    /\ upc = "attach"
    /\ attached' = TRUE
    /\ upc' = "filter"
    /\ UNCHANGED <<counters, args, got, histVars, printed>>

(* Mutant: a name that is not accepted is left out. *)
SetFilterLenient ==
    /\ upc = "filter"
    /\ filterOn' = (args.comm /\ args.ok)
    /\ upc' = "select"
    /\ UNCHANGED <<tables, probe, it, iterating, recorded, collided, orphaned,
                   args, attached, got, histVars, printed>>

SetFilter ==
    /\ upc = "filter"
    /\ args.comm => args.ok
    /\ filterOn' = args.comm
    /\ upc' = "select"
    /\ UNCHANGED <<tables, probe, it, iterating, recorded, collided, orphaned,
                   args, attached, got, histVars, printed>>

(* Attaching fails, or the name is empty or too long; Ctrl+C in select!. *)
Exit ==
    /\ \/ upc = "attach"
       \/ upc = "filter" /\ args.comm /\ ~args.ok
       \/ upc = "select"
    /\ upc' = "exited" /\ attached' = FALSE
    /\ UNCHANGED <<counters, args, got, histVars, printed>>

Tick ==
    /\ upc = "select"
    /\ IterStart(Map)
    /\ upc' = "read"
    /\ UNCHANGED <<args, attached, got, histVars, printed>>

(* emit_stats: entries.push((key, value)). *)
ReadKey(k) ==
    /\ upc = "read"
    /\ IterKey(k) \/ IterAgain(k)
    /\ got' = [got EXCEPT ![k] = @ + ValueOf(tables[Map], k)]
    /\ UNCHANGED <<args, attached, upc, histVars, printed>>

ReadEnd ==
    /\ upc = "read"
    /\ IterEnd
    /\ upc' = "emit"
    /\ UNCHANGED <<args, attached, got, histVars, printed>>

(* Everything read is printed; clear_map starts over. *)
Emit ==
    /\ upc = "emit"
    /\ printed' = [k \in Key |-> printed[k] + got[k]]
    /\ IterStart(Map)
    /\ upc' = "clear"
    /\ UNCHANGED <<args, attached, got, histVars>>

ClearKey(k) ==
    /\ upc = "clear"
    /\ IterKey(k) \/ IterAgain(k)
    /\ UNCHANGED <<taskVars, histVars, printed>>

ClearEnd ==
    /\ upc = "clear"
    /\ IterEnd
    /\ upc' = "remove"
    /\ UNCHANGED <<args, attached, got, histVars, printed>>

(* Mutant: what is removed is taken off what was read. *)
RemoveSubtracts(k) ==
    /\ upc = "remove"
    /\ RemoveKey(k)
    /\ got' = [got EXCEPT ![k] = @ - ValueOf(tables[Map], k)]
    /\ UNCHANGED <<args, attached, upc, histVars, printed>>

Remove(k) ==
    /\ upc = "remove"
    /\ RemoveKey(k)
    /\ got' = [got EXCEPT ![k] = 0]
    /\ UNCHANGED <<args, attached, upc, histVars, printed>>

RemoveFails(k) ==
    /\ upc = "remove"
    /\ RemoveMissing(k)
    /\ upc' = "failed" /\ attached' = FALSE
    /\ UNCHANGED <<counters, args, got, histVars, printed>>

(* Mutant: the map is cleared no further than its first key. *)
RemoveEndEarly ==
    /\ upc = "remove"
    /\ upc' = "select"
    /\ got' = Nothing
    /\ UNCHANGED <<counters, args, attached, histVars, printed>>

RemoveEnd ==
    /\ upc = "remove"
    /\ it.seen = {}
    /\ upc' = "select"
    /\ got' = Nothing
    /\ UNCHANGED <<counters, args, attached, histVars, printed>>

TaskStep ==
    \/ Attach \/ SetFilter \/ Exit \/ Tick \/ ReadEnd \/ Emit \/ ClearEnd
    \/ RemoveEnd
    \/ \E k \in Key : ReadKey(k) \/ ClearKey(k) \/ Remove(k) \/ RemoveFails(k)

Next ==
    \/ \E c \in CPU, m \in Comm, k \in Key : Enter(c, m, k)
    \/ \E c \in CPU : Probe(c)
    \/ TaskStep

Spec == Init /\ [][Next]_vars
-----------------------------------------------------------------------------
(* Properties.                                                             *)

TypeOK ==
    /\ CountersType
    /\ args \in [comm : BOOLEAN, ok : BOOLEAN] /\ attached \in BOOLEAN
    /\ upc \in {"attach", "filter", "select", "read", "emit", "clear", "remove",
                "exited", "failed"}
    /\ got \in [Key -> Nat] /\ events \in Nat /\ printed \in [Key -> Nat]
    /\ late \in BOOLEAN /\ strangers \in BOOLEAN /\ began \in [CPU -> BOOLEAN]

(* What the map still owes the reader of the reports: the count of an entry,  *)
(* less the part that has been printed and waits for its removal.             *)
Outstanding(k) ==
    Amount(Map, k) - (IF upc \in {"clear", "remove"} THEN got[k] ELSE 0)

(* As long as no two probes met in one entry, and none keeps adding through a *)
(* pointer to a removed element: a report never claims more than was counted, *)
(* and no key is collected that another round has removed, which would end    *)
(* the program.  What comes in between the reading of an entry and its        *)
(* removal is dropped, and nothing is told twice; if nothing comes in then,   *)
(* every system call counted is in exactly one report or will be in the next: *)
(* reading the map twice drops nothing.                                       *)
ReportsAccounted ==
    /\ upc = "failed" => collided
    /\ ~collided /\ ~orphaned =>
           \A k \in Key :
               /\ Outstanding(k) >= 0
               /\ printed[k] + Outstanding(k) <= recorded[Map][k]
               /\ ~late => printed[k] + Outstanding(k) = recorded[Map][k]

(* With --comm a task of another name is counted only by a probe that began   *)
(* before the filter was written: the tracepoint is attached first, and an    *)
(* unset filter lets everybody pass, but not for longer, and never because    *)
(* the name was refused.                                                      *)
ForeignOnlyFromStart == ~strangers

-----------------------------------------------------------------------------
(* Why they hold.                                                           *)

(* Every probe adds one to this map. *)
OneMap ==
    /\ it.map = Map
    /\ \A c \in CPU : probe[c].map = Map /\ (probe[c].pc # "idle" => probe[c].add = 1)

(* A probe that began with the filter set has been through it. *)
Filtered ==
    /\ attached /\ upc \notin {"attach", "filter"} => filterOn = args.comm
    /\ \A c \in CPU : began[c] =>
           /\ filterOn = args.comm /\ upc \notin {"attach", "filter"}
           /\ args.comm /\ probe[c].pc \in {"lookup", "load", "store", "insert"} =>
                  probe[c].comm \in Target

(* What was read is still in the map, at least, and will be removed.          *)
ReadAhead ==
    /\ iterating <=> upc \in {"read", "clear"}
    /\ upc \in {"attach", "filter", "select"} => got = Nothing
    /\ upc = "failed" => collided
    /\ ~collided /\ ~orphaned =>
           \A k \in Key : /\ got[k] <= Amount(Map, k)
                          /\ upc = "read" /\ got[k] > 0 => k \in it.seen
                          /\ upc = "clear" /\ got[k] > 0 => k \in it.walk
                          /\ upc = "remove" /\ got[k] > 0 => k \in it.seen

(* While nothing comes in, all of it was read. *)
ReadWhole ==
    ~late /\ ~collided /\ ~orphaned =>
        \A k \in Key : Present(tables[Map], k) =>
            /\ upc = "read" => k \in it.walk /\ (k \in it.seen => got[k] = Amount(Map, k))
            /\ upc \in {"emit", "remove"} => k \in it.seen
            /\ upc = "clear" => k \in it.walk
            /\ upc \in {"emit", "clear", "remove"} => got[k] = Amount(Map, k)

(* The inductive invariant. *)
IInv ==
    /\ TypeOK /\ CountersInv /\ OneMap /\ Filtered /\ ReadAhead /\ ReadWhole
    /\ ReportsAccounted /\ ForeignOnlyFromStart
=============================================================================
