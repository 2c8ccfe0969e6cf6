------------------------------- MODULE NetBw --------------------------------
(***************************************************************************)
(* `rstrace netbw-collect`: bytes sent per process, over TCP and UDP.      *)
(*                                                                         *)
(* Kernel side (rstrace-ebpf/src/netbw.rs): kprobes on tcp_write_xmit and  *)
(* udp_sendmsg that add to TCP_TX_BYTES and UDP_TX_BYTES under the number  *)
(* of the current process.  User side (rstrace/src/netbw_collect.rs): on   *)
(* every tick a task reads both maps, asks /proc which of the processes    *)
(* found are still there and, with --comm, have that name, reports those,  *)
(* and clears both maps unless --sum was given.                            *)
(*                                                                         *)
(* Each task has a name: the kernel compares that of the thread that sends *)
(* with a filter that accepts longer names too, /proc/<pid>/comm is that   *)
(* of the thread the process began with.  A task may change its name, and  *)
(* a process number is free again when its process has ended.              *)
(***************************************************************************)
EXTENDS Integers, CounterMaps

CONSTANTS
    Requested,    \* the name given with --comm
    CommandLines, \* the command lines tried
    Names(_),     \* bound of the model: names of tasks, for a command line
    Sizes,        \* lengths of what is sent
    MaxSends(_),  \* bound of the model: probes in one behaviour, for a command line
    MaxChanges    \* bound of the model: processes that begin or change their
                  \* names in one behaviour

(* -t, -u, --comm (a name build_comm_filter accepts), --sum, and --sort. *)
Args ==
    [on : SUBSET Table, comm : BOOLEAN, sum : BOOLEAN,
     sort : {{}, {"tcp"}, {"udp"}}]

ASSUME NetBwAssumption ==
    /\ Table = {"tcp", "udp"}
    /\ CommandLines \subseteq Args
    /\ Requested \in Target
    /\ Sizes \subseteq Nat
    /\ MaxChanges \in Nat
    /\ \A a \in CommandLines : MaxSends(a) \in Nat /\ Names(a) \subseteq Comm

VARIABLES
    name,      \* process numbers in use: {the name in /proc}, or {} when free
    args,
    attached,  \* the maps whose kprobe is attached
    upc,       \* where the task stands
    got,       \* locals tcp and udp
    sends, changes,
    \* history
    base,      \* what had been recorded when the tick came
    shown,     \* bytes reported, per map and process number
    omitted,   \* bytes read for a report that left the process out
    late,      \* entries to which something was added between a tick and the
               \* end of its clearing
    began,     \* the filter was set when the probe of each CPU began
    strangers  \* a task that was not asked for was counted by such a probe

procVars == <<name, changes>>
taskVars == <<args, attached, upc, got>>
histVars == <<base, shown, omitted>>
probeVars == <<late, began, strangers>>
vars == <<tables, filterOn, probe, it, iterating, recorded, collided, orphaned,
          procVars, taskVars, sends, histVars, probeVars>>

Nothing == [t \in Table |-> [k \in Key |-> 0]]
Busy == upc \in {"read", "emit", "clear", "remove"}

Init ==
    /\ CountersInit
    /\ name = [k \in Key |-> {}]
    /\ args \in CommandLines
    /\ attached = {} /\ upc = "check" /\ got = Nothing
    /\ sends = 0 /\ changes = 0
    /\ base = Nothing /\ shown = Nothing /\ omitted = Nothing
    /\ late = {} /\ began = [c \in CPU |-> FALSE] /\ strangers = FALSE

-----------------------------------------------------------------------------
(* The kernel: processes come and go, and send.                             *)

counters == <<tables, filterOn, probe, it, iterating, recorded, collided, orphaned>>

(* A process begins, or the thread it began with changes its name.            *)
Named(k, m) ==
    /\ changes < MaxChanges
    /\ changes' = changes + 1
    /\ name' = [name EXCEPT ![k] = {m}]
    /\ UNCHANGED <<counters, taskVars, sends, histVars, probeVars>>

Fork(k, m) == name[k] = {} /\ Named(k, m)

Rename(k, m) == name[k] \notin {{}, {m}} /\ Named(k, m)

ExitProcess(k) ==
    /\ name[k] # {}
    /\ \A c \in CPU : probe[c].pc # "idle" => probe[c].key # k
    /\ name' = [name EXCEPT ![k] = {}]
    /\ UNCHANGED <<counters, changes, taskVars, sends, histVars, probeVars>>

(* A thread of process k, named m, sends n bytes; nothing is counted of an    *)
(* empty message.                                                             *)
Send(c, m, t, k, n) ==
    /\ t \in attached
    /\ n > 0
    /\ name[k] # {}
    /\ sends < MaxSends(args)
    /\ sends' = sends + 1
    /\ EnterProbe(c, m, t, k, n)
    /\ began' = [began EXCEPT ![c] = upc \notin {"check", "attach"}]
    /\ UNCHANGED <<procVars, taskVars, histVars, late, strangers>>

Probe(c) ==
    /\ ProbeStep(c)
    /\ LET t == probe[c].map  k == probe[c].key
           mine == IF args.comm /\ began[c] THEN {probe[c].comm} ELSE {} IN
       IF recorded' # recorded
       THEN /\ late' = IF Busy THEN late \cup {<<t, k>>} ELSE late
            /\ strangers' = (strangers \/ ~(mine \subseteq Target))
       ELSE UNCHANGED <<late, strangers>>
    /\ began' = [began EXCEPT ![c] = @ /\ probe'[c].pc # "idle"]
    /\ UNCHANGED <<procVars, taskVars, sends, histVars>>

-----------------------------------------------------------------------------
(* The task: run().                                                         *)

world == <<procVars, sends, probeVars>>

CheckArgs ==
    /\ upc = "check"
    /\ upc' = IF args.on = {} \/ ~(args.sort \subseteq args.on)
              THEN "exited" ELSE "attach"
    /\ UNCHANGED <<counters, world, args, attached, got, histVars>>

(* The kprobe of TCP first, then that of UDP. *)
Attach(t) ==
    /\ upc = "attach"
    /\ t \in args.on \ attached
    /\ t = "udp" => "tcp" \notin args.on \ attached
    /\ attached' = attached \cup {t}
    /\ UNCHANGED <<counters, world, args, upc, got, histVars>>

(* Mutant: the filter is set where the kprobe of TCP is attached. *)
SetFilterWithTcp ==
    /\ upc = "attach"
    /\ attached = args.on
    /\ filterOn' = (args.comm /\ "tcp" \in args.on)
    /\ upc' = "select"
    /\ UNCHANGED <<tables, probe, it, iterating, recorded, collided, orphaned,
                   world, args, attached, got, histVars>>

SetFilter ==
    /\ upc = "attach"
    /\ attached = args.on
    /\ filterOn' = args.comm
    /\ upc' = "select"
    /\ UNCHANGED <<tables, probe, it, iterating, recorded, collided, orphaned,
                   world, args, attached, got, histVars>>

(* `?`: a kprobe cannot be attached, the name is empty or too long, the       *)
(* output file cannot be written; Ctrl+C in select!.                          *)
Exit ==
    /\ upc \in {"attach", "select", "emit"}
    /\ upc' = "exited" /\ attached' = {}
    /\ UNCHANGED <<counters, world, args, got, histVars>>

First == IF "tcp" \in args.on THEN "tcp" ELSE "udp"

Last(t) == t = "udp" \/ "udp" \notin args.on

Tick ==
    /\ upc = "select"
    /\ IterStart(First)
    /\ upc' = "read"
    /\ got' = Nothing
    /\ base' = recorded
    /\ UNCHANGED <<world, args, attached, shown, omitted>>

(* read_bytes_map: out.insert(pid, bytes). *)
ReadKey(k) ==
    /\ upc = "read"
    /\ IterKey(k) \/ IterAgain(k)
    /\ got' = [got EXCEPT ![it.map][k] = ValueOf(tables[it.map], k)]
    /\ UNCHANGED <<world, args, attached, upc, histVars>>

ReadEnd ==
    /\ upc = "read"
    /\ it.walk \subseteq it.seen
    /\ IF Last(it.map) THEN IterEnd /\ upc' = "emit"
       ELSE iterating /\ IterStart("udp") /\ UNCHANGED upc
    /\ UNCHANGED <<world, args, attached, got, histVars>>

Found == {k \in Key : \E t \in Table : got[t][k] > 0}

(* collect_pids: with --comm the name in /proc has to be the one given. *)
ShownPids == {k \in Found : name[k] # {} /\ (args.comm => name[k] = {Requested})}

(* Mutant: the maps are cleared with --sum, and only then. *)
EmitSwapped ==
    /\ upc = "emit"
    /\ shown' = [t \in Table |-> [k \in Key |->
                    IF k \notin ShownPids THEN shown[t][k]
                    ELSE got[t][k] + IF args.sum THEN 0 ELSE shown[t][k]]]
    /\ omitted' = [t \in Table |-> [k \in Key |->
                      omitted[t][k] + IF args.sum \/ k \in ShownPids THEN 0 ELSE got[t][k]]]
    /\ IF ~args.sum
       THEN upc' = "select" /\ UNCHANGED counters
       ELSE upc' = "clear" /\ IterStart(First)
    /\ UNCHANGED <<world, args, attached, got, base>>

(* emit_stats, then the clearing, which starts with the keys of TCP_TX_BYTES. *)
Emit ==
    /\ upc = "emit"
    /\ shown' = [t \in Table |-> [k \in Key |->
                    IF k \notin ShownPids THEN shown[t][k]
                    ELSE got[t][k] + IF args.sum THEN 0 ELSE shown[t][k]]]
    /\ omitted' = [t \in Table |-> [k \in Key |->
                      omitted[t][k] + IF args.sum \/ k \in ShownPids THEN 0 ELSE got[t][k]]]
    /\ IF args.sum
       THEN upc' = "select" /\ UNCHANGED counters
       ELSE upc' = "clear" /\ IterStart(First)
    /\ UNCHANGED <<world, args, attached, got, base>>

ClearKey(k) ==
    /\ upc = "clear"
    /\ IterKey(k) \/ IterAgain(k)
    /\ UNCHANGED <<world, taskVars, histVars>>

ClearEnd ==
    /\ upc = "clear"
    /\ IterEnd
    /\ upc' = "remove"
    /\ UNCHANGED <<world, args, attached, got, histVars>>

(* Mutant: what is removed is taken off what was read. *)
RemoveSubtracts(k) ==
    /\ upc = "remove"
    /\ RemoveKey(k)
    /\ got' = [got EXCEPT ![it.map][k] = @ - ValueOf(tables[it.map], k)]
    /\ UNCHANGED <<world, args, attached, upc, histVars>>

Remove(k) ==
    /\ upc = "remove"
    /\ RemoveKey(k)
    /\ got' = [got EXCEPT ![it.map][k] = 0]
    /\ UNCHANGED <<world, args, attached, upc, histVars>>

RemoveFails(k) ==
    /\ upc = "remove"
    /\ RemoveMissing(k)
    /\ upc' = "failed" /\ attached' = {}
    /\ UNCHANGED <<counters, world, args, got, histVars>>

RemoveEnd ==
    /\ upc = "remove"
    /\ it.seen = {}
    /\ IF Last(it.map)
       THEN upc' = "select" /\ got' = Nothing /\ UNCHANGED counters
       ELSE upc' = "clear" /\ IterStart("udp") /\ UNCHANGED got
    /\ UNCHANGED <<world, args, attached, histVars>>

TaskStep ==
    \/ CheckArgs \/ SetFilter \/ Exit \/ Tick \/ ReadEnd \/ Emit \/ ClearEnd
    \/ RemoveEnd
    \/ \E t \in Table : Attach(t)
    \/ \E k \in Key : ReadKey(k) \/ ClearKey(k) \/ Remove(k) \/ RemoveFails(k)

Next ==
    \/ \E k \in Key, m \in Names(args) : Fork(k, m) \/ Rename(k, m)
    \/ \E k \in Key : ExitProcess(k)
    \/ \E c \in CPU, m \in Names(args), t \in Table, k \in Key, n \in Sizes :
           Send(c, m, t, k, n)
    \/ \E c \in CPU : Probe(c)
    \/ TaskStep

Spec == Init /\ [][Next]_vars
-----------------------------------------------------------------------------
(* Properties.                                                             *)

Totals == [Table -> [Key -> Nat]]

TypeOK ==
    /\ CountersType
    /\ name \in [Key -> SUBSET Comm] /\ changes \in Nat /\ sends \in Nat
    /\ args \in CommandLines /\ attached \subseteq Table
    /\ upc \in {"check", "attach", "select", "read", "emit", "clear", "remove",
                "exited", "failed"}
    /\ got \in Totals /\ base \in Totals /\ shown \in Totals
    /\ omitted \in Totals
    /\ late \subseteq Table \X Key /\ began \in [CPU -> BOOLEAN] /\ strangers \in BOOLEAN

(* What map t still owes the reader for process k. *)
Outstanding(t, k) ==
    Amount(t, k) - (IF upc \in {"clear", "remove"} THEN got[t][k] ELSE 0)

(* Without --sum, and as long as no probes met in one entry and none adds     *)
(* through a pointer to a removed element: no byte is told twice, although    *)
(* probes go on adding while both maps are read, and then cleared.  And each  *)
(* byte is in one report, or will be in the next, or was left out of one that *)
(* did not name its process, unless it came into an entry between a tick and  *)
(* the end of its clearing: what others send then makes no difference.        *)
ExactUnlessLate ==
    ~args.sum /\ ~collided /\ ~orphaned =>
        \A t \in Table, k \in Key :
            LET told == shown[t][k] + omitted[t][k] + Outstanding(t, k) IN
            /\ Outstanding(t, k) >= 0 /\ told <= recorded[t][k]
            /\ <<t, k>> \notin late => told = recorded[t][k]

(* With --sum a report is up to date: it covers everything sent before its    *)
(* tick and nothing that was never sent, although probes go on adding while   *)
(* the one map and then the other is read.                                    *)
SumFresh ==
    upc = "emit" /\ args.sum /\ ~collided =>
        \A t \in args.on, k \in Key :
            base[t][k] <= got[t][k] /\ got[t][k] <= recorded[t][k]

(* With --comm a task whose name does not even begin like the one given is    *)
(* counted only by a probe that began before the filter was written.          *)
ForeignOnlyFromStart == ~strangers

-----------------------------------------------------------------------------
(* Why they hold.                                                           *)

(* TCP's map is worked through before UDP's. *)
Passed(t) == t = "tcp" /\ it.map = "udp"

(* Where the task may be; only kprobes asked for run; --sum removes nothing.  *)
Phases ==
    /\ iterating <=> upc \in {"read", "clear"}
    /\ attached \subseteq args.on
    /\ args.sum => upc \notin {"clear", "remove", "failed"} /\ ~orphaned
    /\ \A c \in CPU : probe[c].pc # "idle" =>
           probe[c].map \in args.on /\ probe[c].add > 0
    /\ \A t \in Table \ args.on, k \in Key : ~Present(tables[t], k)

(* A probe that began with the filter set has been through it. *)
Filtered ==
    /\ upc = "check" => attached = {}
    /\ attached # {} /\ upc \notin {"check", "attach"} => filterOn = args.comm
    /\ \A c \in CPU : began[c] =>
           /\ filterOn = args.comm /\ upc \notin {"check", "attach"}
           /\ args.comm /\ probe[c].pc \in {"lookup", "load", "store", "insert"} =>
                  probe[c].comm \in Target

(* What was read is still in the map, at least, and will be removed. *)
ReadAhead ==
    ~collided /\ ~orphaned =>
        \A t \in Table, k \in Key :
            /\ got[t][k] <= Amount(t, k)
            /\ got[t][k] > 0 =>
                   /\ upc \in {"clear", "remove"} => ~Passed(t)
                   /\ upc = "clear"  /\ t = it.map => k \in it.walk
                   /\ upc = "remove" /\ t = it.map => k \in it.seen

(* All that does not come in late is read, and then removed. *)
ReadWhole ==
    ~collided /\ ~orphaned =>
        \A t \in Table, k \in Key : Amount(t, k) > 0 /\ <<t, k>> \notin late =>
            /\ upc = "read" =>
                   /\ Passed(t) => got[t][k] = Amount(t, k)
                   /\ t = it.map => k \in it.walk
                                    /\ (k \in it.seen => got[t][k] = Amount(t, k))
            /\ upc \in {"emit", "clear", "remove"} => got[t][k] = Amount(t, k)

(* Nothing is removed with --sum, so what was there at the tick is read. *)
SumRead ==
    args.sum /\ ~collided =>
        \A t \in Table, k \in Key :
            /\ Amount(t, k) = recorded[t][k]
            /\ upc \in {"read", "emit"} => base[t][k] <= recorded[t][k]
            /\ upc = "read" /\ t \in args.on /\ base[t][k] > 0 =>
                   /\ Passed(t) => base[t][k] <= got[t][k]
                   /\ t = it.map => k \in it.walk
                                    /\ (k \in it.seen => base[t][k] <= got[t][k])

(* The inductive invariant. *)
IInv ==
    /\ TypeOK /\ CountersInv /\ Phases /\ Filtered /\ ReadAhead /\ ReadWhole /\ SumRead
    /\ ExactUnlessLate /\ SumFresh /\ ForeignOnlyFromStart
=============================================================================
