---------------------------- MODULE SyscallStack ----------------------------
(***************************************************************************)
(* `rstrace syscall-stack`: from which stacks a system call was made.      *)
(*                                                                         *)
(* Kernel side (rstrace-ebpf/src/syscall_stack.rs): a raw tracepoint on    *)
(* sys_enter that stores the stack in STACK_TRACES and counts under the id *)
(* it gets.  User side (rstrace/src/syscall_stack.rs): a task that         *)
(* attaches it, sets the filter and the number to watch, and on every tick *)
(* copies the counts, looks up the stack of each, prints them, and removes *)
(* the counts; the stacks stay.                                            *)
(*                                                                         *)
(* An id is the bucket a stack hashes to; bpf_get_stackid without          *)
(* BPF_F_REUSE_STACKID refuses a stack whose bucket another one has.  Two  *)
(* of its steps, and a lookup from user space, which takes the stack out   *)
(* of its bucket while it copies it, can still get between each other.     *)
(***************************************************************************)
EXTENDS CounterMaps

CONSTANTS
    Sys,       \* system call numbers
    Zero,      \* number 0: what an unset TARGET_SYSCALL holds
    Stack,     \* user stacks
    NoStack,   \* an empty bucket
    IdOf,      \* the bucket of each stack
    Pid,       \* processes
    Calls,     \* the system calls made: [comm, sys, stack, pid]
    MaxEvents  \* bound of the model: tracepoint hits in one behaviour

Call == [comm : Comm, sys : Sys, stack : Stack, pid : Pid]

ASSUME SyscallStackAssumption ==
    /\ Zero \in Sys /\ NoStack \notin Stack
    /\ IdOf \in [Stack -> Key]
    /\ Calls \subseteq Call /\ Calls # {}
    /\ MaxEvents \in Nat

Map == CHOOSE t \in Table : TRUE

VARIABLES
    target,    \* TARGET_SYSCALL[0]
    traces,    \* STACK_TRACES
    pids,      \* the pid in each element of STACK_COUNTS: {pid}, or {}
    hit,       \* the call each CPU is in, and how far its probe is
    args,      \* sys: the number watched; ok: build_comm_filter accepts --comm
    attached, upc,
    got,       \* local entries: the counts
    todo,      \* local entries: the ids not formatted yet
    lifted,    \* the id format_stack looks up, and the stack: {<<id, stack>>}
    events,    \* tracepoint hits so far (only to bound the model)
    \* history
    makers,    \* <<stack, pid>> of the calls counted in each entry
    swapped,   \* a stack was put in a bucket that another one had taken meanwhile
    stale,     \* an entry was removed under a probe that had yet to store its pid
    foreign    \* a call not asked for, made after the start-up, was counted

kernelVars == <<target, traces, pids, hit>>
taskVars   == <<args, attached, upc, got, todo, lifted>>
histVars   == <<makers, swapped, stale, foreign>>
counters   == <<tables, filterOn, probe, it, iterating, recorded, collided, orphaned>>
vars == <<counters, kernelVars, taskVars, events, histVars>>

Nothing == [k \in Key |-> 0]
Busy    == upc \in {"read", "format", "clear", "remove"}
(* What syscall-stack <sys> --comm <name> asks for. *)
Asked(x) == x.comm \in Target /\ x.sys = args.sys

Ready   == upc = "select" \/ Busy

IdleHit == [stage |-> "idle", call |-> CHOOSE x \in Calls : TRUE,
            elem |-> NoSlot, ready |-> FALSE]

Init ==
    /\ CountersInit
    /\ target = Zero
    /\ traces = [k \in Key |-> NoStack] /\ pids = [s \in Slot |-> {}]
    /\ hit = [c \in CPU |-> IdleHit]
    /\ args \in [sys : Sys, ok : BOOLEAN]
    /\ attached = FALSE /\ upc = "attach" /\ got = Nothing
    /\ todo = {} /\ lifted = {} /\ events = 0
    /\ makers = [k \in Key |-> {}]
    /\ swapped = FALSE /\ stale = FALSE /\ foreign = FALSE

-----------------------------------------------------------------------------
(* The tracepoint: filter, number, stack, count.                            *)

At(c, stage) == hit[c].stage = stage
Goes(c, stage) == hit' = [hit EXCEPT ![c].stage = stage]
Leaves(c) == hit' = [hit EXCEPT ![c] = IdleHit] /\ Becomes(c, IdleProbe)

Enter(c, x) ==
    /\ attached
    /\ At(c, "idle")
    /\ events < MaxEvents
    /\ events' = events + 1
    /\ EnterProbe(c, x.comm, Map, IdOf[x.stack], 1)
    /\ hit' = [hit EXCEPT ![c] = [IdleHit EXCEPT !.stage = "filter", !.call = x,
                                                 !.ready = Ready]]
    /\ UNCHANGED <<target, traces, pids, taskVars, histVars>>

Filter(c) ==
    /\ CheckFilter(c)
    /\ hit' = [hit EXCEPT ![c] =
                  IF probe'[c].pc = "idle" THEN IdleHit ELSE [@ EXCEPT !.stage = "target"]]
    /\ UNCHANGED <<target, traces, pids, taskVars, events, histVars>>

CheckTarget(c) ==
    /\ At(c, "target")
    /\ IF hit[c].call.sys = target
       THEN Goes(c, "trace") /\ UNCHANGED probe
       ELSE Leaves(c)
    /\ UNCHANGED <<tables, filterOn, it, iterating, recorded, collided, orphaned,
                   target, traces, pids, taskVars, events, histVars>>

(* Mutant: get_stackid is called with BPF_F_REUSE_STACKID. *)
GetStackReuse(c) ==
    /\ At(c, "trace")
    /\ LET s == hit[c].call.stack IN traces' = [traces EXCEPT ![IdOf[s]] = s]
    /\ Goes(c, "count")
    /\ UNCHANGED <<counters, target, pids, taskVars, events, histVars>>

(* bpf_get_stackid: the bucket has this stack, another one, or none. *)
GetStack(c) ==
    /\ At(c, "trace")
    /\ LET s == hit[c].call.stack  there == traces[IdOf[s]] IN
       CASE there = s       -> Goes(c, "count") /\ UNCHANGED probe
         [] there = NoStack -> Goes(c, "link") /\ UNCHANGED probe
         [] OTHER           -> Leaves(c)
    /\ UNCHANGED <<tables, filterOn, it, iterating, recorded, collided, orphaned,
                   target, traces, pids, taskVars, events, histVars>>

(* ... and then the new stack is exchanged for whatever the bucket has by now. *)
LinkStack(c) ==
    /\ At(c, "link")
    /\ LET s == hit[c].call.stack  k == IdOf[s] IN
       /\ traces' = [traces EXCEPT ![k] = s]
       /\ swapped' = (swapped \/ traces[k] \notin {s, NoStack}
                              \/ \E o \in Stack \ {s} : <<k, o>> \in lifted)
    /\ Goes(c, "count")
    /\ UNCHANGED <<counters, target, pids, taskVars, events,
                   makers, stale, foreign>>

Find(c) ==
    /\ At(c, "count")
    /\ Lookup(c) \/ Load(c)
    /\ UNCHANGED <<kernelVars, taskVars, events, histVars>>

(* A call has been counted. *)
Counted(c) ==
    LET x == hit[c].call IN
    /\ makers' = [makers EXCEPT ![IdOf[x.stack]] = @ \cup {<<x.stack, x.pid>>}]
    /\ foreign' = (foreign \/ (hit[c].ready /\ ~Asked(x)))
    /\ UNCHANGED <<swapped, stale>>

(* The count of the sample. *)
StoreCount(c) ==
    /\ At(c, "count")
    /\ Store(c)
    /\ Counted(c)
    /\ hit' = [hit EXCEPT ![c].stage = "pid", ![c].elem = probe[c].elem]
    /\ UNCHANGED <<target, traces, pids, taskVars, events>>

(* Its pid: a store of its own, through the same pointer. *)
StorePid(c) ==
    /\ At(c, "pid")
    /\ pids' = [pids EXCEPT ![hit[c].elem] = {hit[c].call.pid}]
    /\ hit' = [hit EXCEPT ![c] = IdleHit]
    /\ UNCHANGED <<counters, target, traces, taskVars, events, histVars>>

(* Mutant: the new sample has no process. *)
InsertCountOnly(c) ==
    /\ At(c, "count")
    /\ Insert(c)
    /\ IF recorded' # recorded THEN Counted(c) ELSE UNCHANGED histVars
    /\ hit' = [hit EXCEPT ![c] = IdleHit]
    /\ UNCHANGED <<target, traces, pids, taskVars, events>>

(* STACK_COUNTS.insert: count and pid at once. *)
InsertSample(c) ==
    /\ At(c, "count")
    /\ Insert(c)
    /\ LET x == hit[c].call IN
       IF recorded' # recorded
       THEN /\ Counted(c)
            /\ pids' = [pids EXCEPT ![tables'[Map].tab[IdOf[x.stack]]] = {x.pid}]
       ELSE UNCHANGED <<pids, histVars>>
    /\ hit' = [hit EXCEPT ![c] = IdleHit]
    /\ UNCHANGED <<target, traces, taskVars, events>>

Probe(c) ==
    \/ Filter(c) \/ CheckTarget(c) \/ GetStack(c) \/ LinkStack(c) \/ Find(c)
    \/ StoreCount(c) \/ StorePid(c) \/ InsertSample(c)

-----------------------------------------------------------------------------
(* The task.                                                                *)

Attach ==
    /\ upc = "attach"
    /\ attached' = TRUE
    /\ upc' = "filter"
    /\ UNCHANGED <<counters, kernelVars, args, got, todo, lifted, events, histVars>>

SetFilter ==
    /\ upc = "filter"
    /\ args.ok
    /\ filterOn' = TRUE
    /\ upc' = "target"
    /\ UNCHANGED <<tables, probe, it, iterating, recorded, collided, orphaned,
                   kernelVars, args, attached, got, todo, lifted, events, histVars>>

(* Mutant: the number is not written. *)
SetTargetNever ==
    /\ upc = "target"
    /\ upc' = "select"
    /\ UNCHANGED <<counters, kernelVars, args, attached, got, todo, lifted,
                   events, histVars>>

SetTarget ==
    /\ upc = "target"
    /\ target' = args.sys
    /\ upc' = "select"
    /\ UNCHANGED <<counters, traces, pids, hit, args, attached, got, todo, lifted,
                   events, histVars>>

(* Attaching fails, or the name is rejected; Ctrl+C; stdout is closed. *)
Exit ==
    /\ \/ upc \in {"attach", "select"}
       \/ upc = "filter" /\ ~args.ok
       \/ upc = "format" /\ lifted = {}
    /\ upc' = "exited" /\ attached' = FALSE
    /\ UNCHANGED <<counters, kernelVars, args, got, todo, lifted, events, histVars>>

Tick ==
    /\ upc = "select"
    /\ IterStart(Map)
    /\ upc' = "read"
    /\ UNCHANGED <<kernelVars, args, attached, got, todo, lifted, events, histVars>>

ReadKey(k) ==
    /\ upc = "read"
    /\ IterKey(k) \/ IterAgain(k)
    /\ got' = [got EXCEPT ![k] = @ + ValueOf(tables[Map], k)]
    /\ UNCHANGED <<kernelVars, args, attached, upc, todo, lifted, events, histVars>>

ReadEnd ==
    /\ upc = "read"
    /\ IterEnd
    /\ upc' = "format"
    /\ todo' = it.seen
    /\ UNCHANGED <<kernelVars, args, attached, got, lifted, events, histVars>>

(* format_stack, stacks.get(): the stack leaves its bucket, if there is one,  *)
Lift(k) ==
    /\ upc = "format" /\ lifted = {}
    /\ k \in todo
    /\ todo' = todo \ {k}
    /\ IF traces[k] = NoStack THEN UNCHANGED <<lifted, traces>>
       ELSE /\ lifted' = {<<k, traces[k]>>}
            /\ traces' = [traces EXCEPT ![k] = NoStack]
    /\ UNCHANGED <<counters, target, pids, hit, args, attached, upc, got, events,
                   histVars>>

(* and returns to it, whatever it has by now.                                 *)
PutBack ==
    /\ \E l \in lifted : traces' = [traces EXCEPT ![l[1]] = l[2]]
    /\ lifted' = {}
    /\ UNCHANGED <<counters, target, pids, hit, args, attached, upc, got, todo,
                   events, histVars>>

(* Every line is out; clear_counts reads the map again. *)
Report ==
    /\ upc = "format" /\ lifted = {} /\ todo = {}
    /\ IterStart(Map)
    /\ upc' = "clear"
    /\ UNCHANGED <<kernelVars, args, attached, got, todo, lifted, events, histVars>>

ClearKey(k) ==
    /\ upc = "clear"
    /\ IterKey(k) \/ IterAgain(k)
    /\ UNCHANGED <<kernelVars, taskVars, events, histVars>>

ClearEnd ==
    /\ upc = "clear"
    /\ IterEnd
    /\ upc' = "remove"
    /\ UNCHANGED <<kernelVars, args, attached, got, todo, lifted, events, histVars>>

Removed(k) ==
    /\ makers' = [makers EXCEPT ![k] = {}]
    /\ stale' = (stale \/ \E c \in CPU :
                     At(c, "pid") /\ hit[c].elem = tables[Map].tab[k])
    /\ UNCHANGED <<swapped, foreign>>

(* Mutant: what is removed is taken off what was read. *)
RemoveSubtracts(k) ==
    /\ upc = "remove"
    /\ RemoveKey(k)
    /\ Removed(k)
    /\ got' = [got EXCEPT ![k] = @ - ValueOf(tables[Map], k)]
    /\ UNCHANGED <<kernelVars, args, attached, upc, todo, lifted, events>>

Remove(k) ==
    /\ upc = "remove"
    /\ RemoveKey(k)
    /\ Removed(k)
    /\ got' = [got EXCEPT ![k] = 0]
    /\ UNCHANGED <<kernelVars, args, attached, upc, todo, lifted, events>>

RemoveFails(k) ==
    /\ upc = "remove"
    /\ RemoveMissing(k)
    /\ upc' = "failed" /\ attached' = FALSE
    /\ UNCHANGED <<counters, kernelVars, args, got, todo, lifted, events, histVars>>

RemoveEnd ==
    /\ upc = "remove"
    /\ it.seen = {}
    /\ upc' = "select"
    /\ got' = Nothing
    /\ UNCHANGED <<counters, kernelVars, args, attached, todo, lifted, events, histVars>>

TaskStep ==
    \/ Attach \/ SetFilter \/ SetTarget \/ Exit \/ Tick \/ ReadEnd \/ PutBack
    \/ Report \/ ClearEnd \/ RemoveEnd
    \/ \E k \in Key : \/ ReadKey(k) \/ Lift(k) \/ ClearKey(k)
                      \/ Remove(k) \/ RemoveFails(k)

Next ==
    \/ \E c \in CPU, x \in Calls : Enter(c, x)
    \/ \E c \in CPU : Probe(c)
    \/ TaskStep

Spec == Init /\ [][Next]_vars
-----------------------------------------------------------------------------
(* Properties.                                                             *)

HitType == [stage : {"idle", "filter", "target", "trace", "link", "count", "pid"},
            call : Call, elem : Slot \cup {NoSlot}, ready : BOOLEAN]

TypeOK ==
    /\ CountersType
    /\ target \in Sys /\ traces \in [Key -> Stack \cup {NoStack}]
    /\ pids \in [Slot -> SUBSET Pid] /\ hit \in [CPU -> HitType]
    /\ args \in [sys : Sys, ok : BOOLEAN] /\ attached \in BOOLEAN
    /\ upc \in {"attach", "filter", "target", "select", "read", "format", "clear",
                "remove", "exited", "failed"}
    /\ got \in [Key -> Nat] /\ todo \subseteq Key /\ lifted \subseteq Key \X Stack
    /\ events \in Nat /\ makers \in [Key -> SUBSET (Stack \X Pid)]
    /\ swapped \in BOOLEAN /\ stale \in BOOLEAN
    /\ foreign \in BOOLEAN

StackOf(k) == IF \E s \in Stack : <<k, s>> \in lifted
              THEN CHOOSE s \in Stack : <<k, s>> \in lifted ELSE traces[k]

(* The line of an id shows the stack that all its calls were made from, and   *)
(* never <missing stack_id>, however many stacks share the bucket; only one   *)
(* that was exchanged for another in the middle of a lookup can be charged    *)
(* with its calls.                                                            *)
ShownAsCounted ==
    ~swapped => \A k \in Key : \A m \in makers[k] : StackOf(k) = m[1]

(* The process whose memory map an entry is symbolised with is one that made  *)
(* a call counted in it.                                                      *)
ProcessHit ==
    ~collided /\ ~orphaned /\ ~stale =>
        \A k \in Key : Present(tables[Map], k) =>
            \E m \in makers[k] : pids[tables[Map].tab[k]] = {m[2]}

(* What is counted without having been asked for comes from the start-up,     *)
(* when the filter and the number are not both set: no call made later.       *)
ForeignOnlyFromStart == ~foreign

-----------------------------------------------------------------------------
(* Why they hold.                                                           *)

(* hit and probe are one program, which has call h.call in hand until its pid *)
(* is stored.                                                                 *)
InStep(h, p) ==
    /\ p.map = Map
    /\ h.stage \in {"idle", "pid"} => p.pc = "idle"
    /\ h.stage = "filter" => p.pc = "filter"
    /\ h.stage \in {"target", "trace", "link"} => p.pc = "lookup"
    /\ h.stage = "count" => p.pc \in {"lookup", "load", "store", "insert"}
    /\ p.pc # "idle" =>
           p.comm = h.call.comm /\ p.key = IdOf[h.call.stack] /\ p.add = 1
    /\ h.stage = "pid" => h.elem \in Slot

Stages == it.map = Map /\ \A c \in CPU : InStep(hit[c], probe[c])

(* A call made after the start-up has been through the filter, and past the   *)
(* comparison of its number.                                                  *)
Screened(h) ==
    h.ready =>
        /\ filterOn /\ target = args.sys /\ upc \notin {"attach", "filter", "target"}
        /\ h.stage \in {"target", "trace", "link", "count", "pid"} =>
               h.call.comm \in Target
        /\ h.stage \in {"trace", "link", "count", "pid"} => h.call.sys = args.sys

Filtered ==
    /\ upc = "target" => filterOn
    /\ Ready => filterOn /\ target = args.sys
    /\ \A c \in CPU : Screened(hit[c])

(* One stack at most is out of its bucket, and nothing else got in meanwhile; *)
(* a stack that is being counted is in its bucket, or out of it for a moment. *)
InPlace(h) ==
    h.stage \in {"count", "pid"} => StackOf(IdOf[h.call.stack]) = h.call.stack

Traced ==
    /\ lifted = {} \/ \E k \in Key, s \in Stack : lifted = {<<k, s>>}
    /\ ~swapped =>
           /\ \A k \in Key, s \in Stack : <<k, s>> \in lifted => traces[k] \in {NoStack, s}
           /\ \A c \in CPU : InPlace(hit[c])

(* A pid that has yet to be stored belongs to a call of the entry it goes to. *)
PidDue ==
    ~collided /\ ~orphaned /\ ~stale =>
        \A c \in CPU : hit[c].stage = "pid" =>
            LET x == hit[c].call IN
            /\ tables[Map].tab[IdOf[x.stack]] = hit[c].elem
            /\ <<x.stack, x.pid>> \in makers[IdOf[x.stack]]

(* The inductive invariant. *)
IInv ==
    /\ TypeOK /\ CountersInv /\ Stages /\ Filtered /\ Traced /\ PidDue
    /\ ShownAsCounted /\ ProcessHit /\ ForeignOnlyFromStart
=============================================================================
