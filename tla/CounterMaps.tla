---------------------------- MODULE CounterMaps -----------------------------
(***************************************************************************)
(* Counters that probes add to in hash maps while a user-space task reads  *)
(* and clears the same maps: what syscall-collect and netbw-collect have   *)
(* in common (add_tx_bytes in rstrace-ebpf/src/helpers.rs, the same lines  *)
(* in try_syscall_collect; iteration and removal in read_bytes_map,        *)
(* emit_stats, clear_map and clear_bytes_map).                             *)
(*                                                                         *)
(* Unlike dstlog these commands have one map per counter: the task reads   *)
(* the map the probes are writing, and a second iteration collects the     *)
(* keys it then removes.                                                   *)
(***************************************************************************)
EXTENDS BpfHash

CONSTANTS
    CPU,     \* where probes run; one probe at a time on each
    Table,   \* the counter maps of the command
    Key,     \* their keys: system calls, processes
    Comm,    \* names of tasks
    Target   \* the names comm_matches accepts for the requested --comm

ASSUME CounterMapsAssumption ==
    Table # {} /\ Key # {} /\ Comm # {} /\ Target \subseteq Comm

VARIABLES
    tables,    \* the maps
    filterOn,  \* COMM_FILTER[0].enabled, NETBW_COMM_FILTER[0].enabled
    probe,     \* what each CPU is executing
    it,        \* the iteration the task is in, or did last
    iterating,
    \* history
    recorded,  \* what probes have added successfully, per map and key
    collided,  \* two probes were busy with the same entry at once
    orphaned   \* an entry was removed under a probe that had looked it up

IdleProbe == [pc |-> "idle", comm |-> CHOOSE m \in Comm : TRUE,
              map |-> CHOOSE t \in Table : TRUE, key |-> CHOOSE k \in Key : TRUE,
              add |-> 0, elem |-> NoSlot, reg |-> 0]

NoIteration == [map |-> CHOOSE t \in Table : TRUE, walk |-> {}, again |-> {},
                seen |-> {}, twice |-> {}]

CountersInit ==
    /\ tables = [t \in Table |-> EmptyMap(Key)]
    /\ filterOn = FALSE
    /\ probe = [c \in CPU |-> IdleProbe]
    /\ it = NoIteration /\ iterating = FALSE
    /\ recorded = [t \in Table |-> [k \in Key |-> 0]]
    /\ collided = FALSE /\ orphaned = FALSE

Becomes(c, p) == probe' = [probe EXCEPT ![c] = p]

Entry(c) == <<probe[c].map, probe[c].key>>

(* Between get_ptr_mut and the store or insert that follows. *)
Holding(c) == probe[c].pc \in {"load", "store", "insert"}

(* A probe of task m fires: it is about to add n to key k of map t. *)
EnterProbe(c, m, t, k, n) ==
    /\ probe[c].pc = "idle"
    /\ Becomes(c, [IdleProbe EXCEPT !.pc = "filter", !.comm = m, !.map = t,
                                    !.key = k, !.add = n])
    /\ UNCHANGED <<tables, filterOn, it, iterating, recorded, collided, orphaned>>

(* Without a filter every task passes. *)
CheckFilter(c) ==
    /\ probe[c].pc = "filter"
    /\ Becomes(c, IF filterOn => probe[c].comm \in Target
                  THEN [probe[c] EXCEPT !.pc = "lookup"] ELSE IdleProbe)
    /\ UNCHANGED <<tables, filterOn, it, iterating, recorded, collided, orphaned>>

Lookup(c) ==
    /\ probe[c].pc = "lookup"
    /\ LET p == probe[c]  m == tables[p.map] IN
       Becomes(c, IF Present(m, p.key)
                  THEN [p EXCEPT !.pc = "load", !.elem = m.tab[p.key]]
                  ELSE [p EXCEPT !.pc = "insert"])
    /\ collided' = (collided \/ \E d \in CPU \ {c} :
                                    Holding(d) /\ Entry(d) = Entry(c))
    /\ UNCHANGED <<tables, filterOn, it, iterating, recorded, orphaned>>

Load(c) ==
    /\ probe[c].pc = "load"
    /\ LET p == probe[c] IN
       Becomes(c, [p EXCEPT !.pc = "store", !.reg = tables[p.map].val[p.elem]])
    /\ UNCHANGED <<tables, filterOn, it, iterating, recorded, collided, orphaned>>

Added(c) ==
    recorded' = [recorded EXCEPT ![probe[c].map][probe[c].key] = @ + probe[c].add]

Store(c) ==
    /\ probe[c].pc = "store"
    /\ LET p == probe[c] IN
       tables' = [tables EXCEPT ![p.map] = StoreElem(@, p.elem, p.reg + p.add)]
    /\ Added(c)
    /\ Becomes(c, IdleProbe)
    /\ UNCHANGED <<filterOn, it, iterating, collided, orphaned>>

(* Mutant: a new key starts from nothing. *)
InsertZero(c) ==
    /\ probe[c].pc = "insert"
    /\ LET p == probe[c] IN
       IF CanUpdate(tables[p.map], p.key)
       THEN /\ \E s \in FreeSlots(tables[p.map]) :
                   tables' = [tables EXCEPT ![p.map] = UpdateElem(@, p.key, s, 0)]
            /\ Added(c)
       ELSE UNCHANGED <<tables, recorded>>
    /\ Becomes(c, IdleProbe)
    /\ UNCHANGED <<filterOn, it, iterating, collided, orphaned>>

(* The new element goes to the head of its bucket: an iteration may miss the  *)
(* key whose element it replaces, or return other keys of the bucket again.   *)
Relinked(t, k) ==
    IF iterating /\ it.map = t /\ Present(tables[t], k)
    THEN [it EXCEPT !.walk = @ \ {k},
                    !.again = IF k \in it.seen THEN @ \cup (it.seen \ {k}) ELSE @]
    ELSE it

(* The key was absent; insert replaces what came in since, and fails on a     *)
(* full map.                                                                  *)
Insert(c) ==
    /\ probe[c].pc = "insert"
    /\ LET p == probe[c] IN
       IF CanUpdate(tables[p.map], p.key)
       THEN /\ \E s \in FreeSlots(tables[p.map]) :
                   tables' = [tables EXCEPT ![p.map] = UpdateElem(@, p.key, s, p.add)]
            /\ Added(c)
            /\ it' = Relinked(p.map, p.key)
       ELSE UNCHANGED <<tables, recorded, it>>
    /\ Becomes(c, IdleProbe)
    /\ UNCHANGED <<filterOn, iterating, collided, orphaned>>

ProbeStep(c) ==
    CheckFilter(c) \/ Lookup(c) \/ Load(c) \/ Store(c) \/ Insert(c)

-----------------------------------------------------------------------------
(* hash.iter(), one key at a time, and hash.remove().                        *)

kernelSide == <<tables, filterOn, probe, recorded, collided, orphaned>>

IterStart(t) ==
    /\ it' = [NoIteration EXCEPT !.map = t, !.walk = KeysOf(tables[t])]
    /\ iterating' = TRUE
    /\ UNCHANGED kernelSide

(* The iteration returns every key that stays in place, and maybe others.     *)
IterKey(k) ==
    /\ iterating
    /\ k \notin it.seen
    /\ Present(tables[it.map], k)
    /\ it' = [it EXCEPT !.seen = @ \cup {k}]
    /\ UNCHANGED <<iterating, kernelSide>>

IterAgain(k) ==
    /\ iterating
    /\ k \in it.again \ it.twice
    /\ Present(tables[it.map], k)
    /\ it' = [it EXCEPT !.again = @ \ {k}, !.twice = @ \cup {k}]
    /\ UNCHANGED <<iterating, kernelSide>>

IterEnd ==
    /\ iterating
    /\ it.walk \subseteq it.seen
    /\ it' = [it EXCEPT !.walk = {}, !.again = {}]
    /\ iterating' = FALSE
    /\ UNCHANGED kernelSide

(* Mutant: the list of keys is worked through twice. *)
RemoveKeyTwice(k) ==
    /\ ~iterating
    /\ k \in it.seen
    /\ Present(tables[it.map], k)
    /\ tables' = [tables EXCEPT ![it.map] = DeleteElem(@, k)]
    /\ orphaned' = (orphaned \/ \E c \in CPU :
                        /\ probe[c].pc \in {"load", "store"}
                        /\ Entry(c) = <<it.map, k>>)
    /\ UNCHANGED <<filterOn, probe, it, iterating, recorded, collided>>

(* hash.remove() of a collected key that is there. *)
RemoveKey(k) ==
    /\ ~iterating
    /\ k \in it.seen
    /\ Present(tables[it.map], k)
    /\ tables' = [tables EXCEPT ![it.map] = DeleteElem(@, k)]
    /\ it' = IF k \in it.twice THEN [it EXCEPT !.twice = @ \ {k}]
             ELSE [it EXCEPT !.seen = @ \ {k}]
    /\ orphaned' = (orphaned \/ \E c \in CPU :
                        /\ probe[c].pc \in {"load", "store"}
                        /\ Entry(c) = <<it.map, k>>)
    /\ UNCHANGED <<filterOn, probe, iterating, recorded, collided>>

(* hash.remove() of a key that is gone: ENOENT. *)
RemoveMissing(k) ==
    ~iterating /\ k \in it.seen /\ ~Present(tables[it.map], k)

-----------------------------------------------------------------------------
ProbeType == [pc : {"idle", "filter", "lookup", "load", "store", "insert"},
              comm : Comm, map : Table, key : Key, add : Nat,
              elem : Slot \cup {NoSlot}, reg : Nat]

IterType == [map : Table, walk : SUBSET Key, again : SUBSET Key,
             seen : SUBSET Key, twice : SUBSET Key]

CountersType ==
    /\ tables \in [Table -> MapType(Key)]
    /\ filterOn \in BOOLEAN
    /\ probe \in [CPU -> ProbeType]
    /\ it \in IterType /\ iterating \in BOOLEAN
    /\ recorded \in [Table -> [Key -> Nat]]
    /\ collided \in BOOLEAN /\ orphaned \in BOOLEAN

-----------------------------------------------------------------------------
(* Why the counters are right as long as no two probes meet in an entry, and  *)
(* none adds to an element that was removed under it.                         *)

(* What map t holds of key k; of an absent key nothing. *)
Amount(t, k) == IF Present(tables[t], k) THEN ValueOf(tables[t], k) ELSE 0

(* A probe goes only through element pointers it was given. *)
ElemOK == \A c \in CPU : probe[c].pc \in {"load", "store"} => probe[c].elem \in Slot

(* No element belongs to two keys. *)
OneOwner ==
    \A t \in Table : \A j, k \in Key :
        Present(tables[t], j) /\ j # k => tables[t].tab[j] # tables[t].tab[k]

(* Two probes never work on the same entry ... *)
Apart ==
    ~collided => \A c, d \in CPU :
                     c # d /\ Holding(c) /\ Holding(d) => Entry(c) # Entry(d)

(* ... so an entry a probe found absent is still absent when it inserts it.   *)
StillAbsent ==
    ~collided => \A c \in CPU : probe[c].pc = "insert" =>
                                     ~Present(tables[probe[c].map], probe[c].key)

(* A pointer is still the key's, and the register current. *)
StillValid ==
    ~collided /\ ~orphaned =>
        \A c \in CPU :
            LET p == probe[c]  m == tables[p.map] IN
            /\ p.pc \in {"load", "store"} => m.tab[p.key] = p.elem
            /\ p.pc = "store" => m.val[p.elem] = p.reg

(* No key is returned twice, and what was returned can be removed. *)
Removable ==
    ~collided => /\ it.again = {} /\ it.twice = {}
                 /\ it.seen \subseteq KeysOf(tables[it.map])

CountersInv ==
    CountersType /\ ElemOK /\ OneOwner /\ Apart /\ StillAbsent /\ StillValid /\ Removable
=============================================================================
