------------------------------ MODULE DstLog -------------------------------
(***************************************************************************)
(* `rstrace dstlog`: the destinations a process talks to.                  *)
(*                                                                         *)
(* Kernel side (rstrace-ebpf/src/dstlog.rs): two kprobes, tcp_connect and  *)
(* udp_sendmsg, run on any CPU at any time.  A probe counts the            *)
(* destination in DST_MAP_A or DST_MAP_B, whichever ACTIVE_BUF names.      *)
(* User side (rstrace/src/dstlog.rs): one task that attaches the probes,   *)
(* configures them, and then on every tick turns ACTIVE_BUF to the other   *)
(* map and drains the one it turned away from: it reads all its entries,   *)
(* prints them and removes them one by one.  Nothing synchronises the two  *)
(* sides but the maps, and no access of one side to them excludes one of   *)
(* the other.                                                              *)
(*                                                                         *)
(* A probe is split where another actor can get between its map accesses.  *)
(* Destinations, commands and protocols are model values: an address is    *)
(* told apart only by whether is_external accepts it, whether it is IPv6   *)
(* and whether the optional blacklist lists it.                            *)
(***************************************************************************)
EXTENDS BpfHash

CONSTANTS
    CPU,        \* where probes run; one probe at a time on each
    Ip,         \* destination addresses
    External,   \* the addresses is_external accepts
    Ip6,        \* the IPv6 addresses
    Listed,     \* the IPv4 addresses the --blacklist file covers
    Comm,       \* names of tasks
    Target,     \* the names comm_matches accepts for the requested --comm
    MaxEvents   \* bound of the model: probe entries in one behaviour

ASSUME DstLogAssumption ==
    /\ Ip # {} /\ Comm # {}
    /\ External \subseteq Ip
    /\ Ip6 \subseteq Ip
    /\ Listed \subseteq Ip \ Ip6
    /\ Target \subseteq Comm
    /\ MaxEvents \in Nat

Proto == {"tcp", "udp"}
Buf   == {0, 1}

(* DstKey { addr, family, proto } *)
Key == Ip \X Proto

Args == [tcp : BOOLEAN, udp : BOOLEAN, commOk : BOOLEAN, blacklist : BOOLEAN]

Enabled(args, p) == IF p = "tcp" THEN args.tcp ELSE args.udp

VARIABLES
    \* the maps the two sides share
    active,     \* ACTIVE_BUF[0]
    filterOn,   \* DSTLOG_COMM_FILTER[0].enabled
    config,     \* DSTLOG_CONFIG[0]: is this protocol enabled?
    dst,        \* DST_MAP_A (0) and DST_MAP_B (1)
    \* the kernel
    attached,   \* protocols whose kprobe is attached
    probe,      \* what each CPU is executing
    events,     \* probe entries so far (only to bound the model)
    \* the user-space task
    args,       \* its command line
    upc,        \* where it stands
    writeBuf,   \* local write_buf
    drainBuf,   \* local drain_buf
    walk,       \* keys the running iteration is bound to return
    again,      \* keys the running iteration may return once more
    seen,       \* local entries: keys read and not removed yet
    twice,      \* local entries: keys the vector holds twice
    snap,       \* local entries: the counts read, summed per key
    asked,      \* SIGINT has been sent
    intr,       \* the pending ctrl_c() future has been notified
    \* history
    recorded,   \* events a probe has counted successfully, per key
    sources,    \* who was counted: pairs of a task name and a key
    printed,    \* sum of the counts printed, per key
    straddled,  \* a turn of ACTIVE_BUF overtook a probe that had read it
    collided    \* two probes were busy with the same entry at once

kernelVars == <<attached, probe, events>>
userVars   == <<args, upc, writeBuf, drainBuf, walk, again, seen, twice, snap,
                asked, intr>>
histVars   == <<recorded, sources, printed, straddled, collided>>
vars == <<active, filterOn, config, dst, kernelVars, userVars, histVars>>

ProbePc == {"idle", "filter", "active", "lookup", "load", "store", "insert"}
IdleProbe == [pc |-> "idle", comm |-> CHOOSE m \in Comm : TRUE,
              key |-> CHOOSE k \in Key : TRUE,
              buf |-> 0, elem |-> NoSlot, reg |-> 0]

(* From reading ACTIVE_BUF until its last access to the map it then chose. *)
Holding(c) == probe[c].pc \in {"lookup", "load", "store", "insert"}

Startup == {"check", "attach_tcp", "attach_udp", "filter", "config", "active"}
UserPc  == Startup \cup {"select", "iter", "print", "remove", "exited", "failed"}

(***************************************************************************)
(* Ebpf::load zeroes every map.                                            *)
(***************************************************************************)
Init ==
    /\ active = 0 /\ filterOn = FALSE /\ config = [p \in Proto |-> FALSE]
    /\ dst = [b \in Buf |-> EmptyMap(Key)]
    /\ attached = {} /\ events = 0
    /\ probe = [c \in CPU |-> IdleProbe]
    /\ args \in Args
    /\ upc = "check"
    /\ writeBuf = 0 /\ drainBuf = 0
    /\ walk = {} /\ again = {} /\ seen = {} /\ twice = {}
    /\ snap = [k \in Key |-> 0]
    /\ asked = FALSE /\ intr = FALSE
    /\ recorded = [k \in Key |-> 0] /\ printed = [k \in Key |-> 0]
    /\ sources = {} /\ straddled = FALSE /\ collided = FALSE

-----------------------------------------------------------------------------
(* The probes.  Both handlers are the same but for the protocol.            *)

Becomes(c, p) == probe' = [probe EXCEPT ![c] = p]

Goto(c, l) == Becomes(c, [probe[c] EXCEPT !.pc = l])

Return(c) == Becomes(c, IdleProbe)

(* try_dstlog_*: the kprobe fires in task m, which is about to talk to k.  A *)
(* null or unreadable address and an unknown family return without a trace.  *)
Enter(c, m, k) ==
    /\ probe[c].pc = "idle"
    /\ k[2] \in attached
    /\ config[k[2]]
    /\ events < MaxEvents
    /\ events' = events + 1
    /\ Becomes(c, [probe[c] EXCEPT !.pc = "filter", !.comm = m, !.key = k])
    /\ UNCHANGED <<active, filterOn, config, dst, attached, userVars, histVars>>

(* Mutant: an address of the own network is counted as well. *)
CheckFilterAnywhere(c) ==
    /\ probe[c].pc = "filter"
    /\ IF filterOn /\ probe[c].comm \in Target THEN Goto(c, "active") ELSE Return(c)
    /\ UNCHANGED <<active, filterOn, config, dst, attached, events,
                   userVars, histVars>>

(* passes_comm_filter (an unset filter passes nobody), then is_external. *)
CheckFilter(c) ==
    /\ probe[c].pc = "filter"
    /\ IF filterOn /\ probe[c].comm \in Target /\ probe[c].key[1] \in External
       THEN Goto(c, "active")
       ELSE Return(c)
    /\ UNCHANGED <<active, filterOn, config, dst, attached, events,
                   userVars, histVars>>

(* record_dst: which of the two maps to write. *)
ReadActive(c) ==
    /\ probe[c].pc = "active"
    /\ Becomes(c, [probe[c] EXCEPT !.pc = "lookup", !.buf = active])
    /\ collided' = (collided \/ \E d \in CPU \ {c} :
                        /\ Holding(d)
                        /\ probe[d].buf = active
                        /\ probe[d].key = probe[c].key)
    /\ UNCHANGED <<active, filterOn, config, dst, attached, events, userVars,
                   recorded, sources, printed, straddled>>

(* Mutant: the entry is always inserted anew. *)
LookupNothing(c) ==
    /\ probe[c].pc = "lookup"
    /\ Goto(c, "insert")
    /\ UNCHANGED <<active, filterOn, config, dst, attached, events,
                   userVars, histVars>>

(* incr_dst: get_ptr_mut. *)
Lookup(c) ==
    /\ probe[c].pc = "lookup"
    /\ LET p == probe[c] IN
       IF Present(dst[p.buf], p.key)
       THEN Becomes(c, [p EXCEPT !.pc = "load", !.elem = dst[p.buf].tab[p.key]])
       ELSE Goto(c, "insert")
    /\ UNCHANGED <<active, filterOn, config, dst, attached, events,
                   userVars, histVars>>

(* incr_dst: `*count += 1` is a load and a store, and no lock is held. *)
Load(c) ==
    /\ probe[c].pc = "load"
    /\ LET p == probe[c] IN
       Becomes(c, [p EXCEPT !.pc = "store", !.reg = dst[p.buf].val[p.elem]])
    /\ UNCHANGED <<active, filterOn, config, dst, attached, events,
                   userVars, histVars>>

Counted(c) ==
    /\ recorded' = [recorded EXCEPT ![probe[c].key] = @ + 1]
    /\ sources' = sources \cup {<<probe[c].comm, probe[c].key>>}
    /\ UNCHANGED <<printed, straddled, collided>>

Store(c) ==
    /\ probe[c].pc = "store"
    /\ LET p == probe[c] IN
       dst' = [dst EXCEPT ![p.buf] = StoreElem(@, p.elem, p.reg + 1)]
    /\ Counted(c)
    /\ Return(c)
    /\ UNCHANGED <<active, filterOn, config, attached, events, userVars>>

(* An iteration walks each hash bucket from its head, and an update puts its  *)
(* new element there.  When it replaces the element of k in the map being     *)
(* iterated, the iteration may miss k, or, if it had just returned k, go      *)
(* through the bucket once more.                                              *)
Relink(b, k) ==
    IF upc = "iter" /\ b = drainBuf /\ Present(dst[b], k)
    THEN /\ walk' = walk \ {k}
         /\ again' = IF k \in seen THEN again \cup (seen \ {k}) ELSE again
    ELSE UNCHANGED <<walk, again>>

(* incr_dst: the key was absent; insert overwrites and may find the map full. *)
Insert(c) ==
    /\ probe[c].pc = "insert"
    /\ LET p == probe[c] IN
       IF CanUpdate(dst[p.buf], p.key)
       THEN /\ \E s \in FreeSlots(dst[p.buf]) :
                   dst' = [dst EXCEPT ![p.buf] = UpdateElem(@, p.key, s, 1)]
            /\ Counted(c)
            /\ Relink(p.buf, p.key)
       ELSE UNCHANGED <<dst, walk, again, histVars>>
    /\ Return(c)
    /\ UNCHANGED <<active, filterOn, config, attached, events, args, upc,
                   writeBuf, drainBuf, seen, twice, snap, asked, intr>>

ProbeStep(c) ==
    \/ CheckFilter(c) \/ ReadActive(c) \/ Lookup(c)
    \/ Load(c) \/ Store(c) \/ Insert(c)

-----------------------------------------------------------------------------
(* The user-space task, from run().                                        *)

UserLocals == <<writeBuf, drainBuf, walk, again, seen, twice, snap>>

(* The process is gone: its programs and maps are released with it. *)
Exit(how) == upc' = how /\ attached' = {} /\ intr' = FALSE

(* The blacklist file is loaded and the protocols are checked first. *)
CheckArgs ==
    /\ upc = "check"
    /\ upc' = IF args.tcp \/ args.udp THEN "attach_tcp" ELSE "exited"
    /\ UNCHANGED <<active, filterOn, config, dst, kernelVars, args, UserLocals,
                   asked, intr, histVars>>

AttachTcp ==
    /\ upc = "attach_tcp"
    /\ attached' = IF args.tcp THEN attached \cup {"tcp"} ELSE attached
    /\ upc' = "attach_udp"
    /\ UNCHANGED <<active, filterOn, config, dst, probe, events, args,
                   UserLocals, asked, intr, histVars>>

AttachUdp ==
    /\ upc = "attach_udp"
    /\ attached' = IF args.udp THEN attached \cup {"udp"} ELSE attached
    /\ upc' = "filter"
    /\ UNCHANGED <<active, filterOn, config, dst, probe, events, args,
                   UserLocals, asked, intr, histVars>>

(* build_comm_filter rejects an empty or overlong name. *)
SetFilter ==
    /\ upc = "filter"
    /\ args.commOk
    /\ filterOn' = TRUE
    /\ upc' = "config"
    /\ UNCHANGED <<active, config, dst, kernelVars, args, UserLocals,
                   asked, intr, histVars>>

SetConfig ==
    /\ upc = "config"
    /\ config' = [p \in Proto |-> Enabled(args, p)]
    /\ upc' = "active"
    /\ UNCHANGED <<active, filterOn, dst, kernelVars, args, UserLocals,
                   asked, intr, histVars>>

SetActive ==
    /\ upc = "active"
    /\ active' = writeBuf
    /\ upc' = "select"
    /\ UNCHANGED <<filterOn, config, dst, kernelVars, args, UserLocals,
                   asked, intr, histVars>>

(* `?` on the fallible calls of the start: reading the blacklist, loading    *)
(* and attaching a program, building the filter.                             *)
StartupError ==
    /\ \/ upc = "check" /\ args.blacklist
       \/ upc \in {"attach_tcp", "attach_udp"}
       \/ upc = "filter" /\ ~args.commOk
    /\ Exit("exited")
    /\ UNCHANGED <<active, filterOn, config, dst, probe, events, args,
                   UserLocals, asked, histVars>>

(* Mutants: the number is counted on; the first turn is the last one. *)
OtherNext(b) == b + 1
OtherOnce(b) == 1

Other(b) == 1 - b

(* Mutant: drain_buf is taken after write_buf has been turned. *)
TickDrainsActive ==
    /\ upc = "select"
    /\ writeBuf' = Other(writeBuf)
    /\ drainBuf' = writeBuf'
    /\ active' = writeBuf'
    /\ walk' = KeysOf(dst[drainBuf'])
    /\ straddled' = (straddled \/ \E c \in CPU : Holding(c))
    /\ intr' = FALSE
    /\ upc' = "iter"
    /\ UNCHANGED <<filterOn, config, dst, kernelVars, args, again, seen, twice,
                   snap, asked, recorded, sources, printed, collided>>

(* tick: write_buf = 1 - write_buf is published, then the drain starts.  The  *)
(* select! drops its ctrl_c() future, notified or not.                        *)
Tick ==
    /\ upc = "select"
    /\ drainBuf' = writeBuf
    /\ writeBuf' = Other(writeBuf)
    /\ active' = writeBuf'
    /\ walk' = KeysOf(dst[drainBuf'])
    /\ straddled' = (straddled \/ \E c \in CPU : Holding(c))
    /\ intr' = FALSE
    /\ upc' = "iter"
    /\ UNCHANGED <<filterOn, config, dst, kernelVars, args, again, seen, twice,
                   snap, asked, recorded, sources, printed, collided>>

(* Mutant: the entries are read from the map the probes write. *)
IterKeyActive(k) ==
    /\ upc = "iter"
    /\ k \notin seen
    /\ Present(dst[writeBuf], k)
    /\ seen' = seen \cup {k}
    /\ snap' = [snap EXCEPT ![k] = ValueOf(dst[writeBuf], k)]
    /\ UNCHANGED <<active, filterOn, config, dst, kernelVars, args, upc,
                   writeBuf, drainBuf, walk, again, twice, asked, intr, histVars>>

(* drain_and_print: hash.iter() copies one entry at a time.  It returns every *)
(* key that stays in the map; a key that arrives meanwhile it may miss.       *)
IterKey(k) ==
    /\ upc = "iter"
    /\ k \notin seen
    /\ Present(dst[drainBuf], k)
    /\ seen' = seen \cup {k}
    /\ snap' = [snap EXCEPT ![k] = ValueOf(dst[drainBuf], k)]
    /\ UNCHANGED <<active, filterOn, config, dst, kernelVars, args, upc,
                   writeBuf, drainBuf, walk, again, twice, asked, intr, histVars>>

(* The iteration returns a key for the second time: see Relink.               *)
IterAgain(k) ==
    /\ upc = "iter"
    /\ k \in again \ twice
    /\ Present(dst[drainBuf], k)
    /\ again' = again \ {k}
    /\ twice' = twice \cup {k}
    /\ snap' = [snap EXCEPT ![k] = @ + ValueOf(dst[drainBuf], k)]
    /\ UNCHANGED <<active, filterOn, config, dst, kernelVars, args, upc,
                   writeBuf, drainBuf, walk, seen, asked, intr, histVars>>

IterEnd ==
    /\ upc = "iter"
    /\ walk \subseteq seen
    /\ upc' = "print"
    /\ walk' = {} /\ again' = {}
    /\ UNCHANGED <<active, filterOn, config, dst, kernelVars, args, writeBuf,
                   drainBuf, seen, twice, snap, asked, intr, histVars>>

(* With a blacklist only listed addresses are shown; is_hit is asked for     *)
(* IPv4 only, an IPv6 address fails to parse and is shown.                   *)
Shown(k) == args.blacklist => k[1] \in Listed \cup Ip6

PrintEntries ==
    /\ upc = "print"
    /\ printed' = [k \in Key |-> IF k \in seen /\ Shown(k)
                                 THEN printed[k] + snap[k] ELSE printed[k]]
    /\ upc' = "remove"
    /\ UNCHANGED <<active, filterOn, config, dst, kernelVars, args, UserLocals,
                   asked, intr, recorded, sources, straddled, collided>>

(* hash.remove(&key)? for every entry read, shown or not. *)
Remove(k) ==
    /\ upc = "remove"
    /\ k \in seen
    /\ Present(dst[drainBuf], k)
    /\ dst' = [dst EXCEPT ![drainBuf] = DeleteElem(@, k)]
    /\ seen' = IF k \in twice THEN seen ELSE seen \ {k}
    /\ twice' = twice \ {k}
    /\ snap' = [snap EXCEPT ![k] = 0]
    /\ UNCHANGED <<active, filterOn, config, kernelVars, args, upc, writeBuf,
                   drainBuf, walk, again, asked, intr, histVars>>

(* The key is not there any more: ENOENT ends the program through `?`.        *)
RemoveFails(k) ==
    /\ upc = "remove"
    /\ k \in seen
    /\ ~Present(dst[drainBuf], k)
    /\ Exit("failed")
    /\ UNCHANGED <<active, filterOn, config, dst, probe, events, args,
                   UserLocals, asked, histVars>>

(* Mutant: removal stops early. *)
RemoveEndEarly ==
    /\ upc = "remove"
    /\ upc' = "select" /\ seen' = {}
    /\ UNCHANGED <<active, filterOn, config, dst, kernelVars, args, writeBuf,
                   drainBuf, walk, again, twice, snap, asked, intr, histVars>>

RemoveEnd ==
    /\ upc = "remove"
    /\ seen = {}
    /\ upc' = "select"
    /\ UNCHANGED <<active, filterOn, config, dst, kernelVars, args, UserLocals,
                   asked, intr, histVars>>

(* The select! sees its ctrl_c() future complete and the loop ends: what the  *)
(* maps still hold is not printed.                                            *)
CtrlC ==
    /\ upc = "select"
    /\ intr
    /\ Exit("exited")
    /\ UNCHANGED <<active, filterOn, config, dst, probe, events, args,
                   UserLocals, asked, histVars>>

(* The user presses Ctrl+C, once.  Before the first poll of ctrl_c() SIGINT   *)
(* has its default effect; from then on tokio's handler is installed for      *)
(* good, and only a ctrl_c() future that exists at that moment hears of it.   *)
SigInt ==
    /\ ~asked
    /\ upc \notin {"exited", "failed"}
    /\ asked' = TRUE
    /\ \/ upc \in Startup /\ Exit("exited")
       \/ upc = "select" /\ intr' = TRUE /\ UNCHANGED <<upc, attached>>
       \/ upc \in {"iter", "print", "remove"} /\ UNCHANGED <<upc, attached, intr>>
    /\ UNCHANGED <<active, filterOn, config, dst, probe, events, args,
                   UserLocals, histVars>>

UserStep ==
    \/ CheckArgs \/ AttachTcp \/ AttachUdp \/ SetFilter \/ SetConfig
    \/ SetActive \/ StartupError \/ Tick \/ IterEnd \/ PrintEntries \/ RemoveEnd
    \/ CtrlC
    \/ \E k \in Key :
           IterKey(k) \/ IterAgain(k) \/ Remove(k) \/ RemoveFails(k)

Next ==
    \/ \E c \in CPU, m \in Comm, k \in Key : Enter(c, m, k)
    \/ \E c \in CPU : ProbeStep(c)
    \/ UserStep
    \/ SigInt

Spec == Init /\ [][Next]_vars

(* A probe runs to its end, and so does every step of the task: its timer     *)
(* keeps firing and nothing it does between two ticks blocks.  Nobody is      *)
(* obliged to connect anywhere or to press Ctrl+C.                            *)
FairSpec ==
    Spec /\ WF_vars(UserStep) /\ \A c \in CPU : WF_vars(ProbeStep(c))
-----------------------------------------------------------------------------
(* Properties.                                                             *)

ProbeType == [pc : ProbePc, comm : Comm, key : Key, buf : Buf,
              elem : Slot \cup {NoSlot}, reg : Nat]

(* Every variable has its type; in particular write_buf and drain_buf, which  *)
(* the code turns with `1 - write_buf` on a u32, stay 0 or 1 and are never    *)
(* the same map while a drain is under way.                                   *)
TypeOK ==
    /\ active \in Buf /\ filterOn \in BOOLEAN /\ config \in [Proto -> BOOLEAN]
    /\ dst \in [Buf -> MapType(Key)]
    /\ attached \subseteq Proto /\ events \in Nat
    /\ probe \in [CPU -> ProbeType]
    /\ args \in Args /\ upc \in UserPc
    /\ writeBuf \in Buf /\ drainBuf \in Buf
    /\ walk \subseteq Key /\ again \subseteq Key
    /\ seen \subseteq Key /\ twice \subseteq Key
    /\ snap \in [Key -> Nat]
    /\ asked \in BOOLEAN /\ intr \in BOOLEAN
    /\ recorded \in [Key -> Nat] /\ printed \in [Key -> Nat]
    /\ sources \subseteq Comm \X Key
    /\ straddled \in BOOLEAN /\ collided \in BOOLEAN

(* What map b still owes the reader of the log for k: the count of its entry, *)
(* unless the drain has printed that entry and has yet to remove it.          *)
Outstanding(b, k) ==
    IF Present(dst[b], k) /\ ~(upc = "remove" /\ b = drainBuf /\ k \in seen)
    THEN ValueOf(dst[b], k) ELSE 0

(* Until the first race (a turn of ACTIVE_BUF that overtakes a probe, or two  *)
(* probes in the same entry) the log is exact across any number of rotations: *)
(* each event a probe counted is printed already or waits in exactly one of   *)
(* the two maps.  Double buffering is there for this.                         *)
ExactUnlessRaced ==
    ~straddled /\ ~collided =>
        \A k \in Key :
            Shown(k) =>
                recorded[k] = printed[k] + Outstanding(0, k) + Outstanding(1, k)

(* The two maps behave as the epochs of EpochLog: what probes counted between  *)
(* two turns is printed by one drain, complete and once, before the next turn, *)
(* as long as nothing has raced.                                               *)
Epochs == INSTANCE EpochLog WITH
    Item    <- Key,
    current <- [k \in Key |-> Outstanding(writeBuf, k)],
    closed  <- [k \in Key |-> Outstanding(1 - writeBuf, k)],
    shown   <- {k \in Key : Shown(k)},
    raced   <- straddled \/ collided

EpochsKept == Epochs!Spec

(* The map about to be turned to is empty: what the previous drain took it to *)
(* contain it has removed, shown or not, and nothing came in since, unless a  *)
(* probe was overtaken by a turn.                                             *)
RotationLeavesInactiveEmpty ==
    upc = "select" /\ ~straddled => KeysOf(dst[1 - active]) = {}

(* hash.remove(&key)? finds every key that was read: nobody else removes, and *)
(* the program does not end with ENOENT.  Only when both races meet can the   *)
(* iteration return a key twice, and its second removal fail.                 *)
DrainFailsOnlyWhenRaced ==
    upc = "failed" => straddled /\ collided

(* Nothing but external destinations of the requested tasks over a requested  *)
(* protocol is ever counted, in the start-up window too, when a probe is      *)
(* attached already and its filter and configuration are not set yet.         *)
OnlyTargetRecorded ==
    \A s \in sources :
        LET m == s[1]  k == s[2] IN
        m \in Target /\ k[1] \in External /\ Enabled(args, k[2])

(* Every entry is eventually drained, one that a probe adds to a map after    *)
(* the turn away from it as well, unless the program ends.                    *)
EntriesDrained ==
    \A b \in Buf, k \in Key :
        Present(dst[b], k) ~> ~Present(dst[b], k) \/ upc \in {"exited", "failed"}

(* dstlog.rs:69 of the user side, "press Ctrl+C to stop".  A SIGINT that      *)
(* comes during a drain, or together with a tick that select! prefers, is     *)
(* lost with the ctrl_c() future of that turn of the loop.                    *)
CtrlCStops == asked ~> upc \in {"exited", "failed"}

=============================================================================
