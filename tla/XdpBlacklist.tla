---------------------------- MODULE XdpBlacklist ----------------------------
(***************************************************************************)
(* `rstrace ip-blacklist`: an XDP program that drops packets from and to   *)
(* the addresses of a list, or only reports them (--dry-run).              *)
(*                                                                         *)
(* Kernel side (rstrace-ebpf/src/ip_blacklist.rs): one program per packet, *)
(* on the CPU the packet arrives at.  User side                            *)
(* (rstrace/src/ip_blacklist.rs): run(), which builds the list, writes the *)
(* maps, attaches the program, and then, every interval, writes the drops  *)
(* per range and the STUN packets per address to files, or, with           *)
(* --dry-run, turns and drains a pair of maps like dstlog.                 *)
(*                                                                         *)
(* The three counting hash maps are those of CounterMaps, without a filter *)
(* on the name of a task; BLACKLIST_HITS is an array and never loses an    *)
(* entry.  A packet is what ipv4_offset and is_stun_message make of it.    *)
(***************************************************************************)
EXTENDS BlacklistTest, Stun, CounterMaps

CONSTANTS
    CommandLines,  \* the command lines tried, with the file each names
    Packets(_),    \* the packets that arrive under a command line
    Questions,     \* what ip-blacklist-test is asked, besides
    MaxPackets(_)  \* bound of the model: packets in one behaviour of a command line

Proto == {"tcp", "udp", "icmp"}
Line  == Cidr \cup {Malformed, Comment}

(* proto: -t and -u; out: -o; stun: --stun-output. *)
Args == [file : Seq(Line), add : Seq(Line), delete : Seq(Line),
         proto : SUBSET {"tcp", "udp"}, dry : BOOLEAN, out : BOOLEAN, stun : BOOLEAN]

(* udp: the rest of a packet, if it is UDP.                                  *)
Packet == [src : Addr, dst : Addr, proto : Proto, udp : Udp]

(* The keys of the counter maps are addresses, and no name is asked for.     *)
ASSUME XdpBlacklistAssumption ==
    /\ Table = {"STUN_PASS_COUNTS", "DRY_RUN_MAP_A", "DRY_RUN_MAP_B"}
    /\ Key = Addr
    /\ CommandLines \subseteq Args
    /\ \A c \in CommandLines : Packets(c) \subseteq Packet
    /\ Questions \subseteq Seq(Addr \cup {Bad, Blank})
    /\ \A c \in CommandLines : MaxPackets(c) \in Nat

VARIABLES
    trie,      \* BLACKLIST
    hits,      \* BLACKLIST_HITS, at the positions of the list
    dryRun,    \* DRY_RUN
    config,    \* BLACKLIST_CONFIG
    active,    \* DRY_RUN_ACTIVE_BUF
    \* the XDP program
    attached,
    pkt,       \* what each CPU does with its packet
    received,
    \* the task
    args, upc,
    entries,   \* ranges
    done,      \* how far it is with --add, --delete, or the positions
    got,       \* counts read of BLACKLIST_HITS, per position
    tally,     \* counts read of a map, per address
    writeBuf, drainBuf,
    \* history
    misjudged, \* a packet was dropped, or passed, that was not to be
    bumped,    \* drops counted, per position
    dumped,    \* drops written to the file, per position
    stunFile,  \* the counts in the --stun-output file
    base,      \* STUN packets counted when the tick came
    printed,   \* counts the dry run has printed, per address
    raced,     \* bumps that a dump has raced with: see HitLoad, HitStore, Reset
    straddled  \* DRY_RUN_ACTIVE_BUF turned under a packet

counters == <<tables, filterOn, probe, it, iterating, recorded, collided, orphaned>>
listMaps == <<trie, dryRun, config>>
taskVars == <<args, upc, entries, done, got, tally, writeBuf, drainBuf>>
hitHist  == <<bumped, dumped, raced>>
outHist  == <<stunFile, base, printed, straddled>>
vars == <<counters, listMaps, hits, active, attached, pkt, received, taskVars,
          misjudged, hitHist, outHist>>

Dry(b) == IF b = 0 THEN "DRY_RUN_MAP_A" ELSE "DRY_RUN_MAP_B"
Stun   == "STUN_PASS_COUNTS"

IdlePacket == [jobs |-> <<>>, at |-> 0, reg |-> 0]
NoCounts   == [a \in Addr |-> 0]
Races      == {"lost", "revived", "met"}

Init ==
    /\ CountersInit
    /\ trie = EmptyTrie /\ hits = <<>> /\ dryRun = FALSE /\ config = {}
    /\ active = 0
    /\ attached = FALSE /\ pkt = [c \in CPU |-> IdlePacket] /\ received = 0
    /\ args \in CommandLines
    /\ upc = "load" /\ entries = <<>> /\ done = 0 /\ got = <<>> /\ tally = NoCounts
    /\ writeBuf = 0 /\ drainBuf = 0
    /\ misjudged = FALSE
    /\ bumped = <<>> /\ dumped = <<>> /\ raced = {}
    /\ stunFile = NoCounts /\ base = NoCounts /\ printed = NoCounts
    /\ straddled = FALSE

-----------------------------------------------------------------------------
(* What the command line asks for, from the texts alone.                     *)

Deleted(e) ==
    \E i \in DOMAIN args.delete :
        args.delete[i] \in Cidr /\ SameRange(args.delete[i], e)

Wanted(a) ==
    \E texts \in {args.file, args.add} : \E i \in DOMAIN texts :
        texts[i] \in Cidr /\ ~Deleted(texts[i]) /\ InRange(texts[i], a)

ToDrop(p) ==
    /\ p.proto \in args.proto /\ ~args.dry
    /\ Wanted(p.src) \/ Wanted(p.dst)
    /\ ~(p.proto = "udp" /\ IsStunBindingMessage(p.udp))

-----------------------------------------------------------------------------
(* The XDP program.                                                         *)

Working(c, p) == pkt' = [pkt EXCEPT ![c] = p]

(* try_ip_blacklist as far as the verdict, with what it has still to count:   *)
(* after attach, list, mode and protocols never change.  Every error is       *)
(* XDP_PASS, and a packet that is not IPv4 is not modelled.  A packet whose   *)
(* lengths disagree is not judged here: IsStunMessage may fail on it.         *)
Receive(c, p) ==
    /\ attached
    /\ pkt[c] = IdlePacket
    /\ received < MaxPackets(args)
    /\ received' = received + 1
    /\ LET listed == {a \in Addr : TrieLookup(trie, a) # {}}
           found == Among(IF p.src = p.dst THEN <<p.src>> ELSE <<p.src, p.dst>>, listed)
           on    == p.proto \in config
           stun  == IF p.proto = "udp" THEN IsStunMessage(p.udp) ELSE "no"
           kind  == IF dryRun THEN "dry" ELSE IF stun = "yes" THEN "stun" ELSE "hit"
           jobs  == IF on /\ (dryRun \/ stun # "error")
                    THEN [i \in DOMAIN found |-> [kind |-> kind, ip |-> found[i]]]
                    ELSE <<>>
           drops == jobs # <<>> /\ kind = "hit"
       IN  /\ Working(c, [IdlePacket EXCEPT !.jobs = jobs])
           /\ misjudged' = \/ misjudged
                            \/ /\ p.proto = "udp" => Agrees(p.udp)
                               /\ ToDrop(p) # drops
    /\ UNCHANGED <<counters, listMaps, hits, active, attached, taskVars,
                   hitHist, outHist>>

Job(c) == Head(pkt[c].jobs)

(* record_dry_run_ip, record_stun_pass: the map is chosen, for each address.  *)
Record(c) ==
    /\ pkt[c].jobs # <<>> /\ Job(c).kind # "hit"
    /\ probe[c].pc = "idle"
    /\ Becomes(c, [IdleProbe EXCEPT !.pc = "lookup", !.key = Job(c).ip, !.add = 1,
                      !.map = IF Job(c).kind = "dry" THEN Dry(active) ELSE Stun])
    /\ UNCHANGED <<tables, filterOn, it, iterating, recorded, collided, orphaned,
                   listMaps, hits, active, attached, pkt, received, taskVars,
                   misjudged, hitHist, outHist>>

(* incr_ip.  When the map is full `?` skips the second address. *)
Count(c) ==
    /\ \/ Lookup(c) \/ Load(c)
       \/ Store(c)  \/ Insert(c)
    /\ IF probe'[c].pc # "idle" THEN UNCHANGED pkt
       ELSE Working(c, [pkt[c] EXCEPT !.jobs =
                            IF recorded' = recorded THEN <<>> ELSE Tail(@)])
    /\ UNCHANGED <<listMaps, hits, active, attached, received, taskVars,
                   misjudged, hitHist, outHist>>

hitRest == <<counters, listMaps, active, attached, received, taskVars, misjudged,
             outHist>>

(* bump_hit: `*count += 1` on an array element, a load ... *)
HitLoad(c) ==
    /\ pkt[c].jobs # <<>> /\ Job(c).kind = "hit" /\ pkt[c].at = 0
    /\ \E i \in TrieLookup(trie, Job(c).ip) :
           /\ Working(c, [pkt[c] EXCEPT !.at = i, !.reg = hits[i]])
           /\ raced' = raced \cup {r \in {"met"} : \E d \in CPU : pkt[d].at = i}
    /\ UNCHANGED <<hitRest, hits, bumped, dumped>>

(* The position has been read and not yet been set to 0. *)
BetweenGetAndSet(i) ==
    \/ upc = "get" /\ i <= done
    \/ upc = "reset" /\ i > done

(* ... and a store, which is lost if it comes between the two accesses of     *)
(* dump_hits.                                                                 *)
HitStore(c) ==
    /\ pkt[c].at # 0
    /\ LET i == pkt[c].at IN
       /\ hits' = [hits EXCEPT ![i] = pkt[c].reg + 1]
       /\ bumped' = [bumped EXCEPT ![i] = @ + 1]
       /\ raced' = raced \cup {r \in {"lost"} : BetweenGetAndSet(i)}
    /\ Working(c, [IdlePacket EXCEPT !.jobs = Tail(pkt[c].jobs)])
    /\ UNCHANGED <<hitRest, dumped>>

PacketStep(c) == Record(c) \/ Count(c) \/ HitLoad(c) \/ HitStore(c)

-----------------------------------------------------------------------------
(* The task: run(), up to the loop.                                         *)

kernelRest == <<counters, received, pkt, misjudged, outHist>>
startRest  == <<kernelRest, listMaps, hits, active, hitHist, args, got, tally,
                writeBuf, drainBuf>>

Exit == upc' = "exited" /\ attached' = FALSE

LoadFile ==
    /\ upc = "load"
    /\ Parses(args.file)
    /\ entries' = Merge(<<>>, ParseText(args.file))
    /\ upc' = "add"
    /\ UNCHANGED <<startRest, attached, done>>

Add ==
    /\ upc = "add"
    /\ done < Len(args.add) /\ args.add[done + 1] \in Cidr
    /\ entries' = AddCidr(entries, args.add[done + 1])
    /\ done' = done + 1
    /\ UNCHANGED <<startRest, attached, upc>>

AddEnd ==
    /\ upc = "add"
    /\ done = Len(args.add)
    /\ upc' = "delete" /\ done' = 0
    /\ UNCHANGED <<startRest, attached, entries>>

Delete ==
    /\ upc = "delete"
    /\ done < Len(args.delete) /\ args.delete[done + 1] \in Cidr
    /\ entries' = RemoveCidr(entries, args.delete[done + 1])
    /\ done' = done + 1
    /\ UNCHANGED <<startRest, attached, upc>>

(* Mutant: the program is attached before its maps are written. *)
CheckAttaches ==
    /\ upc = "delete"
    /\ done = Len(args.delete) /\ entries # <<>> /\ args.proto # {}
    /\ upc' = "sync" /\ done' = 0
    /\ attached' = TRUE
    /\ UNCHANGED <<startRest, entries>>

(* Some range has to be left, and a protocol to be given. *)
Check ==
    /\ upc = "delete"
    /\ done = Len(args.delete) /\ entries # <<>> /\ args.proto # {}
    /\ upc' = "sync" /\ done' = 0
    /\ UNCHANGED <<startRest, attached, entries>>

Sync ==
    /\ upc = "sync"
    /\ Len(entries) <= MaxRanges
    /\ trie' = TrieOf(entries)
    /\ hits' = [i \in DOMAIN entries |-> 0]
    /\ dryRun' = args.dry /\ config' = args.proto
    /\ bumped' = hits' /\ dumped' = hits'
    /\ upc' = "detach"
    /\ UNCHANGED <<kernelRest, active, raced, attached, args, entries, done, got,
                   tally, writeBuf, drainBuf>>

(* detach_xdp: the interface is free of any XDP program. *)
Detach ==
    /\ upc = "detach"
    /\ upc' = "attach"
    /\ UNCHANGED <<startRest, attached, entries, done>>

Attach ==
    /\ upc = "attach"
    /\ attached' = TRUE /\ upc' = "run"
    /\ UNCHANGED <<startRest, entries, done>>

(* Whatever fails ends the program through `?` or bail!; in the loop, and     *)
(* where that is all there is, Ctrl+C does.                                   *)
Leave ==
    /\ \/ upc \in {"load", "detach", "attach", "run"}
       \/ upc = "add" /\ done < Len(args.add) /\ args.add[done + 1] \notin Cidr
       \/ /\ upc = "delete"
          /\ IF done < Len(args.delete) THEN args.delete[done + 1] \notin Cidr
             ELSE entries = <<>> \/ args.proto = {}
       \/ upc = "sync" /\ Len(entries) > MaxRanges
    /\ Exit
    /\ UNCHANGED <<startRest, entries, done>>

-----------------------------------------------------------------------------
(* The loop: dump_hits and dump_stun_passes.                                *)

loopRest == <<listMaps, received, pkt, misjudged, args, entries>>
dumpRest == <<loopRest, active, printed, straddled, writeBuf, drainBuf>>
fileRest == <<dumpRest, counters, stunFile>>

(* dump_stun_passes begins, or the turn of the loop is over. *)
StunOrNot ==
    IF args.stun
    THEN /\ IterStart(Stun) /\ upc' = "stun"
         /\ base' = recorded[Stun] /\ tally' = NoCounts
    ELSE upc' = "run" /\ UNCHANGED <<counters, base, tally>>

Tick ==
    /\ upc = "run"
    /\ ~args.dry /\ (args.out \/ args.stun)
    /\ IF args.out THEN upc' = "get" /\ UNCHANGED <<counters, base, tally>>
       ELSE StunOrNot
    /\ done' = 0 /\ got' = <<>>
    /\ UNCHANGED <<dumpRest, stunFile, hits, attached, hitHist>>

GetHit ==
    /\ upc = "get"
    /\ done < Len(entries)
    /\ got' = Append(got, hits[done + 1])
    /\ done' = done + 1
    /\ UNCHANGED <<fileRest, hits, attached, upc, base, tally, hitHist>>

GetEnd ==
    /\ upc = "get"
    /\ done = Len(entries)
    /\ upc' = "reset" /\ done' = 0
    /\ UNCHANGED <<fileRest, hits, attached, base, got, tally, hitHist>>

(* Mutant: the counters go on. *)
ResetHitNone ==
    /\ upc = "reset"
    /\ done < Len(entries)
    /\ done' = done + 1
    /\ raced' = raced \cup {r \in {"revived"} : \E c \in CPU : pkt[c].at = done + 1}
    /\ UNCHANGED <<fileRest, hits, attached, upc, base, got, tally, bumped, dumped>>

(* A store that comes after this, of a value loaded before, brings the drops  *)
(* back that are being dumped.                                                *)
ResetHit ==
    /\ upc = "reset"
    /\ done < Len(entries)
    /\ hits' = [hits EXCEPT ![done + 1] = 0]
    /\ done' = done + 1
    /\ raced' = raced \cup {r \in {"revived"} : \E c \in CPU : pkt[c].at = done + 1}
    /\ UNCHANGED <<fileRest, attached, upc, base, got, tally, bumped, dumped>>

WriteHits ==
    /\ upc = "reset"
    /\ done = Len(entries)
    /\ dumped' = [i \in DOMAIN dumped |-> dumped[i] + got[i]]
    /\ StunOrNot
    /\ UNCHANGED <<dumpRest, stunFile, hits, attached, done, got, bumped, raced>>

ReadStun(a) ==
    /\ upc = "stun"
    /\ IterKey(a) \/ IterAgain(a)
    /\ tally' = [tally EXCEPT ![a] = @ + ValueOf(tables[Stun], a)]
    /\ UNCHANGED <<dumpRest, stunFile, hits, attached, upc, done, got, base, hitHist>>

StunEnd ==
    /\ upc = "stun"
    /\ IterEnd
    /\ upc' = "write"
    /\ UNCHANGED <<dumpRest, stunFile, hits, attached, done, got, base, tally, hitHist>>

WriteStun ==
    /\ upc = "write"
    /\ stunFile' = tally
    /\ upc' = "run"
    /\ UNCHANGED <<dumpRest, counters, hits, attached, done, got, base, tally, hitHist>>

(* A file cannot be written, and the counts that were read are gone. *)
WriteFails ==
    /\ \/ upc = "reset" /\ done = Len(entries)
       \/ upc = "write"
    /\ upc' = "failed" /\ attached' = FALSE
    /\ UNCHANGED <<fileRest, hits, done, got, base, tally, hitHist>>

-----------------------------------------------------------------------------
(* The loop of the dry run: run_dry_run_loop and drain_dry_run.             *)

dryRest == <<loopRest, hits, done, got, hitHist, stunFile, base>>

InDryRun(c) == probe[c].pc # "idle" /\ probe[c].map # Stun

(* Mutant: the map that is written from now on is drained. *)
TurnDrainsActive ==
    /\ upc = "run" /\ args.dry
    /\ drainBuf' = 1 - writeBuf /\ writeBuf' = 1 - writeBuf
    /\ active' = writeBuf'
    /\ straddled' = (straddled \/ \E c \in CPU : InDryRun(c))
    /\ IterStart(Dry(drainBuf'))
    /\ tally' = NoCounts
    /\ upc' = "dryRead"
    /\ UNCHANGED <<dryRest, attached, printed>>

(* Mutant: write_buf is counted up. *)
TurnCounts ==
    /\ upc = "run" /\ args.dry
    /\ drainBuf' = writeBuf /\ writeBuf' = 1 + writeBuf
    /\ active' = writeBuf'
    /\ straddled' = (straddled \/ \E c \in CPU : InDryRun(c))
    /\ IterStart(Dry(drainBuf'))
    /\ tally' = NoCounts
    /\ upc' = "dryRead"
    /\ UNCHANGED <<dryRest, attached, printed>>

(* DRY_RUN_ACTIVE_BUF is turned, then the map it named is read. *)
Turn ==
    /\ upc = "run" /\ args.dry
    /\ drainBuf' = writeBuf /\ writeBuf' = 1 - writeBuf
    /\ active' = writeBuf'
    /\ straddled' = (straddled \/ \E c \in CPU : InDryRun(c))
    /\ IterStart(Dry(drainBuf'))
    /\ tally' = NoCounts
    /\ upc' = "dryRead"
    /\ UNCHANGED <<dryRest, attached, printed>>

ReadDry(a) ==
    /\ upc = "dryRead"
    /\ IterKey(a) \/ IterAgain(a)
    /\ tally' = [tally EXCEPT ![a] = @ + ValueOf(tables[it.map], a)]
    /\ UNCHANGED <<dryRest, attached, upc, active, writeBuf, drainBuf, printed,
                   straddled>>

(* The iteration is over, and what it returned is printed. *)
DryPrint ==
    /\ upc = "dryRead"
    /\ IterEnd
    /\ printed' = [a \in Addr |-> printed[a] + tally[a]]
    /\ upc' = "dryRemove"
    /\ UNCHANGED <<dryRest, attached, tally, active, writeBuf, drainBuf, straddled>>

DryRemove(a) ==
    /\ upc = "dryRemove"
    /\ RemoveKey(a)
    /\ tally' = [tally EXCEPT ![a] = 0]
    /\ UNCHANGED <<dryRest, attached, upc, active, writeBuf, drainBuf, printed,
                   straddled>>

(* hash.remove(&ip)? *)
DryRemoveFails(a) ==
    /\ upc = "dryRemove"
    /\ RemoveMissing(a)
    /\ upc' = "failed" /\ attached' = FALSE
    /\ UNCHANGED <<dryRest, counters, tally, active, writeBuf, drainBuf, printed,
                   straddled>>

DryRemoveEnd ==
    /\ upc = "dryRemove"
    /\ it.seen = {}
    /\ upc' = "run"
    /\ UNCHANGED <<dryRest, counters, attached, tally, active, writeBuf, drainBuf,
                   printed, straddled>>

TaskStep ==
    \/ LoadFile \/ Add \/ AddEnd \/ Delete \/ Check \/ Sync \/ Detach \/ Attach
    \/ Leave \/ Tick \/ GetHit \/ GetEnd \/ ResetHit \/ WriteHits \/ StunEnd
    \/ WriteStun \/ WriteFails \/ Turn \/ DryPrint \/ DryRemoveEnd
    \/ \E a \in Addr :
           ReadStun(a) \/ ReadDry(a) \/ DryRemove(a) \/ DryRemoveFails(a)

Next ==
    \/ \E c \in CPU, p \in Packets(args) : Receive(c, p)
    \/ \E c \in CPU : PacketStep(c)
    \/ TaskStep

Spec == Init /\ [][Next]_vars
-----------------------------------------------------------------------------
(* Properties.                                                             *)

Synced == trie # EmptyTrie

TypeOK ==
    /\ CountersType
    /\ trie \in [DOMAIN trie -> 1 .. MaxRanges]
    /\ hits \in Seq(Nat) /\ dryRun \in BOOLEAN /\ config \subseteq Proto
    /\ active \in {0, 1} /\ attached \in BOOLEAN /\ received \in Nat
    /\ pkt \in [CPU -> [jobs : Seq([kind : {"dry", "stun", "hit"}, ip : Addr]),
                        at : 0 .. MaxRanges, reg : Nat]]
    /\ args \in CommandLines
    /\ upc \in {"load", "add", "delete", "sync", "detach", "attach", "run", "get",
                "reset", "stun", "write", "dryRead", "dryRemove", "exited", "failed"}
    /\ entries \in Seq(Cidr) /\ done \in Nat /\ got \in Seq(Nat)
    /\ tally \in [Addr -> Nat] /\ writeBuf \in {0, 1} /\ drainBuf \in {0, 1}
    /\ misjudged \in BOOLEAN
    /\ bumped \in Seq(Nat) /\ dumped \in Seq(Nat) /\ raced \subseteq Races
    /\ stunFile \in [Addr -> Nat] /\ base \in [Addr -> Nat]
    /\ printed \in [Addr -> Nat] /\ straddled \in BOOLEAN

(* The kernel charges a drop to the position whose entry the list itself      *)
(* would name for the address: longest prefix of bits in the trie, last of    *)
(* the longest prefixes in the list, duplicates that survive dedup included.  *)
PositionsAgree ==
    Synced => \A a \in Addr : TrieLookup(trie, a) = MatchingEntry(entries, a)

(* The addresses blocked are those the file and --add name and --delete does  *)
(* not, whatever the order, overlap and repetition of the ranges.             *)
BlockedAsAsked ==
    Synced => \A a \in Addr : TrieLookup(trie, a) # {} <=> Wanted(a)

(* From the first packet on, the program drops exactly what the command line  *)
(* asks for: the maps are complete when it is attached.                       *)
DropsAsAsked == ~misjudged

Begins(s, t) == Len(s) <= Len(t) /\ \A i \in 1 .. Len(s) : s[i] = t[i]

(* ip-blacklist-test says of an address what the program does with it.  Its   *)
(* arguments are all answered; of a stream, the lines in front of the first   *)
(* one that is no address are, one by one, and whatever else it answers is    *)
(* true as well, and in order.                                                *)
TestTellsTheTruth ==
    upc = "detach" /\ args.add = <<>> /\ args.delete = <<>> =>
        \A q \in Questions :
            LET list == TestList(args.file)
                truth(lines) ==
                    LET asked == Among(lines, Addr) IN
                    [i \in DOMAIN asked |-> [target |-> asked[i],
                                             hit |-> TrieLookup(trie, asked[i]) # {}]]
            IN  /\ Answers(list, q) = truth(q)
                /\ Begins(StreamAnswers(list, q), truth(q))
                /\ \A n \in 0 .. Len(q) : (\A i \in 1 .. n : q[i] # Bad) =>
                       Begins(truth(SubSeq(q, 1, n)), StreamAnswers(list, q))

(* What of the drops counted at position i waits to be written.               *)
Unwritten(i) ==
    hits[i] + IF upc = "reset" /\ i <= done THEN got[i] ELSE 0

(* The files never claim more drops than there were, except when a counter is *)
(* set to 0 between the load and the store of a drop; and unless a drop is    *)
(* counted between the two passes of dump_hits over the array, or two CPUs    *)
(* count one range at once, every drop is in one file, or will be in the      *)
(* next.                                                                      *)
DropsAccounted ==
    \A i \in DOMAIN hits :
        /\ "revived" \notin raced => dumped[i] + Unwritten(i) <= bumped[i]
        /\ raced = {} /\ upc # "failed" => bumped[i] = dumped[i] + Unwritten(i)

(* A file of STUN packets covers all that were counted when its tick came,    *)
(* and none that were not, while CPUs go on counting.                         *)
StunFresh ==
    upc = "write" /\ ~collided =>
        \A a \in Addr : base[a] <= tally[a] /\ tally[a] <= recorded[Stun][a]

(* What a map of the dry run still owes the reader for a. *)
DryOutstanding(b, a) ==
    IF Present(tables[Dry(b)], a)
           /\ ~(upc = "dryRemove" /\ b = drainBuf /\ a \in it.seen)
    THEN ValueOf(tables[Dry(b)], a) ELSE 0

(* The dry run prints epochs like dstlog: see EpochLog. *)
Epochs == INSTANCE EpochLog WITH
    Item    <- Addr,
    current <- [a \in Addr |-> DryOutstanding(writeBuf, a)],
    closed  <- [a \in Addr |-> DryOutstanding(1 - writeBuf, a)],
    shown   <- Addr,
    raced   <- straddled \/ collided

DryRunEpochs == Epochs!Spec

-----------------------------------------------------------------------------
(* Why the properties hold.                                                  *)

(* The list: what the texts read so far ask for, whatever their order.        *)
RangeOf(e) == <<Start(e), End(e)>>

Ranges(texts) == {RangeOf(texts[i]) : i \in {j \in DOMAIN texts : texts[j] \in Cidr}}

ListedAfter(added, deleted) ==
    (Ranges(args.file) \cup Ranges(SubSeq(args.add, 1, added)))
        \ Ranges(SubSeq(args.delete, 1, deleted))

Asked == ListedAfter(Len(args.add), Len(args.delete))

Listing ==
    /\ upc = "load" => entries = <<>> /\ done = 0
    /\ upc = "add" => done <= Len(args.add) /\ Ranges(entries) = ListedAfter(done, 0)
    /\ upc = "delete" => /\ done <= Len(args.delete)
                         /\ Ranges(entries) = ListedAfter(Len(args.add), done)
    /\ upc = "sync" => Ranges(entries) = Asked /\ entries # <<>>

(* The maps: they are written before the program is attached, and stay.       *)
Enforced ==
    /\ upc \in {"load", "add", "delete", "sync"} => ~Synced
    /\ upc \notin {"load", "add", "delete", "sync", "exited"} => Synced
    /\ attached => Synced
    /\ Synced => /\ Ranges(entries) = Asked /\ trie = TrieOf(entries)
                 /\ Len(entries) <= MaxRanges
                 /\ dryRun = args.dry /\ config = args.proto
                 /\ Len(hits) = Len(entries)
    /\ ~Synced => hits = <<>>
    /\ Len(bumped) = Len(hits) /\ Len(dumped) = Len(hits)

(* The jobs of a packet are of the kind the mode allows, and a probe is busy  *)
(* with the first of them.                                                    *)
Jobs ==
    \A c \in CPU :
        /\ pkt[c].jobs # <<>> => Synced
        /\ \A j \in DOMAIN pkt[c].jobs : pkt[c].jobs[j].kind = "dry" <=> args.dry
        /\ pkt[c].at # 0 => /\ pkt[c].jobs # <<>> /\ Job(c).kind = "hit"
                            /\ pkt[c].at \in DOMAIN hits
        /\ probe[c].pc # "idle" =>
               /\ pkt[c].jobs # <<>> /\ Job(c).kind # "hit" /\ probe[c].add = 1
               /\ IF args.dry THEN probe[c].map \in {Dry(0), Dry(1)}
                  ELSE probe[c].map = Stun

(* Where the task can be in its loop. *)
Looping ==
    /\ upc \in {"get", "reset", "stun", "write"} => ~args.dry
    /\ upc \in {"dryRead", "dryRemove"} => args.dry
    /\ upc = "get" => done <= Len(entries) /\ Len(got) = done
    /\ upc = "reset" => done <= Len(entries) /\ Len(got) = Len(entries)

(* The drops counted at position i that no file has or is about to have.      *)
Open(i) == bumped[i] - dumped[i] - (IF upc = "reset" /\ i <= done THEN got[i] ELSE 0)

HitsInv ==
    \A i \in DOMAIN hits :
        /\ "revived" \notin raced =>
               /\ hits[i] <= Open(i)
               /\ BetweenGetAndSet(i) => got[i] <= Open(i)
               /\ \A c \in CPU : pkt[c].at = i => pkt[c].reg <= Open(i)
        /\ raced = {} =>
               /\ upc # "failed" => hits[i] = Open(i)
               /\ BetweenGetAndSet(i) => got[i] = hits[i]
               /\ \A c \in CPU : pkt[c].at = i => pkt[c].reg = hits[i]
               /\ \A c, d \in CPU : pkt[c].at = i /\ pkt[d].at = i => c = d

(* STUN packets: nothing is removed from their map, and what the iteration    *)
(* has passed was counted.                                                    *)
StunInv ==
    ~args.dry =>
        /\ ~orphaned /\ ~straddled
        /\ ~collided => \A a \in Addr : Amount(Stun, a) = recorded[Stun][a]
        /\ upc = "stun" => it.map = Stun
        /\ upc = "stun" /\ ~collided =>
               \A a \in Addr :
                   /\ base[a] <= recorded[Stun][a] /\ tally[a] <= recorded[Stun][a]
                   /\ IF a \in it.seen THEN base[a] <= tally[a] ELSE tally[a] = 0
                   /\ a \notin it.walk => base[a] = 0
        /\ StunFresh

(* The dry run: until a packet straddles a turn, packets write the one map    *)
(* and the task the other one.                                                *)
EpochInv ==
    /\ active = writeBuf
    /\ upc \in {"dryRead", "dryRemove"} =>
           drainBuf = 1 - writeBuf /\ it.map = Dry(drainBuf)
    /\ ~straddled => /\ ~orphaned
                     /\ \A c \in CPU : InDryRun(c) => probe[c].map = Dry(active)
    /\ ~straddled /\ ~collided =>
           LET drained == KeysOf(tables[Dry(1 - writeBuf)]) IN
           /\ upc \notin {"dryRead", "dryRemove"} => drained = {}
           /\ upc = "dryRead" =>
                  /\ drained \subseteq it.walk
                  /\ \A a \in Addr :
                         tally[a] = IF a \in it.seen THEN Amount(it.map, a) ELSE 0
           /\ upc = "dryRemove" => drained \subseteq it.seen

(* The inductive invariant. *)
IInv ==
    /\ TypeOK /\ CountersInv
    /\ Listing /\ Enforced /\ Jobs /\ Looping
    /\ DropsAsAsked /\ HitsInv /\ StunInv /\ EpochInv
=============================================================================
