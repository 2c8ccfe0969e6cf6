------------------------------- MODULE Capture -------------------------------
(***************************************************************************)
(* `rstrace dns_capture` and `rstrace tls-sni-capture`: one thread per     *)
(* network interface that reads frames, parses them and counts records in  *)
(* a map under a mutex, and a task that emits the map on every tick until  *)
(* Ctrl+C, then stops and joins the threads and emits it once more         *)
(* (rstrace/src/dns_capture.rs, rstrace/src/tls_sni_capture.rs).           *)
(*                                                                         *)
(* The two are one program but for three things: what a frame is parsed    *)
(* for; dns_capture drains the map and prints the records, tls-sni-capture *)
(* keeps it and overwrites a file with it; and the latter only looks at    *)
(* what an IPv4 address of its own sends.                                  *)
(***************************************************************************)
EXTENDS DnsQuery, ClientHello, FiniteSets

CONSTANTS
    Iface,      \* the network interfaces
    Frames,     \* the frames that arrive
    Task, Free, \* holders of the mutex, besides threads
    Sni,        \* stands for the type in a record of tls-sni-capture
    MaxFrames   \* bound of the model: frames read in one behaviour

(* tags: VLAN tags; own: an address of the selected interfaces sent it; l4:   *)
(* protocol and port; intact: it is as long as the headers of IP say, l4Fits: *)
(* and as those of TCP or UDP say.                                            *)
Frame == [tags : Nat, net : {"v4", "v6", "arp"}, own : BOOLEAN,
          l4 : {"udp53", "udp", "tcp"}, intact : BOOLEAN, l4Fits : BOOLEAN,
          dns : Message, tls : Hello]

ASSUME CaptureAssumption ==
    /\ IsFiniteSet(Iface) /\ Frames \subseteq Frame
    /\ {Task, Free} \cap Iface = {} /\ Task # Free
    /\ Sni \notin QType
    /\ Panic \notin [domain : Seq(Label), type : QType]
    /\ Panic \notin [domain : Seq(Host), type : {Sni}]
    /\ MaxFrames \in Nat

VARIABLES
    sni,      \* tls-sni-capture runs
    upc,      \* what the task does
    stop,     \* the flag
    lock,     \* who holds the mutex
    agg,      \* the map: a count for each record
    taken,    \* what the task has read of it
    shown,    \* what has been printed, or is in the file
    thread,   \* what each thread does, and the record it will count
    frames,   \* frames read
    carried   \* history: for each record, the frames read that carry it

taskVars == <<sni, upc, stop, taken, shown>>
threadVars == <<thread, frames, carried>>
vars == <<taskVars, lock, agg, threadVars>>

-----------------------------------------------------------------------------
(* Frames.                                                                   *)

(* ip_payload_from_l2: one tag is taken off; the header length of IPv4 is     *)
(* used for a slice without being compared with the frame's, that of IPv6 is  *)
(* fixed, and looked at.                                                      *)
UdpPayload(f) ==
    IF f.tags > 1 \/ f.net = "arp" \/ f.l4 = "tcp" THEN {}
    ELSE IF ~f.intact THEN IF f.net = "v4" THEN {Panic} ELSE {}
    ELSE IF f.l4Fits /\ f.l4 = "udp53" THEN ParseDnsQuery(f.dns) ELSE {}

(* ipv4_tcp_payload_from_l2; the sender is looked at afterwards. *)
TcpPayload(f) ==
    IF f.tags > 1 \/ f.net # "v4" \/ f.l4 # "tcp" THEN {}
    ELSE IF ~f.intact THEN {Panic}
    ELSE IF f.l4Fits /\ f.own THEN ParseTlsSni(f.tls) ELSE {}

SniRecord(name) == [domain |-> <<name>>, type |-> Sni]

(* parse_dns_record, parse_tls_sni_record. *)
Parse(f) ==
    IF sni THEN {IF n = Panic THEN Panic ELSE SniRecord(n) : n \in TcpPayload(f)}
    ELSE UdpPayload(f)

(* What a frame carries, from the standards and the help texts.               *)
Carries(f) ==
    IF ~(f.tags <= 1 /\ f.intact /\ f.l4Fits) THEN {}
    ELSE IF sni
         THEN IF f.net = "v4" /\ f.own /\ f.l4 = "tcp"
              THEN {SniRecord(n) : n \in Named(f.tls)} ELSE {}
         ELSE IF f.net \in {"v4", "v6"} /\ f.l4 = "udp53" THEN Question(f.dns) ELSE {}

Record ==
    (UNION {ParseDnsQuery(f.dns) \cup Question(f.dns) : f \in Frames})
    \cup {SniRecord(n) : n \in Host}

None == [r \in Record |-> 0]

Init ==
    /\ sni \in BOOLEAN
    /\ upc = "start" /\ stop = FALSE /\ lock = Free
    /\ agg = None /\ taken = None /\ shown = None
    /\ thread = [i \in Iface |-> [pc |-> "unborn", rec |-> {}]]
    /\ frames = 0 /\ carried = None

-----------------------------------------------------------------------------
(* The output.                                                               *)

(* flush_records drains keys and counts, and prints a line for each key.      *)
Lines(counts) == [r \in Record |-> IF counts[r] > 0 THEN 1 ELSE 0]

Plus(f, g) == [r \in Record |-> f[r] + g[r]]

(* write_sni_counts puts the counts where the last ones were. *)
Output == IF sni THEN taken ELSE Plus(shown, Lines(taken))

(* The output when it is broken off: no more than before, or part of it,      *)
(* which takes the place of a file.                                           *)
Interrupted ==
    {shown} \cup
    IF upc # "write" THEN {}
    ELSE {[r \in Record |-> IF r \in part THEN Output[r] ELSE IF sni THEN 0 ELSE shown[r]]
          : part \in SUBSET Record}

-----------------------------------------------------------------------------
(* capture_on_interface.                                                     *)

Goes(i, pc, rec) == thread' = [thread EXCEPT ![i] = [pc |-> pc, rec |-> rec]]

At(i, pc) == thread[i].pc = pc

(* Not every channel is an Ethernet channel. *)
OpenChannel(i) ==
    /\ At(i, "open")
    /\ Goes(i, "check", {}) \/ Goes(i, "ended", {})
    /\ UNCHANGED <<taskVars, lock, agg, frames, carried>>

CheckStop(i) ==
    /\ At(i, "check")
    /\ Goes(i, IF stop THEN "ended" ELSE "next", {})
    /\ UNCHANGED <<taskVars, lock, agg, frames, carried>>

(* Mutant: after a timeout the thread reads on. *)
TimeoutReadsOn(i) ==
    /\ At(i, "next")
    /\ Goes(i, "next", {})
    /\ UNCHANGED <<taskVars, lock, agg, frames, carried>>

(* rx.next() fails after 500 ms without a frame. *)
Timeout(i) ==
    /\ At(i, "next")
    /\ Goes(i, "check", {})
    /\ UNCHANGED <<taskVars, lock, agg, frames, carried>>

(* rx.next() returns a frame, which is parsed.                                *)
ReadFrame(i, f) ==
    /\ At(i, "next")
    /\ frames < MaxFrames
    /\ Panic \notin Parse(f)
    /\ frames' = frames + 1
    /\ carried' = [r \in Record |-> carried[r] + IF r \in Carries(f) THEN 1 ELSE 0]
    /\ Goes(i, IF Parse(f) = {} THEN "check" ELSE "lock", Parse(f))
    /\ UNCHANGED <<taskVars, lock, agg>>

(* A slice is out of range: panic = "abort" ends the whole process, with what *)
(* the other threads hold, the map, and what is being written.                *)
FrameAborts(i, f) ==
    /\ At(i, "next")
    /\ frames < MaxFrames
    /\ Panic \in Parse(f)
    /\ frames' = frames + 1
    /\ carried' = [r \in Record |-> carried[r] + IF r \in Carries(f) THEN 1 ELSE 0]
    /\ upc' = "aborted"
    /\ shown' \in Interrupted
    /\ UNCHANGED <<sni, stop, taken, lock, agg, thread>>

Lock(i) ==
    /\ At(i, "lock") /\ lock = Free
    /\ lock' = i
    /\ Goes(i, "count", thread[i].rec)
    /\ UNCHANGED <<taskVars, agg, frames, carried>>

Count(i) ==
    /\ At(i, "count")
    /\ agg' = [r \in Record |-> agg[r] + IF r \in thread[i].rec THEN 1 ELSE 0]
    /\ lock' = Free
    /\ Goes(i, "check", {})
    /\ UNCHANGED <<taskVars, frames, carried>>

ThreadStep(i) ==
    \/ OpenChannel(i) \/ CheckStop(i) \/ Timeout(i) \/ Lock(i) \/ Count(i)
    \/ \E f \in Frames : ReadFrame(i, f)

-----------------------------------------------------------------------------
(* run().                                                                    *)

(* An interface is found, and an IPv4 address of it where one is needed.      *)
Start ==
    /\ upc = "start"
    /\ upc' = "loop"
    /\ thread' = [i \in Iface |-> [pc |-> "open", rec |-> {}]]
    /\ UNCHANGED <<sni, stop, taken, shown, lock, agg, frames, carried>>

(* Or none is; or a signal comes before anybody listens. *)
StartFails ==
    /\ upc = "start"
    /\ upc' = "failed"
    /\ UNCHANGED <<sni, stop, taken, shown, lock, agg, threadVars>>

Tick ==
    /\ upc = "loop"
    /\ upc' = "emit"
    /\ UNCHANGED <<sni, stop, taken, shown, lock, agg, threadVars>>

(* Only here does the task hear of Ctrl+C; then the flag is set. *)
CtrlC ==
    /\ upc = "loop"
    /\ stop' = TRUE
    /\ upc' = "join"
    /\ UNCHANGED <<sni, taken, shown, lock, agg, threadVars>>

(* Mutant: the threads are not waited for. *)
JoinNone ==
    /\ upc = "join"
    /\ upc' = "emit"
    /\ UNCHANGED <<sni, stop, taken, shown, lock, agg, threadVars>>

(* All threads have ended. *)
Join ==
    /\ upc = "join"
    /\ \A i \in Iface : At(i, "ended")
    /\ upc' = "emit"
    /\ UNCHANGED <<sni, stop, taken, shown, lock, agg, threadVars>>

(* Mutant: what the file has already is taken out of the map. *)
ReadMapSubtracts ==
    /\ upc = "emit" /\ lock = Free
    /\ lock' = Task
    /\ taken' = agg
    /\ agg' = IF sni THEN [r \in Record |-> agg[r] - shown[r]] ELSE None
    /\ upc' = "write"
    /\ UNCHANGED <<sni, stop, shown, threadVars>>

(* Mutant: both drain the map. *)
ReadMapDrains ==
    /\ upc = "emit" /\ lock = Free
    /\ lock' = Task
    /\ taken' = agg
    /\ agg' = None
    /\ upc' = "write"
    /\ UNCHANGED <<sni, stop, shown, threadVars>>

(* flush_records drains the map, write_sni_counts reads it.                   *)
ReadMap ==
    /\ upc = "emit" /\ lock = Free
    /\ lock' = Task
    /\ taken' = agg
    /\ agg' = IF sni THEN agg ELSE None
    /\ upc' = "write"
    /\ UNCHANGED <<sni, stop, shown, threadVars>>

(* The records are printed, or the file is written, under the mutex.          *)
Emit ==
    /\ upc = "write"
    /\ shown' = Output
    /\ taken' = IF sni THEN taken ELSE None
    /\ lock' = Free
    /\ upc' = IF stop THEN "exited" ELSE "loop"
    /\ UNCHANGED <<sni, stop, agg, threadVars>>

(* fs::write fails, or println! panics, which ends the program with all its   *)
(* threads.                                                                   *)
EmitFails ==
    /\ upc = "write"
    /\ sni \/ taken # None
    /\ upc' = IF sni THEN "failed" ELSE "aborted"
    /\ shown' \in Interrupted
    /\ UNCHANGED <<sni, stop, taken, lock, agg, threadVars>>

TaskStep == Start \/ StartFails \/ Tick \/ Join \/ ReadMap \/ Emit \/ EmitFails

Running == upc \notin {"exited", "failed", "aborted"}

Next ==
    /\ Running
    /\ \/ TaskStep \/ CtrlC
       \/ \E i \in Iface : ThreadStep(i) \/ \E f \in Frames : FrameAborts(i, f)

(* The task and the threads are scheduled; a read that times out counts as a  *)
(* step.  Nobody has to press Ctrl+C, or to send a frame that aborts.         *)
Fairness ==
    /\ WF_vars(Running /\ TaskStep)
    /\ \A i \in Iface : WF_vars(Running /\ ThreadStep(i))

Spec == Init /\ [][Next]_vars /\ Fairness
-----------------------------------------------------------------------------
(* Properties.                                                             *)

Counts == [Record -> Nat]

TypeOK ==
    /\ sni \in BOOLEAN /\ stop \in BOOLEAN
    /\ upc \in {"start", "loop", "emit", "write", "join", "exited", "failed", "aborted"}
    /\ lock \in Iface \cup {Task, Free}
    /\ agg \in Counts /\ taken \in Counts /\ shown \in Counts
    /\ thread \in [Iface -> [pc : {"unborn", "open", "check", "next", "lock",
                                   "count", "ended"}, rec : SUBSET Record]]
    /\ frames \in Nat /\ carried \in Counts

(* The parser of tls-sni-capture takes lengths that disagree with each other: *)
(* a hello may name a host for it that is not well-formed.                    *)
Strict == \A f \in Frames : ParseTlsSni(f.tls) \subseteq Named(f.tls) \cup {Panic}

(* What becomes of a record that n frames carry: k counts or lines of it.     *)
Kept(k, n) ==
    IF sni THEN k >= n /\ (Strict => k = n) ELSE k <= n /\ (n > 0 => k > 0)

(* When the program has ended after Ctrl+C, its output has every query, or    *)
(* host, of every frame that was read: nothing got lost between the threads   *)
(* and the last output.  A host stands there as often as it was read, or more *)
(* often if there are hellos that are not well-formed; a query at least once, *)
(* and never more often than it was read.  Names of MaxLabels labels and more *)
(* are left out: see LinesAsAsked.                                            *)
NothingMissing ==
    upc = "exited" =>
        \A r \in Record : Len(r.domain) < MaxLabels => Kept(shown[r], carried[r])

(* Every line printed is of a query that was made.                            *)
LinesAsAsked == \A r \in Record : shown[r] > 0 => carried[r] > 0

Minus(f, g) == [r \in Record |-> f[r] - g[r]]

(* What is counted is in one output and no other, though threads count at any *)
(* time: see EpochLog.  In tls-sni-capture the epochs are the differences     *)
(* between one file and the next.  dns-capture counts a record once in an     *)
(* epoch, however often it is read.  What has been broken off is not bound.   *)
Epochs == INSTANCE EpochLog WITH
    Item    <- Record,
    current <- IF sni THEN Minus(agg, taken) ELSE Lines(agg),
    closed  <- IF sni THEN Minus(taken, shown) ELSE Lines(taken),
    printed <- shown,
    shown   <- Record,
    raced   <- upc \in {"failed", "aborted"}

CaptureEpochs == Epochs!Spec

(* Once the flag is set the program ends, though interfaces be silent, a      *)
(* thread wait for the mutex, or have ended for want of an Ethernet channel.  *)
EndsOnceStopped == stop ~> ~Running
-----------------------------------------------------------------------------
(* Why they hold.                                                          *)

(* A thread has a record only between parsing and counting, and then one.     *)
OneRecord ==
    \A i \in Iface :
        \/ thread[i].rec = {}
        \/ thread[i].pc \in {"lock", "count"} /\ \E r \in Record : thread[i].rec = {r}

Unborn == upc = "start" => \A i \in Iface : At(i, "unborn")

(* The mutex belongs to who changes the map, or writes it out.                *)
LockHeld ==
    /\ \A i \in Iface : lock = i <=> At(i, "count")
    /\ upc \notin {"failed", "aborted"} => (lock = Task <=> upc = "write")

(* The task has read ahead of its output only while it writes; once the flag  *)
(* is set it reads when no thread is left.                                    *)
ReadAhead ==
    /\ upc \notin {"write", "failed", "aborted"} => taken = IF sni THEN shown ELSE None
    /\ upc \in {"join", "exited"} => stop
    /\ upc \in {"start", "loop"} => ~stop
    /\ stop /\ upc \notin {"join", "aborted"} => \A i \in Iface : At(i, "ended")
    /\ stop /\ upc \in {"write", "exited"} => agg = IF sni THEN taken ELSE None

(* The threads that hold a record. *)
Holders(r) == {i \in Iface : r \in thread[i].rec}

(* What has been counted or will be, and is or will be in the output. *)
Accounted(r) ==
    Cardinality(Holders(r)) + agg[r] + IF sni THEN 0 ELSE taken[r] + shown[r]

FramesAccounted ==
    upc # "aborted" =>
        \A r \in Record : Len(r.domain) < MaxLabels => Kept(Accounted(r), carried[r])

(* The inductive invariant. *)
IInv == TypeOK /\ OneRecord /\ Unborn /\ LockHeld /\ ReadAhead /\ FramesAccounted
=============================================================================
