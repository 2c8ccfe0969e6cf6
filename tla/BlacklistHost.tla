---------------------------- MODULE BlacklistHost ----------------------------
(***************************************************************************)
(* The commands of rstrace that share a network interface and the file     *)
(* /etc/.ip_blacklist: `ip-blacklist` and `ip-blacklist-detach`            *)
(* (rstrace/src/ip_blacklist.rs, rstrace/src/main.rs) and `init`, which    *)
(* writes the file in place (rstrace/src/init.rs).  Each may be killed at  *)
(* any step, and nothing keeps them apart.                                 *)
(*                                                                         *)
(* How a program gets on and off the interface is the kernel's part, seen  *)
(* through aya and ip: on "links" kernels (5.9) a bpf_link holds it, which *)
(* nobody else can take off and which goes with its process; before, it is *)
(* set through netlink and stays.  There the end of an instance clears the *)
(* interface, of its own program only ("replace", 5.7) or of any ("plain").*)
(***************************************************************************)
EXTENDS Naturals, Sequences

CONSTANTS
    Proc,      \* instances of ip-blacklist and ip-blacklist-detach
    Writer,    \* instances of init
    Version,   \* lists that are published; each writer has one
    Old,       \* the version in the file at first
    Chunks,    \* pieces in which a file is read and written
    Nobody, Other,  \* who has the interface, besides processes
    Hole,      \* a piece nobody has written
    Casts      \* bound of the model: who takes part in one behaviour

ASSUME BlacklistHostAssumption ==
    /\ Chunks \in Nat \ {0}
    /\ Old \in Version /\ Hole \notin Version
    /\ {Nobody, Other} \cap Proc = {} /\ Nobody # Other
    /\ Casts \subseteq SUBSET (Proc \cup Writer)

Kernel == {"links", "replace", "plain"}
Mode   == {"drv", "generic", "offload"}
Hook   == [owner : Proc \cup {Nobody, Other}, link : BOOLEAN, mode : Mode]

(* What `ip` makes of the words of MODES: the last one it does not know.      *)
Modes == <<"drv", "generic", "drv", "unknown">>

Empty   == [owner |-> Nobody, link |-> FALSE, mode |-> "drv"]
Whole(v) == [i \in 1 .. Chunks |-> v]

VARIABLES
    kernel, sealed,  \* sealed: the published files are encrypted
    detach,  \* the processes that are ip-blacklist-detach
    slot,    \* the program on the interface
    first,   \* what was there at first
    pc, buf, step,   \* of each process: the file as read so far; commands run
    file,    \* /etc/.ip_blacklist
    writer   \* of each writer: its version, and how much of it is written

hostVars == <<kernel, sealed, detach, first>>
procVars == <<pc, buf, step>>
allVars == <<hostVars, slot, procVars, file, writer>>

HostInit ==
    /\ kernel \in Kernel /\ sealed \in BOOLEAN
    /\ detach \in SUBSET Proc
    /\ \/ slot = Empty
       \/ slot \in [owner : {Other}, link : {FALSE}, mode : Mode]
       \/ kernel = "links" /\ slot \in [owner : {Other}, link : {TRUE}, mode : {"drv"}]
    /\ first = slot
    /\ buf = [p \in Proc |-> <<>>] /\ step = [p \in Proc |-> 0]
    /\ file = Whole(Old)
    /\ \E cast \in Casts :
           /\ pc = [p \in Proc |-> IF p \notin cast THEN "ended"
                                  ELSE IF p \in detach THEN "off" ELSE "load"]
           /\ writer \in [Writer -> [version : Version, done : {0}, pc : {"fetch", "ended"}]]
           /\ \A w \in Writer : writer[w].pc = "fetch" <=> w \in cast

Goes(p, to) == pc' = [pc EXCEPT ![p] = to]

-----------------------------------------------------------------------------
(* init.  What fails while the list is fetched leaves the file alone.        *)

writerRest == <<hostVars, slot, procVars>>

Truncate(w) ==
    /\ writer[w].pc = "fetch"
    /\ file' = <<>>
    /\ writer' = [writer EXCEPT ![w].pc = "write"]
    /\ UNCHANGED writerRest

(* Mutant: the file is opened for appending. *)
WriteChunkAppends(w) ==
    /\ writer[w].pc = "write" /\ writer[w].done < Chunks
    /\ file' = Append(file, writer[w].version)
    /\ writer' = [writer EXCEPT ![w].done = @ + 1]
    /\ UNCHANGED writerRest

(* A piece is written behind the last one of this process, wherever the file  *)
(* ends.                                                                      *)
WriteChunk(w) ==
    LET i == writer[w].done + 1 IN
    /\ writer[w].pc = "write" /\ i <= Chunks
    /\ file' = [j \in 1 .. (IF i > Len(file) THEN i ELSE Len(file)) |->
                   IF j = i THEN writer[w].version
                   ELSE IF j <= Len(file) THEN file[j] ELSE Hole]
    /\ writer' = [writer EXCEPT ![w].done = i]
    /\ UNCHANGED writerRest

(* It has written everything; or it fails, or is killed, before it touches    *)
(* the file or in the middle.                                                 *)
WriterEnds(w) ==
    /\ writer[w].pc \in {"fetch", "write"}
    /\ writer' = [writer EXCEPT ![w].pc =
                     IF @ = "fetch" THEN "ended"
                     ELSE IF writer[w].done = Chunks THEN "done" ELSE "torn"]
    /\ UNCHANGED <<writerRest, file>>

-----------------------------------------------------------------------------
(* ip-blacklist, up to the interface: run() and load_file().                 *)

inputRest == <<hostVars, slot, file, writer>>

ReadChunk(p) ==
    /\ pc[p] = "load"
    /\ Len(buf[p]) < Len(file)
    /\ buf' = [buf EXCEPT ![p] = Append(@, file[Len(@) + 1])]
    /\ UNCHANGED <<inputRest, pc, step>>

(* Nothing is an empty list.  A part of an encrypted file is neither          *)
(* decrypted nor a text; a part of a plain one may be a list or not.          *)
Decrypts(b, to) ==
    IF b = <<>> \/ b \in {Whole(v) : v \in Version} THEN to = "check"
    ELSE to = "refused" \/ (to = "check" /\ ~sealed)

ReadEnd(p) ==
    /\ pc[p] = "load"
    /\ Len(buf[p]) >= Len(file)
    /\ \E to \in {"check", "refused"} : Decrypts(buf[p], to) /\ Goes(p, to)
    /\ UNCHANGED <<inputRest, buf, step>>

(* Mutant: the interface is cleared before the list is looked at. *)
CheckInputDetaches(p) ==
    /\ pc[p] = "check"
    /\ slot' = IF slot.link THEN slot ELSE Empty
    /\ \E add, proto \in BOOLEAN :
           \/ (buf[p] # <<>> \/ add) /\ proto /\ Goes(p, "off")
           \/ Goes(p, "refused")
    /\ UNCHANGED <<hostVars, file, writer, buf, step>>

(* Some range has to be left or added, a protocol to be given; the object is  *)
(* loaded and its maps are written, which may fail.                           *)
CheckInput(p) ==
    /\ pc[p] = "check"
    /\ \E add, proto \in BOOLEAN :
           \/ (buf[p] # <<>> \/ add) /\ proto /\ Goes(p, "off")
           \/ Goes(p, "refused")
    /\ UNCHANGED <<inputRest, buf, step>>

-----------------------------------------------------------------------------
(* detach_xdp, and attach.                                                   *)

ifRest == <<hostVars, buf, file, writer>>

(* One `ip link set dev .. off`; only a link resists.  That a command fails   *)
(* is ignored.                                                                *)
Off(p) ==
    /\ pc[p] = "off"
    /\ slot' = IF ~slot.link /\ slot.mode = Modes[step[p] + 1] THEN Empty ELSE slot
    /\ step' = [step EXCEPT ![p] = @ + 1]
    /\ Goes(p, IF step[p] + 1 = Len(Modes) THEN "look" ELSE "off")
    /\ UNCHANGED ifRest

(* xdp_attached. *)
Look(p) ==
    /\ pc[p] = "look"
    /\ Goes(p, IF slot.owner # Nobody THEN "failed"
               ELSE IF p \in detach THEN "ended" ELSE "attach")
    /\ UNCHANGED <<ifRest, slot, step>>

(* program.attach.  A link is refused when anything is there; netlink         *)
(* replaces a program in its own mode.                                        *)
AttachProgram(p) ==
    /\ pc[p] = "attach"
    /\ slot.owner = Nobody \/ (kernel # "links" /\ slot.mode = "drv")
    /\ slot' = [owner |-> p, link |-> kernel = "links", mode |-> "drv"]
    /\ Goes(p, "run")
    /\ UNCHANGED <<ifRest, step>>

(* `ip` cannot be run, or the program not be loaded or attached: nothing is   *)
(* put back on the interface.                                                 *)
Fails(p) ==
    /\ pc[p] \in {"off", "look", "attach"}
    /\ Goes(p, "failed")
    /\ UNCHANGED <<ifRest, slot, step>>

Mine(p) == slot.owner = p

(* Mutant: nothing is detached at the end. *)
ReleasedNever(p) == slot

(* The end of the link, in a process that ends by itself.                     *)
Released(p) ==
    IF Mine(p) \/ (kernel = "plain" /\ slot.mode = "drv") THEN Empty ELSE slot

(* Ctrl+C, or an error in the loop. *)
Stop(p) ==
    /\ pc[p] = "run"
    /\ slot' = Released(p)
    /\ Goes(p, "ended")
    /\ UNCHANGED <<ifRest, step>>

(* Killed: the kernel closes a link, and leaves everything else.              *)
Kill(p) ==
    /\ pc[p] \notin {"refused", "failed", "ended", "killed"}
    /\ slot' = IF Mine(p) /\ slot.link THEN Empty ELSE slot
    /\ Goes(p, "killed")
    /\ UNCHANGED <<ifRest, step>>

ProcStep(p) ==
    \/ ReadChunk(p) \/ ReadEnd(p) \/ CheckInput(p) \/ Off(p) \/ Look(p) \/ AttachProgram(p)
    \/ Fails(p) \/ Stop(p) \/ Kill(p)

HostNext ==
    \/ \E p \in Proc : ProcStep(p)
    \/ \E w \in Writer : Truncate(w) \/ WriteChunk(w) \/ WriterEnds(w)

HostSpec == HostInit /\ [][HostNext]_allVars
-----------------------------------------------------------------------------
(* Properties.                                                             *)

HostTypeOK ==
    /\ kernel \in Kernel /\ sealed \in BOOLEAN
    /\ detach \subseteq Proc
    /\ slot \in Hook /\ first \in Hook
    /\ pc \in [Proc -> {"load", "check", "refused", "off", "look", "attach", "run",
                        "failed", "ended", "killed"}]
    /\ buf \in [Proc -> Seq(Version \cup {Hole})]
    /\ step \in [Proc -> 0 .. Len(Modes)]
    /\ file \in Seq(Version \cup {Hole}) /\ Len(file) <= Chunks
    /\ writer \in [Writer -> [version : Version, done : 0 .. Chunks,
                              pc : {"fetch", "write", "done", "torn", "ended"}]]

(* On a kernel with links one instance runs at a time: a second one finds the *)
(* interface taken, at its look or when it attaches, and whoever it races     *)
(* with.  Unless ip-blacklist-detach has begun, the one that runs filters.    *)
RunningFilters ==
    kernel = "links" =>
        /\ \A p, q \in Proc : pc[p] = "run" /\ pc[q] = "run" => p = q
        /\ (\A q \in detach : step[q] = 0) => \A p \in Proc : pc[p] = "run" => Mine(p)

(* A program that is on the interface is somebody else's, or belongs to an    *)
(* instance that runs; only where there are no links does one survive the     *)
(* killing of its process.                                                    *)
NoLeftovers ==
    \A p \in Proc : Mine(p) => pc[p] = "run" \/ (pc[p] = "killed" /\ kernel # "links")

(* The interface is left alone until a process has all its input: a file that *)
(* cannot be read, an empty list or a missing protocol takes nothing off.     *)
UntouchedBefore ==
    (\A p \in Proc : pc[p] \in {"load", "check", "refused"}) => slot = first

InterfaceSound == RunningFilters /\ NoLeftovers /\ UntouchedBefore

(* When every init that has begun to write has come to its end, the file is a *)
(* list from its first to its last piece, whatever overlapped: a hole that    *)
(* one leaves when another truncates under it is filled by the other, and     *)
(* nothing of the old list stays.  With several of them its pieces may be     *)
(* those of different lists.  An init that fails before leaves it alone.      *)
Written == {w \in Writer : writer[w].pc = "done"}

PublishedWhole ==
    (\A w \in Writer : writer[w].pc \notin {"write", "torn"}) =>
        IF Written = {} THEN file = Whole(Old)
        ELSE file \in [1 .. Chunks -> {writer[w].version : w \in Written}]
-----------------------------------------------------------------------------
(* Why they hold.                                                          *)

(* The commands of detach_xdp are counted, and there are no others. *)
StepsLeft ==
    \A p \in Proc : pc[p] \in {"load", "check", "off"} => step[p] < Len(Modes)

(* Where there are links, an instance holds the interface by one, which the   *)
(* commands of the others do not touch; those of ip-blacklist-detach neither. *)
HeldByLink ==
    kernel = "links" =>
        /\ slot.owner \in Proc => slot.link
        /\ \A p \in Proc : pc[p] = "run" => Mine(p)

(* The writers that have truncated the file. *)
Begun == {w \in Writer : writer[w].pc \in {"write", "done", "torn"}}

(* A piece that is missing is still to be written by somebody. *)
PiecesToCome ==
    \A i \in 1 .. Chunks : i > Len(file) \/ file[i] = Hole =>
        \E w \in Writer : writer[w].pc = "write" /\ writer[w].done < i

FilePieces ==
    /\ \A w \in Writer : writer[w].pc = "fetch" => writer[w].done = 0
    /\ Begun = {} => file = Whole(Old)
    /\ Begun # {} => \A i \in 1 .. Len(file) :
                        file[i] \in {Hole} \cup {writer[w].version : w \in Begun}
    /\ Begun # {} /\ (\A w \in Writer : writer[w].pc # "torn") => PiecesToCome

(* The inductive invariant. *)
HostIInv == HostTypeOK /\ StepsLeft /\ HeldByLink /\ FilePieces /\ InterfaceSound
=============================================================================
