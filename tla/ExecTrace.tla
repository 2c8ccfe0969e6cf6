----------------------------- MODULE ExecTrace ------------------------------
(***************************************************************************)
(* `rstrace exec-trace`: a line for every program that is executed.        *)
(*                                                                         *)
(* Kernel side (rstrace-ebpf/src/exec_trace.rs): a raw tracepoint that     *)
(* lets an execve through or not, by the name of the calling task, and     *)
(* sends it to the perf buffer of its CPU.  User side                      *)
(* (rstrace/src/exec_trace.rs): the start-up that attaches the tracepoint, *)
(* fills the filter maps and opens the buffers, in this order; one task    *)
(* per CPU that empties its buffer when tokio tells it to; Ctrl+C.         *)
(*                                                                         *)
(* The filter is three maps, which the start-up writes one after the other *)
(* while the tracepoint reads them one after the other: each access is a   *)
(* step.  What is sent is one step: no other actor sees EXEC_SCRATCH.      *)
(***************************************************************************)
EXTENDS CommFilter

CONSTANTS
    CPU,           \* the online CPUs
    Comm,          \* the names of tasks
    Programs,      \* what is executed: [comm, hit]
    CommandLines,  \* the command lines tried
    MaxFilters,    \* MAX_EXEC_COMM_FILTERS
    RingSize,      \* records a perf buffer holds
    MaxEvents      \* bound of the model: execs per CPU in one behaviour

ASSUME ExecTraceAssumption ==
    /\ Comm # {} /\ Comm \subseteq Seq(Byte) /\ \A m \in Comm : TaskName(m)
    /\ Programs \subseteq [comm : Comm, hit : BOOLEAN]
    /\ CommandLines \subseteq
           [comms : Seq(Seq(Byte)), ignores : Seq(Seq(Byte)), filter : BOOLEAN]
    /\ MaxFilters \in Nat /\ RingSize \in Nat /\ MaxEvents \in Nat

(* An exec by a task named comm; hit: --filter occurs in its command or args. *)
Event == [id : Nat, comm : Comm, hit : BOOLEAN]

(* COMM_MODE_*: 0 = unused, 1 = --comm, 2 = --ignore. *)
Allow == 1
Deny  == 2

VARIABLES
    \* maps
    count,      \* EXEC_COMM_FILTER_COUNT[0]
    mode,       \* EXEC_COMM_FILTER_MODE[0]
    names,      \* EXEC_COMM_FILTERS: {filter}, or {} where enabled is 0
    ring,       \* EXEC_EVENTS: the records in the buffer of each CPU
    opened,     \* the CPUs whose buffer is open and in the map
    pending,    \* losses the kernel has not put in the buffer yet
    \* the tracepoint
    attached,
    probe,      \* what each CPU executes
    started,    \* execs so far on each CPU
    \* tokio's reactor
    edge,       \* the buffer has been written and epoll has not reported it
    ready,      \* the readiness a reader waits for
    fresh,      \* it was reported again after the reader took its guard
    \* the readers
    rpc,        \* where each stands
    left,       \* records its for_each is still bound to visit
    \* the main task
    args, upc,
    done,       \* names written so far
    asked,      \* SIGINT has been sent
    \* history
    read,       \* ids each reader has taken from its buffer
    printed,    \* events printed
    warned,     \* losses reported, per CPU
    sent,       \* ids a probe has handed to an open buffer, per CPU
    overtaken,  \* a buffer was opened under a probe that had begun before
    judged      \* <<name, let through?>> of the probes that found the filter complete

mapVars    == <<count, mode, names>>
bufVars    == <<ring, pending>>
reactor    == <<edge, ready, fresh>>
readerVars == <<rpc, left>>
mainVars   == <<args, upc, done, asked, attached, opened>>
histVars   == <<read, printed, warned, sent>>
vars == <<mapVars, bufVars, reactor, readerVars, mainVars, probe, started,
          histVars, overtaken, judged>>

IdleProbe == [pc |-> "idle", ev |-> [id |-> 0, comm |-> CHOOSE m \in Comm : TRUE,
              hit |-> FALSE], n |-> 0, i |-> 0, mode |-> 0, late |-> FALSE]

Init ==
    /\ count = 0 /\ mode = 0 /\ names = [i \in 0 .. MaxFilters - 1 |-> {}]
    /\ ring = [c \in CPU |-> <<>>] /\ opened = {}
    /\ pending = [c \in CPU |-> 0]
    /\ attached = FALSE
    /\ probe = [c \in CPU |-> IdleProbe]
    /\ started = [c \in CPU |-> 0]
    /\ edge = [c \in CPU |-> FALSE]
    /\ ready = [c \in CPU |-> FALSE]
    /\ fresh = [c \in CPU |-> FALSE]
    /\ rpc = [c \in CPU |-> "none"] /\ left = [c \in CPU |-> 0]
    /\ args \in CommandLines
    /\ upc = "check" /\ done = 0 /\ asked = FALSE
    /\ read = [c \in CPU |-> {}] /\ printed = {}
    /\ warned = [c \in CPU |-> 0] /\ sent = [c \in CPU |-> {}]
    /\ overtaken = FALSE /\ judged = {}

(* What the command line says: one list of names, and what it is for. *)
List == IF args.comms # <<>> THEN args.comms ELSE args.ignores

CommMode ==
    CASE args.comms # <<>>   -> Allow
      [] args.ignores # <<>> -> Deny
      [] OTHER               -> 0

(* A name asks for every task whose name begins with it. *)
Listed(m) == \E i \in DOMAIN List : IsPrefix(List[i], m)

Wanted(m) ==
    CASE CommMode = Allow -> Listed(m)
      [] CommMode = Deny  -> ~Listed(m)
      [] OTHER            -> TRUE

FiltersSet == upc \in {"open", "run", "abort"}

-----------------------------------------------------------------------------
(* The tracepoint.                                                          *)

Becomes(c, p) == probe' = [probe EXCEPT ![c] = p]

probeRest == <<mapVars, bufVars, reactor, readerVars, mainVars, started,
               histVars, overtaken>>

(* try_exec_trace: an execve or execveat. *)
Enter(c, e) ==
    /\ attached
    /\ probe[c].pc = "idle"
    /\ started[c] < MaxEvents
    /\ started' = [started EXCEPT ![c] = @ + 1]
    /\ Becomes(c, [IdleProbe EXCEPT !.pc = "count", !.late = FiltersSet,
                   !.ev = [id |-> started[c] + 1, comm |-> e.comm, hit |-> e.hit]])
    /\ UNCHANGED <<mapVars, bufVars, reactor, readerVars, mainVars, histVars,
                   overtaken, judged>>

(* passes_comm_filter has decided: on to the buffer, or back. *)
Decide(c, pass) ==
    /\ Becomes(c, IF pass THEN [probe[c] EXCEPT !.pc = "output"] ELSE IdleProbe)
    /\ judged' = IF probe[c].late THEN judged \cup {<<probe[c].ev.comm, pass>>}
                 ELSE judged

ReadCount(c) ==
    /\ probe[c].pc = "count"
    /\ IF count = 0 THEN Decide(c, TRUE)
       ELSE /\ Becomes(c, [probe[c] EXCEPT !.pc = "mode", !.n = count])
            /\ UNCHANGED judged
    /\ UNCHANGED probeRest

ReadMode(c) ==
    /\ probe[c].pc = "mode"
    /\ Becomes(c, [probe[c] EXCEPT !.pc = "match", !.mode = mode])
    /\ UNCHANGED <<probeRest, judged>>

(* Mutant: the loop compares one name too few. *)
MatchShort(c) ==
    /\ probe[c].pc = "match"
    /\ LET p == probe[c] IN
       IF p.i + 1 < p.n /\ p.i < MaxFilters
       THEN IF \E f \in names[p.i] : CommEq(f, Padded(p.ev.comm))
            THEN Decide(c, p.mode # Deny)
            ELSE Becomes(c, [p EXCEPT !.i = @ + 1]) /\ UNCHANGED judged
       ELSE Decide(c, p.mode = Deny)
    /\ UNCHANGED probeRest

(* One turn of the loop over the names; a mode other than deny means allow. *)
Match(c) ==
    /\ probe[c].pc = "match"
    /\ LET p == probe[c] IN
       IF p.i < p.n /\ p.i < MaxFilters
       THEN IF \E f \in names[p.i] : CommEq(f, Padded(p.ev.comm))
            THEN Decide(c, p.mode # Deny)
            ELSE Becomes(c, [p EXCEPT !.i = @ + 1]) /\ UNCHANGED judged
       ELSE Decide(c, p.mode = Deny)
    /\ UNCHANGED probeRest

(* bpf_perf_event_output: nothing happens without an open buffer.  The losses *)
(* of a full buffer are counted, and put in front of the next record that     *)
(* fits.  Each record wakes the reader's poll.                                *)
Output(c) ==
    /\ probe[c].pc = "output"
    /\ Becomes(c, IdleProbe)
    /\ \/ /\ c \notin opened
          /\ UNCHANGED <<bufVars, edge, sent>>
       \/ /\ c \in opened /\ Len(ring[c]) < RingSize
          /\ ring' = [ring EXCEPT ![c] = Append(@, [ev |-> probe[c].ev,
                                                     lost |-> pending[c]])]
          /\ pending' = [pending EXCEPT ![c] = 0]
          /\ edge' = [edge EXCEPT ![c] = TRUE]
          /\ sent' = [sent EXCEPT ![c] = @ \cup {probe[c].ev.id}]
       \/ /\ c \in opened /\ Len(ring[c]) = RingSize
          /\ pending' = [pending EXCEPT ![c] = @ + 1]
          /\ sent' = [sent EXCEPT ![c] = @ \cup {probe[c].ev.id}]
          /\ UNCHANGED <<ring, edge>>
    /\ UNCHANGED <<mapVars, ready, fresh, readerVars, mainVars, started, read,
                   printed, warned, overtaken, judged>>

ProbeStep(c) == ReadCount(c) \/ ReadMode(c) \/ Match(c) \/ Output(c)

-----------------------------------------------------------------------------
(* The main task: run().                                                    *)

mainRest == <<bufVars, reactor, probe, started, histVars, judged>>

(* Mutant: any number of names is accepted. *)
CheckArgsAnyLength ==
    /\ upc = "check"
    /\ LET empty == ~args.filter /\ List = <<>>
           both  == args.comms # <<>> /\ args.ignores # <<>>
       IN  upc' = IF empty \/ both THEN "exited" ELSE "attach"
    /\ UNCHANGED <<mainRest, mapVars, readerVars, args, done, asked, attached,
                   opened, overtaken>>

(* clap lets an empty list through only next to a non-empty one; run() checks *)
(* the lists again, and their length.                                         *)
CheckArgs ==
    /\ upc = "check"
    /\ LET empty == ~args.filter /\ List = <<>>
           both  == args.comms # <<>> /\ args.ignores # <<>>
       IN  upc' = IF empty \/ both \/ Len(List) > MaxFilters
                  THEN "exited" ELSE "attach"
    /\ UNCHANGED <<mainRest, mapVars, readerVars, args, done, asked, attached,
                   opened, overtaken>>

Attach ==
    /\ upc = "attach"
    /\ attached' = TRUE
    /\ upc' = "count"
    /\ UNCHANGED <<mainRest, mapVars, readerVars, args, done, asked, opened,
                   overtaken>>

SetCount ==
    /\ upc = "count"
    /\ count' = Len(List)
    /\ upc' = "mode"
    /\ UNCHANGED <<mainRest, mode, names, readerVars, args, done, asked,
                   attached, opened, overtaken>>

(* Mutant: the buffers are opened before the names are written. *)
SetModeOpens ==
    /\ upc = "mode"
    /\ mode' = CommMode
    /\ upc' = "names"
    /\ opened' = CPU
    /\ rpc' = [c \in CPU |-> "start"]
    /\ overtaken' = (\E c \in CPU : probe[c].pc # "idle")
    /\ UNCHANGED <<mainRest, count, names, left, args, done, asked, attached>>

SetMode ==
    /\ upc = "mode"
    /\ mode' = CommMode
    /\ upc' = "names"
    /\ UNCHANGED <<mainRest, count, names, readerVars, args, done, asked,
                   attached, opened, overtaken>>

SetName ==
    /\ upc = "names"
    /\ done < Len(List)
    /\ BuildCommFilter(List[done + 1]) # {}
    /\ names' = [names EXCEPT ![done] = BuildCommFilter(List[done + 1])]
    /\ done' = done + 1
    /\ UNCHANGED <<mainRest, count, mode, readerVars, args, upc, asked,
                   attached, opened, overtaken>>

NamesSet ==
    /\ upc = "names"
    /\ done = Len(List)
    /\ upc' = "open"
    /\ UNCHANGED <<mainRest, mapVars, readerVars, args, done, asked, attached,
                   opened, overtaken>>

(* perf_array.open and tokio::spawn. *)
OpenBuffer(c) ==
    /\ upc = "open"
    /\ c \notin opened
    /\ opened' = opened \cup {c}
    /\ rpc' = [rpc EXCEPT ![c] = "start"]
    /\ overtaken' = (overtaken \/ (probe[c].pc # "idle" /\ ~probe[c].late))
    /\ UNCHANGED <<mainRest, mapVars, left, args, upc, done, asked, attached>>

AllOpen ==
    /\ upc = "open"
    /\ opened = CPU
    /\ upc' = "run"
    /\ UNCHANGED <<mainRest, mapVars, readerVars, args, done, asked, attached,
                   opened, overtaken>>

(* The process ends, and with it its tasks, its buffers and the tracepoint. *)
Exit ==
    /\ upc' = "exited" /\ attached' = FALSE /\ opened' = {}
    /\ rpc' = [c \in CPU |-> "none"]

(* Attaching, a name that is too long, or opening a buffer fails: `?`. *)
StartupError ==
    /\ upc \in {"attach", "names", "open"}
    /\ Exit
    /\ UNCHANGED <<mainRest, mapVars, left, args, done, asked, overtaken>>

(* signal::ctrl_c() is awaited once, and on its own: every SIGINT after the   *)
(* first poll completes it.  Before, SIGINT kills the process.                *)
SigInt ==
    /\ ~asked
    /\ upc # "exited"
    /\ asked' = TRUE
    /\ \/ upc = "run" /\ UNCHANGED <<upc, attached, opened, rpc>>
       \/ upc # "run" /\ Exit
    /\ UNCHANGED <<mainRest, mapVars, left, args, done, overtaken>>

(* h.abort() for each reader. *)
CtrlC ==
    /\ upc = "run"
    /\ asked
    /\ upc' = "abort"
    /\ UNCHANGED <<mainRest, mapVars, readerVars, args, done, asked, attached,
                   opened, overtaken>>

(* Mutant: the readers are awaited and not aborted. *)
ShutdownJoins ==
    /\ upc = "abort"
    /\ \A c \in CPU : rpc[c] \in {"none", "failed"}
    /\ Exit
    /\ UNCHANGED <<mainRest, mapVars, left, args, done, asked, overtaken>>

(* The runtime is dropped when no reader runs: a reader stops at its await. *)
Shutdown ==
    /\ upc = "abort"
    /\ \A c \in CPU : rpc[c] # "drain"
    /\ Exit
    /\ UNCHANGED <<mainRest, mapVars, left, args, done, asked, overtaken>>

MainStep ==
    \/ CheckArgs \/ Attach \/ SetCount \/ SetMode \/ SetName \/ NamesSet
    \/ AllOpen \/ StartupError \/ CtrlC \/ Shutdown
    \/ \E c \in CPU : OpenBuffer(c)

-----------------------------------------------------------------------------
(* The readers: poll_cpu, and tokio's reactor underneath.                   *)

readerRest == <<mapVars, pending, mainVars, probe, started, sent, overtaken,
                judged>>

(* epoll reports the write.  A reader that has its guard already will see it  *)
(* in clear_ready: the guard remembers the tick it was taken in.              *)
Wake(c) ==
    /\ edge[c] /\ rpc[c] \in {"wait", "drain"}
    /\ edge' = [edge EXCEPT ![c] = FALSE]
    /\ ready' = [ready EXCEPT ![c] = TRUE]
    /\ fresh' = [fresh EXCEPT ![c] = TRUE]
    /\ UNCHANGED <<readerRest, ring, readerVars, read, printed, warned>>

(* AsyncFd::new: from now on epoll watches the buffer.  When it fails the     *)
(* task ends with a message and the others go on.                             *)
Register(c) ==
    /\ rpc[c] = "start" /\ upc # "abort"
    /\ \E pc \in {"wait", "failed"} : rpc' = [rpc EXCEPT ![c] = pc]
    /\ UNCHANGED <<readerRest, ring, reactor, left, read, printed, warned>>

(* readable_mut().await.  for_each visits what the buffer holds now, and      *)
(* perhaps what arrives in the meantime.                                      *)
TakeGuard(c) ==
    /\ rpc[c] = "wait" /\ upc # "abort"
    /\ ready[c]
    /\ rpc' = [rpc EXCEPT ![c] = "drain"]
    /\ fresh' = [fresh EXCEPT ![c] = FALSE]
    /\ left' = [left EXCEPT ![c] = Len(ring[c])]
    /\ UNCHANGED <<readerRest, ring, edge, ready, read, printed, warned>>

MatchesFilter(ev) == args.filter => ev.hit

(* Mutant: PerfEvent::Lost is passed over. *)
VisitMute(c) ==
    /\ rpc[c] = "drain"
    /\ ring[c] # <<>>
    /\ LET r == Head(ring[c]) IN
       /\ read' = [read EXCEPT ![c] = @ \cup {r.ev.id}]
       /\ printed' = IF MatchesFilter(r.ev) THEN printed \cup {<<c, r.ev>>} ELSE printed
    /\ ring' = [ring EXCEPT ![c] = Tail(@)]
    /\ left' = [left EXCEPT ![c] = IF @ > 0 THEN @ - 1 ELSE 0]
    /\ UNCHANGED <<readerRest, reactor, rpc, warned>>

(* One record: a loss is logged, a sample printed if it matches. *)
Visit(c) ==
    /\ rpc[c] = "drain"
    /\ ring[c] # <<>>
    /\ LET r == Head(ring[c]) IN
       /\ read' = [read EXCEPT ![c] = @ \cup {r.ev.id}]
       /\ printed' = IF MatchesFilter(r.ev) THEN printed \cup {<<c, r.ev>>} ELSE printed
       /\ warned' = [warned EXCEPT ![c] = @ + r.lost]
    /\ ring' = [ring EXCEPT ![c] = Tail(@)]
    /\ left' = [left EXCEPT ![c] = IF @ > 0 THEN @ - 1 ELSE 0]
    /\ UNCHANGED <<readerRest, reactor, rpc>>

(* Mutant: the readiness is taken back whatever has been reported since. *)
ClearReadyBlind(c) ==
    /\ rpc[c] = "drain"
    /\ left[c] = 0
    /\ rpc' = [rpc EXCEPT ![c] = "wait"]
    /\ ready' = [ready EXCEPT ![c] = FALSE]
    /\ UNCHANGED <<readerRest, ring, edge, fresh, left, read, printed, warned>>

(* guard.clear_ready(): unless the reactor has reported the buffer since. *)
ClearReady(c) ==
    /\ rpc[c] = "drain"
    /\ left[c] = 0
    /\ rpc' = [rpc EXCEPT ![c] = "wait"]
    /\ ready' = [ready EXCEPT ![c] = fresh[c]]
    /\ UNCHANGED <<readerRest, ring, edge, fresh, left, read, printed, warned>>

ReaderStep(c) ==
    Wake(c) \/ Register(c) \/ TakeGuard(c) \/ Visit(c) \/ ClearReady(c)

Next ==
    \/ \E c \in CPU, e \in Programs : Enter(c, e)
    \/ \E c \in CPU : ProbeStep(c) \/ ReaderStep(c)
    \/ MainStep
    \/ SigInt

Spec == Init /\ [][Next]_vars

(* Every task of the program and every probe that has begun goes on; that    *)
(* a program is executed, or Ctrl+C pressed, nobody promises.                *)
FairSpec ==
    /\ Spec
    /\ WF_vars(MainStep)
    /\ \A c \in CPU :
           /\ WF_vars(ProbeStep(c))
           /\ WF_vars(Wake(c)) /\ WF_vars(Register(c)) /\ WF_vars(TakeGuard(c))
           /\ WF_vars(Visit(c)) /\ WF_vars(ClearReady(c))
-----------------------------------------------------------------------------
(* Properties.                                                             *)

ProbeType == [pc : {"idle", "count", "mode", "match", "output"}, ev : Event,
              n : Nat, i : Nat, mode : 0 .. 2, late : BOOLEAN]

Record == [ev : Event, lost : Nat]

TypeOK ==
    /\ count \in 0 .. MaxFilters /\ mode \in 0 .. 2
    /\ names \in [0 .. MaxFilters - 1 -> SUBSET CommBytes]
    /\ ring \in [CPU -> Seq(Record)] /\ pending \in [CPU -> Nat]
    /\ opened \subseteq CPU /\ attached \in BOOLEAN
    /\ probe \in [CPU -> ProbeType] /\ started \in [CPU -> Nat]
    /\ edge \in [CPU -> BOOLEAN] /\ ready \in [CPU -> BOOLEAN]
    /\ fresh \in [CPU -> BOOLEAN]
    /\ rpc \in [CPU -> {"none", "start", "wait", "drain", "failed"}]
    /\ left \in [CPU -> Nat]
    /\ args \in CommandLines /\ done \in 0 .. MaxFilters /\ asked \in BOOLEAN
    /\ upc \in {"check", "attach", "count", "mode", "names", "open", "run",
                "abort", "exited"}
    /\ read \in [CPU -> SUBSET Nat] /\ printed \subseteq CPU \X Event
    /\ warned \in [CPU -> Nat] /\ sent \in [CPU -> SUBSET Nat]
    /\ overtaken \in BOOLEAN /\ judged \subseteq Comm \X BOOLEAN

(* Nothing is printed that was not asked for.  While the filter maps are     *)
(* being written the tracepoint judges by half a filter, and lets pass what  *)
(* it should not (everything, before the count is set; ignored tasks, before *)
(* their names are); what keeps it from the output is that the buffers are   *)
(* opened last.  Only a probe that was running all that time can slip        *)
(* through.                                                                  *)
OnlyWantedPrinted ==
    ~overtaken => \A e \in printed : Wanted(e[2].comm) /\ MatchesFilter(e[2])

(* What the help text asks of the filter for the name m.                      *)
Asked(m) ==
    CASE CommMode = Allow -> m \in Range(List)
      [] CommMode = Deny  -> m \notin Range(List)
      [] OTHER            -> TRUE

(* Not on the list itself, but some name on the list is the beginning of it.  *)
OnlyBegins(m) == Listed(m) /\ m \notin Range(List)

(* A probe that begins when the filter is complete, and reads the count, the  *)
(* mode and the names one by one, lets a task through exactly when the        *)
(* command line asks for it: no listed name is missed and no other one taken. *)
(* The names that only begin like a listed one are not part of this: for them *)
(* the code contradicts its help text (CommExact).                            *)
FilterExact ==
    \A j \in judged : ~OnlyBegins(j[1]) => (j[2] <=> Asked(j[1]))

LostIn(records) ==
    LET sum[i \in 0 .. Len(records)] ==
            IF i = 0 THEN 0 ELSE sum[i - 1] + records[i].lost
    IN  sum[Len(records)]

Losses(c) == pending[c] + warned[c] + LostIn(ring[c])

(* No event disappears silently: what a probe handed to its buffer has been   *)
(* read, is waiting, or is part of a loss that has been or will be reported.  *)
LossAccounted ==
    \A c \in CPU :
        Cardinality(sent[c]) = Cardinality(read[c]) + Len(ring[c]) + Losses(c)

Waiting(c, i) == \E k \in DOMAIN ring[c] : ring[c][k].ev.id = i

(* No wake-up is lost: an event that arrives while the reader is about to go  *)
(* to sleep, between its last look at the buffer and clear_ready, is read     *)
(* without the help of a later one.                                           *)
EventsRead ==
    \A c \in CPU, i \in 1 .. MaxEvents :
        Waiting(c, i) ~> \/ i \in read[c]
                        \/ rpc[c] = "failed" \/ upc \in {"abort", "exited"}

(* Ctrl+C ends the program, readers in the middle of a buffer or not.         *)
CtrlCStops == asked ~> upc = "exited"

(* exec_trace.rs:33, "Match calling process comm (exact)", and :35, "Exclude  *)
(* these comms; collect everything else": a probe that finds the filter       *)
(* complete lets through, or turns away, the tasks of the given names and no  *)
(* others.  comm_eq stops at the end of the name given, so it does so with    *)
(* every task whose name begins with one of them.                             *)
CommExact == \A j \in judged : j[2] <=> Asked(j[1])
-----------------------------------------------------------------------------
(* Why they hold.                                                           *)

(* The rule the code follows: a name stands for all that begin with it.       *)
ByPrefix == \A j \in judged : j[2] <=> Wanted(j[1])

Written(i) ==
    BuildCommFilter(List[i]) # {} /\ names[i - 1] = BuildCommFilter(List[i])

Complete ==
    /\ Len(List) <= MaxFilters /\ count = Len(List) /\ mode = CommMode
    /\ \A i \in 1 .. Len(List) : Written(i)

SomeLate == \E c \in CPU : probe[c].late

(* What the start-up has written so far.  A late probe finds everything, also *)
(* when the program has ended meanwhile.                                      *)
Prepared ==
    /\ upc \notin {"check", "exited"} => Len(List) <= MaxFilters
    /\ upc \in {"check", "attach", "count", "mode"} => done = 0
    /\ upc \in {"mode", "names"} => count = Len(List)
    /\ upc = "names" =>
           mode = CommMode /\ done <= Len(List) /\ \A i \in 1 .. done : Written(i)
    /\ FiltersSet \/ SomeLate => Complete
    /\ SomeLate => FiltersSet \/ upc = "exited"

(* What a late probe has found out by now. *)
Judged(p) ==
    p.late =>
        /\ p.pc \in {"count", "mode"} => p.i = 0
        /\ p.pc \in {"mode", "match"} => p.n = Len(List) /\ List # <<>>
        /\ p.pc = "match" =>
               /\ p.mode = CommMode /\ p.i <= p.n
               /\ \A j \in 1 .. p.i : ~IsPrefix(List[j], p.ev.comm)
        /\ p.pc = "output" => Wanted(p.ev.comm)

Judging == \A c \in CPU : Judged(probe[c])

(* What reaches an open buffer was judged by all of the filter.               *)
Buffered ==
    /\ opened # {} => FiltersSet
    /\ ~overtaken =>
           /\ \A c \in opened : probe[c].pc # "idle" => probe[c].late
           /\ \A c \in CPU : \A k \in 1 .. Len(ring[c]) : Wanted(ring[c][k].ev.comm)

(* An event is handed over once, and is in the buffer once, or was. *)
Numbered ==
    \A c \in CPU :
        /\ sent[c] \subseteq 1 .. started[c] /\ read[c] \subseteq sent[c]
        /\ probe[c].pc # "idle" =>
               /\ probe[c].ev.id = started[c] /\ started[c] > 0
               /\ started[c] \notin sent[c]
        /\ \A k \in 1 .. Len(ring[c]) : ring[c][k].ev.id \in sent[c] \ read[c]
        /\ \A k, l \in 1 .. Len(ring[c]) :
               ring[c][k].ev.id = ring[c][l].ev.id => k = l

(* The inductive invariant. *)
IInv ==
    /\ TypeOK /\ Prepared /\ Judging /\ Buffered /\ Numbered
    /\ ByPrefix /\ OnlyWantedPrinted /\ LossAccounted
=============================================================================
