# Verification of rstrace

`rstrace` is a set of Linux tracing commands. Most of them have the same
shape: an eBPF program that runs on any CPU at any moment and writes kernel
maps, and a user-space task that reads, prints and clears these maps on a timer
until Ctrl+C. Nothing but the maps synchronises the two. Two commands capture
packets with threads instead, and three share a file and a network interface.
This directory holds TLA+ models of these commands, the TLC configurations that
check them on small instances, and TLAPS proofs of what the runs check, for every
size, about all of them.

Paths below: `K/` is `src/rstrace-ebpf/src/`, `U/` is `src/rstrace/src/`.

## 1. Inventory

| Component | State it keeps | Operations | Interacts with |
|---|---|---|---|
| `dstlog` — `K/dstlog.rs`, `U/dstlog.rs` | two hash maps, `ACTIVE_BUF`, filter, configuration; `write_buf`, `drain_buf`, `entries` | two kprobes; start-up; turn, drain, print, remove; Ctrl+C | probe and task through five maps |
| `exec-trace` — `K/exec_trace.rs`, `U/exec_trace.rs` | three filter maps, a perf buffer per CPU, a scratch record per CPU | raw tracepoint; start-up; a reader task per CPU; Ctrl+C | tracepoint and readers through the buffers and tokio's readiness |
| `syscall-collect` — `K/syscall.rs`, `U/syscall_collect.rs` | one hash map, filter | raw tracepoint; tick: read, print, read again, remove | one map, no double buffering |
| `netbw-collect` — `K/netbw.rs`, `K/helpers.rs`, `U/netbw_collect.rs` | two hash maps by process, filter | two kprobes; tick: read both, ask `/proc`, print, clear both (not with `--sum`) | maps, and `/proc` |
| `ip-blacklist` — `K/ip_blacklist.rs`, `U/ip_blacklist.rs` | the list; LPM trie, drop counters, protocols, dry-run flag, STUN counts, two dry-run maps | load, add, delete, sort and dedup; sync; detach, attach; per packet: verdict, counts; per tick: drops, STUN counts, or a dry-run drain | XDP program and task through eight maps |
| `ip-blacklist-detach` — `U/ip_blacklist.rs` | — | detach in four modes, look again | the interface, a running `ip-blacklist` |
| `ip-blacklist-test` — `U/ip_blacklist_test.rs` | the list, a line buffer | ask the list about arguments or lines of stdin | the list code of `ip-blacklist` |
| `syscall-stack` — `K/syscall_stack.rs`, `U/syscall_stack.rs` | stack traces, counts by stack, filter, system call number | raw tracepoint; tick: read, symbolise, print, remove | four maps; `/proc/<pid>/maps` |
| `dns-capture` — `U/dns_capture.rs` | a map under a mutex, a stop flag | a capturing thread per interface; flush on a tick and at the end | threads and task through the mutex |
| `tls-sni-capture` — `U/tls_sni_capture.rs` | the same, never cleared | the same; the file is overwritten | the same |
| `init` — `U/init.rs`, `U/util.rs` | `/etc/.ip_blacklist` | fetch a manifest and a list, write the file | `ip-blacklist` reads that file, perhaps meanwhile |
| `compute-effective` — `U/compute_effective.rs` | — | time a workload, take the median | — |
| system call names, command line, helpers, common types | — | tables and conversions | everybody |

What is hard to get right, and hard to test, in each:

* **dstlog**: a probe reads `ACTIVE_BUF` and then works on the map it named,
  however long that takes; the increment is a plain load and store through an
  element pointer that may be freed and given to another key; the lookup and the
  insert are two calls; a failing `remove` ends the program; a SIGINT is heard
  only while a `ctrl_c()` future exists. Correct means: until something has
  raced, every counted event is printed exactly once; only what was asked for is
  counted, during start-up too; no entry is forgotten.
* **exec-trace**: the filter is written in several steps under a running
  tracepoint that reads it in several steps; records are lost when a buffer is
  full; edge-triggered readiness may be cleared although a record has just
  arrived; Ctrl+C aborts readers at their next await. Correct means: nothing
  unasked-for is printed, nothing disappears silently, no wake-up is lost.
* **syscall-collect, netbw-collect**: what is counted between the reading of an
  entry and its removal is dropped; two maps are read one after the other; a
  process number is used again; the kernel compares the name of the thread that
  sends, user space the one in `/proc`. Correct means: exact but for what was
  counted in that window, never too high; a foreign task only from before the
  filter was written.
* **ip-blacklist**: the list and the trie are two implementations of one lookup
  (duplicates, nested ranges, host bits, byte order); counters are found by
  position; dumps read and then reset. Correct means: the addresses asked for are
  dropped and no others, every drop is charged to the range the list would name,
  and the files account for every drop.
* **syscall-stack**: the number watched and the filter are set after the
  attaching; a trace id is a hash bucket that is never freed.
* **dns-capture, tls-sni-capture**: threads must stop and be joined before the
  last flush; the mutex is held while a file is written; a frame may abort the
  program; the parsers compare lengths with lengths. Correct means: when the
  program has ended after Ctrl+C its output has what the frames carried; it does
  end.
* **the interface**: nothing keeps two instances of `ip-blacklist` and
  `ip-blacklist-detach` apart, each may be killed, and kernels differ in what
  survives. Correct means: where there are bpf links one instance runs at a time,
  and filters; no program is left behind where that can be avoided; a mistake in
  the input takes nothing off.
* **ip-blacklist-test**: the loop over stdin at the end of the input and after a
  line that does not parse. Correct means: its answers are what the XDP program
  does, and no line in front of a bad one goes without. **init**: a file written in
  place under a reader and other writers. Correct means: when the writers are done
  the file is a list from end to end.

`PROJECT.json` lists each hazard at its line, with the properties that are about
it.

## 2. Modules

```
BpfHash ─┬─ DstLog ── DstLogInv ─┬─ DstLogProofs
         │    └ EpochLog (INSTANCE)  └─ MCDstLog
         └─ CounterMaps ─┬─ SyscallCollect ─┬─ MCSyscallCollect
              │          │                  └─ SyscallCollectProofs
              │          ├─ SyscallStack ───┬─ MCSyscallStack
              │          │                  └─ SyscallStackProofs
              │          ├─ NetBw ──────────┬─ MCNetBw
              │          │                  └─ NetBwProofs
              │          └────────────────────────┐
              └─ CounterMapsProofs (extended by the proofs of all four)
            Blacklist ── BlacklistTest ─┬─ XdpBlacklist ─┬─ MCXdpBlacklist
                                  Stun ─┘        │       │
                              EpochLog (INSTANCE)┘       ├─ BlacklistProofs
                                         BlacklistHost ──┘
                                                 └─ MCBlacklistHost
             DnsQuery ─┬─ Capture ─┬─ MCCapture
          ClientHello ─┘     │     └─ CaptureProofs
                             └ EpochLog (INSTANCE)
           CommFilter ── ExecTrace ─┬─ MCExecTrace
                                    └─ ExecTraceProofs
```

* **BpfHash** is the kernel's preallocated `BPF_MAP_TYPE_HASH`, as the programs
  see it: a table from keys to elements and the values of the elements. The two
  are apart because `get_ptr_mut` hands out an element, and an element that was
  removed is used again for another key. It is modelled from how the code uses
  it and marked external.
* **EpochLog** is an abstract specification: what a log that is reported in
  pieces promises. Events are counted in an epoch, a rotation closes it, a report
  prints all of the closed epoch. The promise ends with the first race. DstLog,
  the dry run of XdpBlacklist and Capture implement it; in Capture there is no
  race, because there is a mutex.
* **DstLog** is both sides of `dstlog`. A probe is `Enter`, `CheckFilter`,
  `ReadActive`, `Lookup`, then `Load` and `Store` or `Insert`; the task's `upc`
  goes through the start-up in the order of `run`, and then `Tick` (the turn),
  `IterKey`, `PrintEntries`, `Remove`. `SigInt` and `CtrlC` are tokio's signal
  handling: only a `ctrl_c()` future that exists when the signal arrives hears of
  it. `DstLogInv` has the inductive invariant; the other modules end with theirs,
  under "Why they hold".
* **CommFilter** is what a name on the command line becomes and how a task's name
  is compared with it. **ExecTrace** is `exec-trace`. The tracepoint reads the count, the mode and
  each name in its own step, and the start-up writes them in as many; `Output` is
  the perf buffer with its losses; `Wake`, `Register`, `TakeGuard`, `Visit` and
  `ClearReady` are a reader between tokio's edge-triggered readiness and
  `for_each`.
* **CounterMaps** is what the counting commands share: `add_tx_bytes` on one side,
  iteration and removal on the other, over a set `Table` of maps.
  **SyscallCollect** adds the task of `syscall-collect`; **NetBw** adds
  processes that come, go, change their names and hand on their numbers, threads
  whose names are not those in `/proc`, two maps, and `--sum`;
  **SyscallStack** adds the trace map, the number watched and the process of a
  stack.
* **Blacklist** is the list as pure operators (`ParseText`, `AddCidr`,
  `RemoveCidr`, `SortDedup`, `Merge`, `MatchingEntry`) and the trie
  (`TrieOf`, `TrieLookup`), with words in network byte order as the code builds
  them. **XdpBlacklist** is the command: one action per step of the start-up, per
  packet (`Receive` decides, `Record`, `HitLoad` and `HitStore` count), and per
  pass of a dump. Its hash maps are those of CounterMaps, its dry run is
  shown to implement EpochLog. **Stun** has the two checks for STUN messages, of
  the XDP program and of user space; **BlacklistTest** is `ip-blacklist-test` as
  operators on the same list, `Feed` being one turn of its loop over stdin.
* **Capture** is `dns-capture` and `tls-sni-capture`, which are one program but
  for the parser and for what becomes of the map. A thread is `OpenChannel`,
  `CheckStop`, then `Timeout` or `ReadFrame`, `Lock` and `Count`, unless the frame
  is one that ends the program (`FrameAborts`); the task is
  `Tick` or `CtrlC`, `Join`, `ReadMap` and `Emit`. `dns-capture` prints a line for
  each key it drains and drops the count (`Lines`). The parsers are **DnsQuery**,
  down to the labels of a name, and **ClientHello**, down to the lengths that are
  compared with each other.
* **BlacklistHost** is what `ip-blacklist`, `ip-blacklist-detach` and `init` share:
  the file, read and written in pieces, and the interface, on three kinds of
  kernel. A process goes through `ReadChunk`, `ReadEnd`, `CheckInput`, the four
  commands of `detach_xdp` (`Off`), `Look`, `AttachProgram` and `Stop`, and may be
  killed anywhere; an `init` through `Truncate` and a `WriteChunk` per piece, and may
  fail or be killed between them. What a running instance does in between is XdpBlacklist; the two
  have no name in common, so that one module, BlacklistProofs, holds the theorems
  about both halves of the command.

Definitions bear the names of the code where they can: a page of the model reads
beside the function named in `map`. Definitions named after an action with a
suffix and a comment "Mutant" are altered forms of it, with a plausible mistake;
each property is shown to fail with one of them in place.

### What is abstracted

* Addresses, names and system calls are model values, told apart by what the
  code asks about them (is it external, is it listed, does `comm_matches` accept
  it). In Blacklist an address is a number of `Width` bits and ranges are computed
  with powers of two and `%`, where the code has masks and shifts.
* Text, JSON, sorting of a report, ratios and logging are left out.
* A name of a task is a short sequence of bytes in CommFilter, and a model value
  that `comm_matches` accepts or not elsewhere. A frame is what the parsers ask
  about it: tags, protocol, whether it is as long as its headers say, and the
  message.
* How programs get on and off an interface (bpf links, netlink, aya's clean-up,
  `ip link`) is external, modelled from how the code uses it. A file is a few
  pieces. Part of a plain list may parse or not; part of an encrypted one, or a
  mixture of two, never decrypts.
* A panic ends the process at once, with all its threads, without a join and
  without a last output: `panic = "abort"`, `src/Cargo.toml:41-45`. SIGINT before a
  command listens for it kills the process.
* An access to an element of an array map is one step; so is a `bpf` system call
  on one key of a hash map. `*count += 1` is two steps.
* An iteration over a hash map returns every key that stays in place. A key whose
  element is replaced meanwhile moves to the head of its bucket and may be missed;
  if it had been returned before, its bucket may be returned again.
* Clocks do not run before 1970, writing to stdout does not fail unless an action
  says so, and probes do not nest on one CPU.

## 3. Runs

All bounds are constants. `MaxEvents`, `MaxSends`, `MaxChanges` and `MaxPackets`
bound what the environment does; the task may tick any number of times, so the
interleavings of one more rotation are always included. `CHECK_DEADLOCK FALSE`
is set throughout because every program may end, and the bounded environment may
run out of events. Symmetry of CPUs and map elements is used in safety runs only.

| Run | Properties | What it shows |
|---|---|---|
| `dstlog_race` | IInv, ExactUnlessRaced, RotationLeavesInactiveEmpty, DrainFailsOnlyWhenRaced, EpochsKept | 2 CPUs, 2 keys, 3 events, maps of 2: the log is exact, and implements EpochLog, until the first race; a failing removal needs both races at once |
| `dstlog_filter` | TypeOK, OnlyTargetRecorded, EntriesDrained | all command lines, foreign tasks, IPv6 and private destinations, a map that is full: nothing foreign is ever counted, and every entry leaves its map |
| `dstlog_ctrl_c` | CtrlCStops (violated) | a Ctrl+C during a drain is lost |
| `exec_trace` | IInv, OnlyWantedPrinted, FilterExact, LossAccounted, EventsRead, CtrlCStops | 10 command lines, 3 names, one of them a prefix of another, a buffer of 1, 3 execs: one read, one lost, one that carries the loss |
| `exec_exact` | CommExact (violated) | `--comm ls` lets `lsof` through, `--ignore ls` turns it away |
| `syscall_exact` | IInv, ReportsAccounted, ForeignOnlyFromStart | 2 CPUs, 2 system calls, 3 hits, a map of 2: reports never claim too much, and lack only what was counted while a report was cleared |
| `syscall_stack` | IInv, ShownAsCounted, ProcessHit, ForeignOnlyFromStart | two stacks in one bucket and one in another, two processes, 3 calls: a line shows the stack and a process of the calls it counts |
| `netbw` | IInv, ExactUnlessLate, SumFresh, ForeignOnlyFromStart | both protocols, per interval and with `--sum`; tasks that change their names, process numbers used again: nothing is told twice over the two maps, and only what comes into an entry while it is worked through is missed |
| `xdp` | IInv, PositionsAgree, BlockedAsAsked, DropsAsAsked, TestTellsTheTruth, DropsAccounted, StunFresh, DryRunEpochs | every file of up to 3 lines over nested, equal and repeated ranges of 2 bits, with `--add` and `--delete`; STUN messages of all lengths; 2 CPUs, packets that hit two ranges, every kind of output; every sequence of up to 3 questions to `ip-blacklist-test` |
| `capture` | IInv, NothingMissing, CaptureEpochs, EndsOnceStopped | both commands, 2 interfaces, 3 frames of 42 kinds: nothing gets lost between the threads and the last output, and the program ends |
| `dns_names` | LinesAsAsked (violated) | a name with as many labels as the parser's loop has turns is printed with a wrong type |
| `host` | HostIInv, InterfaceSound, PublishedWhole | 3 of 2 commands and 2 writers, 3 kinds of kernel, somebody else's program there or not, anybody killed anywhere |

Why the bounds are enough. The races are between two probes in one entry, or a
probe and the task: two CPUs and three events are the least with which an entry
is created, incremented and disturbed, and a map of one or two entries is full
with them. In `netbw` the command line with one map, and no name, gets three sends
(`SendsOf`), with which a key may be collected twice; the others get two. A key that is not involved stands for all others. In `xdp` two
bits have all the relations two prefixes can have (equal, nested, apart, and
equal under two texts); three lines are the least with which sorting leaves two
equal ranges apart. Its command lines are of two kinds (`PacketsUnder`,
`PacketsOf`): many lists with one packet each, whose verdict is the question, and
one list with every kind of output and two packets, whose counting is. Names of
two bytes in `exec_trace` have prefixes, equal names and one that is too long. In
`capture` the loop of the DNS parser has `MaxLabels` = 2 turns for 32 and a name
of a host `MaxSni` = 2 bytes for 253: names end before, at and behind the limit. Two
frames make an epoch each and the third comes while the program ends. In `host`
a file of two pieces can be torn and mixed, and any three participants (`Casts`)
include two that race and one that comes later.

What the exactness properties leave open they name. `ExactUnlessRaced` ends with
a turn that overtakes a probe (`straddled`) or two probes in one entry
(`collided`): both happen in the code, and events may then be lost. Under
`ReportsAccounted` what is counted between the reading of an entry and its removal
is dropped, and nothing is told twice. `ExactUnlessLate` in NetBw says which: an
entry is `late` when something was added to it between a tick and the end of the
clearing, and every other one is exact, whatever is sent meanwhile, as long as no
probes met in one entry and none added through a pointer to a removed one. What a report
reads of a process it then leaves out, because its number is free or its name in
`/proc` another, is counted as `omitted`: the report clears it all the same.
`DropsAccounted` no longer asks for every drop when one
comes between the reading and the resetting of the counters, nor when a file cannot
be written. `ForeignOnlyFromStart` names a window the code has: with `--comm` the
tracepoint of `syscall-collect` is attached before its filter is written, and what
begins meanwhile is in the first report; `syscall-stack` and `netbw-collect` have the
same window. Foreign is there what `comm_matches` turns away: names that only begin
like the one given are let through, see below. `FilterExact` is what the help texts ask,
and leaves those names out for the same reason (`OnlyBegins`).
`NothingMissing` is about a program that ends after Ctrl+C: one that is aborted by a
frame prints nothing more. It asks that a query is printed at least once and never
more often than it was read, because `dns-capture` prints a record once in an
interval. For `tls-sni-capture` it asks that a host is shown as often
as frames carry it only where every hello read is well-formed (`Strict`, which holds of
the frames of the run); of others, whose lengths contradict each other, the parser may
make a host, and then the output has more than the frames carry, and never less.
`TestTellsTheTruth` asks for an answer to every argument, and to every line of a
stream in front of the first that is no address; of the lines behind it, that what is
answered is true. `PublishedWhole` speaks of the file when every `init` that began to
write it has come to its end: it is full, but if there were several its pieces may be
those of several lists. An `ip-blacklist` that reads it earlier may take part of a
plain list; a part of an encrypted one it refuses.

### Disagreements between code and texts

1. `U/dstlog.rs:69` says "press Ctrl+C to stop"; a SIGINT that arrives during a
   drain is lost, because the `select!` creates its `ctrl_c()` future anew in
   every turn of the loop (`dstlog_ctrl_c`). The other commands with a timer loop
   are written in the same way.
2. `U/exec_trace.rs:33` says "Match calling process comm (exact)", and line 35
   "Exclude these comms; collect everything else"; `comm_eq` stops at the end of the
   name given, so `--comm ls` prints `lsof` and `--ignore ls` leaves it out
   (`exec_exact`). `FilterExact` is the part of the help texts that the code keeps.
3. `U/main.rs:36` says "Output: domain qtype timestamp". For a name of 32 labels
   or more, as every reverse lookup of an IPv6 address has, the parser's loop
   (`U/dns_capture.rs:187`) ends in front of the end of the name, and the type is
   read from what follows: the line has the first 32 labels and a type nobody
   asked for (`dns_names`).

Two more are in the models, but no run has their trace, and no property that is
checked says the opposite:

4. `U/ip_blacklist.rs:236` says "Detach any XDP program from `interface`", and
   `U/main.rs:42` the same of the command `ip-blacklist-detach`. On a kernel with bpf
   links, `ip link set .. off` cannot take off a program that a link holds (`Off`), as a
   running `ip-blacklist` does: the program stays, and the command ends with an error.
   `RunningFilters` therefore asks that a running instance filters only as long as no
   `ip-blacklist-detach` has begun.
5. `U/main.rs:80` says "Only collect traffic from tasks whose comm matches this
   name". The kernel compares the name of the thread that sends, and accepts longer
   ones; what it counts stands under the process, of which `U/netbw_collect.rs:211`
   compares the name in `/proc` when the report is made (`ShownPids`). Traffic of a
   thread named `nginxd` is reported for `--comm nginx` when its process has that name.
   `ForeignOnlyFromStart` therefore speaks of the names that the kernel's filter accepts.

Not contradicted by any text, but worth knowing: a ClientHello that is split over
several TCP segments, or sent over IPv6, is not seen; a frame that ends before its
IPv4 header says aborts `dns-capture` and `tls-sni-capture`, and what was not yet
printed or written is gone; in user space a line
of stdin that is no address makes `ip-blacklist-test --stream` mute, and the end of
stdin makes it spin.

### Fairness

`dstlog_filter` and `dstlog_ctrl_c` assume that the task and every running probe go on
(`WF` of `UserStep` and of each `ProbeStep`): an eBPF program always terminates,
the timer keeps firing and nothing between two ticks blocks. `exec_trace` assumes the same
of the probes, the reactor, each reader and the main task, which is tokio's
scheduling on its worker threads. `capture` assumes that the task and each thread
go on while the program runs; a thread without frames does, because `rx.next()`
has a timeout of 500 ms. Nobody is assumed to connect, to send a frame, to execute a
program or to press Ctrl+C. `EntriesDrained` holds because the environment's
events are bounded; with unbounded events one key could be counted again forever.

## 4. Proofs

TLAPS proves, for any number of CPUs, threads, processes, keys, names and map
elements, any width of an address, any capacity and any bound on the environment:

| Theorem | Statement |
|---|---|
| `DstLogProofs!TypeCorrect` | `Spec => []TypeOK` |
| `DstLogProofs!FilterSafety` | `Spec => []OnlyTargetRecorded` |
| `DstLogProofs!Invariant` | `Spec => []IInv` |
| `DstLogProofs!Exactness` | `Spec => []ExactUnlessRaced` |
| `DstLogProofs!CleanRotation` | `Spec => []RotationLeavesInactiveEmpty` |
| `DstLogProofs!DrainSafety` | `Spec => []DrainFailsOnlyWhenRaced` |
| `DstLogProofs!Refinement` | `Spec => EpochsKept`: DstLog implements EpochLog |
| `ExecTraceProofs!CommEqIsPrefix` | `comm_eq` is `IsPrefix`, for names of any length |
| `ExecTraceProofs!Invariant` | `Spec => []IInv` |
| `ExecTraceProofs!FilterSafety` | `Spec => []FilterExact` |
| `ExecTraceProofs!OutputSafety` | `Spec => []OnlyWantedPrinted` |
| `ExecTraceProofs!EventsAccounted` | `Spec => []LossAccounted` |
| `CounterMapsProofs!ProbeKeeps`, `RemoveKeeps` | what a step of a probe, and a removal, do to the maps and to `CountersInv` |
| `SyscallCollectProofs!Invariant` | `Spec => []IInv` |
| `SyscallCollectProofs!ReportSafety` | `Spec => []ReportsAccounted` |
| `SyscallCollectProofs!FilterSafety` | `Spec => []ForeignOnlyFromStart` |
| `NetBwProofs!Invariant` | `Spec => []IInv` |
| `NetBwProofs!ReportSafety` | `Spec => []ExactUnlessLate` |
| `NetBwProofs!SumSafety` | `Spec => []SumFresh` |
| `NetBwProofs!FilterSafety` | `Spec => []ForeignOnlyFromStart` |
| `SyscallStackProofs!Invariant` | `Spec => []IInv` |
| `SyscallStackProofs!StackSafety` | `Spec => []ShownAsCounted` |
| `SyscallStackProofs!ProcessSafety` | `Spec => []ProcessHit` |
| `SyscallStackProofs!FilterSafety` | `Spec => []ForeignOnlyFromStart` |
| `CaptureProofs!HostFound` | `ParseTlsSni` finds the host of every well-formed hello |
| `CaptureProofs!QueryRead` | `ParseDnsQuery` returns the question, for names shorter than the loop |
| `CaptureProofs!Invariant` | `Spec => []IInv` |
| `CaptureProofs!NothingLost` | `Spec => []NothingMissing` |
| `CaptureProofs!Refinement` | `Spec => CaptureEpochs`: Capture implements EpochLog |
| `BlacklistProofs!Invariant` | `Spec => []IInv`, of XdpBlacklist |
| `BlacklistProofs!PositionSafety` | `Spec => []PositionsAgree` |
| `BlacklistProofs!BlockSafety` | `Spec => []BlockedAsAsked` |
| `BlacklistProofs!DropSafety` | `Spec => []DropsAsAsked` |
| `BlacklistProofs!TestSafety` | `Spec => []TestTellsTheTruth` |
| `BlacklistProofs!AccountSafety` | `Spec => []DropsAccounted` |
| `BlacklistProofs!StunSafety` | `Spec => []StunFresh` |
| `BlacklistProofs!DryRunRefinement` | `Spec => DryRunEpochs`: the dry run implements EpochLog |
| `BlacklistProofs!HostInvariant` | `HostSpec => []HostIInv`, of BlacklistHost |
| `BlacklistProofs!InterfaceSafety` | `HostSpec => []InterfaceSound` |
| `BlacklistProofs!FileSafety` | `HostSpec => []PublishedWhole` |

Assumptions: those the modules state about their constants (`DstLogAssumption`,
`CaptureAssumption` and so on), which TLC evaluates in every run. They say that
the parts are apart (a marker is no name, nobody is no process), that sets that
are counted are finite (`Iface`, `Slot`), that bounds are numbers, and that what is
enumerated has its type.

### The arguments

Each inductive invariant is the conjunction `IInv` of its module (`HostIInv` in
BlacklistHost), is checked by TLC in
the run of that module, and is proved with one lemma per action or group of actions.

**DstLog.** `OnlyTargetRecorded` is not inductive: what a probe will count was
judged some steps before. `FilterInv` says of each step of a probe what has been
established: once `DSTLOG_CONFIG` is set a probe only runs for a protocol asked
for, and past `CheckFilter` its task and destination are accepted.

`ExactUnlessRaced` needs to know why a store hits the entry it is meant for.
`IInv` says so in parts: a probe that no turn has overtaken works on the active
map (`OnActive`), the task drains the other one (`Turned`); two probes that have
not collided are in different entries (`Apart`), so an entry found absent is
still absent at the insert (`StillAbsent`), and an element pointer is still its
key's, with the register current (`StillValid`); no element has two owners
(`OneOwner`); the drain has read all of its map (`NothingMissed`) with current
counts (`Current`) and can remove what it read (`Removable`). The refinement follows:
a store or insert is `Count`, the turn is `Rotate` because the other map is empty,
printing is `Report` because it covers the whole closed epoch, everything else
stutters.

**CounterMaps.** The same parts without the second map are `CountersInv`. Its
lemmas say of every operation that it keeps `CountersInv`, what it adds to
`recorded`, and that every other entry keeps its amount. The four commands on top
cite them and never look into a probe again.

**SyscallCollect.** A report is right if the map is read twice and nothing is lost
in between: `ReadAhead` (what was read of a key is at most what the map still has,
and the key is among those that will be removed) gives that nothing is told
twice, `ReadWhole` (while nothing comes in, every present key has been read or will
be) that nothing is left out.

**NetBw.** The same over two maps, of which the task works through the first
before the second (`Passed`), so both parts say which map the iteration is in; and
entry by entry, so that `ReadWhole` holds of each entry that nothing came into, whatever
is added to others. With `--sum` nothing is ever removed, so an amount is all that was
recorded (`SumRead`). `Filtered` says of a probe that began when the filter was set
that it has been through it once it is at the map: kprobes that began earlier may still
run, and are the ones `ForeignOnlyFromStart` leaves out.

**SyscallStack.** `hit`, the program's own progress, and `probe`, its work on the
map, go together (`Stages`). `Filtered` carries what the filter and the comparison of
the number have established to the count. `Traced` says that the stack a call counts
is in its bucket, or is the one stack the report has lifted out of it, as long as no
stack was exchanged. `PidDue` bridges the two stores of a sample: the pid goes to the
element that is its stack's, and the call is among the makers of that entry. This is
where the two stores can go wrong: after a collision or a removal meanwhile, and the
theorem names both.

**ExecTrace.** A late probe, one that began under the whole filter, reads count,
mode and names in as many steps. `Prepared` says what is written at each point of the
start-up, and `Judged` what the probe knows after each step: in particular that the
names it has passed do not match. That gives the code's rule for each judgement
(`ByPrefix`), by `CommEqIsPrefix`; `FilterExact`, which is the rule of the help texts,
follows for the names on which the two agree. `Numbered` makes of the events a set that only
grows: an event is in its buffer once, and never after it was read. Then
`LossAccounted` is a statement about cardinalities.

**Capture.** `Accounted(r)` counts a record in all the places it can be: with the
threads, in the map, read by the task, in the output. Counting, reading and writing move
it from one to the next because of who holds the mutex (`LockHeld`), and printing makes
one line of several; `FramesAccounted` says that this keeps what `NothingMissing` asks, as
long as the program has not been aborted. `ReadAhead` says
that at the end all places but the output are empty, once all threads have been
joined. For the refinement an epoch of `dns-capture` is what one drain makes lines of, so
that the first of several counts of a record is `Count` and the others stutter. The
parsers are functions of recursively defined sums of lengths.

**Blacklist, BlacklistTest.** Sorting, `dedup_by_key`, merging and removing are
described by what they do to the set of ranges of a list (`Ranges`): whatever the
order and whatever duplicates survive, `SortDedupKeeps`, `MergeRanges`,
`AddRanges` and `RemoveRanges` say that no range is lost, invented or left behind.
`TrieHolds` says what the trie holds: at each key the last position that was written
to it. `LeadingBitsEqual` is the arithmetic: two words have the same leading bits if
and only if the numbers agree after the shift. From both follows that the longest
prefix found in the trie is the entry `matching_entry` takes, the last of those with
the longest prefix (`LookupIsMatch`), for every list. What `ip-blacklist-test` prints is
compared with the truth about a set of addresses, line by line: up to the first that is
no address each line adds its answer (`FeedAnswers`), from there on the buffer stays bad
(`StaysStuck`), and the truth about more lines begins with that about fewer
(`TruthGrows`).

**XdpBlacklist.** `Listing` follows the texts: after each line, and each `--add` and
`--delete`, the list has the ranges they ask for (`ListedAfter`); `Enforced` carries that
to the maps and says that they are complete while the program is attached. `Wanted`, which
is about texts, is then a statement about ranges (`Covers`), and a packet is judged by
what was asked. `Jobs` ties what a packet has still to count to what a probe does, so
that `CounterMapsProofs` applies to the maps of the command.
`HitsInv` is about one position of BLACKLIST_HITS: what the array holds, what
`dump_hits` has read of it and what a CPU has loaded and not yet stored are each at most
the drops that no file has (`Open`), as long as no counter was revived, and equal to
them as long as nothing raced; every access of the two passes moves one of these
numbers. `StunInv` says of the iteration that an address it has not returned has
nothing read, and one it has passed was counted before, so what is read lies between the
tick and now. `EpochInv` says that packets write the one map and the task drains the
other until a packet straddles a turn; the refinement then goes as in DstLog: a store
or an insert is `Count`, the turn is `Rotate`, printing is `Report`, everything else
stutters, and after the first race any step is allowed.

**BlacklistHost.** `HeldByLink` (a running instance on a kernel with links has the
interface, and by one) is what a kill, a second instance or a detach could
disturb; with the number of commands `detach_xdp` has left, it is inductive. For the
file, `PiecesToCome` says that as long as nobody was torn away in the middle, each piece
that is missing, behind the end or in a hole, is still some writer's task: whoever
truncates has all of them before him. When all have come to their end nothing is left to do, so nothing is missing.

Induction over data needs no operator as a parameter where the claim is about the
members of a set: `SetInduction` (a set that has 0 and successors has all of `Nat`)
follows from the well-foundedness of `<`, and what the recursive sums of the parser,
and of the losses in a buffer, amount to follows from it (`SumsExist`,
`SumsGrow`, `SumsUnique`, `SumsShift`). A recursive function, as `TwoTo`, `SortByStart` or
`TrieOf`, is no more than a CHOOSE until some function is shown to satisfy its
definition. `RunExists` shows it once, for whatever starts in a set and stays in it with
each step; `RunStays` gives what every step keeps. Each function of Blacklist is such a
run.

### Only model-checked

* Liveness, which TLAPS does not do under fairness: `EntriesDrained`, `EventsRead`,
  `CtrlCStops`, `EndsOnceStopped`.
* Of the parsers, what they make of messages that are not well-formed.

## 5. Not modelled, and why

* HTTP, JSON, ChaCha20-Poly1305, symbolisation, the layout of kernel structures
  and of what is printed: conversions of data in libraries or without state.
* TCP reassembly and DNS over TCP: the code has none.
* `compute-effective`: wall-clock time.
* The table of system call names: the reference is the kernel's.
* A user-space process that reads the same maps with another tool.

## 6. Plan

Done: 1. BpfHash, EpochLog, DstLog and its proofs; 2. CommFilter, ExecTrace;
3. CounterMaps, SyscallCollect, NetBw, SyscallStack; 4. Blacklist, BlacklistTest,
Stun, XdpBlacklist; 5. DnsQuery, ClientHello, Capture; 6. BlacklistHost; 7. the proofs of
section 4, which state every invariant and every safety refinement that a run checks.

Worth doing next: what the parsers make of messages that are not well-formed, as
theorems; and `format_bytes` and `format_bandwidth` of `util.rs`, conversions that no
property is about.
