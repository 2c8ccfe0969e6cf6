------------------------- MODULE SyscallStackProofs -------------------------
(***************************************************************************)
(* What TLAPS proves of SyscallStack, for any number of CPUs, stacks,      *)
(* buckets and calls: whose stack and whose process a line shows, and that *)
(* nothing that was not asked for is counted after the start-up.           *)
(***************************************************************************)
EXTENDS SyscallStack, CounterMapsProofs

(* Map is the table; what a probe and an iteration start with is in it.     *)
LEMMA MapIsTable == Map \in Table /\ IdleProbe.map = Map /\ NoIteration.map = Map
  BY CounterMapsAssumption DEF Map, IdleProbe, NoIteration

(* A CPU that is in no call.                                                *)
LEMMA IdleHitType ==
  /\ IdleHit \in HitType /\ IdleHit.stage = "idle" /\ IdleHit.ready = FALSE
  BY SyscallStackAssumption DEF IdleHit, HitType

(* A CPU's call goes on and leaves those of the others alone.               *)
LEMMA HitChange ==
  ASSUME TypeOK, NEW c \in CPU, NEW h \in HitType, hit' = [hit EXCEPT ![c] = h]
  PROVE  /\ hit' \in [CPU -> HitType] /\ hit'[c] = h
         /\ \A d \in CPU \ {c} : hit'[d] = hit[d]
  <1>1. hit \in [CPU -> HitType]
    BY DEF TypeOK
  <1> HIDE DEF HitType
  <1> QED
    BY <1>1

(* Which stack is in a bucket, or about to return to it.                    *)
LEMMA WhichStack ==
  ASSUME NEW k \in Key
  PROVE  /\ lifted = {} => StackOf(k) = traces[k]
         /\ \A j \in Key, s \in Stack : lifted = {<<j, s>>} =>
                StackOf(k) = IF j = k THEN s ELSE traces[k]
  <1>1. ASSUME lifted = {} PROVE StackOf(k) = traces[k]
    BY <1>1 DEF StackOf
  <1>2. ASSUME NEW j \in Key, NEW s \in Stack, lifted = {<<j, s>>}
        PROVE  StackOf(k) = IF j = k THEN s ELSE traces[k]
    <2>1. \A t \in Stack : <<k, t>> \in lifted <=> j = k /\ t = s
      BY <1>2
    <2> QED
      BY <2>1 DEF StackOf
  <1> QED
    BY <1>1, <1>2

(* The same after a step. *)
LEMMA WhichStackNext ==
  ASSUME NEW k \in Key
  PROVE  /\ lifted' = {} => StackOf(k)' = traces'[k]
         /\ \A j \in Key, s \in Stack : lifted' = {<<j, s>>} =>
                StackOf(k)' = IF j = k THEN s ELSE traces'[k]
  <1>1. ASSUME lifted' = {} PROVE StackOf(k)' = traces'[k]
    BY <1>1 DEF StackOf
  <1>2. ASSUME NEW j \in Key, NEW s \in Stack, lifted' = {<<j, s>>}
        PROVE  StackOf(k)' = IF j = k THEN s ELSE traces'[k]
    <2>1. \A t \in Stack : <<k, t>> \in lifted' <=> j = k /\ t = s
      BY <1>2
    <2> QED
      BY <2>1 DEF StackOf
  <1> QED
    BY <1>1, <1>2

(* The types of what the steps below read.                                  *)
LEMMA Facts ==
  ASSUME IInv
  PROVE  /\ it.map = Map /\ tables[Map] \in MapType(Key)
         /\ \A c \in CPU : /\ hit[c] \in HitType /\ hit[c].call \in Call
                           /\ hit[c].call.stack \in Stack /\ hit[c].call.pid \in Pid
                           /\ IdOf[hit[c].call.stack] \in Key
         /\ traces \in [Key -> Stack \cup {NoStack}] /\ NoStack \notin Stack
         /\ makers \in [Key -> SUBSET (Stack \X Pid)]
         /\ pids \in [Slot -> SUBSET Pid]
  <1>1. \A c \in CPU : hit[c] \in HitType
    BY DEF IInv, TypeOK
  <1>2. \A c \in CPU : hit[c].call \in Call
    BY <1>1 DEF HitType
  <1>3. \A c \in CPU : hit[c].call.stack \in Stack /\ hit[c].call.pid \in Pid
    BY <1>2 DEF Call
  <1> QED
    BY <1>1, <1>2, <1>3, MapIsTable, SyscallStackAssumption
       DEF IInv, TypeOK, CountersInv, CountersType, Stages

(* The invariant holds at the start. *)
LEMMA InitInv == Init => IInv
  <1> SUFFICES ASSUME Init PROVE IInv
    OBVIOUS
  <1>1. CountersInv
    BY StartsInOrder DEF Init
  <1>2. \A c \in CPU : hit[c] = IdleHit /\ probe[c] = IdleProbe
    BY DEF Init, CountersInit
  <1>3. TypeOK
    BY <1>1, IdleHitType, SyscallStackAssumption DEF Init, Nothing, TypeOK, CountersInv
  <1>4. Stages
    BY <1>2, MapIsTable, IdleType, IdleHitType DEF Init, CountersInit, Stages, InStep
  <1>5. Filtered
    BY <1>2, IdleHitType DEF Init, Filtered, Screened, Ready, Busy
  <1>6. Traced /\ PidDue
    BY <1>2, IdleHitType DEF Init, Traced, InPlace, PidDue
  <1>7. ~Present(tables[Map], CHOOSE k \in Key : TRUE) /\ \A k \in Key : ~Present(tables[Map], k)
    BY MapIsTable, CounterMapsAssumption DEF Init, CountersInit, EmptyMap, Present
  <1>8. ShownAsCounted /\ ProcessHit /\ ForeignOnlyFromStart
    BY <1>7 DEF Init, ShownAsCounted, ProcessHit, ForeignOnlyFromStart
  <1> QED
    BY <1>1, <1>3, <1>4, <1>5, <1>6, <1>8 DEF IInv

-----------------------------------------------------------------------------
(* The tracepoint.                                                           *)

(* A step of one CPU that writes no map, with what has to fit where it goes. *)
LEMMA Moves ==
  ASSUME IInv, NEW c \in CPU, NEW h \in HitType, hit' = [hit EXCEPT ![c] = h],
         CountersInv', \A d \in CPU \ {c} : probe'[d] = probe[d],
         UNCHANGED <<tables, filterOn, orphaned>>, it'.map = it.map,
         collided => collided', events' \in Nat,
         UNCHANGED <<target, traces, pids, taskVars, histVars>>,
         h.stage # "pid", InStep(h, probe'[c]), Screened(h), ~swapped => InPlace(h)
  PROVE  IInv'
  <1>0. /\ hit' \in [CPU -> HitType] /\ hit'[c] = h
        /\ \A d \in CPU \ {c} : hit'[d] = hit[d]
    BY HitChange DEF IInv
  <1>1. TypeOK'
    BY <1>0 DEF IInv, TypeOK, CountersInv, taskVars, histVars
  <1>2. Stages'
    BY <1>0 DEF IInv, Stages, InStep
  <1>3. Filtered'
    BY <1>0 DEF IInv, Filtered, Screened, Ready, Busy, taskVars
  <1>4. \A k \in Key : StackOf(k)' = StackOf(k)
    BY DEF StackOf, taskVars
  <1>5. Traced' /\ ShownAsCounted'
    <2>1. UNCHANGED <<traces, lifted, swapped, makers>>
      BY DEF taskVars, histVars
    <2>2. ASSUME ~swapped, NEW d \in CPU PROVE InPlace(hit[d])'
      <3>1. \A g \in HitType : InPlace(g) => InPlace(g)'
        <4>1. \A g \in HitType : IdOf[g.call.stack] \in Key
          BY SyscallStackAssumption DEF HitType, Call
        <4> QED
          BY <1>4, <4>1 DEF InPlace
      <3>2. hit'[d] \in HitType /\ InPlace(hit'[d])
        BY <1>0, <2>2 DEF IInv, Traced
      <3> QED
        BY <3>1, <3>2 DEF InPlace
    <2>3. Traced'
      BY <2>1, <2>2 DEF IInv, Traced
    <2>4. ShownAsCounted'
      BY <1>4, <2>1 DEF IInv, ShownAsCounted
    <2> QED
      BY <2>3, <2>4
  <1>6. PidDue'
    BY <1>0 DEF IInv, PidDue, histVars
  <1>7. ProcessHit' /\ ForeignOnlyFromStart'
    BY DEF IInv, ProcessHit, ForeignOnlyFromStart, Present, histVars
  <1> QED
    BY <1>1, <1>2, <1>3, <1>5, <1>6, <1>7 DEF IInv

(* A call begins; what it finds of the start-up is remembered. *)
LEMMA EnterInv ==
  ASSUME IInv, NEW c \in CPU, NEW x \in Calls, Enter(c, x)
  PROVE  IInv'
  <1> DEFINE h == [IdleHit EXCEPT !.stage = "filter", !.call = x, !.ready = Ready]
             p == [IdleProbe EXCEPT !.pc = "filter", !.comm = x.comm, !.map = Map,
                                    !.key = IdOf[x.stack], !.add = 1]
  <1>0. /\ x \in Call /\ x.comm \in Comm /\ IdOf[x.stack] \in Key
        /\ EnterProbe(c, x.comm, Map, IdOf[x.stack], 1)
        /\ hit' = [hit EXCEPT ![c] = h] /\ events' \in Nat
        /\ UNCHANGED <<target, traces, pids, taskVars, histVars>>
        /\ UNCHANGED <<tables, filterOn, it, orphaned, collided>>
    BY SyscallStackAssumption DEF Enter, EnterProbe, Call, IInv, TypeOK
  <1>1. CountersInv'
    BY <1>0, MapIsTable, EnterKeeps DEF IInv
  <1>2. /\ h \in HitType /\ h.stage = "filter" /\ h.call = x /\ (h.ready <=> Ready)
    <2>1. Ready \in BOOLEAN
      BY DEF Ready, Busy
    <2> QED
      BY <1>0, <2>1, IdleHitType DEF HitType
  <1>3. /\ p \in ProbeType /\ p.pc = "filter" /\ p.map = Map /\ p.add = 1
        /\ p.comm = x.comm /\ p.key = IdOf[x.stack] /\ Becomes(c, p)
    BY <1>0, MapIsTable, IdleType DEF EnterProbe, ProbeType
  <1> HIDE DEF h, p
  <1>4. probe'[c] = p /\ \A d \in CPU \ {c} : probe'[d] = probe[d]
    BY <1>3, ProbeChange DEF IInv, CountersInv
  <1>5. InStep(h, probe'[c])
    BY <1>2, <1>3, <1>4 DEF InStep
  <1>6. Screened(h) /\ InPlace(h)
    BY <1>2 DEF IInv, Filtered, Screened, InPlace, Ready, Busy
  <1> QED
    BY <1>0, <1>1, <1>2, <1>4, <1>5, <1>6, Moves

(* Where the filter lets a task pass, it is the one asked for. *)
LEMMA FilterInv ==
  ASSUME IInv, NEW c \in CPU, Filter(c)
  PROVE  IInv'
  <1> DEFINE h == IF probe'[c].pc = "idle" THEN IdleHit
                  ELSE [hit[c] EXCEPT !.stage = "target"]
  <1>0. /\ CheckFilter(c) /\ probe[c].pc = "filter" /\ hit' = [hit EXCEPT ![c] = h]
        /\ UNCHANGED <<target, traces, pids, taskVars, events, histVars>>
        /\ UNCHANGED <<tables, filterOn, it, orphaned, collided>>
    BY DEF Filter, CheckFilter
  <1>1. /\ CountersInv' /\ \A d \in CPU \ {c} : probe'[d] = probe[d]
        /\ probe'[c] = IdleProbe \/ Follows(probe[c], probe'[c])
    BY <1>0, ProbeKeeps, ProbeGoesOn DEF IInv, ProbeStep
  <1>2. /\ hit[c].stage = "filter" /\ InStep(hit[c], probe[c]) /\ Screened(hit[c])
        /\ hit[c] \in HitType
    BY <1>0 DEF IInv, TypeOK, Stages, InStep, Filtered, HitType
  <1>3. CASE probe'[c].pc = "idle"
    <2>1. probe'[c] = IdleProbe /\ h = IdleHit
      BY <1>1, <1>3 DEF Follows
    <2>2. InStep(h, probe'[c]) /\ Screened(h) /\ InPlace(h)
      BY <2>1, IdleHitType, IdleType, MapIsTable DEF InStep, Screened, InPlace
    <2> QED
      BY <1>0, <1>1, <2>1, <2>2, IdleHitType, Moves DEF IInv, TypeOK
  <1>4. CASE probe'[c].pc # "idle"
    <2>1. /\ h \in HitType /\ h.stage = "target" /\ h.call = hit[c].call
          /\ h.ready = hit[c].ready
      BY <1>2, <1>4 DEF HitType
    <2>2. Follows(probe[c], probe'[c]) /\ probe'[c].pc = "lookup"
      <3>1. Follows(probe[c], probe'[c])
        BY <1>1, <1>4, IdleType
      <3>2. Becomes(c, [probe[c] EXCEPT !.pc = "lookup"])
        <4>1. ~Becomes(c, IdleProbe)
          BY <1>4, IdleType DEF Becomes, IInv, CountersInv, CountersType
        <4> QED
          BY <1>0, <4>1 DEF CheckFilter
      <3>3. probe[c] \in ProbeType
        BY DEF IInv, CountersInv, CountersType
      <3>4. [probe[c] EXCEPT !.pc = "lookup"].pc = "lookup"
        BY <3>3 DEF ProbeType
      <3>5. probe'[c] = [probe[c] EXCEPT !.pc = "lookup"]
        <4> HIDE DEF ProbeType
        <4> QED
          BY <3>2 DEF Becomes, IInv, CountersInv, CountersType
      <3> QED
        BY <3>1, <3>4, <3>5
    <2> HIDE DEF h
    <2>3. InStep(h, probe'[c])
      BY <1>0, <1>2, <2>1, <2>2 DEF InStep, Follows
    <2>4. Screened(h) /\ InPlace(h)
      BY <1>0, <1>2, <2>1, <2>2 DEF Screened, InPlace, InStep, Follows
    <2> QED
      BY <1>0, <1>1, <2>1, <2>3, <2>4, Moves DEF IInv, TypeOK
  <1> QED
    BY <1>3, <1>4

(* A call that is not counted. *)
LEMMA LeavesInv ==
  ASSUME IInv, NEW c \in CPU, Leaves(c), UNCHANGED <<taskVars, histVars, events>>,
         UNCHANGED <<tables, filterOn, it, iterating, recorded, orphaned, collided>>,
         UNCHANGED <<target, traces, pids>>
  PROVE  IInv'
  <1>1. hit' = [hit EXCEPT ![c] = IdleHit] /\ Becomes(c, IdleProbe)
    BY DEF Leaves
  <1>2. /\ probe' \in [CPU -> ProbeType] /\ probe'[c] = IdleProbe
        /\ \A d \in CPU \ {c} : probe'[d] = probe[d]
    BY <1>1, IdleType, ProbeChange DEF IInv, CountersInv
  <1>3. CountersInv'
    BY <1>1, IdleType, ProbeMoves DEF IInv, CountersInv, CountersType, Works
  <1>4. InStep(IdleHit, probe'[c]) /\ Screened(IdleHit) /\ InPlace(IdleHit)
    BY <1>2, IdleHitType, IdleType, MapIsTable DEF InStep, Screened, InPlace
  <1> QED
    BY <1>1, <1>2, <1>3, <1>4, IdleHitType, Moves DEF IInv, TypeOK

(* Past the comparison the number is the one watched, and after the start-up  *)
(* that is the number asked for.                                              *)
LEMMA CheckTargetInv ==
  ASSUME IInv, NEW c \in CPU, CheckTarget(c)
  PROVE  IInv'
  <1>0. /\ hit[c].stage = "target" /\ InStep(hit[c], probe[c]) /\ Screened(hit[c])
        /\ hit[c] \in HitType /\ events \in Nat
        /\ UNCHANGED <<target, traces, pids, taskVars, events, histVars>>
        /\ UNCHANGED <<tables, filterOn, it, iterating, recorded, orphaned, collided>>
    BY DEF CheckTarget, At, IInv, TypeOK, Stages, Filtered
  <1>1. CASE hit[c].call.sys = target
    <2> DEFINE h == [hit[c] EXCEPT !.stage = "trace"]
    <2>1. hit' = [hit EXCEPT ![c] = h] /\ UNCHANGED probe
      BY <1>1 DEF CheckTarget, Goes, IInv, TypeOK
    <2>2. /\ h \in HitType /\ h.stage = "trace" /\ h.call = hit[c].call
          /\ h.ready = hit[c].ready
      BY <1>0 DEF HitType
    <2> HIDE DEF h
    <2>3. CountersInv'
      BY <1>0, <2>1, CountersStay DEF IInv, TypeOK, CountersType
    <2>4. InStep(h, probe'[c]) /\ Screened(h) /\ InPlace(h)
      BY <1>0, <1>1, <2>1, <2>2 DEF InStep, Screened, InPlace
    <2> QED
      BY <1>0, <2>1, <2>2, <2>3, <2>4, Moves
  <1>2. CASE hit[c].call.sys # target
    BY <1>0, <1>2, LeavesInv DEF CheckTarget
  <1> QED
    BY <1>1, <1>2

(* The stack is in its bucket before it is counted, or has yet to be put there. *)
LEMMA GetStackInv ==
  ASSUME IInv, NEW c \in CPU, GetStack(c)
  PROVE  IInv'
  <1> DEFINE s == hit[c].call.stack
             there == traces[IdOf[s]]
  <1>0. /\ hit[c].stage = "trace" /\ InStep(hit[c], probe[c]) /\ Screened(hit[c])
        /\ hit[c] \in HitType /\ events \in Nat
        /\ UNCHANGED <<target, traces, pids, taskVars, events, histVars>>
        /\ UNCHANGED <<tables, filterOn, it, iterating, recorded, orphaned, collided>>
    BY DEF GetStack, At, IInv, TypeOK, Stages, Filtered
  <1>1. ASSUME NEW to \in {"link", "count"}, Goes(c, to), UNCHANGED probe,
               to = "count" => there = s
        PROVE  IInv'
    <2> DEFINE h == [hit[c] EXCEPT !.stage = to]
    <2>1. hit' = [hit EXCEPT ![c] = h]
      BY <1>1 DEF Goes, IInv, TypeOK
    <2>2. /\ h \in HitType /\ h.stage = to /\ h.call = hit[c].call
          /\ h.ready = hit[c].ready
      BY <1>0 DEF HitType
    <2> HIDE DEF h
    <2>3. CountersInv'
      BY <1>0, <1>1, CountersStay DEF IInv, TypeOK, CountersType
    <2>4. InStep(h, probe'[c]) /\ Screened(h)
      BY <1>0, <1>1, <2>2 DEF InStep, Screened
    <2>5. ~swapped => InPlace(h)
      <3> SUFFICES ASSUME ~swapped, to = "count" PROVE StackOf(IdOf[s]) = s
        BY <2>2 DEF InPlace
      <3>1. s \in Stack /\ IdOf[s] \in Key /\ s # NoStack /\ there = s
        BY <1>1, Facts
      <3>2. CASE lifted = {}
        BY <3>1, <3>2, WhichStack
      <3>3. ASSUME NEW k \in Key, NEW o \in Stack, lifted = {<<k, o>>}
            PROVE  StackOf(IdOf[s]) = s
        <4>1. traces[k] \in {NoStack, o}
          BY <3>3 DEF IInv, Traced
        <4>2. StackOf(IdOf[s]) = IF k = IdOf[s] THEN o ELSE traces[IdOf[s]]
          BY <3>1, <3>3, WhichStack
        <4> QED
          BY <3>1, <4>1, <4>2
      <3> QED
        BY <3>2, <3>3 DEF IInv, Traced
    <2> QED
      BY <1>0, <1>1, <2>1, <2>2, <2>3, <2>4, <2>5, Moves
  <1>2. CASE there = s
    BY <1>1, <1>2 DEF GetStack
  <1>3. CASE there # s /\ there = NoStack
    BY <1>1, <1>3 DEF GetStack
  <1>4. CASE there # s /\ there # NoStack
    BY <1>0, <1>4, LeavesInv DEF GetStack
  <1> QED
    BY <1>2, <1>3, <1>4

(* Whoever is replaced has been counted only if a lookup was going on, or two *)
(* stacks came for one bucket at once: then swapped says so.                  *)
LEMMA LinkStackInv ==
  ASSUME IInv, NEW c \in CPU, LinkStack(c)
  PROVE  IInv'
  <1> DEFINE h == [hit[c] EXCEPT !.stage = "count"]
  <1> SUFFICES ASSUME NEW s \in Stack, NEW k \in Key, s = hit[c].call.stack, k = IdOf[s]
               PROVE  IInv'
    BY Facts
  <1>0. /\ hit[c].stage = "link" /\ InStep(hit[c], probe[c]) /\ Screened(hit[c])
        /\ hit[c] \in HitType /\ s # NoStack
        /\ traces' = [traces EXCEPT ![k] = s] /\ hit' = [hit EXCEPT ![c] = h]
        /\ UNCHANGED <<counters, target, pids, taskVars, events, makers, stale, foreign>>
    BY Facts DEF LinkStack, At, Goes, IInv, TypeOK, Stages, Filtered
  <1>1. /\ swapped' \in BOOLEAN /\ (swapped => swapped')
        /\ ~swapped' => traces[k] \in {s, NoStack}
        /\ ~swapped' => \A o \in Stack : <<k, o>> \in lifted => o = s
    BY DEF LinkStack, IInv, TypeOK
  <1>2. /\ h \in HitType /\ h.stage = "count" /\ h.call = hit[c].call
        /\ h.ready = hit[c].ready
    BY <1>0 DEF HitType
  <1> HIDE DEF h
  <1>3. /\ hit' \in [CPU -> HitType] /\ hit'[c] = h
        /\ \A d \in CPU \ {c} : hit'[d] = hit[d]
    BY <1>0, <1>2, HitChange DEF IInv
  <1>4. CountersInv'
    BY <1>0, CountersStay DEF IInv, TypeOK, CountersType, counters
  <1>5. traces' \in [Key -> Stack \cup {NoStack}] /\ traces'[k] = s
        /\ \A j \in Key \ {k} : traces'[j] = traces[j]
    BY <1>0, Facts
  <1>6. TypeOK'
    <2>1. CountersType'
      BY <1>4 DEF CountersInv
    <2> QED
      BY <1>0, <1>1, <1>3, <1>5, <2>1 DEF IInv, TypeOK, taskVars
  <1>7. Stages'
    BY <1>0, <1>2, <1>3 DEF IInv, Stages, InStep, counters
  <1>8. Filtered'
    BY <1>0, <1>2, <1>3 DEF IInv, Filtered, Screened, Ready, Busy, counters, taskVars
  <1>9. \/ lifted = {} /\ lifted' = {}
        \/ \E j \in Key, o \in Stack : lifted = {<<j, o>>} /\ lifted' = {<<j, o>>}
    BY <1>0 DEF IInv, Traced, taskVars
  <1>10. ~swapped' => StackOf(k)' = s
    <2>1. CASE lifted' = {}
      BY <1>5, <2>1, WhichStackNext
    <2>2. ASSUME NEW j \in Key, NEW o \in Stack, lifted = {<<j, o>>}, lifted' = {<<j, o>>},
                 ~swapped'
          PROVE  StackOf(k)' = s
      <3>1. StackOf(k)' = IF j = k THEN o ELSE traces'[k]
        BY <2>2, WhichStackNext
      <3> QED
        BY <1>1, <1>5, <2>2, <3>1
    <2> QED
      BY <1>9, <2>1, <2>2
  <1>11. ASSUME ~swapped', NEW j \in Key, StackOf(j) \in Stack
         PROVE  StackOf(j)' = StackOf(j)
    <2>1. CASE lifted = {} /\ lifted' = {}
      <3>1. StackOf(j) = traces[j] /\ StackOf(j)' = traces'[j]
        BY <2>1, WhichStack, WhichStackNext
      <3> QED
        BY <1>0, <1>1, <1>5, <1>11, <3>1, SyscallStackAssumption
    <2>2. ASSUME NEW i \in Key, NEW o \in Stack, lifted = {<<i, o>>}, lifted' = {<<i, o>>}
          PROVE  StackOf(j)' = StackOf(j)
      <3>1. StackOf(j) = IF i = j THEN o ELSE traces[j]
        BY <2>2, WhichStack
      <3>2. StackOf(j)' = IF i = j THEN o ELSE traces'[j]
        BY <2>2, WhichStackNext
      <3> QED
        BY <1>0, <1>1, <1>5, <1>11, <3>1, <3>2, SyscallStackAssumption
    <2> QED
      BY <1>9, <2>1, <2>2
  <1>12. ShownAsCounted'
    <2> SUFFICES ASSUME ~swapped', NEW j \in Key, NEW m \in makers[j]
                 PROVE  StackOf(j)' = m[1]
      BY <1>0 DEF ShownAsCounted
    <2>1. m \in Stack \X Pid /\ StackOf(j) = m[1]
      BY <1>1, Facts DEF IInv, ShownAsCounted
    <2> QED
      BY <1>11, <2>1
  <1>13. Traced'
    <2>1. ASSUME ~swapped', NEW g \in HitType, InPlace(g) PROVE InPlace(g)'
      <3>1. g.call.stack \in Stack /\ IdOf[g.call.stack] \in Key
        BY SyscallStackAssumption DEF HitType, Call
      <3> QED
        BY <1>11, <2>1, <3>1 DEF InPlace
    <2>2. ASSUME ~swapped', NEW d \in CPU PROVE InPlace(hit[d])'
      <3>1. CASE d = c
        BY <1>2, <1>3, <1>10, <2>2, <3>1 DEF InPlace
      <3>2. CASE d # c
        <4>1. hit[d] \in HitType /\ InPlace(hit[d])
          BY <1>1, <2>2, Facts DEF IInv, Traced
        <4>2. hit'[d] = hit[d]
          BY <1>3, <3>2
        <4> QED
          BY <2>1, <2>2, <4>1, <4>2 DEF InPlace
      <3> QED
        BY <3>1, <3>2
    <2>3. ASSUME ~swapped', NEW j \in Key, NEW o \in Stack, <<j, o>> \in lifted
          PROVE  traces'[j] \in {NoStack, o}
      <3>1. CASE j = k
        BY <1>1, <1>5, <2>3, <3>1
      <3>2. CASE j # k
        BY <1>1, <1>5, <2>3, <3>2 DEF IInv, Traced
      <3> QED
        BY <3>1, <3>2
    <2> QED
      BY <1>9, <2>2, <2>3, <1>0 DEF Traced, taskVars
  <1>14. PidDue'
    BY <1>0, <1>2, <1>3 DEF IInv, PidDue, counters
  <1>15. ProcessHit' /\ ForeignOnlyFromStart'
    BY <1>0 DEF IInv, ProcessHit, ForeignOnlyFromStart, Present, counters
  <1> QED
    BY <1>4, <1>6, <1>7, <1>8, <1>12, <1>13, <1>14, <1>15 DEF IInv

(* Looking the entry up, and reading its count. *)
LEMMA FindInv ==
  ASSUME IInv, NEW c \in CPU, Find(c)
  PROVE  IInv'
  <1>0. /\ hit[c].stage = "count" /\ InStep(hit[c], probe[c]) /\ Screened(hit[c])
        /\ hit[c] \in HitType /\ hit' = [hit EXCEPT ![c] = hit[c]]
        /\ ProbeStep(c) /\ probe[c].pc \in {"lookup", "load"}
        /\ UNCHANGED <<target, traces, pids, taskVars, events, histVars>>
        /\ UNCHANGED <<tables, filterOn, it, orphaned>>
    BY DEF Find, At, Lookup, Load, ProbeStep, kernelVars, IInv, TypeOK, Stages, Filtered
  <1>1. /\ CountersInv' /\ (collided => collided')
        /\ \A d \in CPU \ {c} : probe'[d] = probe[d]
        /\ probe'[c] = IdleProbe \/ Follows(probe[c], probe'[c])
    BY <1>0, ProbeKeeps, ProbeGoesOn DEF IInv, Effect
  <1>2. probe'[c].pc # "idle"
    <2> DEFINE p == probe[c]
               q == [p EXCEPT !.pc = "load", !.elem = tables[p.map].tab[p.key]]
               r == [p EXCEPT !.pc = "insert"]
               u == [p EXCEPT !.pc = "store", !.reg = tables[p.map].val[p.elem]]
    <2>1. q.pc # "idle" /\ r.pc # "idle" /\ u.pc # "idle"
      BY DEF IInv, CountersInv, CountersType, ProbeType
    <2>2. Becomes(c, q) \/ Becomes(c, r) \/ Becomes(c, u)
      BY DEF Find, Lookup, Load
    <2> HIDE DEF q, r, u
    <2>3. probe'[c] \in {q, r, u}
      BY <2>2 DEF Becomes, IInv, CountersInv, CountersType
    <2> QED
      BY <2>1, <2>3
  <1>3. InStep(hit[c], probe'[c])
    BY <1>0, <1>1, <1>2, IdleType DEF InStep, Follows
  <1> QED
    BY <1>0, <1>1, <1>3, Moves DEF IInv, TypeOK, Traced

(* A counted call is one of its entry's from now on, and had been asked for, *)
(* unless it was made during the start-up.                                   *)
LEMMA CountedKeeps ==
  ASSUME IInv, NEW c \in CPU, hit[c].stage = "count", Counted(c),
         UNCHANGED <<traces, lifted>>
  PROVE  /\ makers' \in [Key -> SUBSET (Stack \X Pid)]
         /\ \A k \in Key : makers[k] \subseteq makers'[k]
         /\ <<hit[c].call.stack, hit[c].call.pid>> \in makers'[IdOf[hit[c].call.stack]]
         /\ ShownAsCounted' /\ ForeignOnlyFromStart' /\ foreign' \in BOOLEAN
         /\ UNCHANGED <<swapped, stale>>
  <1> SUFFICES ASSUME NEW x \in Call, NEW s \in Stack, NEW p \in Pid, NEW k \in Key,
                      x = hit[c].call, s = x.stack, p = x.pid, k = IdOf[s]
               PROVE  /\ makers' \in [Key -> SUBSET (Stack \X Pid)]
                      /\ \A j \in Key : makers[j] \subseteq makers'[j]
                      /\ <<s, p>> \in makers'[k]
                      /\ ShownAsCounted' /\ ForeignOnlyFromStart' /\ foreign' \in BOOLEAN
                      /\ UNCHANGED <<swapped, stale>>
    BY Facts
  <1>1. /\ makers' = [makers EXCEPT ![k] = @ \cup {<<s, p>>}]
        /\ foreign' = (foreign \/ (hit[c].ready /\ ~Asked(x)))
        /\ UNCHANGED <<swapped, stale>>
    BY DEF Counted
  <1>2. /\ makers'[k] = makers[k] \cup {<<s, p>>}
        /\ \A j \in Key \ {k} : makers'[j] = makers[j]
        /\ makers' \in [Key -> SUBSET (Stack \X Pid)]
    <2>1. makers \in [Key -> SUBSET (Stack \X Pid)] /\ <<s, p>> \in Stack \X Pid
      BY Facts
    <2>2. makers[k] \cup {<<s, p>>} \in SUBSET (Stack \X Pid)
      BY <2>1
    <2> QED
      BY <1>1, <2>1, <2>2
  <1>3. hit[c].ready => Asked(x)
    BY DEF IInv, Filtered, Screened, Asked
  <1>4. ShownAsCounted'
    <2>0. \A j \in Key : StackOf(j)' = StackOf(j)
      BY DEF StackOf
    <2> SUFFICES ASSUME ~swapped, NEW j \in Key, NEW m \in makers'[j]
                 PROVE  StackOf(j) = m[1]
      BY <1>1, <2>0 DEF ShownAsCounted
    <2>1. CASE m \in makers[j]
      BY <2>1 DEF IInv, ShownAsCounted
    <2>2. CASE j = k /\ m = <<s, p>>
      BY <2>2 DEF IInv, Traced, InPlace
    <2> QED
      BY <1>2, <2>1, <2>2
  <1> QED
    BY <1>1, <1>2, <1>3, <1>4 DEF IInv, ForeignOnlyFromStart

(* The count goes to the entry the probe found; its pid follows. *)
LEMMA StoreCountInv ==
  ASSUME IInv, NEW c \in CPU, StoreCount(c)
  PROVE  IInv'
  <1> DEFINE p == probe[c]
             h == [hit[c] EXCEPT !.stage = "pid", !.elem = p.elem]
  <1> SUFFICES ASSUME NEW k \in Key, NEW e \in Slot, k = IdOf[hit[c].call.stack],
                      e = p.elem
               PROVE  IInv'
    BY Facts DEF StoreCount, Store, IInv, CountersInv, ElemOK
  <1>0. /\ hit[c].stage = "count" /\ InStep(hit[c], p) /\ Screened(hit[c])
        /\ hit[c] \in HitType /\ Store(c) /\ ProbeStep(c) /\ Counted(c) /\ p.pc = "store"
        /\ hit' = [hit EXCEPT ![c] = h] /\ p.key = k /\ p.map = Map
        /\ UNCHANGED <<filterOn, it, iterating, collided, orphaned>>
        /\ UNCHANGED <<target, traces, pids, taskVars, events>>
    BY DEF StoreCount, At, Store, ProbeStep, InStep, IInv, TypeOK, Stages, Filtered
  <1>1. /\ CountersInv' /\ \A d \in CPU \ {c} : probe'[d] = probe[d]
        /\ probe'[c] = IdleProbe
    <2>1. Becomes(c, IdleProbe)
      BY <1>0 DEF Store
    <2> QED
      BY <1>0, <2>1, ProbeKeeps, ProbeGoesOn, ProbeChange, IdleType
         DEF IInv, CountersInv
  <1>2. /\ h \in HitType /\ h.stage = "pid" /\ h.call = hit[c].call
        /\ h.ready = hit[c].ready /\ h.elem = e
    BY <1>0 DEF HitType
  <1> HIDE DEF h
  <1>3. /\ hit' \in [CPU -> HitType] /\ hit'[c] = h
        /\ \A d \in CPU \ {c} : hit'[d] = hit[d]
    BY <1>0, <1>2, HitChange DEF IInv
  <1>4. tables'[Map].tab = tables[Map].tab
    <2> DEFINE v == p.reg + p.add
    <2>1. v \in Nat /\ tables \in [Table -> MapType(Key)]
      BY DEF IInv, CountersInv, CountersType, ProbeType
    <2>2. tables' = [tables EXCEPT ![Map] = StoreElem(@, e, v)]
      BY <1>0 DEF Store
    <2> HIDE DEF v
    <2>3. StoreElem(tables[Map], e, v).tab = tables[Map].tab
      BY <2>1, StoreOne, Facts
    <2> QED
      BY <2>1, <2>2, <2>3, MapIsTable
  <1>5. /\ makers' \in [Key -> SUBSET (Stack \X Pid)]
        /\ \A j \in Key : makers[j] \subseteq makers'[j]
        /\ <<hit[c].call.stack, hit[c].call.pid>> \in makers'[k]
        /\ ShownAsCounted' /\ ForeignOnlyFromStart' /\ foreign' \in BOOLEAN
        /\ UNCHANGED <<swapped, stale>>
    BY <1>0, CountedKeeps DEF taskVars
  <1>6. TypeOK'
    <2>1. CountersType'
      BY <1>1 DEF CountersInv
    <2> QED
      BY <1>0, <1>3, <1>5, <2>1 DEF IInv, TypeOK, taskVars
  <1>7. Stages'
    BY <1>0, <1>1, <1>2, <1>3, IdleType, MapIsTable DEF IInv, Stages, InStep
  <1>8. Filtered'
    BY <1>0, <1>2, <1>3 DEF IInv, Filtered, Screened, Ready, Busy, taskVars
  <1>9. Traced'
    <2>1. \A j \in Key : StackOf(j)' = StackOf(j)
      BY <1>0 DEF StackOf, taskVars
    <2>2. ASSUME ~swapped, NEW d \in CPU PROVE InPlace(hit[d])'
      <3>1. hit'[d].call = hit[d].call /\ IdOf[hit[d].call.stack] \in Key
        BY <1>2, <1>3, Facts
      <3>2. hit'[d].stage = "count" => hit[d].stage = "count"
        BY <1>2, <1>3
      <3>3. hit'[d].stage = "pid" => hit[d].stage \in {"count", "pid"}
        BY <1>0, <1>2, <1>3
      <3> QED
        BY <2>1, <2>2, <3>1, <3>2, <3>3 DEF IInv, Traced, InPlace
    <2> QED
      BY <1>0, <1>5, <2>2 DEF IInv, Traced, taskVars
  <1>10. PidDue'
    <2> SUFFICES ASSUME ~collided, ~orphaned, ~stale, NEW d \in CPU, hit'[d].stage = "pid"
                 PROVE  LET x == hit'[d].call IN
                        /\ tables'[Map].tab[IdOf[x.stack]] = hit'[d].elem
                        /\ <<x.stack, x.pid>> \in makers'[IdOf[x.stack]]
      BY <1>0, <1>5 DEF PidDue
    <2>1. CASE d = c
      <3>1. tables[Map].tab[k] = e
        BY <1>0 DEF IInv, CountersInv, StillValid
      <3> QED
        BY <1>2, <1>3, <1>4, <1>5, <2>1, <3>1
    <2>2. CASE d # c
      BY <1>3, <1>4, <1>5, <2>2, Facts DEF IInv, PidDue
    <2> QED
      BY <2>1, <2>2
  <1>11. ProcessHit'
    BY <1>0, <1>4, <1>5 DEF IInv, ProcessHit, Present
  <1> QED
    BY <1>1, <1>5, <1>6, <1>7, <1>8, <1>9, <1>10, <1>11 DEF IInv

(* The pid is stored to the entry of its call, unless the entry is gone. *)
LEMMA StorePidInv ==
  ASSUME IInv, NEW c \in CPU, StorePid(c)
  PROVE  IInv'
  <1> SUFFICES ASSUME NEW k \in Key, NEW e \in Slot, NEW n \in Pid,
                      k = IdOf[hit[c].call.stack], e = hit[c].elem, n = hit[c].call.pid
               PROVE  IInv'
    BY Facts DEF StorePid, At, IInv, Stages, InStep
  <1>0. /\ hit[c].stage = "pid" /\ InStep(hit[c], probe[c])
        /\ pids' = [pids EXCEPT ![e] = {n}]
        /\ hit' = [hit EXCEPT ![c] = IdleHit]
        /\ UNCHANGED <<counters, target, traces, taskVars, events, histVars>>
    BY DEF StorePid, At, IInv, Stages
  <1>1. CountersInv'
    BY <1>0, CountersStay DEF IInv, TypeOK, CountersType, counters
  <1>2. /\ hit' \in [CPU -> HitType] /\ hit'[c] = IdleHit
        /\ \A d \in CPU \ {c} : hit'[d] = hit[d]
    BY <1>0, IdleHitType, HitChange DEF IInv
  <1>3. /\ pids' \in [Slot -> SUBSET Pid] /\ pids'[e] = {n}
        /\ \A s \in Slot \ {e} : pids'[s] = pids[s]
    BY <1>0, Facts
  <1>4. TypeOK'
    <2>1. CountersType'
      BY <1>1 DEF CountersInv
    <2> QED
      BY <1>0, <1>2, <1>3, <2>1 DEF IInv, TypeOK, taskVars, histVars
  <1>5. Stages'
    BY <1>0, <1>2, IdleHitType DEF IInv, Stages, InStep, counters
  <1>6. Filtered'
    BY <1>0, <1>2, IdleHitType
       DEF IInv, Filtered, Screened, Ready, Busy, taskVars, counters
  <1>7. \A j \in Key : StackOf(j)' = StackOf(j)
    BY <1>0 DEF StackOf, taskVars
  <1>8. Traced'
    <2>1. ASSUME ~swapped, NEW d \in CPU PROVE InPlace(hit[d])'
      <3>1. CASE d = c
        BY <1>2, <3>1, IdleHitType DEF InPlace
      <3>2. CASE d # c
        BY <1>2, <1>7, <2>1, <3>2, Facts DEF IInv, Traced, InPlace
      <3> QED
        BY <3>1, <3>2
    <2> QED
      BY <1>0, <2>1 DEF IInv, Traced, taskVars, histVars
  <1>9. PidDue'
    BY <1>0, <1>2, IdleHitType DEF IInv, PidDue, counters, histVars
  <1>10. ShownAsCounted' /\ ForeignOnlyFromStart'
    BY <1>0, <1>7 DEF IInv, ShownAsCounted, ForeignOnlyFromStart, histVars
  <1>11. ProcessHit'
    <2> SUFFICES ASSUME ~collided, ~orphaned, ~stale, NEW j \in Key,
                        Present(tables[Map], j)
                 PROVE  \E m \in makers[j] : pids'[tables[Map].tab[j]] = {m[2]}
      BY <1>0 DEF ProcessHit, Present, counters, histVars
    <2>1. /\ tables[Map].tab[k] = e /\ <<hit[c].call.stack, n>> \in makers[k]
      BY <1>0 DEF IInv, PidDue
    <2>2. CASE j = k
      <3>1. <<hit[c].call.stack, n>>[2] = n
        OBVIOUS
      <3> QED
        BY <1>3, <2>1, <2>2, <3>1
    <2>3. CASE j # k
      <3>1. tables[Map].tab[j] # e
        BY <2>1, <2>3, MapIsTable DEF IInv, CountersInv, OneOwner
      <3>2. tables[Map].tab[j] \in Slot
        BY Facts DEF Present, MapType
      <3> QED
        BY <1>3, <3>1, <3>2 DEF IInv, ProcessHit
    <2> QED
      BY <2>2, <2>3
  <1> QED
    BY <1>1, <1>4, <1>5, <1>6, <1>8, <1>9, <1>10, <1>11 DEF IInv

(* A new sample has its pid from the start, in an element nobody else has. *)
LEMMA InsertSampleInv ==
  ASSUME IInv, NEW c \in CPU, InsertSample(c)
  PROVE  IInv'
  <1> DEFINE p == probe[c]
  <1> SUFFICES ASSUME NEW k \in Key, k = IdOf[hit[c].call.stack] PROVE IInv'
    BY Facts
  <1>0. /\ hit[c].stage = "count" /\ InStep(hit[c], p) /\ Insert(c) /\ ProbeStep(c)
        /\ p.key = k /\ p.map = Map /\ p.add = 1 /\ p.pc = "insert"
        /\ hit' = [hit EXCEPT ![c] = IdleHit]
        /\ UNCHANGED <<filterOn, iterating, collided, orphaned>>
        /\ UNCHANGED <<target, traces, taskVars, events>>
    BY DEF InsertSample, At, Insert, ProbeStep, IInv, Stages, InStep
  <1>1. /\ CountersInv' /\ it'.map = it.map
        /\ probe'[c] = IdleProbe /\ \A d \in CPU \ {c} : probe'[d] = probe[d]
    <2>1. Becomes(c, IdleProbe)
      BY <1>0 DEF Insert
    <2> QED
      BY <1>0, <2>1, ProbeKeeps, ProbeChange, IdleType DEF IInv, CountersInv, Effect
  <1>2. InStep(IdleHit, probe'[c]) /\ Screened(IdleHit) /\ InPlace(IdleHit)
    BY <1>1, IdleHitType, IdleType, MapIsTable DEF InStep, Screened, InPlace
  <1>3. CASE ~CanUpdate(tables[Map], k)
    <2>1. UNCHANGED <<tables, recorded, pids, histVars>>
      BY <1>0, <1>3 DEF Insert, InsertSample
    <2> QED
      BY <1>0, <1>1, <1>2, <2>1, IdleHitType, Moves DEF IInv, TypeOK
  <1>4. CASE CanUpdate(tables[Map], k)
    <2>0. /\ recorded \in [Table -> [Key -> Nat]] /\ tables \in [Table -> MapType(Key)]
          /\ tables[Map] \in MapType(Key)
      BY MapIsTable DEF IInv, CountersInv, CountersType
    <2>1. PICK s \in FreeSlots(tables[Map]) :
              tables' = [tables EXCEPT ![Map] = UpdateElem(@, k, s, 1)] /\ Added(c)
      BY <1>0, <1>4 DEF Insert
    <2>2. s \in Slot /\ tables'[Map] = UpdateElem(tables[Map], k, s, 1)
      BY <2>0, <2>1, MapIsTable DEF FreeSlots
    <2>3. /\ tables'[Map].tab[k] = s
          /\ \A j \in Key \ {k} : /\ tables'[Map].tab[j] = tables[Map].tab[j]
                                  /\ tables[Map].tab[j] # s
      <3>1. 1 \in Nat
        OBVIOUS
      <3>2. /\ UpdateElem(tables[Map], k, s, 1).tab[k] = s
            /\ \A j \in Key \ {k} :
                   UpdateElem(tables[Map], k, s, 1).tab[j] = tables[Map].tab[j]
        BY <2>0, <2>1, <3>1, Update
      <3>3. ASSUME NEW j \in Key \ {k} PROVE tables[Map].tab[j] # s
        BY <2>0, <2>1, <2>2 DEF FreeSlots, MapType
      <3> QED
        BY <2>2, <3>2, <3>3
    <2>4. recorded' # recorded
      <3>1. recorded'[Map][k] = recorded[Map][k] + 1 /\ recorded[Map][k] \in Nat
        BY <1>0, <2>0, <2>1, MapIsTable DEF Added
      <3> QED
        BY <3>1
    <2> SUFFICES ASSUME NEW n \in Pid, n = hit[c].call.pid PROVE IInv'
      BY Facts
    <2>5. Counted(c) /\ pids' = [pids EXCEPT ![s] = {n}]
      BY <2>3, <2>4 DEF InsertSample
    <2>6. /\ makers' \in [Key -> SUBSET (Stack \X Pid)]
          /\ \A j \in Key : makers[j] \subseteq makers'[j]
          /\ <<hit[c].call.stack, n>> \in makers'[k]
          /\ ShownAsCounted' /\ ForeignOnlyFromStart' /\ foreign' \in BOOLEAN
          /\ UNCHANGED <<swapped, stale>>
      BY <1>0, <2>5, CountedKeeps DEF taskVars
    <2>7. /\ pids' \in [Slot -> SUBSET Pid] /\ pids'[s] = {n}
          /\ \A e \in Slot \ {s} : pids'[e] = pids[e]
      BY <2>2, <2>5, Facts
    <2>8. /\ hit' \in [CPU -> HitType] /\ hit'[c] = IdleHit
          /\ \A d \in CPU \ {c} : hit'[d] = hit[d]
      BY <1>0, IdleHitType, HitChange DEF IInv
    <2>9. TypeOK'
      <3>1. CountersType'
        BY <1>1 DEF CountersInv
      <3> QED
        BY <1>0, <2>6, <2>7, <2>8, <3>1 DEF IInv, TypeOK, taskVars
    <2>10. Stages'
      BY <1>1, <1>2, <2>8, IdleHitType DEF IInv, Stages, InStep
    <2>11. Filtered'
      BY <1>0, <2>8, IdleHitType DEF IInv, Filtered, Screened, Ready, Busy, taskVars
    <2>12. Traced'
      <3>1. \A j \in Key : StackOf(j)' = StackOf(j)
        BY <1>0 DEF StackOf, taskVars
      <3>2. ASSUME ~swapped, NEW d \in CPU PROVE InPlace(hit[d])'
        <4>1. CASE d = c
          BY <2>8, <4>1, IdleHitType DEF InPlace
        <4>2. CASE d # c
          BY <2>8, <3>1, <3>2, <4>2, Facts DEF IInv, Traced, InPlace
        <4> QED
          BY <4>1, <4>2
      <3> QED
        BY <1>0, <2>6, <3>2 DEF IInv, Traced, taskVars
    <2>13. ~collided => ~Present(tables[Map], k)
      BY <1>0 DEF IInv, CountersInv, StillAbsent
    <2>14. PidDue'
      <3> SUFFICES ASSUME ~collided, ~orphaned, ~stale, NEW d \in CPU \ {c},
                          hit[d].stage = "pid"
                   PROVE  LET x == hit[d].call IN
                          /\ tables'[Map].tab[IdOf[x.stack]] = hit[d].elem
                          /\ <<x.stack, x.pid>> \in makers'[IdOf[x.stack]]
        BY <1>0, <2>6, <2>8, IdleHitType DEF PidDue
      <3>1. /\ tables[Map].tab[IdOf[hit[d].call.stack]] = hit[d].elem
            /\ <<hit[d].call.stack, hit[d].call.pid>> \in makers[IdOf[hit[d].call.stack]]
        BY DEF IInv, PidDue
      <3>2. IdOf[hit[d].call.stack] \in Key /\ hit[d].elem \in Slot
        BY Facts DEF IInv, Stages, InStep
      <3>3. IdOf[hit[d].call.stack] # k
        BY <2>13, <3>1, <3>2, BpfHashAssumption DEF Present
      <3> QED
        BY <2>3, <2>6, <3>1, <3>2, <3>3
    <2>15. ProcessHit'
      <3> SUFFICES ASSUME ~collided, ~orphaned, ~stale, NEW j \in Key,
                          Present(tables'[Map], j)
                   PROVE  \E m \in makers'[j] : pids'[tables'[Map].tab[j]] = {m[2]}
        BY <1>0, <2>6 DEF ProcessHit
      <3>1. CASE j = k
        <4>1. <<hit[c].call.stack, n>>[2] = n
          OBVIOUS
        <4> QED
          BY <2>3, <2>6, <2>7, <3>1, <4>1
      <3>2. CASE j # k
        <4>1. /\ Present(tables[Map], j) /\ tables'[Map].tab[j] = tables[Map].tab[j]
              /\ tables[Map].tab[j] \in Slot \ {s}
          BY <2>0, <2>3, <3>2 DEF Present, MapType
        <4> QED
          BY <2>6, <2>7, <4>1 DEF IInv, ProcessHit
      <3> QED
        BY <3>1, <3>2
    <2> QED
      BY <1>1, <2>6, <2>9, <2>10, <2>11, <2>12, <2>14, <2>15 DEF IInv
  <1> QED
    BY <1>3, <1>4

-----------------------------------------------------------------------------
(* The task.                                                                 *)

(* A step of the task that leaves counts, stacks and calls as they are. *)
LEMMA TaskMoves ==
  ASSUME IInv, TypeOK', CountersInv', it'.map = it.map,
         UNCHANGED <<tables, probe, orphaned, collided>>,
         UNCHANGED <<traces, lifted, pids, hit, args, histVars>>,
         upc' = "target" => filterOn', Ready' => filterOn' /\ target' = args.sys,
         filterOn => filterOn', target' = target \/ target' = args.sys,
         upc' \in {"attach", "filter", "target"} => upc \in {"attach", "filter", "target"}
  PROVE  IInv'
  <1>1. Stages'
    BY DEF IInv, Stages, InStep
  <1>2. Filtered'
    BY DEF IInv, Filtered, Screened
  <1>3. \A k \in Key : StackOf(k)' = StackOf(k)
    BY DEF StackOf
  <1>4. Traced'
    <2>1. ASSUME ~swapped, NEW d \in CPU PROVE InPlace(hit[d])'
      BY <1>3, <2>1, Facts DEF IInv, Traced, InPlace
    <2> QED
      BY <2>1 DEF IInv, Traced, histVars
  <1>5. PidDue'
    BY DEF IInv, PidDue, histVars
  <1>6. ShownAsCounted' /\ ForeignOnlyFromStart'
    BY <1>3 DEF IInv, ShownAsCounted, ForeignOnlyFromStart, histVars
  <1>7. ProcessHit'
    BY DEF IInv, ProcessHit, Present, histVars
  <1> QED
    BY <1>1, <1>2, <1>4, <1>5, <1>6, <1>7 DEF IInv

(* Attaching, the filter, the number, and every way out. *)
LEMMA StartInv ==
  ASSUME IInv,
         \/ Attach \/ SetFilter \/ SetTarget \/ Exit
         \/ \E k \in Key : RemoveFails(k)
  PROVE  IInv'
  <1>0. /\ UNCHANGED <<tables, probe, it, iterating, recorded, collided, orphaned>>
        /\ UNCHANGED <<traces, pids, hit, args, got, todo, lifted, events, histVars>>
        /\ filterOn' \in BOOLEAN /\ (filterOn => filterOn') /\ attached' \in BOOLEAN
        /\ target' = target \/ target' = args.sys
        /\ \/ upc = "attach" /\ upc' = "filter"
           \/ upc = "filter" /\ upc' = "target" /\ filterOn'
           \/ upc = "target" /\ upc' = "select" /\ filterOn' = filterOn /\ target' = args.sys
           \/ upc' \in {"exited", "failed"}
    BY DEF Attach, SetFilter, SetTarget, Exit, RemoveFails, counters, kernelVars, IInv,
           TypeOK, CountersType
  <1>1. CountersInv'
    BY <1>0, CountersStay DEF IInv
  <1>2. TypeOK'
    BY <1>0, <1>1 DEF IInv, TypeOK, CountersInv, histVars
  <1>3. /\ upc' = "target" => filterOn'
        /\ Ready' => filterOn' /\ target' = args.sys
    BY <1>0 DEF IInv, Filtered, Ready, Busy
  <1> QED
    BY <1>0, <1>1, <1>2, <1>3, TaskMoves

(* Reading the counts and the keys. *)
LEMMA LoopInv ==
  ASSUME IInv,
         \/ Tick \/ ReadEnd \/ Report \/ ClearEnd \/ RemoveEnd
         \/ \E k \in Key : ReadKey(k) \/ ClearKey(k)
  PROVE  IInv'
  <1>0. /\ UNCHANGED kernelSide /\ UNCHANGED kernelVars
        /\ UNCHANGED <<args, attached, lifted, events, histVars>>
        /\ Ready /\ Ready' /\ upc' \notin {"attach", "filter", "target"}
        /\ upc' \in {"select", "read", "format", "clear", "remove"}
        /\ \/ IterStart(Map) \/ IterEnd \/ \E k \in Key : IterKey(k) \/ IterAgain(k)
           \/ UNCHANGED <<it, iterating>>
    BY DEF Tick, ReadEnd, Report, ClearEnd, RemoveEnd, ReadKey, ClearKey, IterStart,
           IterKey, IterAgain, IterEnd, taskVars, counters, kernelSide, Ready, Busy
  <1>1. CountersInv'
    <2>1. CASE UNCHANGED <<it, iterating>>
      BY <1>0, <2>1, CountersStay DEF IInv, TypeOK, CountersType, kernelSide
    <2>2. CASE IterStart(Map) \/ IterEnd
      BY <2>2, CounterMapsAssumption, MapIsTable, IterKeeps DEF IInv
    <2>3. ASSUME NEW k \in Key, IterKey(k) \/ IterAgain(k) PROVE CountersInv'
      BY <2>3, MapIsTable, IterKeeps DEF IInv
    <2> QED
      BY <1>0, <2>1, <2>2, <2>3
  <1>2. it'.map = it.map /\ it \in IterType
    <2>1. it \in IterType /\ it.map = Map
      BY Facts DEF IInv, CountersInv, CountersType
    <2>2. IterStart(Map) => it'.map = Map
      BY MapIsTable, IdleType DEF IterStart, IterType
    <2> QED
      BY <1>0, <2>1, <2>2 DEF IterKey, IterAgain, IterEnd, IterType
  <1>3. got' \in [Key -> Nat] /\ todo' \subseteq Key
    <2>1. ASSUME NEW k \in Key, ReadKey(k) PROVE got' \in [Key -> Nat] /\ todo' = todo
      <3>1. /\ IterKey(k) \/ IterAgain(k)
            /\ got' = [got EXCEPT ![k] = @ + ValueOf(tables[Map], k)] /\ todo' = todo
        BY <2>1 DEF ReadKey
      <3>2. ValueOf(tables[Map], k) \in Nat
        BY <3>1, Facts DEF IterKey, IterAgain, Present, ValueOf, MapType
      <3>3. got \in [Key -> Nat]
        BY DEF IInv, TypeOK
      <3> QED
        BY <3>1, <3>2, <3>3
    <2>2. ASSUME NEW k \in Key, ClearKey(k) PROVE got' = got /\ todo' = todo
      BY <2>2 DEF ClearKey, taskVars
    <2>3. Tick \/ Report \/ ClearEnd => got' = got /\ todo' = todo
      BY DEF Tick, Report, ClearEnd
    <2>4. ReadEnd => got' = got /\ todo' \subseteq Key
      BY <1>2 DEF ReadEnd, IterType
    <2>5. RemoveEnd => got' \in [Key -> Nat] /\ todo' = todo
      BY DEF RemoveEnd, Nothing
    <2> QED
      BY <2>1, <2>2, <2>3, <2>4, <2>5 DEF IInv, TypeOK
  <1>4. TypeOK'
    BY <1>0, <1>1, <1>3 DEF IInv, TypeOK, CountersInv, kernelVars, histVars
  <1> QED
    BY <1>0, <1>1, <1>2, <1>4, TaskMoves DEF IInv, Filtered, kernelSide, kernelVars

(* A stack leaves its bucket, and returns: nobody sees another one meanwhile. *)
LEMMA LiftInv ==
  ASSUME IInv, PutBack \/ \E k \in Key : Lift(k)
  PROVE  IInv'
  <1>0. /\ UNCHANGED <<tables, probe, it, iterating, recorded, collided, orphaned>>
        /\ UNCHANGED <<filterOn, target, pids, hit, args, attached, upc, got>>
        /\ UNCHANGED <<events, makers, swapped, stale, foreign>>
    BY DEF PutBack, Lift, counters, histVars
  <1>1. /\ todo' \subseteq Key
        /\ traces' \in [Key -> Stack \cup {NoStack}]
        /\ lifted' = {} \/ \E k \in Key, s \in Stack : lifted' = {<<k, s>>}
        /\ \A j \in Key : StackOf(j)' = StackOf(j)
        /\ \A k \in Key, s \in Stack : <<k, s>> \in lifted' => traces'[k] \in {NoStack, s}
    <2>0. todo \subseteq Key
      BY DEF IInv, TypeOK
    <2>1. ASSUME NEW k \in Key, Lift(k), traces[k] = NoStack
          PROVE  todo' \subseteq Key /\ lifted = {} /\ lifted' = {} /\ traces' = traces
      BY <2>0, <2>1 DEF Lift
    <2>2. ASSUME NEW k \in Key, Lift(k), NEW s \in Stack, traces[k] = s
          PROVE  /\ todo' \subseteq Key /\ lifted = {} /\ lifted' = {<<k, s>>}
                 /\ traces'[k] = NoStack
                 /\ traces' \in [Key -> Stack \cup {NoStack}]
                 /\ \A j \in Key \ {k} : traces'[j] = traces[j]
      BY <2>0, <2>2, Facts DEF Lift
    <2>3. CASE PutBack
      <3>1. PICK k \in Key, s \in Stack :
                /\ lifted = {<<k, s>>} /\ traces' = [traces EXCEPT ![k] = s]
        <4>1. PICK l \in lifted : traces' = [traces EXCEPT ![l[1]] = l[2]]
          BY <2>3 DEF PutBack
        <4>2. PICK k \in Key, s \in Stack : lifted = {<<k, s>>}
          BY <4>1 DEF IInv, Traced
        <4>3. l[1] = k /\ l[2] = s
          BY <4>1, <4>2
        <4> QED
          BY <4>1, <4>2, <4>3
      <3>2. /\ todo' \subseteq Key /\ lifted' = {} /\ traces'[k] = s
            /\ traces' \in [Key -> Stack \cup {NoStack}]
            /\ \A j \in Key \ {k} : traces'[j] = traces[j]
        BY <2>0, <2>3, <3>1, Facts DEF PutBack
      <3>3. ASSUME NEW j \in Key PROVE StackOf(j)' = StackOf(j)
        <4>1. StackOf(j) = IF k = j THEN s ELSE traces[j]
          BY <3>1, WhichStack
        <4>2. StackOf(j)' = traces'[j]
          BY <3>2, WhichStackNext
        <4> QED
          BY <3>2, <4>1, <4>2
      <3> QED
        BY <3>2, <3>3
    <2>4. ASSUME NEW k \in Key, Lift(k), traces[k] = NoStack
          PROVE  \A j \in Key : StackOf(j)' = StackOf(j)
      BY <2>1, <2>4, WhichStack, WhichStackNext
    <2>5. ASSUME NEW k \in Key, Lift(k), NEW s \in Stack, traces[k] = s
          PROVE  /\ \A j \in Key : StackOf(j)' = StackOf(j)
                 /\ \A j \in Key, t \in Stack :
                        <<j, t>> \in lifted' => traces'[j] \in {NoStack, t}
      <3>1. ASSUME NEW j \in Key PROVE StackOf(j)' = StackOf(j)
        <4>1. StackOf(j) = traces[j]
          BY <2>2, <2>5, WhichStack
        <4>2. StackOf(j)' = IF k = j THEN s ELSE traces'[j]
          BY <2>2, <2>5, WhichStackNext
        <4> QED
          BY <2>2, <2>5, <4>1, <4>2
      <3>2. \A j \in Key, t \in Stack : <<j, t>> \in lifted' => j = k
        BY <2>2, <2>5
      <3> QED
        BY <2>2, <2>5, <3>1, <3>2
    <2>6. ASSUME NEW k \in Key, Lift(k)
          PROVE  traces[k] = NoStack \/ \E s \in Stack : traces[k] = s
      BY Facts
    <2>7. CASE \E k \in Key : Lift(k) /\ traces[k] = NoStack
      BY <2>1, <2>4, <2>7, Facts
    <2>8. CASE \E k \in Key : Lift(k) /\ \E s \in Stack : traces[k] = s
      BY <2>2, <2>5, <2>8
    <2> QED
      BY <2>3, <2>6, <2>7, <2>8
  <1>2. CountersInv'
    BY <1>0, CountersStay DEF IInv, TypeOK, CountersType
  <1>3. TypeOK'
    <2>1. lifted' \subseteq Key \X Stack
      BY <1>1
    <2> QED
      BY <1>0, <1>1, <1>2, <2>1 DEF IInv, TypeOK, CountersInv
  <1>4. Stages' /\ Filtered'
    BY <1>0 DEF IInv, Stages, InStep, Filtered, Screened, Ready, Busy
  <1>5. Traced'
    <2>1. ASSUME ~swapped, NEW d \in CPU PROVE InPlace(hit[d])'
      BY <1>0, <1>1, <2>1, Facts DEF IInv, Traced, InPlace
    <2> QED
      BY <1>0, <1>1, <2>1 DEF Traced
  <1>6. PidDue' /\ ProcessHit' /\ ForeignOnlyFromStart'
    BY <1>0 DEF IInv, PidDue, ProcessHit, Present, ForeignOnlyFromStart
  <1>7. ShownAsCounted'
    BY <1>0, <1>1 DEF IInv, ShownAsCounted
  <1> QED
    BY <1>2, <1>3, <1>4, <1>5, <1>6, <1>7 DEF IInv

(* An entry goes with all that was counted in it.                           *)
LEMMA RemoveInv ==
  ASSUME IInv, NEW k \in Key, Remove(k)
  PROVE  IInv'
  <1>0. /\ RemoveKey(k) /\ Removed(k) /\ upc = "remove"
        /\ got' = [got EXCEPT ![k] = 0]
        /\ UNCHANGED <<target, traces, pids, hit>>
        /\ UNCHANGED <<args, attached, upc, todo, lifted, events>>
    BY DEF Remove, kernelVars
  <1>1. /\ CountersInv' /\ it'.map = Map
        /\ UNCHANGED <<filterOn, probe, iterating, recorded, collided>>
        /\ orphaned => orphaned'
    BY <1>0, RemoveKeeps DEF IInv, Stages
  <1>2. /\ tables'[Map].tab[k] = NoSlot
        /\ \A j \in Key \ {k} : tables'[Map].tab[j] = tables[Map].tab[j]
    <2>1. tables \in [Table -> MapType(Key)] /\ it.map = Map
      BY Facts DEF IInv, CountersInv, CountersType
    <2>2. tables'[Map] = DeleteElem(tables[Map], k)
      BY <1>0, <2>1, MapIsTable DEF RemoveKey
    <2> QED
      BY <2>1, <2>2, MapIsTable, DeleteOne
  <1>3. /\ makers' \in [Key -> SUBSET (Stack \X Pid)] /\ makers'[k] = {}
        /\ \A j \in Key \ {k} : makers'[j] = makers[j]
        /\ UNCHANGED <<swapped, foreign>> /\ stale' \in BOOLEAN /\ (stale => stale')
    BY <1>0, Facts DEF Removed, IInv, TypeOK
  <1>4. TypeOK'
    <2>1. CountersType' /\ got' \in [Key -> Nat]
      BY <1>0, <1>1 DEF CountersInv, IInv, TypeOK
    <2> QED
      BY <1>0, <1>3, <2>1 DEF IInv, TypeOK
  <1>5. Stages' /\ Filtered'
    BY <1>0, <1>1 DEF IInv, Stages, InStep, Filtered, Screened, Ready, Busy
  <1>6. \A j \in Key : StackOf(j)' = StackOf(j)
    BY <1>0 DEF StackOf
  <1>7. Traced'
    <2>1. ASSUME ~swapped, NEW d \in CPU PROVE InPlace(hit[d])'
      BY <1>0, <1>6, <2>1, Facts DEF IInv, Traced, InPlace
    <2> QED
      BY <1>0, <1>3, <2>1 DEF IInv, Traced
  <1>8. PidDue'
    <2> SUFFICES ASSUME ~collided, ~orphaned, ~stale', NEW d \in CPU, hit[d].stage = "pid"
                 PROVE  LET x == hit[d].call IN
                        /\ tables'[Map].tab[IdOf[x.stack]] = hit[d].elem
                        /\ <<x.stack, x.pid>> \in makers'[IdOf[x.stack]]
      BY <1>0, <1>1 DEF PidDue
    <2>1. ~stale /\ hit[d].elem # tables[Map].tab[k]
      BY <1>0, Facts DEF Removed, At
    <2>2. /\ tables[Map].tab[IdOf[hit[d].call.stack]] = hit[d].elem
          /\ <<hit[d].call.stack, hit[d].call.pid>> \in makers[IdOf[hit[d].call.stack]]
      BY <2>1 DEF IInv, PidDue
    <2> QED
      BY <1>2, <1>3, <2>1, <2>2, Facts
  <1>9. ShownAsCounted' /\ ForeignOnlyFromStart'
    BY <1>3, <1>6 DEF IInv, ShownAsCounted, ForeignOnlyFromStart
  <1>10. ProcessHit'
    <2> SUFFICES ASSUME ~collided, ~orphaned, ~stale, NEW j \in Key,
                        Present(tables'[Map], j)
                 PROVE  \E m \in makers'[j] : pids[tables'[Map].tab[j]] = {m[2]}
      BY <1>0, <1>1, <1>3 DEF ProcessHit
    <2>1. j # k /\ Present(tables[Map], j)
      BY <1>2 DEF Present
    <2> QED
      BY <1>2, <1>3, <2>1 DEF IInv, ProcessHit
  <1> QED
    BY <1>1, <1>4, <1>5, <1>7, <1>8, <1>9, <1>10 DEF IInv

-----------------------------------------------------------------------------
(* Every step keeps the invariant. *)
LEMMA NextInv == IInv /\ [Next]_vars => IInv'
  <1> SUFFICES ASSUME IInv, [Next]_vars PROVE IInv'
    OBVIOUS
  <1>1. ASSUME NEW c \in CPU, NEW x \in Calls, Enter(c, x) PROVE IInv'
    BY <1>1, EnterInv
  <1>2. ASSUME NEW c \in CPU, Probe(c) PROVE IInv'
    BY <1>2, FilterInv, CheckTargetInv, GetStackInv, LinkStackInv, FindInv,
       StoreCountInv, StorePidInv, InsertSampleInv DEF Probe
  <1>3. CASE TaskStep
    BY <1>3, StartInv, LoopInv, LiftInv, RemoveInv DEF TaskStep
  <1>4. CASE UNCHANGED vars
    <2>1. /\ UNCHANGED <<tables, filterOn, probe, it, iterating, recorded>>
          /\ UNCHANGED <<collided, orphaned, target, traces, pids, hit, args, attached>>
          /\ UNCHANGED <<upc, got, todo, lifted, events, makers, swapped, stale, foreign>>
      BY <1>4 DEF vars, counters, kernelVars, taskVars, histVars
    <2>2. CountersInv'
      BY <2>1, CountersStay DEF IInv, TypeOK, CountersType
    <2>3. TypeOK'
      BY <2>1, <2>2 DEF IInv, TypeOK, CountersInv
    <2>4. Ready' => filterOn' /\ target' = args.sys
      BY <2>1 DEF IInv, Filtered, Ready, Busy
    <2> QED
      BY <2>1, <2>2, <2>3, <2>4, TaskMoves DEF IInv, Filtered, histVars
  <1> QED
    BY <1>1, <1>2, <1>3, <1>4 DEF Next

(* The invariant holds in every state of every run of the code. *)
THEOREM Invariant == Spec => []IInv
  BY InitInv, NextInv, PTL DEF Spec

(* A line shows the stack that every call counted in it was made from.       *)
THEOREM StackSafety == Spec => []ShownAsCounted
  <1>1. IInv => ShownAsCounted
    BY DEF IInv
  <1> QED
    BY <1>1, Invariant, PTL

(* A line is symbolised with the process of a call counted in it.            *)
THEOREM ProcessSafety == Spec => []ProcessHit
  <1>1. IInv => ProcessHit
    BY DEF IInv
  <1> QED
    BY <1>1, Invariant, PTL

(* What was not asked for is counted only if its call was under way before    *)
(* the filter and the number were set.                                        *)
THEOREM FilterSafety == Spec => []ForeignOnlyFromStart
  <1>1. IInv => ForeignOnlyFromStart
    BY DEF IInv
  <1> QED
    BY <1>1, Invariant, PTL
=============================================================================
