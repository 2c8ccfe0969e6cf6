------------------------ MODULE SyscallCollectProofs ------------------------
(***************************************************************************)
(* What TLAPS proves of SyscallCollect, for any number of CPUs, system     *)
(* calls and elements: what the reports account for, and whom the filter   *)
(* lets through.                                                           *)
(***************************************************************************)
EXTENDS SyscallCollect, CounterMapsProofs

(* Map is one of the tables; what a probe and an iteration start with is in it. *)
LEMMA MapIsTable == Map \in Table /\ IdleProbe.map = Map /\ NoIteration.map = Map
  BY CounterMapsAssumption DEF Map, IdleProbe, NoIteration

(* The invariant holds at the start. *)
LEMMA InitInv == Init => IInv
  <1> SUFFICES ASSUME Init PROVE IInv
    OBVIOUS
  <1>1. CountersInv
    BY StartsInOrder DEF Init
  <1>2. \A k \in Key : Amount(Map, k) = 0 /\ ~Present(tables[Map], k)
    <2>1. \A k \in Key : ~Present(tables[Map], k)
      BY MapIsTable DEF Init, CountersInit, EmptyMap, Present
    <2> QED
      BY <2>1 DEF Amount
  <1>3. TypeOK
    BY <1>1 DEF Init, Nothing, TypeOK, CountersInv
  <1>4. OneMap
    BY MapIsTable, IdleType DEF Init, CountersInit, OneMap
  <1>5. Filtered
    BY DEF Init, CountersInit, Filtered
  <1>6. ReadAhead /\ ReadWhole
    BY <1>2 DEF Init, CountersInit, Nothing, ReadAhead, ReadWhole
  <1>7. ReportsAccounted /\ ForeignOnlyFromStart
    BY <1>2, MapIsTable
       DEF Init, CountersInit, Nothing, ReportsAccounted, Outstanding, ForeignOnlyFromStart
  <1> QED
    BY <1>1, <1>3, <1>4, <1>5, <1>6, <1>7 DEF IInv

-----------------------------------------------------------------------------
(* The probes.                                                               *)

(* Nothing is written and the task stands still: nothing is owed otherwise. *)
LEMMA StandsStill ==
  ASSUME ReadAhead, ReadWhole, ReportsAccounted,
         UNCHANGED <<tables, recorded, orphaned, iterating, got, printed>>,
         late => late', collided => collided', ~collided => it' = it,
         upc' = upc
  PROVE  ReadAhead' /\ ReadWhole' /\ ReportsAccounted'
  <1>1. \A k \in Key : Amount(Map, k)' = Amount(Map, k)
    BY DEF Amount
  <1>2. ReadAhead'
    BY <1>1 DEF ReadAhead, Nothing
  <1>3. ReadWhole'
    BY <1>1 DEF ReadWhole, Present
  <1>4. ReportsAccounted'
    BY <1>1 DEF ReportsAccounted, Outstanding
  <1> QED
    BY <1>2, <1>3, <1>4

(* A probe that begins: what it found the filter to be is remembered. *)
LEMMA EnterInv ==
  ASSUME NEW c \in CPU, NEW m \in Comm, NEW k \in Key, IInv, Enter(c, m, k)
  PROVE  IInv'
  <1>0. /\ CountersInv /\ EnterProbe(c, m, Map, k, 1) /\ attached
        /\ UNCHANGED <<tables, filterOn, it, iterating, recorded, collided, orphaned>>
        /\ UNCHANGED <<taskVars, printed, late, strangers>>
        /\ events' = events + 1
        /\ began' = [began EXCEPT ![c] = upc \notin {"attach", "filter"}]
    BY DEF Enter, EnterProbe, IInv
  <1>1. CountersInv'
    BY <1>0, MapIsTable, EnterKeeps
  <1>2. /\ \A d \in CPU \ {c} : probe'[d] = probe[d]
        /\ probe'[c].pc = "filter" /\ probe'[c].map = Map /\ probe'[c].add = 1
    <2> DEFINE p == [IdleProbe EXCEPT !.pc = "filter", !.comm = m, !.map = Map,
                                      !.key = k, !.add = 1]
    <2>1. /\ p \in ProbeType /\ p.pc = "filter" /\ p.map = Map /\ p.add = 1
          /\ Becomes(c, p)
      BY <1>0, MapIsTable, IdleType DEF EnterProbe, ProbeType
    <2> HIDE DEF p
    <2>2. CountersType
      BY <1>0 DEF CountersInv
    <2> QED
      BY <2>1, <2>2, ProbeChange
  <1>3. TypeOK'
    BY <1>0, <1>1 DEF IInv, TypeOK, CountersInv, taskVars
  <1>4. OneMap'
    BY <1>0, <1>2 DEF IInv, OneMap
  <1>5. Filtered'
    BY <1>0, <1>2 DEF IInv, TypeOK, Filtered, taskVars
  <1>6. ReadAhead' /\ ReadWhole' /\ ReportsAccounted'
    BY <1>0, StandsStill DEF IInv, taskVars
  <1>7. ForeignOnlyFromStart'
    BY <1>0 DEF IInv, ForeignOnlyFromStart
  <1> QED
    BY <1>1, <1>3, <1>4, <1>5, <1>6, <1>7 DEF IInv

(* A probe's step: a count comes into the map or nothing does. *)
LEMMA ProbeInv ==
  ASSUME NEW c \in CPU, IInv, Probe(c)
  PROVE  IInv'
  <1>0. /\ CountersInv /\ ProbeStep(c)
        /\ UNCHANGED <<taskVars, events, printed, began>>
    BY DEF Probe, IInv
  <1>1. CountersInv' /\ Effect(c)
    BY <1>0, ProbeKeeps
  <1>2. /\ probe[c].pc # "idle" /\ \A d \in CPU \ {c} : probe'[d] = probe[d]
        /\ probe'[c] = IdleProbe \/ Follows(probe[c], probe'[c])
    BY <1>0, ProbeGoesOn
  <1>3. probe[c].map = Map /\ probe[c].add = 1 /\ probe[c].key \in Key
    BY <1>0, <1>2 DEF IInv, OneMap, CountersInv, CountersType, ProbeType
  <1>4. /\ late' \in BOOLEAN /\ strangers' \in BOOLEAN
        /\ (late => late') /\ (recorded' # recorded /\ Busy => late')
        /\ strangers' => strangers \/ (args.comm /\ began[c] /\ recorded' # recorded
                                          /\ probe[c].comm \notin Target)
    BY DEF Probe, IInv, TypeOK
  <1>5. TypeOK'
    BY <1>0, <1>1, <1>4 DEF IInv, TypeOK, CountersInv, taskVars
  <1>6. OneMap'
    BY <1>1, <1>2, <1>3, MapIsTable, IdleType DEF IInv, OneMap, Effect, Follows
  <1>7. Filtered'
    <2>1. Filtered /\ UNCHANGED <<filterOn, args, attached, upc, began>>
      BY <1>0, <1>1 DEF IInv, Effect, taskVars
    <2>2. probe[c].pc \in {"filter", "lookup", "load", "store", "insert"}
      BY <1>0, <1>2 DEF CountersInv, CountersType, ProbeType
    <2>3. began[c] /\ args.comm /\ probe'[c].pc # "idle" => probe'[c].comm \in Target
      BY <1>2, <2>1, <2>2, IdleType DEF Filtered, Follows
    <2> QED
      BY <1>2, <2>1, <2>3 DEF Filtered
  <1>8. CASE UNCHANGED <<tables, recorded>>
    <2>1. ReadAhead' /\ ReadWhole' /\ ReportsAccounted'
      BY <1>0, <1>1, <1>4, <1>8, StandsStill DEF IInv, Effect, taskVars
    <2>2. ForeignOnlyFromStart'
      BY <1>4, <1>8 DEF IInv, ForeignOnlyFromStart
    <2> QED
      BY <1>1, <1>5, <1>6, <1>7, <2>1, <2>2 DEF IInv
  <1>9. CASE ~UNCHANGED <<tables, recorded>>
    <2>1. /\ probe[c].pc \in {"store", "insert"} /\ Added(c)
          /\ UNCHANGED <<collided, orphaned>>
          /\ ~collided /\ ~orphaned => Adds(c)
          /\ ~collided => it' = it
          /\ \A k \in Key : Present(tables[Map], k) => Present(tables'[Map], k)
      BY <1>1, <1>9, MapIsTable DEF Effect
    <2>2. recorded \in [Table -> [Key -> Nat]]
      BY <1>0 DEF CountersInv, CountersType
    <2>3. \A k \in Key : recorded'[Map][k]
                           = recorded[Map][k] + IF k = probe[c].key THEN 1 ELSE 0
      BY <1>3, <2>1, <2>2, MapIsTable DEF Added
    <2>4. recorded' # recorded
      <3>1. recorded'[Map][probe[c].key] = recorded[Map][probe[c].key] + 1
        BY <1>3, <2>3
      <3>2. recorded[Map][probe[c].key] \in Nat
        BY <1>3, <2>2, MapIsTable
      <3> QED
        BY <3>1, <3>2
    <2>5. ASSUME ~collided, ~orphaned, NEW k \in Key
          PROVE  /\ Amount(Map, k) \in Nat
                 /\ Amount(Map, k)' = Amount(Map, k) + IF k = probe[c].key THEN 1 ELSE 0
      <3>1. Amount(Map, k) \in Nat
        BY <1>0, AmountType, MapIsTable DEF CountersInv
      <3> QED
        BY <1>3, <2>1, <2>5, <3>1, MapIsTable DEF Adds, Entry
    <2>6. got \in [Key -> Nat] /\ printed \in [Key -> Nat]
      BY DEF IInv, TypeOK
    <2>7. ReadAhead'
      <3>1. ASSUME ~collided, ~orphaned, NEW k \in Key
            PROVE  got[k] <= Amount(Map, k)'
        BY <2>5, <2>6, <3>1 DEF IInv, ReadAhead
      <3> QED
        BY <1>0, <1>1, <2>1, <3>1 DEF IInv, ReadAhead, Effect, taskVars, Nothing
    <2>8. ReadWhole'
      <3>1. ~late' => upc' \notin {"read", "emit", "clear", "remove"}
        <4>1. (Busy => late') /\ upc' = upc
          BY <1>0, <1>4, <2>4 DEF taskVars
        <4> QED
          BY <4>1 DEF Busy
      <3> QED
        BY <3>1 DEF ReadWhole
    <2>9. ReportsAccounted'
      <3>1. ASSUME ~collided, ~orphaned, NEW k \in Key
            PROVE  /\ Outstanding(k)' >= 0
                   /\ printed[k] + Outstanding(k)' <= recorded'[Map][k]
                   /\ ~late => printed[k] + Outstanding(k)' = recorded'[Map][k]
        <4> DEFINE n == IF k = probe[c].key THEN 1 ELSE 0
                   g == IF upc \in {"clear", "remove"} THEN got[k] ELSE 0
        <4>1. /\ Outstanding(k) >= 0
              /\ printed[k] + Outstanding(k) <= recorded[Map][k]
              /\ ~late => printed[k] + Outstanding(k) = recorded[Map][k]
          BY <3>1 DEF IInv, ReportsAccounted
        <4>2. Outstanding(k) = Amount(Map, k) - g /\ Outstanding(k)' = Amount(Map, k)' - g
          BY <1>0 DEF Outstanding, taskVars
        <4>3. recorded'[Map][k] = recorded[Map][k] + n /\ Amount(Map, k)' = Amount(Map, k) + n
          BY <2>3, <2>5, <3>1
        <4>4. /\ n \in Nat /\ g \in Nat /\ Amount(Map, k) \in Nat /\ printed[k] \in Nat
              /\ recorded[Map][k] \in Nat
          BY <2>2, <2>5, <2>6, <3>1, MapIsTable
        <4> HIDE DEF n, g
        <4>5. Outstanding(k)' = Outstanding(k) + n /\ Outstanding(k) \in Int
          BY <4>2, <4>3, <4>4
        <4> QED
          BY <4>1, <4>3, <4>4, <4>5
      <3> QED
        BY <1>0, <1>4, <2>1, <3>1 DEF IInv, ReportsAccounted, taskVars
    <2>10. ForeignOnlyFromStart'
      BY <1>4, <2>1 DEF IInv, ForeignOnlyFromStart, Filtered
    <2> QED
      BY <1>1, <1>5, <1>6, <1>7, <2>7, <2>8, <2>9, <2>10 DEF IInv
  <1> QED
    BY <1>8, <1>9

-----------------------------------------------------------------------------
(* The task.                                                                 *)

(* What the task's steps leave to be shown when they touch neither the filter *)
(* nor the probes.                                                            *)
LEMMA TaskRest ==
  ASSUME IInv, UNCHANGED <<filterOn, probe, args, began, strangers>>,
         attached' => attached, it'.map = it.map,
         upc \notin {"attach", "filter"}, upc' \notin {"attach", "filter"}
  PROVE  OneMap' /\ Filtered' /\ ForeignOnlyFromStart'
  BY DEF IInv, OneMap, Filtered, ForeignOnlyFromStart

(* The iteration is over Map; what it holds is a number. *)
LEMMA MapFacts ==
  ASSUME IInv
  PROVE  /\ it.map = Map /\ it \in IterType
         /\ tables[Map] \in MapType(Key)
         /\ KeysOf(tables[Map]) = {k \in Key : Present(tables[Map], k)}
         /\ recorded[Map] \in [Key -> Nat] /\ got \in [Key -> Nat] /\ printed \in [Key -> Nat]
         /\ \A k \in Key : /\ Amount(Map, k) \in Nat
                           /\ Present(tables[Map], k) => Amount(Map, k) = ValueOf(tables[Map], k)
                           /\ ~Present(tables[Map], k) => Amount(Map, k) = 0
  <1>1. /\ it.map = Map /\ it \in IterType /\ tables[Map] \in MapType(Key)
        /\ recorded[Map] \in [Key -> Nat] /\ got \in [Key -> Nat] /\ printed \in [Key -> Nat]
    BY MapIsTable DEF IInv, TypeOK, CountersInv, CountersType, OneMap
  <1>2. \A k \in Key :
            /\ Amount(Map, k) \in Nat
            /\ Present(tables[Map], k) => Amount(Map, k) = ValueOf(tables[Map], k)
            /\ ~Present(tables[Map], k) => Amount(Map, k) = 0
    BY AmountType, MapIsTable DEF IInv, CountersInv, Amount
  <1>3. KeysOf(tables[Map]) = {k \in Key : Present(tables[Map], k)}
    BY <1>1, KeysPresent
  <1> QED
    BY <1>1, <1>2, <1>3

(* Before the first tick and after the last nothing is owed but the counts. *)
LEMMA StartInv ==
  ASSUME IInv, Attach \/ SetFilter \/ Exit
  PROVE  IInv'
  <1>0. /\ UNCHANGED <<tables, probe, it, iterating, recorded, collided, orphaned>>
        /\ UNCHANGED <<args, got, events, late, began, strangers, printed>>
        /\ upc \in {"attach", "filter", "select"} /\ upc' \in {"filter", "select", "exited"}
        /\ attached' \in BOOLEAN /\ filterOn' \in BOOLEAN
    BY DEF Attach, SetFilter, Exit, counters, histVars, IInv, TypeOK, CountersType
  <1>1. CountersInv'
    BY <1>0, CountersStay DEF IInv
  <1>2. TypeOK'
    BY <1>0, <1>1 DEF IInv, TypeOK, CountersInv
  <1>3. OneMap' /\ ForeignOnlyFromStart'
    BY <1>0 DEF IInv, OneMap, ForeignOnlyFromStart
  <1>4. Filtered'
    <2>1. CASE Attach
      BY <2>1 DEF Attach, IInv, Filtered, counters, histVars
    <2>2. CASE SetFilter
      BY <2>2 DEF SetFilter, IInv, Filtered, histVars
    <2>3. CASE Exit
      BY <2>3 DEF Exit, IInv, Filtered, counters, histVars
    <2> QED
      BY <2>1, <2>2, <2>3
  <1>5. \A k \in Key : Amount(Map, k)' = Amount(Map, k)
    BY <1>0 DEF Amount
  <1>6. ReadAhead'
    BY <1>0, <1>5 DEF IInv, ReadAhead, Nothing
  <1>7. ReadWhole'
    BY <1>0 DEF ReadWhole
  <1>8. ReportsAccounted'
    BY <1>0, <1>5 DEF IInv, ReportsAccounted, Outstanding
  <1> QED
    BY <1>1, <1>2, <1>3, <1>4, <1>6, <1>7, <1>8 DEF IInv

(* The iteration of emit_stats begins with nothing read. *)
LEMMA TickInv ==
  ASSUME IInv, Tick
  PROVE  IInv'
  <1>0. /\ IterStart(Map) /\ UNCHANGED kernelSide
        /\ UNCHANGED <<args, attached, got, events, late, began, strangers, printed>>
        /\ upc = "select" /\ upc' = "read" /\ iterating'
        /\ it'.map = Map /\ it'.seen = {} /\ it'.walk = KeysOf(tables[Map])
    BY IdleType DEF Tick, IterStart, histVars, NoIteration
  <1>1. CountersInv'
    BY <1>0, CounterMapsAssumption, MapIsTable, IterKeeps DEF IInv
  <1>2. TypeOK'
    BY <1>0, <1>1 DEF IInv, TypeOK, CountersInv
  <1>3. OneMap' /\ Filtered' /\ ForeignOnlyFromStart'
    BY <1>0, MapFacts, TaskRest DEF kernelSide
  <1>4. \A k \in Key : Amount(Map, k)' = Amount(Map, k)
    BY <1>0 DEF Amount, kernelSide
  <1>5. \A k \in Key : got[k] = 0
    BY <1>0 DEF IInv, ReadAhead, Nothing
  <1>6. ReadAhead'
    BY <1>0, <1>4, <1>5, MapFacts DEF ReadAhead
  <1>7. ReadWhole'
    BY <1>0, MapFacts DEF ReadWhole, kernelSide
  <1>8. ReportsAccounted'
    BY <1>0, <1>4 DEF IInv, ReportsAccounted, Outstanding, kernelSide
  <1> QED
    BY <1>1, <1>2, <1>3, <1>6, <1>7, <1>8 DEF IInv

(* A key is read once, with all it has at that moment. *)
LEMMA ReadKeyInv ==
  ASSUME NEW k \in Key, IInv, ReadKey(k)
  PROVE  IInv'
  <1>0. /\ IterKey(k) \/ IterAgain(k)
        /\ UNCHANGED kernelSide /\ UNCHANGED iterating
        /\ UNCHANGED <<args, attached, upc, events, late, began, strangers, printed>>
        /\ upc = "read" /\ Present(tables[it.map], k)
        /\ got' = [got EXCEPT ![k] = @ + ValueOf(tables[Map], k)]
    BY DEF ReadKey, IterKey, IterAgain, histVars
  <1>1. CountersInv' /\ it'.map = it.map
    <2>1. CountersInv'
      BY <1>0, MapIsTable, IterKeeps DEF IInv
    <2> QED
      BY <1>0, <2>1, MapFacts DEF IterKey, IterAgain, IterType
  <1>2. ~collided => /\ k \notin it.seen /\ it'.walk = it.walk
                     /\ it'.seen = it.seen \cup {k}
    BY <1>0, MapFacts, OnlyCollided DEF IInv, IterKey, IterType
  <1>3. ValueOf(tables[Map], k) = Amount(Map, k) /\ Amount(Map, k) \in Nat
    BY <1>0, MapFacts
  <1>4. /\ got' \in [Key -> Nat] /\ got'[k] = got[k] + Amount(Map, k)
        /\ \A j \in Key \ {k} : got'[j] = got[j]
    <2>1. got[k] + Amount(Map, k) \in Nat /\ got \in [Key -> Nat]
      BY <1>3, MapFacts
    <2> QED
      BY <1>0, <1>3, <2>1
  <1>5. TypeOK'
    BY <1>0, <1>1, <1>4 DEF IInv, TypeOK, CountersInv
  <1>6. OneMap' /\ Filtered' /\ ForeignOnlyFromStart'
    BY <1>0, <1>1, TaskRest DEF kernelSide
  <1>7. \A j \in Key : Amount(Map, j)' = Amount(Map, j) /\ Amount(Map, j) \in Nat
    BY <1>0, MapFacts DEF Amount, kernelSide
  <1>8. ~collided /\ ~orphaned => got'[k] = Amount(Map, k)
    <2> SUFFICES ASSUME ~collided, ~orphaned PROVE got'[k] = Amount(Map, k)
      OBVIOUS
    <2>1. got[k] \in Nat /\ ~(got[k] > 0)
      BY <1>0, <1>2, MapFacts DEF IInv, ReadAhead
    <2> QED
      BY <1>3, <1>4, <2>1
  <1>9. ReadAhead'
    <2>1. ASSUME ~collided, ~orphaned, NEW j \in Key
          PROVE  got'[j] <= Amount(Map, j) /\ (got'[j] > 0 => j \in it'.seen)
      <3>1. CASE j = k
        BY <1>2, <1>3, <1>8, <2>1, <3>1
      <3>2. CASE j # k
        BY <1>0, <1>2, <1>4, <2>1, <3>2 DEF IInv, ReadAhead
      <3> QED
        BY <3>1, <3>2
    <2> QED
      BY <1>0, <1>7, <2>1 DEF IInv, ReadAhead, kernelSide
  <1>10. ReadWhole'
    <2>1. ASSUME ~late, ~collided, ~orphaned, NEW j \in Key, Present(tables[Map], j)
          PROVE  j \in it'.walk /\ (j \in it'.seen => got'[j] = Amount(Map, j))
      <3>1. CASE j = k
        BY <1>0, <1>2, <1>8, <2>1, <3>1 DEF IInv, ReadWhole
      <3>2. CASE j # k
        BY <1>0, <1>2, <1>4, <2>1, <3>2 DEF IInv, ReadWhole
      <3> QED
        BY <3>1, <3>2
    <2> QED
      BY <1>0, <1>7, <2>1 DEF ReadWhole, kernelSide
  <1>11. ReportsAccounted'
    BY <1>0, <1>7 DEF IInv, ReportsAccounted, Outstanding, kernelSide
  <1> QED
    BY <1>1, <1>5, <1>6, <1>9, <1>10, <1>11 DEF IInv

(* All of the map has been read, or something came in. *)
LEMMA ReadEndInv ==
  ASSUME IInv, ReadEnd
  PROVE  IInv'
  <1>0. /\ IterEnd /\ UNCHANGED kernelSide /\ ~iterating'
        /\ UNCHANGED <<args, attached, got, events, late, began, strangers, printed>>
        /\ upc = "read" /\ upc' = "emit" /\ it.walk \subseteq it.seen
        /\ it'.map = it.map /\ it'.seen = it.seen
    BY MapFacts DEF ReadEnd, IterEnd, histVars, IterType
  <1>1. CountersInv'
    BY <1>0, CounterMapsAssumption, MapIsTable, IterKeeps DEF IInv
  <1>2. TypeOK'
    BY <1>0, <1>1 DEF IInv, TypeOK, CountersInv
  <1>3. OneMap' /\ Filtered' /\ ForeignOnlyFromStart'
    BY <1>0, TaskRest DEF kernelSide
  <1>4. \A k \in Key : Amount(Map, k)' = Amount(Map, k)
    BY <1>0 DEF Amount, kernelSide
  <1>5. ReadAhead'
    BY <1>0, <1>4 DEF IInv, ReadAhead, kernelSide
  <1>6. ReadWhole'
    BY <1>0, <1>4 DEF IInv, ReadWhole, kernelSide
  <1>7. ReportsAccounted'
    BY <1>0, <1>4 DEF IInv, ReportsAccounted, Outstanding, kernelSide
  <1> QED
    BY <1>1, <1>2, <1>3, <1>5, <1>6, <1>7 DEF IInv

(* What is printed is no longer owed. *)
LEMMA EmitInv ==
  ASSUME IInv, Emit
  PROVE  IInv'
  <1>0. /\ IterStart(Map) /\ UNCHANGED kernelSide
        /\ UNCHANGED <<args, attached, got, events, late, began, strangers>>
        /\ upc = "emit" /\ upc' = "clear" /\ iterating'
        /\ it'.map = Map /\ it'.walk = KeysOf(tables[Map])
        /\ printed' = [k \in Key |-> printed[k] + got[k]]
    BY IdleType DEF Emit, IterStart, histVars, NoIteration
  <1>1. CountersInv'
    BY <1>0, CounterMapsAssumption, MapIsTable, IterKeeps DEF IInv
  <1>2. printed' \in [Key -> Nat]
    BY <1>0, MapFacts
  <1>3. TypeOK'
    BY <1>0, <1>1, <1>2 DEF IInv, TypeOK, CountersInv
  <1>4. OneMap' /\ Filtered' /\ ForeignOnlyFromStart'
    BY <1>0, MapFacts, TaskRest DEF kernelSide
  <1>5. \A k \in Key : Amount(Map, k)' = Amount(Map, k)
    BY <1>0 DEF Amount, kernelSide
  <1>6. ReadAhead'
    <2>1. ASSUME ~collided, ~orphaned, NEW k \in Key, got[k] > 0
          PROVE  k \in it'.walk
      <3>1. got[k] <= Amount(Map, k) /\ got[k] \in Nat
        BY <2>1, MapFacts DEF IInv, ReadAhead
      <3> QED
        BY <1>0, <2>1, <3>1, MapFacts
    <2> QED
      BY <1>0, <1>5, <2>1 DEF IInv, ReadAhead, kernelSide
  <1>7. ReadWhole'
    BY <1>0, <1>5, MapFacts DEF IInv, ReadWhole, kernelSide
  <1>8. ReportsAccounted'
    <2>1. ASSUME ~collided, ~orphaned, NEW k \in Key
          PROVE  /\ Outstanding(k)' >= 0
                 /\ printed'[k] + Outstanding(k)' = printed[k] + Outstanding(k)
      <3>1. /\ got[k] <= Amount(Map, k) /\ got[k] \in Nat /\ printed[k] \in Nat
            /\ Amount(Map, k) \in Nat
        BY <2>1, MapFacts DEF IInv, ReadAhead
      <3>2. Outstanding(k) = Amount(Map, k) /\ Outstanding(k)' = Amount(Map, k) - got[k]
        BY <1>0, <1>5, <3>1 DEF Outstanding
      <3>3. printed'[k] = printed[k] + got[k]
        BY <1>0
      <3> QED
        BY <3>1, <3>2, <3>3
    <2> QED
      BY <1>0, <2>1 DEF IInv, ReportsAccounted, kernelSide
  <1> QED
    BY <1>1, <1>3, <1>4, <1>6, <1>7, <1>8 DEF IInv

(* Collecting the keys once more reads no values. *)
LEMMA ClearKeyInv ==
  ASSUME NEW k \in Key, IInv, ClearKey(k)
  PROVE  IInv'
  <1>0. /\ IterKey(k) \/ IterAgain(k)
        /\ UNCHANGED kernelSide /\ UNCHANGED iterating
        /\ UNCHANGED <<taskVars, events, late, began, strangers, printed>>
        /\ upc = "clear"
    BY DEF ClearKey, IterKey, IterAgain, histVars
  <1>1. CountersInv'
    BY <1>0, MapIsTable, IterKeeps DEF IInv
  <1>2. it'.map = it.map /\ it'.walk = it.walk
    BY <1>0, MapFacts DEF IterKey, IterAgain, IterType
  <1>3. TypeOK'
    BY <1>0, <1>1 DEF IInv, TypeOK, CountersInv, taskVars
  <1>4. OneMap' /\ Filtered' /\ ForeignOnlyFromStart'
    BY <1>0, <1>2, TaskRest DEF kernelSide, taskVars
  <1>5. \A j \in Key : Amount(Map, j)' = Amount(Map, j)
    BY <1>0 DEF Amount, kernelSide
  <1>6. ReadAhead'
    BY <1>0, <1>2, <1>5 DEF IInv, ReadAhead, kernelSide, taskVars
  <1>7. ReadWhole'
    BY <1>0, <1>2, <1>5 DEF IInv, ReadWhole, kernelSide, taskVars
  <1>8. ReportsAccounted'
    BY <1>0, <1>5 DEF IInv, ReportsAccounted, Outstanding, kernelSide, taskVars
  <1> QED
    BY <1>1, <1>3, <1>4, <1>6, <1>7, <1>8 DEF IInv

(* What was read has been collected for removal. *)
LEMMA ClearEndInv ==
  ASSUME IInv, ClearEnd
  PROVE  IInv'
  <1>0. /\ IterEnd /\ UNCHANGED kernelSide /\ ~iterating'
        /\ UNCHANGED <<args, attached, got, events, late, began, strangers, printed>>
        /\ upc = "clear" /\ upc' = "remove" /\ it.walk \subseteq it.seen
        /\ it'.map = it.map /\ it'.seen = it.seen
    BY MapFacts DEF ClearEnd, IterEnd, histVars, IterType
  <1>1. CountersInv'
    BY <1>0, CounterMapsAssumption, MapIsTable, IterKeeps DEF IInv
  <1>2. TypeOK'
    BY <1>0, <1>1 DEF IInv, TypeOK, CountersInv
  <1>3. OneMap' /\ Filtered' /\ ForeignOnlyFromStart'
    BY <1>0, TaskRest DEF kernelSide
  <1>4. \A k \in Key : Amount(Map, k)' = Amount(Map, k)
    BY <1>0 DEF Amount, kernelSide
  <1>5. ReadAhead'
    BY <1>0, <1>4 DEF IInv, ReadAhead, kernelSide
  <1>6. ReadWhole'
    BY <1>0, <1>4 DEF IInv, ReadWhole, kernelSide
  <1>7. ReportsAccounted'
    BY <1>0, <1>4 DEF IInv, ReportsAccounted, Outstanding, kernelSide
  <1> QED
    BY <1>1, <1>2, <1>3, <1>5, <1>6, <1>7 DEF IInv

(* A removed key takes with it what was read, and what came in since. *)
LEMMA RemoveInv ==
  ASSUME NEW k \in Key, IInv, Remove(k)
  PROVE  IInv'
  <1>0. /\ RemoveKey(k) /\ ~iterating
        /\ UNCHANGED <<args, attached, upc, events, late, began, strangers, printed>>
        /\ upc = "remove" /\ got' = [got EXCEPT ![k] = 0]
    BY DEF Remove, RemoveKey, histVars
  <1>1. /\ CountersInv'
        /\ UNCHANGED <<filterOn, probe, iterating, recorded, collided>>
        /\ orphaned => orphaned'
        /\ it'.map = it.map
        /\ ~collided => it' = [it EXCEPT !.seen = @ \ {k}]
        /\ ~Present(tables'[Map], k)
        /\ \A j \in Key \ {k} : /\ Present(tables'[Map], j) <=> Present(tables[Map], j)
                                /\ Amount(Map, j)' = Amount(Map, j)
    <2>1. CountersInv /\ it.map = Map
      BY MapFacts DEF IInv
    <2>2. \A j \in Key \ {k} : Amount(Map, j)' = Amount(Map, j)
      <3>1. \A j \in Key \ {k} : Amount(it.map, j)' = Amount(it.map, j)
        BY <1>0, <2>1, RemoveKeeps
      <3>2. it'.map = it.map
        BY <1>0, <2>1, RemoveKeeps
      <3> QED
        BY <2>1, <3>1, <3>2 DEF Amount
    <2> QED
      BY <1>0, <2>1, <2>2, RemoveKeeps
  <1>2. Amount(Map, k)' = 0
    BY <1>1 DEF Amount
  <1>3. got' \in [Key -> Nat] /\ got'[k] = 0 /\ \A j \in Key \ {k} : got'[j] = got[j]
    BY <1>0, MapFacts
  <1>4. ~collided => it'.seen = it.seen \ {k}
    BY <1>1, MapFacts DEF IterType
  <1>5. TypeOK'
    BY <1>0, <1>1, <1>3 DEF IInv, TypeOK, CountersInv
  <1>6. OneMap' /\ Filtered' /\ ForeignOnlyFromStart'
    BY <1>0, <1>1, TaskRest
  <1>7. ReadAhead'
    <2>1. ASSUME ~collided, ~orphaned, NEW j \in Key
          PROVE  got'[j] <= Amount(Map, j)' /\ (got'[j] > 0 => j \in it'.seen)
      <3>1. CASE j = k
        BY <1>2, <1>3, <3>1
      <3>2. CASE j # k
        BY <1>0, <1>1, <1>3, <1>4, <2>1, <3>2 DEF IInv, ReadAhead
      <3> QED
        BY <3>1, <3>2
    <2> QED
      BY <1>0, <1>1, <2>1 DEF IInv, ReadAhead
  <1>8. ReadWhole'
    <2>1. ASSUME ~late, ~collided, ~orphaned, NEW j \in Key, Present(tables'[Map], j)
          PROVE  j \in it'.seen /\ got'[j] = Amount(Map, j)'
      <3>1. j # k /\ Present(tables[Map], j)
        BY <1>1, <2>1
      <3> QED
        BY <1>0, <1>1, <1>3, <1>4, <2>1, <3>1 DEF IInv, ReadWhole
    <2> QED
      BY <1>0, <1>1, <2>1 DEF ReadWhole
  <1>9. ReportsAccounted'
    <2>1. ASSUME ~collided, ~orphaned, NEW j \in Key
          PROVE  /\ Outstanding(j)' >= 0
                 /\ printed[j] + Outstanding(j)' <= recorded[Map][j]
                 /\ ~late => printed[j] + Outstanding(j)' = recorded[Map][j]
      <3>0. /\ Outstanding(j) >= 0
            /\ printed[j] + Outstanding(j) <= recorded[Map][j]
            /\ ~late => printed[j] + Outstanding(j) = recorded[Map][j]
            /\ Outstanding(j) = Amount(Map, j) - got[j]
            /\ Outstanding(j)' = Amount(Map, j)' - got'[j]
        BY <1>0, <2>1 DEF IInv, ReportsAccounted, Outstanding
      <3>1. CASE j = k
        <4>1. Outstanding(j)' = 0
          BY <1>2, <1>3, <3>0, <3>1
        <4>2. /\ printed[j] \in Nat /\ recorded[Map][j] \in Nat
              /\ Amount(Map, j) \in Nat /\ got[j] \in Nat
          BY MapFacts
        <4>3. ~late => Amount(Map, j) = got[j]
          <5>1. CASE Present(tables[Map], j)
            BY <1>0, <2>1, <5>1 DEF IInv, ReadWhole
          <5>2. CASE ~Present(tables[Map], j)
            <6>1. Amount(Map, j) = 0 /\ got[j] <= Amount(Map, j)
              BY <2>1, <5>2, MapFacts DEF IInv, ReadAhead
            <6> QED
              BY <4>2, <6>1
          <5> QED
            BY <5>1, <5>2
        <4> QED
          BY <3>0, <4>1, <4>2, <4>3
      <3>2. CASE j # k
        BY <1>1, <1>3, <3>0, <3>2
      <3> QED
        BY <3>1, <3>2
    <2> QED
      BY <1>0, <1>1, <2>1 DEF IInv, ReportsAccounted
  <1> QED
    BY <1>1, <1>5, <1>6, <1>7, <1>8, <1>9 DEF IInv

(* A removal that fails has been preceded by a collision of probes. *)
LEMMA RemoveFailsInv ==
  ASSUME NEW k \in Key, IInv, RemoveFails(k)
  PROVE  IInv'
  <1>0. /\ collided /\ ~iterating
        /\ UNCHANGED counters /\ ~attached' /\ attached' \in BOOLEAN
        /\ UNCHANGED <<args, got, events, late, began, strangers, printed>>
        /\ upc = "remove" /\ upc' = "failed"
    BY OnlyCollided DEF RemoveFails, RemoveMissing, histVars, IInv
  <1>1. CountersInv'
    BY <1>0, CountersStay DEF IInv, TypeOK, CountersType, counters
  <1>2. TypeOK'
    BY <1>0, <1>1 DEF IInv, TypeOK, CountersInv
  <1>3. OneMap' /\ Filtered' /\ ForeignOnlyFromStart'
    BY <1>0, TaskRest DEF counters
  <1>4. ReadAhead' /\ ReadWhole' /\ ReportsAccounted'
    BY <1>0 DEF ReadAhead, ReadWhole, ReportsAccounted, counters
  <1> QED
    BY <1>1, <1>2, <1>3, <1>4 DEF IInv

(* All that was read has been removed: nothing is left over for the next round. *)
LEMMA RemoveEndInv ==
  ASSUME IInv, RemoveEnd
  PROVE  IInv'
  <1>0. /\ UNCHANGED counters /\ it.seen = {} /\ got' = Nothing
        /\ UNCHANGED <<args, attached, events, late, began, strangers, printed>>
        /\ upc = "remove" /\ upc' = "select"
    BY DEF RemoveEnd, histVars
  <1>1. CountersInv'
    BY <1>0, CountersStay DEF IInv, TypeOK, CountersType, counters
  <1>2. TypeOK'
    BY <1>0, <1>1 DEF IInv, TypeOK, CountersInv, Nothing
  <1>3. OneMap' /\ Filtered' /\ ForeignOnlyFromStart'
    BY <1>0, TaskRest DEF counters
  <1>4. \A k \in Key : Amount(Map, k)' = Amount(Map, k) /\ Amount(Map, k) \in Nat
    BY <1>0, MapFacts DEF Amount, counters
  <1>5. ReadAhead'
    BY <1>0, <1>4 DEF IInv, ReadAhead, Nothing, counters
  <1>6. ReadWhole'
    BY <1>0 DEF ReadWhole
  <1>7. ReportsAccounted'
    <2>1. ASSUME ~collided, ~orphaned, NEW k \in Key
          PROVE  Outstanding(k)' = Outstanding(k)
      <3>1. got[k] \in Nat /\ ~(got[k] > 0)
        BY <1>0, <2>1, MapFacts DEF IInv, ReadAhead
      <3> QED
        BY <1>0, <1>4, <3>1 DEF Outstanding
    <2> QED
      BY <1>0, <2>1 DEF IInv, ReportsAccounted, counters
  <1> QED
    BY <1>1, <1>2, <1>3, <1>5, <1>6, <1>7 DEF IInv

-----------------------------------------------------------------------------
(* The invariant, and what follows from it.                                  *)

(* Every step keeps the invariant. *)
LEMMA NextInv == IInv /\ [Next]_vars => IInv'
  <1> SUFFICES ASSUME IInv, [Next]_vars PROVE IInv'
    OBVIOUS
  <1>1. CASE Next
    <2>1. ASSUME NEW c \in CPU, NEW m \in Comm, NEW k \in Key, Enter(c, m, k) PROVE IInv'
      BY <2>1, EnterInv
    <2>2. ASSUME NEW c \in CPU, Probe(c) PROVE IInv'
      BY <2>2, ProbeInv
    <2>3. CASE Attach \/ SetFilter \/ Exit
      BY <2>3, StartInv
    <2>4. CASE Tick \/ ReadEnd \/ Emit \/ ClearEnd \/ RemoveEnd
      BY <2>4, TickInv, ReadEndInv, EmitInv, ClearEndInv, RemoveEndInv
    <2>5. ASSUME NEW k \in Key, ReadKey(k) \/ ClearKey(k) \/ Remove(k) \/ RemoveFails(k)
          PROVE  IInv'
      BY <2>5, ReadKeyInv, ClearKeyInv, RemoveInv, RemoveFailsInv
    <2> QED
      BY <1>1, <2>1, <2>2, <2>3, <2>4, <2>5 DEF Next, TaskStep
  <1>2. CASE UNCHANGED vars
    <2>0. /\ UNCHANGED <<tables, filterOn, probe, it, iterating, recorded, collided, orphaned>>
          /\ UNCHANGED <<args, attached, upc, got, events, printed, late, began, strangers>>
      BY <1>2 DEF vars, taskVars
    <2>1. CountersInv'
      BY <2>0, CountersStay DEF IInv, TypeOK, CountersType
    <2>2. TypeOK'
      BY <2>0, <2>1 DEF IInv, TypeOK, CountersInv
    <2>3. OneMap' /\ Filtered' /\ ForeignOnlyFromStart'
      BY <2>0 DEF IInv, OneMap, Filtered, ForeignOnlyFromStart
    <2>4. ReadAhead' /\ ReadWhole' /\ ReportsAccounted'
      BY <2>0, StandsStill DEF IInv
    <2> QED
      BY <2>1, <2>2, <2>3, <2>4 DEF IInv
  <1> QED
    BY <1>1, <1>2

(* The invariant of the model: maps, probes and iteration stay in order, what *)
(* was read is still in the map, and while nothing comes in it is all there.  *)
THEOREM Invariant == Spec => []IInv
  BY InitInv, NextInv, PTL DEF Spec

(* As long as no two probes met in an entry, and none adds through a pointer  *)
(* to a removed element, no report claims more than was counted, and if       *)
(* nothing comes in between tick and clearing, each call is in one report or  *)
(* will be: emit_stats followed by clear_map loses nothing.                   *)
THEOREM ReportSafety == Spec => []ReportsAccounted
  <1>1. IInv => ReportsAccounted
    BY DEF IInv
  <1> QED
    BY Invariant, <1>1, PTL

(* With --comm no task of another name is counted by a probe that began with  *)
(* the filter written.                                                        *)
THEOREM FilterSafety == Spec => []ForeignOnlyFromStart
  <1>1. IInv => ForeignOnlyFromStart
    BY DEF IInv
  <1> QED
    BY Invariant, <1>1, PTL
=============================================================================
