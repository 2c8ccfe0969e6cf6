----------------------------- MODULE NetBwProofs -----------------------------
(***************************************************************************)
(* What TLAPS proves of NetBw, for any number of CPUs, processes, names    *)
(* and elements: that the reports tell nothing twice, miss nothing that    *)
(* did not come in while its entry was worked through, and are up to date  *)
(* with --sum; and what the filter of the kernel keeps out.                *)
(***************************************************************************)
EXTENDS NetBw, CounterMapsProofs

(* What the types say of each map and process. *)
LEMMA Facts ==
  ASSUME IInv
  PROVE  /\ it \in IterType /\ it.map \in Table /\ args \in Args
         /\ \A t \in Table :
                /\ tables[t] \in MapType(Key)
                /\ KeysOf(tables[t]) = {k \in Key : Present(tables[t], k)}
         /\ \A t \in Table, k \in Key :
                /\ recorded[t][k] \in Nat /\ got[t][k] \in Nat /\ base[t][k] \in Nat
                /\ shown[t][k] \in Nat /\ omitted[t][k] \in Nat /\ Amount(t, k) \in Nat
                /\ Present(tables[t], k) => Amount(t, k) = ValueOf(tables[t], k)
                /\ ~Present(tables[t], k) => Amount(t, k) = 0
                /\ Amount(t, k) > 0 => Present(tables[t], k) /\ t \in args.on
  <1>1. it \in IterType /\ it.map \in Table /\ args \in Args
    BY NetBwAssumption DEF IInv, TypeOK, CountersType, IterType
  <1>2. \A t \in Table : tables[t] \in MapType(Key)
    BY DEF IInv, TypeOK, CountersType
  <1>3. \A t \in Table : KeysOf(tables[t]) = {k \in Key : Present(tables[t], k)}
    BY <1>2, KeysPresent
  <1>4. \A t \in Table, k \in Key :
            /\ recorded[t][k] \in Nat /\ got[t][k] \in Nat /\ base[t][k] \in Nat
            /\ shown[t][k] \in Nat /\ omitted[t][k] \in Nat
    BY DEF IInv, TypeOK, CountersType, Totals
  <1>5. \A t \in Table, k \in Key :
            /\ Amount(t, k) \in Nat
            /\ Present(tables[t], k) => Amount(t, k) = ValueOf(tables[t], k)
            /\ ~Present(tables[t], k) => Amount(t, k) = 0
    BY AmountType DEF IInv, CountersInv, Amount
  <1>6. \A t \in Table, k \in Key :
            Amount(t, k) > 0 => Present(tables[t], k) /\ t \in args.on
    BY <1>5 DEF IInv, Phases
  <1> QED
    BY <1>1, <1>2, <1>3, <1>4, <1>5, <1>6

(* Which map is read first, and which has been read. *)
LEMMA MapOrder ==
  ASSUME IInv
  PROVE  /\ "tcp" \in Table /\ "udp" \in Table /\ First \in Table
         /\ \A t \in Table : t = "tcp" \/ t = "udp"
         /\ "tcp" \in args.on => First = "tcp"
         /\ "tcp" \notin args.on => First = "udp"
         /\ Last(it.map) => \A t \in args.on : t = it.map \/ Passed(t)
         /\ ~Last(it.map) => it.map = "tcp" /\ "udp" \in args.on
         /\ args.on \subseteq Table
  BY Facts, NetBwAssumption DEF First, Last, Passed, Args

(* The invariant holds at the start. *)
LEMMA InitInv == Init => IInv
  <1> SUFFICES ASSUME Init PROVE IInv
    OBVIOUS
  <1>1. CountersInv
    BY StartsInOrder DEF Init
  <1>2. \A t \in Table, k \in Key : Amount(t, k) = 0 /\ ~Present(tables[t], k)
    BY DEF Init, CountersInit, EmptyMap, Present, Amount
  <1>3. TypeOK
    BY <1>1, NetBwAssumption DEF Init, Nothing, TypeOK, CountersInv, Totals
  <1>5. Phases
    BY <1>2, IdleType DEF Init, CountersInit, Phases
  <1>6. ReadAhead /\ ReadWhole /\ SumRead
    BY <1>2 DEF Init, CountersInit, Nothing, ReadAhead, ReadWhole, SumRead
  <1>7. Filtered
    BY DEF Init, CountersInit, Filtered
  <1>8. ExactUnlessLate /\ SumFresh /\ ForeignOnlyFromStart
    BY <1>2 DEF Init, CountersInit, Nothing, ExactUnlessLate, Outstanding, SumFresh,
                ForeignOnlyFromStart
  <1> QED
    BY <1>1, <1>3, <1>5, <1>6, <1>7, <1>8 DEF IInv

-----------------------------------------------------------------------------
(* What stays as it is.                                                      *)

(* Nothing is written and the task stands still: nothing is owed otherwise. *)
LEMMA StandsStill ==
  ASSUME ReadAhead, ReadWhole, SumRead, ExactUnlessLate, SumFresh,
         UNCHANGED <<tables, recorded, orphaned, args, upc, got, base, shown, omitted>>,
         late \subseteq late', collided => collided', ~collided => it' = it
  PROVE  ReadAhead' /\ ReadWhole' /\ SumRead' /\ ExactUnlessLate' /\ SumFresh'
  <1>1. \A t \in Table, k \in Key : Amount(t, k)' = Amount(t, k)
    BY DEF Amount
  <1>2. ReadAhead'
    BY <1>1 DEF ReadAhead, Passed
  <1>3. ReadWhole'
    BY <1>1 DEF ReadWhole, Present, Passed
  <1>4. SumRead'
    BY <1>1 DEF SumRead, Passed
  <1>5. ExactUnlessLate'
    BY <1>1 DEF ExactUnlessLate, Outstanding
  <1>6. SumFresh'
    BY DEF SumFresh
  <1> QED
    BY <1>2, <1>3, <1>4, <1>5, <1>6

(* The task goes on, and nothing else happens. *)
LEMMA PhasesGoOn ==
  ASSUME Phases, UNCHANGED <<tables, probe, args, orphaned>>, attached' \subseteq args.on,
         iterating' <=> upc' \in {"read", "clear"},
         args.sum => upc' \notin {"clear", "remove", "failed"}
  PROVE  Phases'
  BY DEF Phases, Present

(* The task goes on with the filter as it is. *)
LEMMA TaskRest ==
  ASSUME IInv, UNCHANGED <<filterOn, probe, args, began, strangers>>,
         attached' \subseteq attached,
         upc \notin {"check", "attach"}, upc' \notin {"check", "attach"}
  PROVE  Filtered' /\ ForeignOnlyFromStart'
  BY DEF IInv, Filtered, ForeignOnlyFromStart

(* Steps that leave the maps alone keep them in order.                      *)
LEMMA CountersKept ==
  ASSUME IInv, UNCHANGED counters PROVE CountersInv'
  BY CountersStay DEF IInv, TypeOK, CountersType, counters

-----------------------------------------------------------------------------
(* The kernel.                                                               *)

(* Tasks come, change their names and go: nothing of it is looked at here. *)
LEMMA TasksInv ==
  ASSUME NEW k \in Key, NEW m \in Comm, IInv, Named(k, m) \/ ExitProcess(k)
  PROVE  IInv'
  <1>0. /\ UNCHANGED <<counters, taskVars, sends, histVars, probeVars>>
        /\ name' \in [Key -> SUBSET Comm] /\ changes' \in Nat
    BY DEF Named, ExitProcess, IInv, TypeOK
  <1>1. CountersInv'
    BY <1>0, CountersKept
  <1>2. TypeOK'
    BY <1>0, <1>1 DEF IInv, TypeOK, CountersInv, taskVars, histVars, probeVars
  <1>3. Phases' /\ Filtered' /\ ForeignOnlyFromStart'
    BY <1>0 DEF IInv, Phases, Filtered, ForeignOnlyFromStart, Present, counters, taskVars,
                probeVars
  <1>4. ReadAhead' /\ ReadWhole' /\ SumRead' /\ ExactUnlessLate' /\ SumFresh'
    BY <1>0, StandsStill DEF IInv, counters, taskVars, histVars, probeVars
  <1> QED
    BY <1>1, <1>2, <1>3, <1>4 DEF IInv

(* A probe begins, for a map that is collected. *)
LEMMA SendInv ==
  ASSUME NEW c \in CPU, NEW m \in Comm, NEW t \in Table, NEW k \in Key, NEW n \in Sizes,
         IInv, Send(c, m, t, k, n)
  PROVE  IInv'
  <1>1. /\ t \in attached /\ n > 0 /\ n \in Nat /\ sends' = sends + 1
        /\ EnterProbe(c, m, t, k, n)
        /\ began' = [began EXCEPT ![c] = upc \notin {"check", "attach"}]
        /\ UNCHANGED <<procVars, taskVars, histVars, late, strangers>>
        /\ UNCHANGED <<tables, filterOn, it, iterating, recorded, collided, orphaned>>
    BY NetBwAssumption DEF Send, EnterProbe
  <1>2. CountersInv'
    BY <1>1, EnterKeeps DEF IInv
  <1>3. /\ \A d \in CPU \ {c} : probe'[d] = probe[d]
        /\ probe'[c].map = t /\ probe'[c].add = n /\ probe'[c].pc = "filter"
    <2> DEFINE p == [IdleProbe EXCEPT !.pc = "filter", !.comm = m, !.map = t,
                                      !.key = k, !.add = n]
    <2>1. /\ p \in ProbeType /\ p.map = t /\ p.add = n /\ p.pc = "filter"
          /\ Becomes(c, p)
      BY <1>1, IdleType DEF EnterProbe, ProbeType
    <2> HIDE DEF p
    <2> QED
      BY <2>1, ProbeChange DEF IInv, TypeOK
  <1>4. began \in [CPU -> BOOLEAN]
    BY DEF IInv, TypeOK
  <1>5. TypeOK'
    BY <1>1, <1>2, <1>4 DEF IInv, TypeOK, CountersInv, procVars, taskVars, histVars
  <1>6. Phases'
    BY <1>1, <1>3 DEF IInv, Phases, Present, taskVars
  <1>7. Filtered' /\ ForeignOnlyFromStart'
    BY <1>1, <1>3, <1>4 DEF IInv, Filtered, ForeignOnlyFromStart, taskVars
  <1>8. ReadAhead' /\ ReadWhole' /\ SumRead' /\ ExactUnlessLate' /\ SumFresh'
    BY <1>1, StandsStill DEF IInv, taskVars, histVars
  <1> QED
    BY <1>2, <1>5, <1>6, <1>7, <1>8 DEF IInv

(* A probe's step: bytes come into an entry, or nothing does.                *)
LEMMA ProbeInv ==
  ASSUME NEW c \in CPU, IInv, Probe(c)
  PROVE  IInv'
  <1> DEFINE u == probe[c].map
             j == probe[c].key
             n == probe[c].add
  <1>0. /\ CountersInv /\ ProbeStep(c)
        /\ UNCHANGED <<procVars, taskVars, sends, histVars>>
    BY DEF Probe, IInv
  <1>1. CountersInv' /\ Effect(c)
    BY <1>0, ProbeKeeps
  <1>2. /\ probe[c].pc # "idle" /\ \A d \in CPU \ {c} : probe'[d] = probe[d]
        /\ probe'[c] = IdleProbe \/ Follows(probe[c], probe'[c])
    BY <1>0, ProbeGoesOn
  <1>3. /\ u \in args.on /\ u \in Table /\ j \in Key /\ n \in Nat /\ n > 0
        /\ probe[c].comm \in Comm
    BY <1>0, <1>2 DEF IInv, Phases, CountersInv, CountersType, ProbeType
  <1> DEFINE mine == IF args.comm /\ began[c] THEN {probe[c].comm} ELSE {}
  <1>4. /\ IF recorded' # recorded
           THEN /\ late' = IF Busy THEN late \cup {<<u, j>>} ELSE late
                /\ strangers' = (strangers \/ ~(mine \subseteq Target))
           ELSE UNCHANGED <<late, strangers>>
        /\ began' = [began EXCEPT ![c] = @ /\ probe'[c].pc # "idle"]
    BY Zenon DEF Probe
  <1>b. /\ began \in [CPU -> BOOLEAN] /\ late \subseteq Table \X Key
        /\ strangers \in BOOLEAN
    BY DEF IInv, TypeOK
  <1>5. TypeOK'
    <2>1. late' \subseteq Table \X Key /\ strangers' \in BOOLEAN /\ began' \in [CPU -> BOOLEAN]
      BY <1>3, <1>4, <1>b
    <2> QED
      BY <1>0, <1>1, <2>1 DEF IInv, TypeOK, CountersInv, procVars, taskVars, histVars
  <1>f. Filtered'
    <2>1. Filtered /\ UNCHANGED <<filterOn, args, attached, upc>>
      BY <1>0, <1>1 DEF IInv, Effect, taskVars
    <2>2. probe[c].pc \in {"filter", "lookup", "load", "store", "insert"}
      BY <1>0, <1>2 DEF CountersInv, CountersType, ProbeType
    <2>3. began[c] /\ args.comm /\ probe'[c].pc # "idle" => probe'[c].comm \in Target
      BY <1>2, <2>1, <2>2, IdleType DEF Filtered, Follows
    <2>4. \A d \in CPU : began'[d] => began[d]
      BY <1>4, <1>b
    <2> QED
      BY <1>2, <2>1, <2>3, <2>4 DEF Filtered
  <1>6. \A t \in Table, k \in Key : Present(tables[t], k) => Present(tables'[t], k)
    BY <1>1 DEF Effect
  <1>7. CASE UNCHANGED <<tables, recorded>>
    <2>1. ReadAhead' /\ ReadWhole' /\ SumRead' /\ ExactUnlessLate' /\ SumFresh'
      BY <1>0, <1>1, <1>4, <1>7, StandsStill DEF IInv, Effect, taskVars, histVars
    <2>2. Phases'
      BY <1>0, <1>1, <1>2, <1>7, IdleType
         DEF IInv, Phases, Present, Effect, Follows, taskVars
    <2>3. ForeignOnlyFromStart'
      BY <1>4, <1>7 DEF IInv, ForeignOnlyFromStart
    <2> QED
      BY <1>1, <1>5, <1>f, <2>1, <2>2, <2>3 DEF IInv
  <1>8. CASE ~UNCHANGED <<tables, recorded>>
    <2>1. /\ Added(c) /\ UNCHANGED <<collided, orphaned, iterating>>
          /\ ~collided /\ ~orphaned => Adds(c)
          /\ ~collided => it' = it
          /\ probe[c].pc \in {"store", "insert"}
          /\ UNCHANGED <<args, upc, got, base, shown, omitted, attached>>
      BY <1>0, <1>1, <1>8 DEF Effect, taskVars, histVars
    <2>2. \A t \in Table, k \in Key :
              recorded'[t][k] = recorded[t][k] + IF t = u /\ k = j THEN n ELSE 0
      <3>1. recorded \in [Table -> [Key -> Nat]]
        BY <1>0 DEF CountersInv, CountersType
      <3> SUFFICES ASSUME NEW t \in Table, NEW k \in Key
                   PROVE  recorded'[t][k] = recorded[t][k] + IF t = u /\ k = j THEN n ELSE 0
        OBVIOUS
      <3>2. recorded[t][k] \in Nat
        BY <3>1
      <3>3. CASE t = u /\ k = j
        BY <1>3, <2>1, <3>1, <3>3 DEF Added
      <3>4. CASE ~(t = u /\ k = j)
        BY <1>3, <2>1, <3>1, <3>2, <3>4 DEF Added
      <3> QED
        BY <3>3, <3>4
    <2>3. recorded' # recorded /\ late \subseteq late' /\ (Busy => <<u, j>> \in late')
      <3>1. recorded'[u][j] = recorded[u][j] + n /\ recorded[u][j] \in Nat
        BY <1>3, <2>2, Facts
      <3> QED
        BY <1>3, <1>4, <3>1
    <2>4. ASSUME ~collided, ~orphaned, NEW t \in Table, NEW k \in Key
          PROVE  Amount(t, k)' = Amount(t, k) + IF t = u /\ k = j THEN n ELSE 0
      BY <2>1, <2>4 DEF Adds, Entry
    <2>6. \A t \in Table, k \in Key :
              /\ got[t][k] \in Nat /\ Amount(t, k) \in Nat /\ recorded[t][k] \in Nat
              /\ base[t][k] \in Nat /\ shown[t][k] \in Nat /\ omitted[t][k] \in Nat
      BY Facts
    <2>7. Phases'
      <3>1. \A t \in Table \ args.on, k \in Key : ~Present(tables'[t], k)
        <4>1. ASSUME NEW t \in Table, t # u PROVE tables'[t] = tables[t]
          <5>1. tables \in [Table -> MapType(Key)]
            BY <1>0 DEF CountersInv, CountersType
          <5>2. CASE Store(c)
            BY <4>1, <5>1, <5>2 DEF Store
          <5>3. CASE Insert(c)
            BY <4>1, <5>1, <5>3 DEF Insert
          <5>4. CASE CheckFilter(c) \/ Lookup(c) \/ Load(c)
            BY <5>4 DEF CheckFilter, Lookup, Load
          <5> QED
            BY <1>0, <5>2, <5>3, <5>4 DEF ProbeStep
        <4> QED
          BY <1>3, <4>1 DEF IInv, Phases
      <3> QED
        BY <1>2, <2>1, <3>1, IdleType DEF IInv, Phases, Follows
    <2>8. ForeignOnlyFromStart'
      <3>1. mine \subseteq Target
        BY <2>1 DEF IInv, Filtered
      <3> QED
        BY <1>4, <3>1 DEF IInv, ForeignOnlyFromStart
    <2>9. ReadAhead'
      <3>1. ASSUME ~collided, ~orphaned, NEW t \in Table, NEW k \in Key
            PROVE  got[t][k] <= Amount(t, k)'
        <4>1. got[t][k] <= Amount(t, k)
          BY <3>1 DEF IInv, ReadAhead
        <4> QED
          BY <1>3, <2>4, <2>6, <3>1, <4>1
      <3> QED
        BY <2>1, <3>1 DEF IInv, ReadAhead, Passed
    <2>10. ReadWhole'
      <3>1. ASSUME ~collided, ~orphaned, Busy, NEW t \in Table, NEW k \in Key,
                   <<t, k>> \notin late'
            PROVE  <<t, k>> \notin late /\ Amount(t, k)' = Amount(t, k)
        <4>1. ~(t = u /\ k = j) /\ <<t, k>> \notin late
          BY <2>3, <3>1
        <4> QED
          BY <2>4, <2>6, <3>1, <4>1
      <3> QED
        BY <2>1, <3>1 DEF IInv, ReadWhole, Busy, Passed
    <2>11. SumRead'
      <3>1. ASSUME args.sum, ~collided, NEW t \in Table, NEW k \in Key
            PROVE  /\ Amount(t, k)' = recorded'[t][k]
                   /\ upc \in {"read", "emit"} => base[t][k] <= recorded'[t][k]
        <4>1. Amount(t, k)' = Amount(t, k) + IF t = u /\ k = j THEN n ELSE 0
          BY <2>4, <3>1 DEF IInv, Phases
        <4>2. Amount(t, k) = recorded[t][k]
          BY <3>1 DEF IInv, SumRead
        <4>3. upc \in {"read", "emit"} => base[t][k] <= recorded[t][k]
          BY <3>1 DEF IInv, SumRead
        <4>4. recorded[t][k] <= recorded'[t][k]
          BY <1>3, <2>2, <2>6
        <4>5. recorded'[t][k] = recorded[t][k] + IF t = u /\ k = j THEN n ELSE 0
          BY <2>2
        <4>6. recorded'[t][k] \in Nat
          BY <1>3, <2>6, <4>5
        <4>7. upc \in {"read", "emit"} => base[t][k] <= recorded'[t][k]
          BY <2>6, <4>3, <4>4, <4>6
        <4> QED
          BY <4>1, <4>2, <4>5, <4>7
      <3> QED
        BY <2>1, <3>1 DEF IInv, SumRead, Passed
    <2>12. ExactUnlessLate'
      <3>1. ASSUME ~args.sum, ~collided, ~orphaned, NEW t \in Table, NEW k \in Key
            PROVE  LET told == shown[t][k] + omitted[t][k] + Outstanding(t, k)' IN
                   /\ Outstanding(t, k)' >= 0 /\ told <= recorded'[t][k]
                   /\ <<t, k>> \notin late' => told = recorded'[t][k]
        <4> DEFINE d == IF t = u /\ k = j THEN n ELSE 0
                   g == IF upc \in {"clear", "remove"} THEN got[t][k] ELSE 0
                   old == shown[t][k] + omitted[t][k] + Outstanding(t, k)
        <4>1. /\ Outstanding(t, k) >= 0 /\ old <= recorded[t][k]
              /\ <<t, k>> \notin late => old = recorded[t][k]
          BY <3>1 DEF IInv, ExactUnlessLate
        <4>2. Outstanding(t, k) = Amount(t, k) - g /\ Outstanding(t, k)' = Amount(t, k)' - g
          BY <2>1 DEF Outstanding
        <4>3. recorded'[t][k] = recorded[t][k] + d /\ Amount(t, k)' = Amount(t, k) + d
          BY <2>2, <2>4, <3>1
        <4>4. d \in Nat /\ g \in Nat
          BY <1>3, <2>6
        <4>5. <<t, k>> \notin late' => <<t, k>> \notin late
          BY <2>3
        <4> HIDE DEF d, g
        <4> QED
          BY <2>6, <4>1, <4>2, <4>3, <4>4, <4>5
      <3> QED
        BY <2>1, <3>1 DEF ExactUnlessLate
    <2>13. SumFresh'
      <3>1. ASSUME args.sum, ~collided, upc = "emit", NEW t \in args.on, NEW k \in Key
            PROVE  base[t][k] <= got[t][k] /\ got[t][k] <= recorded'[t][k]
        <4>1. t \in Table
          BY <3>1, MapOrder
        <4>2. base[t][k] <= got[t][k] /\ got[t][k] <= recorded[t][k]
          BY <3>1 DEF IInv, SumFresh
        <4>3. recorded[t][k] <= recorded'[t][k] /\ recorded'[t][k] \in Nat
          BY <1>3, <2>2, <2>6, <4>1
        <4> QED
          BY <2>6, <4>1, <4>2, <4>3
      <3> QED
        BY <2>1, <3>1 DEF SumFresh
    <2> QED
      BY <1>1, <1>5, <1>f, <2>7, <2>8, <2>9, <2>10, <2>11, <2>12, <2>13 DEF IInv
  <1> QED
    BY <1>7, <1>8

-----------------------------------------------------------------------------
(* The task.                                                                 *)

(* Before the first tick, and at the end: what was read is not looked at.    *)
LEMMA StartInv ==
  ASSUME NEW t \in Table, IInv, CheckArgs \/ Attach(t) \/ SetFilter \/ Exit
  PROVE  IInv'
  <1>0. /\ UNCHANGED <<tables, probe, it, iterating, recorded, collided, orphaned>>
        /\ UNCHANGED <<procVars, sends, probeVars, args, got, histVars>>
        /\ upc \notin {"read", "clear", "remove"}
        /\ upc' \in {"attach", "select", "exited"}
        /\ filterOn' \in BOOLEAN /\ attached' \subseteq args.on
    <2>1. args.comm \in BOOLEAN /\ filterOn \in BOOLEAN
      BY Facts DEF Args, IInv, TypeOK, CountersType
    <2> QED
      BY <2>1 DEF CheckArgs, Attach, SetFilter, Exit, counters, world, IInv, Phases
  <1>1. CountersInv'
    BY <1>0, CountersStay DEF IInv
  <1>2. attached' \subseteq Table
    BY <1>0, MapOrder
  <1>3. TypeOK'
    BY <1>0, <1>1, <1>2 DEF IInv, TypeOK, CountersInv, procVars, histVars, probeVars
  <1>4. Phases'
    BY <1>0, PhasesGoOn DEF IInv, Phases
  <1>5. Filtered' /\ ForeignOnlyFromStart'
    <2>1. ForeignOnlyFromStart'
      BY <1>0 DEF IInv, ForeignOnlyFromStart, probeVars
    <2>2. UNCHANGED <<probe, args, began>>
      BY <1>0 DEF probeVars
    <2>3. CASE CheckArgs
      BY <2>1, <2>2, <2>3 DEF CheckArgs, IInv, Filtered, counters
    <2>4. CASE Attach(t)
      BY <2>1, <2>2, <2>4 DEF Attach, IInv, Filtered, counters
    <2>5. CASE SetFilter
      BY <2>1, <2>2, <2>5 DEF SetFilter, IInv, Filtered
    <2>6. CASE Exit
      BY <2>1, <2>2, <2>6 DEF Exit, IInv, Filtered, counters
    <2> QED
      BY <2>1, <2>3, <2>4, <2>5, <2>6
  <1>6. \A u \in Table, k \in Key : Amount(u, k)' = Amount(u, k)
    BY <1>0 DEF Amount
  <1>7. ReadAhead'
    BY <1>0, <1>6 DEF IInv, ReadAhead, Passed
  <1>8. ReadWhole' /\ SumFresh'
    BY <1>0 DEF ReadWhole, SumFresh
  <1>9. SumRead'
    BY <1>0, <1>6 DEF IInv, SumRead, histVars
  <1>10. ExactUnlessLate'
    BY <1>0, <1>6 DEF IInv, ExactUnlessLate, Outstanding, histVars, probeVars
  <1> QED
    BY <1>1, <1>3, <1>4, <1>5, <1>7, <1>8, <1>9, <1>10 DEF IInv

(* Nothing has been read yet; what is there now will be. *)
LEMMA TickInv ==
  ASSUME IInv, Tick
  PROVE  IInv'
  <1>0. /\ IterStart(First) /\ UNCHANGED kernelSide
        /\ UNCHANGED <<world, args, attached, shown, omitted>>
        /\ upc = "select" /\ upc' = "read" /\ iterating'
        /\ got' = Nothing /\ base' = recorded
        /\ it'.map = First /\ it'.seen = {} /\ it'.walk = KeysOf(tables[First])
    BY IdleType DEF Tick, IterStart, NoIteration
  <1>1. CountersInv'
    BY <1>0, CounterMapsAssumption, MapOrder, IterKeeps DEF IInv
  <1>2. got' \in Totals /\ base' \in Totals /\ \A t \in Table, k \in Key : got'[t][k] = 0
    BY <1>0 DEF Nothing, Totals, IInv, TypeOK, CountersType
  <1>3. TypeOK'
    BY <1>0, <1>1, <1>2 DEF IInv, TypeOK, CountersInv, world, procVars, probeVars
  <1>4. Phases' /\ Filtered' /\ ForeignOnlyFromStart'
    BY <1>0, PhasesGoOn, TaskRest DEF IInv, Phases, kernelSide, world, probeVars
  <1>5. \A t \in Table, k \in Key : Amount(t, k)' = Amount(t, k)
    BY <1>0 DEF Amount, kernelSide
  <1>6. ReadAhead'
    BY <1>2, <1>5, Facts DEF ReadAhead
  <1>7. ASSUME NEW t \in args.on, Passed(t)' PROVE FALSE
    BY <1>0, <1>7, MapOrder DEF Passed
  <1>8. ReadWhole'
    <2>1. ASSUME NEW t \in Table, NEW k \in Key, Amount(t, k) > 0
          PROVE  ~Passed(t)' /\ (t = it'.map => k \in it'.walk)
      BY <1>0, <1>7, <2>1, Facts
    <2> QED
      BY <1>0, <1>5, <2>1 DEF ReadWhole, kernelSide
  <1>9. SumRead'
    <2>1. ASSUME args.sum, ~collided, NEW t \in Table, NEW k \in Key
          PROVE  /\ Amount(t, k) = recorded[t][k]
                 /\ t \in args.on /\ base'[t][k] > 0 =>
                        ~Passed(t)' /\ (t = it'.map => k \in it'.walk)
      <3>1. Amount(t, k) = recorded[t][k]
        BY <2>1 DEF IInv, SumRead
      <3>2. base'[t][k] > 0 => Present(tables[t], k)
        BY <1>0, <3>1, Facts
      <3> QED
        BY <1>0, <1>7, <3>1, <3>2, Facts
    <2>2. \A t \in Table, k \in Key : base'[t][k] <= recorded[t][k]
      BY <1>0, Facts
    <2> QED
      BY <1>0, <1>5, <2>1, <2>2 DEF SumRead, kernelSide
  <1>10. SumFresh'
    BY <1>0 DEF SumFresh
  <1>11. ExactUnlessLate'
    BY <1>0, <1>5
       DEF IInv, ExactUnlessLate, Outstanding, kernelSide, world, probeVars
  <1> QED
    BY <1>1, <1>3, <1>4, <1>6, <1>8, <1>9, <1>10, <1>11 DEF IInv

(* A process is read with all its entry has at that moment. *)
LEMMA ReadKeyInv ==
  ASSUME NEW k \in Key, IInv, ReadKey(k)
  PROVE  IInv'
  <1> DEFINE u == it.map
  <1>0. /\ IterKey(k) \/ IterAgain(k)
        /\ UNCHANGED kernelSide /\ UNCHANGED iterating
        /\ UNCHANGED <<world, args, attached, upc, histVars>>
        /\ upc = "read" /\ Present(tables[u], k)
        /\ got' = [got EXCEPT ![u][k] = ValueOf(tables[u], k)]
    BY DEF ReadKey, IterKey, IterAgain
  <1>1. CountersInv'
    BY <1>0, MapOrder, IterKeeps DEF IInv
  <1>2. it'.map = u /\ it'.walk = it.walk
    BY <1>0, Facts DEF IterKey, IterAgain, IterType
  <1>3. ~collided => k \notin it.seen /\ it'.seen = it.seen \cup {k}
    BY <1>0, Facts, OnlyCollided DEF IInv, IterKey, IterType
  <1>4. /\ got' \in Totals /\ got'[u][k] = Amount(u, k)
        /\ \A t \in Table, j \in Key : t # u \/ j # k => got'[t][j] = got[t][j]
    <2>1. /\ ValueOf(tables[u], k) = Amount(u, k) /\ Amount(u, k) \in Nat
          /\ got \in Totals /\ u \in Table
      BY <1>0, Facts DEF IInv, TypeOK
    <2> HIDE DEF u
    <2> QED
      BY <1>0, <2>1 DEF Totals
  <1>5. TypeOK'
    BY <1>0, <1>1, <1>4 DEF IInv, TypeOK, CountersInv, world, procVars, probeVars, histVars
  <1>6. Phases' /\ Filtered' /\ ForeignOnlyFromStart'
    BY <1>0, PhasesGoOn, TaskRest DEF IInv, Phases, kernelSide, world, probeVars
  <1>7. \A t \in Table, j \in Key :
            Amount(t, j)' = Amount(t, j) /\ Present(tables'[t], j) = Present(tables[t], j)
    BY <1>0 DEF Amount, kernelSide
  <1>8. ReadAhead'
    <2>1. ASSUME ~collided, ~orphaned, NEW t \in Table, NEW j \in Key
          PROVE  got'[t][j] <= Amount(t, j)
      <3>1. CASE t = u /\ j = k
        BY <1>4, <3>1, Facts
      <3>2. CASE t # u \/ j # k
        BY <1>4, <2>1, <3>2 DEF IInv, ReadAhead
      <3> QED
        BY <3>1, <3>2
    <2> QED
      BY <1>0, <1>7, <2>1 DEF ReadAhead, kernelSide
  <1>9. ReadWhole'
    <2>1. ASSUME ~collided, ~orphaned, NEW t \in Table, NEW j \in Key,
                 Amount(t, j) > 0, <<t, j>> \notin late
          PROVE  /\ Passed(t) => got'[t][j] = Amount(t, j)
                 /\ t = u => j \in it.walk /\ (j \in it'.seen => got'[t][j] = Amount(t, j))
      <3>1. CASE t = u /\ j = k
        BY <1>0, <1>4, <2>1, <3>1 DEF IInv, ReadWhole
      <3>2. CASE t # u \/ j # k
        BY <1>0, <1>3, <1>4, <2>1, <3>2 DEF IInv, ReadWhole
      <3> QED
        BY <3>1, <3>2
    <2> QED
      BY <1>0, <1>2, <1>7, <2>1 DEF ReadWhole, Passed, kernelSide, world, probeVars
  <1>10. SumRead'
    <2>1. ASSUME args.sum, ~collided, NEW t \in Table, NEW j \in Key
          PROVE  /\ Amount(t, j) = recorded[t][j] /\ base[t][j] <= recorded[t][j]
                 /\ t \in args.on /\ base[t][j] > 0 =>
                       /\ Passed(t) => base[t][j] <= got'[t][j]
                       /\ t = u => j \in it.walk
                                     /\ (j \in it'.seen => base[t][j] <= got'[t][j])
      <3>0. /\ Amount(t, j) = recorded[t][j] /\ base[t][j] <= recorded[t][j]
            /\ t \in args.on /\ base[t][j] > 0 =>
                  /\ Passed(t) => base[t][j] <= got[t][j]
                  /\ t = u => j \in it.walk /\ (j \in it.seen => base[t][j] <= got[t][j])
        BY <1>0, <2>1 DEF IInv, SumRead
      <3>1. CASE t = u /\ j = k
        BY <1>4, <3>0, <3>1
      <3>2. CASE t # u \/ j # k
        BY <1>3, <1>4, <2>1, <3>0, <3>2
      <3> QED
        BY <3>1, <3>2
    <2> QED
      BY <1>0, <1>2, <1>7, <2>1 DEF SumRead, Passed, kernelSide, histVars
  <1>11. SumFresh'
    BY <1>0 DEF SumFresh
  <1>12. ExactUnlessLate'
    BY <1>0, <1>7
       DEF IInv, ExactUnlessLate, Outstanding, kernelSide, world, probeVars, histVars
  <1> QED
    BY <1>1, <1>5, <1>6, <1>8, <1>9, <1>10, <1>11, <1>12 DEF IInv

(* The second map is begun, or both have been read. *)
LEMMA ReadEndInv ==
  ASSUME IInv, ReadEnd
  PROVE  IInv'
  <1>0. /\ UNCHANGED kernelSide
        /\ UNCHANGED <<world, args, attached, got, histVars>>
        /\ upc = "read" /\ it.walk \subseteq it.seen
        /\ \/ /\ Last(it.map) /\ IterEnd /\ upc' = "emit" /\ ~iterating'
           \/ /\ ~Last(it.map) /\ IterStart("udp") /\ upc' = "read" /\ iterating'
              /\ it'.map = "udp" /\ it'.seen = {} /\ it'.walk = KeysOf(tables["udp"])
    BY IdleType DEF ReadEnd, IterEnd, IterStart, NoIteration
  <1>1. CountersInv'
    BY <1>0, CounterMapsAssumption, MapOrder, IterKeeps DEF IInv
  <1>2. TypeOK'
    BY <1>0, <1>1 DEF IInv, TypeOK, CountersInv, world, procVars, probeVars, histVars
  <1>3. Phases' /\ Filtered' /\ ForeignOnlyFromStart'
    BY <1>0, PhasesGoOn, TaskRest DEF IInv, Phases, kernelSide, world, probeVars
  <1>4. \A t \in Table, j \in Key :
            Amount(t, j)' = Amount(t, j) /\ Present(tables'[t], j) = Present(tables[t], j)
    BY <1>0 DEF Amount, kernelSide
  <1>5. ReadAhead'
    BY <1>0, <1>4 DEF IInv, ReadAhead, kernelSide
  <1>7. ReadWhole'
    <2>1. ASSUME ~collided, ~orphaned, NEW t \in Table, NEW k \in Key,
                 Amount(t, k) > 0, <<t, k>> \notin late, t = it.map \/ Passed(t)
          PROVE  got[t][k] = Amount(t, k)
      BY <1>0, <2>1 DEF IInv, ReadWhole
    <2>2. CASE Last(it.map)
      BY <1>0, <1>4, <2>1, <2>2, MapOrder, Facts DEF ReadWhole, kernelSide, world, probeVars
    <2>3. CASE ~Last(it.map)
      <3>1. \A t \in Table : (Passed(t)' => t = it.map) /\ (t = it'.map => t = "udp")
        BY <1>0, <2>3, MapOrder DEF Passed
      <3>2. \A k \in Key : Amount("udp", k) > 0 => k \in it'.walk
        BY <1>0, <2>3, Facts, MapOrder
      <3>3. it'.seen = {}
        BY <1>0, <2>3
      <3> QED
        BY <1>0, <1>4, <2>1, <2>3, <3>1, <3>2, <3>3
           DEF ReadWhole, kernelSide, world, probeVars
    <2> QED
      BY <2>2, <2>3
  <1>8. ASSUME args.sum, ~collided, NEW t \in args.on, NEW k \in Key,
               t = it.map \/ Passed(t)
        PROVE  base[t][k] <= got[t][k]
    <2>1. base[t][k] \in Nat /\ got[t][k] \in Nat /\ t \in Table
      BY Facts, MapOrder
    <2>2. base[t][k] > 0 => base[t][k] <= got[t][k]
      BY <1>0, <1>8, <2>1 DEF IInv, SumRead
    <2> QED
      BY <2>1, <2>2
  <1>9. ASSUME args.sum, ~collided, NEW t \in Table, NEW k \in Key
        PROVE  /\ Amount(t, k) = recorded[t][k] /\ base[t][k] <= recorded[t][k]
               /\ got[t][k] <= recorded[t][k]
    BY <1>0, <1>9 DEF IInv, SumRead, ReadAhead, Phases
  <1>10. SumRead'
    <2>1. CASE Last(it.map)
      BY <1>0, <1>4, <1>9, <2>1 DEF SumRead, kernelSide, histVars
    <2>2. CASE ~Last(it.map)
      <3>1. \A t \in Table : (Passed(t)' => t = it.map) /\ (t = it'.map => t = "udp")
        BY <1>0, <2>2, MapOrder DEF Passed
      <3>2. ASSUME args.sum, ~collided, NEW k \in Key, base["udp"][k] > 0
            PROVE  k \in it'.walk
        <4>1. Present(tables["udp"], k)
          BY <1>9, <3>2, Facts, MapOrder
        <4> QED
          BY <1>0, <2>2, <4>1, Facts, MapOrder
      <3> QED
        BY <1>0, <1>4, <1>8, <1>9, <2>2, <3>1, <3>2 DEF SumRead, kernelSide, histVars
    <2> QED
      BY <2>1, <2>2
  <1>11. SumFresh'
    <2>1. CASE Last(it.map)
      BY <1>0, <1>8, <1>9, <2>1, MapOrder DEF SumFresh, kernelSide, histVars
    <2>2. CASE ~Last(it.map)
      BY <1>0, <2>2 DEF SumFresh
    <2> QED
      BY <2>1, <2>2
  <1>12. ExactUnlessLate'
    BY <1>0, <1>4
       DEF IInv, ExactUnlessLate, Outstanding, kernelSide, world, probeVars, histVars
  <1> QED
    BY <1>1, <1>2, <1>3, <1>5, <1>7, <1>10, <1>11, <1>12 DEF IInv

(* What was read is shown, or left out: it is no longer owed. *)
LEMMA EmitInv ==
  ASSUME IInv, Emit
  PROVE  IInv'
  <1>s. shown' = [t \in Table |-> [k \in Key |->
                     IF k \notin ShownPids THEN shown[t][k]
                     ELSE got[t][k] + IF args.sum THEN 0 ELSE shown[t][k]]]
    BY DEF Emit
  <1>o. omitted' = [t \in Table |-> [k \in Key |->
                       omitted[t][k] + IF args.sum \/ k \in ShownPids THEN 0
                                       ELSE got[t][k]]]
    BY DEF Emit
  <1>a. /\ UNCHANGED <<world, args, attached, got, base>>
        /\ upc = "emit"
    BY DEF Emit
  <1>b. IF args.sum
        THEN upc' = "select" /\ UNCHANGED counters
        ELSE upc' = "clear" /\ IterStart(First)
    BY Zenon DEF Emit
  <1>c. UNCHANGED kernelSide
    BY <1>b DEF IterStart, counters, kernelSide
  <1>d. \/ args.sum /\ upc' = "select" /\ UNCHANGED <<it, iterating>>
        \/ /\ ~args.sum /\ IterStart(First) /\ upc' = "clear" /\ iterating'
           /\ it'.map = First /\ it'.walk = KeysOf(tables[First])
    <2>1. CASE args.sum
      BY <1>b, <2>1 DEF counters
    <2>2. CASE ~args.sum
      BY <1>b, <2>2 DEF IterStart, NoIteration
    <2> QED
      BY <2>1, <2>2
  <1>0. /\ UNCHANGED kernelSide
        /\ UNCHANGED <<world, args, attached, got, base>>
        /\ upc = "emit"
        /\ \/ args.sum /\ upc' = "select" /\ UNCHANGED <<it, iterating>>
           \/ /\ ~args.sum /\ IterStart(First) /\ upc' = "clear" /\ iterating'
              /\ it'.map = First /\ it'.walk = KeysOf(tables[First])
    BY <1>a, <1>c, <1>d
  <1>1. CountersInv'
    <2>1. CASE args.sum
      BY <1>0, <2>1, CountersKept DEF counters, kernelSide
    <2>2. CASE ~args.sum
      BY <1>0, <2>2, CounterMapsAssumption, MapOrder, IterKeeps DEF IInv
    <2> QED
      BY <2>1, <2>2
  <1>2. Found \subseteq Key /\ ShownPids \subseteq Found
    BY DEF Found, ShownPids
  <1>3. TypeOK'
    <2>1. shown' \in Totals /\ omitted' \in Totals
      <3>1. ASSUME NEW t \in Table, NEW k \in Key
            PROVE  /\ got[t][k] \in Nat /\ shown[t][k] \in Nat /\ omitted[t][k] \in Nat
                   /\ got[t][k] + shown[t][k] \in Nat /\ omitted[t][k] + got[t][k] \in Nat
        BY Facts
      <3> QED
        BY <1>s, <1>o, <3>1 DEF Totals
    <2> QED
      BY <1>0, <1>1, <2>1 DEF IInv, TypeOK, CountersInv, world, procVars, probeVars
  <1>4. Phases' /\ Filtered' /\ ForeignOnlyFromStart'
    BY <1>0, PhasesGoOn, TaskRest DEF IInv, Phases, kernelSide, world, probeVars
  <1>5. \A t \in Table, j \in Key :
            Amount(t, j)' = Amount(t, j) /\ Present(tables'[t], j) = Present(tables[t], j)
    BY <1>0 DEF Amount, kernelSide
  <1>p. ASSUME NEW t \in Table, NEW k \in Key, ~args.sum, Amount(t, k) > 0
        PROVE  ~Passed(t)' /\ (t = it'.map => k \in it'.walk)
    BY <1>0, <1>p, Facts, MapOrder DEF Passed
  <1>6. ReadAhead'
    <2>1. CASE args.sum
      BY <1>0, <1>5, <2>1 DEF IInv, ReadAhead, kernelSide
    <2>2. CASE ~args.sum
      <3>1. ASSUME ~collided, ~orphaned, NEW t \in Table, NEW k \in Key
            PROVE  /\ got[t][k] <= Amount(t, k)
                   /\ got[t][k] > 0 => ~Passed(t)' /\ (t = it'.map => k \in it'.walk)
        BY <1>p, <2>2, <3>1, Facts DEF IInv, ReadAhead
      <3> QED
        BY <1>0, <1>5, <2>2, <3>1 DEF ReadAhead, kernelSide
    <2> QED
      BY <2>1, <2>2
  <1>7. ReadWhole'
    BY <1>0, <1>5 DEF IInv, ReadWhole, kernelSide, world, probeVars
  <1>8. SumRead' /\ SumFresh'
    BY <1>0, <1>5 DEF IInv, SumRead, SumFresh, kernelSide
  <1>9. ExactUnlessLate'
    <2>1. ASSUME ~args.sum, ~collided, ~orphaned, NEW t \in Table, NEW k \in Key
          PROVE  /\ Outstanding(t, k) = Amount(t, k)
                 /\ Outstanding(t, k)' = Amount(t, k) - got[t][k]
                 /\ got[t][k] <= Amount(t, k)
                 /\ shown'[t][k] + omitted'[t][k] = shown[t][k] + omitted[t][k] + got[t][k]
      <3>1. Outstanding(t, k) = Amount(t, k) - 0
        BY <1>0 DEF Outstanding
      <3>2. Outstanding(t, k)' = Amount(t, k) - got[t][k]
        BY <1>0, <1>5, <2>1 DEF Outstanding
      <3>3. got[t][k] <= Amount(t, k)
        BY <2>1 DEF IInv, ReadAhead
      <3>4. CASE k \in ShownPids
        <4>1. shown'[t][k] = got[t][k] + shown[t][k] /\ omitted'[t][k] = omitted[t][k] + 0
          BY <1>s, <1>o, <2>1, <3>4
        <4> QED
          BY <3>1, <3>2, <3>3, <4>1, Facts
      <3>5. CASE k \notin ShownPids
        <4>1. shown'[t][k] = shown[t][k] /\ omitted'[t][k] = omitted[t][k] + got[t][k]
          BY <1>s, <1>o, <2>1, <3>5
        <4> QED
          BY <3>1, <3>2, <3>3, <4>1, Facts
      <3> QED
        BY <3>4, <3>5
    <2>2. ASSUME ~args.sum, ~collided, ~orphaned, NEW t \in Table, NEW k \in Key
          PROVE  LET told == shown'[t][k] + omitted'[t][k] + Outstanding(t, k)' IN
                 /\ Outstanding(t, k)' >= 0 /\ told <= recorded[t][k]
                 /\ <<t, k>> \notin late => told = recorded[t][k]
      <3>1. LET told == shown[t][k] + omitted[t][k] + Outstanding(t, k) IN
            told <= recorded[t][k] /\ (<<t, k>> \notin late => told = recorded[t][k])
        BY <2>2 DEF IInv, ExactUnlessLate
      <3>2. shown'[t][k] \in Nat /\ omitted'[t][k] \in Nat
        BY <1>3 DEF TypeOK, Totals
      <3> QED
        BY <2>1, <2>2, <3>1, <3>2, Facts
    <2> QED
      BY <1>0, <2>2 DEF ExactUnlessLate, kernelSide, world, probeVars
  <1> QED
    BY <1>1, <1>3, <1>4, <1>6, <1>7, <1>8, <1>9 DEF IInv

(* Collecting the keys once more reads no values. *)
LEMMA ClearKeyInv ==
  ASSUME NEW k \in Key, IInv, ClearKey(k)
  PROVE  IInv'
  <1>0. /\ IterKey(k) \/ IterAgain(k)
        /\ UNCHANGED kernelSide /\ UNCHANGED iterating
        /\ UNCHANGED <<world, taskVars, histVars>>
        /\ upc = "clear"
    BY DEF ClearKey, IterKey, IterAgain
  <1>1. CountersInv'
    BY <1>0, MapOrder, IterKeeps DEF IInv
  <1>2. it'.map = it.map /\ it'.walk = it.walk
    BY <1>0, Facts DEF IterKey, IterAgain, IterType
  <1>3. TypeOK'
    BY <1>0, <1>1 DEF IInv, TypeOK, CountersInv, world, procVars, probeVars, histVars, taskVars
  <1>4. Phases' /\ Filtered' /\ ForeignOnlyFromStart'
    BY <1>0, PhasesGoOn, TaskRest DEF IInv, Phases, kernelSide, world, probeVars, taskVars
  <1>5. \A t \in Table, j \in Key :
            Amount(t, j)' = Amount(t, j) /\ Present(tables'[t], j) = Present(tables[t], j)
    BY <1>0 DEF Amount, kernelSide
  <1>6. ReadAhead' /\ SumFresh'
    BY <1>0, <1>2, <1>5 DEF IInv, ReadAhead, SumFresh, Passed, kernelSide, taskVars
  <1>7. ReadWhole'
    BY <1>0, <1>5 DEF IInv, ReadWhole, kernelSide, world, probeVars, taskVars
  <1>8. SumRead'
    BY <1>0, <1>5 DEF IInv, SumRead, kernelSide, taskVars
  <1>9. ExactUnlessLate'
    BY <1>0, <1>5
       DEF IInv, ExactUnlessLate, Outstanding, kernelSide, world, probeVars,
           taskVars, histVars
  <1> QED
    BY <1>1, <1>3, <1>4, <1>6, <1>7, <1>8, <1>9 DEF IInv

(* What was read has been collected for removal. *)
LEMMA ClearEndInv ==
  ASSUME IInv, ClearEnd
  PROVE  IInv'
  <1>0. /\ IterEnd /\ UNCHANGED kernelSide /\ ~iterating'
        /\ UNCHANGED <<world, args, attached, got, histVars>>
        /\ upc = "clear" /\ upc' = "remove" /\ it.walk \subseteq it.seen
        /\ it'.map = it.map /\ it'.seen = it.seen
    BY Facts DEF ClearEnd, IterEnd, IterType
  <1>1. CountersInv'
    BY <1>0, CounterMapsAssumption, MapOrder, IterKeeps DEF IInv
  <1>2. TypeOK'
    BY <1>0, <1>1 DEF IInv, TypeOK, CountersInv, world, procVars, probeVars, histVars
  <1>3. Phases' /\ Filtered' /\ ForeignOnlyFromStart'
    BY <1>0, PhasesGoOn, TaskRest DEF IInv, Phases, kernelSide, world, probeVars
  <1>4. \A t \in Table, j \in Key :
            Amount(t, j)' = Amount(t, j) /\ Present(tables'[t], j) = Present(tables[t], j)
    BY <1>0 DEF Amount, kernelSide
  <1>5. ReadAhead' /\ SumFresh'
    BY <1>0, <1>4 DEF IInv, ReadAhead, SumFresh, Passed, kernelSide
  <1>6. ReadWhole'
    BY <1>0, <1>4 DEF IInv, ReadWhole, kernelSide, world, probeVars
  <1>7. SumRead'
    BY <1>0, <1>4 DEF IInv, SumRead, kernelSide
  <1>8. ExactUnlessLate'
    BY <1>0, <1>4
       DEF IInv, ExactUnlessLate, Outstanding, kernelSide, world, probeVars, histVars
  <1> QED
    BY <1>1, <1>2, <1>3, <1>5, <1>6, <1>7, <1>8 DEF IInv

(* A removed entry takes with it what was read, and perhaps what came late. *)
LEMMA RemoveInv ==
  ASSUME NEW k \in Key, IInv, Remove(k)
  PROVE  IInv'
  <1> DEFINE u == it.map
  <1>0. /\ RemoveKey(k) /\ ~iterating
        /\ UNCHANGED <<world, args, attached, upc, histVars>>
        /\ upc = "remove" /\ got' = [got EXCEPT ![u][k] = 0]
    BY DEF Remove, RemoveKey
  <1>1. /\ CountersInv'
        /\ UNCHANGED <<filterOn, probe, iterating, recorded, collided>>
        /\ orphaned => orphaned'
        /\ it'.map = u
        /\ ~collided => it' = [it EXCEPT !.seen = @ \ {k}]
        /\ ~Present(tables'[u], k)
        /\ \A j \in Key \ {k} : /\ Present(tables'[u], j) <=> Present(tables[u], j)
                                /\ Amount(it.map, j)' = Amount(it.map, j)
    BY <1>0, RemoveKeeps DEF IInv
  <1>2. ~collided => it'.seen = it.seen \ {k}
    BY <1>1, Facts DEF IterType
  <1>3. u \in Table /\ tables \in [Table -> MapType(Key)] /\ it'.map = it.map
    BY <1>1, Facts DEF IInv, TypeOK, CountersType
  <1>4. \A t \in Table \ {u} : tables'[t] = tables[t]
    BY <1>0, <1>3 DEF RemoveKey
  <1>5. ASSUME NEW t \in Table, NEW j \in Key
        PROVE  /\ t = u /\ j = k => ~Present(tables'[t], j) /\ Amount(t, j)' = 0
               /\ t # u \/ j # k => /\ Present(tables'[t], j) <=> Present(tables[t], j)
                                    /\ Amount(t, j)' = Amount(t, j)
    <2>1. CASE t # u
      BY <1>4, <2>1 DEF Amount
    <2>2. CASE t = u /\ j = k
      BY <1>1, <2>2 DEF Amount
    <2>3. CASE t = u /\ j # k
      BY <1>1, <1>3, <2>3 DEF Amount
    <2> QED
      BY <2>1, <2>2, <2>3
  <1>6. /\ got' \in Totals /\ got'[u][k] = 0
        /\ \A t \in Table, j \in Key :
              t # u \/ j # k => got'[t][j] = got[t][j]
    <2>1. got \in Totals
      BY DEF IInv, TypeOK
    <2> HIDE DEF u
    <2> QED
      BY <1>0, <1>3, <2>1 DEF Totals
  <1>7. TypeOK'
    BY <1>0, <1>1, <1>6 DEF IInv, TypeOK, CountersInv, world, procVars, probeVars, histVars
  <1>8. ~args.sum
    BY <1>0 DEF IInv, Phases
  <1>9. Phases'
    <2>1. \A t \in Table \ args.on, j \in Key : ~Present(tables'[t], j)
      BY <1>5 DEF IInv, Phases
    <2> QED
      BY <1>0, <1>1, <1>8, <2>1 DEF IInv, Phases
  <1>10. Filtered' /\ ForeignOnlyFromStart'
    BY <1>0, <1>1, TaskRest DEF world, probeVars
  <1>11. ReadAhead'
    <2>1. ASSUME ~collided, ~orphaned, NEW t \in Table, NEW j \in Key
          PROVE  /\ got'[t][j] <= Amount(t, j)'
                 /\ got'[t][j] > 0 => ~Passed(t) /\ (t = u => j \in it'.seen)
      <3>1. CASE t = u /\ j = k
        BY <1>5, <1>6, <3>1
      <3>2. CASE t # u \/ j # k
        BY <1>0, <1>2, <1>5, <1>6, <2>1, <3>2 DEF IInv, ReadAhead
      <3> QED
        BY <3>1, <3>2
    <2>2. \A t : Passed(t)' = Passed(t)
      BY <1>3 DEF Passed
    <2> QED
      BY <1>0, <1>1, <1>3, <2>1, <2>2 DEF ReadAhead
  <1>12. ReadWhole'
    <2>1. ASSUME ~collided, ~orphaned, NEW t \in Table, NEW j \in Key,
                 Amount(t, j)' > 0, <<t, j>> \notin late
          PROVE  got'[t][j] = Amount(t, j)'
      <3>1. t # u \/ j # k
        BY <1>5, <2>1
      <3> QED
        BY <1>0, <1>5, <1>6, <2>1, <3>1 DEF IInv, ReadWhole
    <2> QED
      BY <1>0, <1>1, <2>1 DEF ReadWhole, world, probeVars
  <1>13. SumRead' /\ SumFresh'
    BY <1>0, <1>8 DEF SumRead, SumFresh
  <1>14. ExactUnlessLate'
    <2>1. ASSUME ~collided, ~orphaned, NEW t \in Table, NEW j \in Key
          PROVE  LET told == shown[t][j] + omitted[t][j] + Outstanding(t, j)' IN
                 /\ Outstanding(t, j)' >= 0 /\ told <= recorded[t][j]
                 /\ <<t, j>> \notin late => told = recorded[t][j]
      <3>0. LET told == shown[t][j] + omitted[t][j] + Outstanding(t, j) IN
            /\ Outstanding(t, j) >= 0 /\ told <= recorded[t][j]
            /\ <<t, j>> \notin late => told = recorded[t][j]
        BY <1>8, <2>1 DEF IInv, ExactUnlessLate
      <3>1. CASE t # u \/ j # k
        <4>1. Outstanding(t, j)' = Outstanding(t, j)
          BY <1>0, <1>5, <1>6, <3>1 DEF Outstanding
        <4> QED
          BY <3>0, <4>1
      <3>2. CASE t = u /\ j = k
        <4>1. Outstanding(t, j)' = 0
          BY <1>0, <1>5, <1>6, <3>2 DEF Outstanding
        <4>2. Outstanding(t, j) = Amount(t, j) - got[t][j]
          BY <1>0 DEF Outstanding
        <4>3. <<t, j>> \notin late => got[t][j] = Amount(t, j)
          <5>1. CASE Amount(t, j) > 0
            BY <1>0, <2>1, <5>1 DEF IInv, ReadWhole
          <5>2. CASE ~(Amount(t, j) > 0)
            <6>1. got[t][j] <= Amount(t, j)
              BY <2>1 DEF IInv, ReadAhead
            <6> QED
              BY <5>2, <6>1, Facts
          <5> QED
            BY <5>1, <5>2
        <4> QED
          BY <3>0, <4>1, <4>2, <4>3, Facts
      <3> QED
        BY <3>1, <3>2
    <2> QED
      BY <1>0, <1>1, <2>1 DEF ExactUnlessLate, world, probeVars, histVars
  <1> QED
    BY <1>1, <1>7, <1>9, <1>10, <1>11, <1>12, <1>13, <1>14 DEF IInv

(* A removal that fails has been preceded by a collision of probes. *)
LEMMA RemoveFailsInv ==
  ASSUME NEW k \in Key, IInv, RemoveFails(k)
  PROVE  IInv'
  <1>0. /\ collided /\ ~iterating /\ UNCHANGED counters
        /\ UNCHANGED <<world, args, got, histVars>>
        /\ upc = "remove" /\ upc' = "failed" /\ attached' = {}
    BY OnlyCollided DEF RemoveFails, RemoveMissing, IInv
  <1>1. CountersInv'
    BY <1>0, CountersKept
  <1>2. TypeOK'
    BY <1>0, <1>1 DEF IInv, TypeOK, CountersInv, world, procVars, probeVars, histVars
  <1>3. Phases' /\ Filtered' /\ ForeignOnlyFromStart'
    <2>1. ~args.sum
      BY <1>0 DEF IInv, Phases
    <2> QED
      BY <1>0, <2>1, PhasesGoOn, TaskRest DEF IInv, counters, world, probeVars
  <1>4. ReadAhead' /\ ReadWhole' /\ SumRead' /\ ExactUnlessLate' /\ SumFresh'
    BY <1>0 DEF ReadAhead, ReadWhole, SumRead, ExactUnlessLate, SumFresh, counters
  <1> QED
    BY <1>1, <1>2, <1>3, <1>4 DEF IInv

(* One map is cleared: the other one follows, or nothing was left over. *)
LEMMA RemoveEndInv ==
  ASSUME IInv, RemoveEnd
  PROVE  IInv'
  <1>0. /\ UNCHANGED kernelSide /\ it.seen = {}
        /\ UNCHANGED <<world, args, attached, histVars>>
        /\ upc = "remove"
        /\ \/ /\ Last(it.map) /\ upc' = "select" /\ got' = Nothing
              /\ UNCHANGED <<it, iterating>>
           \/ /\ ~Last(it.map) /\ upc' = "clear" /\ IterStart("udp") /\ iterating'
              /\ it'.map = "udp" /\ it'.walk = KeysOf(tables["udp"]) /\ got' = got
    BY IdleType DEF RemoveEnd, IterStart, NoIteration, counters, kernelSide
  <1>1. CountersInv'
    <2>1. CASE Last(it.map)
      BY <1>0, <2>1, CountersKept DEF counters, kernelSide
    <2>2. CASE ~Last(it.map)
      BY <1>0, <2>2, CounterMapsAssumption, MapOrder, IterKeeps DEF IInv
    <2> QED
      BY <2>1, <2>2
  <1>2. got' \in Totals
    BY <1>0 DEF IInv, TypeOK, Totals, Nothing
  <1>3. TypeOK'
    BY <1>0, <1>1, <1>2 DEF IInv, TypeOK, CountersInv, world, procVars, probeVars, histVars
  <1>4. ~args.sum
    BY <1>0 DEF IInv, Phases
  <1>5. Phases' /\ Filtered' /\ ForeignOnlyFromStart'
    BY <1>0, <1>4, PhasesGoOn, TaskRest DEF IInv, Phases, kernelSide, world, probeVars
  <1>6. \A t \in Table, j \in Key :
            /\ Amount(t, j)' = Amount(t, j) /\ Present(tables'[t], j) = Present(tables[t], j)
            /\ Amount(t, j) \in Nat /\ got[t][j] \in Nat
    BY <1>0, Facts DEF Amount, kernelSide
  <1>7. ReadAhead'
    <2>1. CASE Last(it.map)
      BY <1>0, <1>6, <2>1 DEF ReadAhead, Nothing
    <2>2. CASE ~Last(it.map)
      <3>1. \A t \in Table : (Passed(t)' => t = it.map) /\ (t = it'.map => t = "udp")
        BY <1>0, <2>2, MapOrder DEF Passed
      <3>2. ASSUME ~collided, ~orphaned, NEW t \in Table, NEW k \in Key
            PROVE  /\ got[t][k] <= Amount(t, k)
                   /\ got[t][k] > 0 => ~Passed(t)' /\ (t = it'.map => k \in it'.walk)
        <4>1. /\ got[t][k] <= Amount(t, k)
              /\ got[t][k] > 0 => t # it.map
          BY <1>0, <3>2 DEF IInv, ReadAhead
        <4>2. got[t][k] > 0 => Present(tables[t], k)
          BY <1>6, <4>1, Facts
        <4> QED
          BY <1>0, <2>2, <3>1, <4>1, <4>2, Facts, MapOrder
      <3> QED
        BY <1>0, <1>6, <2>2, <3>2 DEF ReadAhead, kernelSide
    <2> QED
      BY <2>1, <2>2
  <1>9. ReadWhole'
    <2>1. CASE Last(it.map)
      BY <1>0, <2>1 DEF ReadWhole
    <2>2. CASE ~Last(it.map)
      BY <1>0, <1>6, <2>2 DEF IInv, ReadWhole, kernelSide, world, probeVars
    <2> QED
      BY <2>1, <2>2
  <1>10. SumRead' /\ SumFresh'
    BY <1>0, <1>4 DEF SumRead, SumFresh
  <1>11. ExactUnlessLate'
    <2>1. ASSUME ~collided, ~orphaned, NEW t \in Table, NEW j \in Key
          PROVE  Outstanding(t, j)' = Outstanding(t, j)
      <3>1. CASE Last(it.map)
        <4>1. got[t][j] <= Amount(t, j) /\ (got[t][j] > 0 => t # it.map /\ ~Passed(t))
          BY <1>0, <2>1 DEF IInv, ReadAhead
        <4>2. got[t][j] > 0 => t \in args.on
          BY <1>6, <4>1, Facts
        <4>3. got[t][j] = 0
          BY <1>6, <3>1, <4>1, <4>2, MapOrder
        <4> QED
          BY <1>0, <1>6, <3>1, <4>3 DEF Outstanding
      <3>2. CASE ~Last(it.map)
        BY <1>0, <1>6, <3>2 DEF Outstanding
      <3> QED
        BY <3>1, <3>2
    <2> QED
      BY <1>0, <2>1 DEF IInv, ExactUnlessLate, kernelSide, world, probeVars, histVars
  <1> QED
    BY <1>1, <1>3, <1>5, <1>7, <1>9, <1>10, <1>11 DEF IInv

-----------------------------------------------------------------------------
(* The invariant, and what follows from it.                                  *)

(* Every step keeps the invariant. *)
LEMMA NextInv == IInv /\ [Next]_vars => IInv'
  <1> SUFFICES ASSUME IInv, [Next]_vars PROVE IInv'
    OBVIOUS
  <1>1. CASE Next
    <2>0. Names(args) \subseteq Comm
      BY NetBwAssumption DEF IInv, TypeOK
    <2>1. ASSUME NEW k \in Key, NEW m \in Names(args), Fork(k, m) \/ Rename(k, m)
          PROVE  IInv'
      BY <2>0, <2>1, TasksInv DEF Fork, Rename
    <2>2. ASSUME NEW k \in Key, ExitProcess(k) PROVE IInv'
      <3>1. PICK m \in Comm : TRUE
        BY NetBwAssumption, CounterMapsAssumption
      <3> QED
        BY <2>2, <3>1, TasksInv
    <2>3. ASSUME NEW c \in CPU, NEW m \in Names(args), NEW t \in Table, NEW k \in Key,
                 NEW n \in Sizes, Send(c, m, t, k, n)
          PROVE  IInv'
      BY <2>0, <2>3, SendInv
    <2>4. ASSUME NEW c \in CPU, Probe(c) PROVE IInv'
      BY <2>4, ProbeInv
    <2>5. CASE CheckArgs \/ SetFilter \/ Exit \/ \E t \in Table : Attach(t)
      BY <2>5, StartInv, CounterMapsAssumption
    <2>6. CASE Tick \/ ReadEnd \/ Emit \/ ClearEnd \/ RemoveEnd
      BY <2>6, TickInv, ReadEndInv, EmitInv, ClearEndInv, RemoveEndInv
    <2>7. ASSUME NEW k \in Key, ReadKey(k) \/ ClearKey(k) \/ Remove(k) \/ RemoveFails(k)
          PROVE  IInv'
      BY <2>7, ReadKeyInv, ClearKeyInv, RemoveInv, RemoveFailsInv
    <2> QED
      BY <1>1, <2>1, <2>2, <2>3, <2>4, <2>5, <2>6, <2>7 DEF Next, TaskStep
  <1>2. CASE UNCHANGED vars
    <2>0. /\ UNCHANGED counters
          /\ UNCHANGED <<name, changes, args, attached, upc, got, sends, base, shown,
                         omitted, late, began, strangers>>
      BY <1>2 DEF vars, counters, procVars, taskVars, histVars, probeVars
    <2>1. CountersInv'
      BY <2>0, CountersKept
    <2>2. TypeOK'
      BY <2>0, <2>1 DEF IInv, TypeOK, CountersInv
    <2>3. Phases' /\ Filtered' /\ ForeignOnlyFromStart'
      BY <2>0 DEF IInv, Phases, Filtered, ForeignOnlyFromStart, Present, counters
    <2>4. ReadAhead' /\ ReadWhole' /\ SumRead' /\ ExactUnlessLate' /\ SumFresh'
      BY <2>0, StandsStill DEF IInv, counters
    <2> QED
      BY <2>1, <2>2, <2>3, <2>4 DEF IInv
  <1> QED
    BY <1>1, <1>2

(* The invariant of the model: in which order the maps are worked through,    *)
(* what was read of them, and what the filter lets through.                   *)
THEOREM Invariant == Spec => []IInv
  BY InitInv, NextInv, PTL DEF Spec

(* Without --sum: across both maps no byte is told twice, although probes add *)
(* to them while they are read and cleared, and of an entry to which nothing  *)
(* is added between a tick and the end of its clearing each byte is in one    *)
(* report, or in the next, or left out with the process it belongs to.        *)
THEOREM ReportSafety == Spec => []ExactUnlessLate
  <1>1. IInv => ExactUnlessLate
    BY DEF IInv
  <1> QED
    BY Invariant, <1>1, PTL

(* With --sum a report covers everything sent before its tick, and nothing    *)
(* that was not sent, although probes go on adding while one map and then the *)
(* other is read.                                                             *)
THEOREM SumSafety == Spec => []SumFresh
  <1>1. IInv => SumFresh
    BY DEF IInv
  <1> QED
    BY Invariant, <1>1, PTL

(* The kprobes run before their filter is written: with --comm, whatever else *)
(* is counted, a task whose name does not begin like the one given is counted *)
(* only by a probe that began before that.                                    *)
THEOREM FilterSafety == Spec => []ForeignOnlyFromStart
  <1>1. IInv => ForeignOnlyFromStart
    BY DEF IInv
  <1> QED
    BY Invariant, <1>1, PTL
=============================================================================
