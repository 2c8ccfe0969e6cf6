-------------------------- MODULE CounterMapsProofs --------------------------
(***************************************************************************)
(* What TLAPS proves of CounterMaps: each operation of the probes and of   *)
(* the task keeps CountersInv, for any number of CPUs, keys and elements,  *)
(* and adds to the counters or takes from them what it should.             *)
(***************************************************************************)
EXTENDS CounterMaps, TLAPS

(* The operations of a hash map return hash maps, and change one entry. *)
LEMMA Update ==
  ASSUME NEW m \in MapType(Key), NEW k \in Key, NEW s \in FreeSlots(m), NEW v \in Nat
  PROVE  LET n == UpdateElem(m, k, s, v)
         IN  /\ n \in MapType(Key) /\ n.tab[k] = s /\ n.val[s] = v /\ Present(n, k)
             /\ \A j \in Key \ {k} : n.tab[j] = m.tab[j] /\ m.tab[j] # s
             /\ \A e \in Slot \ {s} : n.val[e] = m.val[e]
  BY BpfHashAssumption DEF UpdateElem, MapType, FreeSlots, Present

(* A store writes one element and leaves the table alone.                   *)
LEMMA StoreOne ==
  ASSUME NEW m \in MapType(Key), NEW s \in Slot, NEW v \in Nat
  PROVE  LET n == StoreElem(m, s, v)
         IN  /\ n \in MapType(Key) /\ n.tab = m.tab /\ n.val[s] = v
             /\ \A e \in Slot \ {s} : n.val[e] = m.val[e]
  BY DEF StoreElem, MapType

(* A removal empties one key and leaves the elements alone.                 *)
LEMMA DeleteOne ==
  ASSUME NEW m \in MapType(Key), NEW k \in Key
  PROVE  LET n == DeleteElem(m, k)
         IN  /\ n \in MapType(Key) /\ n.val = m.val /\ n.tab[k] = NoSlot
             /\ \A j \in Key \ {k} : n.tab[j] = m.tab[j]
  BY DEF DeleteElem, MapType

(* What a map holds for a key is a number, 0 where there is no entry.       *)
LEMMA AmountType ==
  ASSUME CountersType, NEW t \in Table, NEW k \in Key
  PROVE  Amount(t, k) \in Nat /\ (~Present(tables[t], k) => Amount(t, k) = 0)
  <1>1. tables[t] \in MapType(Key)
    BY DEF CountersType
  <1> QED
    BY <1>1 DEF Amount, Present, ValueOf, MapType

(* The keys of a map are those with an element.                             *)
LEMMA KeysPresent ==
  ASSUME NEW m \in MapType(Key)
  PROVE  KeysOf(m) = {k \in Key : Present(m, k)}
  BY DEF KeysOf, MapType

(* A probe and an iteration before they begin.                              *)
LEMMA IdleType ==
  /\ IdleProbe \in ProbeType /\ IdleProbe.pc = "idle"
  /\ NoIteration \in IterType /\ NoIteration.again = {} /\ NoIteration.twice = {}
  /\ NoIteration.seen = {} /\ NoIteration.walk = {}
  BY CounterMapsAssumption DEF IdleProbe, ProbeType, NoIteration, IterType

(* A probe that goes on leaves the others alone.                            *)
LEMMA ProbeChange ==
  ASSUME CountersType, NEW c \in CPU, NEW p \in ProbeType, Becomes(c, p)
  PROVE  /\ probe' \in [CPU -> ProbeType] /\ probe'[c] = p
         /\ \A d \in CPU \ {c} : probe'[d] = probe[d]
  <1> HIDE DEF ProbeType
  <1> QED
    BY DEF CountersType, Becomes

-----------------------------------------------------------------------------
(* The probes.                                                               *)

Works(p) == p.pc \in {"load", "store", "insert"}

(* A probe that only changes its own state, into one that fits in. *)
LEMMA ProbeMoves ==
  ASSUME CountersInv, NEW c \in CPU, NEW p \in ProbeType, Becomes(c, p),
         UNCHANGED <<tables, filterOn, it, iterating, recorded, orphaned>>,
         collided' \in BOOLEAN, collided => collided',
         p.pc \in {"load", "store"} => p.elem \in Slot,
         ~collided' /\ Works(p) =>
             \A d \in CPU \ {c} : Holding(d) => Entry(d) # <<p.map, p.key>>,
         ~collided' /\ p.pc = "insert" => ~Present(tables[p.map], p.key),
         ~collided' /\ ~orphaned =>
            /\ p.pc \in {"load", "store"} => tables[p.map].tab[p.key] = p.elem
            /\ p.pc = "store" => tables[p.map].val[p.elem] = p.reg
  PROVE  CountersInv'
  <1>1. /\ probe' \in [CPU -> ProbeType] /\ probe'[c] = p
        /\ \A d \in CPU \ {c} : probe'[d] = probe[d]
    BY ProbeChange DEF CountersInv
  <1>2. CountersType'
    <2> HIDE DEF ProbeType
    <2> QED
      BY <1>1 DEF CountersInv, CountersType
  <1>3. ElemOK'
    BY <1>1 DEF CountersInv, ElemOK
  <1>4. OneOwner' /\ Removable'
    BY DEF CountersInv, OneOwner, Removable, Present, KeysOf
  <1>5. Apart'
    <2>1. ASSUME NEW d \in CPU \ {c}
          PROVE  (Holding(d)' <=> Holding(d)) /\ Entry(d)' = Entry(d)
      BY <1>1 DEF Holding, Entry
    <2>2. Holding(c)' = Works(p) /\ Entry(c)' = <<p.map, p.key>>
      BY <1>1 DEF Holding, Works, Entry
    <2> QED
      BY <2>1, <2>2 DEF CountersInv, Apart
  <1>6. StillAbsent'
    BY <1>1 DEF CountersInv, StillAbsent, Present
  <1>7. StillValid'
    BY <1>1 DEF CountersInv, StillValid
  <1> QED
    BY <1>2, <1>3, <1>4, <1>5, <1>6, <1>7 DEF CountersInv

(* A probe that begins holds no entry yet.                                  *)
LEMMA EnterKeeps ==
  ASSUME CountersInv, NEW c \in CPU, NEW m \in Comm, NEW t \in Table, NEW k \in Key,
         NEW n \in Nat, EnterProbe(c, m, t, k, n)
  PROVE  CountersInv'
  <1> DEFINE p == [IdleProbe EXCEPT !.pc = "filter", !.comm = m, !.map = t,
                                    !.key = k, !.add = n]
  <1>1. p \in ProbeType /\ p.pc = "filter" /\ Becomes(c, p)
    BY IdleType DEF EnterProbe, ProbeType
  <1> HIDE DEF p
  <1>2. collided' \in BOOLEAN /\ collided' = collided
    BY DEF EnterProbe, CountersInv, CountersType
  <1> QED
    BY <1>1, <1>2, ProbeMoves DEF EnterProbe, Works

(* The steps of a probe that write no map. *)
LEMMA ReadKeeps ==
  ASSUME CountersInv, NEW c \in CPU, CheckFilter(c) \/ Lookup(c) \/ Load(c)
  PROVE  CountersInv'
  <1> DEFINE p == probe[c]
             m == tables[p.map]
  <1>0. /\ p \in ProbeType /\ m \in MapType(Key) /\ p.map \in Table /\ p.key \in Key
        /\ UNCHANGED <<tables, filterOn, it, iterating, recorded, orphaned>>
        /\ collided' \in BOOLEAN /\ (collided => collided')
    BY DEF CountersInv, CountersType, ProbeType, CheckFilter, Lookup, Load
  <1>1. CASE CheckFilter(c)
    <2> DEFINE q == IF filterOn => p.comm \in Target THEN [p EXCEPT !.pc = "lookup"]
                    ELSE IdleProbe
    <2>1. Becomes(c, q) /\ q \in ProbeType /\ q.pc \in {"lookup", "idle"}
      BY <1>0, <1>1, IdleType DEF CheckFilter, ProbeType
    <2> HIDE DEF q
    <2> QED
      BY <1>0, <2>1, ProbeMoves DEF Works
  <1>2. CASE Lookup(c)
    <2> DEFINE q == IF Present(m, p.key) THEN [p EXCEPT !.pc = "load", !.elem = m.tab[p.key]]
                    ELSE [p EXCEPT !.pc = "insert"]
    <2>1. Becomes(c, q)
      BY <1>2 DEF Lookup
    <2>2. /\ q \in ProbeType /\ q.map = p.map /\ q.key = p.key
          /\ \/ /\ Present(m, p.key) /\ q.pc = "load" /\ q.elem = m.tab[p.key]
                /\ q.elem \in Slot
             \/ ~Present(m, p.key) /\ q.pc = "insert"
      <3>1. CASE Present(m, p.key)
        <4>1. m.tab[p.key] \in Slot
          BY <1>0, <3>1 DEF MapType, Present
        <4> HIDE DEF m
        <4> QED
          BY <1>0, <3>1, <4>1 DEF ProbeType
      <3>2. CASE ~Present(m, p.key)
        BY <1>0, <3>2 DEF ProbeType
      <3> QED
        BY <3>1, <3>2
    <2> HIDE DEF q
    <2>3. ~collided' => \A d \in CPU \ {c} : Holding(d) => Entry(d) # <<q.map, q.key>>
      BY <1>2, <2>2 DEF Lookup, Entry
    <2> QED
      BY <1>0, <2>1, <2>2, <2>3, ProbeMoves DEF Works
  <1>3. CASE Load(c)
    <2> DEFINE q == [p EXCEPT !.pc = "store", !.reg = m.val[p.elem]]
    <2>0. p.pc = "load" /\ p.elem \in Slot /\ Holding(c)
      BY <1>3 DEF Load, CountersInv, ElemOK, Holding
    <2>1. Becomes(c, q)
      BY <1>3 DEF Load
    <2>2. /\ q \in ProbeType /\ q.pc = "store" /\ q.map = p.map /\ q.key = p.key
          /\ q.elem = p.elem /\ q.reg = m.val[p.elem]
      <3>1. m.val[p.elem] \in Nat
        BY <1>0, <2>0 DEF MapType
      <3> HIDE DEF m
      <3> QED
        BY <1>0, <3>1 DEF ProbeType
    <2>3. ~collided' => \A d \in CPU \ {c} : Holding(d) => Entry(d) # <<q.map, q.key>>
      BY <1>0, <2>0, <2>2 DEF CountersInv, Apart, Entry
    <2>4. ~collided' /\ ~orphaned => m.tab[q.key] = q.elem
      BY <1>0, <2>0, <2>2 DEF CountersInv, StillValid
    <2> HIDE DEF q
    <2> QED
      BY <1>0, <2>0, <2>1, <2>2, <2>3, <2>4, ProbeMoves DEF Works
  <1> QED
    BY <1>1, <1>2, <1>3

(* A probe writes one entry of its map: no other probe that works on an entry *)
(* of its own notices.                                                        *)
LEMMA OthersKept ==
  ASSUME NEW c \in CPU, NEW t \in Slot, NEW m \in MapType(Key),
         CountersInv, Holding(c), Becomes(c, IdleProbe),
         UNCHANGED <<collided, orphaned>>,
         tables' = [tables EXCEPT ![probe[c].map] = m],
         \A k \in Key \ {probe[c].key} : m.tab[k] = tables[probe[c].map].tab[k],
         \A s \in Slot \ {t} : m.val[s] = tables[probe[c].map].val[s],
         ~collided /\ ~orphaned => \A k \in Key \ {probe[c].key} : m.tab[k] # t
  PROVE  /\ probe' \in [CPU -> ProbeType]
         /\ ElemOK' /\ Apart' /\ StillAbsent' /\ StillValid'
  <1>0. /\ tables \in [Table -> MapType(Key)] /\ probe \in [CPU -> ProbeType]
        /\ \A d \in CPU : probe[d].map \in Table /\ probe[d].key \in Key
    BY DEF CountersInv, CountersType, ProbeType
  <1>1. /\ probe' \in [CPU -> ProbeType] /\ probe'[c].pc = "idle"
        /\ \A d \in CPU \ {c} : probe'[d] = probe[d]
    BY IdleType, ProbeChange DEF CountersInv
  <1>2. ElemOK'
    BY <1>1 DEF CountersInv, ElemOK
  <1>3. Apart'
    <2>1. ASSUME NEW d \in CPU \ {c}
          PROVE  (Holding(d)' <=> Holding(d)) /\ Entry(d)' = Entry(d)
      BY <1>1 DEF Holding, Entry
    <2>2. ~Holding(c)'
      BY <1>1 DEF Holding
    <2> QED
      BY <2>1, <2>2 DEF CountersInv, Apart
  <1>4. ASSUME NEW d \in CPU \ {c}, ~collided, Holding(d)
        PROVE  /\ tables'[probe[d].map].tab[probe[d].key]
                    = tables[probe[d].map].tab[probe[d].key]
               /\ ~orphaned /\ probe[d].map = probe[c].map =>
                    tables[probe[d].map].tab[probe[d].key] # t
    <2>1. probe[d].map # probe[c].map \/ probe[d].key # probe[c].key
      BY <1>4 DEF CountersInv, Apart, Entry
    <2>2. CASE probe[d].map = probe[c].map
      <3>1. tables'[probe[d].map] = m /\ probe[d].key # probe[c].key
        BY <1>0, <2>1, <2>2
      <3>2. m.tab[probe[d].key] = tables[probe[d].map].tab[probe[d].key]
        BY <1>0, <2>2, <3>1
      <3>3. ~orphaned => m.tab[probe[d].key] # t
        BY <1>0, <1>4, <3>1
      <3> QED
        BY <3>1, <3>2, <3>3
    <2>3. CASE probe[d].map # probe[c].map
      BY <1>0, <2>3
    <2> QED
      BY <2>2, <2>3
  <1>5. StillAbsent'
    <2> SUFFICES ASSUME ~collided, NEW d \in CPU, probe'[d].pc = "insert"
                 PROVE  ~Present(tables[probe[d].map], probe[d].key)'
      BY DEF StillAbsent, Present
    <2>1. d # c /\ probe[d].pc = "insert" /\ probe'[d] = probe[d] /\ Holding(d)
      BY <1>1 DEF Holding
    <2>2. ~Present(tables[probe[d].map], probe[d].key)
      BY <2>1 DEF CountersInv, StillAbsent
    <2> QED
      BY <1>4, <2>1, <2>2 DEF Present
  <1>6. StillValid'
    <2> SUFFICES ASSUME ~collided, ~orphaned, NEW d \in CPU,
                        probe'[d].pc \in {"load", "store"}
                 PROVE  LET p == probe'[d]  n == tables'[p.map] IN
                        /\ n.tab[p.key] = p.elem
                        /\ p.pc = "store" => n.val[p.elem] = p.reg
      BY DEF StillValid
    <2> DEFINE p == probe[d]
    <2>1. d # c /\ p.pc \in {"load", "store"} /\ probe'[d] = p /\ Holding(d)
      BY <1>1 DEF Holding
    <2>2. /\ tables[p.map].tab[p.key] = p.elem
          /\ p.pc = "store" => tables[p.map].val[p.elem] = p.reg
      BY <2>1 DEF CountersInv, StillValid
    <2>3. p.map \in Table /\ p.elem \in Slot /\ probe[c].map \in Table
      BY <1>0, <2>1 DEF CountersInv, ElemOK
    <2>4. tables'[p.map].tab[p.key] = p.elem
      BY <1>4, <2>1, <2>2
    <2>5. tables'[p.map].val[p.elem] = tables[p.map].val[p.elem]
      <3>1. CASE p.map = probe[c].map
        <4>1. p.elem # t
          BY <1>4, <2>1, <2>2, <3>1
        <4>2. tables'[p.map] = m
          BY <1>0, <2>3, <3>1
        <4> QED
          BY <2>3, <3>1, <4>1, <4>2
      <3>2. CASE p.map # probe[c].map
        BY <1>0, <2>3, <3>2
      <3> QED
        BY <3>1, <3>2
    <2> QED
      BY <2>1, <2>2, <2>4, <2>5
  <1> QED
    BY <1>1, <1>2, <1>3, <1>5, <1>6

(* Probe c adds what it should to its entry, and nothing to any other. *)
Adds(c) ==
    \A t \in Table, k \in Key :
        Amount(t, k)' = Amount(t, k) + IF <<t, k>> = Entry(c) THEN probe[c].add ELSE 0

(* What a step of probe c does to the maps, and to the iteration over one. *)
Effect(c) ==
    /\ UNCHANGED <<filterOn, iterating, orphaned>>
    /\ collided => collided'
    /\ it'.map = it.map
    /\ ~collided => it' = it
    /\ \A t \in Table, k \in Key : Present(tables[t], k) => Present(tables'[t], k)
    /\ \/ UNCHANGED <<tables, recorded>>
       \/ /\ probe[c].pc \in {"store", "insert"} /\ Added(c) /\ UNCHANGED collided
          /\ ~collided /\ ~orphaned => Adds(c)

(* A store to an element that is still the key's adds to that key alone. *)
LEMMA StoreKeeps ==
  ASSUME CountersInv, NEW c \in CPU, Store(c)
  PROVE  CountersInv' /\ Effect(c)
  <1> DEFINE p == probe[c]
             s == p.elem
             o == tables[p.map]
             m == StoreElem(o, s, p.reg + p.add)
  <1>0. /\ p.pc = "store" /\ Holding(c) /\ Becomes(c, IdleProbe)
        /\ tables' = [tables EXCEPT ![p.map] = m] /\ Added(c)
        /\ UNCHANGED <<filterOn, it, iterating, collided, orphaned>>
    BY DEF Store, Holding
  <1>1. /\ tables \in [Table -> MapType(Key)] /\ recorded \in [Table -> [Key -> Nat]]
        /\ p.map \in Table /\ p.key \in Key /\ p.add \in Nat /\ p.reg \in Nat
        /\ s \in Slot /\ o \in MapType(Key) /\ it \in IterType /\ it.map \in Table
    BY <1>0 DEF CountersInv, CountersType, ElemOK, ProbeType, IterType
  <1>2. /\ m \in MapType(Key) /\ m.tab = o.tab /\ m.val[s] = p.reg + p.add
        /\ \A e \in Slot \ {s} : m.val[e] = o.val[e]
    <2> DEFINE v == p.reg + p.add
    <2>1. v \in Nat
      BY <1>1
    <2> HIDE DEF v
    <2>2. StoreElem(o, s, v) \in MapType(Key) /\ StoreElem(o, s, v).tab = o.tab
          /\ StoreElem(o, s, v).val[s] = v
          /\ \A e \in Slot \ {s} : StoreElem(o, s, v).val[e] = o.val[e]
      <3>1. o \in MapType(Key) /\ s \in Slot
        BY <1>1
      <3> HIDE DEF o, s
      <3> QED
        BY <2>1, <3>1, StoreOne
    <2> QED
      BY <2>2 DEF v
  <1> HIDE DEF m
  <1>3. /\ tables'[p.map] = m /\ \A t \in Table \ {p.map} : tables'[t] = tables[t]
        /\ \A t \in Table : tables'[t].tab = tables[t].tab
    BY <1>0, <1>1, <1>2
  <1>4. ~collided /\ ~orphaned =>
            /\ o.tab[p.key] = s /\ o.val[s] = p.reg
            /\ \A k \in Key \ {p.key} : o.tab[k] # s
    <2> SUFFICES ASSUME ~collided, ~orphaned
                 PROVE  /\ o.tab[p.key] = s /\ o.val[s] = p.reg
                        /\ \A k \in Key \ {p.key} : o.tab[k] # s
      OBVIOUS
    <2>1. o.tab[p.key] = s /\ o.val[s] = p.reg
      BY <1>0 DEF CountersInv, StillValid
    <2>2. Present(o, p.key)
      BY <1>1, <2>1, BpfHashAssumption DEF Present
    <2> QED
      BY <1>1, <2>1, <2>2 DEF CountersInv, OneOwner
  <1>5. /\ probe' \in [CPU -> ProbeType]
        /\ ElemOK' /\ Apart' /\ StillAbsent' /\ StillValid'
    <2>1. /\ \A k \in Key \ {probe[c].key} : m.tab[k] = tables[probe[c].map].tab[k]
          /\ \A e \in Slot \ {s} : m.val[e] = tables[probe[c].map].val[e]
          /\ ~collided /\ ~orphaned => \A k \in Key \ {probe[c].key} : m.tab[k] # s
      BY <1>2, <1>4
    <2>2. tables' = [tables EXCEPT ![probe[c].map] = m] /\ UNCHANGED <<collided, orphaned>>
      BY <1>0
    <2> HIDE DEF s
    <2> QED
      BY <1>0, <1>1, <1>2, <2>1, <2>2, OthersKept
  <1>6. CountersType'
    <2>1. tables' \in [Table -> MapType(Key)]
      BY <1>0, <1>1, <1>2
    <2>2. recorded' \in [Table -> [Key -> Nat]]
      <3>1. recorded[p.map][p.key] + p.add \in Nat
        BY <1>1
      <3> QED
        BY <1>0, <1>1, <3>1 DEF Added
    <2> HIDE DEF ProbeType
    <2> QED
      BY <1>0, <1>5, <2>1, <2>2 DEF CountersInv, CountersType
  <1>7. OneOwner'
    BY <1>3 DEF CountersInv, OneOwner, Present
  <1>8. Removable'
    <2>1. KeysOf(tables'[it.map]) = KeysOf(tables[it.map])
      BY <1>1, <1>3 DEF KeysOf, Present
    <2> QED
      BY <1>0, <2>1 DEF CountersInv, Removable
  <1>9. ASSUME ~collided, ~orphaned, NEW t \in Table, NEW k \in Key
        PROVE  Amount(t, k)' = Amount(t, k) + IF <<t, k>> = Entry(c) THEN p.add ELSE 0
    <2>0. Amount(t, k) \in Nat
      BY AmountType DEF CountersInv
    <2>1. CASE t # p.map
      <3>1. tables'[t] = tables[t] /\ <<t, k>> # Entry(c)
        BY <1>3, <2>1 DEF Entry
      <3>2. Amount(t, k)' = Amount(t, k)
        BY <3>1 DEF Amount
      <3> QED
        BY <2>0, <3>1, <3>2
    <2>2. CASE t = p.map /\ k = p.key
      <3>1. o.tab[k] # NoSlot
        BY <1>1, <1>4, <1>9, <2>2, BpfHashAssumption
      <3>2. Amount(t, k) = p.reg
        BY <1>4, <1>9, <2>2, <3>1 DEF Amount, Present, ValueOf
      <3>3. Amount(t, k)' = p.reg + p.add
        BY <1>2, <1>3, <1>4, <1>9, <2>2, <3>1 DEF Amount, Present, ValueOf
      <3> QED
        BY <2>2, <3>2, <3>3 DEF Entry
    <2>3. CASE t = p.map /\ k # p.key
      <3>1. <<t, k>> # Entry(c)
        BY <2>3 DEF Entry
      <3>2. o.tab[k] # s /\ o.tab[k] \in Slot \cup {NoSlot}
        BY <1>1, <1>4, <1>9, <2>3 DEF MapType
      <3>3. Amount(t, k)' = Amount(t, k)
        BY <1>2, <1>3, <2>3, <3>2 DEF Amount, Present, ValueOf
      <3> QED
        BY <2>0, <3>1, <3>3
    <2> QED
      BY <2>1, <2>2, <2>3
  <1>10. \A t \in Table, k \in Key : Present(tables[t], k) => Present(tables'[t], k)
    BY <1>3 DEF Present
  <1>11. ~collided /\ ~orphaned => Adds(c)
    BY <1>9 DEF Adds
  <1>12. Effect(c)
    BY <1>0, <1>10, <1>11 DEF Effect
  <1> QED
    BY <1>0, <1>5, <1>6, <1>7, <1>8, <1>12 DEF CountersInv

(* Inserting an entry that is still absent adds to it what the probe brought. *)
LEMMA InsertKeeps ==
  ASSUME CountersInv, NEW c \in CPU, Insert(c)
  PROVE  CountersInv' /\ Effect(c)
  <1> DEFINE p == probe[c]
             o == tables[p.map]
  <1>0. /\ p.pc = "insert" /\ Holding(c) /\ Becomes(c, IdleProbe)
        /\ UNCHANGED <<filterOn, iterating, collided, orphaned>>
    BY DEF Insert, Holding
  <1>1. /\ tables \in [Table -> MapType(Key)] /\ recorded \in [Table -> [Key -> Nat]]
        /\ p.map \in Table /\ p.key \in Key /\ p.add \in Nat
        /\ o \in MapType(Key) /\ it \in IterType /\ it.map \in Table
    BY DEF CountersInv, CountersType, ProbeType, IterType
  <1>2. CASE ~CanUpdate(o, p.key)
    <2>1. UNCHANGED <<tables, recorded, it>>
      BY <1>2 DEF Insert
    <2>2. collided' \in BOOLEAN
      BY <1>0 DEF CountersInv, CountersType
    <2>3. CountersInv'
      BY <1>0, <2>1, <2>2, IdleType, ProbeMoves DEF Works
    <2> QED
      BY <1>0, <2>1, <2>3 DEF Effect, Present
  <1>3. CASE CanUpdate(o, p.key)
    <2>1. PICK s \in FreeSlots(o) :
            tables' = [tables EXCEPT ![p.map] = UpdateElem(@, p.key, s, p.add)]
      BY <1>3 DEF Insert
    <2> DEFINE m == UpdateElem(o, p.key, s, p.add)
    <2>2. /\ m \in MapType(Key) /\ m.tab[p.key] = s /\ m.val[s] = p.add /\ Present(m, p.key)
          /\ \A j \in Key \ {p.key} : m.tab[j] = o.tab[j] /\ m.tab[j] # s
          /\ \A e \in Slot \ {s} : m.val[e] = o.val[e]
      <3>1. /\ m \in MapType(Key) /\ m.tab[p.key] = s /\ m.val[s] = p.add /\ Present(m, p.key)
            /\ \A j \in Key \ {p.key} : m.tab[j] = o.tab[j] /\ o.tab[j] # s
            /\ \A e \in Slot \ {s} : m.val[e] = o.val[e]
        BY <1>1, <2>1, Update
      <3> HIDE DEF m
      <3> QED
        BY <3>1
    <2>3. tables' = [tables EXCEPT ![p.map] = m] /\ s \in Slot /\ Added(c)
          /\ it' = Relinked(p.map, p.key)
      BY <1>3, <2>1 DEF Insert, FreeSlots
    <2> HIDE DEF m
    <2>4. /\ tables'[p.map] = m /\ \A t \in Table \ {p.map} : tables'[t] = tables[t]
      BY <1>1, <2>2, <2>3
    <2>5. ~collided => ~Present(o, p.key)
      BY <1>0 DEF CountersInv, StillAbsent
    <2>6. ~collided => it' = it
      BY <2>3, <2>5 DEF Relinked
    <2>7. /\ probe' \in [CPU -> ProbeType]
          /\ ElemOK' /\ Apart' /\ StillAbsent' /\ StillValid'
      <3>1. /\ \A k \in Key \ {probe[c].key} : m.tab[k] = tables[probe[c].map].tab[k]
            /\ \A e \in Slot \ {s} : m.val[e] = tables[probe[c].map].val[e]
            /\ ~collided /\ ~orphaned => \A k \in Key \ {probe[c].key} : m.tab[k] # s
        BY <2>2
      <3>2. tables' = [tables EXCEPT ![probe[c].map] = m] /\ UNCHANGED <<collided, orphaned>>
        BY <1>0, <2>3
      <3> QED
        BY <1>0, <2>2, <2>3, <3>1, <3>2, OthersKept
    <2>8. \A t \in Table, k \in Key : Present(tables[t], k) => Present(tables'[t], k)
      BY <2>2, <2>4 DEF Present
    <2>9. CountersType'
      <3>1. tables' \in [Table -> MapType(Key)]
        BY <1>1, <2>2, <2>3
      <3>2. recorded' \in [Table -> [Key -> Nat]]
        <4>1. recorded[p.map][p.key] + p.add \in Nat
          BY <1>1
        <4> QED
          BY <1>1, <2>3, <4>1 DEF Added
      <3>3. it' \in IterType
        BY <1>1, <2>3 DEF Relinked, IterType
      <3> HIDE DEF ProbeType, IterType
      <3> QED
        BY <1>0, <2>7, <3>1, <3>2, <3>3 DEF CountersInv, CountersType
    <2>10. OneOwner'
      <3> SUFFICES ASSUME NEW t \in Table, NEW j \in Key, NEW k \in Key,
                          Present(tables'[t], j), j # k
                   PROVE  tables'[t].tab[j] # tables'[t].tab[k]
        BY DEF OneOwner, Present
      <3>1. CASE t # p.map
        <4>1. tables'[t] = tables[t]
          BY <2>4, <3>1
        <4> QED
          BY <4>1 DEF CountersInv, OneOwner
      <3>2. CASE t = p.map
        <4>1. tables'[t] = m
          BY <2>4, <3>2
        <4>2. CASE j = p.key \/ k = p.key
          BY <2>2, <4>1, <4>2
        <4>3. CASE j # p.key /\ k # p.key
          <5>1. Present(o, j) /\ m.tab[j] = o.tab[j] /\ m.tab[k] = o.tab[k]
            BY <2>2, <4>1, <4>3 DEF Present
          <5> QED
            BY <1>1, <4>1, <5>1 DEF CountersInv, OneOwner
        <4> QED
          BY <4>2, <4>3
      <3> QED
        BY <3>1, <3>2
    <2>11. Removable'
      <3> SUFFICES ASSUME ~collided PROVE it.seen \subseteq KeysOf(tables'[it.map])
        BY <1>0, <2>6 DEF CountersInv, Removable
      <3>1. it.seen \subseteq KeysOf(tables[it.map]) /\ it.map \in Table
        BY <1>1 DEF CountersInv, Removable
      <3>2. /\ KeysOf(tables[it.map]) = {k \in Key : Present(tables[it.map], k)}
            /\ KeysOf(tables'[it.map]) = {k \in Key : Present(tables'[it.map], k)}
        BY <1>1, <2>9, <3>1, KeysPresent DEF CountersType
      <3> QED
        BY <2>8, <3>1, <3>2
    <2>12. ASSUME ~collided, ~orphaned, NEW t \in Table, NEW k \in Key
           PROVE  Amount(t, k)' = Amount(t, k) + IF <<t, k>> = Entry(c) THEN p.add ELSE 0
      <3>0. Amount(t, k) \in Nat
        BY AmountType DEF CountersInv
      <3>1. CASE t # p.map
        <4>1. tables'[t] = tables[t] /\ <<t, k>> # Entry(c)
          BY <2>4, <3>1 DEF Entry
        <4>2. Amount(t, k)' = Amount(t, k)
          BY <4>1 DEF Amount
        <4> QED
          BY <3>0, <4>1, <4>2
      <3>2. CASE t = p.map /\ k = p.key
        <4>1. Amount(t, k) = 0
          BY <2>5, <2>12, <3>2 DEF Amount
        <4>2. Amount(t, k)' = p.add
          BY <2>2, <2>4, <3>2 DEF Amount, ValueOf
        <4>3. <<t, k>> = Entry(c)
          BY <3>2 DEF Entry
        <4> QED
          BY <1>1, <4>1, <4>2, <4>3
      <3>3. CASE t = p.map /\ k # p.key
        <4>1. <<t, k>> # Entry(c)
          BY <3>3 DEF Entry
        <4>2. /\ m.tab[k] = o.tab[k] /\ m.tab[k] # s /\ o.tab[k] \in Slot \cup {NoSlot}
          BY <1>1, <2>2, <3>3 DEF MapType
        <4>3. Amount(t, k)' = Amount(t, k)
          BY <2>2, <2>4, <3>3, <4>2 DEF Amount, Present, ValueOf
        <4> QED
          BY <3>0, <4>1, <4>3
      <3> QED
        BY <3>1, <3>2, <3>3
    <2>13. ~collided /\ ~orphaned => Adds(c)
      BY <2>12 DEF Adds
    <2>14. it'.map = it.map
      BY <1>1, <2>3 DEF Relinked, IterType
    <2>15. Effect(c)
      BY <1>0, <2>3, <2>6, <2>8, <2>13, <2>14 DEF Effect
    <2> QED
      BY <1>0, <2>7, <2>9, <2>10, <2>11, <2>15 DEF CountersInv
  <1> QED
    BY <1>2, <1>3

(* Every step of a probe keeps the counters in order. *)
LEMMA ProbeKeeps ==
  ASSUME NEW c \in CPU, CountersInv, ProbeStep(c)
  PROVE  CountersInv' /\ Effect(c)
  <1>1. CASE CheckFilter(c) \/ Lookup(c) \/ Load(c)
    <2>1. CountersInv'
      BY <1>1, ReadKeeps
    <2>2. /\ UNCHANGED <<tables, filterOn, it, iterating, recorded, orphaned>>
          /\ collided => collided'
      <3>1. CASE CheckFilter(c)
        BY <3>1 DEF CheckFilter
      <3>2. CASE Lookup(c)
        BY <3>2 DEF Lookup
      <3>3. CASE Load(c)
        BY <3>3 DEF Load
      <3> QED
        BY <1>1, <3>1, <3>2, <3>3
    <2> QED
      BY <2>1, <2>2 DEF Effect
  <1>2. CASE Store(c)
    BY <1>2, StoreKeeps
  <1>3. CASE Insert(c)
    BY <1>3, InsertKeeps
  <1> QED
    BY <1>1, <1>2, <1>3 DEF ProbeStep

(* What q may be, coming from p: past the filter, for the same task and entry. *)
Follows(p, q) ==
    /\ q.map = p.map /\ q.key = p.key /\ q.add = p.add /\ q.comm = p.comm
    /\ q.pc \in {"lookup", "load", "store", "insert"}
    /\ p.pc = "filter" => (filterOn => p.comm \in Target)

(* A probe keeps its entry and its task until it is done. *)
LEMMA ProbeGoesOn ==
  ASSUME NEW c \in CPU, CountersInv, ProbeStep(c)
  PROVE  /\ probe[c].pc # "idle"
         /\ \A d \in CPU \ {c} : probe'[d] = probe[d]
         /\ probe'[c] = IdleProbe \/ Follows(probe[c], probe'[c])
  <1> DEFINE p == probe[c]
  <1>1. probe \in [CPU -> ProbeType] /\ p \in ProbeType
    BY DEF CountersInv, CountersType
  <1>2. \E q : Becomes(c, q) /\ (q = IdleProbe \/ Follows(p, q))
    <2>1. CASE CheckFilter(c)
      <3> DEFINE q == [p EXCEPT !.pc = "lookup"]
      <3>1. CASE filterOn => p.comm \in Target
        <4>1. Becomes(c, q)
          BY <2>1, <3>1 DEF CheckFilter
        <4>2. Follows(p, q)
          BY <1>1, <3>1 DEF ProbeType, Follows
        <4> QED
          BY <4>1, <4>2
      <3>2. CASE ~(filterOn => p.comm \in Target)
        <4>1. Becomes(c, IdleProbe)
          BY <2>1, <3>2 DEF CheckFilter
        <4> QED
          BY <4>1
      <3> QED
        BY <3>1, <3>2
    <2>2. CASE Lookup(c)
      <3> DEFINE q == IF Present(tables[p.map], p.key)
                      THEN [p EXCEPT !.pc = "load", !.elem = tables[p.map].tab[p.key]]
                      ELSE [p EXCEPT !.pc = "insert"]
      <3>1. Becomes(c, q) /\ p.pc = "lookup"
        BY <2>2 DEF Lookup
      <3>2. Follows(p, q)
        BY <1>1, <3>1 DEF ProbeType, Follows
      <3> QED
        BY <3>1, <3>2
    <2>3. CASE Load(c)
      <3> DEFINE q == [p EXCEPT !.pc = "store", !.reg = tables[p.map].val[p.elem]]
      <3>1. Becomes(c, q) /\ p.pc = "load"
        BY <2>3 DEF Load
      <3>2. Follows(p, q)
        BY <1>1, <3>1 DEF ProbeType, Follows
      <3> QED
        BY <3>1, <3>2
    <2>4. CASE Store(c) \/ Insert(c)
      BY <2>4 DEF Store, Insert
    <2> QED
      BY <2>1, <2>2, <2>3, <2>4 DEF ProbeStep
  <1>3. PICK q : Becomes(c, q) /\ (q = IdleProbe \/ Follows(p, q))
    BY <1>2
  <1> HIDE DEF ProbeType
  <1>4. probe'[c] = q /\ \A d \in CPU \ {c} : probe'[d] = probe[d]
    <2>0. Becomes(c, q)
      BY <1>3
    <2>1. probe' = [probe EXCEPT ![c] = q]
      BY <2>0 DEF Becomes
    <2> QED
      BY <1>1, <2>1
  <1>5. probe[c].pc # "idle"
    BY DEF ProbeStep, CheckFilter, Lookup, Load, Store, Insert
  <1> QED
    BY <1>3, <1>4, <1>5

-----------------------------------------------------------------------------
(* The task.                                                                 *)

(* The counters start in order. *)
LEMMA StartsInOrder ==
  ASSUME CountersInit PROVE CountersInv
  <1>1. EmptyMap(Key) \in MapType(Key) /\ \A k \in Key : ~Present(EmptyMap(Key), k)
    BY DEF EmptyMap, MapType, Present
  <1>2. CountersType
    <2> HIDE DEF ProbeType, IterType
    <2> QED
      BY <1>1, IdleType DEF CountersInit, CountersType
  <1>3. ElemOK /\ Apart /\ StillAbsent /\ StillValid
    BY IdleType DEF CountersInit, ElemOK, Apart, StillAbsent, StillValid, Holding
  <1>4. OneOwner
    BY <1>1 DEF CountersInit, OneOwner
  <1>5. Removable
    BY IdleType DEF CountersInit, Removable
  <1> QED
    BY <1>2, <1>3, <1>4, <1>5 DEF CountersInv

(* An iteration changes nothing that the probes see. *)
LEMMA IterKeeps ==
  ASSUME NEW k \in Key, NEW t \in Table, CountersInv,
         IterStart(t) \/ IterKey(k) \/ IterAgain(k) \/ IterEnd
  PROVE  CountersInv' /\ UNCHANGED kernelSide
  <1>1. UNCHANGED kernelSide
    BY DEF IterStart, IterKey, IterAgain, IterEnd
  <1>2. it' \in IterType /\ iterating' \in BOOLEAN
    <2>1. it \in IterType /\ iterating \in BOOLEAN /\ tables[t] \in MapType(Key)
      BY DEF CountersInv, CountersType
    <2>2. KeysOf(tables[t]) \subseteq Key
      BY <2>1, KeysPresent
    <2>3. CASE IterStart(t)
      <3>1. /\ it' = [NoIteration EXCEPT !.map = t, !.walk = KeysOf(tables[t])]
            /\ iterating' = TRUE
        BY <2>3 DEF IterStart
      <3>3. [NoIteration EXCEPT !.map = t, !.walk = KeysOf(tables[t])] \in IterType
        <4>1. NoIteration \in IterType
          BY IdleType
        <4>2. \A w \in SUBSET Key : [NoIteration EXCEPT !.map = t, !.walk = w] \in IterType
          BY <4>1 DEF IterType
        <4> QED
          BY <2>2, <4>2
      <3> QED
        BY <3>1, <3>3
    <2>4. CASE IterKey(k)
      <3>1. iterating' = iterating /\ it' = [it EXCEPT !.seen = it.seen \cup {k}]
        BY <2>4 DEF IterKey
      <3>2. it.seen \cup {k} \in SUBSET Key
        BY <2>1 DEF IterType
      <3> QED
        BY <2>1, <3>1, <3>2 DEF IterType
    <2>5. CASE IterAgain(k)
      <3>1. /\ iterating' = iterating
            /\ it' = [it EXCEPT !.again = it.again \ {k}, !.twice = it.twice \cup {k}]
        BY <2>5 DEF IterAgain
      <3>2. it.again \ {k} \in SUBSET Key /\ it.twice \cup {k} \in SUBSET Key
        BY <2>1 DEF IterType
      <3> QED
        BY <2>1, <3>1, <3>2 DEF IterType
    <2>6. CASE IterEnd
      BY <2>1, <2>6 DEF IterEnd, IterType
    <2> QED
      BY <2>3, <2>4, <2>5, <2>6
  <1>3. CountersType'
    <2> HIDE DEF ProbeType, IterType
    <2> QED
      BY <1>1, <1>2 DEF CountersInv, CountersType, kernelSide
  <1>4. (ElemOK /\ OneOwner /\ Apart /\ StillAbsent /\ StillValid)'
    BY <1>1 DEF CountersInv, kernelSide, ElemOK, OneOwner, Apart, StillAbsent,
                StillValid, Present, Holding, Entry
  <1>5. Removable'
    <2> SUFFICES ASSUME ~collided
                 PROVE  /\ it'.again = {} /\ it'.twice = {}
                        /\ it'.seen \subseteq KeysOf(tables[it'.map])
      BY <1>1 DEF Removable, kernelSide
    <2>1. /\ it.again = {} /\ it.twice = {} /\ it.seen \subseteq KeysOf(tables[it.map])
          /\ it \in IterType /\ tables[it.map] \in MapType(Key)
      BY DEF CountersInv, Removable, CountersType, IterType
    <2>2. CASE IterStart(t)
      BY <2>2, IdleType DEF IterStart, NoIteration
    <2>3. CASE IterKey(k)
      BY <2>1, <2>3, KeysPresent DEF IterKey, IterType
    <2>4. CASE IterAgain(k)
      BY <2>1, <2>4 DEF IterAgain
    <2>5. CASE IterEnd
      BY <2>1, <2>5 DEF IterEnd, IterType
    <2> QED
      BY <2>2, <2>3, <2>4, <2>5
  <1> QED
    BY <1>1, <1>3, <1>4, <1>5 DEF CountersInv

(* Removing a key takes its amount, and no other, out of the map. *)
LEMMA RemoveKeeps ==
  ASSUME NEW k \in Key, CountersInv, RemoveKey(k)
  PROVE  /\ CountersInv'
         /\ UNCHANGED <<filterOn, probe, iterating, recorded, collided>>
         /\ orphaned => orphaned'
         /\ it'.map = it.map
         /\ ~collided => it' = [it EXCEPT !.seen = @ \ {k}]
         /\ ~Present(tables'[it.map], k)
         /\ \A j \in Key \ {k} : /\ Present(tables'[it.map], j) <=> Present(tables[it.map], j)
                                 /\ Amount(it.map, j)' = Amount(it.map, j)
  <1> DEFINE t == it.map
             o == tables[t]
             m == DeleteElem(o, k)
  <1>0. /\ UNCHANGED <<filterOn, probe, iterating, recorded, collided>>
        /\ tables' = [tables EXCEPT ![t] = m] /\ (orphaned => orphaned')
        /\ Present(o, k) /\ k \in it.seen
    BY DEF RemoveKey
  <1>1. /\ tables \in [Table -> MapType(Key)] /\ it \in IterType /\ t \in Table
        /\ o \in MapType(Key)
    BY DEF CountersInv, CountersType, IterType
  <1>2. /\ m \in MapType(Key) /\ m.val = o.val /\ m.tab[k] = NoSlot
        /\ \A j \in Key \ {k} : m.tab[j] = o.tab[j]
    BY <1>1, DeleteOne
  <1> HIDE DEF m
  <1>3. tables'[t] = m /\ \A u \in Table \ {t} : tables'[u] = tables[u]
    BY <1>0, <1>1
  <1>4. it' \in IterType /\ it'.map = t /\ it'.walk = it.walk
        /\ (~collided => it' = [it EXCEPT !.seen = @ \ {k}])
    BY <1>1 DEF RemoveKey, IterType, CountersInv, Removable
  <1>5. CountersType'
    <2>1. tables' \in [Table -> MapType(Key)]
      BY <1>0, <1>1, <1>2
    <2>2. orphaned' \in BOOLEAN
      BY DEF RemoveKey, CountersInv, CountersType
    <2> HIDE DEF ProbeType, IterType
    <2> QED
      BY <1>0, <1>4, <2>1, <2>2 DEF CountersInv, CountersType
  <1>6. ASSUME NEW u \in Table, NEW j \in Key
        PROVE  /\ Present(tables'[u], j) =>
                      Present(tables[u], j) /\ tables'[u].tab[j] = tables[u].tab[j]
               /\ u # t \/ j # k => tables'[u].tab[j] = tables[u].tab[j]
    BY <1>2, <1>3 DEF Present
  <1>7. \A u \in Table : tables'[u].val = tables[u].val
    BY <1>2, <1>3
  <1>8. ElemOK' /\ Apart'
    BY <1>0 DEF CountersInv, ElemOK, Apart, Holding, Entry
  <1>9. OneOwner'
    <2> SUFFICES ASSUME NEW u \in Table, NEW i \in Key, NEW j \in Key,
                        Present(tables'[u], i), j # i
                 PROVE  tables'[u].tab[i] # tables'[u].tab[j]
      BY DEF OneOwner, Present
    <2>1. Present(tables[u], i) /\ tables'[u].tab[i] = tables[u].tab[i]
      BY <1>6
    <2>2. CASE Present(tables'[u], j)
      BY <1>6, <2>1, <2>2 DEF CountersInv, OneOwner
    <2>3. CASE ~Present(tables'[u], j)
      BY <2>3 DEF Present
    <2> QED
      BY <2>2, <2>3
  <1>10. \A c \in CPU : probe[c].map \in Table /\ probe[c].key \in Key
    BY DEF CountersInv, CountersType, ProbeType
  <1>11. StillAbsent'
    BY <1>0, <1>6, <1>10 DEF CountersInv, StillAbsent, Present
  <1>12. StillValid'
    <2> SUFFICES ASSUME ~collided, ~orphaned', NEW c \in CPU,
                        probe[c].pc \in {"load", "store"}
                 PROVE  LET p == probe[c]  n == tables'[p.map] IN
                        /\ n.tab[p.key] = p.elem
                        /\ p.pc = "store" => n.val[p.elem] = p.reg
      BY <1>0 DEF StillValid
    <2>1. ~orphaned /\ (probe[c].map # t \/ probe[c].key # k)
      BY DEF RemoveKey, Entry
    <2> QED
      BY <1>6, <1>7, <1>10, <2>1 DEF CountersInv, StillValid
  <1>13. Removable'
    <2> SUFFICES ASSUME ~collided
                 PROVE  /\ it'.again = {} /\ it'.twice = {}
                        /\ it'.seen \subseteq KeysOf(tables'[t])
      BY <1>0, <1>4 DEF Removable
    <2>1. it.again = {} /\ it.twice = {} /\ it.seen \subseteq KeysOf(tables[t])
      BY DEF CountersInv, Removable
    <2>2. it'.again = {} /\ it'.twice = {} /\ it'.seen = it.seen \ {k}
      BY <1>1, <1>4, <2>1 DEF IterType
    <2>3. \A j \in it.seen \ {k} : j \in Key /\ Present(tables[t], j)
      BY <1>1, <2>1, KeysPresent
    <2>4. \A j \in it.seen \ {k} : j \in Key /\ Present(tables'[t], j)
      BY <1>1, <1>6, <2>3 DEF Present
    <2> QED
      BY <1>2, <1>3, <2>2, <2>4, KeysPresent
  <1>14. ASSUME NEW j \in Key \ {k}
         PROVE  /\ Present(tables'[t], j) <=> Present(tables[t], j)
                /\ Amount(t, j)' = Amount(t, j)
    <2>1. tables'[t].tab[j] = tables[t].tab[j] /\ tables'[t].val = tables[t].val
      BY <1>1, <1>6, <1>7
    <2> QED
      BY <1>4, <2>1 DEF Amount, Present, ValueOf
  <1>15. ~Present(tables'[t], k)
    BY <1>2, <1>3 DEF Present
  <1> QED
    BY <1>0, <1>4, <1>5, <1>8, <1>9, <1>11, <1>12, <1>13, <1>14, <1>15 DEF CountersInv

(* Only a collided map returns a key twice, or loses one it returned. *)
LEMMA OnlyCollided ==
  ASSUME NEW k \in Key, CountersInv, IterAgain(k) \/ RemoveMissing(k)
  PROVE  collided
  BY DEF CountersInv, Removable, IterAgain, RemoveMissing, KeysOf

(* Whoever leaves the counters alone keeps them in order. *)
LEMMA CountersStay ==
  ASSUME CountersInv,
         UNCHANGED <<tables, probe, it, iterating, recorded, collided, orphaned>>,
         filterOn' \in BOOLEAN
  PROVE  CountersInv'
  <1>1. CountersType'
    <2> HIDE DEF ProbeType, IterType
    <2> QED
      BY DEF CountersInv, CountersType
  <1> QED
    BY <1>1 DEF CountersInv, ElemOK, OneOwner, Apart, StillAbsent, StillValid, Removable,
                Present, Holding, Entry, KeysOf
=============================================================================
