---------------------------- MODULE DstLogProofs ----------------------------
(***************************************************************************)
(* What TLAPS proves of DstLog, for any number of CPUs, destinations, map  *)
(* elements and events: its types, whom the filter lets into the log, that *)
(* the log is exact until the first race and a drain fails only when both  *)
(* races meet (from the invariant of DstLogInv), and that it implements    *)
(* EpochLog.                                                               *)
(***************************************************************************)
EXTENDS DstLogInv, TLAPS

(* The operations of a hash map return hash maps. *)
LEMMA MapOps ==
  ASSUME NEW K, NEW m \in MapType(K), NEW k \in K, NEW s \in Slot, NEW v \in Nat
  PROVE  UpdateElem(m, k, s, v) \in MapType(K) /\ StoreElem(m, s, v) \in MapType(K)
  BY DEF MapType, UpdateElem, StoreElem

(* A map without entries is a map.                                          *)
LEMMA EmptyMapType == ASSUME NEW K PROVE EmptyMap(K) \in MapType(K)
  BY DEF MapType, EmptyMap

(* The idle state of a probe has the type of one. *)
LEMMA IdleType == IdleProbe \in ProbeType
  <1>1. PICK i \in Ip : TRUE
    BY DstLogAssumption
  <1>2. <<i, "tcp">> \in Key
    BY <1>1 DEF Key, Proto
  <1>3. (CHOOSE k \in Key : TRUE) \in Key
    BY <1>2
  <1> QED
    BY <1>3, DstLogAssumption DEF IdleProbe, ProbeType, ProbePc, Buf

(* A step of one probe keeps the types of all. *)
LEMMA BecomesType ==
    ASSUME NEW c \in CPU, NEW p \in ProbeType, Becomes(c, p),
           probe \in [CPU -> ProbeType]
    PROVE  probe' \in [CPU -> ProbeType]
  BY DEF Becomes

(* The initial state has the types. *)
LEMMA TypeInit == Init => TypeOK
  <1> SUFFICES ASSUME Init PROVE TypeOK
    OBVIOUS
  <1>1. dst \in [Buf -> MapType(Key)]
    BY EmptyMapType DEF Init
  <1>2. probe \in [CPU -> ProbeType]
    BY IdleType DEF Init
  <1> QED
    BY <1>1, <1>2 DEF Init, TypeOK, Buf, UserPc, Startup

(* A probe goes only through pointers it was given.                         *)
LEMMA ElemStep == TypeOK /\ ElemOK /\ [Next]_vars => ElemOK'
  <1> SUFFICES ASSUME TypeOK, ElemOK, [Next]_vars PROVE ElemOK'
    OBVIOUS
  <1> DEFINE OK(p) == p.pc \in {"load", "store"} => p.elem \in Slot
  <1>0. /\ probe \in [CPU -> ProbeType] /\ dst \in [Buf -> MapType(Key)]
        /\ \A c \in CPU : OK(probe[c])
    BY DEF TypeOK, ElemOK
  <1>1. ASSUME NEW c \in CPU, NEW p, OK(p), Becomes(c, p) PROVE ElemOK'
    BY <1>0, <1>1 DEF Becomes, ElemOK
  <1>2. OK(IdleProbe)
    BY DEF IdleProbe
  <1>3. ASSUME NEW c \in CPU, NEW m \in Comm, NEW k \in Key, Enter(c, m, k)
        PROVE  ElemOK'
    <2>1. OK([probe[c] EXCEPT !.pc = "filter", !.comm = m, !.key = k])
      BY <1>0 DEF ProbeType
    <2> QED
      BY <1>1, <1>3, <2>1 DEF Enter
  <1>4. ASSUME NEW c \in CPU, CheckFilter(c) \/ Store(c) \/ Insert(c)
        PROVE  ElemOK'
    <2>1. OK([probe[c] EXCEPT !.pc = "active"])
      BY <1>0 DEF ProbeType
    <2> QED
      BY <1>1, <1>2, <1>4, <2>1 DEF CheckFilter, Store, Insert, Goto, Return
  <1>5. ASSUME NEW c \in CPU, ReadActive(c) PROVE ElemOK'
    <2>1. OK([probe[c] EXCEPT !.pc = "lookup", !.buf = active])
      BY <1>0 DEF ProbeType
    <2> QED
      BY <1>1, <1>5, <2>1 DEF ReadActive
  <1>6. ASSUME NEW c \in CPU, Lookup(c) PROVE ElemOK'
    <2> DEFINE p == probe[c]
    <2>1. p \in ProbeType
      BY <1>0
    <2>2. Present(dst[p.buf], p.key) =>
            OK([p EXCEPT !.pc = "load", !.elem = dst[p.buf].tab[p.key]])
      BY <1>0, <2>1 DEF Present, MapType, ProbeType
    <2>3. OK([p EXCEPT !.pc = "insert"])
      BY <2>1 DEF ProbeType
    <2> QED
      BY <1>1, <1>6, <2>2, <2>3 DEF Lookup, Goto
  <1>7. ASSUME NEW c \in CPU, Load(c) PROVE ElemOK'
    <2> DEFINE p == probe[c]
    <2>1. OK([p EXCEPT !.pc = "store", !.reg = dst[p.buf].val[p.elem]])
      BY <1>0, <1>7 DEF Load, ProbeType
    <2> QED
      BY <1>1, <1>7, <2>1 DEF Load
  <1>8. CASE UserStep \/ SigInt \/ UNCHANGED vars
    <2>1. UNCHANGED probe
      BY <1>8 DEF UserStep, SigInt, vars, kernelVars, CheckArgs, AttachTcp,
           AttachUdp, SetFilter, SetConfig, SetActive, StartupError, Tick,
           IterKey, IterAgain, IterEnd, PrintEntries, Remove, RemoveFails,
           RemoveEnd, CtrlC
    <2> QED
      BY <2>1 DEF ElemOK
  <1> QED
    BY <1>3, <1>4, <1>5, <1>6, <1>7, <1>8 DEF Next, ProbeStep

(* Every step preserves the types.                                          *)
LEMMA TypeStep == TypeOK /\ ElemOK /\ [Next]_vars => TypeOK'
  <1> SUFFICES ASSUME TypeOK, ElemOK, [Next]_vars PROVE TypeOK'
    OBVIOUS
  <1>0. probe \in [CPU -> ProbeType] /\ dst \in [Buf -> MapType(Key)]
    BY DEF TypeOK
  <1>1. ASSUME NEW c \in CPU, NEW m \in Comm, NEW k \in Key, Enter(c, m, k)
        PROVE  TypeOK'
    <2>1. [probe[c] EXCEPT !.pc = "filter", !.comm = m, !.key = k] \in ProbeType
      BY <1>0 DEF ProbeType, ProbePc
    <2>2. probe' \in [CPU -> ProbeType]
      BY <1>0, <1>1, <2>1, BecomesType DEF Enter
    <2>3. events' \in Nat
      BY <1>1 DEF Enter, TypeOK
    <2> QED
      BY <1>1, <2>2, <2>3 DEF Enter, TypeOK, userVars, histVars
  <1>2. ASSUME NEW c \in CPU, CheckFilter(c) PROVE TypeOK'
    <2>1. [probe[c] EXCEPT !.pc = "active"] \in ProbeType
      BY <1>0 DEF ProbeType, ProbePc
    <2>2. probe' \in [CPU -> ProbeType]
      BY <1>0, <1>2, <2>1, IdleType, BecomesType DEF CheckFilter, Goto, Return
    <2> QED
      BY <1>2, <2>2 DEF CheckFilter, TypeOK, userVars, histVars
  <1>3. ASSUME NEW c \in CPU, ReadActive(c) PROVE TypeOK'
    <2>1. [probe[c] EXCEPT !.pc = "lookup", !.buf = active] \in ProbeType
      BY <1>0 DEF ProbeType, ProbePc, TypeOK
    <2>2. probe' \in [CPU -> ProbeType]
      BY <1>0, <1>3, <2>1, BecomesType DEF ReadActive
    <2>3. collided' \in BOOLEAN
      BY <1>3 DEF ReadActive, TypeOK
    <2> QED
      BY <1>3, <2>2, <2>3 DEF ReadActive, TypeOK, userVars
  <1>4. ASSUME NEW c \in CPU, Lookup(c) PROVE TypeOK'
    <2> DEFINE p == probe[c]
    <2>1. p \in ProbeType
      BY <1>0
    <2>2. Present(dst[p.buf], p.key) => dst[p.buf].tab[p.key] \in Slot
      BY <1>0, <2>1 DEF Present, MapType, ProbeType
    <2>3. Present(dst[p.buf], p.key) =>
            [p EXCEPT !.pc = "load", !.elem = dst[p.buf].tab[p.key]] \in ProbeType
      BY <2>1, <2>2 DEF ProbeType, ProbePc
    <2>4. [p EXCEPT !.pc = "insert"] \in ProbeType
      BY <2>1 DEF ProbeType, ProbePc
    <2>5. probe' \in [CPU -> ProbeType]
      BY <1>0, <1>4, <2>3, <2>4, BecomesType DEF Lookup, Goto
    <2> QED
      BY <1>4, <2>5 DEF Lookup, TypeOK, userVars, histVars
  <1>5. ASSUME NEW c \in CPU, Load(c) PROVE TypeOK'
    <2> DEFINE p == probe[c]
    <2>1. dst[p.buf].val[p.elem] \in Nat
      BY <1>0, <1>5 DEF Load, ElemOK, MapType, ProbeType
    <2>2. [p EXCEPT !.pc = "store", !.reg = dst[p.buf].val[p.elem]] \in ProbeType
      BY <1>0, <2>1 DEF ProbeType, ProbePc
    <2>3. probe' \in [CPU -> ProbeType]
      BY <1>0, <1>5, <2>2, BecomesType DEF Load
    <2> QED
      BY <1>5, <2>3 DEF Load, TypeOK, userVars, histVars
  <1> USE DEF TypeOK
  <1>6. ASSUME NEW c \in CPU, Store(c) PROVE TypeOK'
    <2>1. probe[c].reg + 1 \in Nat /\ probe[c].buf \in Buf
      BY DEF ProbeType
    <2>2. dst' \in [Buf -> MapType(Key)]
      BY <1>6, <2>1 DEF Store, StoreElem, MapType
    <2>3. recorded' \in [Key -> Nat] /\ sources' \subseteq Comm \X Key
      BY <1>6 DEF Store, Counted, ProbeType
    <2>4. probe' \in [CPU -> ProbeType]
      BY <1>6, IdleType, BecomesType DEF Store, Return
    <2> QED
      BY <1>6, <2>2, <2>3, <2>4 DEF Store, Counted, userVars
  <1>7. ASSUME NEW c \in CPU, Insert(c) PROVE TypeOK'
    <2>1. probe[c].buf \in Buf /\ probe[c].key \in Key
      BY DEF ProbeType
    <2>2. dst' \in [Buf -> MapType(Key)]
      <3>1. CASE CanUpdate(dst[probe[c].buf], probe[c].key)
        <4>1. PICK s \in FreeSlots(dst[probe[c].buf]) :
                dst' = [dst EXCEPT ![probe[c].buf] = UpdateElem(@, probe[c].key, s, 1)]
          BY <1>7, <3>1 DEF Insert
        <4>2. UpdateElem(dst[probe[c].buf], probe[c].key, s, 1) \in MapType(Key)
          BY <2>1, <4>1, MapOps DEF FreeSlots
        <4> QED
          BY <4>1, <4>2
      <3>2. CASE ~CanUpdate(dst[probe[c].buf], probe[c].key)
        BY <1>7, <3>2 DEF Insert
      <3> QED
        BY <3>1, <3>2
    <2>3. /\ recorded' \in [Key -> Nat] /\ sources' \subseteq Comm \X Key
          /\ UNCHANGED <<printed, straddled, collided>>
      BY <1>7 DEF Insert, Counted, ProbeType, histVars
    <2>4. probe' \in [CPU -> ProbeType]
      BY <1>7, IdleType, BecomesType DEF Insert, Return
    <2>5. walk' \subseteq Key /\ again' \subseteq Key
      BY <1>7 DEF Insert, Relink
    <2> QED
      BY <1>7, <2>2, <2>3, <2>4, <2>5 DEF Insert
  <1>8. ASSUME UserStep \/ SigInt PROVE TypeOK'
    <2> USE DEF UserPc, Startup, kernelVars, histVars, UserLocals
    <2>1. CASE CheckArgs \/ AttachTcp \/ AttachUdp
      BY <2>1 DEF CheckArgs, AttachTcp, AttachUdp, Proto
    <2>2. CASE SetFilter \/ SetConfig \/ SetActive
      BY <2>2 DEF SetFilter, SetConfig, SetActive, Enabled, Args
    <2>3. CASE StartupError \/ CtrlC \/ SigInt
      BY <2>3 DEF StartupError, CtrlC, SigInt, Exit
    <2>4. CASE Tick
      <3>1. writeBuf' \in Buf /\ drainBuf' \in Buf /\ active' \in Buf
        BY <2>4 DEF Tick, Other, Buf
      <3>2. walk' \subseteq Key
        BY <2>4, <3>1 DEF Tick, KeysOf, MapType
      <3>3. straddled' \in BOOLEAN
        BY <2>4 DEF Tick
      <3> QED
        BY <2>4, <3>1, <3>2, <3>3 DEF Tick
    <2>5. CASE \E k \in Key : IterKey(k) \/ IterAgain(k)
      <3>1. PICK k \in Key : IterKey(k) \/ IterAgain(k)
        BY <2>5
      <3>2. \A s \in Slot \cup {NoSlot} : s # NoSlot => dst[drainBuf].val[s] \in Nat
        BY DEF MapType
      <3>3. CASE IterKey(k)
        BY <3>2, <3>3 DEF IterKey, ValueOf, Present, MapType
      <3>4. CASE IterAgain(k)
        BY <3>2, <3>4 DEF IterAgain, ValueOf, Present, MapType
      <3> QED
        BY <3>1, <3>3, <3>4
    <2>6. CASE IterEnd \/ RemoveEnd
      BY <2>6 DEF IterEnd, RemoveEnd
    <2>7. CASE PrintEntries
      BY <2>7 DEF PrintEntries
    <2>8. CASE \E k \in Key : Remove(k) \/ RemoveFails(k)
      <3>1. PICK k \in Key : Remove(k) \/ RemoveFails(k)
        BY <2>8
      <3>2. CASE Remove(k)
        <4>1. dst' \in [Buf -> MapType(Key)]
          BY <3>2 DEF Remove, DeleteElem, MapType
        <4> QED
          BY <3>2, <4>1 DEF Remove
      <3>3. CASE RemoveFails(k)
        BY <3>3 DEF RemoveFails, Exit
      <3> QED
        BY <3>1, <3>2, <3>3
    <2> QED
      BY <1>8, <2>1, <2>2, <2>3, <2>4, <2>5, <2>6, <2>7, <2>8 DEF UserStep
  <1>9. CASE UNCHANGED vars
    BY <1>9 DEF vars, kernelVars, userVars, histVars
  <1> QED
    BY <1>1, <1>2, <1>3, <1>4, <1>5, <1>6, <1>7, <1>8, <1>9 DEF Next, ProbeStep

(* TypeOK is an invariant. *)
THEOREM TypeCorrect == Spec => []TypeOK
  <1>1. Init => ElemOK
    BY DEF Init, ElemOK, IdleProbe
  <1>2. Spec => [](TypeOK /\ ElemOK)
    BY <1>1, TypeInit, TypeStep, ElemStep, PTL DEF Spec
  <1> QED
    BY <1>2, PTL

-----------------------------------------------------------------------------
(* Only what was asked for is counted. *)

LEMMA FilterInit == Init => FilterInv
  <1> SUFFICES ASSUME Init PROVE FilterInv
    OBVIOUS
  <1>1. \A c \in CPU : probe[c].pc = "idle"
    BY DEF Init, IdleProbe
  <1>2. \A q \in Proto : ~config[q]
    BY DEF Init
  <1> QED
    BY <1>1, <1>2, TypeInit DEF Init, FilterInv, Accepted, OnlyTargetRecorded

(* Every step preserves what probes have established of their event.        *)
LEMMA FilterStep == FilterInv /\ ElemOK /\ [Next]_vars => FilterInv'
  <1> SUFFICES ASSUME FilterInv, ElemOK, [Next]_vars PROVE FilterInv'
    OBVIOUS
  <1> DEFINE Sound == /\ \A q \in Proto : config[q] => Enabled(args, q)
                      /\ \A c \in CPU : Accepted(probe[c])
                      /\ OnlyTargetRecorded
  <1>0. /\ TypeOK /\ TypeOK' /\ Sound
        /\ probe \in [CPU -> ProbeType]
    BY TypeStep DEF FilterInv, TypeOK
  <1>1. ASSUME NEW c \in CPU, NEW p, Becomes(c, p), Accepted(p),
               UNCHANGED <<args, config, sources>>
        PROVE  Sound'
    <2>1. probe'[c] = p /\ \A d \in CPU \ {c} : probe'[d] = probe[d]
      BY <1>0, <1>1 DEF Becomes
    <2> QED
      BY <1>0, <1>1, <2>1 DEF Accepted, Enabled, OnlyTargetRecorded
  <1>2. ASSUME NEW c \in CPU, NEW m \in Comm, NEW k \in Key, Enter(c, m, k)
        PROVE  Sound'
    <2> DEFINE q == [probe[c] EXCEPT !.pc = "filter", !.comm = m, !.key = k]
    <2>1. q.pc = "filter" /\ q.key = k
      BY <1>0 DEF ProbeType
    <2>2. Enabled(args, k[2])
      BY <1>0, <1>2 DEF Enter, Key
    <2>3. Becomes(c, q) /\ UNCHANGED <<args, config, sources>>
      BY <1>2 DEF Enter, userVars, histVars
    <2> HIDE DEF q, Sound
    <2> QED
      BY <1>1, <2>1, <2>2, <2>3 DEF Accepted
  <1>3. ASSUME NEW c \in CPU,
               CheckFilter(c) \/ ReadActive(c) \/ Lookup(c) \/ Load(c)
        PROVE  Sound'
    <2> DEFINE p == probe[c]
               q1 == [p EXCEPT !.pc = "active"]
               q2 == [p EXCEPT !.pc = "lookup", !.buf = active]
               q3 == [p EXCEPT !.pc = "load", !.elem = dst[p.buf].tab[p.key]]
               q4 == [p EXCEPT !.pc = "insert"]
               q5 == [p EXCEPT !.pc = "store", !.reg = dst[p.buf].val[p.elem]]
    <2>1. Accepted(p) /\ p \in ProbeType
      BY <1>0
    <2>2. \A q \in {q1, q2, q3, q4, q5} :
            q.key = p.key /\ q.comm = p.comm /\ q.pc # "idle"
      BY <2>1 DEF ProbeType
    <2>3. p.pc # "idle"
      BY <1>3 DEF CheckFilter, ReadActive, Lookup, Load
    <2>4. CASE CheckFilter(c)
      <3>1. /\ UNCHANGED <<args, config, sources>>
            /\ \/ Becomes(c, q1) /\ p.comm \in Target /\ p.key[1] \in External
               \/ Becomes(c, IdleProbe)
        BY <2>4 DEF CheckFilter, Goto, Return, userVars, histVars
      <3>2. Accepted(IdleProbe)
        BY DEF Accepted, IdleProbe
      <3>3. p.comm \in Target /\ p.key[1] \in External => Accepted(q1)
        BY <2>1, <2>2, <2>3 DEF Accepted
      <3> HIDE DEF q1, Sound
      <3> QED
        BY <1>1, <3>1, <3>2, <3>3
    <2>5. CASE ReadActive(c) \/ Lookup(c) \/ Load(c)
      <3>1. /\ UNCHANGED <<args, config, sources>>
            /\ Becomes(c, q2) \/ Becomes(c, q3) \/ Becomes(c, q4) \/ Becomes(c, q5)
        BY <2>5 DEF ReadActive, Lookup, Load, Goto, userVars, histVars
      <3>2. p.pc \notin {"idle", "filter"}
        BY <2>5 DEF ReadActive, Lookup, Load
      <3>3. Accepted(q2) /\ Accepted(q3) /\ Accepted(q4) /\ Accepted(q5)
        BY <2>1, <2>2, <3>2 DEF Accepted
      <3> HIDE DEF q2, q3, q4, q5, Sound
      <3> QED
        BY <1>1, <3>1, <3>3
    <2> QED
      BY <1>3, <2>4, <2>5
  <1>4. ASSUME NEW c \in CPU, Store(c) \/ Insert(c) PROVE Sound'
    <2> DEFINE p == probe[c]
    <2>1. /\ p.pc \in {"store", "insert"} /\ Becomes(c, IdleProbe)
          /\ sources' \in {sources, sources \cup {<<p.comm, p.key>>}}
          /\ UNCHANGED <<args, config>>
      BY <1>4 DEF Store, Insert, Counted, Return, userVars, histVars
    <2>2. p.comm \in Target /\ p.key[1] \in External /\ Enabled(args, p.key[2])
      BY <1>0, <2>1 DEF Accepted
    <2>3. OnlyTargetRecorded'
      BY <1>0, <2>1, <2>2 DEF OnlyTargetRecorded, Enabled
    <2>4. \A d \in CPU : probe'[d] = probe[d] \/ probe'[d].pc = "idle"
      BY <1>0, <2>1 DEF Becomes, IdleProbe
    <2>5. (\A d \in CPU : Accepted(probe[d]))'
      BY <1>0, <2>1, <2>4 DEF Accepted, Enabled
    <2> QED
      BY <1>0, <2>1, <2>3, <2>5 DEF Enabled
  <1>5. ASSUME UserStep \/ SigInt \/ UNCHANGED vars PROVE Sound'
    <2>1. UNCHANGED <<probe, args, sources>>
      BY <1>5 DEF UserStep, SigInt, vars, kernelVars, userVars, histVars, CheckArgs,
         AttachTcp, AttachUdp, SetFilter, SetConfig, SetActive, StartupError, Tick,
         IterKey, IterAgain, IterEnd, PrintEntries, Remove, RemoveFails, RemoveEnd,
         CtrlC
    <2>2. \/ UNCHANGED config
          \/ config' = [q \in Proto |-> Enabled(args, q)]
      BY <1>5 DEF UserStep, SigInt, vars, kernelVars, userVars, histVars, CheckArgs,
         AttachTcp, AttachUdp, SetFilter, SetConfig, SetActive, StartupError, Tick,
         IterKey, IterAgain, IterEnd, PrintEntries, Remove, RemoveFails, RemoveEnd,
         CtrlC
    <2> QED
      BY <1>0, <2>1, <2>2 DEF Accepted, Enabled, OnlyTargetRecorded
  <1>6. Sound'
    BY <1>2, <1>3, <1>4, <1>5 DEF Next, ProbeStep
  <1> QED
    BY <1>0, <1>6 DEF FilterInv

(* Nothing but external destinations of the requested tasks over a requested *)
(* protocol is ever counted, whatever the order of attaching and configuring.*)
THEOREM FilterSafety == Spec => []OnlyTargetRecorded
  <1>1. Init => ElemOK
    BY DEF Init, ElemOK, IdleProbe
  <1>2. FilterInv => TypeOK /\ OnlyTargetRecorded
    BY DEF FilterInv
  <1>3. Spec => [](FilterInv /\ ElemOK)
    BY <1>1, <1>2, FilterInit, FilterStep, ElemStep, PTL DEF Spec
  <1> QED
    BY <1>2, <1>3, PTL

-----------------------------------------------------------------------------
(* The log is exact until the first race.                                    *)

Holds(p) == p.pc \in {"lookup", "load", "store", "insert"}

(* The part of the invariant that speaks of the probes, and the rest. *)
ProbeInv == OnActive /\ Apart /\ StillAbsent /\ StillValid
TaskInv  == Turned /\ Removable /\ NothingMissed /\ Current /\ ExactUnlessRaced

Touched == <<active, dst, straddled>>
Task == <<args, upc, writeBuf, drainBuf, walk, again, seen, twice, snap>>

(* A step that leaves what the maps owe alone; one that counts an event of k. *)
SameOutstanding ==
    \A b \in Buf, j \in Key : Outstanding(b, j)' = Outstanding(b, j)
OneMore(k) ==
    \A b \in Buf, j \in Key :
        Outstanding(b, j)' = IF b = active /\ j = k THEN Outstanding(b, j) + 1
                             ELSE Outstanding(b, j)

(* What a map owes is a number. *)
LEMMA OutstandingType ==
  ASSUME TypeOK PROVE \A b \in Buf, k \in Key : Outstanding(b, k) \in Nat
  <1> SUFFICES ASSUME NEW b \in Buf, NEW k \in Key PROVE Outstanding(b, k) \in Nat
    OBVIOUS
  <1>1. dst[b] \in MapType(Key)
    BY DEF TypeOK
  <1> QED
    BY <1>1 DEF Outstanding, Present, ValueOf, MapType

(* A probe that only changes its own state leaves the task's part alone ... *)
LEMMA TaskUntouched ==
  ASSUME TaskInv, OneOwner, collided => collided',
         UNCHANGED Touched, UNCHANGED Task, UNCHANGED <<recorded, printed>>
  PROVE  TaskInv' /\ OneOwner'
  <1>1. OneOwner'
    BY DEF OneOwner, Touched, Present
  <1>2. Turned'
    BY DEF TaskInv, Turned, Touched, Task, Draining
  <1>3. Removable'
    BY DEF TaskInv, Removable, Touched, Task, Draining, KeysOf, Present
  <1>4. NothingMissed'
    BY DEF TaskInv, NothingMissed, Touched, Task, KeysOf, Present
  <1>5. Current'
    BY DEF TaskInv, Current, Touched, Task, Draining, ValueOf
  <1>6. ExactUnlessRaced'
    BY DEF TaskInv, ExactUnlessRaced, Outstanding, Shown, Touched, Task, Present,
           ValueOf
  <1> QED
    BY <1>1, <1>2, <1>3, <1>4, <1>5, <1>6 DEF TaskInv

(* ... and keeps the probes' part if its own new state fits in. *)
LEMMA ProbeMoves ==
  ASSUME ProbeInv, probe \in [CPU -> ProbeType],
         NEW c \in CPU, NEW p, Becomes(c, p),
         UNCHANGED Touched, collided => collided',
         ~straddled /\ Holds(p) => p.buf = active,
         ~collided' /\ Holds(p) =>
            \A d \in CPU \ {c} : Holding(d) =>
                probe[d].buf # p.buf \/ probe[d].key # p.key,
         ~collided' /\ p.pc = "insert" => ~Present(dst[p.buf], p.key),
         ~straddled /\ ~collided' =>
            /\ p.pc \in {"load", "store"} => dst[p.buf].tab[p.key] = p.elem
            /\ p.pc = "store" => dst[p.buf].val[p.elem] = p.reg
  PROVE  ProbeInv'
  <1>1. probe'[c] = p /\ \A d \in CPU \ {c} : probe'[d] = probe[d]
    BY DEF Becomes
  <1>2. OnActive'
    BY <1>1 DEF ProbeInv, OnActive, Touched, Holding, Holds
  <1>3. Apart'
    BY <1>1 DEF ProbeInv, Apart, Touched, Holding, Holds
  <1>4. StillAbsent'
    BY <1>1 DEF ProbeInv, StillAbsent, Touched, Present
  <1>5. StillValid'
    BY <1>1 DEF ProbeInv, StillValid, Touched
  <1> QED
    BY <1>2, <1>3, <1>4, <1>5 DEF ProbeInv

(* A step of the task that touches no map leaves the probes' part alone. *)
LEMMA ProbesUntouched ==
  ASSUME ProbeInv, OneOwner, UNCHANGED <<active, dst, straddled, collided, probe>>
  PROVE  ProbeInv' /\ OneOwner'
  <1>1. OneOwner'
    BY DEF OneOwner, Present
  <1>2. OnActive' /\ Apart'
    BY DEF ProbeInv, OnActive, Apart, Holding
  <1>3. StillAbsent' /\ StillValid'
    BY DEF ProbeInv, StillAbsent, StillValid, Present
  <1> QED
    BY <1>1, <1>2, <1>3 DEF ProbeInv

-----------------------------------------------------------------------------
(* The steps of a probe that write no map. *)

LEMMA ReadSteps ==
  ASSUME TypeOK, ProbeInv, TaskInv, OneOwner, NEW c \in CPU,
         \/ \E m \in Comm, k \in Key : Enter(c, m, k)
         \/ CheckFilter(c) \/ ReadActive(c) \/ Lookup(c) \/ Load(c)
  PROVE  ProbeInv' /\ TaskInv' /\ OneOwner'
  <1> DEFINE p == probe[c]
  <1>0. probe \in [CPU -> ProbeType] /\ p \in ProbeType
    BY DEF TypeOK
  <1>1. /\ UNCHANGED Touched /\ UNCHANGED Task /\ UNCHANGED <<recorded, printed>>
        /\ collided => collided'
    <2> USE DEF Touched, Task, userVars, histVars
    <2>1. CASE \E m \in Comm, k \in Key : Enter(c, m, k)
      <3>1. PICK m \in Comm, k \in Key : Enter(c, m, k)
        BY <2>1
      <3> QED
        BY <3>1 DEF Enter
    <2>2. CASE CheckFilter(c)
      BY <2>2 DEF CheckFilter
    <2>3. CASE ReadActive(c)
      BY <2>3 DEF ReadActive
    <2>4. CASE Lookup(c)
      BY <2>4 DEF Lookup
    <2>5. CASE Load(c)
      BY <2>5 DEF Load
    <2> QED
      BY <2>1, <2>2, <2>3, <2>4, <2>5
  <1>2. TaskInv' /\ OneOwner'
    BY <1>1, TaskUntouched
  <1>3. ASSUME NEW m \in Comm, NEW k \in Key, Enter(c, m, k) PROVE ProbeInv'
    <2> DEFINE q == [p EXCEPT !.pc = "filter", !.comm = m, !.key = k]
    <2>1. q.pc = "filter" /\ ~Holds(q)
      BY <1>0 DEF ProbeType, Holds
    <2>2. Becomes(c, q)
      BY <1>3 DEF Enter
    <2> HIDE DEF q
    <2> QED
      BY <1>0, <1>1, <2>1, <2>2, ProbeMoves
  <1>4. ASSUME CheckFilter(c) PROVE ProbeInv'
    <2> DEFINE q == [p EXCEPT !.pc = "active"]
    <2>1. q.pc = "active" /\ ~Holds(q)
      BY <1>0 DEF ProbeType, Holds
    <2>2. IdleProbe.pc = "idle" /\ ~Holds(IdleProbe)
      BY DEF IdleProbe, Holds
    <2>3. Becomes(c, q) \/ Becomes(c, IdleProbe)
      BY <1>4 DEF CheckFilter, Goto, Return
    <2> HIDE DEF q
    <2>4. CASE Becomes(c, q)
      BY <1>0, <1>1, <2>1, <2>4, ProbeMoves
    <2>5. CASE Becomes(c, IdleProbe)
      BY <1>0, <1>1, <2>2, <2>5, ProbeMoves
    <2> QED
      BY <2>3, <2>4, <2>5
  <1>5. ASSUME ReadActive(c) PROVE ProbeInv'
    <2> DEFINE q == [p EXCEPT !.pc = "lookup", !.buf = active]
    <2>1. q.pc = "lookup" /\ q.buf = active /\ q.key = p.key
      BY <1>0 DEF ProbeType
    <2>2. Becomes(c, q)
      BY <1>5 DEF ReadActive
    <2>3. ~collided' => \A d \in CPU \ {c} : Holding(d) =>
              probe[d].buf # q.buf \/ probe[d].key # q.key
      BY <1>5, <2>1 DEF ReadActive
    <2> HIDE DEF q
    <2> QED
      BY <1>0, <1>1, <2>1, <2>2, <2>3, ProbeMoves
  <1>6. ASSUME Lookup(c) PROVE ProbeInv'
    <2> DEFINE q == [p EXCEPT !.pc = "load", !.elem = dst[p.buf].tab[p.key]]
               r == [p EXCEPT !.pc = "insert"]
    <2>1. /\ q.pc = "load" /\ q.buf = p.buf /\ q.key = p.key
          /\ q.elem = dst[p.buf].tab[p.key]
          /\ r.pc = "insert" /\ r.buf = p.buf /\ r.key = p.key
      BY <1>0 DEF ProbeType
    <2>2. \/ Becomes(c, q)
          \/ Becomes(c, r) /\ ~Present(dst[r.buf], r.key)
      BY <1>6, <2>1 DEF Lookup, Goto
    <2>3. Holding(c)
      BY <1>6 DEF Lookup, Holding
    <2>4. /\ ~straddled => p.buf = active
          /\ ~collided => \A d \in CPU \ {c} : Holding(d) =>
                probe[d].buf # p.buf \/ probe[d].key # p.key
      BY <2>3 DEF ProbeInv, OnActive, Apart
    <2> HIDE DEF q, r
    <2>5. CASE Becomes(c, q)
      BY <1>0, <1>1, <2>1, <2>4, <2>5, ProbeMoves
    <2>6. CASE Becomes(c, r) /\ ~Present(dst[r.buf], r.key)
      BY <1>0, <1>1, <2>1, <2>4, <2>6, ProbeMoves
    <2> QED
      BY <2>2, <2>5, <2>6
  <1>7. ASSUME Load(c) PROVE ProbeInv'
    <2> DEFINE q == [p EXCEPT !.pc = "store", !.reg = dst[p.buf].val[p.elem]]
    <2>1. /\ q.pc = "store" /\ q.buf = p.buf /\ q.key = p.key /\ q.elem = p.elem
          /\ q.reg = dst[p.buf].val[p.elem]
      BY <1>0 DEF ProbeType
    <2>2. Becomes(c, q)
      BY <1>7 DEF Load
    <2>3. p.pc = "load" /\ Holding(c)
      BY <1>7 DEF Load, Holding
    <2>4. /\ ~straddled => p.buf = active
          /\ ~collided => \A d \in CPU \ {c} : Holding(d) =>
                probe[d].buf # p.buf \/ probe[d].key # p.key
          /\ ~straddled /\ ~collided => dst[p.buf].tab[p.key] = p.elem
      BY <2>3 DEF ProbeInv, OnActive, Apart, StillValid
    <2> HIDE DEF q
    <2> QED
      BY <1>0, <1>1, <2>1, <2>2, <2>4, ProbeMoves
  <1> QED
    BY <1>2, <1>3, <1>4, <1>5, <1>6, <1>7

-----------------------------------------------------------------------------
(* The steps of a probe that write a map. *)

(* The probe's map changes for one key only, and no other probe that works   *)
(* on an entry of its own notices.                                           *)
LEMMA OthersUntouched ==
  ASSUME ProbeInv, probe \in [CPU -> ProbeType], dst \in [Buf -> MapType(Key)],
         NEW c \in CPU, Holding(c), Becomes(c, IdleProbe),
         UNCHANGED <<active, straddled, collided>>,
         NEW t \in Slot, NEW m \in MapType(Key),
         dst' = [dst EXCEPT ![probe[c].buf] = m],
         \A k \in Key \ {probe[c].key} : m.tab[k] = dst[probe[c].buf].tab[k],
         \A s \in Slot \ {t} : m.val[s] = dst[probe[c].buf].val[s],
         ~straddled /\ ~collided => \A k \in Key \ {probe[c].key} : m.tab[k] # t,
         ElemOK
  PROVE  ProbeInv'
  <1>1. /\ probe'[c] = IdleProbe /\ IdleProbe.pc = "idle"
        /\ \A d \in CPU \ {c} : probe'[d] = probe[d]
    BY DEF Becomes, IdleProbe
  <1>2. OnActive' /\ Apart'
    BY <1>1 DEF ProbeInv, OnActive, Apart, Holding
  <1>3. ASSUME NEW d \in CPU \ {c}, ~collided, Holding(d)
        PROVE  /\ dst'[probe[d].buf].tab[probe[d].key]
                    = dst[probe[d].buf].tab[probe[d].key]
               /\ ~straddled /\ probe[d].buf = probe[c].buf =>
                    dst[probe[d].buf].tab[probe[d].key] # t
    <2>1. probe[d].buf # probe[c].buf \/ probe[d].key # probe[c].key
      BY <1>3 DEF ProbeInv, Apart
    <2>2. /\ probe[d].buf \in Buf /\ probe[d].key \in Key /\ probe[c].buf \in Buf
      BY DEF ProbeType
    <2>3. CASE probe[d].buf = probe[c].buf
      <3>1. dst'[probe[d].buf] = m /\ probe[d].key # probe[c].key
        BY <2>1, <2>2, <2>3
      <3>2. m.tab[probe[d].key] = dst[probe[d].buf].tab[probe[d].key]
        BY <2>2, <2>3, <3>1
      <3>3. ~straddled => m.tab[probe[d].key] # t
        BY <1>3, <2>2, <3>1
      <3> QED
        BY <3>1, <3>2, <3>3
    <2>4. CASE probe[d].buf # probe[c].buf
      BY <2>2, <2>4
    <2> QED
      BY <2>3, <2>4
  <1>4. StillAbsent'
    <2> SUFFICES ASSUME ~collided, NEW d \in CPU, probe'[d].pc = "insert"
                 PROVE  ~Present(dst[probe[d].buf], probe[d].key)' 
      BY DEF StillAbsent, Present
    <2>1. d # c /\ probe[d].pc = "insert" /\ probe'[d] = probe[d] /\ Holding(d)
      BY <1>1 DEF Holding
    <2>2. ~Present(dst[probe[d].buf], probe[d].key)
      BY <2>1 DEF ProbeInv, StillAbsent
    <2> QED
      BY <1>3, <2>1, <2>2 DEF Present
  <1>5. StillValid'
    <2> SUFFICES ASSUME ~straddled, ~collided, NEW d \in CPU,
                        probe'[d].pc \in {"load", "store"}
                 PROVE  LET p == probe'[d]  n == dst'[p.buf] IN
                        /\ n.tab[p.key] = p.elem
                        /\ p.pc = "store" => n.val[p.elem] = p.reg
      BY DEF StillValid
    <2> DEFINE p == probe[d]
    <2>1. d # c /\ p.pc \in {"load", "store"} /\ probe'[d] = p /\ Holding(d)
      BY <1>1 DEF Holding
    <2>2. /\ dst[p.buf].tab[p.key] = p.elem
          /\ p.pc = "store" => dst[p.buf].val[p.elem] = p.reg
      BY <2>1 DEF ProbeInv, StillValid
    <2>3. /\ p.buf \in Buf /\ p.elem \in Slot /\ probe[c].buf \in Buf
      BY <2>1 DEF ProbeType, ElemOK
    <2>4. dst'[p.buf].tab[p.key] = p.elem
      BY <1>3, <2>1, <2>2
    <2>5. dst'[p.buf].val[p.elem] = dst[p.buf].val[p.elem]
      <3>1. CASE p.buf = probe[c].buf
        <4>1. p.elem # t
          BY <1>3, <2>1, <2>2, <3>1
        <4> QED
          BY <2>3, <3>1, <4>1
      <3>2. CASE p.buf # probe[c].buf
        BY <2>3, <3>2
      <3> QED
        BY <3>1, <3>2
    <2> QED
      BY <2>1, <2>2, <2>4, <2>5
  <1> QED
    BY <1>2, <1>4, <1>5 DEF ProbeInv

(* Counting one event of k in the active map changes what is owed for k only. *)
LEMMA CountsOneMore ==
  ASSUME TypeOK, Turned, NEW a \in Buf, active = a,
         NEW k \in Key, NEW m \in MapType(Key),
         dst' = [dst EXCEPT ![a] = m],
         Present(m, k),
         ValueOf(m, k) =
            (IF Present(dst[a], k) THEN ValueOf(dst[a], k) ELSE 0) + 1,
         \A j \in Key \ {k} :
            /\ Present(m, j) <=> Present(dst[a], j)
            /\ Present(m, j) => ValueOf(m, j) = ValueOf(dst[a], j),
         UNCHANGED <<upc, drainBuf, seen>>
  PROVE  OneMore(k)
  <1> SUFFICES ASSUME NEW b \in Buf, NEW j \in Key
               PROVE  Outstanding(b, j)' = IF b = a /\ j = k
                                           THEN Outstanding(b, j) + 1
                                           ELSE Outstanding(b, j)
    BY DEF OneMore
  <1>1. dst'[a] = m /\ \A d \in Buf \ {a} : dst'[d] = dst[d]
    BY DEF TypeOK
  <1>2. upc = "remove" => a # drainBuf
    BY DEF Turned, Draining, TypeOK, Buf
  <1>3. CASE b # a
    BY <1>1, <1>3 DEF Outstanding
  <1>4. CASE b = a
    <2>1. Outstanding(a, j)' = IF Present(m, j) THEN ValueOf(m, j) ELSE 0
      BY <1>1, <1>2 DEF Outstanding
    <2>2. Outstanding(a, j) = IF Present(dst[a], j) THEN ValueOf(dst[a], j) ELSE 0
      BY <1>2 DEF Outstanding
    <2>3. CASE j = k
      BY <1>4, <2>1, <2>2, <2>3
    <2>4. CASE j # k
      BY <1>4, <2>1, <2>2, <2>4
    <2> QED
      BY <2>3, <2>4
  <1> QED
    BY <1>3, <1>4

(* Until the first race, counting one event keeps the log exact.             *)
LEMMA CountKeepsExact ==
  ASSUME TypeOK, ExactUnlessRaced, ~straddled, ~collided, NEW k \in Key,
         OneMore(k), recorded' = [recorded EXCEPT ![k] = @ + 1],
         UNCHANGED <<printed, args>>
  PROVE  ExactUnlessRaced'
  <1> SUFFICES ASSUME NEW j \in Key, Shown(j)
               PROVE  recorded'[j] = printed[j] + Outstanding(0, j)'
                                                + Outstanding(1, j)'
    BY DEF ExactUnlessRaced, Shown
  <1>1. recorded[j] = printed[j] + Outstanding(0, j) + Outstanding(1, j)
    BY DEF ExactUnlessRaced
  <1>2. /\ recorded[j] \in Nat /\ printed[j] \in Nat
        /\ Outstanding(0, j) \in Nat /\ Outstanding(1, j) \in Nat
    BY OutstandingType DEF TypeOK, Buf
  <1>3. \A b \in Buf : Outstanding(b, j)' = IF b = active /\ j = k
                                            THEN Outstanding(b, j) + 1
                                            ELSE Outstanding(b, j)
    BY DEF OneMore
  <1>4. CASE j = k
    <2>1. recorded'[j] = recorded[j] + 1
      BY <1>4 DEF TypeOK
    <2>2. active = 0 \/ active = 1
      BY DEF TypeOK, Buf
    <2>3. CASE active = 0
      BY <1>1, <1>2, <1>3, <1>4, <2>1, <2>3 DEF Buf
    <2>4. CASE active = 1
      BY <1>1, <1>2, <1>3, <1>4, <2>1, <2>4 DEF Buf
    <2> QED
      BY <2>2, <2>3, <2>4
  <1>5. CASE j # k
    <2>1. recorded'[j] = recorded[j]
      BY <1>5 DEF TypeOK
    <2> QED
      BY <1>1, <1>3, <1>5, <2>1 DEF Buf
  <1> QED
    BY <1>4, <1>5

(* The store of an increment, through a pointer that may have gone stale.    *)
LEMMA StoreStep ==
  ASSUME TypeOK, ElemOK, ProbeInv, TaskInv, OneOwner, NEW c \in CPU, Store(c)
  PROVE  /\ ProbeInv' /\ TaskInv' /\ OneOwner'
         /\ ~straddled /\ ~collided => OneMore(probe[c].key)
  <1> DEFINE p == probe[c]
             t == p.elem
             m == StoreElem(dst[p.buf], t, p.reg + 1)
  <1>1. /\ p.pc = "store" /\ Holding(c) /\ Becomes(c, IdleProbe)
        /\ dst' = [dst EXCEPT ![p.buf] = m]
        /\ recorded' = [recorded EXCEPT ![p.key] = @ + 1]
        /\ UNCHANGED <<active, straddled, collided, printed>> /\ UNCHANGED Task
    BY DEF Store, Holding, Counted, Return, Task, userVars
  <1>2. /\ probe \in [CPU -> ProbeType] /\ dst \in [Buf -> MapType(Key)]
        /\ p.buf \in Buf /\ p.key \in Key /\ p.reg + 1 \in Nat /\ t \in Slot
    BY <1>1 DEF TypeOK, ElemOK, ProbeType
  <1>3. m \in MapType(Key)
    BY <1>2, MapOps
  <1>4. m.tab = dst[p.buf].tab
    BY <1>2 DEF StoreElem, MapType
  <1>5. /\ m.val[t] = p.reg + 1
        /\ \A s \in Slot \ {t} : m.val[s] = dst[p.buf].val[s]
    BY <1>2 DEF StoreElem, MapType
  <1>6. \A b \in Buf : dst'[b].tab = dst[b].tab
    BY <1>1, <1>2, <1>4
  <1>7. ~straddled /\ ~collided =>
            /\ p.buf = active /\ dst[p.buf].tab[p.key] = t
            /\ dst[p.buf].val[t] = p.reg
    BY <1>1 DEF ProbeInv, OnActive, StillValid
  <1>8. ~straddled /\ ~collided =>
            \A k \in Key \ {p.key} : dst[p.buf].tab[k] # t
    <2> SUFFICES ASSUME ~straddled, ~collided, NEW k \in Key \ {p.key}
                 PROVE  dst[p.buf].tab[k] # t
      OBVIOUS
    <2>1. Present(dst[p.buf], p.key)
      BY <1>2, <1>7, BpfHashAssumption DEF Present
    <2> QED
      BY <1>2, <1>7, <2>1 DEF OneOwner
  <1>9. OneOwner'
    BY <1>6 DEF OneOwner, Present
  <1>10. ProbeInv'
    <2>1. \A k \in Key \ {p.key} : m.tab[k] = dst[p.buf].tab[k]
      BY <1>4
    <2>2. ~straddled /\ ~collided => \A k \in Key \ {p.key} : m.tab[k] # t
      BY <1>4, <1>8
    <2>3. /\ Holding(c) /\ Becomes(c, IdleProbe) /\ dst' = [dst EXCEPT ![p.buf] = m]
          /\ UNCHANGED <<active, straddled, collided>>
      BY <1>1
    <2>4. \A e \in Slot \ {t} : m.val[e] = dst[p.buf].val[e]
      BY <1>5
    <2>5. probe \in [CPU -> ProbeType] /\ dst \in [Buf -> MapType(Key)] /\ t \in Slot
      BY <1>2
    <2>6. /\ dst' = [dst EXCEPT ![probe[c].buf] = m]
          /\ \A k \in Key \ {probe[c].key} : m.tab[k] = dst[probe[c].buf].tab[k]
          /\ \A e \in Slot \ {t} : m.val[e] = dst[probe[c].buf].val[e]
          /\ ~straddled /\ ~collided => \A k \in Key \ {probe[c].key} : m.tab[k] # t
      BY <2>1, <2>2, <2>3, <2>4
    <2>7. /\ Holding(c) /\ Becomes(c, IdleProbe) /\ c \in CPU
          /\ UNCHANGED <<active, straddled, collided>>
      BY <2>3
    <2> HIDE DEF m, t, p
    <2> QED
      BY ONLY ProbeInv, ElemOK, <1>3, <2>5, <2>6, <2>7, OthersUntouched
  <1>11. \A b \in Buf : KeysOf(dst'[b]) = KeysOf(dst[b])
    BY <1>6 DEF KeysOf, Present
  <1>12. Turned'
    BY <1>1 DEF TaskInv, Turned, Task, Draining
  <1>13. Removable' /\ NothingMissed'
    BY <1>1, <1>11
       DEF TaskInv, Removable, NothingMissed, Task, Draining, TypeOK, Buf
  <1>14. Current'
    <2> SUFFICES ASSUME ~straddled, ~collided, Draining
                 PROVE  dst'[drainBuf] = dst[drainBuf]
      BY <1>1 DEF TaskInv, Current, Task, Draining
    <2> QED
      BY <1>1, <1>2, <1>7 DEF TaskInv, Turned, TypeOK, Buf
  <1>15. ASSUME ~straddled, ~collided PROVE OneMore(p.key)
    <2>1. Present(m, p.key) /\ Present(dst[p.buf], p.key)
      BY <1>2, <1>4, <1>7, <1>15, BpfHashAssumption DEF Present
    <2>2. ValueOf(m, p.key) = (IF Present(dst[p.buf], p.key)
                               THEN ValueOf(dst[p.buf], p.key) ELSE 0) + 1
      BY <1>4, <1>5, <1>7, <1>15, <2>1 DEF ValueOf
    <2>3. \A j \in Key \ {p.key} :
            /\ Present(m, j) <=> Present(dst[p.buf], j)
            /\ Present(m, j) => ValueOf(m, j) = ValueOf(dst[p.buf], j)
      <3>1. ASSUME NEW j \in Key \ {p.key}, Present(m, j)
            PROVE  m.tab[j] \in Slot \ {t}
        BY <1>3, <1>4, <1>8, <1>15, <3>1 DEF Present, MapType
      <3>2. \A j \in Key : m.tab[j] = dst[p.buf].tab[j]
        BY <1>4
      <3> HIDE DEF m
      <3> QED
        BY <1>5, <3>1, <3>2 DEF Present, ValueOf
    <2>4. active = p.buf
      BY <1>7, <1>15
    <2>5. UNCHANGED <<upc, drainBuf, seen>> /\ Turned
      BY <1>1 DEF Task, TaskInv
    <2>6. dst' = [dst EXCEPT ![p.buf] = m]
      BY <1>1
    <2>7. p.buf \in Buf /\ p.key \in Key
      BY <1>2
    <2> HIDE DEF m, p
    <2> QED
      BY <1>3, <2>1, <2>2, <2>3, <2>4, <2>5, <2>6, <2>7, CountsOneMore
  <1>16. ExactUnlessRaced'
    <2> SUFFICES ASSUME ~straddled, ~collided PROVE ExactUnlessRaced'
      BY <1>1 DEF ExactUnlessRaced
    <2>1. ExactUnlessRaced /\ UNCHANGED <<printed, args>>
      BY <1>1 DEF TaskInv, Task
    <2> HIDE DEF p
    <2> QED
      BY <1>1, <1>2, <1>15, <2>1, CountKeepsExact
  <1> QED
    BY <1>9, <1>10, <1>12, <1>13, <1>14, <1>15, <1>16 DEF TaskInv

(* The insertion of a key that was absent when the probe looked it up.       *)
LEMMA InsertStep ==
  ASSUME TypeOK, ElemOK, ProbeInv, TaskInv, OneOwner, NEW c \in CPU, Insert(c)
  PROVE  /\ ProbeInv' /\ TaskInv' /\ OneOwner'
         /\ ~straddled /\ ~collided =>
               \/ OneMore(probe[c].key)
               \/ SameOutstanding /\ UNCHANGED recorded
  <1> DEFINE p == probe[c]
  <1>1. /\ p.pc = "insert" /\ Holding(c) /\ Becomes(c, IdleProbe)
        /\ UNCHANGED <<active, straddled, collided, printed>>
        /\ UNCHANGED <<args, upc, writeBuf, drainBuf, seen, twice, snap>>
    BY DEF Insert, Holding, Counted, Return, histVars
  <1>2. /\ probe \in [CPU -> ProbeType] /\ dst \in [Buf -> MapType(Key)]
        /\ p.buf \in Buf /\ p.key \in Key
    BY DEF TypeOK, ProbeType
  <1>3. CASE ~CanUpdate(dst[p.buf], p.key)
    <2>1. UNCHANGED Touched /\ UNCHANGED Task /\ UNCHANGED <<recorded, printed>>
      BY <1>1, <1>3 DEF Insert, Touched, Task, histVars
    <2>2. IdleProbe.pc = "idle" /\ ~Holds(IdleProbe)
      BY DEF IdleProbe, Holds
    <2>3. ProbeInv'
      BY <1>1, <1>2, <2>1, <2>2, ProbeMoves
    <2>4. TaskInv' /\ OneOwner'
      BY <1>1, <2>1, TaskUntouched
    <2>5. SameOutstanding
      BY <2>1 DEF SameOutstanding, Outstanding, Touched, Task
    <2> QED
      BY <2>1, <2>3, <2>4, <2>5
  <1>4. CASE CanUpdate(dst[p.buf], p.key)
    <2>1. PICK s \in FreeSlots(dst[p.buf]) :
            dst' = [dst EXCEPT ![p.buf] = UpdateElem(@, p.key, s, 1)]
      BY <1>4 DEF Insert
    <2>2. recorded' = [recorded EXCEPT ![p.key] = @ + 1] /\ Relink(p.buf, p.key)
      BY <1>4 DEF Insert, Counted
    <2> DEFINE m == UpdateElem(dst[p.buf], p.key, s, 1)
    <2>3. s \in Slot /\ \A k \in Key : dst[p.buf].tab[k] # s
      BY <1>2 DEF FreeSlots, MapType
    <2>4. m \in MapType(Key) /\ dst' = [dst EXCEPT ![p.buf] = m]
      BY <1>2, <2>1, <2>3, MapOps
    <2>5. /\ m.tab[p.key] = s /\ m.val[s] = 1
          /\ \A k \in Key \ {p.key} : m.tab[k] = dst[p.buf].tab[k]
          /\ \A e \in Slot \ {s} : m.val[e] = dst[p.buf].val[e]
      BY <1>2, <2>3 DEF UpdateElem, MapType
    <2> HIDE DEF m
    <2>6. \A k \in Key \ {p.key} : m.tab[k] # s
      BY <2>3, <2>5
    <2>7. dst'[p.buf] = m /\ \A b \in Buf \ {p.buf} : dst'[b] = dst[b]
      BY <1>2, <2>4
    <2>8. OneOwner'
      BY <1>2, <2>3, <2>5, <2>6, <2>7 DEF OneOwner, Present
    <2>9. ProbeInv'
      BY <1>1, <1>2, <2>3, <2>4, <2>5, <2>6, OthersUntouched
    <2>10. ~straddled => p.buf = active
      BY <1>1 DEF ProbeInv, OnActive
    <2>11. ~collided => ~Present(dst[p.buf], p.key)
      BY <1>1 DEF ProbeInv, StillAbsent
    <2>12. ~straddled /\ Draining => p.buf # drainBuf
      BY <2>10 DEF TaskInv, Turned, TypeOK, Buf
    <2>13. ~(straddled /\ collided) => UNCHANGED <<walk, again>>
      BY <2>2, <2>11, <2>12 DEF Relink, Draining
    <2>14. \A b \in Buf : KeysOf(dst[b]) \subseteq KeysOf(dst'[b])
      <3>1. s # NoSlot
        BY <2>3, BpfHashAssumption
      <3>2. KeysOf(dst[p.buf]) \subseteq KeysOf(m)
        BY <1>2, <2>4, <2>5, <3>1 DEF KeysOf, Present, MapType
      <3> QED
        BY <2>7, <3>2
    <2>15. Turned'
      BY <1>1 DEF TaskInv, Turned, Draining
    <2>16. Removable'
      <3> SUFFICES ASSUME ~(straddled /\ collided) PROVE Removable'
        BY <1>1 DEF Removable
      <3> QED
        BY <1>1, <2>13, <2>14 DEF TaskInv, Removable, Draining, TypeOK
    <2>17. NothingMissed'
      <3> SUFFICES ASSUME ~straddled PROVE NothingMissed'
        BY <1>1 DEF NothingMissed
      <3>1. Draining => dst'[drainBuf] = dst[drainBuf]
        BY <2>7, <2>12 DEF TypeOK
      <3>2. dst'[1 - active] = dst[1 - active]
        BY <2>7, <2>10 DEF TypeOK, Buf
      <3> QED
        BY <1>1, <2>13, <3>1, <3>2 DEF TaskInv, NothingMissed, Draining
    <2>18. Current'
      <3> SUFFICES ASSUME ~straddled, ~collided, Draining
                   PROVE  dst'[drainBuf] = dst[drainBuf]
        BY <1>1 DEF TaskInv, Current, Draining
      <3> QED
        BY <2>7, <2>12 DEF TypeOK
    <2>19. ASSUME ~straddled, ~collided PROVE OneMore(p.key)
      <3>1. Present(m, p.key) /\ ~Present(dst[p.buf], p.key)
        BY <2>3, <2>5, <2>11, <2>19, BpfHashAssumption DEF Present
      <3>2. ValueOf(m, p.key) = (IF Present(dst[p.buf], p.key)
                                 THEN ValueOf(dst[p.buf], p.key) ELSE 0) + 1
        BY <2>5, <3>1 DEF ValueOf
      <3>3. \A j \in Key \ {p.key} :
              /\ Present(m, j) <=> Present(dst[p.buf], j)
              /\ Present(m, j) => ValueOf(m, j) = ValueOf(dst[p.buf], j)
        BY <1>2, <2>3, <2>5 DEF Present, ValueOf, MapType
      <3>4. active = p.buf
        BY <2>10, <2>19
      <3>5. UNCHANGED <<upc, drainBuf, seen>> /\ Turned
        BY <1>1 DEF TaskInv
      <3>6. p.buf \in Buf /\ p.key \in Key
        BY <1>2
      <3> HIDE DEF p
      <3> QED
        BY <2>4, <3>1, <3>2, <3>3, <3>4, <3>5, <3>6, CountsOneMore
    <2>20. ExactUnlessRaced'
      <3> SUFFICES ASSUME ~straddled, ~collided PROVE ExactUnlessRaced'
        BY <1>1 DEF ExactUnlessRaced
      <3>1. ExactUnlessRaced /\ UNCHANGED <<printed, args>>
        BY <1>1 DEF TaskInv
      <3> HIDE DEF p
      <3> QED
        BY <1>2, <2>2, <2>19, <3>1, CountKeepsExact
    <2> QED
      BY <2>8, <2>9, <2>15, <2>16, <2>17, <2>18, <2>19, <2>20 DEF TaskInv
  <1> QED
    BY <1>3, <1>4

-----------------------------------------------------------------------------
(* The steps of the task. *)

KernelSide == <<active, dst, straddled, collided, probe>>

(* Steps outside the drain: they move upc, and no map, count or local changes. *)
LEMMA PlainSteps ==
  ASSUME TypeOK, ProbeInv, TaskInv, OneOwner,
         \/ CheckArgs \/ AttachTcp \/ AttachUdp \/ SetFilter \/ SetConfig
         \/ SetActive \/ StartupError \/ CtrlC \/ SigInt \/ UNCHANGED vars
  PROVE  ProbeInv' /\ TaskInv' /\ OneOwner'
  <1>1. /\ UNCHANGED KernelSide
        /\ UNCHANGED <<args, writeBuf, drainBuf, walk, again, seen, twice, snap>>
        /\ UNCHANGED <<recorded, printed>>
    <2> USE DEF KernelSide, UserLocals, kernelVars, histVars
    <2>1. CASE CheckArgs \/ AttachTcp \/ AttachUdp \/ SetFilter \/ SetConfig
      BY <2>1 DEF CheckArgs, AttachTcp, AttachUdp, SetFilter, SetConfig
    <2>2. CASE SetActive
      BY <2>2 DEF SetActive, TaskInv, Turned
    <2>3. CASE StartupError \/ CtrlC \/ SigInt
      BY <2>3 DEF StartupError, CtrlC, SigInt
    <2>4. CASE UNCHANGED vars
      BY <2>4 DEF vars, userVars
    <2> QED
      BY <2>1, <2>2, <2>3, <2>4
  <1>2. \/ upc' = upc
        \/ upc \in Startup \cup {"select"}
           /\ upc' \in Startup \cup {"select", "exited"}
    <2> USE DEF Startup
    <2>1. CASE CheckArgs \/ AttachTcp \/ AttachUdp
      BY <2>1 DEF CheckArgs, AttachTcp, AttachUdp
    <2>2. CASE SetFilter \/ SetConfig \/ SetActive
      BY <2>2 DEF SetFilter, SetConfig, SetActive
    <2>3. CASE StartupError \/ CtrlC
      BY <2>3 DEF StartupError, CtrlC, Exit
    <2>4. CASE SigInt
      BY <2>4 DEF SigInt, Exit
    <2>5. CASE UNCHANGED vars
      BY <2>5 DEF vars, userVars
    <2> QED
      BY <2>1, <2>2, <2>3, <2>4, <2>5
  <1>3. /\ Draining' <=> Draining
        /\ upc' = "failed" => upc = "failed"
        /\ upc' = "remove" <=> upc = "remove"
        /\ upc' = "iter" <=> upc = "iter"
        /\ upc' = "print" <=> upc = "print"
        /\ upc' \in Startup \cup {"select"} => upc \in Startup \cup {"select"}
        /\ upc = "failed" => upc' = "failed"
    BY <1>2 DEF Draining, Startup
  <1>4. ProbeInv' /\ OneOwner'
    BY <1>1, ProbesUntouched DEF KernelSide
  <1>5. Turned'
    BY <1>1, <1>3 DEF TaskInv, Turned, KernelSide
  <1>6. Removable' /\ Current'
    BY <1>1, <1>3 DEF TaskInv, Removable, Current, KernelSide, KeysOf, Present, ValueOf
  <1>7. NothingMissed'
    BY <1>1, <1>3 DEF TaskInv, NothingMissed, KernelSide, KeysOf, Present
  <1>8. ExactUnlessRaced'
    BY <1>1, <1>3 DEF TaskInv, ExactUnlessRaced, Outstanding, Shown, KernelSide,
         Present, ValueOf
  <1> QED
    BY <1>4, <1>5, <1>6, <1>7, <1>8 DEF TaskInv

(* The turn: the map written so far is the one to drain. *)
LEMMA TickStep ==
  ASSUME TypeOK, ProbeInv, TaskInv, OneOwner, Tick
  PROVE  ProbeInv' /\ TaskInv' /\ OneOwner'
  <1>1. /\ upc = "select" /\ upc' = "iter" /\ drainBuf' = writeBuf
        /\ writeBuf' = 1 - writeBuf /\ active' = writeBuf'
        /\ walk' = KeysOf(dst[drainBuf'])
        /\ UNCHANGED <<dst, probe, args, again, seen, twice, recorded, printed, collided>>
        /\ straddled => straddled'
        /\ ~straddled' => \A c \in CPU : ~Holding(c)
    BY DEF Tick, Other, kernelVars
  <1>2. seen = {} /\ active = writeBuf /\ writeBuf \in Buf
    BY <1>1 DEF TaskInv, Turned, Draining, TypeOK
  <1>3. OneOwner'
    BY <1>1 DEF OneOwner, Present
  <1>4. ProbeInv'
    <2>1. OnActive' /\ Apart'
      BY <1>1 DEF ProbeInv, OnActive, Apart, Holding
    <2>2. StillAbsent'
      BY <1>1 DEF ProbeInv, StillAbsent, Present
    <2>3. StillValid'
      BY <1>1 DEF StillValid, Holding
    <2> QED
      BY <2>1, <2>2, <2>3 DEF ProbeInv
  <1>5. Turned'
    BY <1>1, <1>2 DEF Turned, Draining, Buf
  <1>6. Removable'
    BY <1>1, <1>2 DEF TaskInv, Removable, Draining
  <1>7. NothingMissed'
    BY <1>1 DEF NothingMissed, Startup
  <1>8. Current'
    BY <1>1, <1>2 DEF Current
  <1>9. ExactUnlessRaced'
    BY <1>1 DEF TaskInv, ExactUnlessRaced, Outstanding, Shown, Present, ValueOf
  <1> QED
    BY <1>3, <1>4, <1>5, <1>6, <1>7, <1>8, <1>9 DEF TaskInv

(* Reading the map that was turned away from. *)
LEMMA IterSteps ==
  ASSUME TypeOK, ProbeInv, TaskInv, OneOwner,
         IterEnd \/ \E k \in Key : IterKey(k) \/ IterAgain(k)
  PROVE  ProbeInv' /\ TaskInv' /\ OneOwner'
  <1>1. /\ upc = "iter" /\ UNCHANGED KernelSide
        /\ UNCHANGED <<args, writeBuf, drainBuf, recorded, printed>>
    BY DEF IterEnd, IterKey, IterAgain, KernelSide, kernelVars, histVars
  <1>2. ProbeInv' /\ OneOwner'
    BY <1>1, ProbesUntouched DEF KernelSide
  <1>3. CASE IterEnd
    <2>1. /\ upc' = "print" /\ walk \subseteq seen
          /\ again' = {} /\ UNCHANGED <<seen, twice, snap>>
      BY <1>3 DEF IterEnd
    <2>2. Turned'
      BY <1>1, <2>1 DEF TaskInv, Turned, Draining, KernelSide
    <2>3. Removable'
      BY <1>1, <2>1 DEF TaskInv, Removable, Draining, KernelSide, KeysOf, Present
    <2>4. NothingMissed'
      BY <1>1, <2>1 DEF TaskInv, NothingMissed, Startup, KernelSide, KeysOf, Present
    <2>5. Current'
      BY <1>1, <2>1 DEF TaskInv, Current, Draining, KernelSide, ValueOf
    <2>6. ExactUnlessRaced'
      BY <1>1, <2>1 DEF TaskInv, ExactUnlessRaced, Outstanding, Shown, KernelSide,
           Present, ValueOf
    <2> QED
      BY <1>2, <2>2, <2>3, <2>4, <2>5, <2>6 DEF TaskInv
  <1>4. ASSUME NEW k \in Key, IterKey(k)
        PROVE  ProbeInv' /\ TaskInv' /\ OneOwner'
    <2>1. /\ upc' = "iter" /\ Present(dst[drainBuf], k) /\ seen' = seen \cup {k}
          /\ snap' = [snap EXCEPT ![k] = ValueOf(dst[drainBuf], k)]
          /\ UNCHANGED <<walk, again, twice>>
      BY <1>4 DEF IterKey
    <2>2. Turned'
      BY <1>1, <2>1 DEF TaskInv, Turned, Draining, KernelSide
    <2>3. k \in KeysOf(dst[drainBuf])
      BY <2>1 DEF KeysOf, TypeOK, MapType
    <2>4. Removable'
      BY <1>1, <2>1, <2>3 DEF TaskInv, Removable, Draining, KernelSide
    <2>5. NothingMissed'
      BY <1>1, <2>1 DEF TaskInv, NothingMissed, Startup, KernelSide
    <2>6. Current'
      BY <1>1, <2>1 DEF TaskInv, Current, Draining, KernelSide, TypeOK
    <2>7. ExactUnlessRaced'
      BY <1>1, <2>1 DEF TaskInv, ExactUnlessRaced, Outstanding, Shown, KernelSide
    <2> QED
      BY <1>2, <2>2, <2>4, <2>5, <2>6, <2>7 DEF TaskInv
  <1>5. ASSUME NEW k \in Key, IterAgain(k)
        PROVE  ProbeInv' /\ TaskInv' /\ OneOwner'
    <2>1. upc' = "iter" /\ k \in again /\ UNCHANGED <<seen, walk>>
      BY <1>5 DEF IterAgain
    <2>2. straddled /\ collided /\ straddled' /\ collided'
      BY <1>1, <2>1 DEF TaskInv, Removable, KernelSide
    <2>3. Turned'
      BY <1>1, <2>1 DEF TaskInv, Turned, Draining, KernelSide
    <2> QED
      BY <1>2, <2>2, <2>3
         DEF TaskInv, Removable, NothingMissed, Current, ExactUnlessRaced
  <1> QED
    BY <1>3, <1>4, <1>5

(* Printing settles what the drained map owed for the entries read. *)
LEMMA PrintStep ==
  ASSUME TypeOK, ProbeInv, TaskInv, OneOwner, PrintEntries
  PROVE  ProbeInv' /\ TaskInv' /\ OneOwner'
  <1>1. /\ upc = "print" /\ upc' = "remove" /\ UNCHANGED KernelSide
        /\ UNCHANGED <<args, writeBuf, drainBuf, seen, again, twice, snap, recorded>>
        /\ printed' = [k \in Key |-> IF k \in seen /\ Shown(k)
                                     THEN printed[k] + snap[k] ELSE printed[k]]
    BY DEF PrintEntries, KernelSide, kernelVars, UserLocals
  <1>2. ProbeInv' /\ OneOwner'
    BY <1>1, ProbesUntouched DEF KernelSide
  <1>3. Turned' /\ Removable'
    BY <1>1 DEF TaskInv, Turned, Removable, Draining, KernelSide
  <1>4. NothingMissed' /\ Current'
    BY <1>1 DEF TaskInv, NothingMissed, Current, Startup, Draining, KernelSide
  <1>5. ExactUnlessRaced'
    <2> SUFFICES ASSUME ~straddled, ~collided, NEW k \in Key, Shown(k)
                 PROVE  recorded[k] = printed'[k] + Outstanding(0, k)'
                                                  + Outstanding(1, k)'
      BY <1>1 DEF ExactUnlessRaced, Shown, KernelSide
    <2>1. recorded[k] = printed[k] + Outstanding(0, k) + Outstanding(1, k)
      BY DEF TaskInv, ExactUnlessRaced
    <2>2. \A b \in Buf : Outstanding(b, k) =
              IF Present(dst[b], k) THEN ValueOf(dst[b], k) ELSE 0
      BY <1>1 DEF Outstanding
    <2>3. \A b \in Buf : Outstanding(b, k)' =
              IF b = drainBuf /\ k \in seen THEN 0 ELSE Outstanding(b, k)
      BY <1>1, <2>2 DEF Outstanding, KernelSide
    <2>4. /\ recorded[k] \in Nat /\ printed[k] \in Nat /\ snap[k] \in Nat
          /\ Outstanding(0, k) \in Nat /\ Outstanding(1, k) \in Nat
          /\ drainBuf \in Buf
      BY OutstandingType DEF TypeOK, Buf
    <2>5. CASE k \in seen
      <3>1. snap[k] = Outstanding(drainBuf, k)
        BY <1>1, <2>2, <2>4, <2>5
           DEF TaskInv, Removable, Current, Draining, KeysOf
      <3>2. printed'[k] = printed[k] + Outstanding(drainBuf, k)
        BY <1>1, <2>5, <3>1
      <3>3. CASE drainBuf = 0
        BY <2>1, <2>3, <2>4, <2>5, <3>2, <3>3 DEF Buf
      <3>4. CASE drainBuf = 1
        BY <2>1, <2>3, <2>4, <2>5, <3>2, <3>4 DEF Buf
      <3> QED
        BY <2>4, <3>3, <3>4 DEF Buf
    <2>6. CASE k \notin seen
      <3>1. printed'[k] = printed[k]
        BY <1>1, <2>6
      <3>2. Outstanding(0, k)' = Outstanding(0, k) /\ Outstanding(1, k)' = Outstanding(1, k)
        BY <2>3, <2>6 DEF Buf
      <3> QED
        BY <2>1, <3>1, <3>2
    <2> QED
      BY <2>5, <2>6
  <1> QED
    BY <1>2, <1>3, <1>4, <1>5 DEF TaskInv

(* Removing the entries that were printed; the active map is another one.    *)
LEMMA RemoveStep ==
  ASSUME TypeOK, ElemOK, ProbeInv, TaskInv, OneOwner, NEW k \in Key, Remove(k)
  PROVE  /\ ProbeInv' /\ TaskInv' /\ OneOwner'
         /\ ~straddled /\ ~collided => SameOutstanding
  <1> DEFINE m == DeleteElem(dst[drainBuf], k)
  <1>1. /\ upc = "remove" /\ k \in seen /\ Present(dst[drainBuf], k)
        /\ dst' = [dst EXCEPT ![drainBuf] = m]
        /\ seen' = IF k \in twice THEN seen ELSE seen \ {k}
        /\ twice' = twice \ {k}
        /\ UNCHANGED <<active, straddled, collided, probe, args, upc, writeBuf,
                       drainBuf, again, recorded, printed>>
        /\ \A j \in Key \ {k} : snap'[j] = snap[j]
    BY DEF Remove, kernelVars, histVars, TypeOK
  <1>2. /\ dst \in [Buf -> MapType(Key)] /\ drainBuf \in Buf /\ active \in Buf
        /\ probe \in [CPU -> ProbeType]
    BY DEF TypeOK
  <1>3. /\ m.tab[k] = NoSlot /\ m.val = dst[drainBuf].val
        /\ \A j \in Key \ {k} : m.tab[j] = dst[drainBuf].tab[j]
        /\ m \in MapType(Key)
    <2>1. dst[drainBuf] \in MapType(Key)
      BY <1>2
    <2> QED
      BY <2>1 DEF DeleteElem, MapType
  <1> HIDE DEF m
  <1>4. dst'[drainBuf] = m /\ \A b \in Buf \ {drainBuf} : dst'[b] = dst[b]
    BY <1>1, <1>2
  <1>5. drainBuf = 1 - active /\ active = writeBuf
    BY <1>1 DEF TaskInv, Turned, Draining
  <1>6. dst'[active] = dst[active]
    BY <1>2, <1>4, <1>5 DEF Buf
  <1>7. KeysOf(dst'[drainBuf]) = KeysOf(dst[drainBuf]) \ {k}
    BY <1>2, <1>3, <1>4 DEF KeysOf, Present, MapType
  <1>8. OneOwner'
    BY <1>2, <1>3, <1>4 DEF OneOwner, Present
  <1>9. ProbeInv'
    <2>1. OnActive' /\ Apart'
      BY <1>1 DEF ProbeInv, OnActive, Apart, Holding
    <2>2. StillAbsent'
      <3> SUFFICES ASSUME ~collided, NEW c \in CPU, probe[c].pc = "insert"
                   PROVE  ~Present(dst'[probe[c].buf], probe[c].key)
        BY <1>1 DEF StillAbsent, Present
      <3>1. /\ ~Present(dst[probe[c].buf], probe[c].key)
            /\ probe[c].buf \in Buf /\ probe[c].key \in Key
        BY <1>2 DEF ProbeInv, StillAbsent, ProbeType
      <3> QED
        BY <1>3, <1>4, <3>1 DEF Present
    <2>3. StillValid'
      <3> SUFFICES ASSUME ~straddled, ~collided, NEW c \in CPU,
                          probe[c].pc \in {"load", "store"}
                   PROVE  dst'[probe[c].buf] = dst[probe[c].buf]
        BY <1>1 DEF ProbeInv, StillValid
      <3>1. probe[c].buf = active
        BY DEF ProbeInv, OnActive, Holding
      <3> QED
        BY <1>6, <3>1
    <2> QED
      BY <2>1, <2>2, <2>3 DEF ProbeInv
  <1>10. Turned'
    BY <1>1 DEF TaskInv, Turned, Draining
  <1>11. Removable'
    BY <1>1, <1>7 DEF TaskInv, Removable, Draining
  <1>12. NothingMissed'
    BY <1>1, <1>7 DEF TaskInv, NothingMissed, Startup
  <1>13. Current'
    <2> SUFFICES ASSUME ~straddled, ~collided, NEW j \in seen'
                 PROVE  snap'[j] = ValueOf(dst'[drainBuf], j)
      BY <1>1 DEF Current
    <2>1. j \in seen /\ j \in Key \ {k}
      BY <1>1 DEF TaskInv, Removable, TypeOK
    <2>2. snap[j] = ValueOf(dst[drainBuf], j)
      BY <1>1, <2>1 DEF TaskInv, Current, Draining
    <2> QED
      BY <1>1, <1>3, <1>4, <2>1, <2>2 DEF ValueOf
  <1>14. ~straddled /\ ~collided => SameOutstanding
    <2> SUFFICES ASSUME ~straddled, ~collided, NEW b \in Buf, NEW j \in Key
                 PROVE  Outstanding(b, j)' = Outstanding(b, j)
      BY DEF SameOutstanding
    <2>1. twice = {}
      BY DEF TaskInv, Removable
    <2>2. CASE b # drainBuf
      BY <1>1, <1>4, <2>2 DEF Outstanding
    <2>3. CASE b = drainBuf /\ j = k
      <3>1. Outstanding(b, j) = 0
        BY <1>1, <2>3 DEF Outstanding
      <3>2. ~Present(dst'[b], j)
        BY <1>3, <1>4, <2>3 DEF Present
      <3> QED
        BY <3>1, <3>2 DEF Outstanding
    <2>4. CASE b = drainBuf /\ j # k
      <3>1. /\ Present(dst'[b], j) <=> Present(dst[b], j)
            /\ ValueOf(dst'[b], j) = ValueOf(dst[b], j)
        BY <1>3, <1>4, <2>4 DEF Present, ValueOf
      <3>2. j \in seen' <=> j \in seen
        BY <1>1, <2>1, <2>4
      <3> QED
        BY <1>1, <3>1, <3>2 DEF Outstanding
    <2> QED
      BY <2>2, <2>3, <2>4
  <1>15. ExactUnlessRaced'
    BY <1>1, <1>14 DEF TaskInv, ExactUnlessRaced, SameOutstanding, Shown, Buf
  <1> QED
    BY <1>8, <1>9, <1>10, <1>11, <1>12, <1>13, <1>14, <1>15 DEF TaskInv

(* The end of a drain, or its failure, which takes both races. *)
LEMMA DrainEnds ==
  ASSUME TypeOK, ProbeInv, TaskInv, OneOwner,
         RemoveEnd \/ \E k \in Key : RemoveFails(k)
  PROVE  ProbeInv' /\ TaskInv' /\ OneOwner'
  <1>1. /\ upc = "remove" /\ UNCHANGED KernelSide
        /\ UNCHANGED <<args, writeBuf, drainBuf, walk, again, seen, twice, snap>>
        /\ UNCHANGED <<recorded, printed>>
    BY DEF RemoveEnd, RemoveFails, KernelSide, UserLocals, kernelVars, histVars
  <1>2. ProbeInv' /\ OneOwner'
    BY <1>1, ProbesUntouched DEF KernelSide
  <1>3. CASE RemoveEnd
    <2>1. upc' = "select" /\ seen = {}
      BY <1>3 DEF RemoveEnd
    <2>2. Turned' /\ Removable'
      BY <1>1, <2>1 DEF TaskInv, Turned, Removable, Draining, KernelSide
    <2>3. drainBuf = 1 - active
      BY <1>1 DEF TaskInv, Turned, Draining
    <2>4. NothingMissed' /\ Current'
      BY <1>1, <2>1, <2>3
         DEF TaskInv, NothingMissed, Current, Startup, Draining, KernelSide
    <2>5. ExactUnlessRaced'
      BY <1>1, <2>1 DEF TaskInv, ExactUnlessRaced, Outstanding, Shown, KernelSide
    <2> QED
      BY <1>2, <2>2, <2>4, <2>5 DEF TaskInv
  <1>4. ASSUME NEW k \in Key, RemoveFails(k)
        PROVE  ProbeInv' /\ TaskInv' /\ OneOwner'
    <2>1. upc' = "failed" /\ k \in seen /\ ~Present(dst[drainBuf], k)
      BY <1>4 DEF RemoveFails, Exit
    <2>2. straddled /\ collided
      BY <1>1, <2>1 DEF TaskInv, Removable, Draining, KeysOf
    <2>3. straddled' /\ collided'
      BY <1>1, <2>2 DEF KernelSide
    <2>4. Turned'
      BY <1>1, <2>1, <2>3 DEF TaskInv, Turned, Draining, KernelSide
    <2> QED
      BY <1>2, <2>3, <2>4
         DEF TaskInv, Removable, NothingMissed, Current, ExactUnlessRaced
  <1> QED
    BY <1>3, <1>4

-----------------------------------------------------------------------------
(* The invariant, and what follows from it. *)

LEMMA IInvInit == Init => IInv
  <1> SUFFICES ASSUME Init PROVE IInv
    OBVIOUS
  <1>1. TypeOK
    BY TypeInit
  <1>2. \A b \in Buf, k \in Key : ~Present(dst[b], k)
    BY DEF Init, EmptyMap, Present
  <1>3. \A b \in Buf : KeysOf(dst[b]) = {}
    BY <1>2 DEF Init, EmptyMap, KeysOf
  <1>4. \A c \in CPU : probe[c].pc = "idle"
    BY DEF Init, IdleProbe
  <1>5. ElemOK /\ OneOwner /\ OnActive /\ Apart /\ StillAbsent /\ StillValid
    BY <1>2, <1>4 DEF ElemOK, OneOwner, OnActive, Apart, StillAbsent, StillValid,
         Holding
  <1>6. Turned /\ Removable /\ Current
    BY DEF Init, Turned, Removable, Current, Draining
  <1>7. NothingMissed
    BY <1>3 DEF Init, NothingMissed, Buf
  <1>8. ExactUnlessRaced
    BY <1>2 DEF Init, ExactUnlessRaced, Outstanding, Buf
  <1> QED
    BY <1>1, <1>5, <1>6, <1>7, <1>8 DEF IInv

(* Every step preserves the invariant.                                      *)
LEMMA IInvStep == IInv /\ [Next]_vars => IInv'
  <1> SUFFICES ASSUME IInv, [Next]_vars PROVE IInv'
    OBVIOUS
  <1>1. TypeOK' /\ ElemOK'
    BY TypeStep, ElemStep DEF IInv
  <1>2. TypeOK /\ ElemOK /\ ProbeInv /\ TaskInv /\ OneOwner
    BY DEF IInv, ProbeInv, TaskInv
  <1>3. ASSUME NEW c \in CPU, (\E m \in Comm, k \in Key : Enter(c, m, k)) \/ ProbeStep(c)
        PROVE  ProbeInv' /\ TaskInv' /\ OneOwner'
    BY <1>2, <1>3, ReadSteps, StoreStep, InsertStep DEF ProbeStep
  <1>4. ASSUME UserStep \/ SigInt \/ UNCHANGED vars
        PROVE  ProbeInv' /\ TaskInv' /\ OneOwner'
    <2>1. CASE \/ CheckArgs \/ AttachTcp \/ AttachUdp \/ SetFilter \/ SetConfig
               \/ SetActive \/ StartupError \/ CtrlC \/ SigInt \/ UNCHANGED vars
      BY <1>2, <2>1, PlainSteps
    <2>2. CASE Tick
      BY <1>2, <2>2, TickStep
    <2>3. CASE IterEnd \/ \E k \in Key : IterKey(k) \/ IterAgain(k)
      BY <1>2, <2>3, IterSteps
    <2>4. CASE PrintEntries
      BY <1>2, <2>4, PrintStep
    <2>5. ASSUME NEW k \in Key, Remove(k)
          PROVE  ProbeInv' /\ TaskInv' /\ OneOwner'
      BY <1>2, <2>5, RemoveStep
    <2>6. CASE RemoveEnd \/ \E k \in Key : RemoveFails(k)
      BY <1>2, <2>6, DrainEnds
    <2> QED
      BY <1>4, <2>1, <2>2, <2>3, <2>4, <2>5, <2>6 DEF UserStep
  <1>5. ASSUME \E c \in CPU, m \in Comm, k \in Key : Enter(c, m, k)
        PROVE  ProbeInv' /\ TaskInv' /\ OneOwner'
    <2>1. PICK c \in CPU, m \in Comm, k \in Key : Enter(c, m, k)
      BY <1>5
    <2> QED
      BY <1>3, <2>1
  <1>6. ProbeInv' /\ TaskInv' /\ OneOwner'
    BY <1>3, <1>4, <1>5 DEF Next
  <1> QED
    BY <1>1, <1>6 DEF IInv, ProbeInv, TaskInv

(* IInv is an invariant. *)
THEOREM Invariant == Spec => []IInv
  BY IInvInit, IInvStep, PTL DEF Spec

(* Until the first race every event a probe counted is printed or waits in   *)
(* exactly one of the maps.                                                  *)
THEOREM Exactness == Spec => []ExactUnlessRaced
  <1>1. IInv => ExactUnlessRaced
    BY DEF IInv
  <1> QED
    BY <1>1, Invariant, PTL

(* A rotation finds the map it turns to empty unless a probe was overtaken.  *)
THEOREM CleanRotation == Spec => []RotationLeavesInactiveEmpty
  <1>1. IInv => RotationLeavesInactiveEmpty
    BY DEF IInv, NothingMissed, RotationLeavesInactiveEmpty
  <1> QED
    BY <1>1, Invariant, PTL

(* The removal of an entry fails only after both kinds of race.              *)
THEOREM DrainSafety == Spec => []DrainFailsOnlyWhenRaced
  <1>1. IInv => DrainFailsOnlyWhenRaced
    BY DEF IInv, Turned, DrainFailsOnlyWhenRaced
  <1> QED
    BY <1>1, Invariant, PTL

-----------------------------------------------------------------------------
(* DstLog implements EpochLog: until the first race every step counts one     *)
(* event in the current epoch, closes the epoch, reports the closed one, or   *)
(* changes nothing a reader of the log could tell.                            *)

Open   == [k \in Key |-> Outstanding(writeBuf, k)]
Closed == [k \in Key |-> Outstanding(1 - writeBuf, k)]

(* What leaves both maps and the report alone leaves the epochs alone.      *)
LEMMA Stutters ==
  ASSUME TypeOK, SameOutstanding, ~straddled', ~collided', ~straddled, ~collided,
         UNCHANGED <<args, writeBuf, printed>>
  PROVE  UNCHANGED Epochs!vars
  <1>1. Open' = Open /\ Closed' = Closed
    BY DEF SameOutstanding, Open, Closed, TypeOK, Buf
  <1>2. {k \in Key : Shown(k)}' = {k \in Key : Shown(k)}
    BY DEF Shown
  <1> QED
    BY <1>1, <1>2 DEF Epochs!vars, Open, Closed

(* One more in the map written to is one more in the open epoch.            *)
LEMMA Counts ==
  ASSUME TypeOK, Turned, NEW k \in Key, OneMore(k),
         ~straddled', ~collided', ~straddled, ~collided,
         UNCHANGED <<args, writeBuf, printed>>
  PROVE  Epochs!Count(k)
  <1>0. writeBuf \in Buf /\ 1 - writeBuf \in Buf /\ 1 - writeBuf # writeBuf
    BY DEF TypeOK, Buf
  <1>1. Closed' = Closed
    BY <1>0 DEF OneMore, Closed, Turned
  <1>2. Open' = [Open EXCEPT ![k] = @ + 1]
    BY <1>0 DEF OneMore, Open, Turned
  <1>3. {j \in Key : Shown(j)}' = {j \in Key : Shown(j)}
    BY DEF Shown
  <1> QED
    BY <1>1, <1>2, <1>3 DEF Epochs!Count, Open, Closed

(* A turn of ACTIVE_BUF closes the epoch.                                    *)
LEMMA Turns ==
  ASSUME IInv, Tick, ~straddled', ~collided', ~straddled, ~collided
  PROVE  Epochs!Rotate
  <1>0. /\ writeBuf \in Buf /\ 1 - writeBuf \in Buf
        /\ active = writeBuf /\ NothingMissed
    BY DEF IInv, Turned, TypeOK, Buf
  <1>1. /\ upc = "select" /\ upc' = "iter" /\ writeBuf' = 1 - writeBuf
        /\ UNCHANGED <<dst, args, printed>>
    BY DEF Tick, Other
  <1>2. \A k \in Key : ~Present(dst[1 - writeBuf], k)
    <2>1. KeysOf(dst[1 - writeBuf]) = {}
      BY <1>0, <1>1 DEF NothingMissed
    <2>2. dst[1 - writeBuf] \in MapType(Key)
      BY <1>0 DEF IInv, TypeOK
    <2> QED
      BY <2>1, <2>2 DEF KeysOf, MapType
  <1>3. \A b \in Buf, k \in Key : Outstanding(b, k)' = Outstanding(b, k)
    BY <1>1 DEF Outstanding
  <1>4. \A k \in Key : Outstanding(1 - writeBuf, k) = 0
    BY <1>2 DEF Outstanding
  <1>5. Closed = [k \in Key |-> 0]
    BY <1>4 DEF Closed
  <1>6. Closed' = Open
    <2>1. 1 - writeBuf' = writeBuf
      BY <1>0, <1>1 DEF Buf
    <2> QED
      BY <1>0, <1>3, <2>1 DEF Closed, Open
  <1>7. Open' = [k \in Key |-> 0]
    BY <1>0, <1>1, <1>3, <1>4 DEF Open
  <1>8. {k \in Key : Shown(k)}' = {k \in Key : Shown(k)}
    BY <1>1 DEF Shown
  <1> QED
    BY <1>1, <1>5, <1>6, <1>7, <1>8 DEF Epochs!Rotate, Epochs!Nothing, Open, Closed

(* Printing reports the whole closed epoch.                                  *)
LEMMA Reports ==
  ASSUME IInv, PrintEntries, ~straddled', ~collided', ~straddled, ~collided
  PROVE  Epochs!Report
  <1>0. /\ writeBuf \in Buf /\ 1 - writeBuf \in Buf /\ 1 - writeBuf # writeBuf
        /\ Turned /\ NothingMissed /\ Current /\ Removable
        /\ dst \in [Buf -> MapType(Key)]
    BY DEF IInv, TypeOK, Buf
  <1>1. /\ upc = "print" /\ upc' = "remove"
        /\ UNCHANGED <<dst, args, seen, writeBuf, drainBuf>>
        /\ printed' = [k \in Key |-> IF k \in seen /\ Shown(k)
                                     THEN printed[k] + snap[k] ELSE printed[k]]
    BY DEF PrintEntries, UserLocals
  <1>2. drainBuf = 1 - writeBuf
    BY <1>0, <1>1 DEF Turned, Draining
  <1>3. \A k \in Key : Present(dst[drainBuf], k) <=> k \in seen
    <2>1. KeysOf(dst[drainBuf]) = seen
      BY <1>0, <1>1 DEF NothingMissed, Removable, Draining
    <2>2. dst[drainBuf] \in MapType(Key)
      BY <1>0, <1>2
    <2> QED
      BY <2>1, <2>2 DEF KeysOf, MapType
  <1>4. \A k \in Key : Outstanding(drainBuf, k) = IF k \in seen THEN snap[k] ELSE 0
    BY <1>0, <1>1, <1>3 DEF Outstanding, Current, Draining
  <1>5. \A k \in Key : Outstanding(drainBuf, k)' = 0
    BY <1>1, <1>3 DEF Outstanding
  <1>6. \A k \in Key : Outstanding(writeBuf, k)' = Outstanding(writeBuf, k)
    BY <1>0, <1>1, <1>2 DEF Outstanding
  <1>7. Open' = Open /\ Closed' = [k \in Key |-> 0]
    BY <1>1, <1>2, <1>5, <1>6 DEF Open, Closed
  <1>8. printed' = [k \in Key |-> IF k \in {j \in Key : Shown(j)}
                                  THEN printed[k] + Closed[k] ELSE printed[k]]
    <2>1. printed \in [Key -> Nat]
      BY DEF IInv, TypeOK
    <2>2. \A k \in Key : Closed[k] = IF k \in seen THEN snap[k] ELSE 0
      BY <1>2, <1>4 DEF Closed
    <2>3. \A k \in Key : k \notin seen => printed[k] + Closed[k] = printed[k]
      BY <2>1, <2>2
    <2> QED
      BY <1>1, <2>2, <2>3
  <1>9. {k \in Key : Shown(k)}' = {k \in Key : Shown(k)}
    BY <1>1 DEF Shown
  <1> QED
    BY <1>7, <1>8, <1>9 DEF Epochs!Report, Epochs!Nothing, Open, Closed

(* Every step of DstLog is a step of EpochLog or none.                       *)
LEMMA EpochStep == IInv /\ [Next]_vars => [Epochs!Next]_(Epochs!vars)
  <1> SUFFICES ASSUME IInv, [Next]_vars, ~straddled', ~collided'
               PROVE  Epochs!Next \/ UNCHANGED Epochs!vars
    BY DEF Epochs!Next
  <1> DEFINE Goal == Epochs!Next \/ UNCHANGED Epochs!vars
  <1>0. TypeOK /\ ElemOK /\ ProbeInv /\ TaskInv /\ OneOwner /\ Turned
    BY DEF IInv, ProbeInv, TaskInv
  <1>1. ASSUME NEW c \in CPU, Store(c) \/ Insert(c) PROVE Goal
    <2>1. /\ UNCHANGED <<args, writeBuf, printed, straddled, collided>>
          /\ probe[c].key \in Key
      BY <1>0, <1>1 DEF Store, Insert, Counted, userVars, histVars, TypeOK, ProbeType
    <2>2. OneMore(probe[c].key) \/ SameOutstanding
      BY <1>0, <1>1, <2>1, StoreStep, InsertStep
    <2>3. CASE OneMore(probe[c].key)
      <3>1. Epochs!Count(probe[c].key)
        BY <1>0, <2>1, <2>3, Counts
      <3> QED
        BY <2>1, <3>1 DEF Epochs!Next
    <2>4. CASE SameOutstanding
      BY <1>0, <2>1, <2>4, Stutters
    <2> QED
      BY <2>2, <2>3, <2>4
  <1>2. ASSUME NEW c \in CPU,
               \/ \E m \in Comm, k \in Key : Enter(c, m, k)
               \/ CheckFilter(c) \/ ReadActive(c) \/ Lookup(c) \/ Load(c)
        PROVE  Goal
    <2>1. /\ UNCHANGED <<dst, upc, drainBuf, seen, args, writeBuf, printed, straddled>>
          /\ collided => collided'
      <3> USE DEF userVars, histVars
      <3>1. CASE \E m \in Comm, k \in Key : Enter(c, m, k)
        <4>1. PICK m \in Comm, k \in Key : Enter(c, m, k)
          BY <3>1
        <4> QED
          BY <4>1 DEF Enter
      <3>2. CASE CheckFilter(c)
        BY <3>2 DEF CheckFilter
      <3>3. CASE ReadActive(c)
        BY <3>3 DEF ReadActive
      <3>4. CASE Lookup(c)
        BY <3>4 DEF Lookup
      <3>5. CASE Load(c)
        BY <3>5 DEF Load
      <3> QED
        BY <1>2, <3>1, <3>2, <3>3, <3>4, <3>5
    <2>2. SameOutstanding
      BY <2>1 DEF SameOutstanding, Outstanding
    <2> QED
      BY <1>0, <2>1, <2>2, Stutters
  <1>3. ASSUME Tick PROVE Goal
    <2>1. ~straddled /\ ~collided
      BY <1>3 DEF Tick
    <2> QED
      BY <1>3, <2>1, Turns DEF Epochs!Next
  <1>4. ASSUME PrintEntries PROVE Goal
    <2>1. ~straddled /\ ~collided
      BY <1>4 DEF PrintEntries
    <2> QED
      BY <1>4, <2>1, Reports DEF Epochs!Next
  <1>5. ASSUME NEW k \in Key, Remove(k) PROVE Goal
    <2>1. UNCHANGED <<args, writeBuf, printed, straddled, collided>>
      BY <1>5 DEF Remove, histVars
    <2>2. SameOutstanding
      BY <1>0, <1>5, <2>1, RemoveStep
    <2> QED
      BY <1>0, <2>1, <2>2, Stutters
  <1>6. ASSUME NEW k \in Key, RemoveFails(k) PROVE Goal
    <2>1. k \in seen /\ ~Present(dst[drainBuf], k) /\ Draining
      BY <1>6 DEF RemoveFails, Draining
    <2>2. straddled /\ collided
      BY <1>0, <2>1 DEF TaskInv, Removable, KeysOf
    <2> QED
      BY <1>6, <2>2 DEF RemoveFails, histVars
  <1>7. ASSUME IterEnd \/ RemoveEnd \/ \E k \in Key : IterKey(k) \/ IterAgain(k)
        PROVE  Goal
    <2>1. /\ UNCHANGED <<dst, drainBuf, args, writeBuf, printed, straddled, collided>>
          /\ \A k \in Key : ~(upc' = "remove" /\ k \in seen')
          /\ \A k \in Key : ~(upc = "remove" /\ k \in seen)
      BY <1>7 DEF IterEnd, RemoveEnd, IterKey, IterAgain, UserLocals, histVars
    <2>2. SameOutstanding
      BY <2>1 DEF SameOutstanding, Outstanding
    <2> QED
      BY <1>0, <2>1, <2>2, Stutters
  <1>8. ASSUME \/ CheckArgs \/ AttachTcp \/ AttachUdp \/ SetFilter \/ SetConfig
               \/ SetActive \/ StartupError \/ CtrlC \/ SigInt \/ UNCHANGED vars
        PROVE  Goal
    <2>1. /\ UNCHANGED <<dst, drainBuf, seen, args, writeBuf, printed, straddled, collided>>
          /\ upc' = "remove" <=> upc = "remove"
      <3> USE DEF UserLocals, histVars
      <3>1. CASE CheckArgs \/ AttachTcp \/ AttachUdp \/ SetFilter \/ SetConfig
        BY <3>1 DEF CheckArgs, AttachTcp, AttachUdp, SetFilter, SetConfig
      <3>2. CASE SetActive
        BY <3>2 DEF SetActive
      <3>3. CASE StartupError \/ CtrlC \/ SigInt
        BY <3>3 DEF StartupError, CtrlC, SigInt, Exit, Startup
      <3>4. CASE UNCHANGED vars
        BY <3>4 DEF vars, userVars
      <3> QED
        BY <1>8, <3>1, <3>2, <3>3, <3>4
    <2>2. SameOutstanding
      BY <2>1 DEF SameOutstanding, Outstanding
    <2> QED
      BY <1>0, <2>1, <2>2, Stutters
  <1>9. ASSUME UserStep PROVE Goal
    BY <1>3, <1>4, <1>5, <1>6, <1>7, <1>8, <1>9 DEF UserStep
  <1>10. ASSUME NEW c \in CPU, ProbeStep(c) PROVE Goal
    BY <1>1, <1>2, <1>10 DEF ProbeStep
  <1> QED
    BY <1>2, <1>8, <1>9, <1>10 DEF Next

(* DstLog implements EpochLog under the refinement mapping of Epochs.        *)
THEOREM Refinement == Spec => EpochsKept
  <1>1. Init => Epochs!Init
    <2> SUFFICES ASSUME Init PROVE Epochs!Init
      OBVIOUS
    <2>1. \A b \in Buf, k \in Key : Outstanding(b, k) = 0
      BY DEF Init, EmptyMap, Outstanding, Present
    <2>2. writeBuf \in Buf /\ 1 - writeBuf \in Buf
      BY DEF Init, Buf
    <2>3. Open = [k \in Key |-> 0] /\ Closed = [k \in Key |-> 0]
      BY <2>1, <2>2 DEF Open, Closed
    <2> QED
      BY <2>3 DEF Init, Epochs!Init, Epochs!Nothing, Open, Closed
  <1> QED
    BY <1>1, EpochStep, Invariant, PTL DEF Spec, EpochsKept, Epochs!Spec
=============================================================================
