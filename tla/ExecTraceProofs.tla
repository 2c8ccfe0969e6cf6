--------------------------- MODULE ExecTraceProofs ---------------------------
(***************************************************************************)
(* What TLAPS proves of ExecTrace, for any number of CPUs, names, records  *)
(* in a buffer and execs: the filter, written in many steps and read in    *)
(* many, and the records, read, waiting and lost.                          *)
(***************************************************************************)
EXTENDS ExecTrace, TLAPS, WellFoundedInduction, FiniteSetTheorems,
        SequenceTheorems

-----------------------------------------------------------------------------
(* Induction over the natural numbers, for a set instead of a predicate, and *)
(* the sums that the model defines by recursion.                             *)

(* A set of natural numbers has a least element. *)
LEMMA LeastElement ==
  ASSUME NEW T, T \subseteq Nat, T # {}
  PROVE  \E x \in T : \A y \in T : x <= y
  <1> DEFINE R == OpToRel(<, Nat)
  <1>1. IsWellFoundedOn(R, Nat)
    BY NatLessThanWellFounded
  <1>2. \A x, y \in Nat : y < x => <<y, x>> \in R
    BY DEF OpToRel
  <1> HIDE DEF R
  <1>3. PICK x \in T : \A y \in T : <<y, x>> \notin R
    BY <1>1, WFMin
  <1>4. \A y \in T : x \in Nat /\ y \in Nat /\ ~(y < x)
    BY <1>2, <1>3
  <1>5. \A y \in T : x <= y
    BY <1>4
  <1> QED
    BY <1>5

(* Induction on the members of a set, without an operator as a parameter.   *)
LEMMA SetInduction ==
  ASSUME NEW T, 0 \in T, \A n \in Nat : n \in T => n + 1 \in T
  PROVE  Nat \subseteq T
  <1> SUFFICES ASSUME Nat \ T # {} PROVE FALSE
    OBVIOUS
  <1>1. PICK x \in Nat \ T : \A y \in Nat \ T : x <= y
    BY LeastElement
  <1>2. x # 0 /\ x - 1 \in Nat /\ x - 1 \in T
    BY <1>1
  <1> QED
    BY <1>1, <1>2

(* f has the sums of the first terms of c, up to the n-th. *)
Sums(f, c, n) ==
    /\ f \in [0 .. n -> Nat] /\ f[0] = 0
    /\ \A i \in 1 .. n : f[i] = f[i - 1] + c[i]

(* A recursive definition of sums defines a function. *)
LEMMA SumsExist ==
  ASSUME NEW c, NEW n \in Nat, \A i \in 1 .. n : c[i] \in Nat
  PROVE  \E f : Sums(f, c, n)
  <1> DEFINE T == {m \in Nat : m <= n => \E f : Sums(f, c, m)}
  <1>1. 0 \in T
    <2>1. Sums([i \in 0 .. 0 |-> 0], c, 0)
      BY DEF Sums
    <2> QED
      BY <2>1
  <1>2. ASSUME NEW m \in Nat, m \in T PROVE m + 1 \in T
    <2> SUFFICES ASSUME m + 1 <= n PROVE \E f : Sums(f, c, m + 1)
      OBVIOUS
    <2>1. PICK f : Sums(f, c, m)
      BY <1>2
    <2>2. /\ f \in [0 .. m -> Nat] /\ f[0] = 0 /\ c[m + 1] \in Nat
          /\ \A i \in 1 .. m : f[i] = f[i - 1] + c[i]
      BY <2>1 DEF Sums
    <2> DEFINE g == [i \in 0 .. m + 1 |-> IF i = m + 1 THEN f[m] + c[m + 1] ELSE f[i]]
    <2>3. g \in [0 .. m + 1 -> Nat] /\ g[0] = 0
      BY <2>2
    <2>4. ASSUME NEW i \in 1 .. m + 1 PROVE g[i] = g[i - 1] + c[i]
      <3>1. CASE i = m + 1
        BY <2>2, <3>1
      <3>2. CASE i \in 1 .. m
        BY <2>2, <3>2
      <3> QED
        BY <3>1, <3>2
    <2> HIDE DEF g
    <2>5. Sums(g, c, m + 1)
      BY <2>3, <2>4 DEF Sums
    <2> QED
      BY <2>5
  <1>3. Nat \subseteq T
    <2> HIDE DEF T
    <2> QED
      BY <1>1, <1>2, SetInduction
  <1>4. n \in T
    BY <1>3
  <1> QED
    BY <1>4

(* There is one function of sums, wherever it is asked for its values. *)
LEMMA SumsUnique ==
  ASSUME NEW c, NEW d, NEW f, NEW g, NEW n \in Nat, NEW m \in Nat, n <= m,
         Sums(f, c, n), Sums(g, d, m), \A i \in 1 .. n : c[i] = d[i]
  PROVE  f[n] = g[n]
  <1> DEFINE T == {k \in Nat : k <= n => f[k] = g[k]}
  <1>0. /\ f[0] = 0 /\ (\A i \in 1 .. n : f[i] = f[i - 1] + c[i])
        /\ g[0] = 0 /\ (\A i \in 1 .. m : g[i] = g[i - 1] + d[i])
    BY DEF Sums
  <1>1. 0 \in T
    BY <1>0
  <1>2. ASSUME NEW k \in Nat, k \in T PROVE k + 1 \in T
    <2> SUFFICES ASSUME k + 1 <= n PROVE f[k + 1] = g[k + 1]
      OBVIOUS
    <2>1. f[k] = g[k]
      BY <1>2
    <2>2. k + 1 \in 1 .. n /\ k + 1 \in 1 .. m /\ (k + 1) - 1 = k
      OBVIOUS
    <2>3. f[k + 1] = f[k] + c[k + 1] /\ g[k + 1] = g[k] + d[k + 1]
      BY <1>0, <2>2
    <2> QED
      BY <2>1, <2>2, <2>3
  <1>3. Nat \subseteq T
    <2> HIDE DEF T
    <2> QED
      BY <1>1, <1>2, SetInduction
  <1> QED
    BY <1>3

(* The sum of what is left when the first term is taken away. *)
LEMMA SumsShift ==
  ASSUME NEW c, NEW d, NEW f, NEW g, NEW n \in Nat,
         Sums(f, c, n + 1), Sums(g, d, n),
         \A i \in 1 .. n + 1 : c[i] \in Nat, \A i \in 1 .. n : d[i] = c[i + 1]
  PROVE  f[n + 1] = c[1] + g[n]
  <1> DEFINE T == {k \in Nat : k <= n => f[k + 1] = c[1] + g[k]}
  <1>0. /\ f[0] = 0 /\ (\A i \in 1 .. n + 1 : f[i] = f[i - 1] + c[i])
        /\ g \in [0 .. n -> Nat]
        /\ g[0] = 0 /\ (\A i \in 1 .. n : g[i] = g[i - 1] + d[i])
    BY DEF Sums
  <1>1. 0 \in T
    <2>1. 1 \in 1 .. n + 1 /\ 1 - 1 = 0 /\ c[1] \in Nat
      OBVIOUS
    <2>2. f[1] = f[1 - 1] + c[1]
      BY <1>0, <2>1
    <2> QED
      BY <1>0, <2>1, <2>2
  <1>2. ASSUME NEW k \in Nat, k \in T PROVE k + 1 \in T
    <2> SUFFICES ASSUME k + 1 <= n PROVE f[(k + 1) + 1] = c[1] + g[k + 1]
      OBVIOUS
    <2>1. f[k + 1] = c[1] + g[k]
      BY <1>2
    <2>2. /\ k + 1 \in 1 .. n /\ (k + 1) - 1 = k
          /\ (k + 1) + 1 \in 1 .. n + 1 /\ ((k + 1) + 1) - 1 = k + 1
          /\ k \in 0 .. n /\ 1 \in 1 .. n + 1
      OBVIOUS
    <2>3. f[(k + 1) + 1] = f[((k + 1) + 1) - 1] + c[(k + 1) + 1]
      BY <1>0, <2>2
    <2>4. g[k + 1] = g[(k + 1) - 1] + d[k + 1] /\ d[k + 1] = c[(k + 1) + 1]
      BY <1>0, <2>2
    <2>5. g[k] \in Nat /\ c[1] \in Nat /\ c[(k + 1) + 1] \in Nat
      BY <1>0, <2>2
    <2>6. f[(k + 1) + 1] = (c[1] + g[k]) + c[(k + 1) + 1] /\ g[k + 1] = g[k] + c[(k + 1) + 1]
      BY <2>1, <2>2, <2>3, <2>4
    <2> QED
      BY <2>5, <2>6
  <1>3. Nat \subseteq T
    <2> HIDE DEF T
    <2> QED
      BY <1>1, <1>2, SetInduction
  <1> QED
    BY <1>3

-----------------------------------------------------------------------------
(* Names.                                                                    *)

(* comm_eq compares as far as the name on the command line goes, and no       *)
(* further, however long names are.                                           *)
THEOREM CommEqIsPrefix ==
  ASSUME NEW name \in Seq(Byte), NEW comm \in Seq(Byte),
         name # <<>>, Len(name) < MaxCommLen, TaskName(comm)
  PROVE  CommEq(Padded(name), Padded(comm)) <=> IsPrefix(name, comm)
  <1> DEFINE n == Len(name)
             m == Len(comm)
             F == Padded(name)
             C == Padded(comm)
  <1>0. /\ n \in Nat \ {0} /\ m \in Nat /\ n < MaxCommLen /\ m < MaxCommLen
        /\ MaxCommLen \in Nat /\ Zero \notin Byte
        /\ DOMAIN name = 1 .. n /\ DOMAIN comm = 1 .. m
    BY CommFilterAssumption, EmptySeq DEF TaskName
  <1>1. \A i \in 1 .. n : name[i] \in Byte /\ name[i] # Zero
    BY <1>0, ElementOfSeq
  <1>2. \A i \in 1 .. m : comm[i] \in Byte /\ comm[i] # Zero
    BY <1>0, ElementOfSeq
  <1>3. \A i \in 1 .. MaxCommLen : F[i] = IF i <= n THEN name[i] ELSE Zero
    BY <1>0 DEF Padded
  <1>4. \A i \in 1 .. MaxCommLen : C[i] = IF i <= m THEN comm[i] ELSE Zero
    BY <1>0 DEF Padded
  <1> HIDE DEF n, m, F, C
  <1>5. CommEq(F, C) <=> \A i \in 1 .. n : F[i] = C[i]
    <2>1. ASSUME CommEq(F, C), NEW i \in 1 .. n PROVE F[i] = C[i]
      <3>1. i \in 1 .. MaxCommLen /\ \A j \in 1 .. i : F[j] # Zero
        BY <1>0, <1>1, <1>3
      <3> QED
        BY <2>1, <3>1 DEF CommEq
    <2>2. ASSUME \A i \in 1 .. n : F[i] = C[i], NEW i \in 1 .. MaxCommLen,
                 \A j \in 1 .. i : F[j] # Zero
          PROVE  F[i] = C[i]
      <3>1. i \in 1 .. i /\ F[i] # Zero
        BY <2>2
      <3>2. i <= n
        BY <1>3, <3>1
      <3> QED
        BY <1>0, <2>2, <3>2
    <2> QED
      BY <2>1, <2>2 DEF CommEq
  <1>6. (\A i \in 1 .. n : F[i] = C[i]) <=> n <= m /\ \A i \in 1 .. n : name[i] = comm[i]
    <2>1. ASSUME \A i \in 1 .. n : F[i] = C[i]
          PROVE  n <= m /\ \A i \in 1 .. n : name[i] = comm[i]
      <3>1. ASSUME NEW i \in 1 .. n PROVE i <= m /\ name[i] = comm[i]
        <4>1. i \in 1 .. MaxCommLen /\ F[i] = name[i] /\ F[i] = C[i]
          BY <1>0, <1>3, <2>1
        <4>2. C[i] # Zero
          BY <1>1, <4>1
        <4> QED
          BY <1>4, <4>1, <4>2
      <3>2. n \in 1 .. n
        BY <1>0
      <3> QED
        BY <3>1, <3>2
    <2>2. ASSUME n <= m, \A i \in 1 .. n : name[i] = comm[i], NEW i \in 1 .. n
          PROVE  F[i] = C[i]
      <3>1. i \in 1 .. MaxCommLen /\ i <= n /\ i <= m
        BY <1>0, <2>2
      <3> QED
        BY <1>3, <1>4, <2>2, <3>1
    <2> QED
      BY <2>1, <2>2
  <1>7. IsPrefix(name, comm) <=> n <= m /\ \A i \in 1 .. n : name[i] = comm[i]
    <2>1. SubSeq(name, 1, n) = [i \in 1 .. n |-> name[i]]
      BY <1>0 DEF n
    <2>2. SubSeq(comm, 1, n) = [i \in 1 .. n |-> comm[i]]
      BY <1>0 DEF n
    <2>3. IsPrefix(name, comm) <=> n <= m /\ SubSeq(name, 1, n) = SubSeq(comm, 1, n)
      BY DEF IsPrefix, n, m
    <2> QED
      BY <2>1, <2>2, <2>3
  <1> QED
    BY <1>5, <1>6, <1>7 DEF F, C

(* What a filter made of a name on the command line lets through. *)
LEMMA FilterMeans ==
  ASSUME NEW name \in Seq(Byte), NEW comm \in Comm, BuildCommFilter(name) # {}
  PROVE  (\E f \in BuildCommFilter(name) : CommEq(f, Padded(comm)))
         <=> IsPrefix(name, comm)
  <1>1. BuildCommFilter(name) = {Padded(name)} /\ name # <<>> /\ Len(name) < MaxCommLen
    <2>1. Len(name) \in Nat /\ MaxCommLen \in Nat
      BY CommFilterAssumption
    <2> QED
      BY <2>1 DEF BuildCommFilter
  <1>2. comm \in Seq(Byte) /\ TaskName(comm)
    BY ExecTraceAssumption
  <1> QED
    BY <1>1, <1>2, CommEqIsPrefix

-----------------------------------------------------------------------------
(* Losses.                                                                   *)

(* The losses in a buffer are a sum. *)
LEMMA LostSum ==
  ASSUME NEW s \in Seq(Record)
  PROVE  LET c == [i \in 1 .. Len(s) |-> s[i].lost]
         IN  /\ \A i \in 1 .. Len(s) : c[i] \in Nat
             /\ \E f : Sums(f, c, Len(s)) /\ LostIn(s) = f[Len(s)]
  <1> DEFINE c == [i \in 1 .. Len(s) |-> s[i].lost]
             E(g) == [i \in 0 .. Len(s) |-> IF i = 0 THEN 0 ELSE g[i - 1] + s[i].lost]
  <1>0. Len(s) \in Nat
    OBVIOUS
  <1>1. ASSUME NEW i \in 1 .. Len(s) PROVE c[i] = s[i].lost /\ c[i] \in Nat
    <2>1. s[i] \in Record
      BY ElementOfSeq
    <2>2. s[i].lost \in Nat
      BY <2>1 DEF Record
    <2> QED
      BY <2>2
  <1> HIDE DEF c
  <1>2. PICK f0 : Sums(f0, c, Len(s))
    BY <1>0, <1>1, SumsExist
  <1>3. \A g : g = E(g) <=> Sums(g, c, Len(s))
    <2>1. ASSUME NEW g, g = E(g) PROVE Sums(g, c, Len(s))
      <3>1. g[0] = 0 /\ \A i \in 1 .. Len(s) : g[i] = g[i - 1] + c[i]
        BY <1>0, <1>1, <2>1
      <3> DEFINE T == {m \in Nat : m <= Len(s) => g[m] \in Nat}
      <3>2. 0 \in T
        BY <3>1
      <3>3. ASSUME NEW m \in Nat, m \in T PROVE m + 1 \in T
        <4> SUFFICES ASSUME m + 1 <= Len(s) PROVE g[m + 1] \in Nat
          OBVIOUS
        <4>1. g[m] \in Nat
          BY <1>0, <3>3
        <4>2. m + 1 \in 1 .. Len(s) /\ (m + 1) - 1 = m
          BY <1>0
        <4>3. g[m + 1] = g[(m + 1) - 1] + c[m + 1] /\ c[m + 1] \in Nat
          BY <1>1, <3>1, <4>2
        <4> QED
          BY <4>1, <4>2, <4>3
      <3>4. Nat \subseteq T
        <4> HIDE DEF T
        <4> QED
          BY <3>2, <3>3, SetInduction
      <3>5. \A m \in 0 .. Len(s) : g[m] \in Nat
        BY <1>0, <3>4
      <3>6. g = [m \in 0 .. Len(s) |-> g[m]]
        BY <2>1
      <3> QED
        BY <3>1, <3>5, <3>6 DEF Sums
    <2>2. ASSUME NEW g, Sums(g, c, Len(s)) PROVE g = E(g)
      <3>1. /\ g \in [0 .. Len(s) -> Nat] /\ g[0] = 0
            /\ \A i \in 1 .. Len(s) : g[i] = g[i - 1] + c[i]
        BY <2>2 DEF Sums
      <3>2. \A i \in 0 .. Len(s) : g[i] = E(g)[i]
        BY <1>0, <1>1, <3>1
      <3> QED
        BY <3>1, <3>2
    <2> QED
      BY <2>1, <2>2
  <1> DEFINE h == CHOOSE g : g = E(g)
  <1>4. h = E(h)
    BY <1>2, <1>3
  <1>5. LostIn(s) = h[Len(s)]
    BY DEF LostIn
  <1> HIDE DEF h
  <1>6. Sums(h, c, Len(s))
    BY <1>3, <1>4
  <1> QED
    BY <1>1, <1>5, <1>6 DEF c

(* No record, no loss.                                                      *)
LEMMA LostEmpty == LostIn(<<>>) = 0
  <1>1. <<>> \in Seq(Record) /\ Len(<<>>) = 0
    OBVIOUS
  <1>2. PICK f : /\ Sums(f, [i \in 1 .. Len(<<>>) |-> <<>>[i].lost], Len(<<>>))
                 /\ LostIn(<<>>) = f[Len(<<>>)]
    BY <1>1, LostSum
  <1> QED
    BY <1>1, <1>2 DEF Sums

(* The losses reported by some records are a number.                        *)
LEMMA LostNat ==
  ASSUME NEW s \in Seq(Record)
  PROVE  LostIn(s) \in Nat
  <1>1. PICK f : /\ Sums(f, [i \in 1 .. Len(s) |-> s[i].lost], Len(s))
                 /\ LostIn(s) = f[Len(s)]
    BY LostSum
  <1>2. f \in [0 .. Len(s) -> Nat] /\ Len(s) \in 0 .. Len(s)
    BY <1>1 DEF Sums
  <1> QED
    BY <1>1, <1>2

(* A record brings its losses with it into the buffer ... *)
LEMMA LostAppend ==
  ASSUME NEW s \in Seq(Record), NEW r \in Record
  PROVE  LostIn(Append(s, r)) = LostIn(s) + r.lost
  <1> DEFINE t == Append(s, r)
             n == Len(s)
             c == [i \in 1 .. n |-> s[i].lost]
             d == [i \in 1 .. Len(t) |-> t[i].lost]
  <1>1. /\ t \in Seq(Record) /\ n \in Nat /\ Len(t) = n + 1
        /\ t[n + 1] = r /\ \A i \in 1 .. n : t[i] = s[i]
    OBVIOUS
  <1>2. PICK f : Sums(f, c, n) /\ LostIn(s) = f[n]
    BY LostSum
  <1>3. PICK g : Sums(g, d, Len(t)) /\ LostIn(t) = g[Len(t)]
    BY <1>1, LostSum
  <1>4. \A i \in 1 .. n : c[i] = d[i]
    BY <1>1
  <1>5. d[n + 1] = r.lost
    BY <1>1
  <1> HIDE DEF t, n, c, d
  <1>6. f[n] = g[n]
    <2>1. Sums(f, c, n) /\ Sums(g, d, n + 1) /\ n \in Nat /\ n + 1 \in Nat /\ n <= n + 1
      BY <1>1, <1>2, <1>3
    <2> QED
      BY <1>4, <2>1, SumsUnique, Z3
  <1>7. g[n + 1] = g[(n + 1) - 1] + d[n + 1] /\ (n + 1) - 1 = n
    BY <1>1, <1>3 DEF Sums
  <1> QED
    BY <1>1, <1>2, <1>3, <1>5, <1>6, <1>7 DEF t

(* ... and takes them along when it is read.                                 *)
LEMMA LostTail ==
  ASSUME NEW s \in Seq(Record), s # <<>>
  PROVE  LostIn(s) = Head(s).lost + LostIn(Tail(s))
  <1> DEFINE t == Tail(s)
             n == Len(t)
             c == [i \in 1 .. Len(s) |-> s[i].lost]
             d == [i \in 1 .. n |-> t[i].lost]
  <1>1. /\ t \in Seq(Record) /\ n \in Nat /\ Len(s) = n + 1
        /\ s[1] = Head(s) /\ \A i \in 1 .. n : t[i] = s[i + 1]
    BY HeadTailProperties
  <1>2. PICK f : Sums(f, c, Len(s)) /\ LostIn(s) = f[Len(s)]
    BY LostSum
  <1>3. PICK g : Sums(g, d, n) /\ LostIn(t) = g[n]
    BY <1>1, LostSum
  <1>4. \A i \in 1 .. Len(s) : c[i] \in Nat
    BY LostSum
  <1>5. \A i \in 1 .. n : d[i] = c[i + 1]
    BY <1>1
  <1>6. c[1] = Head(s).lost
    BY <1>1
  <1> HIDE DEF t, n, c, d
  <1>7. f[n + 1] = c[1] + g[n]
    <2>1. /\ Sums(f, c, n + 1) /\ Sums(g, d, n)
          /\ n \in Nat /\ \A i \in 1 .. n + 1 : c[i] \in Nat
      BY <1>1, <1>2, <1>3, <1>4
    <2> QED
      BY <1>5, <2>1, SumsShift
  <1> QED
    BY <1>1, <1>2, <1>3, <1>6, <1>7 DEF t

-----------------------------------------------------------------------------
(* What the command line says, which no step changes.                        *)

LEMMA ListType ==
  ASSUME args \in CommandLines
  PROVE  /\ List \in Seq(Seq(Byte)) /\ Len(List) \in Nat
         /\ \A i \in 1 .. Len(List) : List[i] \in Seq(Byte)
         /\ CommMode \in 0 .. 2 /\ (List = <<>> <=> CommMode = 0)
         /\ (List = <<>> <=> Len(List) = 0)
  <1>1. args \in [comms : Seq(Seq(Byte)), ignores : Seq(Seq(Byte)), filter : BOOLEAN]
    BY ExecTraceAssumption
  <1>2. List \in Seq(Seq(Byte))
    BY <1>1 DEF List
  <1>3. Len(List) \in Nat /\ (List = <<>> <=> Len(List) = 0)
    BY <1>2, EmptySeq
  <1>4. \A i \in 1 .. Len(List) : List[i] \in Seq(Byte)
    BY <1>2, ElementOfSeq
  <1>5. CommMode \in 0 .. 2 /\ (List = <<>> <=> CommMode = 0)
    BY DEF List, CommMode, Allow, Deny
  <1> QED
    BY <1>2, <1>3, <1>4, <1>5

(* No step changes the command line. *)
LEMMA SameLine ==
  ASSUME Next \/ UNCHANGED vars
  PROVE  args' = args
  BY DEF Next, Enter, ProbeStep, ReadCount, ReadMode, Match, Output, probeRest,
         ReaderStep, readerRest, Wake, Register, TakeGuard, Visit, ClearReady,
         MainStep, CheckArgs, Attach, SetCount, SetMode, SetName, NamesSet, AllOpen,
         StartupError, CtrlC, Shutdown, OpenBuffer, SigInt, mainVars, vars

-----------------------------------------------------------------------------
(* The tracepoint.                                                           *)

LEMMA IdleProbeType ==
  /\ IdleProbe \in ProbeType /\ IdleProbe.pc = "idle" /\ ~IdleProbe.late
  /\ IdleProbe.i = 0
  BY ExecTraceAssumption DEF IdleProbe, ProbeType, Event

(* A probe that goes on leaves the others alone.                            *)
LEMMA ProbeChange ==
  ASSUME TypeOK, NEW c \in CPU, NEW p \in ProbeType, Becomes(c, p)
  PROVE  /\ probe' \in [CPU -> ProbeType] /\ probe'[c] = p
         /\ \A d \in CPU \ {c} : probe'[d] = probe[d]
  <1>1. probe \in [CPU -> ProbeType] /\ probe' = [probe EXCEPT ![c] = p]
    BY DEF TypeOK, Becomes
  <1> HIDE DEF ProbeType
  <1> QED
    BY <1>1

(* A probe that goes on by itself, and stays right about what it decides. *)
LEMMA ProbeMoves ==
  ASSUME IInv, NEW c \in CPU, NEW p \in ProbeType, Becomes(c, p),
         UNCHANGED <<mapVars, bufVars, reactor, readerVars, mainVars, histVars,
                     overtaken>>,
         started' \in [CPU -> Nat], judged' \subseteq Comm \X BOOLEAN,
         \A j \in judged' : j[2] <=> Wanted(j[1]),
         Judged(p), p.late => FiltersSet \/ probe[c].late,
         p.pc # "idle" /\ FiltersSet =>
             p.late \/ (probe[c].pc # "idle" /\ ~probe[c].late)
  PROVE  /\ TypeOK' /\ Prepared' /\ Judging' /\ Buffered'
         /\ ByPrefix' /\ OnlyWantedPrinted'
  <1>1. /\ probe' \in [CPU -> ProbeType] /\ probe'[c] = p
        /\ \A d \in CPU \ {c} : probe'[d] = probe[d]
    BY ProbeChange DEF IInv
  <1>2. /\ UNCHANGED <<count, mode, names, ring, pending, edge, ready, fresh, rpc,
                       left, args, upc, done, asked, attached, opened, read, printed,
                       warned, sent, overtaken>>
    BY DEF mapVars, bufVars, reactor, readerVars, mainVars, histVars
  <1>3. TypeOK'
    <2> HIDE DEF ProbeType
    <2> QED
      BY <1>1, <1>2 DEF IInv, TypeOK
  <1>4. SomeLate' => SomeLate \/ FiltersSet
    BY <1>1 DEF SomeLate
  <1>5. Prepared'
    BY <1>2, <1>4 DEF IInv, Prepared, Complete, Written, List, CommMode, FiltersSet
  <1>6. Judging'
    <2>1. ASSUME NEW d \in CPU PROVE Judged(probe'[d])
      BY <1>1 DEF IInv, Judging
    <2> QED
      BY <1>2, <2>1 DEF Judging, Judged, List, CommMode, Wanted, Listed
  <1>7. Buffered'
    <2>1. \A k : \A d : Wanted(ring[d][k].ev.comm)' <=> Wanted(ring[d][k].ev.comm)
      BY <1>2 DEF Wanted, Listed, List, CommMode
    <2>2. ASSUME ~overtaken, NEW d \in opened, probe'[d].pc # "idle" PROVE probe'[d].late
      BY <1>1, <2>2 DEF IInv, Buffered, TypeOK
    <2> QED
      BY <1>2, <2>1, <2>2 DEF IInv, Buffered, FiltersSet
  <1>8. ByPrefix'
    BY <1>2 DEF ByPrefix, Wanted, Listed, List, CommMode
  <1>9. OnlyWantedPrinted'
    BY <1>2 DEF IInv, OnlyWantedPrinted, MatchesFilter, Wanted, Listed, List, CommMode
  <1> QED
    BY <1>3, <1>5, <1>6, <1>7, <1>8, <1>9

(* A probe that begins now has missed nothing written before.               *)
LEMMA EnterFilter ==
  ASSUME IInv, NEW c \in CPU, NEW e \in Programs, Enter(c, e)
  PROVE  /\ TypeOK' /\ Prepared' /\ Judging' /\ Buffered'
         /\ ByPrefix' /\ OnlyWantedPrinted'
  <1> DEFINE n == started[c] + 1
             v == [id |-> n, comm |-> e.comm, hit |-> e.hit]
             p == [IdleProbe EXCEPT !.pc = "count", !.late = FiltersSet, !.ev = v]
  <1>1. started[c] \in Nat /\ started' = [started EXCEPT ![c] = n]
    BY DEF Enter, IInv, TypeOK
  <1>2. started' \in [CPU -> Nat]
    BY <1>1 DEF IInv, TypeOK
  <1>3. v \in Event
    <2>1. e.comm \in Comm /\ e.hit \in BOOLEAN
      BY ExecTraceAssumption
    <2> QED
      BY <1>1, <2>1 DEF Event
  <1>4. p \in ProbeType /\ p.pc = "count" /\ p.i = 0 /\ (p.late <=> FiltersSet)
    <2>1. FiltersSet \in BOOLEAN
      BY DEF FiltersSet
    <2> HIDE DEF v
    <2> QED
      BY <1>3, <2>1, IdleProbeType DEF ProbeType
  <1>5. Becomes(c, p)
    BY DEF Enter
  <1> HIDE DEF p
  <1>6. Judged(p)
    BY <1>4 DEF Judged
  <1>7. /\ judged' \subseteq Comm \X BOOLEAN
        /\ \A j \in judged' : j[2] <=> Wanted(j[1])
    BY DEF Enter, IInv, ByPrefix, TypeOK
  <1> QED
    BY <1>2, <1>4, <1>5, <1>6, <1>7, ProbeMoves DEF Enter

(* The filter has decided, for a probe that saw all of it as the command line *)
(* has it.                                                                    *)
LEMMA DecideFilter ==
  ASSUME IInv, NEW c \in CPU, NEW pass \in BOOLEAN, Decide(c, pass), probe[c].pc # "idle",
         UNCHANGED probeRest,
         probe[c].late => (pass <=> Wanted(probe[c].ev.comm))
  PROVE  /\ TypeOK' /\ Prepared' /\ Judging' /\ Buffered'
         /\ ByPrefix' /\ OnlyWantedPrinted'
  <1> DEFINE p == IF pass THEN [probe[c] EXCEPT !.pc = "output"] ELSE IdleProbe
  <1>1. Becomes(c, p)
    BY DEF Decide
  <1>2. probe[c] \in ProbeType
    BY DEF IInv, TypeOK
  <1>3. /\ p \in ProbeType /\ (p.late => probe[c].late)
        /\ p.pc # "idle" => /\ pass /\ p.late = probe[c].late /\ p.pc = "output"
                            /\ p.ev = probe[c].ev
    <2>1. CASE pass
      BY <1>2, <2>1 DEF ProbeType
    <2>2. CASE ~pass
      BY <2>2, IdleProbeType
    <2> QED
      BY <2>1, <2>2
  <1> HIDE DEF p
  <1>4. Judged(p)
    BY <1>3 DEF Judged
  <1>5. /\ judged' \subseteq Comm \X BOOLEAN
        /\ \A j \in judged' : j[2] <=> Wanted(j[1])
    <2> DEFINE m == probe[c].ev.comm
    <2>1. /\ judged \subseteq Comm \X BOOLEAN /\ m \in Comm
          /\ \A j \in judged : j[2] <=> Wanted(j[1])
      BY <1>2 DEF IInv, TypeOK, ByPrefix, ProbeType, Event
    <2>2. judged' = IF probe[c].late THEN judged \cup {<<m, pass>>} ELSE judged
      BY DEF Decide
    <2>3. probe[c].late => (pass <=> Wanted(m))
      OBVIOUS
    <2> HIDE DEF m
    <2> QED
      BY <2>1, <2>2, <2>3
  <1>6. started' \in [CPU -> Nat]
    BY DEF probeRest, IInv, TypeOK
  <1> QED
    BY <1>1, <1>3, <1>4, <1>5, <1>6, ProbeMoves DEF probeRest

(* A late probe that compares its name with the i-th name of the filter.      *)
LEMMA NameCompared ==
  ASSUME IInv, NEW c \in CPU, probe[c].late, probe[c].pc = "match",
         probe[c].i < probe[c].n
  PROVE  /\ probe[c].i + 1 \in 1 .. Len(List)
         /\ (\E f \in names[probe[c].i] : CommEq(f, Padded(probe[c].ev.comm)))
            <=> IsPrefix(List[probe[c].i + 1], probe[c].ev.comm)
  <1> DEFINE i == probe[c].i
             m == probe[c].ev.comm
  <1>1. probe[c] \in ProbeType
    BY DEF IInv, TypeOK
  <1>2. i \in Nat /\ m \in Comm
    BY <1>1 DEF ProbeType, Event
  <1>3. probe[c].n = Len(List) /\ i < Len(List)
    BY DEF IInv, Judging, Judged
  <1>4. Len(List) \in Nat /\ \A j \in 1 .. Len(List) : List[j] \in Seq(Byte)
    BY ListType DEF IInv, TypeOK
  <1>5. i + 1 \in 1 .. Len(List) /\ (i + 1) - 1 = i
    BY <1>2, <1>3, <1>4
  <1>6. Written(i + 1)
    <2>1. Complete
      BY DEF IInv, Prepared, SomeLate
    <2> QED
      BY <1>5, <2>1 DEF Complete
  <1>7. /\ BuildCommFilter(List[i + 1]) # {}
        /\ names[i] = BuildCommFilter(List[i + 1])
    BY <1>5, <1>6 DEF Written
  <1> HIDE DEF i, m
  <1>8. List[i + 1] \in Seq(Byte)
    BY <1>4, <1>5
  <1>9. (\E f \in names[i] : CommEq(f, Padded(m))) <=> IsPrefix(List[i + 1], m)
    BY <1>2, <1>7, <1>8, FilterMeans
  <1> QED
    BY <1>5, <1>9 DEF i, m

(* What a late probe reads of the filter is what was asked for.             *)
LEMMA ReadFilter ==
  ASSUME IInv, NEW c \in CPU, ReadCount(c) \/ ReadMode(c)
  PROVE  /\ TypeOK' /\ Prepared' /\ Judging' /\ Buffered'
         /\ ByPrefix' /\ OnlyWantedPrinted'
  <1>0. /\ probe[c] \in ProbeType /\ count \in Nat /\ mode \in 0 .. 2
        /\ Judged(probe[c])
        /\ (probe[c].late => Complete) /\ args \in CommandLines
    BY ExecTraceAssumption DEF IInv, TypeOK, Judging, Prepared, SomeLate
  <1>1. CASE ReadCount(c) /\ count = 0
    <2>1. probe[c].late => Wanted(probe[c].ev.comm)
      BY <1>0, <1>1, ListType DEF Complete, Wanted, Allow, Deny
    <2>2. Decide(c, TRUE) /\ UNCHANGED probeRest /\ probe[c].pc # "idle"
      BY <1>1 DEF ReadCount
    <2> QED
      BY <2>1, <2>2, DecideFilter
  <1> DEFINE p == IF probe[c].pc = "count" THEN [probe[c] EXCEPT !.pc = "mode", !.n = count]
                  ELSE [probe[c] EXCEPT !.pc = "match", !.mode = mode]
  <1>2. CASE ReadMode(c) \/ (ReadCount(c) /\ count # 0)
    <2>1. Becomes(c, p) /\ UNCHANGED <<probeRest, judged>>
      BY <1>0, <1>2 DEF ReadCount, ReadMode
    <2>0. /\ judged' \subseteq Comm \X BOOLEAN
          /\ \A j \in judged' : j[2] <=> Wanted(j[1])
      BY <2>1 DEF IInv, TypeOK, ByPrefix
    <2>2. probe[c].pc \in {"count", "mode"}
      BY <1>2 DEF ReadCount, ReadMode
    <2>3. p \in ProbeType /\ p.late = probe[c].late
      BY <1>0 DEF ProbeType
    <2>4. Judged(p)
      <3>1. CASE probe[c].pc = "count"
        <4>1. p.pc = "mode" /\ p.n = count /\ p.late = probe[c].late /\ p.i = probe[c].i
          BY <1>0, <3>1 DEF ProbeType
        <4>2. count # 0
          BY <1>2, <3>1 DEF ReadMode
        <4>3. probe[c].late => count = Len(List) /\ List # <<>> /\ probe[c].i = 0
          BY <1>0, <3>1, <4>2, ListType DEF Complete, Judged
        <4> HIDE DEF p
        <4> QED
          BY <4>1, <4>3 DEF Judged
      <3>2. CASE probe[c].pc = "mode"
        <4>1. /\ p.pc = "match" /\ p.n = probe[c].n /\ p.late = probe[c].late
              /\ p.i = probe[c].i /\ p.mode = mode
          BY <1>0, <3>2 DEF ProbeType
        <4>2. probe[c].late => /\ mode = CommMode /\ probe[c].n = Len(List)
                              /\ List # <<>> /\ probe[c].i = 0
          BY <1>0, <3>2 DEF Complete, Judged
        <4>3. Len(List) \in Nat
          BY <1>0, ListType
        <4> HIDE DEF p
        <4> QED
          BY <4>1, <4>2, <4>3 DEF Judged
      <3> QED
        BY <2>2, <3>1, <3>2
    <2> HIDE DEF p
    <2>5. started' \in [CPU -> Nat]
      BY <2>1 DEF probeRest, IInv, TypeOK
    <2> QED
      BY <2>0, <2>1, <2>2, <2>3, <2>4, <2>5, ProbeMoves DEF probeRest
  <1> QED
    BY <1>1, <1>2

(* The comparison of the names decides as asked.                            *)
LEMMA MatchFilter ==
  ASSUME IInv, NEW c \in CPU, Match(c)
  PROVE  /\ TypeOK' /\ Prepared' /\ Judging' /\ Buffered'
         /\ ByPrefix' /\ OnlyWantedPrinted'
  <1> DEFINE p    == probe[c]
             same == \E f \in names[p.i] : CommEq(f, Padded(p.ev.comm))
  <1>0. /\ p \in ProbeType /\ p.pc = "match" /\ UNCHANGED probeRest
        /\ p.i \in Nat /\ p.n \in Nat /\ p.mode \in 0 .. 2
        /\ Judged(p) /\ args \in CommandLines
        /\ MaxFilters \in Nat
    BY ExecTraceAssumption DEF Match, IInv, TypeOK, Judging, ProbeType
  <1>1. p.late => /\ p.n = Len(List) /\ List # <<>> /\ p.mode = CommMode /\ p.i <= p.n
                  /\ \A j \in 1 .. p.i : ~IsPrefix(List[j], p.ev.comm)
    BY <1>0 DEF Judged
  <1>2. p.late => /\ p.n <= MaxFilters /\ CommMode \in {Allow, Deny}
                  /\ DOMAIN List = 1 .. p.n
    <2>1. p.late => Complete
      BY DEF IInv, Prepared, SomeLate
    <2> QED
      BY <1>0, <1>1, <2>1, ListType DEF Complete, Allow, Deny
  <1>3. CASE p.i < p.n /\ p.i < MaxFilters /\ same
    <2>1. Decide(c, p.mode # Deny)
      BY <1>3 DEF Match
    <2>2. p.late => Listed(p.ev.comm)
      <3> SUFFICES ASSUME p.late PROVE Listed(p.ev.comm)
        OBVIOUS
      <3>1. p.i + 1 \in DOMAIN List /\ IsPrefix(List[p.i + 1], p.ev.comm)
        BY <1>0, <1>1, <1>2, <1>3, NameCompared
      <3> QED
        BY <3>1 DEF Listed
    <2>3. p.late => ((p.mode # Deny) <=> Wanted(p.ev.comm))
      BY <1>1, <1>2, <2>2 DEF Wanted, Allow, Deny
    <2> HIDE DEF same
    <2> QED
      BY <1>0, <2>1, <2>3, DecideFilter
  <1>4. CASE ~(p.i < p.n /\ p.i < MaxFilters)
    <2>1. Decide(c, p.mode = Deny)
      BY <1>4 DEF Match
    <2>2. p.late => ~Listed(p.ev.comm)
      BY <1>0, <1>1, <1>2, <1>4 DEF Listed
    <2>3. p.late => ((p.mode = Deny) <=> Wanted(p.ev.comm))
      BY <1>1, <1>2, <2>2 DEF Wanted, Allow, Deny
    <2> QED
      BY <1>0, <2>1, <2>3, DecideFilter
  <1>5. CASE p.i < p.n /\ p.i < MaxFilters /\ ~same
    <2> DEFINE q == [p EXCEPT !.i = @ + 1]
    <2>1. Becomes(c, q) /\ UNCHANGED judged
      BY <1>0, <1>5 DEF Match
    <2>0. /\ judged' \subseteq Comm \X BOOLEAN
          /\ \A j \in judged' : j[2] <=> Wanted(j[1])
      BY <2>1 DEF IInv, TypeOK, ByPrefix
    <2>2. /\ q \in ProbeType /\ q.late = p.late /\ q.pc = "match" /\ q.i = p.i + 1
          /\ q.n = p.n /\ q.mode = p.mode /\ q.ev = p.ev
      BY <1>0 DEF ProbeType
    <2>3. Judged(q)
      <3> SUFFICES ASSUME p.late PROVE Judged(q)
        BY <2>2 DEF Judged
      <3>1. ~IsPrefix(List[p.i + 1], p.ev.comm)
        BY <1>0, <1>5, NameCompared
      <3>2. \A j \in 1 .. p.i + 1 : ~IsPrefix(List[j], p.ev.comm)
        BY <1>0, <1>1, <3>1
      <3>3. p.i + 1 <= p.n
        BY <1>0, <1>5
      <3> HIDE DEF q, p
      <3> QED
        BY <1>1, <2>2, <3>2, <3>3 DEF Judged
    <2> HIDE DEF q
    <2>4. started' \in [CPU -> Nat]
      BY <1>0 DEF probeRest, IInv, TypeOK
    <2> QED
      BY <1>0, <2>0, <2>1, <2>2, <2>3, <2>4, ProbeMoves DEF probeRest
  <1> QED
    BY <1>3, <1>4, <1>5

(* What is handed to a buffer was judged before.                            *)
LEMMA OutputFilter ==
  ASSUME IInv, NEW c \in CPU, Output(c)
  PROVE  /\ TypeOK' /\ Prepared' /\ Judging' /\ Buffered'
         /\ ByPrefix' /\ OnlyWantedPrinted'
  <1> DEFINE r == [ev |-> probe[c].ev, lost |-> pending[c]]
  <1>1. /\ UNCHANGED <<count, mode, names, ready, fresh, rpc, left, args, upc, done,
                       asked, attached, opened, started, read, printed, warned,
                       overtaken, judged>>
        /\ Becomes(c, IdleProbe) /\ probe[c].pc = "output"
    BY DEF Output, mapVars, readerVars, mainVars
  <1>2. /\ probe' \in [CPU -> ProbeType] /\ probe'[c] = IdleProbe
        /\ \A d \in CPU \ {c} : probe'[d] = probe[d]
    BY <1>1, IdleProbeType, ProbeChange DEF IInv
  <1>3. /\ probe[c] \in ProbeType /\ probe[c].ev \in Event /\ probe[c].ev.id \in Nat
        /\ r \in Record /\ ring[c] \in Seq(Record) /\ pending[c] \in Nat
    BY DEF IInv, TypeOK, ProbeType, Record, Event
  <1>4. \/ ring' = ring
        \/ c \in opened /\ ring' = [ring EXCEPT ![c] = Append(@, r)]
    BY DEF Output, bufVars
  <1>5. TypeOK'
    <2>0. /\ ring \in [CPU -> Seq(Record)] /\ pending \in [CPU -> Nat]
          /\ edge \in [CPU -> BOOLEAN] /\ sent \in [CPU -> SUBSET Nat]
      BY DEF IInv, TypeOK
    <2>1. ring' \in [CPU -> Seq(Record)]
      <3>1. Append(ring[c], r) \in Seq(Record)
        BY <1>3
      <3> QED
        BY <1>4, <2>0, <3>1
    <2>2. sent' \in [CPU -> SUBSET Nat]
      <3>1. \/ sent' = sent
            \/ sent' = [sent EXCEPT ![c] = @ \cup {probe[c].ev.id}]
        BY DEF Output
      <3>2. sent[c] \cup {probe[c].ev.id} \in SUBSET Nat
        BY <1>3, <2>0
      <3> QED
        BY <2>0, <3>1, <3>2
    <2>3. pending' \in [CPU -> Nat] /\ edge' \in [CPU -> BOOLEAN]
      <3>1. \/ pending' = pending \/ pending' = [pending EXCEPT ![c] = 0]
            \/ pending' = [pending EXCEPT ![c] = @ + 1]
        BY DEF Output, bufVars
      <3>2. edge' = edge \/ edge' = [edge EXCEPT ![c] = TRUE]
        BY DEF Output
      <3>3. pending[c] + 1 \in Nat
        BY <1>3
      <3>4. pending' \in [CPU -> Nat]
        BY <2>0, <3>1, <3>3
      <3> QED
        BY <2>0, <3>2, <3>4
    <2> HIDE DEF ProbeType, Record
    <2> QED
      BY <1>1, <1>2, <2>1, <2>2, <2>3 DEF IInv, TypeOK
  <1>6. SomeLate' => SomeLate
    BY <1>2, IdleProbeType DEF SomeLate
  <1>7. Prepared'
    BY <1>1, <1>6 DEF IInv, Prepared, Complete, Written, List, CommMode, FiltersSet
  <1>8. Judging'
    <2>1. ASSUME NEW d \in CPU PROVE Judged(probe'[d])
      BY <1>2, IdleProbeType DEF IInv, Judging, Judged
    <2> QED
      BY <1>1, <2>1 DEF Judging, Judged, List, CommMode, Wanted, Listed
  <1>9. Buffered'
    <2>1. ASSUME ~overtaken, NEW d \in opened, probe'[d].pc # "idle" PROVE probe'[d].late
      BY <1>2, <2>1, IdleProbeType DEF IInv, Buffered, TypeOK
    <2>2. ASSUME ~overtaken, NEW d \in CPU, NEW k \in 1 .. Len(ring'[d])
          PROVE  Wanted(ring'[d][k].ev.comm)
      <3>1. CASE ring'[d] = ring[d]
        BY <2>2, <3>1 DEF IInv, Buffered
      <3>2. CASE d = c /\ c \in opened /\ ring'[c] = Append(ring[c], r)
        <4>1. CASE k \in 1 .. Len(ring[c])
          <5>1. ring'[c][k] = ring[c][k]
            BY <1>3, <3>2, <4>1
          <5> QED
            BY <2>2, <3>2, <4>1, <5>1 DEF IInv, Buffered
        <4>2. CASE k = Len(ring[c]) + 1
          <5>1. ring'[c][k] = r
            BY <1>3, <3>2, <4>2
          <5>2. probe[c].late
            BY <1>1, <2>2, <3>2 DEF IInv, Buffered
          <5>3. Wanted(probe[c].ev.comm)
            BY <1>1, <5>2 DEF IInv, Judging, Judged
          <5> QED
            BY <3>2, <5>1, <5>3
        <4>3. Len(ring'[c]) = Len(ring[c]) + 1 /\ Len(ring[c]) \in Nat
          BY <1>3, <3>2
        <4> QED
          BY <2>2, <3>2, <4>1, <4>2, <4>3
      <3>3. ring \in [CPU -> Seq(Record)]
        BY DEF IInv, TypeOK
      <3> HIDE DEF r
      <3> QED
        BY <1>4, <3>1, <3>2, <3>3
    <2>3. \A k : \A d : Wanted(ring'[d][k].ev.comm) <=> Wanted(ring[d][k].ev.comm)'
      BY <1>1 DEF Wanted, Listed, List, CommMode
    <2> QED
      BY <1>1, <2>1, <2>2, <2>3 DEF IInv, Buffered, FiltersSet
  <1>10. ByPrefix' /\ OnlyWantedPrinted'
    BY <1>1 DEF IInv, ByPrefix, OnlyWantedPrinted, MatchesFilter, Wanted, Listed, List,
                CommMode
  <1> QED
    BY <1>5, <1>7, <1>8, <1>9, <1>10

-----------------------------------------------------------------------------
(* The main task and the readers.                                            *)

(* A step that leaves the probes and the buffers alone, the filter as far as  *)
(* it was written, and opens nothing.                                         *)
LEMMA OthersMove ==
  ASSUME IInv, TypeOK', Prepared',
         UNCHANGED <<probe, ring, args, printed, overtaken, judged>>,
         opened' \subseteq opened, opened' # {} => FiltersSet'
  PROVE  /\ TypeOK' /\ Prepared' /\ Judging' /\ Buffered'
         /\ ByPrefix' /\ OnlyWantedPrinted'
  <1>1. Judging'
    BY DEF IInv, Judging, Judged, List, CommMode, Wanted, Listed
  <1>2. Buffered'
    <2>1. \A k : \A d : Wanted(ring[d][k].ev.comm)' <=> Wanted(ring[d][k].ev.comm)
      BY DEF Wanted, Listed, List, CommMode
    <2>2. opened' \subseteq CPU
      BY DEF TypeOK
    <2> QED
      BY <2>1, <2>2 DEF IInv, Buffered
  <1>3. ByPrefix' /\ OnlyWantedPrinted'
    BY DEF IInv, ByPrefix, OnlyWantedPrinted, MatchesFilter, Wanted, Listed, List,
           CommMode
  <1> QED
    BY <1>1, <1>2, <1>3

(* A name on the command line makes at most one filter. *)
LEMMA FilterType ==
  ASSUME NEW name \in Seq(Byte)
  PROVE  BuildCommFilter(name) \subseteq CommBytes
  <1>1. ASSUME NEW i \in DOMAIN name PROVE name[i] \in Byte
    BY <1>1, ElementOfSeq
  <1>2. Padded(name) \in CommBytes
    BY <1>1 DEF Padded, CommBytes
  <1> QED
    BY <1>2 DEF BuildCommFilter

(* The start-up, step by step. *)
LEMMA StartupFilter ==
  ASSUME IInv, \/ CheckArgs \/ Attach \/ SetCount \/ SetMode \/ SetName \/ NamesSet
               \/ AllOpen \/ CtrlC
  PROVE  /\ TypeOK' /\ Prepared' /\ Judging' /\ Buffered'
         /\ ByPrefix' /\ OnlyWantedPrinted'
  <1>0. /\ UNCHANGED <<ring, pending, edge, ready, fresh, probe, started, rpc, left, args,
                       asked, opened, read, printed, warned, sent, overtaken, judged>>
        /\ SomeLate' = SomeLate /\ List' = List /\ CommMode' = CommMode
    BY DEF CheckArgs, Attach, SetCount, SetMode, SetName, NamesSet, AllOpen, CtrlC,
           mainRest, bufVars, reactor, histVars, readerVars, SomeLate, List, CommMode
  <1>1. /\ args \in CommandLines /\ Len(List) \in Nat /\ CommMode \in 0 .. 2
        /\ MaxFilters \in Nat /\ done \in Nat
        /\ names \in [0 .. MaxFilters - 1 -> SUBSET CommBytes]
        /\ \A i \in 1 .. Len(List) : List[i] \in Seq(Byte)
    BY ListType, ExecTraceAssumption DEF IInv, TypeOK
  <1>2. CASE CheckArgs \/ Attach \/ NamesSet \/ AllOpen \/ CtrlC
    <2>1. UNCHANGED <<count, mode, names, done>>
      BY <1>2 DEF CheckArgs, Attach, NamesSet, AllOpen, CtrlC, mapVars
    <2>2. \A i : Written(i)' <=> Written(i)
      BY <1>0, <2>1 DEF Written
    <2>3. TypeOK'
      <3>1. /\ attached' \in BOOLEAN
            /\ upc' \in {"attach", "exited", "count", "open", "run", "abort"}
        BY <1>2 DEF CheckArgs, Attach, NamesSet, AllOpen, CtrlC, IInv, TypeOK
      <3> HIDE DEF ProbeType, Record
      <3> QED
        BY <1>0, <2>1, <3>1 DEF IInv, TypeOK
    <2>4. Prepared'
      BY <1>0, <1>1, <1>2, <2>1, <2>2
         DEF CheckArgs, Attach, NamesSet, AllOpen, CtrlC, IInv, Prepared, Complete, FiltersSet
    <2>5. opened' # {} => FiltersSet'
      BY <1>0, <1>2 DEF CheckArgs, Attach, NamesSet, AllOpen, CtrlC, IInv, Buffered, FiltersSet
    <2> QED
      BY <1>0, <2>3, <2>4, <2>5, OthersMove
  <1>3. CASE SetCount \/ SetMode \/ SetName
    <2>1. /\ attached' = attached /\ ~FiltersSet /\ ~FiltersSet' /\ opened = {} /\ ~SomeLate
          /\ Len(List) <= MaxFilters
      BY <1>3 DEF SetCount, SetMode, SetName, FiltersSet, IInv, Buffered, Prepared
    <2>2. CASE SetCount \/ SetMode
      <3>1. UNCHANGED <<names, done>> /\ done = 0
        BY <2>2 DEF SetCount, SetMode, IInv, Prepared
      <3>2. TypeOK'
        <4>1. count' \in 0 .. MaxFilters /\ mode' \in 0 .. 2 /\ upc' \in {"mode", "names"}
          BY <1>1, <2>1, <2>2 DEF SetCount, SetMode, IInv, TypeOK
        <4> HIDE DEF ProbeType, Record
        <4> QED
          BY <1>0, <2>1, <3>1, <4>1 DEF IInv, TypeOK
      <3>3. Prepared'
        BY <1>0, <1>1, <2>1, <2>2, <3>1
           DEF SetCount, SetMode, IInv, Prepared, FiltersSet
      <3> QED
        BY <1>0, <2>1, <3>2, <3>3, OthersMove
    <2>3. CASE SetName
      <3> DEFINE F == BuildCommFilter(List[done + 1])
      <3>1. /\ UNCHANGED <<count, mode, upc>> /\ upc = "names" /\ done < Len(List)
            /\ names' = [names EXCEPT ![done] = F] /\ F # {} /\ done' = done + 1
        BY <2>3 DEF SetName
      <3>2. done + 1 \in 1 .. Len(List) /\ done \in 0 .. MaxFilters - 1
        BY <1>1, <2>1, <3>1
      <3>3. F \in SUBSET CommBytes
        BY <1>1, <3>2, FilterType
      <3>4. TypeOK'
        <4>1. names' \in [0 .. MaxFilters - 1 -> SUBSET CommBytes]
          BY <1>1, <3>1, <3>3
        <4>2. done' \in 0 .. MaxFilters
          BY <1>1, <3>1, <3>2
        <4> HIDE DEF ProbeType, Record, F
        <4> QED
          BY <1>0, <2>1, <3>1, <4>1, <4>2 DEF IInv, TypeOK
      <3>5. ASSUME NEW i \in 1 .. done + 1 PROVE Written(i)'
        <4>1. CASE i = done + 1
          <5>1. i - 1 = done /\ names'[done] = F
            BY <1>1, <3>1, <3>2, <4>1
          <5> QED
            BY <1>0, <3>1, <4>1, <5>1 DEF Written
        <4>2. CASE i \in 1 .. done
          <5>1. Written(i)
            BY <3>1, <4>2 DEF IInv, Prepared
          <5>2. i - 1 # done /\ i - 1 \in 0 .. MaxFilters - 1
            BY <1>1, <3>2, <4>2
          <5>3. names'[i - 1] = names[i - 1]
            BY <1>1, <3>1, <5>2
          <5> QED
            BY <1>0, <5>1, <5>3 DEF Written
        <4> QED
          BY <1>1, <4>1, <4>2
      <3>6. Prepared'
        <4>1. mode = CommMode /\ count = Len(List)
          BY <3>1 DEF IInv, Prepared
        <4>2. \A i \in 1 .. done' : Written(i)'
          BY <3>1, <3>5
        <4>3. done' <= Len(List)
          BY <1>1, <3>1
        <4> QED
          BY <1>0, <2>1, <3>1, <4>1, <4>2, <4>3 DEF Prepared
      <3> QED
        BY <1>0, <2>1, <3>4, <3>6, OthersMove
    <2> QED
      BY <1>3, <2>2, <2>3
  <1> QED
    BY <1>2, <1>3

(* A buffer is opened when the filter is complete: what a probe sends that    *)
(* began before makes the difference, and is remembered.                      *)
LEMMA OpenFilter ==
  ASSUME IInv, NEW c \in CPU, OpenBuffer(c)
  PROVE  /\ TypeOK' /\ Prepared' /\ Judging' /\ Buffered'
         /\ ByPrefix' /\ OnlyWantedPrinted'
  <1>1. /\ UNCHANGED <<count, mode, names, ring, pending, edge, ready, fresh, probe,
                       started, left, args, upc, done, asked, attached, read, printed,
                       warned, sent, judged>>
        /\ upc = "open" /\ opened' = opened \cup {c} /\ rpc' = [rpc EXCEPT ![c] = "start"]
        /\ overtaken' = (overtaken \/ (probe[c].pc # "idle" /\ ~probe[c].late))
    BY DEF OpenBuffer, mainRest, mapVars, bufVars, reactor, histVars
  <1>2. TypeOK'
    <2>1. /\ rpc' \in [CPU -> {"none", "start", "wait", "drain", "failed"}]
          /\ opened' \subseteq CPU /\ overtaken' \in BOOLEAN
      BY <1>1 DEF IInv, TypeOK
    <2> HIDE DEF ProbeType, Record
    <2> QED
      BY <1>1, <2>1 DEF IInv, TypeOK
  <1>3. Prepared'
    BY <1>1 DEF IInv, Prepared, Complete, Written, List, CommMode, FiltersSet, SomeLate
  <1>4. Judging'
    BY <1>1 DEF IInv, Judging, Judged, List, CommMode, Wanted, Listed
  <1>5. Buffered'
    <2>1. \A k : \A d : Wanted(ring[d][k].ev.comm)' <=> Wanted(ring[d][k].ev.comm)
      BY <1>1 DEF Wanted, Listed, List, CommMode
    <2>2. ~overtaken' => ~overtaken /\ (probe[c].pc # "idle" => probe[c].late)
      BY <1>1
    <2>3. ASSUME ~overtaken', NEW d \in opened', probe[d].pc # "idle" PROVE probe[d].late
      BY <1>1, <2>2, <2>3 DEF IInv, Buffered
    <2> QED
      BY <1>1, <2>1, <2>2, <2>3 DEF IInv, Buffered, FiltersSet
  <1>6. ByPrefix' /\ OnlyWantedPrinted'
    BY <1>1 DEF IInv, ByPrefix, OnlyWantedPrinted, MatchesFilter, Wanted, Listed, List,
                CommMode
  <1> QED
    BY <1>2, <1>3, <1>4, <1>5, <1>6

(* The end of the program prints nothing.                                   *)
LEMMA ExitFilter ==
  ASSUME IInv, StartupError \/ Shutdown \/ SigInt
  PROVE  /\ TypeOK' /\ Prepared' /\ Judging' /\ Buffered'
         /\ ByPrefix' /\ OnlyWantedPrinted'
  <1>1. /\ UNCHANGED <<count, mode, names, ring, pending, edge, ready, fresh, probe,
                       started, left, args, done, read, printed, warned, sent, overtaken,
                       judged>>
        /\ asked' \in BOOLEAN
    BY DEF StartupError, Shutdown, SigInt, mainRest, mapVars, bufVars, reactor, histVars,
           IInv, TypeOK
  <1>2. \/ Exit \/ (upc = "run" /\ UNCHANGED <<upc, attached, opened, rpc>>)
    BY DEF StartupError, Shutdown, SigInt
  <1>3. TypeOK'
    <2>1. /\ rpc' \in [CPU -> {"none", "start", "wait", "drain", "failed"}]
          /\ opened' \subseteq CPU /\ attached' \in BOOLEAN
          /\ upc' \in {"run", "exited"}
      BY <1>2 DEF IInv, TypeOK, Exit
    <2> HIDE DEF ProbeType, Record
    <2> QED
      BY <1>1, <2>1 DEF IInv, TypeOK
  <1>4. Prepared'
    BY <1>1, <1>2
       DEF IInv, Prepared, Complete, Written, List, CommMode, FiltersSet, SomeLate, Exit
  <1>5. opened' \subseteq opened /\ (opened' # {} => FiltersSet')
    BY <1>1, <1>2 DEF Exit, FiltersSet
  <1> QED
    BY <1>1, <1>3, <1>4, <1>5, OthersMove

(* The readers take what is in the buffers, and print what they take. *)
LEMMA ReaderFilter ==
  ASSUME IInv, NEW c \in CPU, ReaderStep(c)
  PROVE  /\ TypeOK' /\ Prepared' /\ Judging' /\ Buffered'
         /\ ByPrefix' /\ OnlyWantedPrinted'
  <1>0. UNCHANGED <<count, mode, names, pending, args, upc, done, asked, attached, opened,
                    probe, started, sent, overtaken, judged>>
    BY DEF ReaderStep, Wake, Register, TakeGuard, Visit, ClearReady, readerRest, mapVars,
           mainVars
  <1>1. Prepared'
    BY <1>0 DEF IInv, Prepared, Complete, Written, List, CommMode, FiltersSet, SomeLate
  <1>2. opened' # {} => FiltersSet'
    BY <1>0 DEF IInv, Buffered, FiltersSet
  <1>3. CASE Wake(c) \/ Register(c) \/ TakeGuard(c) \/ ClearReady(c)
    <2>1. UNCHANGED <<ring, read, printed, warned>>
      BY <1>3 DEF Wake, Register, TakeGuard, ClearReady
    <2>2. TypeOK'
      <3>1. edge' \in [CPU -> BOOLEAN]
        BY <1>3 DEF Wake, Register, TakeGuard, ClearReady, reactor, IInv, TypeOK
      <3>2. ready' \in [CPU -> BOOLEAN] /\ fresh' \in [CPU -> BOOLEAN]
        BY <1>3 DEF Wake, Register, TakeGuard, ClearReady, reactor, IInv, TypeOK
      <3>3. rpc' \in [CPU -> {"none", "start", "wait", "drain", "failed"}]
        BY <1>3 DEF Wake, Register, TakeGuard, ClearReady, readerVars, IInv, TypeOK
      <3>4. left' \in [CPU -> Nat]
        <4>1. Len(ring[c]) \in Nat
          BY DEF IInv, TypeOK
        <4> QED
          BY <1>3, <4>1 DEF Wake, Register, TakeGuard, ClearReady, readerVars, IInv, TypeOK
      <3> HIDE DEF ProbeType, Record
      <3> QED
        BY <1>0, <2>1, <3>1, <3>2, <3>3, <3>4 DEF IInv, TypeOK
    <2> QED
      BY <1>0, <1>1, <1>2, <2>1, <2>2, OthersMove
  <1>4. CASE Visit(c)
    <2> DEFINE r == Head(ring[c])
    <2>0. /\ ring \in [CPU -> Seq(Record)] /\ ring[c] \in Seq(Record) /\ ring[c] # <<>>
          /\ Len(ring[c]) \in Nat
      BY <1>4 DEF Visit, IInv, TypeOK
    <2>1. /\ r \in Record /\ Tail(ring[c]) \in Seq(Record)
          /\ Len(Tail(ring[c])) = Len(ring[c]) - 1
          /\ r = ring[c][1] /\ Len(ring[c]) >= 1
          /\ \A k \in 1 .. Len(Tail(ring[c])) : Tail(ring[c])[k] = ring[c][k + 1]
      BY <2>0, HeadTailProperties, EmptySeq
    <2>2. r.ev \in Event /\ r.ev.id \in Nat /\ r.lost \in Nat
      BY <2>1 DEF Record, Event
    <2> HIDE DEF r
    <2>3. /\ UNCHANGED <<edge, ready, fresh, rpc>>
          /\ read' = [read EXCEPT ![c] = @ \cup {r.ev.id}]
          /\ printed' = IF MatchesFilter(r.ev) THEN printed \cup {<<c, r.ev>>} ELSE printed
          /\ warned' = [warned EXCEPT ![c] = @ + r.lost]
          /\ ring' = [ring EXCEPT ![c] = Tail(@)]
          /\ left' = [left EXCEPT ![c] = IF @ > 0 THEN @ - 1 ELSE 0]
      BY <1>4 DEF Visit, reactor, r
    <2>4. TypeOK'
      <3>1. ring' \in [CPU -> Seq(Record)]
        BY <2>0, <2>1, <2>3
      <3>2. printed' \subseteq CPU \X Event
        <4>1. printed \subseteq CPU \X Event
          BY DEF IInv, TypeOK
        <4> QED
          BY <2>2, <2>3, <4>1
      <3>3. read' \in [CPU -> SUBSET Nat]
        <4>1. read \in [CPU -> SUBSET Nat]
          BY DEF IInv, TypeOK
        <4>2. read[c] \cup {r.ev.id} \in SUBSET Nat
          BY <2>2, <4>1
        <4> QED
          BY <2>3, <4>1, <4>2
      <3>4. warned' \in [CPU -> Nat] /\ left' \in [CPU -> Nat]
        BY <2>2, <2>3 DEF IInv, TypeOK
      <3> HIDE DEF ProbeType, Record
      <3> QED
        BY <1>0, <2>3, <3>1, <3>2, <3>3, <3>4 DEF IInv, TypeOK
    <2>5. \A m : Wanted(m)' <=> Wanted(m)
      BY <1>0 DEF Wanted, Listed, List, CommMode
    <2>6. Judging'
      BY <1>0 DEF IInv, Judging, Judged, List, CommMode, Wanted, Listed
    <2>7. Buffered'
      <3>1. ASSUME ~overtaken, NEW d \in CPU, NEW k \in 1 .. Len(ring'[d])
            PROVE  Wanted(ring'[d][k].ev.comm)
        <4>1. CASE d # c
          <5>1. ring'[d] = ring[d]
            BY <2>0, <2>3, <4>1
          <5> QED
            BY <3>1, <5>1 DEF IInv, Buffered
        <4>2. CASE d = c
          <5>1. ring'[c] = Tail(ring[c])
            BY <2>0, <2>3
          <5>2. k + 1 \in 1 .. Len(ring[c]) /\ ring'[c][k] = ring[c][k + 1]
            BY <2>0, <2>1, <3>1, <4>2, <5>1
          <5> QED
            BY <3>1, <4>2, <5>2 DEF IInv, Buffered
        <4> QED
          BY <4>1, <4>2
      <3>2. \A k : \A d : Wanted(ring'[d][k].ev.comm) <=> Wanted(ring[d][k].ev.comm)'
        BY <1>0 DEF Wanted, Listed, List, CommMode
      <3> QED
        BY <1>0, <1>2, <3>1, <3>2 DEF IInv, Buffered
    <2>8. ByPrefix'
      BY <1>0 DEF IInv, ByPrefix, Wanted, Listed, List, CommMode
    <2>9. OnlyWantedPrinted'
      <3>1. ASSUME ~overtaken, NEW e \in printed'
            PROVE  Wanted(e[2].comm) /\ MatchesFilter(e[2])
        <4>1. CASE e \in printed
          BY <3>1, <4>1 DEF IInv, OnlyWantedPrinted
        <4>2. CASE e = <<c, r.ev>> /\ MatchesFilter(r.ev)
          <5>1. 1 \in 1 .. Len(ring[c])
            BY <2>0, <2>1
          <5>2. Wanted(r.ev.comm)
            BY <2>1, <3>1, <5>1 DEF IInv, Buffered
          <5> QED
            BY <4>2, <5>2
        <4> QED
          BY <2>3, <3>1, <4>1, <4>2
      <3> QED
        BY <1>0, <3>1 DEF OnlyWantedPrinted, Wanted, Listed, List, CommMode, MatchesFilter
    <2> QED
      BY <1>1, <2>4, <2>6, <2>7, <2>8, <2>9
  <1> QED
    BY <1>3, <1>4 DEF ReaderStep

-----------------------------------------------------------------------------
(* Every event is in one place.                                              *)

(* A step that moves no record; a probe that it starts has a number of its    *)
(* own.                                                                       *)
LEMMA NumbersKept ==
  ASSUME IInv, UNCHANGED <<ring, pending, read, warned, sent>>,
         \A c \in CPU :
            \/ started'[c] = started[c] /\ probe'[c].pc = "idle"
            \/ /\ started'[c] = started[c] /\ probe[c].pc # "idle"
               /\ probe'[c].ev = probe[c].ev
            \/ started'[c] = started[c] + 1 /\ probe'[c].ev.id = started[c] + 1
  PROVE  Numbered' /\ LossAccounted'
  <1>1. ASSUME NEW c \in CPU
        PROVE  /\ sent[c] \subseteq 1 .. started'[c]
               /\ probe'[c].pc # "idle" =>
                      /\ probe'[c].ev.id = started'[c] /\ started'[c] > 0
                      /\ started'[c] \notin sent[c]
    <2>1. started[c] \in Nat /\ sent[c] \subseteq 1 .. started[c]
      BY DEF IInv, TypeOK, Numbered
    <2>2. started[c] + 1 \notin sent[c] /\ sent[c] \subseteq 1 .. started[c] + 1
      BY <2>1
    <2> QED
      BY <2>1, <2>2 DEF IInv, Numbered
  <1>2. Numbered'
    BY <1>1 DEF IInv, Numbered
  <1>3. LossAccounted'
    BY DEF IInv, LossAccounted, Losses
  <1> QED
    BY <1>2, <1>3

(* A probe on its way to its output leaves the accounts alone.              *)
LEMMA ProbeNumbers ==
  ASSUME IInv, NEW c \in CPU,
         \/ \E e \in Programs : Enter(c, e)
         \/ ReadCount(c) \/ ReadMode(c) \/ Match(c)
  PROVE  Numbered' /\ LossAccounted'
  <1>1. UNCHANGED <<ring, pending, read, warned, sent>>
    BY DEF Enter, ReadCount, ReadMode, Match, probeRest, bufVars, histVars
  <1>2. probe \in [CPU -> ProbeType] /\ started \in [CPU -> Nat]
    BY DEF IInv, TypeOK
  <1> DEFINE Others == \A d \in CPU \ {c} : probe'[d] = probe[d] /\ started'[d] = started[d]
             New == started'[c] = started[c] + 1 /\ probe'[c].ev.id = started[c] + 1
             Old == /\ started'[c] = started[c] /\ probe[c].pc # "idle"
                    /\ probe'[c].pc = "idle" \/ probe'[c].ev = probe[c].ev
  <1>3. Others /\ (New \/ Old)
    <2>1. ASSUME NEW e \in Programs, Enter(c, e)
          PROVE  Others /\ New
      <3>1. /\ started' = [started EXCEPT ![c] = @ + 1]
            /\ probe' = [probe EXCEPT ![c] =
                   [IdleProbe EXCEPT !.pc = "count", !.late = FiltersSet,
                     !.ev = [id |-> started[c] + 1, comm |-> e.comm, hit |-> e.hit]]]
        BY <2>1 DEF Enter, Becomes
      <3> QED
        BY <1>2, <3>1 DEF IdleProbe
    <2>2. ASSUME NEW p, Becomes(c, p), started' = started, probe[c].pc # "idle",
                 p.pc = "idle" \/ p.ev = probe[c].ev
          PROVE  Others /\ Old
      BY <1>2, <2>2 DEF Becomes
    <2>3. ASSUME NEW pass, Decide(c, pass), started' = started, probe[c].pc # "idle"
          PROVE  Others /\ Old
      <3> DEFINE p == IF pass THEN [probe[c] EXCEPT !.pc = "output"] ELSE IdleProbe
      <3>1. p.pc = "idle" \/ p.ev = probe[c].ev
        BY <1>2, IdleProbeType DEF ProbeType
      <3>2. Becomes(c, p)
        BY <2>3 DEF Decide
      <3> HIDE DEF p
      <3> QED
        BY <2>2, <2>3, <3>1, <3>2
    <2>4. CASE ReadCount(c) \/ ReadMode(c) \/ Match(c)
      <3>1. started' = started /\ probe[c].pc # "idle"
        BY <2>4 DEF ReadCount, ReadMode, Match, probeRest
      <3>2. \/ \E pass : Decide(c, pass)
            \/ Becomes(c, [probe[c] EXCEPT !.pc = "mode", !.n = count])
            \/ Becomes(c, [probe[c] EXCEPT !.pc = "match", !.mode = mode])
            \/ Becomes(c, [probe[c] EXCEPT !.i = @ + 1])
        BY <2>4 DEF ReadCount, ReadMode, Match
      <3>3. ASSUME NEW p, Becomes(c, p), p.ev = probe[c].ev PROVE Others /\ Old
        BY <2>2, <3>1, <3>3
      <3>4. /\ [probe[c] EXCEPT !.pc = "mode", !.n = count].ev = probe[c].ev
            /\ [probe[c] EXCEPT !.pc = "match", !.mode = mode].ev = probe[c].ev
            /\ [probe[c] EXCEPT !.i = @ + 1].ev = probe[c].ev
        BY <1>2 DEF ProbeType
      <3> QED
        BY <2>3, <3>1, <3>2, <3>3, <3>4
    <2> QED
      BY <2>1, <2>4
  <1> QED
    BY <1>1, <1>3, NumbersKept

(* Events sent and read are finite sets, so that they can be counted.       *)
LEMMA FiniteIds ==
  ASSUME IInv, NEW c \in CPU
  PROVE  /\ IsFiniteSet(sent[c]) /\ IsFiniteSet(read[c])
         /\ Cardinality(sent[c]) \in Nat /\ Cardinality(read[c]) \in Nat
  <1>1. started[c] \in Nat /\ sent[c] \subseteq 1 .. started[c] /\ read[c] \subseteq sent[c]
    BY DEF IInv, TypeOK, Numbered
  <1>2. IsFiniteSet(1 .. started[c])
    BY <1>1, FS_Interval
  <1>3. IsFiniteSet(sent[c]) /\ IsFiniteSet(read[c])
    BY <1>1, <1>2, FS_Subset
  <1> QED
    BY <1>3, FS_CardinalityType

(* What a probe hands over goes into the buffer, or is one more loss. *)
LEMMA OutputNumbers ==
  ASSUME IInv, NEW c \in CPU, Output(c)
  PROVE  Numbered' /\ LossAccounted'
  <1> DEFINE id == probe[c].ev.id
             r  == [ev |-> probe[c].ev, lost |-> pending[c]]
             n  == Len(ring[c])
  <1>0. /\ UNCHANGED <<started, read, warned>> /\ probe[c].pc = "output"
        /\ probe' = [probe EXCEPT ![c] = IdleProbe] /\ probe \in [CPU -> ProbeType]
        /\ ring \in [CPU -> Seq(Record)] /\ pending \in [CPU -> Nat]
        /\ sent \in [CPU -> SUBSET Nat] /\ warned \in [CPU -> Nat]
        /\ started[c] \in Nat /\ started[c] > 0 /\ id = started[c] /\ id \notin sent[c]
        /\ sent[c] \subseteq 1 .. started[c] /\ read[c] \subseteq sent[c]
    BY DEF Output, Becomes, IInv, TypeOK, Numbered
  <1>1. r \in Record
    <2>1. probe[c] \in ProbeType /\ pending[c] \in Nat
      BY <1>0
    <2> QED
      BY <2>1 DEF ProbeType, Record
  <1>2. probe'[c].pc = "idle" /\ \A d \in CPU \ {c} : probe'[d] = probe[d]
    BY <1>0, IdleProbeType
  <1>3. CASE c \notin opened
    <2>1. UNCHANGED <<ring, pending, sent>>
      BY <1>3 DEF Output, bufVars
    <2>2. \A d \in CPU : \/ started'[d] = started[d] /\ probe'[d].pc = "idle"
                       \/ /\ started'[d] = started[d] /\ probe[d].pc # "idle"
                          /\ probe'[d].ev = probe[d].ev
      BY <1>0, <1>2
    <2> QED
      BY <1>0, <2>1, <2>2, NumbersKept
  <1>4. CASE c \in opened
    <2>0. /\ ring[c] \in Seq(Record) /\ pending[c] \in Nat /\ warned[c] \in Nat /\ n \in Nat
          /\ LostIn(ring[c]) \in Nat
          /\ IsFiniteSet(sent[c]) /\ Cardinality(sent[c]) \in Nat
          /\ Cardinality(read[c]) \in Nat
          /\ Cardinality(sent[c]) = Cardinality(read[c]) + n + Losses(c)
      BY <1>0, FiniteIds, LostNat DEF IInv, LossAccounted
    <2>1. sent'[c] = sent[c] \cup {id} /\ \A d \in CPU \ {c} : sent'[d] = sent[d]
      <3>1. sent' = [sent EXCEPT ![c] = @ \cup {id}]
        BY <1>4 DEF Output
      <3> HIDE DEF id
      <3> QED
        BY <1>0, <3>1
    <2>2. Cardinality(sent'[c]) = Cardinality(sent[c]) + 1
      <3> HIDE DEF id
      <3>1. Cardinality(sent[c] \cup {id}) = Cardinality(sent[c]) + 1
        <4>1. IsFiniteSet(sent[c]) /\ id \notin sent[c]
          BY <1>0, <2>0
        <4> QED
          BY <4>1, FS_AddElement
      <3> QED
        BY <2>1, <3>1
    <2>3. /\ ring'[c] = ring[c] \/ ring'[c] = Append(ring[c], r)
          /\ \A d \in CPU \ {c} : ring'[d] = ring[d] /\ pending'[d] = pending[d]
          /\ Len(ring'[c]) + pending'[c] + warned'[c] + LostIn(ring'[c])
             = n + pending[c] + warned[c] + LostIn(ring[c]) + 1
      <3>1. CASE n < RingSize
        <4>1. /\ ring' = [ring EXCEPT ![c] = Append(@, r)]
              /\ pending' = [pending EXCEPT ![c] = 0]
          <5>1. Len(ring[c]) < RingSize /\ ~(Len(ring[c]) = RingSize)
            BY <2>0, <3>1, ExecTraceAssumption
          <5> QED
            BY <1>4, <5>1 DEF Output
        <4>2. ring'[c] = Append(ring[c], r) /\ pending'[c] = 0
          BY <1>0, <4>1
        <4>3. LostIn(ring'[c]) = LostIn(ring[c]) + pending[c]
          BY <1>1, <2>0, <4>2, LostAppend
        <4>4. Len(ring'[c]) = n + 1
          BY <1>1, <2>0, <4>2
        <4>5. \A d \in CPU \ {c} : ring'[d] = ring[d] /\ pending'[d] = pending[d]
          BY <1>0, <4>1
        <4>6. warned'[c] = warned[c] /\ warned[c] \in Nat
          BY <1>0
        <4> HIDE DEF n, r
        <4>7. Len(ring'[c]) + pending'[c] + warned'[c] + LostIn(ring'[c])
              = n + pending[c] + warned[c] + LostIn(ring[c]) + 1
          <5>0. n \in Nat /\ pending[c] \in Nat /\ warned[c] \in Nat /\ LostIn(ring[c]) \in Nat
            BY <2>0
          <5>1. (n + 1) + 0 + warned[c] + (LostIn(ring[c]) + pending[c])
                = n + pending[c] + warned[c] + LostIn(ring[c]) + 1
            BY <5>0
          <5> QED
            BY <4>2, <4>3, <4>4, <4>6, <5>1
        <4> QED
          BY <4>2, <4>5, <4>7
      <3>2. CASE ~(n < RingSize)
        <4>1. ring' = ring /\ pending' = [pending EXCEPT ![c] = @ + 1]
          BY <1>4, <3>2 DEF Output
        <4>2. pending'[c] = pending[c] + 1 /\ \A d \in CPU \ {c} : pending'[d] = pending[d]
          BY <1>0, <4>1
        <4> HIDE DEF r
        <4> QED
          BY <1>0, <2>0, <4>1, <4>2
      <3> QED
        BY <3>1, <3>2
    <2>4. LossAccounted'
      <3>1. Cardinality(sent'[c]) = Cardinality(read'[c]) + Len(ring'[c]) + Losses(c)'
        <4>1. Losses(c)' = pending'[c] + warned'[c] + LostIn(ring'[c])
          BY DEF Losses
        <4>2. /\ pending'[c] \in Nat /\ LostIn(ring'[c]) \in Nat /\ Len(ring'[c]) \in Nat
              /\ Len(ring'[c]) + pending'[c] + warned[c] + LostIn(ring'[c])
                 = n + pending[c] + warned[c] + LostIn(ring[c]) + 1
          <5>1. TypeOK'
            BY OutputFilter
          <5>2. ring'[c] \in Seq(Record) /\ pending'[c] \in Nat
            BY <5>1 DEF TypeOK
          <5> QED
            BY <1>0, <2>3, <5>2, LostNat
        <4>3. Losses(c) = pending[c] + warned[c] + LostIn(ring[c])
          BY DEF Losses
        <4>4. warned'[c] = warned[c] /\ Cardinality(read'[c]) = Cardinality(read[c])
          BY <1>0
        <4>5. Cardinality(sent[c]) + 1
              = Cardinality(read[c]) + (n + pending[c] + warned[c] + LostIn(ring[c]) + 1)
          <5> HIDE DEF n
          <5>1. /\ n \in Nat /\ pending[c] \in Nat /\ warned[c] \in Nat
                /\ LostIn(ring[c]) \in Nat /\ Cardinality(read[c]) \in Nat
            BY <2>0
          <5>2. Cardinality(sent[c])
                = Cardinality(read[c]) + n + (pending[c] + warned[c] + LostIn(ring[c]))
            BY <2>0, <4>3
          <5>3. (Cardinality(read[c]) + n + (pending[c] + warned[c] + LostIn(ring[c]))) + 1
                = Cardinality(read[c]) + (n + pending[c] + warned[c] + LostIn(ring[c]) + 1)
            BY <5>1
          <5> QED
            BY <5>2, <5>3
        <4> DEFINE k == Len(ring'[c])
        <4>6. /\ k \in Nat /\ k + pending'[c] + warned[c] + LostIn(ring'[c])
                              = n + pending[c] + warned[c] + LostIn(ring[c]) + 1
          BY <4>2
        <4>7. pending'[c] \in Nat /\ LostIn(ring'[c]) \in Nat
          BY <4>2
        <4> HIDE DEF k, n
        <4>8. Cardinality(sent'[c])
              = Cardinality(read[c]) + (k + pending'[c] + warned[c] + LostIn(ring'[c]))
          BY <2>2, <4>5, <4>6
        <4>9. Cardinality(read[c]) + (k + pending'[c] + warned[c] + LostIn(ring'[c]))
              = Cardinality(read[c]) + k + (pending'[c] + warned[c] + LostIn(ring'[c]))
          <5>1. /\ Cardinality(read[c]) \in Nat /\ warned[c] \in Nat /\ k \in Nat
                /\ pending'[c] \in Nat /\ LostIn(ring'[c]) \in Nat
            BY <2>0, <4>6, <4>7
          <5> QED
            BY <5>1
        <4>10. Cardinality(sent'[c])
               = Cardinality(read[c]) + k + (pending'[c] + warned[c] + LostIn(ring'[c]))
          BY <4>8, <4>9
        <4> QED
          BY <4>1, <4>4, <4>10 DEF k
      <3>2. ASSUME NEW d \in CPU \ {c}
            PROVE  Cardinality(sent'[d]) = Cardinality(read'[d]) + Len(ring'[d]) + Losses(d)'
        <4>1. /\ sent'[d] = sent[d] /\ ring'[d] = ring[d] /\ pending'[d] = pending[d]
              /\ read' = read /\ warned' = warned
          BY <1>0, <2>1, <2>3
        <4>2. Losses(d)' = Losses(d)
          BY <4>1 DEF Losses
        <4> QED
          BY <4>1, <4>2 DEF IInv, LossAccounted
      <3> QED
        BY <3>1, <3>2 DEF LossAccounted
    <2>5. Numbered'
      <3>1. ASSUME NEW d \in CPU \ {c} PROVE
               /\ sent'[d] = sent[d] /\ ring'[d] = ring[d] /\ read'[d] = read[d]
               /\ started'[d] = started[d] /\ probe'[d] = probe[d]
        BY <1>0, <1>2, <2>1, <2>3
      <3>2. sent'[c] \subseteq 1 .. started'[c] /\ read'[c] \subseteq sent'[c]
        BY <1>0, <2>1
      <3>3. /\ \A k \in 1 .. Len(ring'[c]) : ring'[c][k].ev.id \in sent'[c] \ read'[c]
            /\ \A k, l \in 1 .. Len(ring'[c]) :
                   ring'[c][k].ev.id = ring'[c][l].ev.id => k = l
        <4>1. /\ \A k \in 1 .. n : ring[c][k].ev.id \in sent[c] \ read[c]
              /\ \A k, l \in 1 .. n : ring[c][k].ev.id = ring[c][l].ev.id => k = l
          BY DEF IInv, Numbered
        <4>2. CASE ring'[c] = ring[c]
          BY <1>0, <2>1, <4>1, <4>2
        <4>3. CASE ring'[c] = Append(ring[c], r)
          <5>1. /\ Len(ring'[c]) = n + 1 /\ ring'[c][n + 1] = r
                /\ \A k \in 1 .. n : ring'[c][k] = ring[c][k]
            BY <1>1, <2>0, <4>3
          <5>2. r.ev.id = id
            OBVIOUS
          <5> HIDE DEF r, n
          <5>3. \A k \in 1 .. n + 1 : k = n + 1 \/ k \in 1 .. n
            BY <2>0
          <5>4. /\ \A k \in 1 .. n : ring'[c][k].ev.id \in sent[c] \ read[c]
                /\ ring'[c][n + 1].ev.id = id /\ id \notin sent[c] /\ id \notin read[c]
            BY <1>0, <4>1, <5>1, <5>2
          <5>5. ASSUME NEW k \in 1 .. n + 1
                PROVE  ring'[c][k].ev.id \in sent'[c] \ read'[c]
            BY <1>0, <2>1, <5>3, <5>4
          <5>6. ASSUME NEW k \in 1 .. n + 1, NEW l \in 1 .. n + 1,
                       ring'[c][k].ev.id = ring'[c][l].ev.id
                PROVE  k = l
            <6>1. CASE k \in 1 .. n /\ l \in 1 .. n
              BY <4>1, <5>1, <5>6, <6>1
            <6>2. CASE k = n + 1 /\ l \in 1 .. n
              BY <5>4, <5>6, <6>2
            <6>3. CASE k \in 1 .. n /\ l = n + 1
              BY <5>4, <5>6, <6>3
            <6> QED
              BY <5>3, <6>1, <6>2, <6>3
          <5> QED
            BY <5>1, <5>5, <5>6
        <4> QED
          BY <2>3, <4>2, <4>3
      <3> HIDE DEF id, r, n
      <3>4. ASSUME NEW d \in CPU
            PROVE  /\ sent'[d] \subseteq 1 .. started'[d] /\ read'[d] \subseteq sent'[d]
                   /\ probe'[d].pc # "idle" =>
                          /\ probe'[d].ev.id = started'[d] /\ started'[d] > 0
                          /\ started'[d] \notin sent'[d]
                   /\ \A k \in 1 .. Len(ring'[d]) : ring'[d][k].ev.id \in sent'[d] \ read'[d]
                   /\ \A k, l \in 1 .. Len(ring'[d]) :
                          ring'[d][k].ev.id = ring'[d][l].ev.id => k = l
        <4>1. CASE d = c
          BY <1>2, <3>2, <3>3, <4>1
        <4>2. CASE d # c
          BY <3>1, <4>2 DEF IInv, Numbered
        <4> QED
          BY <4>1, <4>2
      <3> QED
        BY <3>4 DEF Numbered
    <2> QED
      BY <2>4, <2>5
  <1> QED
    BY <1>3, <1>4

(* A record that is read leaves the buffer, and its losses are reported. *)
LEMMA VisitNumbers ==
  ASSUME IInv, NEW c \in CPU, Visit(c)
  PROVE  Numbered' /\ LossAccounted'
  <1> DEFINE r  == Head(ring[c])
             id == r.ev.id
             t  == Tail(ring[c])
  <1>0. /\ UNCHANGED <<started, sent, pending, probe>>
        /\ ring \in [CPU -> Seq(Record)] /\ read \in [CPU -> SUBSET Nat]
        /\ warned \in [CPU -> Nat] /\ pending[c] \in Nat
        /\ ring[c] \in Seq(Record) /\ ring[c] # <<>> /\ Len(ring[c]) \in Nat
    BY DEF Visit, readerRest, IInv, TypeOK
  <1>1. /\ r \in Record /\ t \in Seq(Record) /\ Len(t) = Len(ring[c]) - 1
        /\ r = ring[c][1] /\ Len(ring[c]) >= 1
        /\ \A k \in 1 .. Len(t) : t[k] = ring[c][k + 1]
    BY <1>0, HeadTailProperties, EmptySeq
  <1>2. r.lost \in Nat
    BY <1>1 DEF Record
  <1> HIDE DEF r, t
  <1>3. /\ ring'[c] = t /\ read'[c] = read[c] \cup {id} /\ warned'[c] = warned[c] + r.lost
        /\ \A d \in CPU \ {c} : ring'[d] = ring[d] /\ read'[d] = read[d] /\ warned'[d] = warned[d]
    <2>1. /\ ring' = [ring EXCEPT ![c] = t]
          /\ read' = [read EXCEPT ![c] = @ \cup {id}]
          /\ warned' = [warned EXCEPT ![c] = @ + r.lost]
      BY DEF Visit, r, t
    <2> HIDE DEF id
    <2> QED
      BY <1>0, <2>1
  <1>4. /\ \A k \in 1 .. Len(ring[c]) : ring[c][k].ev.id \in sent[c] \ read[c]
        /\ \A k, l \in 1 .. Len(ring[c]) : ring[c][k].ev.id = ring[c][l].ev.id => k = l
        /\ read[c] \subseteq sent[c]
    BY DEF IInv, Numbered
  <1>5. id \in sent[c] /\ id \notin read[c]
    <2>1. 1 \in 1 .. Len(ring[c])
      BY <1>0, <1>1
    <2> QED
      BY <1>1, <1>4, <2>1
  <1>6. Numbered'
    <2>1. /\ \A k \in 1 .. Len(t) : t[k].ev.id \in sent[c] \ (read[c] \cup {id})
          /\ \A k, l \in 1 .. Len(t) : t[k].ev.id = t[l].ev.id => k = l
      <3>1. ASSUME NEW k \in 1 .. Len(t)
            PROVE  /\ k + 1 \in 1 .. Len(ring[c]) /\ 1 \in 1 .. Len(ring[c]) /\ k + 1 # 1
                   /\ t[k] = ring[c][k + 1]
        BY <1>0, <1>1
      <3>2. ASSUME NEW k \in 1 .. Len(t) PROVE t[k].ev.id \in sent[c] \ (read[c] \cup {id})
        <4>1. /\ k + 1 \in 1 .. Len(ring[c]) /\ 1 \in 1 .. Len(ring[c]) /\ k + 1 # 1
              /\ t[k] = ring[c][k + 1]
          BY <3>1
        <4>2. ring[c][k + 1].ev.id # ring[c][1].ev.id
          BY <1>4, <4>1
        <4>3. ring[c][k + 1].ev.id \in sent[c] \ read[c]
          BY <1>4, <4>1
        <4> QED
          BY <1>1, <4>1, <4>2, <4>3
      <3>3. ASSUME NEW k \in 1 .. Len(t), NEW l \in 1 .. Len(t), t[k].ev.id = t[l].ev.id
            PROVE  k = l
        <4>1. /\ k + 1 \in 1 .. Len(ring[c]) /\ l + 1 \in 1 .. Len(ring[c])
              /\ ring[c][k + 1].ev.id = ring[c][l + 1].ev.id
          BY <3>1, <3>3
        <4>2. k + 1 = l + 1
          BY <1>4, <4>1
        <4> QED
          BY <4>2
      <3> QED
        BY <3>2, <3>3
    <2>2. read'[c] \subseteq sent[c]
      BY <1>3, <1>4, <1>5
    <2> HIDE DEF id
    <2>3. /\ read'[c] \subseteq sent'[c]
          /\ \A k \in 1 .. Len(ring'[c]) : ring'[c][k].ev.id \in sent'[c] \ read'[c]
          /\ \A k, l \in 1 .. Len(ring'[c]) :
                 ring'[c][k].ev.id = ring'[c][l].ev.id => k = l
      BY <1>0, <1>3, <2>1, <2>2
    <2>4. ASSUME NEW d \in CPU
          PROVE  /\ sent'[d] \subseteq 1 .. started'[d]
                 /\ probe'[d].pc # "idle" =>
                        /\ probe'[d].ev.id = started'[d] /\ started'[d] > 0
                        /\ started'[d] \notin sent'[d]
      BY <1>0 DEF IInv, Numbered
    <2>5. ASSUME NEW d \in CPU \ {c}
          PROVE  /\ read'[d] \subseteq sent'[d]
                 /\ \A k \in 1 .. Len(ring'[d]) : ring'[d][k].ev.id \in sent'[d] \ read'[d]
                 /\ \A k, l \in 1 .. Len(ring'[d]) :
                        ring'[d][k].ev.id = ring'[d][l].ev.id => k = l
      <3>1. ring'[d] = ring[d] /\ read'[d] = read[d] /\ sent' = sent
        BY <1>0, <1>3
      <3> QED
        BY <3>1 DEF IInv, Numbered
    <2> QED
      BY <2>3, <2>4, <2>5 DEF Numbered
  <1>7. LossAccounted'
    <2>1. Cardinality(read'[c]) = Cardinality(read[c]) + 1
      <3> HIDE DEF id
      <3>1. Cardinality(read[c] \cup {id}) = Cardinality(read[c]) + 1
        BY <1>5, FiniteIds, FS_AddElement
      <3> QED
        BY <1>3, <3>1
    <2>2. LostIn(ring[c]) = r.lost + LostIn(t) /\ LostIn(t) \in Nat
      BY <1>0, <1>1, LostTail, LostNat DEF r, t
    <2>3. Cardinality(sent[c]) = Cardinality(read[c]) + Len(ring[c]) + Losses(c)
      BY DEF IInv, LossAccounted
    <2>4. /\ Losses(c) = pending[c] + warned[c] + LostIn(ring[c])
          /\ Losses(c)' = pending[c] + (warned[c] + r.lost) + LostIn(t)
      BY <1>0, <1>3 DEF Losses
    <2>5. Losses(c)' = Losses(c) /\ Losses(c) \in Nat
      BY <1>0, <1>2, <2>2, <2>4
    <2>6. Cardinality(sent[c]) = Cardinality(read'[c]) + Len(ring'[c]) + Losses(c)'
      <3>1. Cardinality(read[c]) \in Nat
        BY FiniteIds
      <3>2. Len(ring'[c]) = Len(ring[c]) - 1 /\ Len(ring'[c]) + 1 = Len(ring[c])
        BY <1>0, <1>1, <1>3
      <3>3. Cardinality(read[c]) + Len(ring[c]) = Cardinality(read'[c]) + Len(ring'[c])
        BY <1>0, <2>1, <3>1, <3>2
      <3> QED
        BY <2>3, <2>5, <3>3
    <2>7. ASSUME NEW d \in CPU \ {c}
          PROVE  Cardinality(sent'[d]) = Cardinality(read'[d]) + Len(ring'[d]) + Losses(d)'
      <3>1. /\ sent'[d] = sent[d] /\ ring'[d] = ring[d] /\ pending'[d] = pending[d]
            /\ read'[d] = read[d] /\ warned'[d] = warned[d]
        BY <1>0, <1>3
      <3>2. Losses(d)' = Losses(d)
        BY <3>1 DEF Losses
      <3> QED
        BY <3>1, <3>2 DEF IInv, LossAccounted
    <2> QED
      BY <1>0, <2>6, <2>7 DEF LossAccounted
  <1> QED
    BY <1>6, <1>7

(* The other steps move no record. *)
LEMMA OtherNumbers ==
  ASSUME IInv,
         \/ \E c \in CPU : Wake(c) \/ Register(c) \/ TakeGuard(c) \/ ClearReady(c)
         \/ MainStep \/ SigInt
  PROVE  Numbered' /\ LossAccounted'
  <1>1. UNCHANGED <<ring, pending, read, warned, sent, started, probe>>
    <2>1. CASE \E c \in CPU : Wake(c) \/ Register(c) \/ TakeGuard(c) \/ ClearReady(c)
      BY <2>1 DEF Wake, Register, TakeGuard, ClearReady, readerRest
    <2>2. CASE MainStep \/ SigInt
      BY <2>2 DEF MainStep, CheckArgs, Attach, SetCount, SetMode, SetName, NamesSet,
                  AllOpen, StartupError, CtrlC, Shutdown, OpenBuffer, SigInt, mainRest,
                  bufVars, histVars
    <2> QED
      BY <2>1, <2>2
  <1> QED
    BY <1>1, NumbersKept

-----------------------------------------------------------------------------
(* The theorems.                                                             *)

LEMMA InitInv == Init => IInv
  <1> SUFFICES ASSUME Init PROVE IInv
    OBVIOUS
  <1>1. /\ MaxFilters \in Nat /\ <<>> \in Seq(Record) /\ args \in CommandLines
        /\ IdleProbe \in ProbeType /\ IdleProbe.pc = "idle" /\ ~IdleProbe.late
    BY ExecTraceAssumption, IdleProbeType DEF Init
  <1>2. TypeOK
    <2>1. /\ count \in 0 .. MaxFilters /\ mode \in 0 .. 2 /\ done \in 0 .. MaxFilters
          /\ names \in [0 .. MaxFilters - 1 -> SUBSET CommBytes]
      BY <1>1 DEF Init
    <2>2. ring \in [CPU -> Seq(Record)] /\ probe \in [CPU -> ProbeType]
      <3> HIDE DEF Record, ProbeType
      <3> QED
        BY <1>1 DEF Init
    <2> HIDE DEF Record, ProbeType
    <2> QED
      BY <1>1, <2>1, <2>2 DEF Init, TypeOK
  <1>3. Prepared
    BY <1>1 DEF Init, Prepared, FiltersSet, SomeLate
  <1>4. Judging
    BY <1>1 DEF Init, Judging, Judged
  <1>5. Buffered /\ Numbered
    BY <1>1 DEF Init, Buffered, Numbered, FiltersSet
  <1>6. ByPrefix /\ OnlyWantedPrinted
    BY DEF Init, ByPrefix, OnlyWantedPrinted
  <1>7. LossAccounted
    <2>1. ASSUME NEW c \in CPU
          PROVE  Cardinality(sent[c]) = Cardinality(read[c]) + Len(ring[c]) + Losses(c)
      <3>1. /\ sent[c] = {} /\ read[c] = {} /\ ring[c] = <<>> /\ pending[c] = 0
            /\ warned[c] = 0
        BY DEF Init
      <3>2. Cardinality({}) = 0 /\ Len(<<>>) = 0
        BY FS_EmptySet
      <3> QED
        BY <3>1, <3>2, LostEmpty DEF Losses
    <2> QED
      BY <2>1 DEF LossAccounted
  <1> QED
    BY <1>2, <1>3, <1>4, <1>5, <1>6, <1>7 DEF IInv

(* Every step preserves the invariant.                                      *)
LEMMA NextInv == IInv /\ [Next]_vars => IInv'
  <1> SUFFICES ASSUME IInv, [Next]_vars PROVE IInv'
    OBVIOUS
  <1> DEFINE Filtering == /\ TypeOK' /\ Prepared' /\ Judging' /\ Buffered'
                          /\ ByPrefix' /\ OnlyWantedPrinted'
             Numbering == Numbered' /\ LossAccounted'
  <1>1. Filtering
    <2>1. CASE Next
      <3>1. ASSUME NEW c \in CPU, ProbeStep(c) \/ ReaderStep(c) PROVE Filtering
        BY <3>1, ReadFilter, MatchFilter, OutputFilter, ReaderFilter DEF ProbeStep
      <3>2. ASSUME NEW c \in CPU, NEW e \in Programs, Enter(c, e) PROVE Filtering
        BY <3>2, EnterFilter
      <3>3. CASE MainStep \/ SigInt
        BY <3>3, StartupFilter, OpenFilter, ExitFilter DEF MainStep
      <3> QED
        BY <2>1, <3>1, <3>2, <3>3 DEF Next
    <2>2. CASE UNCHANGED vars
      <3>1. UNCHANGED <<count, mode, names, ring, pending, edge, ready, fresh, rpc, left,
                        args, upc, done, asked, attached, opened, probe, started, read,
                        printed, warned, sent, overtaken, judged>>
        BY <2>2 DEF vars, mapVars, bufVars, reactor, readerVars, mainVars, histVars
      <3>2. TypeOK'
        <4> HIDE DEF ProbeType, Record
        <4> QED
          BY <3>1 DEF IInv, TypeOK
      <3>3. Prepared'
        BY <3>1 DEF IInv, Prepared, Complete, Written, List, CommMode, FiltersSet, SomeLate
      <3>4. opened' # {} => FiltersSet'
        BY <3>1 DEF IInv, Buffered, FiltersSet
      <3> QED
        BY <3>1, <3>2, <3>3, <3>4, OthersMove
    <2> QED
      BY <2>1, <2>2
  <1>2. Numbering
    <2>1. CASE Next
      <3>1. ASSUME NEW c \in CPU, ProbeStep(c) PROVE Numbering
        BY <3>1, ProbeNumbers, OutputNumbers DEF ProbeStep
      <3>2. ASSUME NEW c \in CPU, NEW e \in Programs, Enter(c, e) PROVE Numbering
        BY <3>2, ProbeNumbers
      <3>3. ASSUME NEW c \in CPU, ReaderStep(c) PROVE Numbering
        BY <3>3, VisitNumbers, OtherNumbers DEF ReaderStep
      <3>4. CASE MainStep \/ SigInt
        BY <3>4, OtherNumbers
      <3> QED
        BY <2>1, <3>1, <3>2, <3>3, <3>4 DEF Next
    <2>2. CASE UNCHANGED vars
      <3>1. UNCHANGED <<ring, pending, read, warned, sent, started, probe>>
        BY <2>2 DEF vars, bufVars, histVars
      <3> QED
        BY <3>1, NumbersKept
    <2> QED
      BY <2>1, <2>2
  <1> QED
    BY <1>1, <1>2 DEF IInv

(* The maps, the probes and the buffers stay in step, whatever the order in   *)
(* which the start-up, the tracepoint and the readers take their turns (run,  *)
(* try_exec_trace, poll_cpu).                                                 *)
THEOREM Invariant == Spec => []IInv
  BY InitInv, NextInv, PTL DEF Spec

(* Where no listed name is just the beginning of m, the rule of the code and  *)
(* that of the help text agree.                                               *)
LEMMA AskedByPrefix ==
  ASSUME TypeOK, NEW m \in Comm, ~OnlyBegins(m)
  PROVE  Wanted(m) <=> Asked(m)
  <1>1. m \in Seq(Byte)
    BY ExecTraceAssumption
  <1>2. IsPrefix(m, m)
    BY <1>1 DEF IsPrefix
  <1>3. m \in Range(List) => Listed(m)
    BY <1>2 DEF Listed, Range
  <1>4. Listed(m) <=> m \in Range(List)
    BY <1>3 DEF OnlyBegins, Listed
  <1> QED
    BY <1>4 DEF Wanted, Asked

(* A probe that began under the complete filter lets a task through exactly    *)
(* when the command line asks for it, unless a listed name is just the         *)
(* beginning of the task's (passes_comm_filter).                               *)
THEOREM FilterSafety == Spec => []FilterExact
  <1>1. IInv => FilterExact
    <2> SUFFICES ASSUME IInv, NEW j \in judged, ~OnlyBegins(j[1])
                 PROVE  j[2] <=> Asked(j[1])
      BY DEF FilterExact
    <2>1. TypeOK /\ j[1] \in Comm /\ (j[2] <=> Wanted(j[1]))
      BY DEF IInv, TypeOK, ByPrefix
    <2>2. Wanted(j[1]) <=> Asked(j[1])
      BY <2>1, AskedByPrefix
    <2> QED
      BY <2>1, <2>2
  <1> QED
    BY <1>1, Invariant, PTL

(* Nothing is printed that was not asked for, unless a probe was running while *)
(* the buffers were opened (run, poll_cpu).                                    *)
THEOREM OutputSafety == Spec => []OnlyWantedPrinted
  <1>1. IInv => OnlyWantedPrinted
    BY DEF IInv
  <1> QED
    BY <1>1, Invariant, PTL

(* What a probe handed over has been read, waits in the buffer, or is part of  *)
(* a loss that has been or will be reported (try_exec_trace, poll_cpu).        *)
THEOREM EventsAccounted == Spec => []LossAccounted
  <1>1. IInv => LossAccounted
    BY DEF IInv
  <1> QED
    BY <1>1, Invariant, PTL
=============================================================================
