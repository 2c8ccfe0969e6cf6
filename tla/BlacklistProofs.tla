--------------------------- MODULE BlacklistProofs ---------------------------
(***************************************************************************)
(* What TLAPS proves of `rstrace ip-blacklist`.                             *)
(*                                                                         *)
(* Of XdpBlacklist, for any number of CPUs and packets, any width of an     *)
(* address, any file and command line: what is blocked, what is dropped,    *)
(* what is counted and printed, and what ip-blacklist-test says.  What the  *)
(* recursive functions of the list and the trie compute is not given by     *)
(* their definitions alone: each is shown to be a fold, which exists by     *)
(* induction on the steps done, and whose properties each step keeps.       *)
(*                                                                         *)
(* Of BlacklistHost, at the end, for any number of processes, writers and   *)
(* versions, and files of any number of pieces: who has the interface, and  *)
(* what the writers of the file leave behind.                               *)
(***************************************************************************)
EXTENDS XdpBlacklist, BlacklistHost, CounterMapsProofs, TLAPS, WellFoundedInduction,
        SequenceTheorems

(* Preliminaries: numbers, and folds over them.                              *)

(* A set of natural numbers has a least element. *)
LEMMA LeastElement ==
  ASSUME NEW T, T \subseteq Nat, T # {}
  PROVE  \E x \in T : \A y \in T : x <= y
  <1> DEFINE R == OpToRel(<, Nat)
  <1>1. IsWellFoundedOn(R, Nat)
    BY NatLessThanWellFounded
  <1>2. \A x, y \in Nat : y < x => <<y, x>> \in R
    BY DEF OpToRel
  <1> HIDE DEF R
  <1>3. PICK x \in T : \A y \in T : <<y, x>> \notin R
    BY <1>1, WFMin
  <1>4. \A y \in T : x \in Nat /\ y \in Nat /\ ~(y < x)
    BY <1>2, <1>3
  <1>5. \A y \in T : x <= y
    BY <1>4
  <1> QED
    BY <1>5

(* Induction on the members of a set, without an operator as a parameter.   *)
LEMMA SetInduction ==
  ASSUME NEW T, 0 \in T, \A n \in Nat : n \in T => n + 1 \in T
  PROVE  Nat \subseteq T
  <1> SUFFICES ASSUME Nat \ T # {} PROVE FALSE
    OBVIOUS
  <1>1. PICK x \in Nat \ T : \A y \in Nat \ T : x <= y
    BY LeastElement
  <1>2. x # 0 /\ x - 1 \in Nat /\ x - 1 \in T
    BY <1>1
  <1> QED
    BY <1>1, <1>2

(* A set of numbers up to n has a largest element. *)
LEMMA LargestElement ==
  ASSUME NEW n \in Nat, NEW T, T \subseteq 0 .. n, T # {}
  PROVE  \E x \in T : \A y \in T : y <= x
  <1> DEFINE U == {n - x : x \in T}
  <1>1. U \subseteq Nat /\ U # {}
    <2>1. \A x \in T : n - x \in Nat
      OBVIOUS
    <2> QED
      BY <2>1
  <1>2. PICK u \in U : \A y \in U : u <= y
    <2> HIDE DEF U
    <2> QED
      BY <1>1, LeastElement
  <1>3. PICK x \in T : u = n - x
    BY <1>2
  <1>4. \A y \in T : n - x <= n - y
    BY <1>2, <1>3
  <1>5. \A y \in T : y \in Int /\ x \in Int
    BY <1>3
  <1>6. \A y \in T : y <= x
    BY <1>4, <1>5
  <1> QED
    BY <1>3, <1>6

(* What is kept from each number to the next holds up to n. *)
LEMMA UpTo ==
  ASSUME NEW n \in Nat, NEW T, 0 \in T,
         \A i \in 1 .. n : i - 1 \in T => i \in T
  PROVE  0 .. n \subseteq T
  <1> DEFINE U == {m \in Nat : m <= n => m \in T}
  <1>1. 0 \in U
    OBVIOUS
  <1>2. ASSUME NEW m \in Nat, m \in U PROVE m + 1 \in U
    <2> SUFFICES ASSUME m + 1 <= n PROVE m + 1 \in T
      OBVIOUS
    <2>1. m \in T /\ m + 1 \in 1 .. n /\ (m + 1) - 1 = m
      BY <1>2
    <2> QED
      BY <2>1
  <1>3. Nat \subseteq U
    <2> HIDE DEF U
    <2> QED
      BY <1>1, <1>2, SetInduction
  <1> QED
    BY <1>3

(* A function on 1 .. n is a sequence of length n. *)
LEMMA FunctionIsSeq ==
  ASSUME NEW n \in Nat, NEW B, NEW w \in [1 .. n -> B]
  PROVE  w \in Seq(B) /\ Len(w) = n
  <1>1. w \in Seq(B)
    BY SeqDef
  <1>2. DOMAIN w = 1 .. n
    OBVIOUS
  <1> QED
    BY <1>1, <1>2, LenProperties

(* f starts with b and goes on with the steps G, which stay in D. *)
Runs(f, n, D, b, G) ==
    /\ f[0] = b /\ \A i \in 0 .. n : f[i] \in D
    /\ \A i \in 1 .. n : f[i] = G[<<f[i - 1], i>>]

(* So a fold over n steps that stays in D is there for every n. *)
LEMMA RunExists ==
  ASSUME NEW n \in Nat, NEW D, NEW b \in D, NEW G \in [D \X (1 .. n) -> D]
  PROVE  \E f \in [0 .. n -> D] : Runs(f, n, D, b, G)
  <1> DEFINE T == {m \in 0 .. n : \E f \in [0 .. m -> D] : Runs(f, m, D, b, G)}
  <1>1. 0 \in T
    <2> DEFINE g == [i \in 0 .. 0 |-> b]
    <2>1. g \in [0 .. 0 -> D] /\ g[0] = b /\ 1 .. 0 = {}
      OBVIOUS
    <2> HIDE DEF g
    <2>2. Runs(g, 0, D, b, G)
      BY <2>1 DEF Runs
    <2> QED
      BY <2>1, <2>2
  <1>2. ASSUME NEW m \in 1 .. n, m - 1 \in T PROVE m \in T
    <2>1. PICK f \in [0 .. m - 1 -> D] : Runs(f, m - 1, D, b, G)
      BY <1>2
    <2>2. /\ f[0] = b /\ \A i \in 1 .. m - 1 : f[i] = G[<<f[i - 1], i>>]
          /\ f[m - 1] \in D /\ G[<<f[m - 1], m>>] \in D
      BY <2>1 DEF Runs
    <2> DEFINE g == [i \in 0 .. m |-> IF i = m THEN G[<<f[m - 1], m>>] ELSE f[i]]
    <2>3. g \in [0 .. m -> D] /\ g[0] = b
      BY <2>2
    <2>4. ASSUME NEW i \in 1 .. m PROVE g[i] = G[<<g[i - 1], i>>]
      <3>1. i - 1 \in 0 .. m /\ i - 1 # m /\ i \in 0 .. m
        OBVIOUS
      <3>2. g[i - 1] = f[i - 1]
        BY <3>1
      <3>3. CASE i = m
        BY <3>1, <3>2, <3>3
      <3>4. CASE i # m
        <4>1. i \in 1 .. m - 1
          BY <3>4
        <4> QED
          BY <2>2, <3>1, <3>2, <3>4, <4>1
      <3> QED
        BY <3>3, <3>4
    <2> HIDE DEF g
    <2>5. Runs(g, m, D, b, G)
      BY <2>3, <2>4 DEF Runs
    <2> QED
      BY <2>3, <2>5
  <1>3. 0 .. n \subseteq T
    <2> HIDE DEF T
    <2> QED
      BY <1>1, <1>2, UpTo
  <1> QED
    BY <1>3

(* Whatever starts with b and goes on with these steps stays in D. *)
LEMMA RunStays ==
  ASSUME NEW n \in Nat, NEW D, NEW b \in D, NEW G \in [D \X (1 .. n) -> D],
         NEW f, f[0] = b,
         \A i \in 1 .. n : f[i - 1] \in D => f[i] = G[<<f[i - 1], i>>]
  PROVE  Runs(f, n, D, b, G)
  <1> DEFINE T == {m \in 0 .. n : f[m] \in D}
  <1>1. 0 \in T
    OBVIOUS
  <1>2. ASSUME NEW m \in 1 .. n, m - 1 \in T PROVE m \in T
    <2>1. f[m - 1] \in D /\ m \in 0 .. n
      BY <1>2
    <2>2. f[m] = G[<<f[m - 1], m>>]
      BY <2>1
    <2>3. <<f[m - 1], m>> \in D \X (1 .. n)
      BY <2>1
    <2>4. f[m] \in D
      BY <2>2, <2>3
    <2> QED
      BY <2>1, <2>4
  <1>3. 0 .. n \subseteq T
    <2> HIDE DEF T
    <2> QED
      BY <1>1, <1>2, UpTo
  <1>4. \A m \in 0 .. n : f[m] \in D
    BY <1>3
  <1>6. \A i \in 1 .. n : i - 1 \in 0 .. n
    OBVIOUS
  <1> QED
    BY <1>4, <1>6 DEF Runs
-----------------------------------------------------------------------------
(* The recursive definitions of the model.                                   *)

(* Powers of two. *)
LEMMA Powers ==
  /\ TwoTo[0] = 1 /\ \A n \in 0 .. Width : TwoTo[n] \in Nat \ {0}
  /\ \A n \in 1 .. Width : TwoTo[n] = 2 * TwoTo[n - 1]
  <1> DEFINE D == Nat \ {0}
             G == [x \in D \X (1 .. Width) |-> 2 * x[1]]
             E(g) == [n \in 0 .. Width |-> IF n = 0 THEN 1 ELSE 2 * g[n - 1]]
  <1>0. Width \in Nat
    BY BlacklistAssumption
  <1>1. G \in [D \X (1 .. Width) -> D] /\ 1 \in D
    OBVIOUS
  <1>2. ASSUME NEW f, NEW i \in 1 .. Width, f[i - 1] \in D
        PROVE  G[<<f[i - 1], i>>] = 2 * f[i - 1]
    BY <1>2
  <1> HIDE DEF G, D
  <1>3. PICK f \in [0 .. Width -> D] : Runs(f, Width, D, 1, G)
    BY <1>0, <1>1, RunExists
  <1>4. f = E(f)
    <2>1. \A i \in 1 .. Width : i - 1 \in 0 .. Width
      BY <1>0
    <2>2. f[0] = 1 /\ \A i \in 1 .. Width : f[i] = 2 * f[i - 1]
      BY <1>2, <1>3, <2>1 DEF Runs
    <2>3. \A i \in 0 .. Width : f[i] = E(f)[i]
      BY <1>0, <2>2
    <2> QED
      BY <2>3
  <1>5. TwoTo = CHOOSE g : g = E(g)
    BY DEF TwoTo
  <1> DEFINE e == E(TwoTo)
  <1>6. TwoTo = e
    BY <1>4, <1>5
  <1>7. TwoTo[0] = 1 /\ \A i \in 1 .. Width : TwoTo[i] = 2 * TwoTo[i - 1]
    <2>1. e[0] = 1
      BY <1>0
    <2>2. ASSUME NEW i \in 1 .. Width PROVE e[i] = 2 * TwoTo[i - 1]
      BY <1>0
    <2> HIDE DEF e
    <2>3. ASSUME NEW i \in 1 .. Width PROVE TwoTo[i] = 2 * TwoTo[i - 1]
      <3>1. e[i] = 2 * TwoTo[i - 1]
        BY <2>2
      <3> QED
        BY ONLY <1>6, <3>1
    <2>4. TwoTo[0] = 1
      BY ONLY <1>6, <2>1
    <2> QED
      BY <2>3, <2>4
  <1>8. Runs(TwoTo, Width, D, 1, G)
    BY <1>0, <1>1, <1>2, <1>7, RunStays
  <1> QED
    BY <1>7, <1>8 DEF Runs, D

(* Among goes through s and appends what is in S. *)
AmongStep(kept, e, S) == IF e \in S THEN Append(kept, e) ELSE kept

AmongRun(f, s, S, D) ==
    /\ Among(s, S) = f[Len(s)] /\ f[0] = <<>>
    /\ \A i \in 0 .. Len(s) : f[i] \in D
    /\ \A i \in 1 .. Len(s) : f[i] = AmongStep(f[i - 1], s[i], S)

(* Among, as a fold, is there for every sequence. *)
LEMMA AmongRuns ==
  ASSUME NEW A, NEW s \in Seq(A), NEW S
  PROVE  \E f : AmongRun(f, s, S, Seq(A \cap S))
  <1> DEFINE n == Len(s)
             D == Seq(A \cap S)
             G == [x \in D \X (1 .. n) |-> AmongStep(x[1], s[x[2]], S)]
             E(g) == [i \in 0 .. n |->
                         IF i = 0 THEN <<>>
                         ELSE IF s[i] \in S THEN Append(g[i - 1], s[i]) ELSE g[i - 1]]
  <1>0. n \in Nat /\ \A i \in 1 .. n : s[i] \in A
    OBVIOUS
  <1>1. G \in [D \X (1 .. n) -> D] /\ <<>> \in D
    <2>1. ASSUME NEW x \in D, NEW i \in 1 .. n PROVE AmongStep(x, s[i], S) \in D
      BY <1>0 DEF AmongStep
    <2> HIDE DEF D, n
    <2>2. \A x \in D \X (1 .. n) : x[1] \in D /\ x[2] \in 1 .. n
      OBVIOUS
    <2>3. \A x \in D \X (1 .. n) : AmongStep(x[1], s[x[2]], S) \in D
      BY <2>1, <2>2
    <2>4. <<>> \in D
      BY DEF D
    <2> QED
      BY <2>3, <2>4
  <1>2. ASSUME NEW f, NEW i \in 1 .. n, f[i - 1] \in D
        PROVE  G[<<f[i - 1], i>>] = AmongStep(f[i - 1], s[i], S)
    <2> HIDE DEF D, n
    <2> QED
      BY <1>2
  <1> HIDE DEF G, D, n
  <1>3. PICK f \in [0 .. n -> D] : Runs(f, n, D, <<>>, G)
    BY <1>0, <1>1, RunExists
  <1>4. f = E(f)
    <2>1. \A i \in 1 .. n : i - 1 \in 0 .. n
      BY <1>0
    <2>2. f[0] = <<>> /\ \A i \in 1 .. n : f[i] = AmongStep(f[i - 1], s[i], S)
      BY <1>2, <1>3, <2>1 DEF Runs
    <2>3. ASSUME NEW i \in 0 .. n PROVE f[i] = E(f)[i]
      <3>1. CASE i = 0
        BY <2>2, <3>1
      <3>2. CASE i \in 1 .. n
        BY <2>2, <3>2 DEF AmongStep
      <3> QED
        BY <1>0, <3>1, <3>2
    <2> QED
      BY <2>3
  <1> DEFINE F == CHOOSE g : g = E(g)
  <1>5. Among(s, S) = F[n]
    BY DEF Among, n
  <1> DEFINE e == E(F)
  <1>6. F = e
    BY <1>4
  <1> HIDE DEF F
  <1>7. F[0] = <<>> /\ \A i \in 1 .. n : F[i] = AmongStep(F[i - 1], s[i], S)
    <2>1. e[0] = <<>>
      BY <1>0
    <2>2. ASSUME NEW i \in 1 .. n PROVE e[i] = AmongStep(F[i - 1], s[i], S)
      BY <1>0 DEF AmongStep
    <2> HIDE DEF e
    <2> QED
      BY <1>6, <2>1, <2>2
  <1>8. Runs(F, n, D, <<>>, G)
    BY <1>0, <1>1, <1>2, <1>7, RunStays
  <1>9. AmongRun(F, s, S, D)
    BY <1>5, <1>7, <1>8 DEF Runs, AmongRun, n
  <1> QED
    BY <1>9 DEF D

(* A range and its entry: the start is an address. *)
LEMMA StartInt ==
  \A e \in Cidr : /\ Start(e) \in Addr /\ Start(e) \in Int /\ Start(e) <= e.ip
                  /\ Width - e.prefix \in 0 .. Width
  <1> SUFFICES ASSUME NEW e \in Cidr
               PROVE  /\ Start(e) \in Addr /\ Start(e) \in Int /\ Start(e) <= e.ip
                      /\ Width - e.prefix \in 0 .. Width
    OBVIOUS
  <1>1. e.ip \in Addr /\ e.prefix \in 0 .. Width /\ Width \in Nat
    BY BlacklistAssumption DEF Cidr
  <1>2. Width - e.prefix \in 0 .. Width /\ Width \in 0 .. Width
    BY <1>1
  <1>3. TwoTo[Width - e.prefix] \in Nat \ {0} /\ TwoTo[Width] \in Nat \ {0}
    BY <1>2, Powers
  <1>4. \A x, m \in Nat, k \in Nat \ {0} :
            x <= m - 1 => x - (x % k) \in 0 .. m - 1 /\ x - (x % k) <= x
    OBVIOUS
  <1>5. Start(e) \in 0 .. TwoTo[Width] - 1 /\ Start(e) <= e.ip
    BY <1>1, <1>3, <1>4 DEF Start, Addr
  <1> QED
    BY <1>2, <1>5 DEF Addr

(* The first i elements of s; all of them. *)
Passed(s, i) == {s[j] : j \in 1 .. i}
Members(s) == Passed(s, Len(s))

(* One more element has been passed at each step ... *)
LEMMA PassedStep ==
  ASSUME NEW s, NEW i \in Nat \ {0}
  PROVE  Passed(s, i) = Passed(s, i - 1) \cup {s[i]}
  <1>1. 1 .. i = (1 .. i - 1) \cup {i}
    OBVIOUS
  <1> QED
    BY <1>1 DEF Passed

(* ... and none at first. *)
LEMMA PassedNone == \A s : Passed(s, 0) = {} /\ Members(<<>>) = {}
  <1>1. 1 .. 0 = {} /\ Len(<<>>) = 0
    OBVIOUS
  <1> QED
    BY <1>1 DEF Passed, Members

(* The members of a list are what it is a list of. *)
LEMMA MembersIn == \A A : \A s \in Seq(A) : Members(s) \subseteq A
  BY DEF Passed, Members

(* Appending adds one member. *)
LEMMA AppendMembers ==
  ASSUME NEW A, NEW s \in Seq(A), NEW e
  PROVE  Members(Append(s, e)) = Members(s) \cup {e}
  <1> DEFINE t == Append(s, e)
             n == Len(s)
  <1>1. n \in Nat /\ Len(t) = n + 1 /\ t[n + 1] = e /\ \A j \in 1 .. n : t[j] = s[j]
    OBVIOUS
  <1>2. 1 .. n + 1 = (1 .. n) \cup {n + 1}
    BY <1>1
  <1> HIDE DEF t, n
  <1>3. {t[j] : j \in 1 .. n + 1} = {s[j] : j \in 1 .. n} \cup {e}
    BY <1>1, <1>2
  <1> QED
    BY <1>1, <1>3 DEF Members, Passed, n, t

(* Concatenating lists adds their members. *)
LEMMA ConcatMembers ==
  ASSUME NEW A, NEW s \in Seq(A), NEW t \in Seq(A)
  PROVE  Members(s \o t) = Members(s) \cup Members(t)
  <1> DEFINE u == s \o t
             m == Len(s)
             n == Len(t)
  <1>1. /\ m \in Nat /\ n \in Nat /\ Len(u) = m + n
        /\ \A j \in 1 .. m : u[j] = s[j]
        /\ \A j \in 1 .. n : u[m + j] = t[j]
    OBVIOUS
  <1> HIDE DEF u, m, n
  <1>2. ASSUME NEW j \in 1 .. m + n PROVE u[j] \in Passed(s, m) \cup Passed(t, n)
    <2>1. CASE j \in 1 .. m
      BY <1>1, <2>1 DEF Passed
    <2>2. CASE j \notin 1 .. m
      <3>1. j - m \in 1 .. n /\ m + (j - m) = j
        BY <1>1, <2>2
      <3>2. u[j] = t[j - m]
        BY <1>1, <3>1
      <3> QED
        BY <3>1, <3>2 DEF Passed
    <2> QED
      BY <2>1, <2>2
  <1>3. ASSUME NEW j \in 1 .. m PROVE s[j] \in Passed(u, m + n)
    <2>1. j \in 1 .. m + n
      BY <1>1
    <2> QED
      BY <1>1, <2>1 DEF Passed
  <1>4. ASSUME NEW j \in 1 .. n PROVE t[j] \in Passed(u, m + n)
    <2>1. m + j \in 1 .. m + n
      BY <1>1
    <2> QED
      BY <1>1, <2>1 DEF Passed
  <1>5. Passed(u, m + n) = Passed(s, m) \cup Passed(t, n)
    <2>1. Passed(u, m + n) \subseteq Passed(s, m) \cup Passed(t, n)
      BY <1>2 DEF Passed
    <2>2. Passed(s, m) \subseteq Passed(u, m + n)
      BY <1>3 DEF Passed
    <2>3. Passed(t, n) \subseteq Passed(u, m + n)
      BY <1>4 DEF Passed
    <2> QED
      BY <2>1, <2>2, <2>3
  <1>6. Members(u) = Passed(u, m + n) /\ Members(s) = Passed(s, m) /\ Members(t) = Passed(t, n)
    BY <1>1 DEF Members, m, n
  <1> QED
    BY <1>5, <1>6 DEF u

(* Among keeps the elements in S. *)
LEMMA AmongKeeps ==
  ASSUME NEW A, NEW s \in Seq(A), NEW S
  PROVE  Among(s, S) \in Seq(A \cap S) /\ Members(Among(s, S)) = Members(s) \cap S
  <1> DEFINE n == Len(s)
  <1>a. PICK f : AmongRun(f, s, S, Seq(A \cap S))
    BY AmongRuns
  <1>1. /\ Among(s, S) = f[n] /\ f[0] = <<>>
        /\ \A i \in 0 .. n : f[i] \in Seq(A \cap S)
        /\ \A i \in 1 .. n : f[i] = AmongStep(f[i - 1], s[i], S)
    BY <1>a DEF AmongRun
  <1> DEFINE T == {i \in 0 .. n : Members(f[i]) = Passed(s, i) \cap S}
  <1>0. n \in Nat
    OBVIOUS
  <1>2. 0 \in T
    BY <1>0, <1>1, PassedNone
  <1>3. ASSUME NEW i \in 1 .. n, i - 1 \in T PROVE i \in T
    <2>1. Members(f[i - 1]) = Passed(s, i - 1) \cap S /\ f[i - 1] \in Seq(A \cap S)
      BY <1>1, <1>3
    <2>2. Passed(s, i) = Passed(s, i - 1) \cup {s[i]}
      BY PassedStep
    <2>3. f[i] = IF s[i] \in S THEN Append(f[i - 1], s[i]) ELSE f[i - 1]
      BY <1>1 DEF AmongStep
    <2>4. Members(Append(f[i - 1], s[i])) = Members(f[i - 1]) \cup {s[i]}
      BY <2>1, AppendMembers
    <2>5. Members(f[i]) = Passed(s, i) \cap S
      BY <2>1, <2>2, <2>3, <2>4
    <2> QED
      BY <1>0, <2>5
  <1>4. 0 .. n \subseteq T
    <2> HIDE DEF T, n
    <2> QED
      BY <1>0, <1>2, <1>3, UpTo
  <1>5. n \in 0 .. n
    BY <1>0
  <1> QED
    BY <1>1, <1>4, <1>5 DEF Members

(* Two lists of ranges, one after the other: a list with the ranges of both. *)
LEMMA ConcatCidrs ==
  ASSUME NEW s1 \in Seq(Cidr), NEW s2 \in Seq(Cidr)
  PROVE  s1 \o s2 \in Seq(Cidr) /\ Members(s1 \o s2) = Members(s1) \cup Members(s2)
  <1>1. s1 \o s2 \in Seq(Cidr)
    OBVIOUS
  <1> QED
    BY <1>1, ConcatMembers

(* Sorting by start: the same ranges, whatever their order. *)
LEMMA InsertByStartKeeps ==
  ASSUME NEW s \in Seq(Cidr), NEW e \in Cidr
  PROVE  InsertByStart(s, e) \in Seq(Cidr) /\ Members(InsertByStart(s, e)) = Members(s) \cup {e}
  <1> DEFINE L == {f \in Cidr : Start(f) <= Start(e)}
             H == {f \in Cidr : Start(f) > Start(e)}
             low == Among(s, L)
             high == Among(s, H)
  <1>1. Members(s) \subseteq Cidr
    BY MembersIn
  <1>2. low \in Seq(Cidr \cap L) /\ Members(low) = Members(s) \cap L
    BY AmongKeeps
  <1>3. high \in Seq(Cidr \cap H) /\ Members(high) = Members(s) \cap H
    BY AmongKeeps
  <1>4. L \cup H = Cidr
    <2>1. \A f \in Cidr : Start(f) \in Int
      BY StartInt
    <2> QED
      BY <2>1
  <1>5. InsertByStart(s, e) = (low \o <<e>>) \o high
    BY DEF InsertByStart
  <1> HIDE DEF low, high, L, H
  <1>6. low \in Seq(Cidr) /\ high \in Seq(Cidr) /\ <<e>> \in Seq(Cidr)
    BY <1>2, <1>3
  <1>7. low \o <<e>> \in Seq(Cidr) /\ Members(low \o <<e>>) = Members(low) \cup Members(<<e>>)
    BY ONLY <1>6, ConcatCidrs, Zenon
  <1>8. /\ (low \o <<e>>) \o high \in Seq(Cidr)
        /\ Members((low \o <<e>>) \o high) = Members(low \o <<e>>) \cup Members(high)
    BY ONLY <1>6, <1>7, ConcatCidrs, Zenon
  <1>9. Members(<<e>>) = {e}
    <2>1. Len(<<e>>) = 1 /\ <<e>>[1] = e /\ 1 .. 1 = {1}
      OBVIOUS
    <2> QED
      BY <2>1 DEF Members, Passed
  <1>10. Members(s) = (Members(s) \cap L) \cup (Members(s) \cap H)
    BY <1>1, <1>4
  <1> QED
    BY <1>2, <1>3, <1>5, <1>7, <1>8, <1>9, <1>10

SortRun(f, s, D) ==
    /\ SortByStart(s) = f[Len(s)] /\ f[0] = <<>>
    /\ \A i \in 0 .. Len(s) : f[i] \in D
    /\ \A i \in 1 .. Len(s) : f[i] = InsertByStart(f[i - 1], s[i])

(* SortByStart, as a fold, is there for every list. *)
LEMMA SortRuns ==
  ASSUME NEW s \in Seq(Cidr)
  PROVE  \E f : SortRun(f, s, Seq(Cidr))
  <1> DEFINE n == Len(s)
             D == Seq(Cidr)
             G == [x \in D \X (1 .. n) |-> InsertByStart(x[1], s[x[2]])]
             E(g) == [i \in 0 .. n |-> IF i = 0 THEN <<>> ELSE InsertByStart(g[i - 1], s[i])]
  <1>0. n \in Nat /\ \A i \in 1 .. n : i \in 0 .. n /\ i # 0
    OBVIOUS
  <1>1. G \in [D \X (1 .. n) -> D] /\ <<>> \in D
    <2>1. ASSUME NEW x \in D, NEW i \in 1 .. n PROVE InsertByStart(x, s[i]) \in D
      <3>1. s[i] \in Cidr /\ x \in Seq(Cidr)
        BY <1>0
      <3> QED
        BY <3>1, InsertByStartKeeps
    <2> HIDE DEF D, n
    <2>2. \A x \in D \X (1 .. n) : x[1] \in D /\ x[2] \in 1 .. n
      OBVIOUS
    <2>3. \A x \in D \X (1 .. n) : InsertByStart(x[1], s[x[2]]) \in D
      BY <2>1, <2>2
    <2>4. <<>> \in D
      BY DEF D
    <2> QED
      BY <2>3, <2>4
  <1>2. ASSUME NEW f, NEW i \in 1 .. n, f[i - 1] \in D
        PROVE  G[<<f[i - 1], i>>] = InsertByStart(f[i - 1], s[i])
    <2> HIDE DEF D, n
    <2> QED
      BY <1>2
  <1> HIDE DEF G, D, n
  <1>3. PICK f \in [0 .. n -> D] : Runs(f, n, D, <<>>, G)
    BY <1>0, <1>1, RunExists
  <1>4. f = E(f)
    <2>1. \A i \in 1 .. n : i - 1 \in 0 .. n
      BY <1>0
    <2>2. f[0] = <<>> /\ \A i \in 1 .. n : f[i] = InsertByStart(f[i - 1], s[i])
      BY <1>2, <1>3, <2>1 DEF Runs
    <2>3. ASSUME NEW i \in 0 .. n PROVE f[i] = E(f)[i]
      <3>1. CASE i = 0
        BY <2>2, <3>1
      <3>2. CASE i \in 1 .. n
        BY <1>0, <2>2, <3>2
      <3> QED
        BY <1>0, <3>1, <3>2
    <2> QED
      BY <2>3
  <1> DEFINE F == CHOOSE g : g = E(g)
  <1>5. SortByStart(s) = F[n]
    BY DEF SortByStart, n
  <1> DEFINE e == E(F)
  <1>6. F = e
    BY <1>4
  <1> HIDE DEF F
  <1>7. F[0] = <<>> /\ \A i \in 1 .. n : F[i] = InsertByStart(F[i - 1], s[i])
    <2>1. e[0] = <<>>
      BY <1>0
    <2>2. ASSUME NEW i \in 1 .. n PROVE e[i] = InsertByStart(F[i - 1], s[i])
      BY <1>0
    <2> HIDE DEF e
    <2> QED
      BY <1>6, <2>1, <2>2
  <1>8. Runs(F, n, D, <<>>, G)
    BY <1>0, <1>1, <1>2, <1>7, RunStays
  <1>9. SortRun(F, s, D)
    BY <1>5, <1>7, <1>8 DEF Runs, SortRun, n
  <1> QED
    BY <1>9 DEF D

(* Sorting (sort_by_key in sort_dedup) loses and invents no entry. *)
LEMMA SortKeeps ==
  ASSUME NEW s \in Seq(Cidr)
  PROVE  SortByStart(s) \in Seq(Cidr) /\ Members(SortByStart(s)) = Members(s)
  <1> DEFINE n == Len(s)
  <1>1. PICK f : SortRun(f, s, Seq(Cidr))
    BY SortRuns
  <1>2. /\ SortByStart(s) = f[n] /\ f[0] = <<>>
        /\ \A i \in 0 .. n : f[i] \in Seq(Cidr)
        /\ \A i \in 1 .. n : f[i] = InsertByStart(f[i - 1], s[i])
    BY <1>1 DEF SortRun
  <1> DEFINE T == {i \in 0 .. n : Members(f[i]) = Passed(s, i)}
  <1>3. n \in Nat /\ \A i \in 1 .. n : s[i] \in Cidr
    OBVIOUS
  <1>4. 0 \in T
    <2>1. Members(f[0]) = {} /\ Passed(s, 0) = {} /\ 0 \in 0 .. n
      BY <1>2, <1>3, PassedNone
    <2> QED
      BY <2>1
  <1>5. ASSUME NEW i \in 1 .. n, i - 1 \in T PROVE i \in T
    <2>1. Members(f[i - 1]) = Passed(s, i - 1) /\ f[i - 1] \in Seq(Cidr)
      BY <1>2, <1>5
    <2>2. Passed(s, i) = Passed(s, i - 1) \cup {s[i]}
      BY PassedStep
    <2>3. Members(f[i]) = Members(f[i - 1]) \cup {s[i]}
      BY <1>2, <1>3, <2>1, InsertByStartKeeps
    <2>4. Members(f[i]) = Passed(s, i)
      BY <2>1, <2>2, <2>3
    <2> QED
      BY <1>3, <2>4
  <1>6. 0 .. n \subseteq T
    <2> HIDE DEF T, n
    <2> QED
      BY <1>3, <1>4, <1>5, UpTo
  <1>7. n \in 0 .. n
    BY <1>3
  <1> QED
    BY <1>2, <1>6, <1>7 DEF Members

(* Removing duplicates: the same ranges, of texts that are there. *)
LEMMA DedupStepKeeps ==
  ASSUME NEW s \in Seq(Cidr), NEW e \in Cidr
  PROVE  /\ DedupStep(s, e) \in Seq(Cidr)
         /\ {RangeOf(x) : x \in Members(DedupStep(s, e))}
                = {RangeOf(x) : x \in Members(s)} \cup {RangeOf(e)}
  <1>1. CASE s # <<>> /\ SameRange(s[Len(s)], e)
    <2>1. DedupStep(s, e) = s /\ Len(s) \in 1 .. Len(s)
      BY <1>1 DEF DedupStep
    <2>2. s[Len(s)] \in Members(s) /\ RangeOf(e) = RangeOf(s[Len(s)])
      BY <1>1, <2>1 DEF Members, Passed, RangeOf, SameRange
    <2> QED
      BY <2>1, <2>2
  <1>2. CASE ~(s # <<>> /\ SameRange(s[Len(s)], e))
    <2>1. DedupStep(s, e) = Append(s, e)
      BY <1>2 DEF DedupStep
    <2>2. Members(Append(s, e)) = Members(s) \cup {e}
      BY AppendMembers
    <2> QED
      BY <2>1, <2>2
  <1> QED
    BY <1>1, <1>2

DedupRun(f, s, D) ==
    /\ Dedup(s) = f[Len(s)] /\ f[0] = <<>>
    /\ \A i \in 0 .. Len(s) : f[i] \in D
    /\ \A i \in 1 .. Len(s) : f[i] = DedupStep(f[i - 1], s[i])

(* Dedup, as a fold, is there for every list. *)
LEMMA DedupRuns ==
  ASSUME NEW s \in Seq(Cidr)
  PROVE  \E f : DedupRun(f, s, Seq(Cidr))
  <1> DEFINE n == Len(s)
             D == Seq(Cidr)
             G == [x \in D \X (1 .. n) |-> DedupStep(x[1], s[x[2]])]
             E(g) == [i \in 0 .. n |-> IF i = 0 THEN <<>> ELSE DedupStep(g[i - 1], s[i])]
  <1>0. n \in Nat /\ \A i \in 1 .. n : i \in 0 .. n /\ i # 0
    OBVIOUS
  <1>1. G \in [D \X (1 .. n) -> D] /\ <<>> \in D
    <2>1. ASSUME NEW x \in D, NEW i \in 1 .. n PROVE DedupStep(x, s[i]) \in D
      <3>1. s[i] \in Cidr /\ x \in Seq(Cidr)
        BY <1>0
      <3> QED
        BY <3>1, DedupStepKeeps
    <2> HIDE DEF D, n
    <2>2. \A x \in D \X (1 .. n) : x[1] \in D /\ x[2] \in 1 .. n
      OBVIOUS
    <2>3. \A x \in D \X (1 .. n) : DedupStep(x[1], s[x[2]]) \in D
      BY <2>1, <2>2
    <2>4. <<>> \in D
      BY DEF D
    <2> QED
      BY <2>3, <2>4
  <1>2. ASSUME NEW f, NEW i \in 1 .. n, f[i - 1] \in D
        PROVE  G[<<f[i - 1], i>>] = DedupStep(f[i - 1], s[i])
    <2> HIDE DEF D, n
    <2> QED
      BY <1>2
  <1> HIDE DEF G, D, n
  <1>3. PICK f \in [0 .. n -> D] : Runs(f, n, D, <<>>, G)
    BY <1>0, <1>1, RunExists
  <1>4. f = E(f)
    <2>1. \A i \in 1 .. n : i - 1 \in 0 .. n
      BY <1>0
    <2>2. f[0] = <<>> /\ \A i \in 1 .. n : f[i] = DedupStep(f[i - 1], s[i])
      BY <1>2, <1>3, <2>1 DEF Runs
    <2>3. ASSUME NEW i \in 0 .. n PROVE f[i] = E(f)[i]
      <3>1. CASE i = 0
        BY <2>2, <3>1
      <3>2. CASE i \in 1 .. n
        BY <1>0, <2>2, <3>2
      <3> QED
        BY <1>0, <3>1, <3>2
    <2> QED
      BY <2>3
  <1> DEFINE F == CHOOSE g : g = E(g)
  <1>5. Dedup(s) = F[n]
    BY DEF Dedup, n
  <1> DEFINE e == E(F)
  <1>6. F = e
    BY <1>4
  <1> HIDE DEF F
  <1>7. F[0] = <<>> /\ \A i \in 1 .. n : F[i] = DedupStep(F[i - 1], s[i])
    <2>1. e[0] = <<>>
      BY <1>0
    <2>2. ASSUME NEW i \in 1 .. n PROVE e[i] = DedupStep(F[i - 1], s[i])
      BY <1>0
    <2> HIDE DEF e
    <2> QED
      BY <1>6, <2>1, <2>2
  <1>8. Runs(F, n, D, <<>>, G)
    BY <1>0, <1>1, <1>2, <1>7, RunStays
  <1>9. DedupRun(F, s, D)
    BY <1>5, <1>7, <1>8 DEF Runs, DedupRun, n
  <1> QED
    BY <1>9 DEF D

(* dedup_by leaves one entry of every range: it compares neighbours, and      *)
(* drops only what has the same range.                                        *)
LEMMA DedupKeeps ==
  ASSUME NEW s \in Seq(Cidr)
  PROVE  /\ Dedup(s) \in Seq(Cidr)
         /\ {RangeOf(x) : x \in Members(Dedup(s))} = {RangeOf(x) : x \in Members(s)}
  <1> DEFINE n == Len(s)
  <1>1. PICK f : DedupRun(f, s, Seq(Cidr))
    BY DedupRuns
  <1>2. /\ Dedup(s) = f[n] /\ f[0] = <<>>
        /\ \A i \in 0 .. n : f[i] \in Seq(Cidr)
        /\ \A i \in 1 .. n : f[i] = DedupStep(f[i - 1], s[i])
    BY <1>1 DEF DedupRun
  <1> DEFINE T == {i \in 0 .. n :
                      {RangeOf(x) : x \in Members(f[i])} = {RangeOf(x) : x \in Passed(s, i)}}
  <1>3. n \in Nat /\ \A i \in 1 .. n : s[i] \in Cidr
    OBVIOUS
  <1>4. 0 \in T
    <2>1. Members(f[0]) = {} /\ Passed(s, 0) = {} /\ 0 \in 0 .. n
      BY <1>2, <1>3, PassedNone
    <2> QED
      BY <2>1
  <1>5. ASSUME NEW i \in 1 .. n, i - 1 \in T PROVE i \in T
    <2>1. /\ {RangeOf(x) : x \in Members(f[i - 1])} = {RangeOf(x) : x \in Passed(s, i - 1)}
          /\ f[i - 1] \in Seq(Cidr)
      BY <1>2, <1>5
    <2>2. Passed(s, i) = Passed(s, i - 1) \cup {s[i]}
      BY PassedStep
    <2>3. {RangeOf(x) : x \in Members(f[i])}
              = {RangeOf(x) : x \in Members(f[i - 1])} \cup {RangeOf(s[i])}
      BY <1>2, <1>3, <2>1, DedupStepKeeps
    <2>4. {RangeOf(x) : x \in Passed(s, i)}
              = {RangeOf(x) : x \in Passed(s, i - 1)} \cup {RangeOf(s[i])}
      BY <2>2
    <2>5. {RangeOf(x) : x \in Members(f[i])} = {RangeOf(x) : x \in Passed(s, i)}
      BY <2>1, <2>3, <2>4
    <2>6. i \in 0 .. n
      BY <1>3
    <2> HIDE DEF n
    <2> QED
      BY <2>5, <2>6
  <1>6. 0 .. n \subseteq T
    <2> HIDE DEF T, n
    <2> QED
      BY <1>3, <1>4, <1>5, UpTo
  <1>7. n \in 0 .. n
    BY <1>3
  <1> QED
    BY <1>2, <1>6, <1>7 DEF Members

(* The ranges of a sequence of texts are those of its members. *)
LEMMA RangesMembers ==
  ASSUME NEW A, NEW s \in Seq(A)
  PROVE  Ranges(s) = {RangeOf(x) : x \in Members(s) \cap Cidr}
  <1>1. DOMAIN s = 1 .. Len(s)
    OBVIOUS
  <1>2. ASSUME NEW r \in Ranges(s) PROVE r \in {RangeOf(x) : x \in Members(s) \cap Cidr}
    <2>1. PICK i \in DOMAIN s : s[i] \in Cidr /\ r = RangeOf(s[i])
      BY DEF Ranges
    <2>2. s[i] \in Members(s) \cap Cidr
      BY <1>1, <2>1 DEF Members, Passed
    <2> QED
      BY <2>1, <2>2
  <1>3. ASSUME NEW x \in Members(s) \cap Cidr PROVE RangeOf(x) \in Ranges(s)
    <2>1. PICK i \in 1 .. Len(s) : x = s[i]
      BY DEF Members, Passed
    <2> QED
      BY <1>1, <2>1 DEF Ranges
  <1>4. Ranges(s) \subseteq {RangeOf(x) : x \in Members(s) \cap Cidr}
    BY <1>2
  <1>5. {RangeOf(x) : x \in Members(s) \cap Cidr} \subseteq Ranges(s)
    BY <1>3
  <1> QED
    BY <1>4, <1>5

(* The ranges of a list are those of its members. *)
LEMMA RangesOfList ==
  ASSUME NEW s \in Seq(Cidr)
  PROVE  Ranges(s) = {RangeOf(x) : x \in Members(s)}
  <1>1. Members(s) \cap Cidr = Members(s)
    BY MembersIn
  <1> QED
    BY <1>1, RangesMembers

(* sort_dedup changes no range. *)
LEMMA SortDedupKeeps ==
  ASSUME NEW s \in Seq(Cidr)
  PROVE  SortDedup(s) \in Seq(Cidr) /\ Ranges(SortDedup(s)) = Ranges(s)
  <1>1. SortByStart(s) \in Seq(Cidr) /\ Members(SortByStart(s)) = Members(s)
    BY SortKeeps
  <1>2. /\ SortDedup(s) \in Seq(Cidr)
        /\ {RangeOf(x) : x \in Members(SortDedup(s))}
               = {RangeOf(x) : x \in Members(SortByStart(s))}
    BY <1>1, DedupKeeps DEF SortDedup
  <1>3. Ranges(SortDedup(s)) = {RangeOf(x) : x \in Members(SortDedup(s))}
    BY <1>2, RangesOfList
  <1>4. Ranges(s) = {RangeOf(x) : x \in Members(s)}
    BY RangesOfList
  <1> QED
    BY <1>1, <1>2, <1>3, <1>4

(* The operations on the list, in terms of the ranges. *)
LEMMA RangesConcat ==
  ASSUME NEW A, NEW s \in Seq(A), NEW t \in Seq(A)
  PROVE  s \o t \in Seq(A) /\ Ranges(s \o t) = Ranges(s) \cup Ranges(t)
  <1>1. s \o t \in Seq(A)
    OBVIOUS
  <1>2. Members(s \o t) = Members(s) \cup Members(t)
    BY ConcatMembers
  <1>3. /\ Ranges(s \o t) = {RangeOf(x) : x \in Members(s \o t) \cap Cidr}
        /\ Ranges(s) = {RangeOf(x) : x \in Members(s) \cap Cidr}
        /\ Ranges(t) = {RangeOf(x) : x \in Members(t) \cap Cidr}
    BY <1>1, RangesMembers
  <1> QED
    BY <1>1, <1>2, <1>3

(* A line adds its range, if it has one. *)
LEMMA RangesAppend ==
  ASSUME NEW A, NEW s \in Seq(A), NEW e \in A
  PROVE  /\ Append(s, e) \in Seq(A)
         /\ Ranges(Append(s, e)) = Ranges(s) \cup (IF e \in Cidr THEN {RangeOf(e)} ELSE {})
  <1>1. Append(s, e) \in Seq(A)
    OBVIOUS
  <1>2. Members(Append(s, e)) = Members(s) \cup {e}
    BY AppendMembers
  <1>3. /\ Ranges(Append(s, e)) = {RangeOf(x) : x \in Members(Append(s, e)) \cap Cidr}
        /\ Ranges(s) = {RangeOf(x) : x \in Members(s) \cap Cidr}
    BY <1>1, RangesMembers
  <1>4. (Members(s) \cup {e}) \cap Cidr
            = (Members(s) \cap Cidr) \cup (IF e \in Cidr THEN {e} ELSE {})
    OBVIOUS
  <1> QED
    BY <1>1, <1>2, <1>3, <1>4

(* merge adds the ranges of the second list. *)
LEMMA MergeRanges ==
  ASSUME NEW s \in Seq(Cidr), NEW t \in Seq(Cidr)
  PROVE  Merge(s, t) \in Seq(Cidr) /\ Ranges(Merge(s, t)) = Ranges(s) \cup Ranges(t)
  <1>1. s \o t \in Seq(Cidr) /\ Ranges(s \o t) = Ranges(s) \cup Ranges(t)
    BY RangesConcat
  <1>2. SortDedup(s \o t) \in Seq(Cidr) /\ Ranges(SortDedup(s \o t)) = Ranges(s \o t)
    BY <1>1, SortDedupKeeps
  <1> QED
    BY <1>1, <1>2 DEF Merge

(* add_cidr adds one range ... *)
LEMMA AddRanges ==
  ASSUME NEW s \in Seq(Cidr), NEW e \in Cidr
  PROVE  AddCidr(s, e) \in Seq(Cidr) /\ Ranges(AddCidr(s, e)) = Ranges(s) \cup {RangeOf(e)}
  <1>1. CASE \E i \in DOMAIN s : SameRange(s[i], e)
    <2>1. PICK i \in DOMAIN s : SameRange(s[i], e)
      BY <1>1
    <2>2. s[i] \in Cidr /\ RangeOf(s[i]) = RangeOf(e)
      BY <2>1 DEF SameRange, RangeOf
    <2>3. RangeOf(e) \in Ranges(s)
      BY <2>1, <2>2 DEF Ranges
    <2> QED
      BY <1>1, <2>3 DEF AddCidr
  <1>2. CASE ~(\E i \in DOMAIN s : SameRange(s[i], e))
    <2>1. /\ Append(s, e) \in Seq(Cidr)
          /\ Ranges(Append(s, e)) = Ranges(s) \cup {RangeOf(e)}
      BY RangesAppend
    <2>2. /\ SortDedup(Append(s, e)) \in Seq(Cidr)
          /\ Ranges(SortDedup(Append(s, e))) = Ranges(Append(s, e))
      BY <2>1, SortDedupKeeps
    <2> QED
      BY <1>2, <2>1, <2>2 DEF AddCidr
  <1> QED
    BY <1>1, <1>2

(* ... and remove_cidr takes every entry of it away. *)
LEMMA RemoveRanges ==
  ASSUME NEW s \in Seq(Cidr), NEW e \in Cidr
  PROVE  /\ RemoveCidr(s, e) \in Seq(Cidr)
         /\ Ranges(RemoveCidr(s, e)) = Ranges(s) \ {RangeOf(e)}
  <1> DEFINE S == {f \in Cidr : ~SameRange(f, e)}
  <1>1. RemoveCidr(s, e) \in Seq(Cidr \cap S) /\ Members(RemoveCidr(s, e)) = Members(s) \cap S
    BY AmongKeeps DEF RemoveCidr
  <1>2. Cidr \cap S \subseteq Cidr
    OBVIOUS
  <1>3. RemoveCidr(s, e) \in Seq(Cidr)
    <2> HIDE DEF S
    <2> QED
      BY <1>1, <1>2
  <1>4. /\ Ranges(RemoveCidr(s, e)) = {RangeOf(x) : x \in Members(s) \cap S}
        /\ Ranges(s) = {RangeOf(x) : x \in Members(s)} /\ Members(s) \subseteq Cidr
    BY <1>1, <1>3, RangesOfList, MembersIn
  <1>5. \A x \in Cidr : x \in S <=> RangeOf(x) # RangeOf(e)
    BY DEF RangeOf, SameRange
  <1>6. ASSUME NEW r PROVE r \in Ranges(RemoveCidr(s, e)) <=> r \in Ranges(s) /\ r # RangeOf(e)
    <2> HIDE DEF S
    <2> QED
      BY <1>4, <1>5
  <1> QED
    BY <1>3, <1>6

(* parse_text keeps the ranges of the lines that have one, in whatever order. *)
LEMMA ParseRanges ==
  ASSUME NEW A, NEW s \in Seq(A)
  PROVE  ParseText(s) \in Seq(Cidr) /\ Ranges(ParseText(s)) = Ranges(s)
  <1> DEFINE t == Among(s, Cidr)
  <1>1. t \in Seq(A \cap Cidr) /\ Members(t) = Members(s) \cap Cidr
    BY AmongKeeps
  <1> HIDE DEF t
  <1>2. t \in Seq(Cidr)
    BY <1>1
  <1>3. SortDedup(t) \in Seq(Cidr) /\ Ranges(SortDedup(t)) = Ranges(t)
    BY <1>2, SortDedupKeeps
  <1>4. Ranges(t) = {RangeOf(x) : x \in Members(t)} /\ Ranges(s) = {RangeOf(x) : x \in Members(s) \cap Cidr}
    BY <1>2, RangesOfList, RangesMembers
  <1> QED
    BY <1>1, <1>3, <1>4 DEF ParseText, t

-----------------------------------------------------------------------------
(* The trie.                                                                 *)

(* Bits of addresses and their quotients. *)
LEMMA AddrBits ==
  ASSUME NEW a \in Addr
  PROVE  /\ a \in Nat /\ a \div TwoTo[Width] = 0
         /\ \A i \in 0 .. Width : a \div TwoTo[i] \in Nat
         /\ \A n \in 1 .. Width :
                /\ Width - n \in 0 .. Width /\ Width - (n - 1) \in 1 .. Width
                /\ a \div TwoTo[Width - (n - 1)] = (a \div TwoTo[Width - n]) \div 2
                /\ Bit(a, Width - n) = (a \div TwoTo[Width - n]) % 2
  <1>1. Width \in Nat /\ Width \in 0 .. Width /\ 0 \in 0 .. Width
    BY BlacklistAssumption
  <1>2. TwoTo[Width] \in Nat \ {0}
    BY <1>1, Powers
  <1>3. a \in Nat /\ a < TwoTo[Width]
    BY <1>2 DEF Addr
  <1>4. \A k \in Nat \ {0} : a < k => a \div k = 0
    BY <1>3
  <1>5. \A k \in Nat \ {0} : a \div k \in Nat
    BY <1>3
  <1>6. \A k \in Nat \ {0} : a \div (2 * k) = (a \div k) \div 2
    BY <1>3
  <1>7. ASSUME NEW n \in 1 .. Width
        PROVE  /\ Width - n \in 0 .. Width /\ Width - (n - 1) \in 1 .. Width
               /\ a \div TwoTo[Width - (n - 1)] = (a \div TwoTo[Width - n]) \div 2
               /\ Bit(a, Width - n) = (a \div TwoTo[Width - n]) % 2
    <2>1. Width - n \in 0 .. Width /\ Width - (n - 1) \in 1 .. Width
          /\ (Width - (n - 1)) - 1 = Width - n
      BY <1>1
    <2>2. TwoTo[Width - (n - 1)] = 2 * TwoTo[Width - n] /\ TwoTo[Width - n] \in Nat \ {0}
      BY <2>1, Powers
    <2>3. a \div TwoTo[Width - (n - 1)] = (a \div TwoTo[Width - n]) \div 2
      BY <1>6, <2>2
    <2> QED
      BY <2>1, <2>3 DEF Bit
  <1>8. \A i \in 0 .. Width : a \div TwoTo[i] \in Nat
    BY <1>5, Powers
  <1> QED
    BY <1>2, <1>3, <1>4, <1>7, <1>8

(* Two addresses begin with the same n bits if they agree on all but the rest. *)
LEMMA PrefixBits ==
  ASSUME NEW a \in Addr, NEW b \in Addr, NEW n \in 0 .. Width
  PROVE  (\A i \in 1 .. n : Bit(a, Width - i) = Bit(b, Width - i))
             <=> a \div TwoTo[Width - n] = b \div TwoTo[Width - n]
  <1> DEFINE P(m) == \A i \in 1 .. m : Bit(a, Width - i) = Bit(b, Width - i)
             Q(m) == a \div TwoTo[Width - m] = b \div TwoTo[Width - m]
             T == {m \in 0 .. Width : P(m) <=> Q(m)}
  <1>0. Width \in Nat
    BY BlacklistAssumption
  <1>1. 0 \in T
    <2>1. 1 .. 0 = {} /\ Width - 0 = Width /\ 0 \in 0 .. Width
      BY <1>0
    <2>2. Q(0)
      BY <2>1, AddrBits
    <2>3. P(0)
      BY <2>1
    <2> QED
      BY <2>1, <2>2, <2>3
  <1>2. ASSUME NEW m \in 1 .. Width, m - 1 \in T PROVE m \in T
    <2>1. P(m - 1) <=> Q(m - 1)
      BY <1>2
    <2>2. P(m) <=> P(m - 1) /\ Bit(a, Width - m) = Bit(b, Width - m)
      <3>1. 1 .. m = (1 .. m - 1) \cup {m}
        BY <1>0
      <3> QED
        BY <3>1
    <2> DEFINE x == a \div TwoTo[Width - m]
               y == b \div TwoTo[Width - m]
    <2>3. /\ Width - m \in 0 .. Width
          /\ a \div TwoTo[Width - (m - 1)] = x \div 2 /\ Bit(a, Width - m) = x % 2
          /\ b \div TwoTo[Width - (m - 1)] = y \div 2 /\ Bit(b, Width - m) = y % 2
      BY AddrBits
    <2>4. x \in Nat /\ y \in Nat
      BY <2>3, AddrBits
    <2>5. Q(m - 1) <=> x \div 2 = y \div 2
      BY <2>3
    <2>6. Q(m) <=> x = y
      OBVIOUS
    <2> HIDE DEF x, y, P, Q
    <2>7. x \div 2 = y \div 2 /\ x % 2 = y % 2 <=> x = y
      BY <2>4
    <2>8. P(m) <=> Q(m)
      BY <2>1, <2>2, <2>3, <2>5, <2>6, <2>7
    <2>9. m \in 0 .. Width
      BY <1>0
    <2> QED
      BY <2>8, <2>9
  <1>3. 0 .. Width \subseteq T
    <2> HIDE DEF T
    <2> QED
      BY <1>0, <1>1, <1>2, UpTo
  <1>4. n \in T
    BY <1>3
  <1> QED
    BY <1>4

(* A key of the trie is the sequence of the bits it begins with. *)
LEMMA LeadingBitsOf ==
  ASSUME NEW a \in Addr, NEW n \in 0 .. Width
  PROVE  /\ LeadingBits(a, n) = [i \in 1 .. n |-> Bit(a, Width - i)]
         /\ Len(LeadingBits(a, n)) = n
  <1>1. Width \in Nat
    BY BlacklistAssumption
  <1> DEFINE w == Word(a)
  <1>2. \A i \in 1 .. Width : w[i] = Bit(a, Width - i)
    BY DEF Word
  <1>3. Len(w) = Width /\ w \in Seq({Bit(a, Width - i) : i \in 1 .. Width})
    <2> DEFINE B == {Bit(a, Width - i) : i \in 1 .. Width}
    <2>1. w \in [1 .. Width -> B]
      BY DEF Word
    <2> HIDE DEF w, B
    <2>2. w \in Seq(B) /\ Len(w) = Width
      BY <1>1, <2>1, FunctionIsSeq
    <2> QED
      BY <2>2 DEF B
  <1>4. SubSeq(w, 1, n) = [i \in 1 .. n |-> w[i]]
    <2> HIDE DEF w
    <2> QED
      BY <1>1, <1>3
  <1>5. \A i \in 1 .. n : i \in 1 .. Width
    BY <1>1
  <1> HIDE DEF w
  <1>6. SubSeq(w, 1, n) = [i \in 1 .. n |-> Bit(a, Width - i)]
    BY <1>2, <1>4, <1>5
  <1>7. Len(SubSeq(w, 1, n)) = n
    BY <1>1, <1>3
  <1> QED
    BY <1>6, <1>7 DEF LeadingBits, w

(* Two addresses begin with the same n bits if and only if they agree when    *)
(* the rest is shifted out: the trie's comparison of bits is the list's       *)
(* comparison of numbers.                                                     *)
LEMMA LeadingBitsEqual ==
  ASSUME NEW a \in Addr, NEW b \in Addr, NEW n \in 0 .. Width
  PROVE  LeadingBits(a, n) = LeadingBits(b, n)
             <=> a \div TwoTo[Width - n] = b \div TwoTo[Width - n]
  <1>1. /\ LeadingBits(a, n) = [i \in 1 .. n |-> Bit(a, Width - i)]
        /\ LeadingBits(b, n) = [i \in 1 .. n |-> Bit(b, Width - i)]
    BY LeadingBitsOf
  <1>2. LeadingBits(a, n) = LeadingBits(b, n)
            <=> \A i \in 1 .. n : Bit(a, Width - i) = Bit(b, Width - i)
    BY <1>1
  <1> QED
    BY <1>2, PrefixBits


(* An address is in a range if it begins with the bits that are its key.      *)
LEMMA RangeBits ==
  ASSUME NEW e \in Cidr, NEW a \in Addr
  PROVE  InRange(e, a) <=> LeadingBits(a, e.prefix) = TrieKey(e)
  <1> DEFINE k == TwoTo[Width - e.prefix]
             n == e.prefix
  <1>1. /\ e.ip \in Addr /\ n \in 0 .. Width /\ Start(e) \in Addr
        /\ Width - n \in 0 .. Width
    BY StartInt DEF Cidr
  <1>2. k \in Nat \ {0} /\ a \in Nat /\ e.ip \in Nat
    BY <1>1, AddrBits, Powers
  <1>3. Start(e) = e.ip - (e.ip % k) /\ End(e) = Start(e) + k - 1
    BY DEF Start, End
  <1> HIDE DEF k
  <1>4. \A x \in Nat, m \in Nat \ {0} : (x - (x % m)) \div m = x \div m
    OBVIOUS
  <1>5. \A x, y \in Nat, m \in Nat \ {0} :
            x - (x % m) <= y /\ y <= x - (x % m) + m - 1 <=> y \div m = x \div m
    OBVIOUS
  <1>6. Start(e) \div k = e.ip \div k
    BY <1>2, <1>3, <1>4
  <1>7. InRange(e, a) <=> a \div k = e.ip \div k
    <2> DEFINE x == e.ip
    <2>1. InRange(e, a) <=> x - (x % k) <= a /\ a <= x - (x % k) + k - 1
      BY <1>3 DEF InRange
    <2> HIDE DEF x
    <2>2. x - (x % k) <= a /\ a <= x - (x % k) + k - 1 <=> a \div k = x \div k
      BY <1>2, <1>5 DEF x
    <2> QED
      BY <2>1, <2>2 DEF x
  <1>8. LeadingBits(a, n) = TrieKey(e) <=> a \div k = Start(e) \div k
    BY <1>1, LeadingBitsEqual DEF TrieKey, k
  <1> QED
    BY <1>6, <1>7, <1>8

(* Keys of one length are of one prefix. *)
LEMMA KeyLengths ==
  ASSUME NEW e \in Cidr, NEW a \in Addr, NEW n \in 0 .. Width,
         LeadingBits(a, n) = TrieKey(e)
  PROVE  n = e.prefix
  <1>1. e.prefix \in 0 .. Width /\ Start(e) \in Addr
    BY StartInt DEF Cidr
  <1>2. Len(TrieKey(e)) = e.prefix /\ Len(LeadingBits(a, n)) = n
    BY <1>1, LeadingBitsOf DEF TrieKey
  <1> QED
    BY <1>2

TrieRun(f, s, D) ==
    /\ TrieOf(s) = f[Len(s)] /\ f[0] = EmptyTrie
    /\ \A i \in 0 .. Len(s) : f[i] \in D
    /\ \A i \in 1 .. Len(s) : f[i] = TrieInsert(f[i - 1], TrieKey(s[i]), i)

(* TrieOf, as a fold, is there for every list. *)
LEMMA TrieRuns ==
  ASSUME NEW s, Len(s) \in Nat
  PROVE  \E f : TrieRun(f, s, UNION {[K -> Nat] : K \in SUBSET {TrieKey(s[j]) : j \in 1 .. Len(s)}})
  <1> DEFINE n == Len(s)
             D == UNION {[K -> Nat] : K \in SUBSET {TrieKey(s[j]) : j \in 1 .. Len(s)}}
             G == [x \in D \X (1 .. n) |-> TrieInsert(x[1], TrieKey(s[x[2]]), x[2])]
             E(g) == [i \in 0 .. n |-> IF i = 0 THEN EmptyTrie ELSE TrieInsert(g[i - 1], TrieKey(s[i]), i)]
  <1>0. n \in Nat /\ \A i \in 1 .. n : i \in 0 .. n /\ i # 0
    OBVIOUS
  <1> DEFINE Keys == {TrieKey(s[j]) : j \in 1 .. n}
  <1>1. G \in [D \X (1 .. n) -> D] /\ EmptyTrie \in D
    <2>1. ASSUME NEW x \in D, NEW i \in 1 .. n PROVE TrieInsert(x, TrieKey(s[i]), i) \in D
      <3>1. PICK K \in SUBSET Keys : x \in [K -> Nat]
        OBVIOUS
      <3>2. TrieKey(s[i]) \in Keys /\ i \in Nat
        OBVIOUS
      <3> HIDE DEF Keys
      <3>3. TrieInsert(x, TrieKey(s[i]), i) \in [K \cup {TrieKey(s[i])} -> Nat]
        BY <3>1, <3>2 DEF TrieInsert
      <3>4. K \cup {TrieKey(s[i])} \in SUBSET Keys
        BY <3>2
      <3>5. D = UNION {[L -> Nat] : L \in SUBSET Keys}
        BY DEF Keys
      <3> HIDE DEF D
      <3> QED
        BY <3>3, <3>4, <3>5
    <2>4. EmptyTrie \in D
      <3>1. EmptyTrie \in [{} -> Nat] /\ {} \in SUBSET Keys
        BY DEF EmptyTrie
      <3> QED
        BY <3>1
    <2> HIDE DEF D, n
    <2>2. \A x \in D \X (1 .. n) : x[1] \in D /\ x[2] \in 1 .. n
      OBVIOUS
    <2>3. \A x \in D \X (1 .. n) : TrieInsert(x[1], TrieKey(s[x[2]]), x[2]) \in D
      BY <2>1, <2>2
    <2> QED
      BY <2>3, <2>4
  <1>2. ASSUME NEW f, NEW i \in 1 .. n, f[i - 1] \in D
        PROVE  G[<<f[i - 1], i>>] = TrieInsert(f[i - 1], TrieKey(s[i]), i)
    <2> HIDE DEF D, n
    <2> QED
      BY <1>2
  <1> HIDE DEF G, D, n
  <1>3. PICK f \in [0 .. n -> D] : Runs(f, n, D, EmptyTrie, G)
    BY <1>0, <1>1, RunExists
  <1>4. f = E(f)
    <2>1. \A i \in 1 .. n : i - 1 \in 0 .. n
      BY <1>0
    <2>2. f[0] = EmptyTrie /\ \A i \in 1 .. n : f[i] = TrieInsert(f[i - 1], TrieKey(s[i]), i)
      BY <1>2, <1>3, <2>1 DEF Runs
    <2>3. ASSUME NEW i \in 0 .. n PROVE f[i] = E(f)[i]
      <3>1. CASE i = 0
        BY <2>2, <3>1
      <3>2. CASE i \in 1 .. n
        BY <1>0, <2>2, <3>2
      <3> QED
        BY <1>0, <3>1, <3>2
    <2> QED
      BY <2>3
  <1> DEFINE F == CHOOSE g : g = E(g)
  <1>5. TrieOf(s) = F[n]
    BY DEF TrieOf, n
  <1> DEFINE e == E(F)
  <1>6. F = e
    BY <1>4
  <1> HIDE DEF F
  <1>7. F[0] = EmptyTrie /\ \A i \in 1 .. n : F[i] = TrieInsert(F[i - 1], TrieKey(s[i]), i)
    <2>1. e[0] = EmptyTrie
      BY <1>0
    <2>2. ASSUME NEW i \in 1 .. n PROVE e[i] = TrieInsert(F[i - 1], TrieKey(s[i]), i)
      BY <1>0
    <2> HIDE DEF e
    <2> QED
      BY <1>6, <2>1, <2>2
  <1>8. Runs(F, n, D, EmptyTrie, G)
    BY <1>0, <1>1, <1>2, <1>7, RunStays
  <1>9. TrieRun(F, s, D)
    BY <1>5, <1>7, <1>8 DEF Runs, TrieRun, n
  <1> QED
    BY <1>9 DEF D

(* The trie holds, for each key of the list, its last position. *)
LastOf(t, s, i) ==
    /\ t \in [DOMAIN t -> 1 .. i]
    /\ \A j \in 1 .. i : TrieKey(s[j]) \in DOMAIN t
    /\ \A k \in DOMAIN t : /\ TrieKey(s[t[k]]) = k
                           /\ \A j \in 1 .. i : TrieKey(s[j]) = k => j <= t[k]

(* The trie holds at each key the last position of the list that was written  *)
(* to it: a later insert replaces an earlier one.                             *)
LEMMA TrieHolds ==
  ASSUME NEW s, Len(s) \in Nat
  PROVE  LastOf(TrieOf(s), s, Len(s))
  <1> DEFINE n == Len(s)
             D == UNION {[K -> Nat] : K \in SUBSET {TrieKey(s[j]) : j \in 1 .. Len(s)}}
  <1>1. PICK f : TrieRun(f, s, D)
    BY TrieRuns
  <1>2. /\ TrieOf(s) = f[n] /\ f[0] = EmptyTrie
        /\ \A i \in 1 .. n : f[i] = TrieInsert(f[i - 1], TrieKey(s[i]), i)
    BY <1>1 DEF TrieRun
  <1> HIDE DEF D
  <1> DEFINE T == {i \in 0 .. n : LastOf(f[i], s, i)}
  <1>3. n \in Nat /\ n \in 0 .. n
    OBVIOUS
  <1>4. 0 \in T
    <2>1. f[0] = [k \in {} |-> 0] /\ 0 \in 0 .. n /\ 1 .. 0 = {}
      BY <1>2, <1>3 DEF EmptyTrie
    <2>2. LastOf(f[0], s, 0)
      BY <2>1 DEF LastOf
    <2> QED
      BY <2>1, <2>2
  <1>5. ASSUME NEW i \in 1 .. n, i - 1 \in T PROVE i \in T
    <2> DEFINE t == f[i - 1]
               u == f[i]
               key == TrieKey(s[i])
    <2>1. LastOf(t, s, i - 1) /\ i \in 0 .. n /\ i \in 1 .. i
      BY <1>3, <1>5
    <2>2. u = [k \in DOMAIN t \cup {key} |-> IF k = key THEN i ELSE t[k]]
      BY <1>2 DEF TrieInsert
    <2>3. 1 .. i = (1 .. i - 1) \cup {i} /\ \A j \in 1 .. i - 1 : j <= i
      OBVIOUS
    <2> HIDE DEF t, u, key
    <2>4. u \in [DOMAIN u -> 1 .. i]
      BY <2>1, <2>2, <2>3 DEF LastOf
    <2>5. \A j \in 1 .. i : TrieKey(s[j]) \in DOMAIN u
      BY <2>1, <2>2, <2>3 DEF LastOf, key
    <2>6. ASSUME NEW k \in DOMAIN u
          PROVE  TrieKey(s[u[k]]) = k /\ \A j \in 1 .. i : TrieKey(s[j]) = k => j <= u[k]
      <3>1. CASE k = key
        BY <2>2, <2>3, <3>1 DEF key
      <3>2. CASE k # key
        <4>1. k \in DOMAIN t /\ u[k] = t[k]
          BY <2>2, <3>2
        <4>2. TrieKey(s[t[k]]) = k /\ \A j \in 1 .. i - 1 : TrieKey(s[j]) = k => j <= t[k]
          BY <2>1, <4>1 DEF LastOf
        <4> QED
          BY <2>3, <3>2, <4>1, <4>2 DEF key
      <3> QED
        BY <3>1, <3>2
    <2>7. LastOf(u, s, i)
      BY <2>4, <2>5, <2>6 DEF LastOf
    <2> QED
      BY <2>1, <2>7 DEF u
  <1>6. 0 .. n \subseteq T
    <2> HIDE DEF T, n
    <2> QED
      BY <1>3, <1>4, <1>5, UpTo
  <1> QED
    BY <1>2, <1>3, <1>6

(* A lookup finds the position that the list itself names. *)
LEMMA LookupIsMatch ==
  ASSUME NEW s \in Seq(Cidr), NEW a \in Addr
  PROVE  TrieLookup(TrieOf(s), a) = MatchingEntry(s, a)
  <1> DEFINE t == TrieOf(s)
             at == {i \in DOMAIN s : InRange(s[i], a)}
             found == {n \in 0 .. Width : LeadingBits(a, n) \in DOMAIN t}
             longest == {m \in found : \A l \in found : l <= m}
  <1>0. DOMAIN s = 1 .. Len(s) /\ Len(s) \in Nat /\ \A i \in DOMAIN s : s[i] \in Cidr
    OBVIOUS
  <1>1. LastOf(t, s, Len(s))
    BY <1>0, TrieHolds
  <1>2. \A i \in DOMAIN s : s[i].prefix \in 0 .. Width /\ s[i].prefix \in Int
    BY <1>0, BlacklistAssumption DEF Cidr
  <1> HIDE DEF t
  <1>3. ASSUME NEW n \in 0 .. Width, NEW i \in DOMAIN s
        PROVE  TrieKey(s[i]) = LeadingBits(a, n) <=> i \in at /\ s[i].prefix = n
    <2>1. s[i] \in Cidr
      BY <1>0
    <2>2. InRange(s[i], a) <=> LeadingBits(a, s[i].prefix) = TrieKey(s[i])
      BY <2>1, RangeBits
    <2>3. LeadingBits(a, n) = TrieKey(s[i]) => n = s[i].prefix
      BY <2>1, KeyLengths
    <2> QED
      BY <2>2, <2>3
  <1>4. ASSUME NEW i \in at PROVE s[i].prefix \in found
    <2>1. TrieKey(s[i]) = LeadingBits(a, s[i].prefix)
      BY <1>2, <1>3
    <2> QED
      BY <1>0, <1>1, <1>2, <2>1 DEF LastOf
  <1>5. ASSUME NEW n \in found
        PROVE  /\ t[LeadingBits(a, n)] \in at /\ s[t[LeadingBits(a, n)]].prefix = n
               /\ \A j \in at : s[j].prefix = n => j <= t[LeadingBits(a, n)]
    <2> DEFINE k == LeadingBits(a, n)
               i == t[k]
    <2>1. k \in DOMAIN t /\ n \in 0 .. Width
      OBVIOUS
    <2>2. i \in DOMAIN s /\ TrieKey(s[i]) = k
      BY <1>0, <1>1, <2>1 DEF LastOf
    <2>3. \A j \in DOMAIN s : TrieKey(s[j]) = k => j <= i
      BY <1>0, <1>1, <2>1 DEF LastOf
    <2> HIDE DEF i
    <2>4. i \in at /\ s[i].prefix = n
      BY <1>3, <2>1, <2>2
    <2>5. \A j \in at : s[j].prefix = n => j <= i
      BY <1>3, <2>1, <2>3
    <2> QED
      BY <2>4, <2>5 DEF i
  <1>6. TrieLookup(t, a) = {t[LeadingBits(a, n)] : n \in longest}
    BY DEF TrieLookup
  <1>7. MatchingEntry(s, a) = {i \in at : \A j \in at :
                                  \/ s[j].prefix < s[i].prefix
                                  \/ s[j].prefix = s[i].prefix /\ j <= i}
    BY DEF MatchingEntry
  <1>8. found \subseteq Int /\ at \subseteq DOMAIN s
    BY BlacklistAssumption
  <1>8a. at \subseteq Int
    BY <1>0
  <1> HIDE DEF at, found
  <1>9. ASSUME NEW n \in longest PROVE t[LeadingBits(a, n)] \in MatchingEntry(s, a)
    <2> DEFINE i == t[LeadingBits(a, n)]
    <2>1. i \in at /\ s[i].prefix = n /\ \A j \in at : s[j].prefix = n => j <= i
      BY <1>5
    <2> HIDE DEF i
    <2>2. ASSUME NEW j \in at
          PROVE  s[j].prefix < s[i].prefix \/ (s[j].prefix = s[i].prefix /\ j <= i)
      <3>1. s[j].prefix <= n /\ s[j].prefix \in Int /\ n \in Int
        BY <1>2, <1>4, <1>8
      <3>2. s[j].prefix < n \/ s[j].prefix = n
        BY <3>1
      <3> QED
        BY <2>1, <3>2
    <2> QED
      BY <1>7, <2>1, <2>2 DEF i
  <1>10. ASSUME NEW i \in MatchingEntry(s, a) PROVE i \in TrieLookup(t, a)
    <2> DEFINE n == s[i].prefix
               k == t[LeadingBits(a, n)]
    <2>1. i \in at /\ n \in found /\ n \in Int
      BY <1>2, <1>4, <1>7, <1>8
    <2>2. ASSUME NEW l \in found PROVE l <= n
      <3>1. PICK j \in at : s[j].prefix = l
        BY <1>5
      <3>2. l < n \/ l = n
        BY <1>7, <3>1
      <3>3. l \in Int
        BY <1>8
      <3> QED
        BY <2>1, <3>2, <3>3
    <2>3. n \in longest
      BY <2>1, <2>2
    <2>4. k \in at /\ s[k].prefix = n /\ i <= k
      BY <1>5, <2>1
    <2> HIDE DEF k
    <2>5. k <= i
      <3>1. s[k].prefix < n \/ k <= i
        BY <1>7, <2>4
      <3> QED
        BY <2>1, <2>4, <3>1
    <2>6. k = i
      BY <1>8a, <2>1, <2>4, <2>5
    <2> QED
      BY <1>6, <2>3, <2>6 DEF k
  <1>11. TrieLookup(t, a) \subseteq MatchingEntry(s, a)
    BY <1>6, <1>9
  <1>12. MatchingEntry(s, a) \subseteq TrieLookup(t, a)
    BY <1>10
  <1> QED
    BY <1>11, <1>12 DEF t

(* Some range of R holds a. *)
Covers(R, a) == \E r \in R : r[1] <= a /\ a <= r[2]

(* The list names an entry for exactly the addresses that its ranges cover.   *)
LEMMA MatchIsCovered ==
  ASSUME NEW s \in Seq(Cidr), NEW a \in Addr
  PROVE  MatchingEntry(s, a) # {} <=> Covers(Ranges(s), a)
  <1> DEFINE at == {i \in DOMAIN s : InRange(s[i], a)}
             P == {s[i].prefix : i \in at}
  <1>0. DOMAIN s = 1 .. Len(s) /\ Len(s) \in Nat /\ \A i \in DOMAIN s : s[i] \in Cidr
    OBVIOUS
  <1>1. Covers(Ranges(s), a) <=> at # {}
    <2>1. ASSUME NEW i \in at PROVE Covers(Ranges(s), a)
      <3>1. RangeOf(s[i]) \in Ranges(s) /\ InRange(s[i], a)
        BY <1>0 DEF Ranges
      <3>2. RangeOf(s[i])[1] <= a /\ a <= RangeOf(s[i])[2]
        BY <3>1 DEF InRange, RangeOf
      <3> QED
        BY <3>1, <3>2 DEF Covers
    <2>2. ASSUME Covers(Ranges(s), a) PROVE at # {}
      <3>1. PICK r \in Ranges(s) : r[1] <= a /\ a <= r[2]
        BY <2>2 DEF Covers
      <3>2. PICK i \in DOMAIN s : r = RangeOf(s[i])
        BY <3>1 DEF Ranges
      <3>3. InRange(s[i], a)
        BY <3>1, <3>2 DEF InRange, RangeOf
      <3> QED
        BY <3>3
    <2> QED
      BY <2>1, <2>2
  <1>2. MatchingEntry(s, a) = {i \in at : \A j \in at :
                                  \/ s[j].prefix < s[i].prefix
                                  \/ s[j].prefix = s[i].prefix /\ j <= i}
    BY DEF MatchingEntry
  <1>3. ASSUME at # {} PROVE MatchingEntry(s, a) # {}
    <2>1. P \subseteq 0 .. Width /\ P # {} /\ Width \in Nat
      BY <1>0, <1>3, BlacklistAssumption DEF Cidr
    <2>2. PICK p \in P : \A q \in P : q <= p
      <3> HIDE DEF P
      <3> QED
        BY <2>1, LargestElement
    <2> DEFINE M == {i \in at : s[i].prefix = p}
    <2>3. M \subseteq 0 .. Len(s) /\ M # {}
      BY <1>0, <2>2
    <2>4. PICK i \in M : \A j \in M : j <= i
      <3> HIDE DEF M
      <3> QED
        BY <1>0, <2>3, LargestElement
    <2>5. ASSUME NEW j \in at
          PROVE  s[j].prefix < s[i].prefix \/ (s[j].prefix = s[i].prefix /\ j <= i)
      <3>1. s[j].prefix <= p /\ s[j].prefix \in Int /\ p \in Int /\ s[i].prefix = p
        BY <2>1, <2>2
      <3>2. s[j].prefix < p \/ s[j].prefix = p
        BY <3>1
      <3>3. s[j].prefix = p => j <= i
        BY <2>4
      <3> QED
        BY <3>1, <3>2, <3>3
    <2> QED
      BY <1>2, <2>5
  <1> QED
    BY <1>1, <1>2, <1>3

(* Neither a blank line nor one that does not parse is an address. *)
LEMMA BlankNoAddr == Blank \notin Addr /\ Bad \notin Addr /\ Blank # Bad
  BY DEF Blank, Bad, Addr

(* The kernel's check of a packet whose lengths agree is the list's own. *)
LEMMA StunChecks ==
  ASSUME NEW u \in Udp, Agrees(u)
  PROVE  /\ IsStunMessage(u) \in {"yes", "no"}
         /\ IsStunMessage(u) = "yes" <=> IsStunBindingMessage(u)
  <1>1. /\ u.room \in Nat /\ u.size \in Nat /\ u.claimed = u.room
        /\ StunHeader \in Nat /\ StunHeader >= 8
    BY StunAssumption DEF Udp, Agrees
  <1> QED
    BY <1>1 DEF IsStunMessage, IsStunBindingMessage

-----------------------------------------------------------------------------
(* The test command.                                                         *)

(* A run of Among only grows. *)
LEMMA AmongGrows ==
  ASSUME NEW A, NEW s \in Seq(A), NEW S, NEW f, AmongRun(f, s, S, Seq(A)),
         NEW i \in 0 .. Len(s), NEW j \in 0 .. Len(s), i <= j
  PROVE  Begins(f[i], f[j])
  <1> DEFINE m == Len(s)
             T == {k \in 0 .. m : i <= k => Begins(f[i], f[k])}
  <1>1. /\ m \in Nat /\ \A k \in 0 .. m : f[k] \in Seq(A)
        /\ \A k \in 1 .. m : f[k] = AmongStep(f[k - 1], s[k], S) /\ s[k] \in A
    BY DEF AmongRun
  <1>2. ASSUME NEW t \in Seq(A) PROVE Begins(t, t)
    BY DEF Begins
  <1>3. ASSUME NEW t \in Seq(A), NEW u \in Seq(A), NEW e \in A, Begins(t, u)
        PROVE  Begins(t, Append(u, e))
    <2>1. /\ Len(Append(u, e)) = Len(u) + 1 /\ Len(u) \in Nat /\ Len(t) \in Nat
          /\ \A k \in 1 .. Len(u) : Append(u, e)[k] = u[k]
      OBVIOUS
    <2> QED
      BY <1>3, <2>1 DEF Begins
  <1> HIDE DEF m
  <1>4. 0 \in T
    <2>1. i <= 0 => i = 0
      BY DEF m
    <2> QED
      BY <1>1, <1>2, <2>1
  <1>5. ASSUME NEW k \in 1 .. m, k - 1 \in T PROVE k \in T
    <2>1. k \in 0 .. m /\ k - 1 \in 0 .. m /\ i \in 0 .. m
      BY <1>1 DEF m
    <2>2. CASE i <= k - 1
      <3>1. Begins(f[i], f[k - 1])
        BY <1>5, <2>2
      <3>2. Begins(f[i], f[k])
        BY <1>1, <1>3, <2>1, <3>1 DEF AmongStep
      <3> QED
        BY <2>1, <3>2
    <2>3. CASE ~(i <= k - 1)
      <3>1. i <= k => i = k
        BY <1>1, <2>1, <2>3
      <3> QED
        BY <1>1, <1>2, <2>1, <3>1
    <2> QED
      BY <2>2, <2>3
  <1>6. 0 .. m \subseteq T
    <2> HIDE DEF T
    <2> QED
      BY <1>1, <1>4, <1>5, UpTo
  <1> QED
    BY <1>6 DEF m

(* What comes out is what Among keeps: two runs over equal elements agree. *)
LEMMA AmongPrefix ==
  ASSUME NEW A, NEW s \in Seq(A), NEW S, NEW D, NEW f, AmongRun(f, s, S, D),
         NEW m \in 0 .. Len(s)
  PROVE  Among(SubSeq(s, 1, m), S) = f[m]
  <1> DEFINE t == SubSeq(s, 1, m)
  <1>0. m \in Nat /\ \A i \in 0 .. m : i \in 0 .. Len(s)
    OBVIOUS
  <1>1. t \in Seq(A) /\ Len(t) = m /\ \A i \in 1 .. m : t[i] = s[i] /\ i \in 1 .. Len(s)
    OBVIOUS
  <1> HIDE DEF t
  <1>2. PICK g : AmongRun(g, t, S, Seq(A \cap S))
    BY <1>1, AmongRuns
  <1>3. /\ Among(t, S) = g[m] /\ g[0] = <<>>
        /\ \A i \in 1 .. m : g[i] = AmongStep(g[i - 1], s[i], S)
    BY <1>1, <1>2 DEF AmongRun
  <1>4. f[0] = <<>> /\ \A i \in 1 .. m : f[i] = AmongStep(f[i - 1], s[i], S)
    BY <1>1 DEF AmongRun
  <1> DEFINE T == {i \in 0 .. m : g[i] = f[i]}
  <1>5. 0 \in T
    BY <1>0, <1>3, <1>4
  <1>6. ASSUME NEW i \in 1 .. m, i - 1 \in T PROVE i \in T
    <2>1. g[i - 1] = f[i - 1]
      BY <1>6
    <2>2. g[i] = f[i] /\ i \in 0 .. m
      BY <1>0, <1>3, <1>4, <2>1
    <2> QED
      BY <2>2
  <1>7. 0 .. m \subseteq T
    <2> HIDE DEF T
    <2> QED
      BY <1>0, <1>5, <1>6, UpTo
  <1>8. m \in 0 .. m
    BY <1>0
  <1>9. g[m] = f[m]
    BY <1>7, <1>8
  <1> QED
    BY <1>3, <1>9 DEF t

(* What the loop of --stream goes through: its buffer, and what it printed. *)
FeedStates == [buffer : Seq(Addr \cup {Bad}), out : Seq([target : Addr, hit : BOOLEAN])]

(* feed takes a chunk in whatever state it is. *)
LEMMA FeedStays ==
  ASSUME NEW L, NEW x \in FeedStates, NEW a \in Addr \cup {Bad, Blank}
  PROVE  Feed(L, x, a) \in FeedStates
  <1> DEFINE b == IF a = Blank THEN x.buffer ELSE Append(x.buffer, a)
  <1>1. x.buffer \in Seq(Addr \cup {Bad}) /\ x.out \in Seq([target : Addr, hit : BOOLEAN])
    BY DEF FeedStates
  <1>2. b \in Seq(Addr \cup {Bad})
    BY <1>1
  <1> HIDE DEF b
  <1>3. CASE Len(b) = 1 /\ b[1] \in Addr
    <2>1. Element(L, b[1]) \in [target : Addr, hit : BOOLEAN]
      BY <1>3 DEF Element
    <2>2. Append(x.out, Element(L, b[1])) \in Seq([target : Addr, hit : BOOLEAN])
      BY <1>1, <2>1
    <2>3. Feed(L, x, a) = [buffer |-> <<>>, out |-> Append(x.out, Element(L, b[1]))]
      BY <1>3 DEF Feed, b
    <2> QED
      BY <2>2, <2>3 DEF FeedStates
  <1>4. CASE ~(Len(b) = 1 /\ b[1] \in Addr)
    <2>1. Feed(L, x, a) = [x EXCEPT !.buffer = b]
      BY <1>4 DEF Feed, b
    <2> QED
      BY <1>2, <2>1 DEF FeedStates
  <1> QED
    BY <1>3, <1>4

FeedRun(f, L, s, D) ==
    /\ StreamAnswers(L, s) = f[Len(s)].out /\ f[0] = [buffer |-> <<>>, out |-> <<>>]
    /\ \A i \in 0 .. Len(s) : f[i] \in D
    /\ \A i \in 1 .. Len(s) : f[i] = Feed(L, f[i - 1], s[i])

(* The feeding of a stream, as a fold, is there for every stream. *)
LEMMA FeedRuns ==
  ASSUME NEW L, NEW s, Len(s) \in Nat, \A i \in 1 .. Len(s) : s[i] \in Addr \cup {Bad, Blank}
  PROVE  \E f : FeedRun(f, L, s, FeedStates)
  <1> DEFINE n == Len(s)
             D == FeedStates
             G == [x \in D \X (1 .. n) |-> Feed(L, x[1], s[x[2]])]
             E(g) == [i \in 0 .. n |-> IF i = 0 THEN [buffer |-> <<>>, out |-> <<>>] ELSE Feed(L, g[i - 1], s[i])]
  <1>0. n \in Nat /\ \A i \in 1 .. n : i \in 0 .. n /\ i # 0
    OBVIOUS
  <1>1. G \in [D \X (1 .. n) -> D] /\ [buffer |-> <<>>, out |-> <<>>] \in D
    <2>1. ASSUME NEW x \in D, NEW i \in 1 .. n PROVE Feed(L, x, s[i]) \in D
      BY FeedStays
    <2>4. [buffer |-> <<>>, out |-> <<>>] \in D
      BY DEF FeedStates
    <2> HIDE DEF D, n
    <2>2. \A x \in D \X (1 .. n) : x[1] \in D /\ x[2] \in 1 .. n
      OBVIOUS
    <2>3. \A x \in D \X (1 .. n) : Feed(L, x[1], s[x[2]]) \in D
      BY <2>1, <2>2
    <2> QED
      BY <2>3, <2>4
  <1>2. ASSUME NEW f, NEW i \in 1 .. n, f[i - 1] \in D
        PROVE  G[<<f[i - 1], i>>] = Feed(L, f[i - 1], s[i])
    <2> HIDE DEF D, n
    <2> QED
      BY <1>2
  <1> HIDE DEF G, D, n
  <1>3. PICK f \in [0 .. n -> D] : Runs(f, n, D, [buffer |-> <<>>, out |-> <<>>], G)
    BY <1>0, <1>1, RunExists
  <1>4. f = E(f)
    <2>1. \A i \in 1 .. n : i - 1 \in 0 .. n
      BY <1>0
    <2>2. f[0] = [buffer |-> <<>>, out |-> <<>>] /\ \A i \in 1 .. n : f[i] = Feed(L, f[i - 1], s[i])
      BY <1>2, <1>3, <2>1 DEF Runs
    <2>3. ASSUME NEW i \in 0 .. n PROVE f[i] = E(f)[i]
      <3>1. CASE i = 0
        BY <2>2, <3>1
      <3>2. CASE i \in 1 .. n
        BY <1>0, <2>2, <3>2
      <3> QED
        BY <1>0, <3>1, <3>2
    <2> QED
      BY <2>3
  <1> DEFINE F == CHOOSE g : g = E(g)
  <1>5. StreamAnswers(L, s) = F[n].out
    BY DEF StreamAnswers, n
  <1> DEFINE e == E(F)
  <1>6. F = e
    BY <1>4
  <1> HIDE DEF F
  <1>7. F[0] = [buffer |-> <<>>, out |-> <<>>] /\ \A i \in 1 .. n : F[i] = Feed(L, F[i - 1], s[i])
    <2>1. e[0] = [buffer |-> <<>>, out |-> <<>>]
      BY <1>0
    <2>2. ASSUME NEW i \in 1 .. n PROVE e[i] = Feed(L, F[i - 1], s[i])
      BY <1>0
    <2> HIDE DEF e
    <2> QED
      BY <1>6, <2>1, <2>2
  <1>8. Runs(F, n, D, [buffer |-> <<>>, out |-> <<>>], G)
    BY <1>0, <1>1, <1>2, <1>7, RunStays
  <1>9. FeedRun(F, L, s, D)
    BY <1>5, <1>7, <1>8 DEF Runs, FeedRun, n
  <1> QED
    BY <1>9 DEF D

(* The truth about the addresses among some lines, from a set of those listed. *)
Truth(lines, listed) ==
    LET asked == Among(lines, Addr) IN
    [i \in DOMAIN asked |-> [target |-> asked[i], hit |-> asked[i] \in listed]]

(* What ip-blacklist-test answers to its arguments is the truth about a set,  *)
(* if the lookup in its list is membership of that set.                       *)
LEMMA AnswersTrue ==
  ASSUME NEW L, NEW listed, \A a \in Addr : MatchingEntry(L, a) # {} <=> a \in listed,
         NEW q \in Seq(Addr \cup {Bad, Blank})
  PROVE  Answers(L, q) = Truth(q, listed)
  <1> DEFINE asked == Among(q, Addr)
  <1>1. asked \in Seq((Addr \cup {Bad, Blank}) \cap Addr)
    BY AmongKeeps
  <1> HIDE DEF asked
  <1>2. \A i \in DOMAIN asked : asked[i] \in Addr
    BY <1>1
  <1>3. \A i \in DOMAIN asked : Element(L, asked[i])
                                    = [target |-> asked[i], hit |-> asked[i] \in listed]
    BY <1>2 DEF Element
  <1> QED
    BY <1>3 DEF Answers, Truth, asked

(* Up to the first line that is no address, the loop answers as Answers does.  *)
Answered(x, asked, listed) ==
    /\ x.buffer = <<>>
    /\ x.out = [i \in DOMAIN asked |-> [target |-> asked[i], hit |-> asked[i] \in listed]]

(* As long as no line is bad, feed answers each one truly ... *)
LEMMA FeedAnswers ==
  ASSUME NEW L, NEW listed, \A a \in Addr : MatchingEntry(L, a) # {} <=> a \in listed,
         NEW a \in Addr \cup {Blank}, NEW x \in FeedStates, NEW asked \in Seq(Addr),
         Answered(x, asked, listed)
  PROVE  Answered(Feed(L, x, a), AmongStep(asked, a, Addr), listed)
  <1>1. x.buffer = <<>>
    BY DEF Answered
  <1>2. CASE a = Blank
    <2>1. Blank \notin Addr
      BY BlankNoAddr
    <2>2. AmongStep(asked, a, Addr) = asked
      BY <1>2, <2>1 DEF AmongStep
    <2>3. Len(<<>>) = 0
      OBVIOUS
    <2>4. Feed(L, x, a) = [x EXCEPT !.buffer = <<>>]
      BY <1>1, <1>2, <2>3 DEF Feed
    <2> QED
      BY <2>2, <2>4 DEF Answered, FeedStates
  <1>3. CASE a # Blank
    <2>1. a \in Addr
      BY <1>3
    <2>2. Append(<<>>, a) = <<a>> /\ Len(<<a>>) = 1 /\ <<a>>[1] = a
      OBVIOUS
    <2>3. Feed(L, x, a) = [buffer |-> <<>>, out |-> Append(x.out, Element(L, a))]
      BY <1>1, <1>3, <2>1, <2>2 DEF Feed
    <2>4. AmongStep(asked, a, Addr) = Append(asked, a)
      BY <2>1 DEF AmongStep
    <2>5. Element(L, a) = [target |-> a, hit |-> a \in listed]
      BY <2>1 DEF Element
    <2> DEFINE F(z) == [i \in DOMAIN z |-> [target |-> z[i], hit |-> z[i] \in listed]]
               n == Len(asked)
               u == Append(asked, a)
               v == Append(F(asked), [target |-> a, hit |-> a \in listed])
    <2>6. n \in Nat /\ DOMAIN asked = 1 .. n
      OBVIOUS
    <2>7. DOMAIN u = 1 .. n + 1 /\ u[n + 1] = a /\ \A i \in 1 .. n : u[i] = asked[i]
      BY <2>6
    <2>8. F(asked) \in Seq([target : Addr, hit : BOOLEAN]) /\ Len(F(asked)) = n
      <3> DEFINE w == F(asked)
      <3>1. w \in [1 .. n -> [target : Addr, hit : BOOLEAN]]
        BY <2>6
      <3> HIDE DEF w, n
      <3>2. w \in Seq([target : Addr, hit : BOOLEAN]) /\ Len(w) = n
        BY <2>6, <3>1, FunctionIsSeq
      <3> QED
        BY <3>2 DEF w
    <2>9. /\ DOMAIN v = 1 .. n + 1 /\ v[n + 1] = [target |-> a, hit |-> a \in listed]
          /\ \A i \in 1 .. n : v[i] = [target |-> asked[i], hit |-> asked[i] \in listed]
      <3> DEFINE w == F(asked)
                 z == [target |-> a, hit |-> a \in listed]
      <3>1. \A i \in 1 .. n : w[i] = [target |-> asked[i], hit |-> asked[i] \in listed]
        BY <2>6
      <3>2. z \in [target : Addr, hit : BOOLEAN]
        BY <2>1
      <3> HIDE DEF w, z, n, F
      <3>3. /\ DOMAIN Append(w, z) = 1 .. n + 1 /\ Append(w, z)[n + 1] = z
            /\ \A i \in 1 .. n : Append(w, z)[i] = w[i]
        BY <2>6, <2>8, <3>2 DEF w
      <3> QED
        BY <3>1, <3>3 DEF w, z
    <2>10. v = F(u)
      <3>0. v \in Seq([target : Addr, hit : BOOLEAN])
        BY <2>1, <2>8
      <3> HIDE DEF v, u, n
      <3>1. ASSUME NEW i \in 1 .. n + 1
            PROVE  v[i] = [target |-> u[i], hit |-> u[i] \in listed]
        <4>1. CASE i = n + 1
          BY <2>7, <2>9, <4>1
        <4>2. CASE i \in 1 .. n
          BY <2>7, <2>9, <4>2
        <4> QED
          BY <2>6, <4>1, <4>2
      <3> QED
        BY <2>7, <2>9, <3>0, <3>1
    <2>11. x.out = F(asked)
      BY DEF Answered
    <2>12. Feed(L, x, a).buffer = <<>> /\ Feed(L, x, a).out = v
      BY <2>3, <2>5, <2>11
    <2> QED
      BY <2>4, <2>10, <2>12 DEF Answered
  <1> QED
    BY <1>2, <1>3

(* A line that does not parse stays in the buffer for good. *)
Stuck(x, out) ==
    x \in FeedStates /\ Len(x.buffer) >= 1 /\ x.buffer[1] = Bad /\ x.out = out

(* ... the first bad one leaves its line in the buffer ... *)
LEMMA GetsStuck ==
  ASSUME NEW L, NEW x \in FeedStates, x.buffer = <<>>
  PROVE  Stuck(Feed(L, x, Bad), x.out)
  <1>1. Bad \notin Addr /\ Bad # Blank
    BY BlankNoAddr
  <1>2. Append(<<>>, Bad) = <<Bad>> /\ Len(<<Bad>>) = 1 /\ <<Bad>>[1] = Bad
    OBVIOUS
  <1>3. Feed(L, x, Bad) = [x EXCEPT !.buffer = <<Bad>>]
    BY <1>1, <1>2 DEF Feed
  <1>4. Feed(L, x, Bad).buffer = <<Bad>> /\ Feed(L, x, Bad).out = x.out
    BY <1>3 DEF FeedStates
  <1>5. Feed(L, x, Bad) \in FeedStates
    BY FeedStays
  <1> QED
    BY <1>2, <1>4, <1>5 DEF Stuck

(* ... and from then on nothing is answered. *)
LEMMA StaysStuck ==
  ASSUME NEW L, NEW x, NEW out, Stuck(x, out), NEW a \in Addr \cup {Bad, Blank}
  PROVE  Stuck(Feed(L, x, a), out)
  <1> DEFINE b == IF a = Blank THEN x.buffer ELSE Append(x.buffer, a)
  <1>1. /\ x \in FeedStates /\ x.buffer \in Seq(Addr \cup {Bad})
        /\ Len(x.buffer) >= 1 /\ x.buffer[1] = Bad /\ x.out = out
    BY DEF Stuck, FeedStates
  <1>2. Len(b) >= 1 /\ b[1] = Bad
    <2>1. CASE a = Blank
      BY <1>1, <2>1
    <2>2. CASE a # Blank
      <3> DEFINE y == x.buffer
      <3>1. y \in Seq(Addr \cup {Bad}) /\ Len(y) >= 1 /\ y[1] = Bad /\ b = Append(y, a)
        BY <1>1, <2>2
      <3>2. Len(Append(y, a)) >= 1 /\ Append(y, a)[1] = y[1]
        <4> HIDE DEF y
        <4>1. Len(Append(y, a)) = Len(y) + 1 /\ \A i \in 1 .. Len(y) : Append(y, a)[i] = y[i]
          BY <3>1
        <4>2. Len(y) \in Nat /\ 1 \in 1 .. Len(y)
          BY <3>1
        <4> QED
          BY <3>1, <4>1, <4>2
      <3> QED
        BY <3>1, <3>2
    <2> QED
      BY <2>1, <2>2
  <1> HIDE DEF b
  <1>3. Bad \notin Addr
    BY BlankNoAddr
  <1>4. Feed(L, x, a) = [x EXCEPT !.buffer = b]
    BY <1>2, <1>3 DEF Feed, b
  <1>5. Feed(L, x, a).buffer = b /\ Feed(L, x, a).out = x.out
    BY <1>1, <1>4 DEF FeedStates
  <1>6. Feed(L, x, a) \in FeedStates
    BY <1>1, FeedStays
  <1> QED
    BY <1>1, <1>2, <1>5, <1>6 DEF Stuck

(* So a stream is answered truly up to its first bad line, and no further. *)
LEMMA StreamTrue ==
  ASSUME NEW L, NEW listed, \A a \in Addr : MatchingEntry(L, a) # {} <=> a \in listed,
         NEW q \in Seq(Addr \cup {Bad, Blank}), NEW n \in 0 .. Len(q),
         \A i \in 1 .. n : q[i] # Bad, n = Len(q) \/ q[n + 1] = Bad
  PROVE  StreamAnswers(L, q) = Truth(SubSeq(q, 1, n), listed)
  <1> DEFINE m == Len(q)
             Q == Addr \cup {Bad, Blank}
  <1>0. m \in Nat /\ n \in Nat /\ n <= m /\ \A i \in 1 .. m : q[i] \in Q
    OBVIOUS
  <1>1. PICK f : FeedRun(f, L, q, FeedStates)
    BY <1>0, FeedRuns
  <1>2. PICK g : AmongRun(g, q, Addr, Seq(Q \cap Addr))
    BY AmongRuns
  <1>3. /\ StreamAnswers(L, q) = f[m].out /\ f[0] = [buffer |-> <<>>, out |-> <<>>]
        /\ \A i \in 0 .. m : f[i] \in FeedStates
        /\ \A i \in 1 .. m : f[i] = Feed(L, f[i - 1], q[i])
    BY <1>1 DEF FeedRun
  <1>4. /\ g[0] = <<>> /\ \A i \in 0 .. m : g[i] \in Seq(Addr)
        /\ \A i \in 1 .. m : g[i] = AmongStep(g[i - 1], q[i], Addr)
    <2>1. Q \cap Addr = Addr
      OBVIOUS
    <2> QED
      BY <1>2, <2>1 DEF AmongRun
  <1>5. Truth(SubSeq(q, 1, n), listed)
            = [i \in DOMAIN g[n] |-> [target |-> g[n][i], hit |-> g[n][i] \in listed]]
    <2>1. q \in Seq(Q) /\ n \in 0 .. Len(q)
      OBVIOUS
    <2> HIDE DEF Q
    <2>2. Among(SubSeq(q, 1, n), Addr) = g[n]
      BY ONLY <1>2, <2>1, AmongPrefix
    <2> QED
      BY <2>2 DEF Truth
  <1> HIDE DEF m
  <1> DEFINE T == {i \in 0 .. n : Answered(f[i], g[i], listed)}
  <1>6. 0 \in T
    <2>1. Answered(f[0], g[0], listed)
      BY <1>3, <1>4 DEF Answered
    <2> QED
      BY <1>0, <2>1
  <1>7. ASSUME NEW i \in 1 .. n, i - 1 \in T PROVE i \in T
    <2>1. i \in 1 .. m /\ i - 1 \in 0 .. m /\ i \in 0 .. n
      BY <1>0
    <2>2. q[i] \in Addr \cup {Blank}
      BY <1>0, <2>1
    <2>3. f[i - 1] \in FeedStates /\ g[i - 1] \in Seq(Addr) /\ Answered(f[i - 1], g[i - 1], listed)
      BY <1>3, <1>4, <1>7, <2>1
    <2>4. Answered(Feed(L, f[i - 1], q[i]), AmongStep(g[i - 1], q[i], Addr), listed)
      BY <2>2, <2>3, FeedAnswers
    <2>5. Answered(f[i], g[i], listed)
      BY <1>3, <1>4, <2>1, <2>4
    <2> QED
      BY <2>1, <2>5
  <1>8. 0 .. n \subseteq T
    <2> HIDE DEF T
    <2> QED
      BY <1>0, <1>6, <1>7, UpTo
  <1>9. n \in 0 .. n
    BY <1>0
  <1>10. Answered(f[n], g[n], listed)
    BY <1>8, <1>9
  <1>11. f[n].out = Truth(SubSeq(q, 1, n), listed) /\ f[n].buffer = <<>> /\ f[n] \in FeedStates
    BY <1>0, <1>3, <1>5, <1>10 DEF Answered
  <1>12. CASE n = m
    BY <1>3, <1>11, <1>12
  <1>13. CASE n # m
    <2>1. q[n + 1] = Bad /\ n + 1 \in 1 .. m /\ (n + 1) - 1 = n
      BY <1>0, <1>13 DEF m
    <2> DEFINE out == f[n].out
               W == {i \in 0 .. m : i > n => Stuck(f[i], out)}
    <2>2. 0 \in W
      BY <1>0
    <2>3. ASSUME NEW i \in 1 .. m, i - 1 \in W PROVE i \in W
      <3>1. i \in 0 .. m /\ q[i] \in Q /\ f[i] = Feed(L, f[i - 1], q[i])
        BY <1>0, <1>3
      <3>2. CASE i <= n
        BY <1>0, <3>1, <3>2
      <3>3. CASE i = n + 1
        <4>1. Stuck(Feed(L, f[n], Bad), out)
          BY <1>11, GetsStuck
        <4>2. f[i] = Feed(L, f[n], Bad)
          BY <2>1, <3>1, <3>3
        <4> QED
          BY <3>1, <4>1, <4>2
      <3>4. CASE i > n + 1
        <4>1. i - 1 > n
          BY <1>0, <3>4
        <4>2. Stuck(f[i - 1], out)
          BY <2>3, <4>1
        <4>3. Stuck(f[i], out)
          BY <3>1, <4>2, StaysStuck
        <4> QED
          BY <3>1, <4>3
      <3> QED
        BY <1>0, <3>2, <3>3, <3>4
    <2>4. 0 .. m \subseteq W
      <3> HIDE DEF W
      <3> QED
        BY <1>0, <2>2, <2>3, UpTo
    <2>5. m \in 0 .. m /\ m > n
      BY <1>0, <1>13
    <2>6. Stuck(f[m], out)
      BY <2>4, <2>5
    <2> QED
      BY <1>3, <1>11, <2>6 DEF Stuck
  <1> QED
    BY <1>12, <1>13

-----------------------------------------------------------------------------
(* The command: who changes what.                                            *)

(* The maps of the command. *)
LEMMA Maps ==
  /\ Table = {Stun, Dry(0), Dry(1)} /\ Key = Addr
  /\ Stun # Dry(0) /\ Stun # Dry(1) /\ Dry(0) # Dry(1)
  /\ \A b \in {0, 1} : /\ Dry(b) \in Table /\ Dry(b) # Stun /\ 1 - b \in {0, 1}
                       /\ 1 - b # b /\ Dry(1 - b) # Dry(b) /\ 1 - (1 - b) = b
  BY XdpBlacklistAssumption DEF Stun, Dry

(* The steps that leave the maps, the probes and the iteration alone.          *)
Quiet ==
    \/ LoadFile \/ Add \/ AddEnd \/ Delete \/ Check \/ Sync \/ Detach \/ Attach \/ Leave
    \/ GetHit \/ GetEnd \/ ResetHit \/ WriteStun \/ WriteFails \/ DryRemoveEnd
    \/ \E a \in Addr : DryRemoveFails(a)

(* What else they leave alone. *)
LEMMA QuietCounters ==
  ASSUME Quiet PROVE UNCHANGED <<counters, pkt, received, misjudged, active, printed, straddled,
                                 args, base, tally, writeBuf, drainBuf>>
                     /\ (stunFile' = stunFile \/ WriteStun)
  <1>1. CASE LoadFile
    BY <1>1 DEF LoadFile, startRest, kernelRest, outHist
  <1>2. CASE Add
    BY <1>2 DEF Add, startRest, kernelRest, outHist
  <1>3. CASE AddEnd
    BY <1>3 DEF AddEnd, startRest, kernelRest, outHist
  <1>4. CASE Delete
    BY <1>4 DEF Delete, startRest, kernelRest, outHist
  <1>5. CASE Check
    BY <1>5 DEF Check, startRest, kernelRest, outHist
  <1>6. CASE Sync
    BY <1>6 DEF Sync, kernelRest, outHist
  <1>7. CASE Detach
    BY <1>7 DEF Detach, startRest, kernelRest, outHist
  <1>8. CASE Attach
    BY <1>8 DEF Attach, startRest, kernelRest, outHist
  <1>9. CASE Leave
    BY <1>9 DEF Leave, startRest, kernelRest, outHist
  <1>10. CASE GetHit
    BY <1>10 DEF GetHit, fileRest, dumpRest, loopRest
  <1>11. CASE GetEnd
    BY <1>11 DEF GetEnd, fileRest, dumpRest, loopRest
  <1>12. CASE ResetHit
    BY <1>12 DEF ResetHit, fileRest, dumpRest, loopRest
  <1>13. CASE WriteStun
    BY <1>13 DEF WriteStun, dumpRest, loopRest
  <1>14. CASE WriteFails
    BY <1>14 DEF WriteFails, fileRest, dumpRest, loopRest
  <1>15. CASE DryRemoveEnd
    BY <1>15 DEF DryRemoveEnd, dryRest, loopRest
  <1>16. CASE \E a \in Addr : DryRemoveFails(a)
    BY <1>16 DEF DryRemoveFails, dryRest, loopRest
  <1> QED
    BY <1>1, <1>2, <1>3, <1>4, <1>5, <1>6, <1>7, <1>8, <1>9, <1>10, <1>11, <1>12, <1>13,
       <1>14, <1>15, <1>16 DEF Quiet

(* The steps of a packet. *)
KernelStep ==
    \/ \E c \in CPU, p \in Packets(args) : Receive(c, p)
    \/ \E c \in CPU : PacketStep(c)

(* It changes neither the list nor what the task has. *)
LEMMA KernelLeaves ==
  ASSUME KernelStep PROVE UNCHANGED <<listMaps, active, attached, taskVars, outHist, dumped>>
  <1>1. CASE \E c \in CPU, p \in Packets(args) : Receive(c, p)
    BY <1>1 DEF Receive, hitHist
  <1>2. ASSUME NEW c \in CPU, PacketStep(c)
        PROVE  UNCHANGED <<listMaps, active, attached, taskVars, outHist, dumped>>
    <2>1. CASE Record(c)
      BY <2>1 DEF Record, hitHist
    <2>2. CASE Count(c)
      BY <2>2 DEF Count, hitHist
    <2>3. CASE HitLoad(c)
      BY <2>3 DEF HitLoad, hitRest
    <2>4. CASE HitStore(c)
      BY <2>4 DEF HitStore, hitRest
    <2> QED
      BY <1>2, <2>1, <2>2, <2>3, <2>4 DEF PacketStep
  <1> QED
    BY <1>1, <1>2 DEF KernelStep

(* The steps of the loop that iterate.  *)
LEMMA StunOrNotDoes ==
  ASSUME StunOrNot
  PROVE  \/ args.stun /\ IterStart(Stun) /\ upc' = "stun" /\ base' = recorded[Stun] /\ tally' = NoCounts
         \/ ~args.stun /\ upc' = "run" /\ UNCHANGED <<counters, base, tally>>
  BY DEF StunOrNot

Iterates ==
    \/ IterEnd
    \/ \E t \in Table : IterStart(t)
    \/ \E a \in Key : IterKey(a) \/ IterAgain(a)

(* The task between its ticks: it leaves the kernel's maps alone ...           *)
LoopStep ==
    \/ Tick \/ WriteHits \/ StunEnd \/ Turn \/ DryPrint
    \/ \E a \in Addr : ReadStun(a) \/ ReadDry(a)

(* ... except for reading them. *)
LEMMA LoopIterates ==
  ASSUME LoopStep
  PROVE  /\ Iterates \/ UNCHANGED counters
         /\ UNCHANGED <<listMaps, received, pkt, misjudged, args, entries, attached, hits, bumped,
                        raced, stunFile>>
  <1>1. CASE Tick
    BY <1>1, StunOrNotDoes, Maps DEF Tick, dumpRest, loopRest, hitHist, Iterates
  <1>2. CASE WriteHits
    BY <1>2, StunOrNotDoes, Maps DEF WriteHits, dumpRest, loopRest, hitHist, Iterates
  <1>3. CASE StunEnd
    BY <1>3 DEF StunEnd, dumpRest, loopRest, hitHist, Iterates
  <1>4. CASE Turn
    <2>1. Turn => IterStart(Dry(drainBuf')) /\ Dry(drainBuf') \in Table
      BY Maps DEF Turn, Dry
    <2> QED
      BY <1>4, <2>1 DEF Turn, dryRest, loopRest, hitHist, Iterates
  <1>5. CASE DryPrint
    BY <1>5 DEF DryPrint, dryRest, loopRest, hitHist, Iterates
  <1>6. CASE \E a \in Addr : ReadStun(a)
    BY <1>6, Maps DEF ReadStun, dumpRest, loopRest, hitHist, Iterates
  <1>7. CASE \E a \in Addr : ReadDry(a)
    BY <1>7, Maps DEF ReadDry, dryRest, loopRest, hitHist, Iterates
  <1> QED
    BY <1>1, <1>2, <1>3, <1>4, <1>5, <1>6, <1>7 DEF LoopStep

(* Next, as these groups of steps. *)
LEMMA Steps ==
  ASSUME Next
  PROVE  KernelStep \/ Quiet \/ LoopStep \/ \E a \in Addr : DryRemove(a)
  BY DEF Next, TaskStep, KernelStep, Quiet, LoopStep

-----------------------------------------------------------------------------
(* The counters.                                                             *)

(* record_dry_run_ip and record_stun_pass begin to count, in the map the mode *)
(* and DRY_RUN_ACTIVE_BUF name.                                               *)
LEMMA RecordKeeps ==
  ASSUME IInv, NEW c \in CPU, Record(c)
  PROVE  /\ CountersInv' /\ UNCHANGED <<tables, filterOn, it, iterating, recorded, collided, orphaned>>
         /\ \A d \in CPU \ {c} : probe'[d] = probe[d]
         /\ probe'[c].pc = "lookup" /\ probe'[c].add = 1
         /\ probe'[c].map = IF Job(c).kind = "dry" THEN Dry(active) ELSE Stun
  <1> DEFINE m == IF Job(c).kind = "dry" THEN Dry(active) ELSE Stun
             p == [IdleProbe EXCEPT !.pc = "lookup", !.key = Job(c).ip, !.add = 1, !.map = m]
  <1>1. /\ CountersInv /\ CountersType /\ active \in {0, 1} /\ pkt[c].jobs # <<>>
        /\ pkt[c].jobs \in Seq([kind : {"dry", "stun", "hit"}, ip : Addr])
    BY DEF IInv, TypeOK, CountersInv, Record
  <1>2. Job(c) \in [kind : {"dry", "stun", "hit"}, ip : Addr]
    <2> DEFINE s == pkt[c].jobs
    <2>1. s # <<>> /\ s \in Seq([kind : {"dry", "stun", "hit"}, ip : Addr]) /\ Job(c) = Head(s)
      BY <1>1 DEF Job
    <2> HIDE DEF s
    <2> QED
      BY <2>1, HeadTailProperties
  <1>3. m \in Table /\ Job(c).ip \in Key
    BY <1>1, <1>2, Maps
  <1> HIDE DEF m
  <1>4. p \in ProbeType /\ p.pc = "lookup" /\ p.add = 1 /\ p.map = m
    BY <1>3, IdleType DEF ProbeType
  <1>5. Becomes(c, p) /\ UNCHANGED <<tables, filterOn, it, iterating, recorded, collided, orphaned>>
    BY DEF Record, m
  <1> HIDE DEF p
  <1>6. CountersInv'
    <2>1. collided' \in BOOLEAN /\ (collided => collided')
      BY <1>1, <1>5 DEF CountersType
    <2>2. ~Works(p)
      BY <1>4 DEF Works
    <2> QED
      BY <1>1, <1>4, <1>5, <2>1, <2>2, ProbeMoves
  <1>7. probe'[c] = p /\ \A d \in CPU \ {c} : probe'[d] = probe[d]
    BY <1>1, <1>4, <1>5, ProbeChange
  <1> QED
    BY <1>4, <1>5, <1>6, <1>7 DEF m

(* A probe goes on counting the address it began with. *)
LEMMA CountKeeps ==
  ASSUME IInv, NEW c \in CPU, Count(c)
  PROVE  /\ CountersInv' /\ Effect(c)
         /\ probe[c].pc # "idle" /\ \A d \in CPU \ {c} : probe'[d] = probe[d]
         /\ probe'[c] = IdleProbe \/ Follows(probe[c], probe'[c])
  <1>1. CountersInv /\ ProbeStep(c)
    BY DEF IInv, Count, ProbeStep
  <1> QED
    BY <1>1, ProbeKeeps, ProbeGoesOn

(* An iteration leaves the counters in order. *)
LEMMA IteratesKeeps ==
  ASSUME CountersInv, Iterates PROVE CountersInv' /\ UNCHANGED kernelSide
  <1>1. CASE IterEnd
    <2>1. \E k \in Key, t \in Table : TRUE
      BY CounterMapsAssumption
    <2> QED
      BY <1>1, <2>1, IterKeeps
  <1>2. CASE \E t \in Table : IterStart(t)
    <2>1. \E k \in Key : TRUE
      BY CounterMapsAssumption
    <2> QED
      BY <1>2, <2>1, IterKeeps
  <1>3. CASE \E a \in Key : IterKey(a) \/ IterAgain(a)
    <2>1. \E t \in Table : TRUE
      BY CounterMapsAssumption
    <2> QED
      BY <1>3, <2>1, IterKeeps
  <1> QED
    BY <1>1, <1>2, <1>3 DEF Iterates

(* So does who leaves them alone. *)
LEMMA CountersSame ==
  ASSUME CountersInv, UNCHANGED counters PROVE CountersInv'
  <1>1. filterOn' \in BOOLEAN
    BY DEF CountersInv, CountersType, counters
  <1> QED
    BY <1>1, CountersStay DEF counters

(* Every step of the program keeps the counters in order: what                *)
(* CounterMapsProofs proves of the three maps holds here.                     *)
LEMMA CountersKept ==
  ASSUME IInv, Next PROVE CountersInv'
  <1>0. CountersInv
    BY DEF IInv
  <1>1. CASE KernelStep
    <2>1. CASE \E c \in CPU, p \in Packets(args) : Receive(c, p)
      <3>1. UNCHANGED counters
        BY <2>1 DEF Receive
      <3> QED
        BY <1>0, <3>1, CountersSame
    <2>2. ASSUME NEW c \in CPU, PacketStep(c) PROVE CountersInv'
      <3>1. CASE Record(c)
        BY <3>1, RecordKeeps
      <3>2. CASE Count(c)
        BY <3>2, CountKeeps
      <3>3. CASE HitLoad(c) \/ HitStore(c)
        <4>1. UNCHANGED counters
          BY <3>3 DEF HitLoad, HitStore, hitRest
        <4> QED
          BY <1>0, <4>1, CountersSame
      <3> QED
        BY <2>2, <3>1, <3>2, <3>3 DEF PacketStep
    <2> QED
      BY <1>1, <2>1, <2>2 DEF KernelStep
  <1>2. CASE Quiet
    BY <1>0, <1>2, QuietCounters, CountersSame
  <1>3. CASE LoopStep
    BY <1>0, <1>3, LoopIterates, IteratesKeeps, CountersSame
  <1>4. CASE \E a \in Addr : DryRemove(a)
    <2>1. \E a \in Key : RemoveKey(a)
      BY <1>4, Maps DEF DryRemove
    <2> QED
      BY <1>0, <2>1, RemoveKeeps
  <1> QED
    BY <1>1, <1>2, <1>3, <1>4, Steps

-----------------------------------------------------------------------------
(* run() up to the loop, and the list.                                       *)

(* What the command line can be. *)
LEMMA ArgsType ==
  ASSUME args \in CommandLines
  PROVE  /\ args.file \in Seq(Line) /\ args.add \in Seq(Line) /\ args.delete \in Seq(Line)
         /\ args.proto \subseteq Proto /\ args.dry \in BOOLEAN
         /\ Len(args.add) \in Nat /\ Len(args.delete) \in Nat
  BY XdpBlacklistAssumption DEF Args, Proto

(* One more line read of a text is one more range. *)
LEMMA RangesStep ==
  ASSUME NEW A, NEW s \in Seq(A), NEW i \in 1 .. Len(s)
  PROVE  Ranges(SubSeq(s, 1, i))
             = Ranges(SubSeq(s, 1, i - 1)) \cup (IF s[i] \in Cidr THEN {RangeOf(s[i])} ELSE {})
  <1> DEFINE t == SubSeq(s, 1, i - 1)
  <1>1. t \in Seq(A) /\ s[i] \in A
    OBVIOUS
  <1>2. SubSeq(s, 1, i) = Append(t, s[i])
    <2>1. 1 \in 1 .. Len(s) /\ i \in 1 .. Len(s)
      OBVIOUS
    <2>2. SubSeq(s, 1, i) = t \o <<s[i]>>
      BY <2>1, SubSeqRecursiveSecond
    <2> HIDE DEF t
    <2> QED
      BY <1>1, <2>2, AppendIsConcat
  <1> DEFINE e == s[i]
  <1> HIDE DEF t, e
  <1>3. e \in A
    BY <1>1 DEF e
  <1>4. Ranges(Append(t, e)) = Ranges(t) \cup (IF e \in Cidr THEN {RangeOf(e)} ELSE {})
    BY <1>1, <1>3, RangesAppend
  <1> QED
    BY <1>2, <1>4 DEF t, e

(* Before the first line there is none, after the last all are read. *)
LEMMA RangesEnds ==
  ASSUME NEW A, NEW s \in Seq(A)
  PROVE  Ranges(SubSeq(s, 1, 0)) = {} /\ Ranges(<<>>) = {} /\ SubSeq(s, 1, Len(s)) = s
  <1>1. SubSeq(s, 1, 0) = <<>> /\ SubSeq(s, 1, Len(s)) = s /\ DOMAIN <<>> = {}
    OBVIOUS
  <1>2. Ranges(<<>>) = {}
    BY <1>1 DEF Ranges
  <1> QED
    BY <1>1, <1>2

UpcType == {"load", "add", "delete", "sync", "detach", "attach", "run", "get",
            "reset", "stun", "write", "dryRead", "dryRemove", "exited", "failed"}

ListType == /\ entries \in Seq(Cidr) /\ done \in Nat /\ upc \in UpcType /\ attached \in BOOLEAN
            /\ args \in CommandLines

StartStep ==
    \/ LoadFile \/ Add \/ AddEnd \/ Delete \/ Check \/ Detach \/ Attach \/ Leave

Reading == {"load", "add", "delete", "sync"}

(* run() up to its loop: the list follows the texts. *)
LEMMA StartKeeps ==
  ASSUME IInv, StartStep
  PROVE  UNCHANGED startRest /\ ListType' /\ Listing' /\ Enforced'
  <1>0. /\ ListType /\ Listing /\ Enforced /\ args \in CommandLines /\ done \in Nat
        /\ Len(args.add) \in Nat /\ Len(args.delete) \in Nat
        /\ args.file \in Seq(Line) /\ args.add \in Seq(Line) /\ args.delete \in Seq(Line)
    BY ArgsType DEF IInv, TypeOK, ListType, UpcType
  <1>1. UNCHANGED startRest
    BY DEF StartStep, LoadFile, Add, AddEnd, Delete, Check, Detach, Attach, Leave
  <1>2. UNCHANGED <<args, trie, dryRun, config, hits, bumped, dumped, Asked>>
    BY <1>1 DEF startRest, listMaps, hitHist, Asked, ListedAfter
  <1>3. \A i, j : ListedAfter(i, j)' = ListedAfter(i, j)
    BY <1>2 DEF ListedAfter
  <1>a. (Synced <=> Synced') /\ (~Synced => hits = <<>>)
    BY <1>0, <1>2 DEF Synced, Enforced
  (* Before Sync only the program counter and the list matter. *)
  <1>4. ASSUME upc \in Reading, attached' = FALSE \/ UNCHANGED attached,
               upc' \in Reading \/ upc' = "exited"
        PROVE  Enforced'
    <2>1. ~Synced /\ ~attached /\ ~attached'
      BY <1>0, <1>4 DEF Enforced, Reading
    <2> QED
      BY <1>0, <1>2, <1>4, <1>a, <2>1 DEF Enforced, Reading
  (* After it, only the program counter does. *)
  <1>5. ASSUME upc \notin Reading, upc # "exited", UNCHANGED entries,
               upc' \notin Reading
        PROVE  Enforced'
    <2>1. Synced
      BY <1>0, <1>5 DEF Enforced, Reading
    <2> QED
      BY <1>0, <1>2, <1>5, <1>a, <2>1 DEF Enforced, Reading
  <1>6. CASE LoadFile
    <2>1. /\ ParseText(args.file) \in Seq(Cidr)
          /\ Ranges(ParseText(args.file)) = Ranges(args.file)
      BY <1>0, ParseRanges
    <2>2. /\ Merge(<<>>, ParseText(args.file)) \in Seq(Cidr)
          /\ Ranges(Merge(<<>>, ParseText(args.file)))
                 = Ranges(<<>>) \cup Ranges(ParseText(args.file))
      <3>1. <<>> \in Seq(Cidr)
        OBVIOUS
      <3> QED
        BY <2>1, <3>1, MergeRanges
    <2>3. entries' \in Seq(Cidr) /\ Ranges(entries') = Ranges(args.file)
      BY <1>0, <1>6, <2>1, <2>2, RangesEnds DEF LoadFile
    <2>4. upc = "load" /\ upc' = "add" /\ UNCHANGED <<attached, done>> /\ done = 0
      BY <1>0, <1>6 DEF LoadFile, Listing
    <2>5. ListedAfter(0, 0) = Ranges(args.file)
      BY <1>0, RangesEnds DEF ListedAfter
    <2>6. Listing'
      BY <1>0, <1>2, <1>3, <2>3, <2>4, <2>5 DEF Listing
    <2>7. Enforced'
      BY <1>4, <2>4 DEF Reading
    <2> QED
      BY <1>0, <1>1, <1>2, <2>3, <2>4, <2>6, <2>7 DEF ListType, UpcType
  <1>7. CASE Add
    <2> DEFINE e == args.add[done + 1]
    <2>1. /\ upc = "add" /\ done + 1 \in 1 .. Len(args.add) /\ e \in Cidr /\ done' = done + 1
          /\ entries' = AddCidr(entries, e) /\ UNCHANGED <<attached, upc>>
          /\ Ranges(entries) = ListedAfter(done, 0) /\ (done + 1) - 1 = done
      BY <1>0, <1>7 DEF Add, Listing
    <2>2. entries' \in Seq(Cidr) /\ Ranges(entries') = Ranges(entries) \cup {RangeOf(e)}
      BY <1>0, <2>1, AddRanges DEF ListType
    <2>3. Ranges(SubSeq(args.add, 1, done + 1)) = Ranges(SubSeq(args.add, 1, done)) \cup {RangeOf(e)}
      BY <1>0, <2>1, RangesStep
    <2>4. Ranges(SubSeq(args.delete, 1, 0)) = {}
      BY <1>0, RangesEnds
    <2>5. Ranges(entries') = ListedAfter(done + 1, 0)
      BY <2>1, <2>2, <2>3, <2>4 DEF ListedAfter
    <2>6. Listing'
      BY <1>0, <1>2, <1>3, <2>1, <2>5 DEF Listing
    <2>7. Enforced'
      BY <1>4, <2>1 DEF Reading
    <2> QED
      BY <1>0, <1>1, <1>2, <2>1, <2>2, <2>6, <2>7 DEF ListType, UpcType
  <1>8. CASE AddEnd
    <2>1. /\ upc = "add" /\ done = Len(args.add) /\ upc' = "delete" /\ done' = 0
          /\ UNCHANGED <<attached, entries>> /\ Ranges(entries) = ListedAfter(done, 0)
      BY <1>0, <1>8 DEF AddEnd, Listing
    <2>6. Listing'
      BY <1>0, <1>2, <1>3, <2>1 DEF Listing
    <2>7. Enforced'
      BY <1>4, <2>1 DEF Reading
    <2> QED
      BY <1>0, <1>1, <1>2, <2>1, <2>6, <2>7 DEF ListType, UpcType
  <1>9. CASE Delete
    <2> DEFINE e == args.delete[done + 1]
    <2>1. /\ upc = "delete" /\ done + 1 \in 1 .. Len(args.delete) /\ e \in Cidr /\ done' = done + 1
          /\ entries' = RemoveCidr(entries, e) /\ UNCHANGED <<attached, upc>>
          /\ Ranges(entries) = ListedAfter(Len(args.add), done) /\ (done + 1) - 1 = done
      BY <1>0, <1>9 DEF Delete, Listing
    <2>2. entries' \in Seq(Cidr) /\ Ranges(entries') = Ranges(entries) \ {RangeOf(e)}
      BY <1>0, <2>1, RemoveRanges DEF ListType
    <2>3. Ranges(SubSeq(args.delete, 1, done + 1))
              = Ranges(SubSeq(args.delete, 1, done)) \cup {RangeOf(e)}
      BY <1>0, <2>1, RangesStep
    <2>5. Ranges(entries') = ListedAfter(Len(args.add), done + 1)
      BY <2>1, <2>2, <2>3 DEF ListedAfter
    <2>6. Listing'
      BY <1>0, <1>2, <1>3, <2>1, <2>5 DEF Listing
    <2>7. Enforced'
      BY <1>4, <2>1 DEF Reading
    <2> QED
      BY <1>0, <1>1, <1>2, <2>1, <2>2, <2>6, <2>7 DEF ListType, UpcType
  <1>10. CASE Check
    <2>1. /\ upc = "delete" /\ done = Len(args.delete) /\ upc' = "sync" /\ done' = 0
          /\ UNCHANGED <<attached, entries>> /\ Ranges(entries) = ListedAfter(Len(args.add), done)
          /\ entries # <<>>
      BY <1>0, <1>10 DEF Check, Listing
    <2>6. Listing'
      BY <1>0, <1>2, <1>3, <2>1 DEF Listing, Asked
    <2>7. Enforced'
      BY <1>4, <2>1 DEF Reading
    <2> QED
      BY <1>0, <1>1, <1>2, <2>1, <2>6, <2>7 DEF ListType, UpcType
  <1>11. CASE Detach \/ Attach
    <2>1. /\ upc \in {"detach", "attach"} /\ upc' \in {"attach", "run"}
          /\ UNCHANGED <<entries, done>> /\ attached' \in BOOLEAN
      BY <1>0, <1>11 DEF Detach, Attach, ListType
    <2>6. Listing'
      BY <2>1 DEF Listing
    <2>7. Enforced'
      BY <1>5, <2>1 DEF Reading
    <2> QED
      BY <1>0, <1>1, <1>2, <2>1, <2>6, <2>7 DEF ListType, UpcType
  <1>12. CASE Leave
    <2>1. /\ upc \in Reading \cup {"detach", "attach", "run"} /\ upc' = "exited"
          /\ attached' = FALSE /\ UNCHANGED <<entries, done>>
      BY <1>12 DEF Leave, Exit, Reading
    <2>6. Listing'
      BY <2>1 DEF Listing
    <2>7. Enforced'
      BY <1>4, <1>5, <2>1 DEF Reading
    <2> QED
      BY <1>0, <1>1, <1>2, <2>1, <2>6, <2>7 DEF ListType, UpcType
  <1> QED
    BY <1>6, <1>7, <1>8, <1>9, <1>10, <1>11, <1>12 DEF StartStep

(* A lookup returns positions of the list, and something where it covers.      *)
LEMMA LookupPositions ==
  ASSUME NEW s \in Seq(Cidr), NEW a \in Addr
  PROVE  /\ TrieLookup(TrieOf(s), a) \subseteq 1 .. Len(s)
         /\ TrieLookup(TrieOf(s), a) # {} <=> Covers(Ranges(s), a)
  <1>1. TrieLookup(TrieOf(s), a) = MatchingEntry(s, a)
    BY LookupIsMatch
  <1>2. MatchingEntry(s, a) \subseteq 1 .. Len(s)
    BY DEF MatchingEntry
  <1> QED
    BY <1>1, <1>2, MatchIsCovered

(* The maps are written. *)
LEMMA SyncKeeps ==
  ASSUME IInv, Sync
  PROVE  /\ ListType' /\ Listing' /\ Enforced'
         /\ UNCHANGED <<kernelRest, active, raced, attached, args, got, tally, writeBuf, drainBuf>>
         /\ upc = "sync" /\ upc' = "detach" /\ ~attached /\ ~Synced
         /\ trie' \in [DOMAIN trie' -> 1 .. MaxRanges]
         /\ dryRun' \in BOOLEAN /\ config' \subseteq Proto
         /\ hits' = [i \in 1 .. Len(entries) |-> 0] /\ bumped' = hits' /\ dumped' = hits'
         /\ hits' \in Seq(Nat) /\ entries' = entries
  <1>0. /\ ListType /\ Listing /\ Enforced /\ args \in CommandLines
        /\ args.dry \in BOOLEAN /\ args.proto \subseteq Proto
    BY ArgsType DEF IInv, TypeOK, ListType, UpcType
  <1>1. /\ upc = "sync" /\ upc' = "detach" /\ Len(entries) <= MaxRanges
        /\ trie' = TrieOf(entries) /\ dryRun' = args.dry /\ config' = args.proto
        /\ hits' = [i \in DOMAIN entries |-> 0] /\ bumped' = hits' /\ dumped' = hits'
        /\ UNCHANGED <<kernelRest, active, raced, attached, args, entries, done, got, tally,
                       writeBuf, drainBuf>>
    BY DEF Sync
  <1> DEFINE n == Len(entries)
  <1>2. n \in Nat /\ DOMAIN entries = 1 .. n /\ entries # <<>> /\ n # 0 /\ 1 \in 1 .. n
    BY <1>0, <1>1 DEF ListType, Listing
  <1>3. LastOf(TrieOf(entries), entries, n)
    BY <1>2, TrieHolds
  <1>4. /\ TrieOf(entries) \in [DOMAIN TrieOf(entries) -> 1 .. n]
        /\ DOMAIN TrieOf(entries) # {}
    BY <1>2, <1>3 DEF LastOf
  <1>5. MaxRanges \in Nat /\ 1 .. n \subseteq 1 .. MaxRanges
    BY <1>1, <1>2, BlacklistAssumption
  <1> HIDE DEF n
  <1>6. trie' \in [DOMAIN trie' -> 1 .. MaxRanges]
    BY <1>1, <1>4, <1>5
  <1>7. trie' # EmptyTrie
    BY <1>1, <1>4 DEF EmptyTrie
  <1>8. hits' = [i \in 1 .. n |-> 0] /\ hits' \in Seq(Nat) /\ Len(hits') = n
    <2> DEFINE h == [i \in 1 .. n |-> 0]
    <2>1. h \in [1 .. n -> Nat]
      OBVIOUS
    <2> HIDE DEF h
    <2>2. h \in Seq(Nat) /\ Len(h) = n
      BY <1>2, <2>1, FunctionIsSeq
    <2>3. hits' = h
      BY <1>1, <1>2 DEF h
    <2> QED
      BY <2>2, <2>3 DEF h
  <1>9. Ranges(entries) = Asked /\ Asked' = Asked
    BY <1>0, <1>1 DEF Listing, Asked, ListedAfter
  <1>10. ~Synced /\ ~attached
    BY <1>0, <1>1 DEF Enforced
  <1>11. Synced'
    BY <1>7 DEF Synced
  <1>12. Enforced'
    BY <1>1, <1>8, <1>9, <1>11 DEF Enforced, n
  <1>13. Listing'
    BY <1>1 DEF Listing
  <1>14. ListType'
    BY <1>0, <1>1 DEF ListType, UpcType
  <1> QED
    BY <1>0, <1>1, <1>6, <1>8, <1>10, <1>12, <1>13, <1>14 DEF n

(* From then on neither the list nor its maps change. *)
LEMMA RunningKeeps ==
  ASSUME IInv, upc \notin Reading, upc # "exited",
         UNCHANGED <<args, entries, listMaps>>, upc' \notin Reading, attached' => attached,
         Len(hits') = Len(hits), Len(bumped') = Len(bumped), Len(dumped') = Len(dumped)
  PROVE  Listing' /\ Enforced'
  <1>1. Enforced /\ Synced
    BY DEF IInv, Enforced, Reading
  <1>2. Synced' /\ Asked' = Asked
    BY <1>1 DEF Synced, listMaps, Asked, ListedAfter
  <1>3. Enforced'
    BY <1>1, <1>2 DEF Enforced, listMaps, Reading
  <1>4. Listing'
    BY DEF Listing, Reading
  <1> QED
    BY <1>3, <1>4

(* A packet leaves the list and its maps alone. *)
LEMMA PacketKeeps ==
  ASSUME IInv, UNCHANGED <<taskVars, listMaps, attached>>,
         Len(hits') = Len(hits), Len(bumped') = Len(bumped), Len(dumped') = Len(dumped),
         hits = <<>> => hits' = <<>>
  PROVE  Listing' /\ Enforced' /\ Looping'
  <1>1. Enforced /\ Listing /\ Looping
    BY DEF IInv
  <1>2. (Synced' <=> Synced) /\ Asked' = Asked /\ \A i, j : ListedAfter(i, j)' = ListedAfter(i, j)
    BY DEF Synced, listMaps, Asked, ListedAfter, taskVars
  <1>3. Enforced'
    BY <1>1, <1>2 DEF Enforced, listMaps, taskVars
  <1>4. Listing'
    BY <1>1, <1>2 DEF Listing, taskVars
  <1>5. Looping'
    BY <1>1 DEF Looping, taskVars
  <1> QED
    BY <1>3, <1>4, <1>5

-----------------------------------------------------------------------------
(* The XDP program judges a packet.                                          *)

JobType == [kind : {"dry", "stun", "hit"}, ip : Addr]
PktType == [jobs : Seq(JobType), at : 0 .. MaxRanges, reg : Nat]

(* A range is deleted if --delete has a text of it. *)
LEMMA DeletedRange ==
  ASSUME args \in CommandLines, NEW e \in Cidr
  PROVE  Deleted(e) <=> RangeOf(e) \in Ranges(args.delete)
  <1>1. \A f \in Cidr : SameRange(f, e) <=> RangeOf(f) = RangeOf(e)
    BY DEF SameRange, RangeOf
  <1> QED
    BY <1>1 DEF Deleted, Ranges

(* The command line wants what its ranges cover, deleted ones left out. *)
LEMMA WantedCovers ==
  ASSUME args \in CommandLines, NEW a \in Addr
  PROVE  Wanted(a) <=> Covers(Asked, a)
  <1>1. Asked = (Ranges(args.file) \cup Ranges(args.add)) \ Ranges(args.delete)
    <2>1. args.add \in Seq(Line) /\ args.delete \in Seq(Line)
      BY ArgsType
    <2>2. SubSeq(args.add, 1, Len(args.add)) = args.add
      BY <2>1, RangesEnds
    <2>3. SubSeq(args.delete, 1, Len(args.delete)) = args.delete
      BY <2>1, RangesEnds
    <2> QED
      BY <2>2, <2>3 DEF Asked, ListedAfter
  <1>2. ASSUME NEW texts \in {args.file, args.add}, NEW i \in DOMAIN texts, texts[i] \in Cidr,
               ~Deleted(texts[i]), InRange(texts[i], a)
        PROVE  Covers(Asked, a)
    <2>1. RangeOf(texts[i]) \in Ranges(texts) /\ RangeOf(texts[i]) \notin Ranges(args.delete)
      BY <1>2, DeletedRange DEF Ranges
    <2>2. RangeOf(texts[i])[1] <= a /\ a <= RangeOf(texts[i])[2]
      BY <1>2 DEF InRange, RangeOf
    <2>3. RangeOf(texts[i]) \in Asked
      BY <1>1, <2>1
    <2> QED
      BY <2>2, <2>3 DEF Covers
  <1>3. ASSUME Covers(Asked, a) PROVE Wanted(a)
    <2>1. PICK r \in Asked : r[1] <= a /\ a <= r[2]
      BY <1>3 DEF Covers
    <2>2. PICK texts \in {args.file, args.add} : r \in Ranges(texts) /\ r \notin Ranges(args.delete)
      BY <1>1, <2>1
    <2>3. PICK i \in DOMAIN texts : texts[i] \in Cidr /\ r = RangeOf(texts[i])
      BY <2>2 DEF Ranges
    <2>4. InRange(texts[i], a)
      BY <2>1, <2>3 DEF InRange, RangeOf
    <2>5. ~Deleted(texts[i])
      BY <2>2, <2>3, DeletedRange
    <2> QED
      BY <2>3, <2>4, <2>5 DEF Wanted
  <1>4. ASSUME Wanted(a) PROVE Covers(Asked, a)
    <2>1. PICK texts \in {args.file, args.add} : \E i \in DOMAIN texts :
              texts[i] \in Cidr /\ ~Deleted(texts[i]) /\ InRange(texts[i], a)
      BY <1>4 DEF Wanted
    <2> QED
      BY <1>2, <2>1
  <1> QED
    BY <1>3, <1>4

(* Once the maps are written, an address is found if it is wanted. *)
LEMMA FoundIfWanted ==
  ASSUME IInv, Synced, NEW a \in Addr
  PROVE  /\ TrieLookup(trie, a) # {} <=> Wanted(a)
         /\ TrieLookup(trie, a) = MatchingEntry(entries, a)
         /\ TrieLookup(trie, a) \subseteq DOMAIN hits
  <1>1. /\ entries \in Seq(Cidr) /\ args \in CommandLines /\ hits \in Seq(Nat)
        /\ Ranges(entries) = Asked /\ trie = TrieOf(entries) /\ Len(hits) = Len(entries)
    BY DEF IInv, TypeOK, Enforced
  <1>2. /\ TrieLookup(trie, a) \subseteq 1 .. Len(entries)
        /\ TrieLookup(trie, a) # {} <=> Covers(Asked, a)
    BY <1>1, LookupPositions
  <1>3. DOMAIN hits = 1 .. Len(entries)
    BY <1>1
  <1>4. TrieLookup(trie, a) = MatchingEntry(entries, a)
    BY <1>1, LookupIsMatch
  <1> QED
    BY <1>1, <1>2, <1>3, <1>4, WantedCovers

(* try_ip_blacklist judges the packet rightly, and what it leaves to be       *)
(* counted is of the kind the mode allows.                                    *)
LEMMA ReceiveKeeps ==
  ASSUME IInv, NEW c \in CPU, NEW p \in Packets(args), Receive(c, p)
  PROVE  /\ pkt' \in [CPU -> PktType] /\ received' \in Nat /\ misjudged' = FALSE
         /\ pkt'[c].at = 0 /\ \A d \in CPU \ {c} : pkt'[d] = pkt[d]
         /\ Jobs'
  <1> DEFINE listed == {a \in Addr : TrieLookup(trie, a) # {}}
             ends == IF p.src = p.dst THEN <<p.src>> ELSE <<p.src, p.dst>>
             found == Among(ends, listed)
             on == p.proto \in config
             stun == IF p.proto = "udp" THEN IsStunMessage(p.udp) ELSE "no"
             kind == IF dryRun THEN "dry" ELSE IF stun = "yes" THEN "stun" ELSE "hit"
             jobs == IF on /\ (dryRun \/ stun # "error")
                     THEN [i \in DOMAIN found |-> [kind |-> kind, ip |-> found[i]]]
                     ELSE <<>>
             drops == jobs # <<>> /\ kind = "hit"
             q == [IdlePacket EXCEPT !.jobs = jobs]
  <1>0. /\ args \in CommandLines /\ attached /\ pkt \in [CPU -> PktType] /\ received \in Nat
        /\ misjudged = FALSE /\ Enforced /\ Jobs /\ Synced
        /\ dryRun = args.dry /\ config = args.proto /\ args.dry \in BOOLEAN
        /\ pkt[c] = IdlePacket
    BY ArgsType DEF IInv, TypeOK, PktType, JobType, Receive, DropsAsAsked, Enforced
  <1>1. p \in Packet
    BY <1>0, XdpBlacklistAssumption
  <1>2. /\ p.src \in Addr /\ p.dst \in Addr /\ p.proto \in Proto /\ p.udp \in Udp
    BY <1>1 DEF Packet
  <1>3. /\ pkt' = [pkt EXCEPT ![c] = q] /\ received' = received + 1
        /\ misjudged' = (misjudged \/ (/\ p.proto = "udp" => Agrees(p.udp)
                                       /\ ToDrop(p) # drops))
        /\ UNCHANGED <<counters, hits, trie, args>>
    BY DEF Receive, Working, listMaps, taskVars
  <1>4. ends \in Seq(Addr) /\ Members(ends) = {p.src, p.dst}
    <2>1. CASE p.src = p.dst
      <3>1. ends = <<p.src>> /\ Len(<<p.src>>) = 1 /\ <<p.src>>[1] = p.src /\ 1 .. 1 = {1}
        BY <2>1
      <3> QED
        BY <1>2, <2>1, <3>1 DEF Members, Passed
    <2>2. CASE p.src # p.dst
      <3> DEFINE s == <<p.src, p.dst>>
      <3>1. /\ ends = s /\ Len(s) = 2 /\ s[1] = p.src /\ s[2] = p.dst
            /\ 1 .. 2 = {1, 2} /\ s \in Seq(Addr)
        BY <1>2, <2>2
      <3> HIDE DEF s, ends
      <3> QED
        BY <3>1 DEF Members, Passed
    <2> QED
      BY <2>1, <2>2
  <1>5. found \in Seq(Addr \cap listed) /\ Members(found) = {p.src, p.dst} \cap listed
    <2> HIDE DEF ends, listed
    <2> QED
      BY <1>4, AmongKeeps
  <1>6. p.src \in listed <=> Wanted(p.src)
    BY <1>0, <1>2, FoundIfWanted
  <1>7. p.dst \in listed <=> Wanted(p.dst)
    BY <1>0, <1>2, FoundIfWanted
  <1>8. Len(found) \in Nat /\ DOMAIN found = 1 .. Len(found) /\ \A i \in DOMAIN found : found[i] \in Addr
    <2> HIDE DEF found, listed
    <2> QED
      BY <1>5
  <1>9. DOMAIN found # {} <=> Wanted(p.src) \/ Wanted(p.dst)
    <2>1. DOMAIN found # {} <=> Members(found) # {}
      <3> HIDE DEF found
      <3> QED
        BY <1>8 DEF Members, Passed
    <2> HIDE DEF found, listed
    <2> QED
      BY <1>5, <1>6, <1>7, <2>1
  <1> HIDE DEF found, listed, ends
  <1>10. kind \in {"dry", "stun", "hit"} /\ (kind = "dry" <=> dryRun)
    BY <1>0
  <1>11. /\ jobs \in Seq(JobType) /\ \A j \in DOMAIN jobs : jobs[j].kind = kind
         /\ jobs # <<>> <=> on /\ (dryRun \/ stun # "error") /\ DOMAIN found # {}
    <2> DEFINE f == [i \in DOMAIN found |-> [kind |-> kind, ip |-> found[i]]]
    <2>1. f \in Seq(JobType) /\ DOMAIN f = DOMAIN found /\ \A j \in DOMAIN f : f[j].kind = kind
      <3>1. \A i \in DOMAIN found : [kind |-> kind, ip |-> found[i]] \in JobType
        BY <1>8, <1>10 DEF JobType
      <3>2. f \in [DOMAIN found -> JobType]
        BY <3>1
      <3>3. DOMAIN f = DOMAIN found /\ \A j \in DOMAIN f : f[j].kind = kind
        OBVIOUS
      <3> HIDE DEF f, kind
      <3>4. f \in Seq(JobType)
        BY <1>8, <3>2, FunctionIsSeq
      <3> QED
        BY <3>3, <3>4
    <2>2. jobs = IF on /\ (dryRun \/ stun # "error") THEN f ELSE <<>>
      OBVIOUS
    <2>3. DOMAIN <<>> = {} /\ <<>> \in Seq(JobType)
      OBVIOUS
    <2> HIDE DEF f, jobs, kind, stun, on
    <2>4. f = <<>> <=> DOMAIN f = {}
      BY <2>1
    <2> QED
      BY <2>1, <2>2, <2>3, <2>4
  <1> HIDE DEF jobs
  <1>12. q \in PktType /\ q.at = 0 /\ q.jobs = jobs
    <2>1. 0 \in 0 .. MaxRanges
      BY BlacklistAssumption
    <2> QED
      BY <1>11, <2>1 DEF PktType, IdlePacket
  <1>13. pkt' \in [CPU -> PktType] /\ pkt'[c] = q /\ \A d \in CPU \ {c} : pkt'[d] = pkt[d]
    <2> HIDE DEF q
    <2> QED
      BY <1>0, <1>3, <1>12
  <1>14. ASSUME p.proto = "udp" => Agrees(p.udp) PROVE ToDrop(p) = drops
    <2>1. CASE p.proto = "udp"
      <3>1. stun \in {"yes", "no"} /\ (stun = "yes" <=> IsStunBindingMessage(p.udp))
        BY <1>2, <1>14, <2>1, StunChecks
      <3> QED
        BY <1>0, <1>9, <1>11, <2>1, <3>1 DEF ToDrop
    <2>2. CASE p.proto # "udp"
      BY <1>0, <1>9, <1>11, <2>2 DEF ToDrop
    <2> QED
      BY <2>1, <2>2
  <1>15. misjudged' = FALSE
    BY <1>0, <1>3, <1>14
  <1>16. Jobs'
    <2>1. Synced' /\ UNCHANGED <<probe, hits, args>>
      BY <1>0, <1>3 DEF Synced, counters
    <2>2. probe[c].pc = "idle"
      BY <1>0 DEF Jobs, IdlePacket
    <2>3. \A j \in DOMAIN q.jobs : q.jobs[j].kind = "dry" <=> args.dry
      BY <1>0, <1>10, <1>11, <1>12
    <2> HIDE DEF q, kind
    <2>4. ASSUME NEW d \in CPU
          PROVE  /\ pkt'[d].jobs # <<>> => Synced'
                 /\ \A j \in DOMAIN pkt'[d].jobs : pkt'[d].jobs[j].kind = "dry" <=> args'.dry
                 /\ pkt'[d].at # 0 => /\ pkt'[d].jobs # <<>> /\ Job(d)'.kind = "hit"
                                      /\ pkt'[d].at \in DOMAIN hits'
                 /\ probe'[d].pc # "idle" =>
                        /\ pkt'[d].jobs # <<>> /\ Job(d)'.kind # "hit" /\ probe'[d].add = 1
                        /\ IF args'.dry THEN probe'[d].map \in {Dry(0), Dry(1)}
                           ELSE probe'[d].map = Stun
      <3>1. CASE d = c
        BY <1>12, <1>13, <2>1, <2>2, <2>3, <3>1
      <3>2. CASE d # c
        BY <1>0, <1>13, <2>1, <3>2 DEF Jobs, Job
      <3> QED
        BY <3>1, <3>2
    <2> QED
      BY <2>4 DEF Jobs
  <1> QED
    BY <1>0, <1>3, <1>12, <1>13, <1>15, <1>16

-----------------------------------------------------------------------------
(* What is left of it to be counted.                                         *)

(* What Jobs says of one CPU. *)
JobsAt(c) ==
    /\ pkt[c].jobs # <<>> => Synced
    /\ \A j \in DOMAIN pkt[c].jobs : pkt[c].jobs[j].kind = "dry" <=> args.dry
    /\ pkt[c].at # 0 => /\ pkt[c].jobs # <<>> /\ Job(c).kind = "hit"
                        /\ pkt[c].at \in DOMAIN hits
    /\ probe[c].pc # "idle" =>
           /\ pkt[c].jobs # <<>> /\ Job(c).kind # "hit" /\ probe[c].add = 1
           /\ IF args.dry THEN probe[c].map \in {Dry(0), Dry(1)}
              ELSE probe[c].map = Stun

(* The jobs of all CPUs, one by one. *)
LEMMA JobsAreAt == (Jobs <=> \A c \in CPU : JobsAt(c)) /\ (Jobs' <=> \A c \in CPU : JobsAt(c)')
  BY DEF Jobs, JobsAt

(* The first job of a packet, and the ones behind it. *)
LEMMA FirstJob ==
  ASSUME IInv, NEW c \in CPU, pkt[c].jobs # <<>>
  PROVE  /\ Job(c) \in JobType /\ (Job(c).kind = "dry" <=> args.dry)
         /\ Tail(pkt[c].jobs) \in Seq(JobType)
         /\ \A j \in DOMAIN Tail(pkt[c].jobs) : Tail(pkt[c].jobs)[j].kind = "dry" <=> args.dry
  <1> DEFINE s == pkt[c].jobs
  <1>1. s \in Seq(JobType) /\ s # <<>> /\ \A j \in DOMAIN s : s[j].kind = "dry" <=> args.dry
    BY DEF IInv, TypeOK, JobType, Jobs
  <1>2. Job(c) = Head(s)
    BY DEF Job
  <1> HIDE DEF s
  <1>3. Head(s) = s[1] /\ 1 \in DOMAIN s /\ s[1] \in JobType
    BY <1>1
  <1>4. Tail(s) \in Seq(JobType) /\ Len(Tail(s)) = Len(s) - 1
        /\ \A i \in 1 .. Len(Tail(s)) : Tail(s)[i] = s[i + 1]
    BY <1>1, HeadTailProperties
  <1>5. ASSUME NEW j \in DOMAIN Tail(s) PROVE Tail(s)[j].kind = "dry" <=> args.dry
    <2>1. j \in 1 .. Len(Tail(s)) /\ j + 1 \in DOMAIN s
      BY <1>1, <1>4
    <2>2. Tail(s)[j] = s[j + 1]
      BY <1>4, <2>1
    <2> QED
      BY <1>1, <2>1, <2>2
  <1> QED
    BY <1>1, <1>2, <1>3, <1>4, <1>5 DEF s

(* A CPU whose packet and probe stay, and those of the others. *)
LEMMA OthersJobs ==
  ASSUME NEW d \in CPU, JobsAt(d), UNCHANGED <<trie, args>>, DOMAIN hits' = DOMAIN hits,
         pkt'[d] = pkt[d], probe'[d] = probe[d]
  PROVE  JobsAt(d)'
  BY DEF JobsAt, Job, Synced

(* A probe that begins is busy with the first job ... *)
LEMMA RecordJobs ==
  ASSUME IInv, NEW c \in CPU, Record(c)
  PROVE  Jobs' /\ UNCHANGED <<pkt, received, misjudged, hits, bumped, raced, it, iterating>>
  <1>1. /\ pkt[c].jobs # <<>> /\ Job(c).kind # "hit"
        /\ UNCHANGED <<pkt, received, misjudged, hits, bumped, raced, trie, args, it, iterating>>
    BY DEF Record, listMaps, taskVars, hitHist
  <1>2. /\ \A d \in CPU \ {c} : probe'[d] = probe[d]
        /\ probe'[c].pc = "lookup" /\ probe'[c].add = 1
        /\ probe'[c].map = IF Job(c).kind = "dry" THEN Dry(active) ELSE Stun
    BY RecordKeeps
  <1>3. (Job(c).kind = "dry" <=> args.dry) /\ active \in {0, 1} /\ \A d \in CPU : JobsAt(d)
    BY <1>1, FirstJob, JobsAreAt DEF IInv, TypeOK
  <1>4. JobsAt(c)'
    BY <1>1, <1>2, <1>3 DEF JobsAt, Job, Synced
  <1>5. ASSUME NEW d \in CPU \ {c} PROVE JobsAt(d)'
    BY <1>1, <1>2, <1>3, OthersJobs
  <1> QED
    BY <1>1, <1>4, <1>5, JobsAreAt

(* ... and when it has counted, or failed, the job is done. *)
LEMMA CountJobs ==
  ASSUME IInv, NEW c \in CPU, Count(c)
  PROVE  /\ Jobs' /\ pkt' \in [CPU -> PktType] /\ pkt[c].at = 0 /\ pkt'[c].at = 0
         /\ \A d \in CPU \ {c} : pkt'[d] = pkt[d]
         /\ UNCHANGED <<received, misjudged, hits, bumped, raced>>
  <1>1. UNCHANGED <<received, misjudged, hits, bumped, raced, trie, args>>
    BY DEF Count, listMaps, taskVars, hitHist
  <1>2. /\ probe[c].pc # "idle" /\ \A d \in CPU \ {c} : probe'[d] = probe[d]
        /\ probe'[c] = IdleProbe \/ Follows(probe[c], probe'[c])
        /\ IdleProbe.pc = "idle"
    BY CountKeeps, IdleType
  <1>3. /\ \A d \in CPU : JobsAt(d) /\ pkt \in [CPU -> PktType]
    BY JobsAreAt DEF IInv, TypeOK, PktType, JobType
  <1>4. pkt[c].jobs # <<>> /\ Job(c).kind # "hit" /\ pkt[c].at = 0
    BY <1>2, <1>3 DEF JobsAt
  <1>5. CASE probe'[c].pc # "idle"
    <2>1. UNCHANGED pkt
      BY <1>5 DEF Count
    <2>2. Follows(probe[c], probe'[c])
      BY <1>2, <1>5
    <2>3. JobsAt(c)'
      BY <1>1, <1>2, <1>3, <2>1, <2>2 DEF JobsAt, Job, Follows, Synced
    <2>4. ASSUME NEW d \in CPU \ {c} PROVE JobsAt(d)'
      BY <1>1, <1>2, <1>3, <2>1, OthersJobs
    <2> QED
      BY <1>1, <1>3, <1>4, <2>1, <2>3, <2>4, JobsAreAt
  <1>6. CASE probe'[c].pc = "idle"
    <2> DEFINE jobs == IF recorded' = recorded THEN <<>> ELSE Tail(pkt[c].jobs)
               q == [pkt[c] EXCEPT !.jobs = jobs]
    <2>1. pkt' = [pkt EXCEPT ![c] = q]
      BY <1>6 DEF Count, Working
    <2>2. jobs \in Seq(JobType) /\ \A j \in DOMAIN jobs : jobs[j].kind = "dry" <=> args.dry
      <3>1. <<>> \in Seq(JobType) /\ DOMAIN <<>> = {}
        OBVIOUS
      <3> QED
        BY <1>4, <3>1, FirstJob
    <2> HIDE DEF jobs
    <2>3. q \in PktType /\ q.at = 0 /\ q.jobs = jobs
      BY <1>3, <1>4, <2>2 DEF PktType
    <2> HIDE DEF q
    <2>4. pkt' \in [CPU -> PktType] /\ pkt'[c] = q /\ \A d \in CPU \ {c} : pkt'[d] = pkt[d]
      BY <1>3, <2>1, <2>3
    <2>5. Synced'
      BY <1>1, <1>3, <1>4 DEF JobsAt, Synced
    <2>6. JobsAt(c)'
      BY <1>1, <1>6, <2>2, <2>3, <2>4, <2>5 DEF JobsAt
    <2>7. ASSUME NEW d \in CPU \ {c} PROVE JobsAt(d)'
      BY <1>1, <1>2, <1>3, <2>4, OthersJobs
    <2> QED
      BY <1>1, <1>4, <2>3, <2>4, <2>6, <2>7, JobsAreAt
  <1> QED
    BY <1>5, <1>6

(* A drop is counted at a position of BLACKLIST_HITS ... *)
LEMMA HitLoadJobs ==
  ASSUME IInv, NEW c \in CPU, HitLoad(c)
  PROVE  /\ Jobs' /\ pkt' \in [CPU -> PktType] /\ pkt[c].at = 0
         /\ \E i \in DOMAIN hits :
                /\ pkt'[c].at = i /\ pkt'[c].reg = hits[i]
                /\ raced' = raced \cup {r \in {"met"} : \E d \in CPU : pkt[d].at = i}
         /\ \A d \in CPU \ {c} : pkt'[d] = pkt[d]
         /\ UNCHANGED <<received, misjudged, hits, bumped, counters>>
  <1>1. /\ pkt[c].jobs # <<>> /\ Job(c).kind = "hit" /\ pkt[c].at = 0
        /\ UNCHANGED <<received, misjudged, hits, bumped, trie, args, probe, counters>>
    BY DEF HitLoad, hitRest, listMaps, taskVars, counters
  <1>2. /\ \A d \in CPU : JobsAt(d) /\ pkt \in [CPU -> PktType] /\ hits \in Seq(Nat)
        /\ trie \in [DOMAIN trie -> 1 .. MaxRanges]
    BY JobsAreAt DEF IInv, TypeOK, PktType, JobType
  <1>3. Job(c) \in JobType /\ Job(c).ip \in Addr /\ Synced
    BY <1>1, <1>2, FirstJob DEF JobType, JobsAt
  <1>4. PICK i \in TrieLookup(trie, Job(c).ip) :
            /\ Working(c, [pkt[c] EXCEPT !.at = i, !.reg = hits[i]])
            /\ raced' = raced \cup {r \in {"met"} : \E d \in CPU : pkt[d].at = i}
    BY DEF HitLoad
  <1> DEFINE q == [pkt[c] EXCEPT !.at = i, !.reg = hits[i]]
  <1>5. i \in DOMAIN hits /\ i \in 1 .. MaxRanges /\ hits[i] \in Nat
    <2>1. i \in DOMAIN hits
      BY <1>3, FoundIfWanted
    <2>2. TrieLookup(trie, Job(c).ip) \subseteq 1 .. MaxRanges
      BY <1>2 DEF TrieLookup
    <2> QED
      BY <1>2, <2>1, <2>2
  <1>6. /\ q \in PktType /\ q.at = i /\ q.reg = hits[i] /\ q.jobs = pkt[c].jobs
    <2>1. i \in 0 .. MaxRanges
      BY <1>5
    <2> QED
      BY <1>2, <1>5, <2>1 DEF PktType
  <1> HIDE DEF q
  <1>7. pkt' \in [CPU -> PktType] /\ pkt'[c] = q /\ \A d \in CPU \ {c} : pkt'[d] = pkt[d]
    BY <1>2, <1>4, <1>6 DEF Working, q
  <1>8. JobsAt(c)'
    BY <1>1, <1>2, <1>3, <1>5, <1>6, <1>7 DEF JobsAt, Job, Synced
  <1>9. ASSUME NEW d \in CPU \ {c} PROVE JobsAt(d)'
    BY <1>1, <1>2, <1>7, OthersJobs
  <1> QED
    BY <1>1, <1>4, <1>5, <1>6, <1>7, <1>8, <1>9, JobsAreAt

(* ... in a load and a store. *)
LEMMA HitStoreJobs ==
  ASSUME IInv, NEW c \in CPU, HitStore(c)
  PROVE  /\ Jobs' /\ pkt' \in [CPU -> PktType] /\ pkt'[c].at = 0
         /\ \A d \in CPU \ {c} : pkt'[d] = pkt[d]
         /\ UNCHANGED <<received, misjudged, counters>>
         /\ pkt[c].at \in DOMAIN hits /\ pkt[c].reg \in Nat
         /\ hits' = [hits EXCEPT ![pkt[c].at] = pkt[c].reg + 1]
         /\ bumped' = [bumped EXCEPT ![pkt[c].at] = @ + 1]
         /\ raced' = raced \cup {r \in {"lost"} : BetweenGetAndSet(pkt[c].at)}
         /\ hits' \in Seq(Nat) /\ bumped' \in Seq(Nat)
         /\ Len(hits') = Len(hits) /\ Len(bumped') = Len(bumped)
         /\ DOMAIN hits' = DOMAIN hits
  <1> DEFINE i == pkt[c].at
             q == [IdlePacket EXCEPT !.jobs = Tail(pkt[c].jobs)]
  <1>1. /\ i # 0 /\ hits' = [hits EXCEPT ![i] = pkt[c].reg + 1]
        /\ bumped' = [bumped EXCEPT ![i] = @ + 1]
        /\ raced' = raced \cup {r \in {"lost"} : BetweenGetAndSet(i)}
        /\ pkt' = [pkt EXCEPT ![c] = q]
        /\ UNCHANGED <<received, misjudged, trie, args, probe, counters>>
    BY DEF HitStore, hitRest, listMaps, taskVars, counters, Working
  <1>2. /\ \A d \in CPU : JobsAt(d) /\ pkt \in [CPU -> PktType] /\ hits \in Seq(Nat)
        /\ bumped \in Seq(Nat) /\ Len(bumped) = Len(hits)
    BY JobsAreAt DEF IInv, TypeOK, PktType, JobType, Enforced
  <1>3. pkt[c].jobs # <<>> /\ i \in DOMAIN hits /\ Job(c).kind = "hit" /\ Synced
    BY <1>1, <1>2 DEF JobsAt
  <1>4. /\ Tail(pkt[c].jobs) \in Seq(JobType)
        /\ \A j \in DOMAIN Tail(pkt[c].jobs) : Tail(pkt[c].jobs)[j].kind = "dry" <=> args.dry
    BY <1>3, FirstJob
  <1>5. q \in PktType /\ q.at = 0 /\ q.jobs = Tail(pkt[c].jobs)
    <2>1. 0 \in 0 .. MaxRanges
      BY BlacklistAssumption
    <2> QED
      BY <1>4, <2>1 DEF PktType, IdlePacket
  <1>6. pkt' \in [CPU -> PktType] /\ pkt'[c] = q /\ \A d \in CPU \ {c} : pkt'[d] = pkt[d]
    <2> HIDE DEF q
    <2> QED
      BY <1>1, <1>2, <1>5
  <1> HIDE DEF q
  <1>7. pkt[c].reg \in Nat
    BY <1>2 DEF PktType
  <1>8. /\ hits' \in Seq(Nat) /\ Len(hits') = Len(hits) /\ DOMAIN hits' = DOMAIN hits
    <2> DEFINE v == pkt[c].reg + 1
    <2>1. v \in Nat /\ hits' = [hits EXCEPT ![i] = v] /\ i \in 1 .. Len(hits)
      BY <1>1, <1>2, <1>3, <1>7
    <2> HIDE DEF v, i
    <2> QED
      BY <1>2, <2>1, ExceptSeq
  <1>9. /\ bumped' \in Seq(Nat) /\ Len(bumped') = Len(bumped)
    <2> DEFINE v == bumped[i] + 1
    <2>1. i \in 1 .. Len(bumped)
      BY <1>2, <1>3
    <2>2. v \in Nat /\ bumped' = [bumped EXCEPT ![i] = v]
      BY <1>1, <1>2, <2>1
    <2> HIDE DEF v, i
    <2> QED
      BY <1>2, <2>1, <2>2, ExceptSeq
  <1>10. probe[c].pc = "idle"
    BY <1>2, <1>3 DEF JobsAt
  <1>11. JobsAt(c)'
    BY <1>1, <1>3, <1>4, <1>5, <1>6, <1>10 DEF JobsAt, Synced
  <1>12. ASSUME NEW d \in CPU \ {c} PROVE JobsAt(d)'
    BY <1>1, <1>2, <1>6, <1>8, OthersJobs
  <1> QED
    BY <1>1, <1>3, <1>5, <1>6, <1>7, <1>8, <1>9, <1>11, <1>12, JobsAreAt

-----------------------------------------------------------------------------
(* The loops of the task.                                                    *)

(* The steps of the task in its loop. *)
LoopAction ==
    \/ LoopStep
    \/ GetHit \/ GetEnd \/ ResetHit \/ WriteStun \/ WriteFails \/ DryRemoveEnd
    \/ \E a \in Addr : DryRemoveFails(a) \/ DryRemove(a)

(* The steps of the program, by who takes them. *)
LEMMA NextSteps ==
  ASSUME Next PROVE KernelStep \/ StartStep \/ Sync \/ LoopAction
  BY DEF Next, TaskStep, KernelStep, StartStep, LoopAction, LoopStep

(* Where each of them begins and ends. *)
LoopPc ==
    \/ Tick /\ upc = "run" /\ upc' \in {"get", "stun", "run"}
    \/ GetHit /\ upc = "get" /\ upc' = "get"
    \/ GetEnd /\ upc = "get" /\ upc' = "reset"
    \/ ResetHit /\ upc = "reset" /\ upc' = "reset"
    \/ WriteHits /\ upc = "reset" /\ upc' \in {"stun", "run"}
    \/ (\E a \in Addr : ReadStun(a)) /\ upc = "stun" /\ upc' = "stun"
    \/ StunEnd /\ upc = "stun" /\ upc' = "write"
    \/ WriteStun /\ upc = "write" /\ upc' = "run"
    \/ WriteFails /\ upc \in {"reset", "write"} /\ upc' = "failed"
    \/ Turn /\ upc = "run" /\ upc' = "dryRead"
    \/ (\E a \in Addr : ReadDry(a)) /\ upc = "dryRead" /\ upc' = "dryRead"
    \/ DryPrint /\ upc = "dryRead" /\ upc' = "dryRemove"
    \/ (\E a \in Addr : DryRemove(a)) /\ upc = "dryRemove" /\ upc' = "dryRemove"
    \/ (\E a \in Addr : DryRemoveFails(a)) /\ upc = "dryRemove" /\ upc' = "failed"
    \/ DryRemoveEnd /\ upc = "dryRemove" /\ upc' = "run"

(* LoopPc holds of every step of the loop. *)
LEMMA LoopActions == ASSUME LoopAction PROVE LoopPc
  <1>1. CASE LoopStep
    <2>1. CASE Tick
      BY <2>1, StunOrNotDoes DEF Tick, LoopPc
    <2>2. CASE WriteHits
      BY <2>2, StunOrNotDoes DEF WriteHits, LoopPc
    <2>3. CASE StunEnd
      BY <2>3 DEF StunEnd, LoopPc
    <2>4. CASE Turn
      BY <2>4 DEF Turn, LoopPc
    <2>5. CASE DryPrint
      BY <2>5 DEF DryPrint, LoopPc
    <2>6. CASE \E a \in Addr : ReadStun(a)
      <3>1. \A a \in Addr : ReadStun(a) => upc = "stun" /\ upc' = "stun"
        BY DEF ReadStun
      <3> QED
        BY <2>6, <3>1 DEF LoopPc
    <2>7. CASE \E a \in Addr : ReadDry(a)
      <3>1. \A a \in Addr : ReadDry(a) => upc = "dryRead" /\ upc' = "dryRead"
        BY DEF ReadDry
      <3> QED
        BY <2>7, <3>1 DEF LoopPc
    <2> QED
      BY <1>1, <2>1, <2>2, <2>3, <2>4, <2>5, <2>6, <2>7 DEF LoopStep
  <1>2. CASE GetHit
    BY <1>2 DEF GetHit, LoopPc
  <1>3. CASE GetEnd
    BY <1>3 DEF GetEnd, LoopPc
  <1>4. CASE ResetHit
    BY <1>4 DEF ResetHit, LoopPc
  <1>5. CASE WriteStun
    BY <1>5 DEF WriteStun, LoopPc
  <1>6. CASE WriteFails
    BY <1>6 DEF WriteFails, LoopPc
  <1>7. CASE DryRemoveEnd
    BY <1>7 DEF DryRemoveEnd, LoopPc
  <1>8. CASE \E a \in Addr : DryRemoveFails(a)
    <2>1. \A a \in Addr : DryRemoveFails(a) => upc = "dryRemove" /\ upc' = "failed"
      BY DEF DryRemoveFails
    <2> QED
      BY <1>8, <2>1 DEF LoopPc
  <1>9. CASE \E a \in Addr : DryRemove(a)
    <2>1. \A a \in Addr : DryRemove(a) => upc = "dryRemove" /\ upc' = "dryRemove"
      BY DEF DryRemove
    <2> QED
      BY <1>9, <2>1 DEF LoopPc
  <1> QED
    BY <1>1, <1>2, <1>3, <1>4, <1>5, <1>6, <1>7, <1>8, <1>9 DEF LoopAction

(* What a step of the loop leaves alone, and which step changes what. *)
LEMMA LoopLeaves ==
  ASSUME LoopAction
  PROVE  /\ UNCHANGED <<args, entries, listMaps, pkt, received, misjudged, bumped, probe, recorded,
                        filterOn, collided>>
         /\ attached' = attached \/ attached' = FALSE
         /\ hits' = hits \/ ResetHit
         /\ stunFile' = stunFile \/ WriteStun
         /\ dumped' = dumped \/ WriteHits
         /\ printed' = printed \/ DryPrint
         /\ raced' = raced \/ ResetHit
         /\ UNCHANGED <<active, writeBuf, drainBuf, straddled>> \/ Turn
         /\ UNCHANGED base \/ Tick \/ WriteHits
         /\ UNCHANGED tally \/ Tick \/ WriteHits \/ Turn
                \/ \E a \in Addr : ReadStun(a) \/ ReadDry(a) \/ DryRemove(a)
         /\ UNCHANGED orphaned \/ \E a \in Addr : DryRemove(a)
         /\ UNCHANGED <<done, got>> \/ Tick \/ GetHit \/ GetEnd \/ ResetHit
         /\ got' = got \/ Tick \/ GetHit
  <1>1. CASE Tick
    BY <1>1, StunOrNotDoes DEF Tick, dumpRest, loopRest, hitHist, counters, IterStart, kernelSide
  <1>2. CASE WriteHits
    BY <1>2, StunOrNotDoes DEF WriteHits, dumpRest, loopRest, counters, IterStart, kernelSide
  <1>3. CASE StunEnd
    BY <1>3 DEF StunEnd, dumpRest, loopRest, hitHist, IterEnd, kernelSide
  <1>4. CASE Turn
    BY <1>4 DEF Turn, dryRest, loopRest, hitHist, IterStart, kernelSide
  <1>5. CASE DryPrint
    BY <1>5 DEF DryPrint, dryRest, loopRest, hitHist, IterEnd, kernelSide
  <1>6. CASE \E a \in Addr : ReadStun(a)
    BY <1>6 DEF ReadStun, dumpRest, loopRest, hitHist, IterKey, IterAgain, kernelSide
  <1>7. CASE \E a \in Addr : ReadDry(a)
    BY <1>7 DEF ReadDry, dryRest, loopRest, hitHist, IterKey, IterAgain, kernelSide
  <1>8. CASE GetHit
    BY <1>8 DEF GetHit, fileRest, dumpRest, loopRest, hitHist, counters
  <1>9. CASE GetEnd
    BY <1>9 DEF GetEnd, fileRest, dumpRest, loopRest, hitHist, counters
  <1>10. CASE ResetHit
    BY <1>10 DEF ResetHit, fileRest, dumpRest, loopRest, hitHist, counters
  <1>11. CASE WriteStun
    BY <1>11 DEF WriteStun, dumpRest, loopRest, hitHist, counters
  <1>12. CASE WriteFails
    BY <1>12 DEF WriteFails, fileRest, dumpRest, loopRest, hitHist, counters
  <1>13. CASE DryRemoveEnd
    BY <1>13 DEF DryRemoveEnd, dryRest, loopRest, hitHist, counters
  <1>14. CASE \E a \in Addr : DryRemoveFails(a)
    BY <1>14 DEF DryRemoveFails, dryRest, loopRest, hitHist, counters
  <1>15. CASE \E a \in Addr : DryRemove(a)
    BY <1>15 DEF DryRemove, dryRest, loopRest, hitHist, RemoveKey
  <1> QED
    BY <1>1, <1>2, <1>3, <1>4, <1>5, <1>6, <1>7, <1>8, <1>9, <1>10, <1>11, <1>12, <1>13,
       <1>14, <1>15 DEF LoopAction, LoopStep

(* The counters of the drops keep their number. *)
LEMMA LoopHits ==
  ASSUME IInv, LoopAction
  PROVE  /\ hits' \in Seq(Nat) /\ Len(hits') = Len(hits)
         /\ dumped' \in Seq(Nat) /\ Len(dumped') = Len(dumped)
         /\ (WriteHits => \A i \in DOMAIN hits : dumped'[i] = dumped[i] + got[i])
         /\ (ResetHit => hits' = [hits EXCEPT ![done + 1] = 0] /\ done + 1 \in DOMAIN hits)
  <1>0. /\ hits \in Seq(Nat) /\ dumped \in Seq(Nat) /\ got \in Seq(Nat) /\ entries \in Seq(Cidr)
        /\ Looping /\ Len(dumped) = Len(hits) /\ done \in Nat
        /\ (upc \in {"reset"} => Len(hits) = Len(entries))
    BY DEF IInv, TypeOK, Enforced
  <1>1. CASE WriteHits
    <2>1. /\ upc = "reset" /\ Len(got) = Len(entries) /\ Len(hits) = Len(entries)
          /\ dumped' = [i \in DOMAIN dumped |-> dumped[i] + got[i]] /\ hits' = hits
      BY <1>0, <1>1 DEF WriteHits, Looping
    <2>2. DOMAIN dumped = 1 .. Len(hits) /\ DOMAIN hits = 1 .. Len(hits)
          /\ \A i \in 1 .. Len(hits) : dumped[i] + got[i] \in Nat
      BY <1>0, <2>1
    <2>3. dumped' \in [1 .. Len(hits) -> Nat]
      BY <2>1, <2>2
    <2>4. Len(hits) \in Nat
      BY <1>0
    <2>5. dumped' \in Seq(Nat) /\ Len(dumped') = Len(hits)
      BY <2>3, <2>4, FunctionIsSeq
    <2>6. ~ResetHit
      <3>1. done = Len(entries) /\ Len(entries) \in Nat
        BY <1>0, <1>1 DEF WriteHits
      <3>2. ~(done < Len(entries))
        BY <3>1
      <3> QED
        BY <3>2 DEF ResetHit
    <2> QED
      BY <1>0, <2>1, <2>2, <2>5, <2>6
  <1>2. CASE ResetHit
    <2>1. /\ upc = "reset" /\ done < Len(entries) /\ Len(hits) = Len(entries)
          /\ hits' = [hits EXCEPT ![done + 1] = 0] /\ dumped' = dumped
      BY <1>0, <1>2 DEF ResetHit
    <2>2. done + 1 \in 1 .. Len(hits)
      BY <1>0, <2>1
    <2>3. hits' \in Seq(Nat) /\ Len(hits') = Len(hits)
      BY <1>0, <2>1, <2>2, ExceptSeq
    <2>4. ~WriteHits
      BY <1>0, <2>1 DEF WriteHits
    <2> QED
      BY <1>0, <2>1, <2>2, <2>3, <2>4
  <1>3. CASE ~WriteHits /\ ~ResetHit
    BY <1>0, <1>3, LoopLeaves
  <1> QED
    BY <1>1, <1>2, <1>3

(* The list and its maps stay, and what is read stays within them. *)
LEMMA LoopKeeps ==
  ASSUME IInv, LoopAction
  PROVE  /\ ListType' /\ Listing' /\ Enforced' /\ Looping' /\ Jobs'
         /\ got' \in Seq(Nat) /\ pkt' \in [CPU -> PktType]
  <1>0. /\ ListType /\ Looping /\ Enforced /\ got \in Seq(Nat) /\ hits \in Seq(Nat)
        /\ pkt \in [CPU -> PktType] /\ entries \in Seq(Cidr) /\ done \in Nat
        /\ Len(entries) \in Nat /\ attached \in BOOLEAN /\ args \in CommandLines
    <2>1. TypeOK /\ Looping /\ Enforced
      BY DEF IInv
    <2>2. /\ got \in Seq(Nat) /\ hits \in Seq(Nat) /\ entries \in Seq(Cidr) /\ done \in Nat
          /\ attached \in BOOLEAN /\ args \in CommandLines /\ upc \in UpcType
      BY <2>1 DEF TypeOK, UpcType
    <2>3. pkt \in [CPU -> PktType]
      BY <2>1 DEF TypeOK, PktType, JobType
    <2>4. Len(entries) \in Nat
      BY <2>2
    <2> QED
      BY <2>1, <2>2, <2>3, <2>4 DEF ListType
  <1>1. LoopPc
    BY LoopActions
  <1>2. /\ upc \notin Reading /\ upc # "exited" /\ upc' \notin Reading /\ upc' \in UpcType
        /\ upc' # "exited"
    BY <1>1 DEF LoopPc, Reading, UpcType
  <1>3. /\ UNCHANGED <<args, entries, listMaps, pkt, probe, bumped>>
        /\ attached' = attached \/ attached' = FALSE
        /\ UNCHANGED <<done, got>> \/ Tick \/ GetHit \/ GetEnd \/ ResetHit
        /\ got' = got \/ Tick \/ GetHit
    BY LoopLeaves
  <1>4. /\ Len(hits') = Len(hits) /\ Len(bumped') = Len(bumped) /\ Len(dumped') = Len(dumped)
        /\ hits' \in Seq(Nat) /\ DOMAIN hits' = DOMAIN hits
    BY <1>0, <1>3, LoopHits
  <1>5. Listing' /\ Enforced'
    BY <1>2, <1>3, <1>4, RunningKeeps
  <1>6. Synced /\ Len(hits) = Len(entries)
    BY <1>0, <1>2 DEF Enforced, Reading
  <1>7. Jobs'
    <2>1. \A d \in CPU : JobsAt(d)
      BY JobsAreAt DEF IInv
    <2>2. ASSUME NEW d \in CPU PROVE JobsAt(d)'
      BY <1>3, <1>4, <2>1, OthersJobs DEF listMaps
    <2> QED
      BY <2>2, JobsAreAt
  <1>a. ASSUME done' \in Nat, got' \in Seq(Nat), Looping'
        PROVE  /\ ListType' /\ Listing' /\ Enforced' /\ Looping' /\ Jobs'
               /\ got' \in Seq(Nat) /\ pkt' \in [CPU -> PktType]
    <2>1. /\ entries' \in Seq(Cidr) /\ attached' \in BOOLEAN /\ args' \in CommandLines
          /\ pkt' \in [CPU -> PktType]
      BY <1>0, <1>3
    <2>2. ListType'
      BY <1>2, <1>a, <2>1 DEF ListType
    <2> QED
      BY <1>5, <1>7, <1>a, <2>1, <2>2
  <1>8. CASE Tick
    <2>1. /\ upc = "run" /\ ~args.dry /\ done' = 0 /\ got' = <<>>
      BY <1>8 DEF Tick
    <2>2. upc' \in {"get", "stun", "run"} /\ <<>> \in Seq(Nat) /\ Len(<<>>) = 0
      <3>1. upc' \in {"get", "stun", "run"}
        BY <1>8, StunOrNotDoes DEF Tick
      <3>2. <<>> \in Seq(Nat) /\ Len(<<>>) = 0
        OBVIOUS
      <3> QED
        BY <3>1, <3>2
    <2>3. Looping'
      BY <1>0, <1>3, <2>1, <2>2 DEF Looping
    <2> QED
      <3>1. done' \in Nat /\ got' \in Seq(Nat)
        BY <2>1, <2>2
      <3> QED
        BY <1>a, <2>3, <3>1
  <1>9. CASE GetHit
    <2>1. /\ upc = "get" /\ upc' = "get" /\ done < Len(entries) /\ done' = done + 1
          /\ got' = Append(got, hits[done + 1]) /\ ~args.dry /\ Len(got) = done
      BY <1>0, <1>9 DEF GetHit, Looping
    <2>2. hits[done + 1] \in Nat
      BY <1>0, <1>6, <2>1
    <2>3. got' \in Seq(Nat) /\ Len(got') = done + 1
      <3> DEFINE v == hits[done + 1]
      <3>1. v \in Nat /\ got' = Append(got, v)
        BY <2>1, <2>2
      <3> HIDE DEF v
      <3>2. Append(got, v) \in Seq(Nat) /\ Len(Append(got, v)) = Len(got) + 1
        BY <1>0, <3>1, AppendProperties
      <3> QED
        BY <2>1, <3>1, <3>2
    <2>4. Looping'
      BY <1>0, <1>3, <2>1, <2>3 DEF Looping
    <2> QED
      <3>1. done' \in Nat /\ got' \in Seq(Nat)
        BY <1>0, <2>1, <2>3
      <3> QED
        BY <1>a, <2>4, <3>1
  <1>10. CASE GetEnd
    <2>1. /\ upc = "get" /\ upc' = "reset" /\ done = Len(entries) /\ done' = 0
          /\ got' = got /\ ~args.dry /\ Len(got) = done
      BY <1>0, <1>10 DEF GetEnd, Looping
    <2>2. Looping'
      BY <1>0, <1>3, <2>1 DEF Looping
    <2> QED
      <3>1. done' \in Nat
        BY <1>0, <2>1
      <3>2. got' \in Seq(Nat)
        BY <1>0, <2>1
      <3> QED
        BY <1>a, <2>2, <3>1, <3>2
  <1>11. CASE ResetHit
    <2>1. /\ upc = "reset" /\ upc' = "reset" /\ done < Len(entries) /\ done' = done + 1
          /\ got' = got /\ ~args.dry /\ Len(got) = Len(entries)
      BY <1>0, <1>11 DEF ResetHit, Looping
    <2>2. Looping'
      BY <1>0, <1>3, <2>1 DEF Looping
    <2> QED
      <3>1. done' \in Nat
        BY <1>0, <2>1
      <3>2. got' \in Seq(Nat)
        BY <1>0, <2>1
      <3> QED
        BY <1>a, <2>2, <3>1, <3>2
  <1>12. CASE ~(Tick \/ GetHit \/ GetEnd \/ ResetHit)
    <2>1. UNCHANGED <<done, got>>
      BY <1>3, <1>12
    <2>2. /\ upc' \notin {"get", "reset"}
          /\ upc' \in {"stun", "write"} => upc \in {"reset", "stun"}
          /\ upc' \in {"dryRead", "dryRemove"} =>
                 upc \in {"dryRead", "dryRemove"} \/ Turn
      BY <1>1, <1>12 DEF LoopPc
    <2>3. Turn => args.dry
      BY DEF Turn
    <2>4. Looping'
      BY <1>0, <1>3, <2>1, <2>2, <2>3 DEF Looping
    <2> QED
      <3>1. done' \in Nat /\ got' \in Seq(Nat)
        BY <1>0, <2>1
      <3> QED
        BY <1>a, <2>4, <3>1
  <1> QED
    BY <1>8, <1>9, <1>10, <1>11, <1>12

-----------------------------------------------------------------------------
(* Types.                                                                    *)

Counts == [Addr -> Nat]

(* The types of what the task prints, and of the history. *)
OutType ==
    /\ active \in {0, 1} /\ tally \in Counts /\ writeBuf \in {0, 1} /\ drainBuf \in {0, 1}
    /\ stunFile \in Counts /\ base \in Counts /\ printed \in Counts /\ straddled \in BOOLEAN

(* ... of the maps of the list, and of the counters of the drops. *)
MapsType ==
    /\ trie \in [DOMAIN trie -> 1 .. MaxRanges] /\ dryRun \in BOOLEAN /\ config \subseteq Proto
    /\ received \in Nat /\ misjudged = FALSE

HitsType == hits \in Seq(Nat) /\ bumped \in Seq(Nat) /\ dumped \in Seq(Nat) /\ raced \subseteq Races

(* The types, by the part they are about. *)
LEMMA TypeParts ==
  /\ TypeOK /\ DropsAsAsked <=> /\ CountersType /\ ListType /\ OutType /\ MapsType /\ HitsType
                                /\ pkt \in [CPU -> PktType] /\ got \in Seq(Nat)
  /\ (TypeOK /\ DropsAsAsked)' <=> /\ CountersType' /\ ListType' /\ OutType' /\ MapsType' /\ HitsType'
                                   /\ pkt' \in [CPU -> PktType] /\ got' \in Seq(Nat)
  BY DEF TypeOK, DropsAsAsked, ListType, OutType, MapsType, HitsType, PktType, JobType, UpcType, Counts

(* What the iteration returns is counted with what the map holds of it. *)
LEMMA ReadDoes ==
  ASSUME IInv, NEW a \in Addr, ReadStun(a) \/ ReadDry(a)
  PROVE  /\ it.map \in Table /\ a \in Key /\ Present(tables[it.map], a)
         /\ (ReadStun(a) => it.map = Stun) /\ Amount(it.map, a) \in Nat
         /\ tally' = [tally EXCEPT ![a] = @ + Amount(it.map, a)] /\ tally' \in Counts
         /\ IterKey(a) \/ IterAgain(a)
  <1>1. /\ CountersType /\ tally \in Counts /\ it.map \in Table /\ a \in Key
        /\ tables[it.map] \in MapType(Key)
    BY Maps DEF IInv, TypeOK, CountersType, IterType, Counts
  <1>2. Present(tables[it.map], a) /\ (IterKey(a) \/ IterAgain(a))
    BY DEF ReadStun, ReadDry, IterKey, IterAgain
  <1>3. ReadStun(a) => it.map = Stun
    BY DEF ReadStun, IInv, StunInv, Looping
  <1>4. tally' = [tally EXCEPT ![a] = @ + ValueOf(tables[it.map], a)]
    BY <1>3 DEF ReadStun, ReadDry
  <1>5. ValueOf(tables[it.map], a) = Amount(it.map, a) /\ Amount(it.map, a) \in Nat
    BY <1>1, <1>2, AmountType DEF Amount
  <1>6. tally' = [tally EXCEPT ![a] = @ + Amount(it.map, a)]
    BY <1>4, <1>5
  <1>7. tally' \in Counts
    <2> DEFINE v == Amount(it.map, a)
    <2>1. v \in Nat /\ tally' = [tally EXCEPT ![a] = @ + v] /\ tally \in Counts
      BY <1>1, <1>5, <1>6
    <2> HIDE DEF v
    <2> QED
      BY <2>1 DEF Counts
  <1> QED
    BY <1>1, <1>2, <1>3, <1>5, <1>6, <1>7

(* A dump starts its counts anew, and remembers what it has to cover.         *)
LEMMA StunOrNotKeeps ==
  ASSUME TypeOK, StunOrNot
  PROVE  base' \in Counts /\ tally' \in Counts
  <1>1. base \in Counts /\ tally \in Counts /\ recorded[Stun] \in Counts /\ NoCounts \in Counts
    BY Maps DEF TypeOK, CountersType, Counts, NoCounts
  <1> QED
    BY <1>1, StunOrNotDoes

(* The loop keeps the types of what it reads and writes. *)
LEMMA LoopOut ==
  ASSUME IInv, LoopAction
  PROVE  OutType'
  <1>0. OutType /\ TypeOK
    BY TypeParts DEF IInv
  <1>1. /\ stunFile' = stunFile \/ WriteStun
        /\ printed' = printed \/ DryPrint
        /\ UNCHANGED <<active, writeBuf, drainBuf, straddled>> \/ Turn
        /\ UNCHANGED base \/ Tick \/ WriteHits
        /\ UNCHANGED tally \/ Tick \/ WriteHits \/ Turn
               \/ \E a \in Addr : ReadStun(a) \/ ReadDry(a) \/ DryRemove(a)
    BY LoopLeaves
  <1>2. stunFile' \in Counts
    BY <1>0, <1>1 DEF WriteStun, OutType
  <1>3. printed' \in Counts
    BY <1>0, <1>1 DEF DryPrint, OutType, Counts
  <1>4. /\ active' \in {0, 1} /\ writeBuf' \in {0, 1} /\ drainBuf' \in {0, 1}
        /\ straddled' \in BOOLEAN
    <2>1. CASE Turn
      <3>1. 1 - writeBuf \in {0, 1}
        BY <1>0, Maps DEF OutType
      <3>2. /\ drainBuf' = writeBuf /\ writeBuf' = 1 - writeBuf /\ active' = writeBuf'
            /\ straddled' = (straddled \/ \E c \in CPU : InDryRun(c))
        BY <2>1 DEF Turn
      <3> QED
        BY <1>0, <3>1, <3>2 DEF OutType
    <2>2. CASE UNCHANGED <<active, writeBuf, drainBuf, straddled>>
      BY <1>0, <2>2 DEF OutType
    <2> QED
      BY <1>1, <2>1, <2>2
  <1>5. Tick \/ WriteHits => base' \in Counts /\ tally' \in Counts
    BY <1>0, StunOrNotKeeps DEF Tick, WriteHits, OutType
  <1>6. base' \in Counts
    BY <1>0, <1>1, <1>5 DEF OutType
  <1>7. tally' \in Counts
    <2>1. \A a \in Addr : ReadStun(a) \/ ReadDry(a) => tally' \in Counts
      BY ReadDoes
    <2>2. \A a \in Addr : DryRemove(a) => tally' \in Counts
      BY <1>0 DEF DryRemove, OutType, Counts
    <2>3. Turn => tally' \in Counts
      BY DEF Turn, NoCounts, Counts
    <2> QED
      BY <1>0, <1>1, <1>5, <2>1, <2>2, <2>3 DEF OutType
  <1> QED
    BY <1>2, <1>3, <1>4, <1>6, <1>7 DEF OutType

-----------------------------------------------------------------------------
(* Everything but the drops and the counts of the maps. *)
Settled ==
    /\ TypeOK /\ DropsAsAsked /\ CountersInv /\ Listing /\ Enforced /\ Jobs /\ Looping

(* A packet leaves the list, the maps and the loop settled. *)
LEMMA KernelSettled ==
  ASSUME IInv, KernelStep PROVE Settled'
  <1>0. /\ ListType /\ OutType /\ MapsType /\ HitsType /\ pkt \in [CPU -> PktType] /\ got \in Seq(Nat)
        /\ Enforced
    BY TypeParts DEF IInv
  <1>1. UNCHANGED <<listMaps, active, attached, taskVars, outHist, dumped>>
    BY KernelLeaves
  <1>2. CountersInv'
    BY CountersKept DEF Next, KernelStep
  <1>3. ListType' /\ OutType' /\ got' \in Seq(Nat)
    BY <1>0, <1>1 DEF ListType, OutType, taskVars, outHist
  <1>4. /\ MapsType' /\ HitsType' /\ pkt' \in [CPU -> PktType] /\ Jobs'
        /\ Len(hits') = Len(hits) /\ Len(bumped') = Len(bumped) /\ (hits = <<>> => hits' = <<>>)
    <2>1. CASE \E c \in CPU, p \in Packets(args) : Receive(c, p)
      <3>1. PICK c \in CPU, p \in Packets(args) : Receive(c, p)
        BY <2>1
      <3>2. UNCHANGED <<hits, bumped, raced>>
        BY <3>1 DEF Receive, hitHist
      <3>3. received' \in Nat /\ misjudged' = FALSE /\ pkt' \in [CPU -> PktType] /\ Jobs'
        BY <3>1, ReceiveKeeps
      <3> QED
        BY <1>0, <1>1, <3>2, <3>3 DEF MapsType, HitsType, listMaps
    <2>2. ASSUME NEW c \in CPU, PacketStep(c)
          PROVE  /\ MapsType' /\ HitsType' /\ pkt' \in [CPU -> PktType] /\ Jobs'
                 /\ Len(hits') = Len(hits) /\ Len(bumped') = Len(bumped)
                 /\ (hits = <<>> => hits' = <<>>)
      <3>1. CASE Record(c)
        BY <1>0, <1>1, <3>1, RecordJobs DEF MapsType, HitsType, listMaps
      <3>2. CASE Count(c)
        BY <1>0, <1>1, <3>2, CountJobs DEF MapsType, HitsType, listMaps
      <3>3. CASE HitLoad(c)
        <4>1. raced' \subseteq Races
          BY <1>0, <3>3, HitLoadJobs DEF HitsType, Races
        <4>2. /\ Jobs' /\ pkt' \in [CPU -> PktType]
              /\ UNCHANGED <<received, misjudged, hits, bumped, counters>>
          BY <3>3, HitLoadJobs
        <4> QED
          BY <1>0, <1>1, <4>1, <4>2 DEF MapsType, HitsType, listMaps
      <3>4. CASE HitStore(c)
        <4>1. raced' \subseteq Races
          BY <1>0, <3>4, HitStoreJobs DEF HitsType, Races
        <4>2. /\ Jobs' /\ pkt' \in [CPU -> PktType] /\ UNCHANGED <<received, misjudged>>
              /\ hits' \in Seq(Nat) /\ bumped' \in Seq(Nat) /\ pkt[c].at \in DOMAIN hits
              /\ Len(hits') = Len(hits) /\ Len(bumped') = Len(bumped)
          BY <3>4, HitStoreJobs
        <4>3. hits # <<>>
          BY <4>2
        <4> QED
          BY <1>0, <1>1, <4>1, <4>2, <4>3 DEF MapsType, HitsType, listMaps
      <3> QED
        BY <2>2, <3>1, <3>2, <3>3, <3>4 DEF PacketStep
    <2> QED
      BY <2>1, <2>2 DEF KernelStep
  <1>5. Listing' /\ Enforced' /\ Looping'
    BY <1>1, <1>4, PacketKeeps
  <1>6. TypeOK' /\ DropsAsAsked'
    BY <1>2, <1>3, <1>4, TypeParts DEF CountersInv
  <1> QED
    BY <1>2, <1>4, <1>5, <1>6 DEF Settled

(* As long as nothing is written nothing counts. *)
LEMMA JobsStay ==
  ASSUME Jobs, UNCHANGED <<pkt, probe, args>>, Synced => Synced',
         DOMAIN hits \subseteq DOMAIN hits'
  PROVE  Jobs'
  BY DEF Jobs, Job

(* run() up to its loop settles them: nothing is attached before the maps are *)
(* written.                                                                   *)
LEMMA StartSettled ==
  ASSUME IInv, StartStep \/ Sync PROVE Settled'
  <1>0. /\ ListType /\ OutType /\ MapsType /\ HitsType /\ pkt \in [CPU -> PktType] /\ got \in Seq(Nat)
        /\ Enforced /\ Looping /\ Jobs
    BY TypeParts DEF IInv
  <1>1. CountersInv'
    BY CountersKept DEF Next, TaskStep, StartStep
  <1>2. CASE StartStep
    <2>1. UNCHANGED startRest /\ ListType' /\ Listing' /\ Enforced'
      BY <1>2, StartKeeps
    <2>2. OutType' /\ MapsType' /\ HitsType' /\ pkt' \in [CPU -> PktType] /\ got' \in Seq(Nat)
      BY <1>0, <2>1 DEF OutType, MapsType, HitsType, startRest, kernelRest, listMaps, hitHist, outHist
    <2>3. TypeOK' /\ DropsAsAsked'
      BY <1>1, <2>1, <2>2, TypeParts DEF CountersInv
    <2>4. Jobs'
      <3>1. UNCHANGED <<pkt, probe, args, trie, hits>>
        BY <2>1 DEF startRest, kernelRest, listMaps, counters
      <3> QED
        BY <1>0, <3>1, JobsStay DEF Synced
    <2>5. Looping'
      <3>1. upc' \notin {"get", "reset", "stun", "write", "dryRead", "dryRemove"}
        BY <1>2 DEF StartStep, LoadFile, Add, AddEnd, Delete, Check, Detach, Attach, Leave, Exit
      <3> QED
        BY <3>1 DEF Looping
    <2> QED
      BY <1>1, <2>1, <2>3, <2>4, <2>5 DEF Settled
  <1>3. CASE Sync
    <2>1. /\ ListType' /\ Listing' /\ Enforced'
          /\ UNCHANGED <<kernelRest, active, raced, attached, args, got, tally, writeBuf, drainBuf>>
          /\ upc' = "detach" /\ ~Synced
          /\ trie' \in [DOMAIN trie' -> 1 .. MaxRanges]
          /\ dryRun' \in BOOLEAN /\ config' \subseteq Proto
          /\ bumped' = hits' /\ dumped' = hits' /\ hits' \in Seq(Nat)
      BY <1>3, SyncKeeps
    <2>2. OutType' /\ MapsType' /\ HitsType' /\ pkt' \in [CPU -> PktType] /\ got' \in Seq(Nat)
      BY <1>0, <2>1 DEF OutType, MapsType, HitsType, kernelRest, outHist
    <2>3. TypeOK' /\ DropsAsAsked'
      BY <1>1, <2>1, <2>2, TypeParts DEF CountersInv
    <2>4. Jobs'
      <3>1. UNCHANGED <<pkt, probe, args>> /\ hits = <<>>
        BY <1>0, <2>1 DEF kernelRest, counters, Enforced
      <3>2. DOMAIN hits = {}
        BY <3>1
      <3> QED
        BY <1>0, <2>1, <3>1, <3>2, JobsStay
    <2>5. Looping'
      BY <2>1 DEF Looping
    <2> QED
      BY <1>1, <2>1, <2>3, <2>4, <2>5 DEF Settled
  <1> QED
    BY <1>2, <1>3

(* The loop leaves them settled. *)
LEMMA LoopSettled ==
  ASSUME IInv, LoopAction PROVE Settled'
  <1>0. MapsType /\ HitsType
    BY TypeParts DEF IInv
  <1>1. CountersInv'
    BY CountersKept DEF Next, TaskStep, LoopAction, LoopStep
  <1>2. /\ ListType' /\ Listing' /\ Enforced' /\ Looping' /\ Jobs'
        /\ got' \in Seq(Nat) /\ pkt' \in [CPU -> PktType]
    BY LoopKeeps
  <1>3. OutType'
    BY LoopOut
  <1>4. MapsType'
    <2>1. UNCHANGED <<listMaps, received, misjudged>>
      BY LoopLeaves
    <2> QED
      BY <1>0, <2>1 DEF MapsType, listMaps
  <1>5. HitsType'
    <2>1. hits' \in Seq(Nat) /\ dumped' \in Seq(Nat)
      BY LoopHits
    <2>2. bumped' = bumped /\ (raced' = raced \/ ResetHit)
      BY LoopLeaves
    <2>3. raced' \subseteq Races
      BY <1>0, <2>2 DEF HitsType, ResetHit, Races
    <2> QED
      BY <1>0, <2>1, <2>2, <2>3 DEF HitsType
  <1>6. TypeOK' /\ DropsAsAsked'
    BY <1>1, <1>2, <1>3, <1>4, <1>5, TypeParts DEF CountersInv
  <1> QED
    BY <1>1, <1>2, <1>6 DEF Settled

(* Everything but the counts is in order after every step. *)
LEMMA NextSettled ==
  ASSUME IInv, Next PROVE Settled'
  BY NextSteps, KernelSettled, StartSettled, LoopSettled

-----------------------------------------------------------------------------
(* The drops: BLACKLIST_HITS and dump_hits.                                  *)

(* What HitsInv says of one position. *)
HitsAt(i) ==
    /\ "revived" \notin raced =>
           /\ hits[i] <= Open(i)
           /\ BetweenGetAndSet(i) => got[i] <= Open(i)
           /\ \A c \in CPU : pkt[c].at = i => pkt[c].reg <= Open(i)
    /\ raced = {} =>
           /\ upc # "failed" => hits[i] = Open(i)
           /\ BetweenGetAndSet(i) => got[i] = hits[i]
           /\ \A c \in CPU : pkt[c].at = i => pkt[c].reg = hits[i]
           /\ \A c, d \in CPU : pkt[c].at = i /\ pkt[d].at = i => c = d

(* The counts of the drops, position by position. *)
LEMMA HitsAreAt ==
  /\ HitsInv <=> \A i \in DOMAIN hits : HitsAt(i)
  /\ HitsInv' <=> \A i \in DOMAIN hits' : HitsAt(i)'
  BY DEF HitsInv, HitsAt, Open, BetweenGetAndSet

(* The counters of a position are numbers. *)
LEMMA HitNumbers ==
  ASSUME IInv, NEW i \in DOMAIN hits
  PROVE  /\ i \in Nat /\ i > 0 /\ i <= Len(entries) /\ Len(entries) \in Nat /\ i <= Len(hits)
         /\ hits[i] \in Nat /\ bumped[i] \in Nat /\ dumped[i] \in Nat /\ done \in Nat
         /\ (upc = "reset" \/ BetweenGetAndSet(i) => got[i] \in Nat)
         /\ Open(i) \in Int /\ HitsAt(i)
         /\ i \in DOMAIN bumped /\ i \in DOMAIN dumped
         /\ \A c \in CPU : pkt[c].reg \in Nat /\ pkt[c].at \in Nat
  <1>1. /\ HitsType /\ got \in Seq(Nat) /\ pkt \in [CPU -> PktType] /\ ListType /\ Enforced /\ Looping
        /\ HitsInv
    BY TypeParts DEF IInv
  <1>2. /\ hits \in Seq(Nat) /\ bumped \in Seq(Nat) /\ dumped \in Seq(Nat) /\ entries \in Seq(Cidr)
        /\ done \in Nat /\ Len(bumped) = Len(hits) /\ Len(dumped) = Len(hits)
    BY <1>1 DEF HitsType, ListType, Enforced
  <1>3. hits # <<>>
    BY <1>2
  <1>4. Synced /\ Len(hits) = Len(entries)
    BY <1>1, <1>3 DEF Enforced
  <1>5. /\ i \in 1 .. Len(hits) /\ Len(hits) \in Nat /\ i \in DOMAIN bumped /\ i \in DOMAIN dumped
    BY <1>2
  <1>6. hits[i] \in Nat /\ bumped[i] \in Nat /\ dumped[i] \in Nat
    BY <1>2, <1>5
  <1>7. upc = "reset" \/ BetweenGetAndSet(i) => got[i] \in Nat
    <2>1. \A j \in Nat \ {0} : j <= Len(got) => got[j] \in Nat
      BY <1>1
    <2>2. upc = "reset" => Len(got) = Len(entries)
      BY <1>1 DEF Looping
    <2>3. upc = "get" => Len(got) = done
      BY <1>1 DEF Looping
    <2> QED
      BY <1>4, <1>5, <2>1, <2>2, <2>3 DEF BetweenGetAndSet
  <1>8. Open(i) \in Int
    <2> DEFINE b == bumped[i]
               d == dumped[i]
               g == IF upc = "reset" /\ i <= done THEN got[i] ELSE 0
    <2>1. b \in Nat /\ d \in Nat /\ g \in Nat /\ Open(i) = b - d - g
      BY <1>6, <1>7 DEF Open
    <2> HIDE DEF b, d, g
    <2> QED
      BY <2>1
  <1>9. \A c \in CPU : pkt[c].reg \in Nat /\ pkt[c].at \in Nat
    BY <1>1 DEF PktType
  <1>10. HitsAt(i)
    BY <1>1, HitsAreAt
  <1> QED
    BY <1>2, <1>4, <1>5, <1>6, <1>7, <1>8, <1>9, <1>10

(* Nothing that moves between the accesses of a dump, and no drop counted. *)
NoLoad == \A c \in CPU : pkt'[c].at = 0 \/ (pkt'[c].at = pkt[c].at /\ pkt'[c].reg = pkt[c].reg)

NoDump ==
    /\ \/ upc' = upc /\ done' = done /\ got' = got
       \/ upc \notin {"get", "reset"} /\ upc' \notin {"get", "reset"}
    /\ upc = "failed" => upc' = "failed"

(* Whoever leaves the counts and the passes of dump_hits alone keeps the      *)
(* drops accounted.                                                           *)
LEMMA HitsStay ==
  ASSUME HitsInv, UNCHANGED <<hits, bumped, dumped, raced>>,
         NoDump, NoLoad,
         0 \notin DOMAIN hits
  PROVE  HitsInv'
  <1> SUFFICES ASSUME NEW i \in DOMAIN hits PROVE HitsAt(i)'
    BY HitsAreAt
  <1>1. HitsAt(i) /\ i # 0
    BY HitsAreAt
  <1>2. Open(i)' = Open(i) /\ (BetweenGetAndSet(i)' <=> BetweenGetAndSet(i))
        /\ (BetweenGetAndSet(i) => got' = got) /\ (upc = "failed" => upc' = "failed")
    <2>0. upc = "failed" => upc' = "failed"
      BY DEF NoDump
    <2>1. CASE UNCHANGED <<upc, done, got>>
      BY <2>0, <2>1 DEF Open, BetweenGetAndSet
    <2>2. CASE upc \notin {"get", "reset"} /\ upc' \notin {"get", "reset"}
      <3>1. Open(i) = bumped[i] - dumped[i] - 0 /\ Open(i)' = bumped'[i] - dumped'[i] - 0
        BY <2>2 DEF Open
      <3>2. ~BetweenGetAndSet(i) /\ ~BetweenGetAndSet(i)'
        BY <2>2 DEF BetweenGetAndSet
      <3> QED
        BY <2>0, <3>1, <3>2
    <2> QED
      BY <2>1, <2>2 DEF NoDump
  <1>3. \A c \in CPU : pkt'[c].at = i => pkt[c].at = i /\ pkt'[c].reg = pkt[c].reg
    BY <1>1 DEF NoLoad
  <1> QED
    BY <1>1, <1>2, <1>3 DEF HitsAt

(* A drop's load: whoever reads a counter that another CPU has read meets it. *)
LEMMA HitLoadHits ==
  ASSUME IInv, NEW c \in CPU, HitLoad(c) PROVE HitsInv'
  <1>1. PICK j \in DOMAIN hits :
            /\ pkt'[c].at = j /\ pkt'[c].reg = hits[j]
            /\ raced' = raced \cup {r \in {"met"} : \E d \in CPU : pkt[d].at = j}
    BY HitLoadJobs
  <1>2. /\ \A d \in CPU \ {c} : pkt'[d] = pkt[d]
        /\ UNCHANGED <<hits, bumped, dumped, upc, done, got>> /\ pkt[c].at = 0
    BY HitLoadJobs DEF HitLoad, hitRest, taskVars
  <1> SUFFICES ASSUME NEW i \in DOMAIN hits PROVE HitsAt(i)'
    BY <1>2, HitsAreAt
  <1>3. HitsAt(i) /\ i # 0
    BY HitNumbers
  <1>4. Open(i)' = Open(i) /\ (BetweenGetAndSet(i)' <=> BetweenGetAndSet(i))
    BY <1>2 DEF Open, BetweenGetAndSet
  <1>5. ("revived" \notin raced' => "revived" \notin raced) /\ (raced' = {} => raced = {})
    BY <1>1
  <1>6. CASE i # j
    <2>1. \A d \in CPU : pkt'[d].at = i => pkt[d].at = i /\ pkt'[d].reg = pkt[d].reg
      BY <1>1, <1>2, <1>6
    <2> QED
      BY <1>2, <1>3, <1>4, <1>5, <2>1 DEF HitsAt
  <1>7. CASE i = j
    <2>1. \A d \in CPU : pkt'[d].at = i =>
              (d = c /\ pkt'[d].reg = hits[i]) \/ (d # c /\ pkt[d].at = i /\ pkt'[d].reg = pkt[d].reg)
      BY <1>1, <1>2, <1>7
    <2>2. raced' = {} => \A d \in CPU : pkt[d].at # i
      <3>1. ASSUME NEW d \in CPU, pkt[d].at = i PROVE "met" \in raced'
        BY <1>1, <1>7, <3>1
      <3> QED
        BY <3>1
    <2> QED
      BY <1>2, <1>3, <1>4, <1>5, <2>1, <2>2 DEF HitsAt
  <1> QED
    BY <1>6, <1>7

(* ... and its store. *)
LEMMA HitStoreHits ==
  ASSUME IInv, NEW c \in CPU, HitStore(c) PROVE HitsInv'
  <1> DEFINE j == pkt[c].at
  <1>1. /\ pkt'[c].at = 0 /\ \A d \in CPU \ {c} : pkt'[d] = pkt[d]
        /\ j \in DOMAIN hits /\ pkt[c].reg \in Nat
        /\ hits' = [hits EXCEPT ![j] = pkt[c].reg + 1]
        /\ bumped' = [bumped EXCEPT ![j] = @ + 1]
        /\ raced' = raced \cup {r \in {"lost"} : BetweenGetAndSet(j)}
        /\ DOMAIN hits' = DOMAIN hits
        /\ UNCHANGED <<dumped, upc, done, got>>
    BY HitStoreJobs DEF HitStore, hitRest, taskVars
  <1> HIDE DEF j
  <1> SUFFICES ASSUME NEW i \in DOMAIN hits PROVE HitsAt(i)'
    BY <1>1, HitsAreAt
  <1>2. /\ HitsAt(i) /\ i \in Nat /\ i > 0 /\ hits[i] \in Nat /\ bumped[i] \in Nat /\ dumped[i] \in Nat
        /\ Open(i) \in Int /\ (upc = "reset" \/ BetweenGetAndSet(i) => got[i] \in Nat)
        /\ i \in DOMAIN bumped
        /\ \A d \in CPU : pkt[d].reg \in Nat
    BY HitNumbers
  <1>3. BetweenGetAndSet(i)' <=> BetweenGetAndSet(i)
    BY <1>1 DEF BetweenGetAndSet
  <1>4. ("revived" \notin raced' => "revived" \notin raced) /\ (raced' = {} => raced = {})
    BY <1>1
  <1>5. CASE i # j
    <2>1. hits'[i] = hits[i] /\ bumped'[i] = bumped[i]
      BY <1>1, <1>2, <1>5
    <2>2. Open(i)' = Open(i)
      BY <1>1, <2>1 DEF Open
    <2>3. \A d \in CPU : pkt'[d].at = i => pkt[d].at = i /\ pkt'[d].reg = pkt[d].reg
      BY <1>1, <1>2
    <2> QED
      BY <1>1, <1>2, <1>3, <1>4, <2>1, <2>2, <2>3 DEF HitsAt
  <1>6. CASE i = j
    <2> DEFINE r == pkt[c].reg
    <2>1. hits'[i] = r + 1 /\ bumped'[i] = bumped[i] + 1 /\ r \in Nat /\ pkt[c].at = i
      BY <1>1, <1>2, <1>6 DEF j
    <2>2. Open(i)' = Open(i) + 1
      <3> DEFINE b == bumped[i]
                 d == dumped[i]
                 g == IF upc = "reset" /\ i <= done THEN got[i] ELSE 0
      <3>1. b \in Nat /\ d \in Nat /\ g \in Nat
        BY <1>2
      <3>2. Open(i) = b - d - g /\ Open(i)' = (b + 1) - d - g
        BY <1>1, <2>1 DEF Open
      <3> HIDE DEF b, d, g
      <3> QED
        BY <3>1, <3>2
    <2>3. \A d \in CPU : pkt'[d].at = i => d # c /\ pkt[d].at = i /\ pkt'[d].reg = pkt[d].reg
      BY <1>1, <1>2
    <2>4. raced' = {} => ~BetweenGetAndSet(i)
      <3>1. BetweenGetAndSet(j) => "lost" \in raced'
        BY <1>1
      <3> QED
        BY <1>6, <3>1
    <2> HIDE DEF r
    <2>5. ASSUME "revived" \notin raced'
          PROVE  /\ hits'[i] <= Open(i)'
                 /\ BetweenGetAndSet(i)' => got'[i] <= Open(i)'
                 /\ \A d \in CPU : pkt'[d].at = i => pkt'[d].reg <= Open(i)'
      <3>1. r <= Open(i)
        BY <1>2, <1>4, <2>1, <2>5 DEF HitsAt, r
      <3>2. hits'[i] <= Open(i)'
        BY <1>2, <2>1, <2>2, <3>1
      <3>3. BetweenGetAndSet(i)' => got'[i] <= Open(i)'
        <4> DEFINE g == got[i]
        <4>1. got'[i] = g /\ (BetweenGetAndSet(i) => g \in Nat /\ g <= Open(i))
          BY <1>1, <1>2, <1>4, <2>5 DEF HitsAt
        <4> HIDE DEF g
        <4> QED
          BY <1>2, <1>3, <2>2, <4>1
      <3>4. ASSUME NEW d \in CPU, pkt'[d].at = i PROVE pkt'[d].reg <= Open(i)'
        <4> DEFINE g == pkt[d].reg
        <4>1. pkt'[d].reg = g /\ g \in Nat /\ g <= Open(i)
          BY <1>2, <1>4, <2>3, <2>5, <3>4 DEF HitsAt
        <4> HIDE DEF g
        <4> QED
          BY <1>2, <2>2, <4>1
      <3> QED
        BY <3>2, <3>3, <3>4
    <2>6. ASSUME raced' = {}
          PROVE  /\ upc' # "failed" => hits'[i] = Open(i)'
                 /\ BetweenGetAndSet(i)' => got'[i] = hits'[i]
                 /\ \A d \in CPU : pkt'[d].at = i => pkt'[d].reg = hits'[i]
                 /\ \A d, e \in CPU : pkt'[d].at = i /\ pkt'[e].at = i => d = e
      <3>1. raced = {} /\ r = hits[i] /\ (upc # "failed" => hits[i] = Open(i))
            /\ \A d \in CPU : pkt[d].at = i => d = c
        BY <1>2, <1>4, <2>1, <2>6 DEF HitsAt, r
      <3>2. upc' # "failed" => hits'[i] = Open(i)'
        BY <1>1, <1>2, <2>1, <2>2, <3>1
      <3>3. \A d \in CPU : pkt'[d].at # i
        BY <2>3, <3>1
      <3> QED
        BY <1>3, <2>4, <2>6, <3>2, <3>3
    <2> QED
      BY <2>5, <2>6 DEF HitsAt
  <1> QED
    BY <1>5, <1>6

(* The dump: a count is read ...                                              *)
LEMMA GetHitHits ==
  ASSUME IInv, GetHit \/ GetEnd \/ Tick PROVE HitsInv'
  <1>1. /\ UNCHANGED <<hits, bumped, dumped, raced, pkt>> /\ upc # "failed"
    BY DEF GetHit, GetEnd, Tick, fileRest, dumpRest, loopRest, hitHist
  <1> SUFFICES ASSUME NEW i \in DOMAIN hits PROVE HitsAt(i)'
    BY <1>1, HitsAreAt
  <1>2. /\ HitsAt(i) /\ i \in Nat /\ i > 0 /\ i <= Len(entries) /\ done \in Nat
        /\ Len(entries) \in Nat /\ hits[i] \in Nat
    BY HitNumbers
  <1>3. upc \in {"get", "run"}
    BY DEF GetHit, GetEnd, Tick
  <1>4. Open(i) = bumped[i] - dumped[i] - 0
    BY <1>3 DEF Open
  <1>5. CASE GetHit
    <2>1. /\ upc = "get" /\ upc' = "get" /\ done' = done + 1 /\ got' = Append(got, hits[done + 1])
          /\ Len(got) = done /\ got \in Seq(Nat)
      BY <1>5, TypeParts DEF GetHit, fileRest, IInv, Looping
    <2>2. Open(i)' = Open(i)
      BY <1>1, <1>4, <2>1 DEF Open
    <2>3. BetweenGetAndSet(i)' => i <= done \/ i = done + 1
      <3>1. BetweenGetAndSet(i)' => i <= done + 1
        BY <2>1 DEF BetweenGetAndSet
      <3> QED
        BY <1>2, <3>1
    <2>4. i <= done => BetweenGetAndSet(i) /\ got'[i] = got[i]
      BY <1>2, <2>1 DEF BetweenGetAndSet
    <2>5. i = done + 1 => got'[i] = hits[i]
      BY <1>2, <2>1
    <2> QED
      BY <1>1, <1>2, <2>1, <2>2, <2>3, <2>4, <2>5 DEF HitsAt
  <1>6. CASE GetEnd
    <2>1. /\ upc = "get" /\ upc' = "reset" /\ done' = 0 /\ got' = got /\ done = Len(entries)
      BY <1>6 DEF GetEnd
    <2>2. Open(i)' = Open(i)
      BY <1>1, <1>2, <1>4, <2>1 DEF Open
    <2>3. BetweenGetAndSet(i)
      BY <1>2, <2>1 DEF BetweenGetAndSet
    <2> QED
      BY <1>1, <1>2, <2>1, <2>2, <2>3 DEF HitsAt
  <1>7. CASE Tick
    <2>1. /\ upc = "run" /\ upc' \in {"get", "stun", "run"} /\ done' = 0
      BY <1>7, StunOrNotDoes DEF Tick
    <2>2. Open(i)' = Open(i)
      BY <1>1, <1>4, <2>1 DEF Open
    <2>3. ~BetweenGetAndSet(i)'
      BY <1>2, <2>1 DEF BetweenGetAndSet
    <2> QED
      BY <1>1, <1>2, <2>1, <2>2, <2>3 DEF HitsAt
  <1> QED
    BY <1>5, <1>6, <1>7

(* ... set to 0 ...                                                           *)
LEMMA ResetHitHits ==
  ASSUME IInv, ResetHit PROVE HitsInv'
  <1>1. /\ upc = "reset" /\ upc' = "reset" /\ done' = done + 1
        /\ UNCHANGED <<bumped, dumped, got, pkt>>
        /\ raced' = raced \cup {r \in {"revived"} : \E c \in CPU : pkt[c].at = done + 1}
    BY DEF ResetHit, fileRest, dumpRest, loopRest
  <1>2. hits' = [hits EXCEPT ![done + 1] = 0] /\ done + 1 \in DOMAIN hits /\ DOMAIN hits' = DOMAIN hits
    <2>1. hits' = [hits EXCEPT ![done + 1] = 0] /\ done + 1 \in DOMAIN hits
      BY LoopHits DEF LoopAction
    <2> QED
      BY <2>1
  <1> SUFFICES ASSUME NEW i \in DOMAIN hits PROVE HitsAt(i)'
    BY <1>2, HitsAreAt
  <1>3. /\ HitsAt(i) /\ i \in Nat /\ i > 0 /\ done \in Nat /\ hits[i] \in Nat /\ bumped[i] \in Nat
        /\ dumped[i] \in Nat /\ Open(i) \in Int /\ got[i] \in Nat
    BY <1>1, HitNumbers
  <1>4. ("revived" \notin raced' => "revived" \notin raced) /\ (raced' = {} => raced = {})
    BY <1>1
  <1>5. CASE i # done + 1
    <2>1. hits'[i] = hits[i]
      BY <1>2, <1>5
    <2>2. (i <= done' <=> i <= done) /\ (i > done' <=> i > done)
      BY <1>1, <1>3, <1>5
    <2>3. Open(i)' = Open(i) /\ (BetweenGetAndSet(i)' <=> BetweenGetAndSet(i))
      BY <1>1, <2>2 DEF Open, BetweenGetAndSet
    <2> QED
      BY <1>1, <1>3, <1>4, <2>1, <2>3 DEF HitsAt
  <1>6. CASE i = done + 1
    <2>1. hits'[i] = 0
      BY <1>2, <1>6
    <2>2. BetweenGetAndSet(i) /\ ~BetweenGetAndSet(i)' /\ ~(i <= done) /\ i <= done'
      BY <1>1, <1>3, <1>6 DEF BetweenGetAndSet
    <2>3. Open(i)' = Open(i) - got[i]
      <3> DEFINE b == bumped[i]
                 d == dumped[i]
                 g == got[i]
      <3>1. b \in Nat /\ d \in Nat /\ g \in Nat
        BY <1>3
      <3>2. Open(i) = b - d - 0 /\ Open(i)' = b - d - g
        BY <1>1, <2>2 DEF Open
      <3> HIDE DEF b, d, g
      <3>3. Open(i)' = Open(i) - g
        BY <3>1, <3>2
      <3> QED
        BY <3>3 DEF g
    <2>4. ASSUME NEW c \in CPU, pkt[c].at = i PROVE "revived" \in raced'
      BY <1>1, <1>6, <2>4
    <2>5. "revived" \notin raced' => hits'[i] <= Open(i)'
      <3> DEFINE g == got[i]
      <3>1. g \in Nat /\ Open(i)' = Open(i) - g
        BY <1>3, <2>3
      <3>2. "revived" \notin raced' => g <= Open(i)
        BY <1>3, <1>4, <2>2 DEF HitsAt
      <3> HIDE DEF g
      <3> QED
        BY <1>3, <2>1, <3>1, <3>2
    <2>6. raced' = {} => hits'[i] = Open(i)'
      <3> DEFINE g == got[i]
      <3>1. g \in Nat /\ Open(i)' = Open(i) - g
        BY <1>3, <2>3
      <3>2. raced' = {} => g = hits[i] /\ hits[i] = Open(i)
        BY <1>1, <1>3, <1>4, <2>2 DEF HitsAt
      <3> HIDE DEF g
      <3> QED
        BY <1>3, <2>1, <3>1, <3>2
    <2>7. raced' = {} => "revived" \notin raced'
      OBVIOUS
    <2>8. "revived" \notin raced' => \A c \in CPU : pkt'[c].at # i
      BY <1>1, <2>4
    <2> QED
      BY <2>2, <2>5, <2>6, <2>7, <2>8 DEF HitsAt
  <1> QED
    BY <1>5, <1>6

(* ... and written to the file, or not.                                       *)
LEMMA WriteHitsHits ==
  ASSUME IInv, WriteHits \/ WriteFails PROVE HitsInv'
  <1>1. /\ UNCHANGED <<hits, bumped, raced, pkt>> /\ upc \in {"reset", "write"}
        /\ upc' \in {"stun", "run", "failed"} /\ (upc' = "failed" <=> WriteFails)
        /\ (upc = "reset" => done = Len(entries))
    <2>1. CASE WriteHits
      BY <2>1, StunOrNotDoes DEF WriteHits, dumpRest, loopRest, WriteFails
    <2>2. CASE WriteFails
      BY <2>2 DEF WriteFails, fileRest, dumpRest, loopRest, hitHist
    <2> QED
      BY <2>1, <2>2
  <1> SUFFICES ASSUME NEW i \in DOMAIN hits PROVE HitsAt(i)'
    BY <1>1, HitsAreAt
  <1>2. /\ HitsAt(i) /\ i \in Nat /\ i > 0 /\ i <= Len(entries) /\ done \in Nat
        /\ Len(entries) \in Nat /\ hits[i] \in Nat /\ bumped[i] \in Nat /\ dumped[i] \in Nat
        /\ Open(i) \in Int /\ (upc = "reset" => got[i] \in Nat)
        /\ \A c \in CPU : pkt[c].reg \in Nat
    BY HitNumbers
  <1>3. ~BetweenGetAndSet(i)'
    BY <1>1 DEF BetweenGetAndSet
  <1>4. CASE WriteHits
    <2>1. upc = "reset" /\ dumped'[i] = dumped[i] + got[i]
      BY <1>4, LoopHits DEF WriteHits, LoopAction, LoopStep
    <2>2. i <= done
      BY <1>1, <1>2, <2>1
    <2>3. Open(i)' = Open(i)
      <3> DEFINE b == bumped[i]
                 d == dumped[i]
                 g == got[i]
      <3>1. b \in Nat /\ d \in Nat /\ g \in Nat
        BY <1>2, <2>1
      <3>2. Open(i) = b - d - g /\ Open(i)' = b - (d + g) - 0
        BY <1>1, <2>1, <2>2 DEF Open
      <3> HIDE DEF b, d, g
      <3> QED
        BY <3>1, <3>2
    <2> QED
      BY <1>1, <1>2, <1>3, <2>1, <2>3 DEF HitsAt
  <1>5. CASE WriteFails
    <2>1. upc' = "failed" /\ dumped' = dumped
      BY <1>1, <1>5 DEF WriteFails, hitHist
    <2>2. Open(i)' \in Int /\ Open(i) <= Open(i)'
      <3> DEFINE b == bumped[i]
                 d == dumped[i]
                 g == IF upc = "reset" /\ i <= done THEN got[i] ELSE 0
      <3>1. b \in Nat /\ d \in Nat /\ g \in Nat
        BY <1>2
      <3>2. Open(i) = b - d - g /\ Open(i)' = b - d - 0
        BY <1>1, <2>1 DEF Open
      <3> HIDE DEF b, d, g
      <3> QED
        BY <3>1, <3>2
    <2>3. "revived" \notin raced => hits[i] <= Open(i)'
      <3> DEFINE h == hits[i]
      <3>1. h \in Nat /\ ("revived" \notin raced => h <= Open(i))
        BY <1>2 DEF HitsAt
      <3> HIDE DEF h
      <3>2. "revived" \notin raced => h <= Open(i)'
        BY <1>2, <2>2, <3>1
      <3> QED
        BY <3>2 DEF h
    <2>4. ASSUME NEW c \in CPU, pkt[c].at = i, "revived" \notin raced
          PROVE  pkt[c].reg <= Open(i)'
      <3> DEFINE h == pkt[c].reg
      <3>1. h \in Nat /\ h <= Open(i)
        BY <1>2, <2>4 DEF HitsAt
      <3> HIDE DEF h
      <3>2. h <= Open(i)'
        BY <1>2, <2>2, <3>1
      <3> QED
        BY <3>2 DEF h
    <2> QED
      BY <1>1, <1>2, <1>3, <2>1, <2>3, <2>4 DEF HitsAt
  <1> QED
    BY <1>4, <1>5

(* A list that is written has positions, the first of which is not 0. *)
LEMMA NoHitAtZero == ASSUME IInv PROVE 0 \notin DOMAIN hits
  BY HitNumbers

(* Every step of the program keeps the drops accounted. *)
LEMMA NextHits ==
  ASSUME IInv, Next PROVE HitsInv'
  <1>0. HitsInv /\ 0 \notin DOMAIN hits
    BY NoHitAtZero DEF IInv
  <1>1. CASE KernelStep
    <2>0. UNCHANGED <<upc, done, got, dumped>>
      BY <1>1, KernelLeaves DEF taskVars
    <2>a. ASSUME UNCHANGED <<hits, bumped, raced>>,
                 \A d \in CPU : pkt'[d].at = 0 \/ pkt'[d] = pkt[d]
          PROVE  HitsInv'
      <3>1. UNCHANGED <<hits, bumped, dumped, raced>>
        BY <2>0, <2>a
      <3>2. NoDump
        BY <2>0 DEF NoDump
      <3>3. NoLoad
        BY <2>a DEF NoLoad
      <3> QED
        BY <1>0, <3>1, <3>2, <3>3, HitsStay
    <2>1. CASE \E c \in CPU, p \in Packets(args) : Receive(c, p)
      <3>1. PICK c \in CPU, p \in Packets(args) : Receive(c, p)
        BY <2>1
      <3>2. UNCHANGED <<hits, bumped, raced>>
        BY <3>1 DEF Receive, hitHist
      <3>3. pkt'[c].at = 0 /\ \A d \in CPU \ {c} : pkt'[d] = pkt[d]
        BY <3>1, ReceiveKeeps
      <3> QED
        BY <2>a, <3>2, <3>3
    <2>2. ASSUME NEW c \in CPU, PacketStep(c) PROVE HitsInv'
      <3>1. CASE Record(c)
        BY <2>a, <3>1, RecordJobs
      <3>2. CASE Count(c)
        <4>1. /\ UNCHANGED <<hits, bumped, raced>>
              /\ pkt'[c].at = 0 /\ \A d \in CPU \ {c} : pkt'[d] = pkt[d]
          BY <3>2, CountJobs
        <4> QED
          BY <2>a, <4>1
      <3>3. CASE HitLoad(c)
        BY <3>3, HitLoadHits
      <3>4. CASE HitStore(c)
        BY <3>4, HitStoreHits
      <3> QED
        BY <2>2, <3>1, <3>2, <3>3, <3>4 DEF PacketStep
    <2> QED
      BY <1>1, <2>1, <2>2 DEF KernelStep
  <1>2. CASE StartStep
    <2>1. UNCHANGED <<hits, bumped, dumped, raced, pkt>>
      BY <1>2, StartKeeps DEF startRest, kernelRest, hitHist
    <2>2. upc \notin {"get", "reset", "failed"} /\ upc' \notin {"get", "reset"}
      BY <1>2 DEF StartStep, LoadFile, Add, AddEnd, Delete, Check, Detach, Attach, Leave, Exit
    <2> QED
      BY <1>0, <2>1, <2>2, HitsStay DEF NoLoad, NoDump
  <1>3. CASE Sync
    <2>1. /\ UNCHANGED <<kernelRest, raced>> /\ upc' = "detach" /\ ~Synced
          /\ hits' = [i \in 1 .. Len(entries) |-> 0] /\ bumped' = hits' /\ dumped' = hits'
          /\ Len(entries) \in Nat
      <3>1. Len(entries) \in Nat
        BY TypeParts DEF IInv, ListType
      <3> QED
        BY <1>3, <3>1, SyncKeeps
    <2>2. DOMAIN hits = {}
      <3>1. hits = <<>>
        BY <2>1 DEF IInv, Enforced
      <3> QED
        BY <3>1
    <2>3. \A c \in CPU : pkt'[c].at = 0
      BY <2>1, <2>2 DEF IInv, Jobs, kernelRest
    <2> SUFFICES ASSUME NEW i \in DOMAIN hits' PROVE HitsAt(i)'
      BY HitsAreAt
    <2>4. i \in Nat /\ i > 0 /\ hits'[i] = 0 /\ bumped'[i] = 0 /\ dumped'[i] = 0
      BY <2>1
    <2>5. Open(i)' = 0 /\ ~BetweenGetAndSet(i)'
      BY <2>1, <2>4 DEF Open, BetweenGetAndSet
    <2> QED
      BY <2>3, <2>4, <2>5 DEF HitsAt
  <1>4. CASE LoopAction
    <2>1. CASE GetHit \/ GetEnd \/ Tick
      BY <2>1, GetHitHits
    <2>2. CASE ResetHit
      BY <2>2, ResetHitHits
    <2>3. CASE WriteHits \/ WriteFails
      BY <2>3, WriteHitsHits
    <2>4. CASE ~(GetHit \/ GetEnd \/ Tick \/ ResetHit \/ WriteHits \/ WriteFails)
      <3>1. UNCHANGED <<hits, bumped, dumped, raced, pkt>>
        BY <1>4, <2>4, LoopLeaves
      <3>2. upc \notin {"get", "reset", "failed"} /\ upc' \notin {"get", "reset"}
        BY <1>4, <2>4, LoopActions DEF LoopPc
      <3> QED
        BY <1>0, <3>1, <3>2, HitsStay DEF NoLoad, NoDump
    <2> QED
      BY <2>1, <2>2, <2>3, <2>4
  <1> QED
    BY <1>1, <1>2, <1>3, <1>4, NextSteps

-----------------------------------------------------------------------------
(* The counts of the maps. *)

(* A probe that has added counts once. *)
LEMMA RecordedGrows ==
  ASSUME CountersType, NEW c \in CPU, Added(c), NEW t \in Table, NEW k \in Key
  PROVE  recorded'[t][k] = recorded[t][k] + IF <<t, k>> = Entry(c) THEN probe[c].add ELSE 0
  <1>1. /\ recorded \in [Table -> [Key -> Nat]] /\ probe[c].map \in Table /\ probe[c].key \in Key
        /\ probe[c].add \in Nat
    BY DEF CountersType, ProbeType
  <1>2. recorded[t][k] \in Nat
    BY <1>1
  <1>3. recorded' = [recorded EXCEPT ![probe[c].map][probe[c].key] = @ + probe[c].add]
    BY DEF Added
  <1>4. CASE <<t, k>> = Entry(c)
    <2>1. t = probe[c].map /\ k = probe[c].key
      BY <1>4 DEF Entry
    <2> QED
      BY <1>1, <1>3, <1>4, <2>1
  <1>5. CASE <<t, k>> # Entry(c)
    <2>1. t # probe[c].map \/ k # probe[c].key
      BY <1>5 DEF Entry
    <2>2. recorded'[t][k] = recorded[t][k]
      BY <1>1, <1>3, <2>1
    <2> QED
      BY <1>2, <1>5, <2>2
  <1> QED
    BY <1>4, <1>5

(* What counting does to the counters. *)
LEMMA CountDoes ==
  ASSUME IInv, NEW c \in CPU, Count(c)
  PROVE  /\ UNCHANGED <<taskVars, outHist, active, iterating, orphaned>>
         /\ it'.map = it.map /\ (collided => collided') /\ (~collided' => it' = it)
         /\ \A t \in Table, k \in Key : Present(tables[t], k) => Present(tables'[t], k)
         /\ \/ UNCHANGED <<tables, recorded>>
            \/ /\ probe[c].pc \in {"store", "insert"} /\ UNCHANGED collided
               /\ \A t \in Table, k \in Key :
                      /\ recorded'[t][k] = recorded[t][k] + IF <<t, k>> = Entry(c) THEN 1 ELSE 0
                      /\ ~collided /\ ~orphaned =>
                             Amount(t, k)' = Amount(t, k) + IF <<t, k>> = Entry(c) THEN 1 ELSE 0
  <1>1. UNCHANGED <<taskVars, outHist, active>>
    BY KernelLeaves DEF KernelStep, PacketStep
  <1>2. Effect(c) /\ probe[c].pc # "idle" /\ CountersType
    BY CountKeeps DEF IInv, TypeOK
  <1>3. probe[c].add = 1
    BY <1>2 DEF IInv, Jobs
  <1>4. ASSUME Added(c), NEW t \in Table, NEW k \in Key
        PROVE  recorded'[t][k] = recorded[t][k] + IF <<t, k>> = Entry(c) THEN 1 ELSE 0
    BY <1>2, <1>3, <1>4, RecordedGrows
  <1> QED
    BY <1>1, <1>2, <1>3, <1>4 DEF Effect, Adds

StunTally ==
    upc = "stun" /\ ~collided =>
        \A a \in Addr :
            /\ base[a] <= recorded[Stun][a] /\ tally[a] <= recorded[Stun][a]
            /\ IF a \in it.seen THEN base[a] <= tally[a] ELSE tally[a] = 0
            /\ a \notin it.walk => base[a] = 0

StunMap ==
    /\ ~orphaned /\ ~straddled
    /\ ~collided => \A a \in Addr : Amount(Stun, a) = recorded[Stun][a]

(* The parts of StunInv. *)
LEMMA StunParts ==
  /\ StunInv <=> (~args.dry => StunMap /\ (upc = "stun" => it.map = Stun) /\ StunTally /\ StunFresh)
  /\ StunInv' <=> (~args'.dry => /\ StunMap' /\ (upc' = "stun" => it'.map = Stun)
                                 /\ StunTally' /\ StunFresh')
  BY DEF StunInv, StunMap, StunTally, Amount

(* The numbers it relates, for one address. *)
LEMMA StunNumbers ==
  ASSUME IInv, NEW a \in Addr
  PROVE  /\ base[a] \in Nat /\ tally[a] \in Nat /\ recorded[Stun][a] \in Nat /\ Amount(Stun, a) \in Nat
         /\ a \in Key /\ Stun \in Table /\ it \in IterType /\ tables[Stun] \in MapType(Key)
         /\ CountersType /\ base \in Counts /\ tally \in Counts
         /\ (~Present(tables[Stun], a) => Amount(Stun, a) = 0)
  <1>1. /\ CountersType /\ base \in Counts /\ tally \in Counts /\ a \in Key /\ Stun \in Table
    BY Maps, TypeParts DEF IInv, OutType
  <1>2. recorded[Stun][a] \in Nat /\ it \in IterType /\ tables[Stun] \in MapType(Key)
    BY <1>1 DEF CountersType
  <1> QED
    BY <1>1, <1>2, AmountType DEF Counts

(* Whoever leaves the counters alone, and does not dump STUN packets. *)
LEMMA StunStays ==
  ASSUME IInv, args' = args,
         UNCHANGED <<tables, recorded, orphaned, straddled>>, collided => collided',
         \/ upc' \notin {"stun", "write"}
         \/ UNCHANGED <<upc, it, base, tally>>
  PROVE  StunInv'
  <1> SUFFICES ASSUME ~args.dry
               PROVE  StunMap' /\ (upc' = "stun" => it'.map = Stun) /\ StunTally' /\ StunFresh'
    BY StunParts
  <1>1. StunMap /\ (upc = "stun" => it.map = Stun) /\ StunTally /\ StunFresh
    BY StunParts DEF IInv
  <1>2. StunMap'
    BY <1>1 DEF StunMap, Amount
  <1>3. CASE upc' \notin {"stun", "write"}
    BY <1>2, <1>3 DEF StunTally, StunFresh
  <1>4. CASE UNCHANGED <<upc, it, base, tally>>
    BY <1>1, <1>2, <1>4 DEF StunTally, StunFresh
  <1> QED
    BY <1>3, <1>4

(* A packet that is counted while the iteration goes on: in front of it, or   *)
(* behind it, the count that is read lies between those of the tick and of    *)
(* now.                                                                       *)
LEMMA CountStun ==
  ASSUME IInv, NEW c \in CPU, Count(c) PROVE StunInv'
  <1>1. /\ UNCHANGED <<args, upc, base, tally, orphaned, straddled>>
        /\ it'.map = it.map /\ (collided => collided') /\ (~collided' => it' = it)
        /\ \/ UNCHANGED <<tables, recorded>>
           \/ /\ UNCHANGED collided
              /\ \A t \in Table, k \in Key :
                     /\ recorded'[t][k] = recorded[t][k] + IF <<t, k>> = Entry(c) THEN 1 ELSE 0
                     /\ ~collided /\ ~orphaned =>
                            Amount(t, k)' = Amount(t, k) + IF <<t, k>> = Entry(c) THEN 1 ELSE 0
    BY CountDoes DEF taskVars, outHist
  <1> SUFFICES ASSUME ~args.dry
               PROVE  StunMap' /\ (upc' = "stun" => it'.map = Stun) /\ StunTally' /\ StunFresh'
    BY <1>1, StunParts
  <1>2. StunMap /\ (upc = "stun" => it.map = Stun) /\ StunTally /\ StunFresh
    BY StunParts DEF IInv
  <1>3. ASSUME NEW a \in Addr, ~collided'
        PROVE  /\ recorded'[Stun][a] \in Nat /\ recorded[Stun][a] <= recorded'[Stun][a]
               /\ Amount(Stun, a)' = recorded'[Stun][a]
    <2> DEFINE r == recorded[Stun][a]
               m == Amount(Stun, a)
    <2>1. r \in Nat /\ m = r /\ a \in Key /\ Stun \in Table /\ ~orphaned
      BY <1>1, <1>2, <1>3, StunNumbers DEF StunMap
    <2>2. CASE UNCHANGED <<tables, recorded>>
      BY <2>1, <2>2 DEF Amount
    <2>3. CASE recorded'[Stun][a] = r + (IF <<Stun, a>> = Entry(c) THEN 1 ELSE 0)
               /\ Amount(Stun, a)' = m + (IF <<Stun, a>> = Entry(c) THEN 1 ELSE 0)
      <3> HIDE DEF r, m
      <3>1. r <= recorded'[Stun][a] /\ recorded'[Stun][a] \in Nat
            /\ Amount(Stun, a)' = recorded'[Stun][a]
        BY <2>1, <2>3
      <3> QED
        BY <3>1 DEF r
    <2> QED
      BY <1>1, <1>3, <2>1, <2>2, <2>3
  <1>4. StunMap'
    BY <1>1, <1>2, <1>3 DEF StunMap
  <1>5. ASSUME NEW a \in Addr, ~collided', NEW n \in Nat, n <= recorded[Stun][a]
        PROVE  n <= recorded'[Stun][a]
    <2> DEFINE r == recorded[Stun][a]
               q == recorded'[Stun][a]
    <2>1. r \in Nat /\ q \in Nat /\ r <= q /\ n <= r
      BY <1>3, <1>5, StunNumbers
    <2> HIDE DEF r, q
    <2>2. n <= q
      BY <2>1
    <2> QED
      BY <2>2 DEF q
  <1>6. \A a \in Addr : base[a] \in Nat /\ tally[a] \in Nat
    BY StunNumbers
  <1>7. StunTally'
    BY <1>1, <1>2, <1>5, <1>6 DEF StunTally
  <1>8. StunFresh'
    BY <1>1, <1>2, <1>5, <1>6 DEF StunFresh
  <1> QED
    BY <1>1, <1>2, <1>4, <1>7, <1>8

(* A dump of the STUN packets starts with nothing read. *)
LEMMA StunStarts ==
  ASSUME IInv, StunOrNot, UNCHANGED <<args, straddled>> PROVE StunInv'
  <1>1. CASE args.stun
    <2>1. /\ IterStart(Stun) /\ upc' = "stun" /\ base' = recorded[Stun] /\ tally' = NoCounts
          /\ UNCHANGED kernelSide
      BY <1>1, StunOrNotDoes DEF IterStart
    <2> SUFFICES ASSUME ~args.dry
                 PROVE  StunMap' /\ it'.map = Stun /\ StunTally' /\ StunFresh'
      BY <2>1, StunParts
    <2>2. StunMap
      BY StunParts DEF IInv
    <2>3. StunMap'
      BY <2>1, <2>2 DEF StunMap, Amount, kernelSide
    <2>4. it'.map = Stun /\ it'.walk = KeysOf(tables[Stun]) /\ it'.seen = {}
      <3>1. it' = [NoIteration EXCEPT !.map = Stun, !.walk = KeysOf(tables[Stun])]
        BY <2>1 DEF IterStart
      <3> QED
        BY <3>1, IdleType DEF NoIteration
    <2>5. StunTally'
      <3> SUFFICES ASSUME ~collided, NEW a \in Addr
                   PROVE  /\ base'[a] <= recorded'[Stun][a] /\ tally'[a] <= recorded'[Stun][a]
                          /\ tally'[a] = 0 /\ (a \notin it'.walk => base'[a] = 0)
        BY <2>1, <2>4 DEF StunTally, kernelSide
      <3> DEFINE r == recorded[Stun][a]
      <3>1. r \in Nat /\ Amount(Stun, a) = r /\ base'[a] = r /\ tally'[a] = 0 /\ recorded'[Stun][a] = r
        BY <2>1, <2>2, StunNumbers DEF StunMap, NoCounts, kernelSide
      <3>2. a \notin it'.walk => r = 0
        <4>1. a \notin KeysOf(tables[Stun]) => ~Present(tables[Stun], a)
          BY StunNumbers, KeysPresent
        <4> QED
          BY <2>4, <3>1, <4>1, StunNumbers
      <3> HIDE DEF r
      <3> QED
        BY <3>1, <3>2
    <2>6. StunFresh'
      BY <2>1 DEF StunFresh
    <2> QED
      BY <2>3, <2>4, <2>5, <2>6
  <1>2. CASE ~args.stun
    <2>1. upc' = "run" /\ UNCHANGED counters
      BY <1>2, StunOrNotDoes
    <2> QED
      BY <2>1, StunStays DEF counters
  <1> QED
    BY <1>1, <1>2

(* An address that is read was counted up to some moment since the tick. *)
LEMMA ReadStunStun ==
  ASSUME IInv, NEW a \in Addr, ReadStun(a) PROVE StunInv'
  <1>1. /\ it.map = Stun /\ tally' = [tally EXCEPT ![a] = @ + Amount(Stun, a)]
        /\ IterKey(a) \/ IterAgain(a)
    BY ReadDoes
  <1>2. /\ UNCHANGED <<args, straddled, base, upc>> /\ UNCHANGED kernelSide /\ upc = "stun"
        /\ it'.map = it.map
    <2>1. /\ UNCHANGED <<args, straddled, base, upc>> /\ upc = "stun"
      BY DEF ReadStun, dumpRest, loopRest
    <2>2. it \in IterType
      BY StunNumbers
    <2>3. UNCHANGED kernelSide /\ it'.map = it.map
      BY <1>1, <2>2 DEF IterKey, IterAgain, IterType
    <2> QED
      BY <2>1, <2>3
  <1> SUFFICES ASSUME ~args.dry
               PROVE  StunMap' /\ it'.map = Stun /\ StunTally' /\ StunFresh'
    BY <1>2, StunParts
  <1>3. StunMap /\ StunTally
    BY StunParts DEF IInv
  <1>4. StunMap'
    BY <1>2, <1>3 DEF StunMap, Amount, kernelSide
  <1>5. StunFresh'
    BY <1>2 DEF StunFresh
  <1>6. StunTally'
    <2> SUFFICES ASSUME ~collided, NEW b \in Addr
                 PROVE  /\ base[b] <= recorded[Stun][b] /\ tally'[b] <= recorded[Stun][b]
                        /\ IF b \in it'.seen THEN base[b] <= tally'[b] ELSE tally'[b] = 0
                        /\ (b \notin it'.walk => base[b] = 0)
      BY <1>2 DEF StunTally, kernelSide
    <2>1. a \in Key /\ CountersInv /\ tally \in Counts
      BY StunNumbers DEF IInv
    <2>2. IterKey(a)
      BY <1>1, <2>1, OnlyCollided
    <2>3. a \notin it.seen /\ it'.seen = it.seen \cup {a} /\ it'.walk = it.walk
      <3>1. it' = [it EXCEPT !.seen = @ \cup {a}] /\ it \in IterType
        BY <2>2, StunNumbers DEF IterKey
      <3> QED
        BY <2>2, <3>1 DEF IterKey, IterType
    <2>4. /\ base[b] <= recorded[Stun][b] /\ tally[b] <= recorded[Stun][b]
          /\ IF b \in it.seen THEN base[b] <= tally[b] ELSE tally[b] = 0
          /\ b \notin it.walk => base[b] = 0
      BY <1>2, <1>3 DEF StunTally
    <2>5. CASE b # a
      <3>1. tally'[b] = tally[b] /\ (b \in it'.seen <=> b \in it.seen)
        BY <1>1, <2>1, <2>3, <2>5 DEF Counts
      <3> QED
        BY <2>3, <2>4, <3>1
    <2>6. CASE b = a
      <3>1. Amount(Stun, a) = recorded[Stun][a] /\ Amount(Stun, a) \in Nat /\ tally[a] = 0
        BY <1>3, <2>3, <2>4, <2>6, StunNumbers DEF StunMap
      <3>2. tally'[a] = recorded[Stun][a]
        <4> DEFINE m == Amount(Stun, a)
        <4>1. tally' = [tally EXCEPT ![a] = @ + m] /\ m \in Nat
          BY <1>1, <3>1
        <4> HIDE DEF m
        <4>2. tally'[a] = m
          BY <2>1, <3>1, <4>1 DEF Counts
        <4> QED
          BY <3>1, <4>2 DEF m
      <3>3. recorded[Stun][a] <= recorded[Stun][a]
        BY StunNumbers
      <3> QED
        BY <2>3, <2>4, <2>6, <3>2, <3>3
    <2> QED
      BY <2>5, <2>6
  <1> QED
    BY <1>1, <1>2, <1>4, <1>5, <1>6

(* What an iteration has not returned was not there when it began. *)
LEMMA StunEndStun ==
  ASSUME IInv, StunEnd PROVE StunInv'
  <1>1. /\ UNCHANGED <<args, straddled, base, tally>> /\ UNCHANGED kernelSide
        /\ upc = "stun" /\ upc' = "write" /\ it.walk \subseteq it.seen
    BY DEF StunEnd, IterEnd, dumpRest, loopRest
  <1> SUFFICES ASSUME ~args.dry PROVE StunMap' /\ StunTally' /\ StunFresh'
    BY <1>1, StunParts
  <1>2. StunMap /\ StunTally
    BY StunParts DEF IInv
  <1>3. StunMap' /\ StunTally'
    BY <1>1, <1>2 DEF StunMap, StunTally, Amount, kernelSide
  <1>4. StunFresh'
    <2> SUFFICES ASSUME ~collided, NEW a \in Addr
                 PROVE  base[a] <= tally[a] /\ tally[a] <= recorded[Stun][a]
      BY <1>1 DEF StunFresh, kernelSide
    <2>1. /\ tally[a] <= recorded[Stun][a]
          /\ IF a \in it.seen THEN base[a] <= tally[a] ELSE tally[a] = 0
          /\ a \notin it.walk => base[a] = 0
      BY <1>1, <1>2 DEF StunTally
    <2>2. a \notin it.seen => base[a] = 0 /\ tally[a] = 0
      BY <1>1, <2>1
    <2> QED
      BY <2>1, <2>2
  <1> QED
    BY <1>3, <1>4

(* Every step of the program keeps the STUN counts in order. *)
LEMMA NextStun ==
  ASSUME IInv, Next PROVE StunInv'
  <1>1. CASE KernelStep
    <2>0. UNCHANGED <<args, upc, base, tally, straddled>>
      BY <1>1, KernelLeaves DEF taskVars, outHist
    <2>1. CASE \E c \in CPU, p \in Packets(args) : Receive(c, p)
      <3>1. UNCHANGED counters
        BY <2>1 DEF Receive
      <3> QED
        BY <2>0, <3>1, StunStays DEF counters
    <2>2. ASSUME NEW c \in CPU, PacketStep(c) PROVE StunInv'
      <3>1. CASE Count(c)
        BY <3>1, CountStun
      <3>2. CASE Record(c)
        <4>1. UNCHANGED <<tables, recorded, orphaned, it, collided>>
          BY <3>2 DEF Record
        <4> QED
          BY <2>0, <4>1, StunStays
      <3>3. CASE HitLoad(c) \/ HitStore(c)
        <4>1. UNCHANGED counters
          BY <3>3, HitLoadJobs, HitStoreJobs
        <4> QED
          BY <2>0, <4>1, StunStays DEF counters
      <3> QED
        BY <2>2, <3>1, <3>2, <3>3 DEF PacketStep
    <2> QED
      BY <1>1, <2>1, <2>2 DEF KernelStep
  <1>2. CASE StartStep \/ Sync
    <2>1. UNCHANGED <<counters, straddled, args>>
      BY <1>2, StartKeeps, SyncKeeps DEF startRest, kernelRest, outHist
    <2>2. upc' \notin {"stun", "write"}
      BY <1>2 DEF StartStep, LoadFile, Add, AddEnd, Delete, Check, Detach, Attach, Leave, Exit, Sync
    <2> QED
      BY <2>1, <2>2, StunStays DEF counters
  <1>3. CASE LoopAction
    <2>0. args' = args /\ Looping
      BY <1>3, LoopLeaves DEF IInv
    <2>1. CASE \E a \in Addr : ReadStun(a)
      BY <2>1, ReadStunStun
    <2>2. CASE StunEnd
      BY <2>2, StunEndStun
    <2>3. CASE Tick
      <3>1. UNCHANGED <<args, straddled>>
        BY <2>3 DEF Tick, dumpRest, loopRest
      <3>2. CASE StunOrNot
        BY <3>1, <3>2, StunStarts
      <3>3. CASE upc' = "get" /\ UNCHANGED counters
        BY <3>1, <3>3, StunStays DEF counters
      <3>4. StunOrNot \/ (upc' = "get" /\ UNCHANGED counters)
        BY <2>3 DEF Tick
      <3> QED
        BY <3>2, <3>3, <3>4
    <2>4. CASE WriteHits
      <3>1. UNCHANGED <<args, straddled>> /\ StunOrNot
        BY <2>4 DEF WriteHits, dumpRest, loopRest
      <3> QED
        BY <3>1, StunStarts
    <2>5. CASE args.dry
      BY <2>0, <2>5 DEF StunInv
    <2>6. CASE GetHit \/ GetEnd \/ ResetHit \/ WriteStun \/ WriteFails
      <3>1. UNCHANGED <<counters, straddled>> /\ upc' \notin {"stun", "write"}
        BY <2>6 DEF GetHit, GetEnd, ResetHit, WriteStun, WriteFails, fileRest, dumpRest
      <3> QED
        BY <2>0, <3>1, StunStays DEF counters
    <2>7. CASE Turn \/ DryPrint \/ DryRemoveEnd
               \/ \E a \in Addr : ReadDry(a) \/ DryRemove(a) \/ DryRemoveFails(a)
      <3>1. args.dry
        BY <2>0, <2>7 DEF Turn, DryPrint, DryRemoveEnd, ReadDry, DryRemove, DryRemoveFails, Looping
      <3> QED
        BY <2>5, <3>1
    <2> QED
      BY <1>3, <2>1, <2>2, <2>3, <2>4, <2>6, <2>7 DEF LoopAction, LoopStep
  <1> QED
    BY <1>1, <1>2, <1>3, NextSteps

-----------------------------------------------------------------------------
(* The dry run: a packet counts in one map while the other is drained.       *)

Draining == {"dryRead", "dryRemove"}

(* The map that is drained, or will be next. *)
Drained == tables[Dry(1 - writeBuf)]

DrainInv ==
    ~straddled /\ ~collided =>
        /\ upc \notin Draining => KeysOf(Drained) = {}
        /\ upc = "dryRead" =>
               /\ KeysOf(Drained) \subseteq it.walk
               /\ \A a \in Addr : tally[a] = IF a \in it.seen THEN Amount(it.map, a) ELSE 0
        /\ upc = "dryRemove" => KeysOf(Drained) \subseteq it.seen

TurnInv ==
    /\ active = writeBuf
    /\ upc \in Draining => drainBuf = 1 - writeBuf /\ it.map = Dry(drainBuf)

ApartInv ==
    ~straddled => ~orphaned /\ \A c \in CPU : InDryRun(c) => probe[c].map = Dry(active)

(* The parts of EpochInv. *)
LEMMA EpochParts ==
  (EpochInv <=> TurnInv /\ ApartInv /\ DrainInv) /\ (EpochInv' <=> TurnInv' /\ ApartInv' /\ DrainInv')
  BY DEF EpochInv, TurnInv, ApartInv, DrainInv, Draining, Drained, Amount, InDryRun

(* What a step of the dry run can rely on. *)
LEMMA EpochFacts ==
  ASSUME IInv
  PROVE  /\ TurnInv /\ ApartInv /\ DrainInv /\ CountersInv /\ CountersType /\ Jobs
         /\ active \in {0, 1} /\ writeBuf \in {0, 1} /\ 1 - writeBuf \in {0, 1}
         /\ Dry(writeBuf) \in Table /\ Dry(1 - writeBuf) \in Table /\ Dry(1 - writeBuf) # Dry(writeBuf)
         /\ Dry(1 - writeBuf) # Stun /\ Dry(writeBuf) # Stun
         /\ 1 - (1 - writeBuf) = writeBuf
         /\ Drained \in MapType(Key) /\ tables[Dry(writeBuf)] \in MapType(Key) /\ tally \in Counts
         /\ it \in IterType /\ it.map \in Table /\ tables \in [Table -> MapType(Key)]
  <1>1. EpochInv /\ CountersInv /\ CountersType /\ OutType /\ Jobs
    BY TypeParts DEF IInv
  <1>2. writeBuf \in {0, 1} /\ active \in {0, 1} /\ tally \in Counts
    BY <1>1 DEF OutType
  <1>3. /\ Dry(writeBuf) \in Table /\ Dry(1 - writeBuf) \in Table /\ Dry(1 - writeBuf) # Dry(writeBuf)
        /\ Dry(1 - writeBuf) # Stun /\ Dry(writeBuf) # Stun
        /\ 1 - (1 - writeBuf) = writeBuf /\ 1 - writeBuf \in {0, 1}
    BY <1>2, Maps
  <1>4. /\ tables \in [Table -> MapType(Key)] /\ it \in IterType
    BY <1>1 DEF CountersType
  <1>5. /\ Drained \in MapType(Key) /\ tables[Dry(writeBuf)] \in MapType(Key)
    BY <1>3, <1>4 DEF Drained
  <1>6. it.map \in Table
    BY <1>4 DEF IterType
  <1> QED
    BY <1>1, <1>2, <1>3, <1>4, <1>5, <1>6, EpochParts

(* Whoever leaves the counters and the two buffers alone. *)
LEMMA EpochStays ==
  ASSUME IInv, UNCHANGED <<active, writeBuf, tables, probe, orphaned>>,
         straddled' = straddled, collided' = collided,
         \/ upc' \notin Draining /\ upc \notin Draining
         \/ upc' = upc /\ it' = it /\ tally' = tally /\ drainBuf' = drainBuf
  PROVE  EpochInv'
  <1>1. TurnInv /\ ApartInv /\ DrainInv
    BY EpochFacts
  <1>2. ApartInv'
    BY <1>1 DEF ApartInv, InDryRun
  <1>3. Drained' = Drained
    BY DEF Drained
  <1>4. TurnInv' /\ DrainInv'
    <2>1. CASE upc' \notin Draining /\ upc \notin Draining
      BY <1>1, <1>3, <2>1 DEF TurnInv, DrainInv, Draining
    <2>2. CASE upc' = upc /\ it' = it /\ tally' = tally /\ drainBuf' = drainBuf
      <3>1. \A a : Amount(it.map, a)' = Amount(it.map, a)
        BY <2>2 DEF Amount
      <3> QED
        BY <1>1, <1>3, <2>2, <3>1 DEF TurnInv, DrainInv
    <2> QED
      BY <2>1, <2>2
  <1> QED
    BY <1>2, <1>4, EpochParts

(* A probe that counts, or begins to, uses the map the kernel names. *)
LEMMA CountMap ==
  ASSUME IInv, NEW c \in CPU, Count(c)
  PROVE  /\ probe[c].map \in {Stun, Dry(0), Dry(1)} /\ probe[c].key \in Addr
         /\ (~straddled => probe[c].map \in {Stun, Dry(writeBuf)})
         /\ \A t \in Table \ {probe[c].map} : tables'[t] = tables[t]
  <1>1. probe[c].pc # "idle"
    BY CountDoes DEF Count, Lookup, Load, Store, Insert
  <1>2. TurnInv /\ ApartInv /\ CountersType /\ tables \in [Table -> MapType(Key)]
    BY EpochFacts
  <1>3. probe[c].map \in Table /\ probe[c].key \in Key
    BY <1>2 DEF CountersType, ProbeType
  <1>4. ~straddled => probe[c].map \in {Stun, Dry(writeBuf)}
    BY <1>1, <1>2 DEF ApartInv, TurnInv, InDryRun
  <1>5. ASSUME NEW t \in Table \ {probe[c].map} PROVE tables'[t] = tables[t]
    <2>1. CASE Lookup(c) \/ Load(c)
      BY <2>1 DEF Lookup, Load
    <2>2. CASE Store(c)
      BY <1>2, <1>5, <2>2 DEF Store
    <2>3. CASE Insert(c)
      <3>1. CASE CanUpdate(tables[probe[c].map], probe[c].key)
        <4>1. \E s \in FreeSlots(tables[probe[c].map]) :
                  tables' = [tables EXCEPT ![probe[c].map] =
                                 UpdateElem(@, probe[c].key, s, probe[c].add)]
          BY <2>3, <3>1 DEF Insert
        <4> QED
          BY <1>2, <1>5, <4>1
      <3>2. CASE ~CanUpdate(tables[probe[c].map], probe[c].key)
        BY <2>3, <3>2 DEF Insert
      <3> QED
        BY <3>1, <3>2
    <2> QED
      BY <2>1, <2>2, <2>3 DEF Count
  <1> QED
    BY <1>3, <1>4, <1>5, Maps

(* Counting leaves the drained map alone ... *)
LEMMA CountEpoch ==
  ASSUME IInv, NEW c \in CPU, Count(c) PROVE EpochInv'
  <1>1. /\ UNCHANGED <<upc, tally, writeBuf, drainBuf, straddled, active, orphaned>>
        /\ it'.map = it.map /\ (collided => collided') /\ (~collided' => it' = it)
    BY CountDoes DEF taskVars, outHist
  <1>2. /\ TurnInv /\ ApartInv /\ DrainInv /\ Dry(1 - writeBuf) \in Table
        /\ Dry(1 - writeBuf) # Stun /\ Dry(1 - writeBuf) # Dry(writeBuf)
    BY EpochFacts
  <1>3. ~straddled => Drained' = Drained
    BY <1>1, <1>2, CountMap DEF Drained
  <1>4. TurnInv'
    BY <1>1, <1>2 DEF TurnInv
  <1>5. ApartInv'
    <2>1. /\ probe[c].pc # "idle" /\ \A d \in CPU \ {c} : probe'[d] = probe[d]
          /\ probe'[c] = IdleProbe \/ probe'[c].map = probe[c].map
      BY CountKeeps DEF Follows
    <2>2. IdleProbe.pc = "idle"
      BY IdleType
    <2>3. \A d \in CPU : InDryRun(d)' => InDryRun(d) /\ probe'[d].map = probe[d].map
      BY <2>1, <2>2 DEF InDryRun
    <2> QED
      BY <1>1, <1>2, <2>3 DEF ApartInv
  <1>6. DrainInv'
    <2> SUFFICES ASSUME ~straddled, ~collided' PROVE
             /\ upc \notin Draining => KeysOf(Drained') = {}
             /\ upc = "dryRead" =>
                    /\ KeysOf(Drained') \subseteq it'.walk
                    /\ \A a \in Addr : tally[a] = IF a \in it'.seen THEN Amount(it.map, a)' ELSE 0
             /\ upc = "dryRemove" => KeysOf(Drained') \subseteq it'.seen
      BY <1>1 DEF DrainInv
    <2>1. Drained' = Drained /\ it' = it /\ ~collided
      BY <1>1, <1>3
    <2>2. ASSUME upc = "dryRead", NEW a \in Addr PROVE Amount(it.map, a)' = Amount(it.map, a)
      <3>1. it.map = Dry(1 - writeBuf) /\ tables'[it.map] = tables[it.map]
        BY <1>1, <1>2, <2>1, <2>2 DEF TurnInv, Draining, Drained
      <3> QED
        BY <2>1, <3>1 DEF Amount
    <2> QED
      BY <1>2, <2>1, <2>2 DEF DrainInv
  <1> QED
    BY <1>4, <1>5, <1>6, EpochParts

(* ... because the map is chosen by DRY_RUN_ACTIVE_BUF. *)
LEMMA RecordEpoch ==
  ASSUME IInv, NEW c \in CPU, Record(c) PROVE EpochInv'
  <1>1. /\ UNCHANGED <<upc, tally, writeBuf, drainBuf, straddled, active, orphaned, it, collided, tables>>
    BY DEF Record, taskVars, outHist
  <1>2. /\ TurnInv /\ ApartInv /\ DrainInv
    BY EpochFacts
  <1>3. TurnInv'
    BY <1>1, <1>2 DEF TurnInv
  <1>4. DrainInv'
    <2>1. \A a : Amount(it.map, a)' = Amount(it.map, a)
      BY <1>1 DEF Amount
    <2> QED
      BY <1>1, <1>2, <2>1 DEF DrainInv, Drained
  <1>5. ApartInv'
    BY <1>1, <1>2, RecordKeeps DEF ApartInv, InDryRun
  <1> QED
    BY <1>3, <1>4, <1>5, EpochParts

(* DRY_RUN_ACTIVE_BUF is turned, and the iteration over the other map begins. *)
LEMMA TurnEpoch ==
  ASSUME IInv, Turn PROVE EpochInv'
  <1>1. /\ upc = "run" /\ upc' = "dryRead" /\ writeBuf' = 1 - writeBuf /\ active' = writeBuf'
        /\ drainBuf' = writeBuf /\ straddled' = (straddled \/ \E c \in CPU : InDryRun(c))
        /\ IterStart(Dry(writeBuf)) /\ tally' = NoCounts
        /\ UNCHANGED kernelSide
    BY DEF Turn, IterStart
  <1>2. /\ TurnInv /\ ApartInv /\ 1 - (1 - writeBuf) = writeBuf
        /\ tables[Dry(writeBuf)] \in MapType(Key)
    BY EpochFacts
  <1>3. it'.map = Dry(writeBuf) /\ it'.walk = KeysOf(tables[Dry(writeBuf)]) /\ it'.seen = {}
    <2>1. it' = [NoIteration EXCEPT !.map = Dry(writeBuf), !.walk = KeysOf(tables[Dry(writeBuf)])]
      BY <1>1 DEF IterStart
    <2> QED
      BY <2>1, IdleType DEF NoIteration
  <1>4. TurnInv'
    BY <1>1, <1>2, <1>3 DEF TurnInv
  <1>5. ApartInv'
    BY <1>1, <1>2 DEF ApartInv, InDryRun, kernelSide
  <1>6. DrainInv'
    <2>1. Drained' = tables[Dry(writeBuf)]
      BY <1>1, <1>2 DEF Drained, kernelSide
    <2>2. \A a \in Addr : tally'[a] = 0
      BY <1>1 DEF NoCounts
    <2> QED
      BY <1>1, <1>3, <2>1, <2>2 DEF DrainInv, Draining
  <1> QED
    BY <1>4, <1>5, <1>6, EpochParts

(* What has been read of the drained map is what it holds. *)
LEMMA ReadDryEpoch ==
  ASSUME IInv, NEW a \in Addr, ReadDry(a) PROVE EpochInv'
  <1>1. /\ tally' = [tally EXCEPT ![a] = @ + Amount(it.map, a)] /\ Amount(it.map, a) \in Nat
        /\ IterKey(a) \/ IterAgain(a)
    BY ReadDoes
  <1>2. /\ UNCHANGED <<active, writeBuf, drainBuf, straddled, upc>> /\ upc = "dryRead"
    BY DEF ReadDry
  <1>3. /\ TurnInv /\ ApartInv /\ DrainInv /\ CountersInv /\ tally \in Counts /\ it \in IterType
    BY EpochFacts
  <1>4. UNCHANGED kernelSide /\ it'.map = it.map
    BY <1>1, <1>3 DEF IterKey, IterAgain, IterType
  <1>5. TurnInv' /\ ApartInv'
    BY <1>2, <1>3, <1>4 DEF TurnInv, ApartInv, InDryRun, kernelSide
  <1>6. DrainInv'
    <2> SUFFICES ASSUME ~straddled, ~collided PROVE
             /\ KeysOf(Drained) \subseteq it'.walk
             /\ \A b \in Addr : tally'[b] = IF b \in it'.seen THEN Amount(it.map, b) ELSE 0
      BY <1>2, <1>4 DEF DrainInv, Drained, Draining, kernelSide, Amount
    <2>1. a \in Key
      BY Maps
    <2>2. IterKey(a)
      BY <1>1, <1>3, <2>1, OnlyCollided
    <2>3. a \notin it.seen /\ it'.seen = it.seen \cup {a} /\ it'.walk = it.walk
      BY <1>3, <2>2 DEF IterKey, IterType
    <2>4. /\ KeysOf(Drained) \subseteq it.walk
          /\ \A b \in Addr : tally[b] = IF b \in it.seen THEN Amount(it.map, b) ELSE 0
      BY <1>2, <1>3 DEF DrainInv
    <2>5. ASSUME NEW b \in Addr
          PROVE  tally'[b] = IF b \in it'.seen THEN Amount(it.map, b) ELSE 0
      <3> DEFINE m == Amount(it.map, a)
      <3>1. CASE b = a
        <4>1. tally[a] = 0 /\ m \in Nat /\ tally' = [tally EXCEPT ![a] = @ + m]
          BY <1>1, <2>3, <2>4
        <4> HIDE DEF m
        <4>2. tally'[a] = m
          BY <1>3, <4>1 DEF Counts
        <4> QED
          BY <2>3, <3>1, <4>2 DEF m
      <3>2. CASE b # a
        <4>1. tally'[b] = tally[b] /\ (b \in it'.seen <=> b \in it.seen)
          BY <1>1, <1>3, <2>3, <3>2 DEF Counts
        <4> QED
          BY <2>4, <4>1
      <3> QED
        BY <3>1, <3>2
    <2> QED
      BY <2>3, <2>4, <2>5
  <1> QED
    BY <1>5, <1>6, EpochParts

(* At the end of the iteration every key has been read. *)
LEMMA PrintEpoch ==
  ASSUME IInv, DryPrint PROVE EpochInv'
  <1>1. /\ upc = "dryRead" /\ upc' = "dryRemove" /\ UNCHANGED kernelSide /\ it.walk \subseteq it.seen
        /\ UNCHANGED <<active, writeBuf, drainBuf, straddled>>
    BY DEF DryPrint, IterEnd
  <1>2. /\ TurnInv /\ ApartInv /\ DrainInv /\ it \in IterType
    BY EpochFacts
  <1>3. it'.map = it.map /\ it'.seen = it.seen
    BY <1>2 DEF DryPrint, IterEnd, IterType
  <1>4. TurnInv' /\ ApartInv'
    BY <1>1, <1>2, <1>3 DEF TurnInv, ApartInv, InDryRun, kernelSide, Draining
  <1>5. DrainInv'
    BY <1>1, <1>2, <1>3 DEF DrainInv, Drained, Draining, kernelSide
  <1> QED
    BY <1>4, <1>5, EpochParts

(* The keys that are removed are nobody's as long as nothing straddles.       *)
LEMMA RemoveEpoch ==
  ASSUME IInv, NEW a \in Addr, DryRemove(a) PROVE EpochInv'
  <1>1. /\ upc = "dryRemove" /\ RemoveKey(a) /\ a \in Key
        /\ UNCHANGED <<active, writeBuf, drainBuf, straddled, upc>>
    BY Maps DEF DryRemove
  <1>2. /\ TurnInv /\ ApartInv /\ DrainInv /\ CountersInv /\ it \in IterType
        /\ Drained \in MapType(Key) /\ Dry(1 - writeBuf) # Stun /\ Dry(1 - writeBuf) # Dry(writeBuf)
        /\ Dry(1 - writeBuf) \in Table
    BY EpochFacts
  <1>3. it.map = Dry(1 - writeBuf) /\ Drained = tables[it.map]
    BY <1>1, <1>2 DEF TurnInv, Draining, Drained
  <1>4. /\ UNCHANGED <<filterOn, probe, iterating, recorded, collided>> /\ it'.map = it.map
        /\ (~collided => it' = [it EXCEPT !.seen = @ \ {a}])
        /\ ~Present(tables'[it.map], a)
        /\ \A b \in Key \ {a} : Present(tables'[it.map], b) <=> Present(tables[it.map], b)
        /\ CountersInv'
    BY <1>1, <1>2, RemoveKeeps
  <1>5. TurnInv'
    BY <1>1, <1>2, <1>4 DEF TurnInv
  <1>6. ApartInv'
    <2>1. orphaned' = (orphaned \/ \E c \in CPU : /\ probe[c].pc \in {"load", "store"}
                                                  /\ Entry(c) = <<it.map, a>>)
      BY <1>1 DEF RemoveKey
    <2>2. ASSUME ~straddled, NEW c \in CPU, probe[c].pc \in {"load", "store"}, Entry(c) = <<it.map, a>>
          PROVE  FALSE
      <3>1. probe[c].map = Dry(1 - writeBuf)
        BY <1>3, <2>2 DEF Entry
      <3>2. InDryRun(c)
        BY <1>2, <2>2, <3>1 DEF InDryRun
      <3> QED
        BY <1>2, <2>2, <3>1, <3>2 DEF ApartInv, TurnInv
    <2>3. ~straddled => ~orphaned'
      BY <1>2, <2>1, <2>2 DEF ApartInv
    <2> QED
      BY <1>1, <1>2, <1>4, <2>3 DEF ApartInv, InDryRun
  <1>7. DrainInv'
    <2> SUFFICES ASSUME ~straddled, ~collided PROVE KeysOf(Drained') \subseteq it'.seen
      BY <1>1, <1>4 DEF DrainInv, Draining
    <2>1. KeysOf(Drained) \subseteq it.seen /\ it'.seen = it.seen \ {a}
      BY <1>1, <1>2, <1>4 DEF DrainInv, IterType
    <2>2. Drained' = tables'[it.map]
      BY <1>1, <1>3 DEF Drained
    <2>3. Drained' \in MapType(Key)
      BY <1>1, <1>2, <1>4 DEF CountersInv, CountersType, Drained
    <2>4. KeysOf(Drained') = {k \in Key : Present(Drained', k)}
      BY <2>3, KeysPresent
    <2>5. KeysOf(Drained) = {k \in Key : Present(Drained, k)}
      BY <1>2, KeysPresent
    <2>6. \A k \in KeysOf(Drained') : k # a /\ k \in KeysOf(Drained)
      BY <1>3, <1>4, <2>2, <2>4, <2>5
    <2> QED
      BY <2>1, <2>6
  <1> QED
    BY <1>5, <1>6, <1>7, EpochParts

(* When the last key is removed the map is empty. *)
LEMMA EndEpoch ==
  ASSUME IInv, DryRemoveEnd \/ \E a \in Addr : DryRemoveFails(a) PROVE EpochInv'
  <1>1. /\ upc = "dryRemove" /\ upc' \notin Draining
        /\ UNCHANGED <<counters, active, writeBuf, drainBuf, straddled>>
    BY DEF DryRemoveEnd, DryRemoveFails, Draining
  <1>2. /\ TurnInv /\ ApartInv /\ DrainInv /\ CountersInv
    BY EpochFacts
  <1>3. TurnInv' /\ ApartInv'
    BY <1>1, <1>2 DEF TurnInv, ApartInv, InDryRun, counters, Draining
  <1>4. DrainInv'
    <2> SUFFICES ASSUME ~straddled, ~collided PROVE KeysOf(Drained) = {}
      BY <1>1 DEF DrainInv, Draining, Drained, counters
    <2>1. KeysOf(Drained) \subseteq it.seen
      BY <1>1, <1>2 DEF DrainInv
    <2>2. CASE DryRemoveEnd
      BY <2>1, <2>2 DEF DryRemoveEnd
    <2>3. CASE \E a \in Addr : DryRemoveFails(a)
      <3>1. \E a \in Key : RemoveMissing(a)
        BY <2>3, Maps DEF DryRemoveFails
      <3> QED
        BY <1>2, <3>1, OnlyCollided
    <2> QED
      BY <2>2, <2>3
  <1> QED
    BY <1>3, <1>4, EpochParts

(* Every step of the program keeps the two maps apart. *)
LEMMA NextEpoch ==
  ASSUME IInv, Next PROVE EpochInv'
  <1>1. CASE KernelStep
    <2>0. UNCHANGED <<active, writeBuf, drainBuf, upc, tally, straddled>>
      BY <1>1, KernelLeaves DEF taskVars, outHist
    <2>1. ASSUME UNCHANGED counters PROVE EpochInv'
      BY <2>0, <2>1, EpochStays DEF counters
    <2>2. CASE \E c \in CPU, p \in Packets(args) : Receive(c, p)
      <3>1. UNCHANGED counters
        BY <2>2 DEF Receive
      <3> QED
        BY <2>1, <3>1
    <2>3. ASSUME NEW c \in CPU, PacketStep(c) PROVE EpochInv'
      <3>1. CASE Count(c)
        BY <3>1, CountEpoch
      <3>2. CASE Record(c)
        BY <3>2, RecordEpoch
      <3>3. CASE HitLoad(c) \/ HitStore(c)
        <4>1. UNCHANGED counters
          BY <3>3, HitLoadJobs, HitStoreJobs
        <4> QED
          BY <2>1, <4>1
      <3> QED
        BY <2>3, <3>1, <3>2, <3>3 DEF PacketStep
    <2> QED
      BY <1>1, <2>2, <2>3 DEF KernelStep
  <1>2. CASE StartStep \/ Sync
    <2>1. UNCHANGED <<counters, straddled, active, writeBuf>>
      BY <1>2, StartKeeps, SyncKeeps DEF startRest, kernelRest, outHist
    <2>2. upc' \notin Draining /\ upc \notin Draining
      BY <1>2 DEF Draining, StartStep, LoadFile, Add, AddEnd, Delete, Check, Detach, Attach, Leave,
                  Exit, Sync
    <2> QED
      BY <2>1, <2>2, EpochStays DEF counters
  <1>3. CASE LoopAction
    <2>1. CASE Turn
      BY <2>1, TurnEpoch
    <2>2. CASE DryPrint
      BY <2>2, PrintEpoch
    <2>3. CASE DryRemoveEnd \/ \E a \in Addr : DryRemoveFails(a)
      BY <2>3, EndEpoch
    <2>4. CASE \E a \in Addr : ReadDry(a)
      BY <2>4, ReadDryEpoch
    <2>5. CASE \E a \in Addr : DryRemove(a)
      BY <2>5, RemoveEpoch
    <2>6. CASE GetHit \/ GetEnd \/ ResetHit \/ WriteStun \/ WriteFails
      <3>1. UNCHANGED <<counters, straddled, active, writeBuf>>
        BY <2>6 DEF GetHit, GetEnd, ResetHit, WriteStun, WriteFails, fileRest, dumpRest
      <3>2. upc' \notin Draining /\ upc \notin Draining
        BY <2>6 DEF Draining, GetHit, GetEnd, ResetHit, WriteStun, WriteFails
      <3> QED
        BY <3>1, <3>2, EpochStays DEF counters
    <2>7. CASE Tick \/ WriteHits \/ StunEnd \/ \E a \in Addr : ReadStun(a)
      <3>1. UNCHANGED <<straddled, active, writeBuf>>
        BY <1>3, <2>7 DEF Tick, WriteHits, StunEnd, ReadStun, dumpRest
      <3>2. upc' \notin Draining /\ upc \notin Draining
        BY <2>7, StunOrNotDoes DEF Draining, Tick, WriteHits, StunEnd, ReadStun
      <3>3. UNCHANGED kernelSide
        <4>1. LoopStep
          BY <2>7 DEF LoopStep
        <4>2. Iterates \/ UNCHANGED counters
          BY <4>1, LoopIterates
        <4>3. CountersInv
          BY DEF IInv
        <4> QED
          BY <4>2, <4>3, IteratesKeeps DEF counters, kernelSide
      <3> QED
        BY <3>1, <3>2, <3>3, EpochStays DEF kernelSide
    <2> QED
      BY <1>3, <2>1, <2>2, <2>3, <2>4, <2>5, <2>6, <2>7 DEF LoopAction, LoopStep
  <1> QED
    BY <1>1, <1>2, <1>3, NextSteps

-----------------------------------------------------------------------------
(* Every step preserves the invariant.                                       *)

(* The command starts with no list, no packet and nothing counted.            *)
LEMMA InitInv == ASSUME Init PROVE IInv
  <1>0. /\ CountersInit /\ trie = EmptyTrie /\ hits = <<>> /\ dryRun = FALSE /\ config = {}
        /\ active = 0 /\ attached = FALSE /\ pkt = [c \in CPU |-> IdlePacket] /\ received = 0
        /\ args \in CommandLines
        /\ upc = "load" /\ entries = <<>> /\ done = 0 /\ got = <<>> /\ tally = NoCounts
        /\ writeBuf = 0 /\ drainBuf = 0 /\ misjudged = FALSE
        /\ bumped = <<>> /\ dumped = <<>> /\ raced = {}
        /\ stunFile = NoCounts /\ base = NoCounts /\ printed = NoCounts /\ straddled = FALSE
    BY DEF Init
  <1>1. CountersInv /\ CountersType
    BY <1>0, StartsInOrder DEF CountersInv
  <1>2. NoCounts \in Counts /\ DOMAIN <<>> = {} /\ Len(<<>>) = 0
    BY DEF NoCounts, Counts
  <1>3. IdlePacket \in PktType /\ IdlePacket.jobs = <<>> /\ IdlePacket.at = 0
    <2>1. 0 \in 0 .. MaxRanges /\ <<>> \in Seq(JobType)
      BY BlacklistAssumption
    <2> QED
      BY <2>1 DEF IdlePacket, PktType
  <1>4. trie \in [DOMAIN trie -> 1 .. MaxRanges] /\ ~Synced
    BY <1>0 DEF EmptyTrie, Synced
  <1>5. ListType
    <2>1. <<>> \in Seq(Cidr) /\ 0 \in Nat /\ "load" \in UpcType
      BY DEF UpcType
    <2> QED
      BY <1>0, <2>1 DEF ListType
  <1>6. OutType
    <2>1. /\ active \in {0, 1} /\ writeBuf \in {0, 1} /\ drainBuf \in {0, 1} /\ straddled \in BOOLEAN
      BY <1>0
    <2>2. tally \in Counts /\ stunFile \in Counts /\ base \in Counts /\ printed \in Counts
      BY <1>0, <1>2
    <2> QED
      BY <2>1, <2>2 DEF OutType
  <1>7. MapsType /\ HitsType
    <2>1. <<>> \in Seq(Nat) /\ {} \subseteq Races /\ {} \subseteq Proto
      OBVIOUS
    <2> QED
      BY <1>0, <1>4, <2>1 DEF MapsType, HitsType
  <1>8. pkt \in [CPU -> PktType] /\ got \in Seq(Nat)
    <2>1. <<>> \in Seq(Nat)
      OBVIOUS
    <2>2. [c \in CPU |-> IdlePacket] \in [CPU -> PktType]
      BY <1>3
    <2> QED
      BY <1>0, <2>1, <2>2
  <1>9. TypeOK /\ DropsAsAsked
    BY <1>1, <1>5, <1>6, <1>7, <1>8, TypeParts
  <1>10. Listing
    BY <1>0 DEF Listing
  <1>11. Enforced
    BY <1>0, <1>4 DEF Enforced
  <1>12. \A c \in CPU : pkt[c] = IdlePacket /\ probe[c] = IdleProbe
    BY <1>0 DEF CountersInit
  <1>13. Jobs
    <2>1. \A c \in CPU : pkt[c].jobs = <<>> /\ pkt[c].at = 0 /\ probe[c].pc = "idle"
      BY <1>3, <1>12, IdleType
    <2> QED
      BY <1>2, <2>1 DEF Jobs
  <1>14. Looping
    BY <1>0 DEF Looping
  <1>15. HitsInv
    <2>1. DOMAIN hits = {}
      BY <1>0
    <2> QED
      BY <2>1 DEF HitsInv
  <1>16. /\ ~orphaned /\ ~collided /\ \A t \in Table, k \in Key : ~Present(tables[t], k)
    BY <1>0 DEF CountersInit, EmptyMap, Present
  <1>17. StunInv
    <2>1. ASSUME NEW a \in Addr PROVE Amount(Stun, a) = recorded[Stun][a]
      <3>1. recorded[Stun][a] = 0 /\ ~Present(tables[Stun], a)
        BY <1>0, <1>16, Maps DEF CountersInit
      <3> QED
        BY <3>1 DEF Amount
    <2>2. StunMap /\ StunTally /\ StunFresh /\ upc # "stun"
      BY <1>0, <1>16, <2>1 DEF StunMap, StunTally, StunFresh
    <2> QED
      BY <2>2, StunParts
  <1>18. EpochInv
    <2>1. TurnInv
      BY <1>0 DEF TurnInv, Draining
    <2>2. ApartInv
      BY <1>12, <1>16, IdleType DEF ApartInv, InDryRun
    <2>3. DrainInv
      <3>1. Drained \in MapType(Key)
        <4>1. Dry(1 - writeBuf) \in Table
          BY <1>0, Maps
        <4> QED
          BY <1>1, <4>1 DEF CountersType, Drained
      <3>2. KeysOf(Drained) = {}
        <4>1. Dry(1 - writeBuf) \in Table
          BY <1>0, Maps
        <4> QED
          BY <1>16, <3>1, <4>1, KeysPresent DEF Drained
      <3> QED
        BY <1>0, <3>2 DEF DrainInv, Draining
    <2> QED
      BY <2>1, <2>2, <2>3, EpochParts
  <1> QED
    BY <1>1, <1>9, <1>10, <1>11, <1>13, <1>14, <1>15, <1>17, <1>18 DEF IInv

(* A step that changes nothing.                                               *)
LEMMA StandsStill == ASSUME IInv, UNCHANGED vars PROVE IInv'
  <1>0. /\ UNCHANGED <<counters, listMaps, hits, active, attached, pkt, received, taskVars, misjudged,
                       hitHist, outHist>>
    BY DEF vars
  <1>1. /\ UNCHANGED <<tables, filterOn, probe, it, iterating, recorded, collided, orphaned>>
        /\ UNCHANGED <<trie, dryRun, config, hits, active, attached, pkt, received>>
        /\ UNCHANGED <<args, upc, entries, done, got, tally, writeBuf, drainBuf>>
        /\ UNCHANGED <<misjudged, bumped, dumped, raced, stunFile, base, printed, straddled>>
    BY <1>0 DEF counters, listMaps, taskVars, hitHist, outHist
  <1>2. CountersInv'
    BY <1>0, CountersSame DEF IInv
  <1>3. TypeOK' /\ DropsAsAsked'
    <2>1. /\ CountersType /\ ListType /\ OutType /\ MapsType /\ HitsType
          /\ pkt \in [CPU -> PktType] /\ got \in Seq(Nat)
      BY TypeParts DEF IInv
    <2>2. ListType' /\ OutType' /\ MapsType' /\ HitsType' /\ pkt' \in [CPU -> PktType] /\ got' \in Seq(Nat)
      BY <1>1, <2>1 DEF ListType, OutType, MapsType, HitsType
    <2> QED
      BY <1>2, <2>2, TypeParts DEF CountersInv
  <1>4. Listing' /\ Enforced' /\ Looping'
    BY <1>1, PacketKeeps DEF listMaps, taskVars
  <1>5. Jobs'
    BY <1>1, JobsStay DEF IInv, Synced
  <1>6. HitsInv'
    <2>1. NoDump /\ NoLoad
      BY <1>1 DEF NoDump, NoLoad
    <2>2. HitsInv /\ 0 \notin DOMAIN hits
      BY NoHitAtZero DEF IInv
    <2> QED
      BY <1>1, <2>1, <2>2, HitsStay
  <1>7. StunInv' /\ EpochInv'
    BY <1>1, StunStays, EpochStays
  <1> QED
    BY <1>2, <1>3, <1>4, <1>5, <1>6, <1>7 DEF IInv

(* Every step keeps the invariant.                                            *)
LEMMA NextInv == IInv /\ [Next]_vars => IInv'
  <1>1. ASSUME IInv, Next PROVE IInv'
    BY <1>1, NextSettled, NextHits, NextStun, NextEpoch DEF IInv, Settled
  <1>2. ASSUME IInv, UNCHANGED vars PROVE IInv'
    BY <1>2, StandsStill
  <1> QED
    BY <1>1, <1>2

(* IInv holds throughout, whatever is interleaved of run(), its loops and the *)
(* program's instances on all CPUs: the list and its maps, the jobs of each   *)
(* packet, the counts of the drops, of STUN packets, and of the dry run.      *)
THEOREM Invariant == Spec => []IInv
  BY InitInv, NextInv, PTL DEF Spec

(* The kernel's longest-prefix match (BLACKLIST, an LPM trie) and the list's  *)
(* own lookup (matching_entry) name the same position for every address, of   *)
(* every list of ranges: the counts of drops are written beside the right     *)
(* range.                                                                     *)
THEOREM PositionSafety == Spec => []PositionsAgree
  <1>1. IInv => PositionsAgree
    BY FoundIfWanted DEF PositionsAgree
  <1> QED
    BY <1>1, Invariant, PTL

(* After load_file, every --add and every --delete, sorting and merging, the  *)
(* trie matches exactly the addresses the file and --add name and --delete    *)
(* does not (run, sync_maps).                                                 *)
THEOREM BlockSafety == Spec => []BlockedAsAsked
  <1>1. IInv => BlockedAsAsked
    BY FoundIfWanted DEF BlockedAsAsked
  <1> QED
    BY <1>1, Invariant, PTL

(* try_ip_blacklist never drops a packet it was not to drop, and never passes *)
(* one it was to drop, from the first packet on: the maps are complete before *)
(* attach.                                                                    *)
THEOREM DropSafety == Spec => []DropsAsAsked
  <1>1. IInv => DropsAsAsked
    BY DEF IInv
  <1> QED
    BY <1>1, Invariant, PTL

(* The invariant says it of every position. *)
LEMMA AccountedNow == ASSUME IInv PROVE DropsAccounted
  <1> SUFFICES ASSUME NEW i \in DOMAIN hits
               PROVE  /\ "revived" \notin raced => dumped[i] + Unwritten(i) <= bumped[i]
                      /\ raced = {} /\ upc # "failed" => bumped[i] = dumped[i] + Unwritten(i)
    BY DEF DropsAccounted
  <1> DEFINE h == hits[i]
             b == bumped[i]
             d == dumped[i]
             g == IF upc = "reset" /\ i <= done THEN got[i] ELSE 0
  <1>1. /\ h \in Nat /\ b \in Nat /\ d \in Nat /\ g \in Nat /\ Open(i) = b - d - g
        /\ Unwritten(i) = h + g
        /\ ("revived" \notin raced => h <= Open(i))
        /\ (raced = {} /\ upc # "failed" => h = Open(i))
    BY HitNumbers DEF HitsAt, Open, Unwritten
  <1> HIDE DEF h, b, d, g
  <1>2. /\ "revived" \notin raced => d + Unwritten(i) <= b
        /\ raced = {} /\ upc # "failed" => b = d + Unwritten(i)
    BY <1>1
  <1> QED
    BY <1>2 DEF b, d

(* What dump_hits writes never exceeds what bump_hit counted, and nothing of  *)
(* it is lost, until one of the races it names.                               *)
THEOREM AccountSafety == Spec => []DropsAccounted
  BY AccountedNow, Invariant, PTL

(* A --stun-output file holds of every address a count between that of its    *)
(* tick and that of the end of its iteration (dump_stun_passes), whatever the *)
(* CPUs do meanwhile.                                                         *)
THEOREM StunSafety == Spec => []StunFresh
  <1>1. IInv => StunFresh
    <2> SUFFICES ASSUME IInv PROVE StunFresh
      OBVIOUS
    <2>1. CASE args.dry
      BY <2>1 DEF IInv, Looping, StunFresh
    <2>2. CASE ~args.dry
      BY <2>2 DEF IInv, StunInv
    <2> QED
      BY <2>1, <2>2
  <1> QED
    BY <1>1, Invariant, PTL

-----------------------------------------------------------------------------
(* ip-blacklist-test.                                                        *)

(* While the program is about to be attached, its maps hold what the test     *)
(* reads from the file alone.                                                 *)
LEMMA ListsAgree ==
  ASSUME IInv, upc = "detach", args.add = <<>>, args.delete = <<>>, NEW a \in Addr
  PROVE  MatchingEntry(TestList(args.file), a) # {} <=> TrieLookup(trie, a) # {}
  <1>1. /\ args \in CommandLines /\ entries \in Seq(Cidr) /\ Synced /\ trie = TrieOf(entries)
        /\ Ranges(entries) = Asked /\ args.file \in Seq(Line)
    BY ArgsType DEF IInv, TypeOK, Enforced
  <1>2. Asked = Ranges(args.file)
    <2>1. args.add \in Seq(Line) /\ args.delete \in Seq(Line)
      BY <1>1, ArgsType
    <2>2. Ranges(SubSeq(args.add, 1, Len(args.add))) = {}
      BY <2>1, RangesEnds
    <2>3. Ranges(SubSeq(args.delete, 1, Len(args.delete))) = {}
      BY <2>1, RangesEnds
    <2> QED
      BY <2>2, <2>3 DEF Asked, ListedAfter
  <1> DEFINE p == ParseText(args.file)
             m == Merge(<<>>, p)
  <1>3. p \in Seq(Cidr) /\ Ranges(p) = Ranges(args.file)
    BY <1>1, ParseRanges
  <1> HIDE DEF p
  <1>4. m \in Seq(Cidr) /\ Ranges(m) = Ranges(p)
    <2>1. Ranges(<<>>) = {}
      BY <1>1, RangesEnds
    <2>2. <<>> \in Seq(Cidr)
      OBVIOUS
    <2>3. Ranges(m) = Ranges(<<>>) \cup Ranges(p) /\ m \in Seq(Cidr)
      BY <1>3, <2>2, MergeRanges
    <2> QED
      BY <2>1, <2>3
  <1> HIDE DEF m
  <1>5. TestList(args.file) = SortDedup(m)
    BY DEF TestList, m, p
  <1>6. SortDedup(m) \in Seq(Cidr) /\ Ranges(SortDedup(m)) = Ranges(entries)
    BY <1>1, <1>2, <1>3, <1>4, SortDedupKeeps
  <1>7. MatchingEntry(SortDedup(m), a) # {} <=> Covers(Ranges(entries), a)
    BY <1>6, MatchIsCovered
  <1>8. TrieLookup(trie, a) # {} <=> Covers(Ranges(entries), a)
    BY <1>1, LookupPositions
  <1> QED
    BY <1>5, <1>7, <1>8

(* The truth about the first lines is the beginning of that about more of them. *)
LEMMA TruthGrows ==
  ASSUME NEW listed, NEW q \in Seq(Addr \cup {Bad, Blank}), NEW i \in 0 .. Len(q),
         NEW j \in 0 .. Len(q), i <= j
  PROVE  Begins(Truth(SubSeq(q, 1, i), listed), Truth(SubSeq(q, 1, j), listed))
  <1> DEFINE Q == Addr \cup {Bad, Blank}
  <1>1. PICK g : AmongRun(g, q, Addr, Seq(Q \cap Addr))
    BY AmongRuns
  <1>2. Q \cap Addr = Addr
    OBVIOUS
  <1>3. ASSUME NEW k \in 0 .. Len(q)
        PROVE  /\ g[k] \in Seq(Addr)
               /\ Truth(SubSeq(q, 1, k), listed)
                    = [x \in 1 .. Len(g[k]) |-> [target |-> g[k][x], hit |-> g[k][x] \in listed]]
    <2>1. g[k] \in Seq(Addr)
      BY <1>1, <1>2 DEF AmongRun
    <2> HIDE DEF Q
    <2>2. Among(SubSeq(q, 1, k), Addr) = g[k]
      <3>1. q \in Seq(Q)
        BY DEF Q
      <3> QED
        BY ONLY <1>1, <1>3, <3>1, AmongPrefix
    <2> QED
      BY <2>1, <2>2 DEF Truth
  <1>4. Begins(g[i], g[j])
    <2>1. AmongRun(g, q, Addr, Seq(Q))
      <3>1. Seq(Addr) \subseteq Seq(Q)
        OBVIOUS
      <3>2. \A k \in 0 .. Len(q) : g[k] \in Seq(Q)
        BY <1>3, <3>1
      <3> QED
        BY <1>1, <3>2 DEF AmongRun
    <2> HIDE DEF Q
    <2>2. q \in Seq(Q)
      BY DEF Q
    <2> QED
      BY <2>1, <2>2, AmongGrows
  <1>5. ASSUME NEW k \in 0 .. Len(q)
        PROVE  /\ Len(Truth(SubSeq(q, 1, k), listed)) = Len(g[k])
               /\ \A x \in 1 .. Len(g[k]) :
                      Truth(SubSeq(q, 1, k), listed)[x]
                          = [target |-> g[k][x], hit |-> g[k][x] \in listed]
    <2> DEFINE t == Truth(SubSeq(q, 1, k), listed)
               u == g[k]
               n == Len(u)
    <2>1. u \in Seq(Addr) /\ t = [x \in 1 .. n |-> [target |-> u[x], hit |-> u[x] \in listed]]
      BY <1>3
    <2> HIDE DEF t, u
    <2>2. n \in Nat /\ \A x \in 1 .. n : u[x] \in Addr
      BY <2>1
    <2> DEFINE R == [target : Addr, hit : BOOLEAN]
               e(x) == [target |-> u[x], hit |-> u[x] \in listed]
    <2> HIDE DEF n
    <2>a. \A x \in 1 .. n : e(x) \in R
      BY <2>2
    <2>3. t \in [1 .. n -> R]
      <3>1. t = [x \in 1 .. n |-> e(x)]
        BY <2>1
      <3> HIDE DEF e, R
      <3> QED
        BY <2>a, <3>1
    <2> HIDE DEF R
    <2>4. Len(t) = n
      BY <2>2, <2>3, FunctionIsSeq
    <2>5. \A x \in 1 .. n : t[x] = [target |-> u[x], hit |-> u[x] \in listed]
      BY <2>1
    <2>6. /\ Len(t) = Len(u)
          /\ \A x \in 1 .. Len(u) : t[x] = [target |-> u[x], hit |-> u[x] \in listed]
      BY <2>4, <2>5 DEF n
    <2> QED
      BY <2>6 DEF t, u
  <1>6. Len(g[i]) \in Nat /\ Len(g[j]) \in Nat
    BY <1>3
  <1>7. Len(g[i]) <= Len(g[j]) /\ \A x \in 1 .. Len(g[i]) : g[i][x] = g[j][x]
    BY <1>4 DEF Begins
  <1>8. \A x \in 1 .. Len(g[i]) : x \in 1 .. Len(g[j])
    BY <1>6, <1>7
  <1>9. ASSUME NEW x \in 1 .. Len(g[i])
        PROVE  Truth(SubSeq(q, 1, i), listed)[x] = Truth(SubSeq(q, 1, j), listed)[x]
    BY <1>5, <1>7, <1>8
  <1> QED
    BY <1>5, <1>7, <1>9 DEF Begins

(* The lines of a stream up to its first bad one. *)
LEMMA FirstBad ==
  ASSUME NEW q \in Seq(Addr \cup {Bad, Blank})
  PROVE  \E n \in 0 .. Len(q) : (\A i \in 1 .. n : q[i] # Bad) /\ (n = Len(q) \/ q[n + 1] = Bad)
  <1> DEFINE B == {i \in 1 .. Len(q) : q[i] = Bad}
  <1>0. Len(q) \in Nat
    OBVIOUS
  <1>1. CASE B = {}
    BY <1>0, <1>1
  <1>2. CASE B # {}
    <2>1. PICK x \in B : \A y \in B : x <= y
      <3>1. B \subseteq Nat
        BY <1>0
      <3> HIDE DEF B
      <3> QED
        BY <1>2, <3>1, LeastElement
    <2>2. x - 1 \in 0 .. Len(q) /\ q[(x - 1) + 1] = Bad
      BY <1>0, <2>1
    <2>3. \A i \in 1 .. x - 1 : q[i] # Bad
      BY <1>0, <2>1
    <2> QED
      BY <2>2, <2>3
  <1> QED
    BY <1>1, <1>2

(* So what the test answers is what the program does. *)
LEMMA TruthNow ==
  ASSUME IInv PROVE TestTellsTheTruth
  <1> SUFFICES ASSUME upc = "detach", args.add = <<>>, args.delete = <<>>, NEW q \in Questions
               PROVE  LET list == TestList(args.file)
                          truth(lines) ==
                              LET asked == Among(lines, Addr) IN
                              [i \in DOMAIN asked |-> [target |-> asked[i],
                                                       hit |-> TrieLookup(trie, asked[i]) # {}]]
                      IN  /\ Answers(list, q) = truth(q)
                          /\ Begins(StreamAnswers(list, q), truth(q))
                          /\ \A n \in 0 .. Len(q) : (\A i \in 1 .. n : q[i] # Bad) =>
                                 Begins(truth(SubSeq(q, 1, n)), StreamAnswers(list, q))
    BY DEF TestTellsTheTruth
  <1> DEFINE listed == {a \in Addr : TrieLookup(trie, a) # {}}
             list == TestList(args.file)
             truth(lines) ==
                 LET asked == Among(lines, Addr) IN
                 [i \in DOMAIN asked |-> [target |-> asked[i],
                                          hit |-> TrieLookup(trie, asked[i]) # {}]]
  <1>1. \A a \in Addr : MatchingEntry(list, a) # {} <=> a \in listed
    BY ListsAgree
  <1>2. q \in Seq(Addr \cup {Bad, Blank})
    BY XdpBlacklistAssumption
  <1>3. ASSUME NEW lines \in Seq(Addr \cup {Bad, Blank}) PROVE truth(lines) = Truth(lines, listed)
    <2> DEFINE asked == Among(lines, Addr)
    <2>1. asked \in Seq(Addr)
      <3>1. asked \in Seq((Addr \cup {Bad, Blank}) \cap Addr)
        BY AmongKeeps
      <3>2. (Addr \cup {Bad, Blank}) \cap Addr = Addr
        OBVIOUS
      <3> QED
        BY <3>1, <3>2
    <2> HIDE DEF asked
    <2>2. \A i \in DOMAIN asked : asked[i] \in Addr
      BY <2>1
    <2>3. \A i \in DOMAIN asked : (asked[i] \in listed) = (TrieLookup(trie, asked[i]) # {})
      BY <2>2
    <2> HIDE DEF listed
    <2>4. [i \in DOMAIN asked |-> [target |-> asked[i], hit |-> TrieLookup(trie, asked[i]) # {}]]
            = [i \in DOMAIN asked |-> [target |-> asked[i], hit |-> asked[i] \in listed]]
      BY <2>3
    <2> QED
      BY <2>4 DEF Truth, asked
  <1> HIDE DEF listed, list, truth
  <1>4. Answers(list, q) = truth(q)
    BY <1>1, <1>2, <1>3, AnswersTrue
  <1>5. PICK m \in 0 .. Len(q) : /\ \A i \in 1 .. m : q[i] # Bad
                                 /\ m = Len(q) \/ q[m + 1] = Bad
    BY <1>2, FirstBad
  <1>6. StreamAnswers(list, q) = Truth(SubSeq(q, 1, m), listed)
    BY <1>1, <1>2, <1>5, StreamTrue
  <1>7. Begins(StreamAnswers(list, q), truth(q))
    <2>1. SubSeq(q, 1, Len(q)) = q /\ Len(q) \in 0 .. Len(q) /\ m <= Len(q)
      BY <1>2
    <2>2. Begins(Truth(SubSeq(q, 1, m), listed), Truth(SubSeq(q, 1, Len(q)), listed))
      BY <1>2, <2>1, TruthGrows
    <2> QED
      BY <1>2, <1>3, <1>6, <2>1, <2>2
  <1>8. ASSUME NEW n \in 0 .. Len(q), \A i \in 1 .. n : q[i] # Bad
        PROVE  Begins(truth(SubSeq(q, 1, n)), StreamAnswers(list, q))
    <2>1. n <= m
      <3>1. ~(m + 1 \in 1 .. n)
        BY <1>2, <1>5, <1>8
      <3> QED
        BY <1>2, <1>5, <3>1
    <2> DEFINE s == SubSeq(q, 1, n)
    <2>2. s \in Seq(Addr \cup {Bad, Blank})
      BY <1>2
    <2>3. Begins(Truth(s, listed), Truth(SubSeq(q, 1, m), listed))
      BY <1>2, <2>1, TruthGrows
    <2> HIDE DEF s
    <2>4. truth(s) = Truth(s, listed)
      BY <1>3, <2>2
    <2> QED
      BY <1>6, <2>3, <2>4 DEF s
  <1> QED
    BY <1>4, <1>7, <1>8 DEF truth, list

(* Without --add and --delete, ip-blacklist-test answers of every address what *)
(* the program does with it that is attached with the same file: of all its    *)
(* arguments, and of the lines of a stream up to the first that is no address. *)
THEOREM TestSafety == Spec => []TestTellsTheTruth
  BY TruthNow, Invariant, PTL

-----------------------------------------------------------------------------
(* The dry run implements EpochLog: until a packet straddles a turn, or two   *)
(* meet, every step counts one packet, rotates, reports, or changes nothing.  *)

Unraced == ~straddled /\ ~collided

(* What the maps owe the reader. *)
Owes ==
    \A a \in Addr :
        /\ DryOutstanding(writeBuf, a) = Amount(Dry(writeBuf), a)
        /\ DryOutstanding(1 - writeBuf, a)
               = IF upc = "dryRead" THEN Amount(Dry(1 - writeBuf), a) ELSE 0

(* What the reader has still to be told is what the maps hold, until          *)
(* something races.                                                           *)
LEMMA OwesNow == IInv /\ Unraced => Owes
  <1> SUFFICES ASSUME IInv, Unraced, NEW a \in Addr
               PROVE  /\ DryOutstanding(writeBuf, a) = Amount(Dry(writeBuf), a)
                      /\ DryOutstanding(1 - writeBuf, a)
                             = IF upc = "dryRead" THEN Amount(Dry(1 - writeBuf), a) ELSE 0
    BY DEF Owes
  <1>1. /\ TurnInv /\ DrainInv /\ Drained \in MapType(Key) /\ writeBuf \in {0, 1} /\ a \in Key
        /\ 1 - writeBuf # writeBuf
    <2>1. writeBuf \in {0, 1}
      BY EpochFacts
    <2> QED
      BY <2>1, EpochFacts, Maps
  <1>2. DryOutstanding(writeBuf, a) = Amount(Dry(writeBuf), a)
    BY <1>1 DEF DryOutstanding, Amount, TurnInv, Draining
  <1>3. a \in KeysOf(Drained) <=> Present(Drained, a)
    BY <1>1, KeysPresent
  <1>4. CASE upc \notin Draining
    <2>1. ~Present(Drained, a)
      BY <1>1, <1>3, <1>4 DEF DrainInv, Unraced
    <2> QED
      BY <1>2, <1>4, <2>1 DEF DryOutstanding, Drained, Draining
  <1>5. CASE upc = "dryRead"
    BY <1>2, <1>5 DEF DryOutstanding, Amount
  <1>6. CASE upc = "dryRemove"
    <2>1. Present(Drained, a) => a \in it.seen
      BY <1>1, <1>3, <1>6 DEF DrainInv, Unraced
    <2>2. drainBuf = 1 - writeBuf
      BY <1>1, <1>6 DEF TurnInv, Draining
    <2> QED
      BY <1>2, <1>6, <2>1, <2>2 DEF DryOutstanding, Drained
  <1> QED
    BY <1>4, <1>5, <1>6 DEF Draining

(* After the step as well. *)
LEMMA OwesThen == IInv' /\ Unraced' => Owes'
  BY OwesNow, PTL

Current == [a \in Addr |-> DryOutstanding(writeBuf, a)]
Closed  == [a \in Addr |-> DryOutstanding(1 - writeBuf, a)]

(* What the two epochs are while nothing has raced. *)
LEMMA EpochsNow ==
  ASSUME Owes
  PROVE  /\ Current = [a \in Addr |-> Amount(Dry(writeBuf), a)]
         /\ Closed = [a \in Addr |-> IF upc = "dryRead" THEN Amount(Dry(1 - writeBuf), a) ELSE 0]
  BY DEF Owes, Current, Closed

(* And after a step. *)
LEMMA EpochsThen ==
  ASSUME Owes'
  PROVE  /\ Current' = [a \in Addr |-> Amount(Dry(writeBuf), a)']
         /\ Closed' = [a \in Addr |-> IF upc' = "dryRead" THEN Amount(Dry(1 - writeBuf), a)' ELSE 0]
  BY DEF Owes, Current, Closed

(* A race is never forgotten. *)
LEMMA RacesStay ==
  ASSUME IInv, [Next]_vars PROVE (straddled => straddled') /\ (collided => collided')
  <1>0. CountersInv
    BY DEF IInv
  <1>1. CASE KernelStep
    <2>1. straddled' = straddled
      BY <1>1, KernelLeaves DEF outHist
    <2>2. CASE \E c \in CPU, p \in Packets(args) : Receive(c, p)
      BY <2>1, <2>2 DEF Receive, counters
    <2>3. ASSUME NEW c \in CPU, PacketStep(c) PROVE collided => collided'
      <3>1. CASE Record(c)
        BY <3>1 DEF Record
      <3>2. CASE Count(c)
        BY <3>2, CountDoes
      <3>3. CASE HitLoad(c) \/ HitStore(c)
        BY <3>3, HitLoadJobs, HitStoreJobs DEF counters
      <3> QED
        BY <2>3, <3>1, <3>2, <3>3 DEF PacketStep
    <2> QED
      BY <1>1, <2>1, <2>2, <2>3 DEF KernelStep
  <1>2. CASE StartStep \/ Sync
    BY <1>2, StartKeeps, SyncKeeps DEF startRest, kernelRest, outHist, counters
  <1>3. CASE LoopAction
    <2>1. CASE LoopStep
      <3>1. collided' = collided
        BY <1>0, <2>1, LoopIterates, IteratesKeeps DEF counters, kernelSide
      <3>2. straddled => straddled'
        BY <2>1 DEF LoopStep, Tick, WriteHits, StunEnd, Turn, DryPrint, ReadStun, ReadDry, dumpRest
      <3> QED
        BY <3>1, <3>2
    <2>2. CASE GetHit \/ GetEnd \/ ResetHit \/ WriteStun \/ WriteFails \/ DryRemoveEnd
      BY <2>2 DEF GetHit, GetEnd, ResetHit, WriteStun, WriteFails, DryRemoveEnd, fileRest, dumpRest,
                  counters
    <2>3. CASE \E a \in Addr : DryRemoveFails(a) \/ DryRemove(a)
      BY <2>3 DEF DryRemoveFails, DryRemove, RemoveKey, counters
    <2> QED
      BY <1>3, <2>1, <2>2, <2>3 DEF LoopAction
  <1>4. CASE UNCHANGED vars
    BY <1>4 DEF vars, counters, outHist
  <1> QED
    BY <1>1, <1>2, <1>3, <1>4, NextSteps

Unracing == ~straddled /\ ~collided /\ ~straddled' /\ ~collided'

(* The reader's view: what the maps hold, and whether one is being read.     *)
SameView ==
    /\ printed' = printed /\ writeBuf' = writeBuf
    /\ upc' = "dryRead" <=> upc = "dryRead"
    /\ \A a \in Addr : Amount(Dry(writeBuf), a)' = Amount(Dry(writeBuf), a)
    /\ upc = "dryRead" =>
           \A a \in Addr : Amount(Dry(1 - writeBuf), a)' = Amount(Dry(1 - writeBuf), a)

(* Who leaves that alone leaves the epochs alone. *)
LEMMA EpochStutters ==
  ASSUME Owes, Owes', Unracing, SameView PROVE UNCHANGED Epochs!vars
  <1>1. Current' = Current /\ Closed' = Closed
    BY EpochsNow, EpochsThen DEF SameView
  <1>2. printed' = printed /\ (straddled \/ collided)' = (straddled \/ collided)
    BY DEF Unracing, SameView
  <1> QED
    BY <1>1, <1>2 DEF Epochs!vars, Current, Closed

(* Most steps leave the maps alone altogether.                                *)
MapsStand ==
    /\ tables' = tables /\ printed' = printed /\ writeBuf' = writeBuf
    /\ upc' = "dryRead" <=> upc = "dryRead"

(* So do they leave the epochs alone. *)
LEMMA MapsStill ==
  ASSUME Owes, Owes', Unracing, MapsStand PROVE UNCHANGED Epochs!vars
  <1>1. SameView
    BY DEF SameView, MapsStand, Amount
  <1> QED
    BY <1>1, EpochStutters

(* A packet counts in the map that is written, or one of STUN packets.        *)
LEMMA CountsOne ==
  ASSUME IInv, Owes, Owes', Unracing, NEW c \in CPU, Count(c)
  PROVE  Epochs!Next \/ UNCHANGED Epochs!vars
  <1> DEFINE e == Entry(c)
             k == probe[c].key
             m == probe[c].map
  <1>0. /\ UNCHANGED <<upc, writeBuf, printed>>
        /\ ~straddled /\ ~collided /\ ~straddled' /\ ~collided'
    BY CountDoes DEF Unracing, taskVars, outHist
  <1>1. /\ m \in {Stun, Dry(writeBuf)} /\ k \in Addr /\ k \in Key
        /\ \A t \in Table \ {m} : tables'[t] = tables[t]
    BY <1>0, CountMap, Maps
  <1>2. /\ Dry(writeBuf) \in Table /\ Dry(1 - writeBuf) \in Table
        /\ Dry(1 - writeBuf) # Dry(writeBuf) /\ Dry(1 - writeBuf) # Stun /\ Dry(writeBuf) # Stun
        /\ ~orphaned
    BY <1>0, EpochFacts DEF ApartInv
  <1>3. \A a \in Addr : Amount(Dry(1 - writeBuf), a)' = Amount(Dry(1 - writeBuf), a)
    BY <1>0, <1>1, <1>2 DEF Amount
  <1>4. CASE tables' = tables
    BY <1>0, <1>4, MapsStill DEF MapsStand
  <1>5. CASE m = Stun
    <2>1. \A a \in Addr : Amount(Dry(writeBuf), a)' = Amount(Dry(writeBuf), a)
      BY <1>0, <1>1, <1>2, <1>5 DEF Amount
    <2> QED
      BY <1>0, <1>3, <2>1, EpochStutters DEF SameView
  <1>6. CASE tables' # tables /\ m = Dry(writeBuf)
    <2>1. \A a \in Addr :
              Amount(Dry(writeBuf), a)' = Amount(Dry(writeBuf), a) + IF a = k THEN 1 ELSE 0
      <3>1. ASSUME NEW a \in Addr
            PROVE  Amount(Dry(writeBuf), a)'
                       = Amount(Dry(writeBuf), a) + IF <<Dry(writeBuf), a>> = Entry(c) THEN 1 ELSE 0
        <4>1. a \in Key
          BY Maps
        <4>2. Amount(Dry(writeBuf), a)'
                = IF Present(tables'[Dry(writeBuf)], a) THEN ValueOf(tables'[Dry(writeBuf)], a) ELSE 0
          BY <1>0 DEF Amount
        <4>3. \A t \in Table :
                  Amount(t, a)' = Amount(t, a) + IF <<t, a>> = Entry(c) THEN 1 ELSE 0
          BY <1>0, <1>2, <1>6, <4>1, CountDoes
        <4>4. \A t \in Table : Amount(t, a)'
                = IF Present(tables'[t], a) THEN ValueOf(tables'[t], a) ELSE 0
          BY DEF Amount
        <4> QED
          BY <1>2, <4>2, <4>3, <4>4
      <3>2. \A a \in Addr : <<Dry(writeBuf), a>> = Entry(c) <=> a = k
        BY <1>6 DEF Entry
      <3> QED
        BY <3>1, <3>2
    <2>2. Closed' = Closed
      BY <1>0, <1>3, EpochsNow, EpochsThen
    <2>3. \A a \in Addr : Amount(Dry(writeBuf), a) \in Nat
      BY <1>2, Maps, AmountType DEF IInv, CountersInv
    <2>4. Current' = [Current EXCEPT ![k] = @ + 1]
      <3>1. Current = [a \in Addr |-> Amount(Dry(writeBuf), a)]
        BY EpochsNow
      <3>2. Current' = [a \in Addr |-> Amount(Dry(writeBuf), a) + IF a = k THEN 1 ELSE 0]
        BY <2>1, EpochsThen
      <3> QED
        BY <1>1, <2>3, <3>1, <3>2
    <2>5. Epochs!Count(k)
      BY <1>0, <2>2, <2>4 DEF Epochs!Count, Current, Closed
    <2> QED
      BY <1>1, <2>5 DEF Epochs!Next
  <1> QED
    BY <1>1, <1>4, <1>5, <1>6

(* DRY_RUN_ACTIVE_BUF is turned: the other map has been emptied.              *)
LEMMA TurnRotates ==
  ASSUME IInv, Owes, Owes', Unracing, Turn PROVE Epochs!Rotate
  <1>1. /\ upc = "run" /\ upc' = "dryRead" /\ writeBuf' = 1 - writeBuf
        /\ UNCHANGED <<tables, printed>>
    BY DEF Turn, IterStart, kernelSide
  <1>2. 1 - (1 - writeBuf) = writeBuf
    BY EpochFacts
  <1>3. Closed = [a \in Addr |-> 0]
    BY <1>1, EpochsNow
  <1>4. Closed' = Current
    BY <1>1, <1>2, EpochsNow, EpochsThen DEF Amount
  <1>5. Current' = [a \in Addr |-> 0]
    <2>1. DrainInv /\ Drained \in MapType(Key)
      BY EpochFacts
    <2>2. KeysOf(Drained) = {}
      BY <1>1, <2>1 DEF DrainInv, Draining, Unracing
    <2>3. \A a \in Addr : ~Present(Drained, a)
      BY <2>1, <2>2, KeysPresent, Maps
    <2>4. \A a \in Addr : Amount(Dry(writeBuf), a)' = 0
      BY <1>1, <2>3 DEF Amount, Drained
    <2> QED
      BY <2>4, EpochsThen
  <1>6. printed' = printed /\ (straddled \/ collided)' = (straddled \/ collided)
    BY <1>1 DEF Unracing
  <1> QED
    BY <1>3, <1>4, <1>5, <1>6 DEF Epochs!Rotate, Epochs!Nothing, Current, Closed

(* What is printed is the whole of the map that was written.                  *)
LEMMA PrintReports ==
  ASSUME IInv, Owes, Owes', Unracing, DryPrint PROVE Epochs!Report
  <1>1. /\ upc = "dryRead" /\ upc' = "dryRemove" /\ UNCHANGED <<tables, writeBuf>>
        /\ it.walk \subseteq it.seen
        /\ printed' = [a \in Addr |-> printed[a] + tally[a]]
    BY DEF DryPrint, IterEnd, kernelSide
  <1>2. /\ TurnInv /\ DrainInv /\ Drained \in MapType(Key)
    BY EpochFacts
  <1>3. /\ KeysOf(Drained) \subseteq it.seen /\ it.map = Dry(1 - writeBuf)
        /\ \A a \in Addr : tally[a] = IF a \in it.seen THEN Amount(it.map, a) ELSE 0
    BY <1>1, <1>2 DEF DrainInv, TurnInv, Draining, Unracing
  <1>4. \A a \in Addr : tally[a] = Amount(Dry(1 - writeBuf), a)
    <2>1. \A a \in Addr : Present(Drained, a) => a \in it.seen
      BY <1>2, <1>3, KeysPresent, Maps
    <2> QED
      BY <1>3, <2>1 DEF Amount, Drained
  <1>5. Current' = Current /\ Closed' = [a \in Addr |-> 0]
    BY <1>1, EpochsNow, EpochsThen DEF Amount
  <1>6. Closed = [a \in Addr |-> Amount(Dry(1 - writeBuf), a)]
    BY <1>1, EpochsNow
  <1>7. printed' = [a \in Addr |-> IF a \in Addr THEN printed[a] + Closed[a] ELSE printed[a]]
    BY <1>1, <1>4, <1>6
  <1>8. (straddled \/ collided)' = (straddled \/ collided)
    BY DEF Unracing
  <1> QED
    BY <1>5, <1>7, <1>8 DEF Epochs!Report, Epochs!Nothing, Current, Closed

(* Removing the keys that were printed changes nothing a reader waits for.    *)
LEMMA RemoveStutters ==
  ASSUME IInv, Owes, Owes', Unracing, NEW a \in Addr, DryRemove(a)
  PROVE  UNCHANGED Epochs!vars
  <1>1. /\ upc = "dryRemove" /\ UNCHANGED <<upc, writeBuf, printed>>
        /\ tables' = [tables EXCEPT ![it.map] = DeleteElem(@, a)]
    BY DEF DryRemove, RemoveKey
  <1>2. /\ it.map = Dry(1 - writeBuf) /\ Dry(1 - writeBuf) # Dry(writeBuf)
        /\ Dry(writeBuf) \in Table /\ tables \in [Table -> MapType(Key)]
    BY <1>1, EpochFacts DEF TurnInv, Draining
  <1>3. tables'[Dry(writeBuf)] = tables[Dry(writeBuf)]
    BY <1>1, <1>2
  <1>4. \A b \in Addr : Amount(Dry(writeBuf), b)' = Amount(Dry(writeBuf), b)
    BY <1>1, <1>3 DEF Amount
  <1> QED
    BY <1>1, <1>4, EpochStutters DEF SameView

(* Every step of the program is a step of EpochLog or none.                   *)
LEMMA EpochStep == IInv /\ [Next]_vars => [Epochs!Next]_(Epochs!vars)
  <1> SUFFICES ASSUME IInv, [Next]_vars, ~straddled', ~collided'
               PROVE  Epochs!Next \/ UNCHANGED Epochs!vars
    BY DEF Epochs!Next
  <1> DEFINE Goal == Epochs!Next \/ UNCHANGED Epochs!vars
  <1>1. Unracing
    BY RacesStay DEF Unracing
  <1>2. IInv'
    BY NextInv
  <1>3. Owes /\ Owes'
    BY <1>1, <1>2, OwesNow, OwesThen DEF Unraced, Unracing
  <1> HIDE DEF Goal
  <1> SUFFICES Goal
    BY DEF Goal
  <1>4. ASSUME MapsStand PROVE Goal
    BY <1>1, <1>3, <1>4, MapsStill DEF Goal
  <1>5. CASE KernelStep
    <2>1. UNCHANGED <<upc, writeBuf, printed>>
      BY <1>5, KernelLeaves DEF taskVars, outHist
    <2>2. CASE \E c \in CPU, p \in Packets(args) : Receive(c, p)
      BY <1>4, <2>1, <2>2 DEF MapsStand, Receive, counters
    <2>3. ASSUME NEW c \in CPU, PacketStep(c) PROVE Goal
      <3>1. CASE Record(c)
        BY <1>4, <2>1, <3>1 DEF MapsStand, Record
      <3>2. CASE Count(c)
        BY <1>1, <1>3, <3>2, CountsOne DEF Goal
      <3>3. CASE HitLoad(c) \/ HitStore(c)
        BY <1>4, <2>1, <3>3, HitLoadJobs, HitStoreJobs DEF MapsStand, counters
      <3> QED
        BY <2>3, <3>1, <3>2, <3>3 DEF PacketStep
    <2> QED
      BY <1>5, <2>2, <2>3 DEF KernelStep
  <1>6. CASE StartStep \/ Sync
    <2>1. UNCHANGED <<tables, printed, writeBuf>>
      BY <1>6, StartKeeps, SyncKeeps DEF startRest, kernelRest, outHist, counters
    <2>2. upc' # "dryRead" /\ upc # "dryRead"
      BY <1>6 DEF StartStep, LoadFile, Add, AddEnd, Delete, Check, Detach, Attach, Leave, Exit, Sync
    <2> QED
      BY <1>4, <2>1, <2>2 DEF MapsStand
  <1>7. CASE LoopAction
    <2>1. CASE Turn
      BY <1>1, <1>3, <2>1, TurnRotates DEF Goal, Epochs!Next
    <2>2. CASE DryPrint
      BY <1>1, <1>3, <2>2, PrintReports DEF Goal, Epochs!Next
    <2>3. CASE \E a \in Addr : DryRemove(a)
      BY <1>1, <1>3, <2>3, RemoveStutters DEF Goal
    <2>4. CASE \/ GetHit \/ GetEnd \/ ResetHit \/ WriteStun \/ WriteFails \/ DryRemoveEnd
               \/ \E a \in Addr : DryRemoveFails(a)
      <3>1. UNCHANGED <<tables, printed, writeBuf>>
        BY <2>4 DEF GetHit, GetEnd, ResetHit, WriteStun, WriteFails, DryRemoveEnd, DryRemoveFails,
                    fileRest, dumpRest, counters
      <3>2. upc' # "dryRead" /\ upc # "dryRead"
        BY <2>4 DEF GetHit, GetEnd, ResetHit, WriteStun, WriteFails, DryRemoveEnd, DryRemoveFails
      <3> QED
        BY <1>4, <3>1, <3>2 DEF MapsStand
    <2>5. CASE Tick \/ WriteHits \/ StunEnd \/ \E a \in Addr : ReadStun(a) \/ ReadDry(a)
      <3>1. tables' = tables
        <4>1. LoopStep /\ CountersInv
          BY <2>5 DEF LoopStep, IInv
        <4> QED
          BY <4>1, LoopIterates, IteratesKeeps DEF counters, kernelSide
      <3>2. UNCHANGED <<printed, writeBuf>>
        BY <2>5 DEF Tick, WriteHits, StunEnd, ReadStun, ReadDry, dumpRest
      <3>3. upc' = "dryRead" <=> upc = "dryRead"
        BY <2>5, StunOrNotDoes DEF Tick, WriteHits, StunEnd, ReadStun, ReadDry
      <3> QED
        BY <1>4, <3>1, <3>2, <3>3 DEF MapsStand
    <2> QED
      BY <1>7, <2>1, <2>2, <2>3, <2>4, <2>5 DEF LoopAction, LoopStep
  <1>8. CASE UNCHANGED vars
    BY <1>4, <1>8 DEF MapsStand, vars, counters, taskVars, outHist
  <1> QED
    BY <1>5, <1>6, <1>7, <1>8, NextSteps

(* The dry run implements EpochLog under the refinement mapping of Epochs.   *)
THEOREM DryRunRefinement == Spec => DryRunEpochs
  <1>1. Init => Epochs!Init
    <2> SUFFICES ASSUME Init PROVE Epochs!Init
      OBVIOUS
    <2>1. \A t \in Table, a \in Key : ~Present(tables[t], a)
      BY DEF Init, CountersInit, EmptyMap, Present
    <2>2. Dry(writeBuf) \in Table /\ Dry(1 - writeBuf) \in Table /\ Key = Addr
      BY Maps DEF Init
    <2>3. Current = [a \in Addr |-> 0] /\ Closed = [a \in Addr |-> 0]
      BY <2>1, <2>2 DEF Current, Closed, DryOutstanding
    <2>4. printed = [a \in Addr |-> 0] /\ ~straddled /\ ~collided
      BY DEF Init, CountersInit, NoCounts
    <2> QED
      BY <2>3, <2>4 DEF Epochs!Init, Epochs!Nothing, Current, Closed
  <1> QED
    BY <1>1, EpochStep, Invariant, PTL DEF Spec, DryRunEpochs, Epochs!Spec

-----------------------------------------------------------------------------
(* BlacklistHost: the interface and the file.                                 *)

Piece == Version \cup {Hole}
Pc == {"load", "check", "refused", "off", "look", "attach", "run", "failed", "ended",
       "killed"}

(* A step of the state machine leaves what is not in its hands alone. *)
LEMMA Frame ==
  ASSUME [HostNext]_allVars
  PROVE  UNCHANGED hostVars
  BY DEF HostNext, ProcStep, allVars, hostVars, procVars, writerRest, inputRest, ifRest,
         Truncate, WriteChunk, WriterEnds, ReadChunk, ReadEnd, CheckInput, Off, Look,
         AttachProgram, Fails, Stop, Kill

(* The steps of init write the file and nothing else. *)
LEMMA WriterSteps ==
  ASSUME HostTypeOK, NEW w \in Writer, Truncate(w) \/ WriteChunk(w) \/ WriterEnds(w)
  PROVE  HostTypeOK' /\ UNCHANGED writerRest
  <1>0. /\ writer \in [Writer -> [version : Version, done : 0 .. Chunks,
                                  pc : {"fetch", "write", "done", "torn", "ended"}]]
        /\ file \in Seq(Piece) /\ Len(file) <= Chunks
        /\ Chunks \in Nat
    BY BlacklistHostAssumption DEF HostTypeOK, Piece
  <1>1. UNCHANGED writerRest
    BY DEF Truncate, WriteChunk, WriterEnds
  <1>2. /\ writer' \in [Writer -> [version : Version, done : 0 .. Chunks,
                                   pc : {"fetch", "write", "done", "torn", "ended"}]]
        /\ file' \in Seq(Piece) /\ Len(file') <= Chunks
    <2>1. CASE Truncate(w)
      BY <1>0, <2>1 DEF Truncate
    <2>2. CASE WriterEnds(w)
      BY <1>0, <2>2 DEF WriterEnds
    <2>3. CASE WriteChunk(w)
      <3> DEFINE i == writer[w].done + 1
                 n == IF i > Len(file) THEN i ELSE Len(file)
      <3>1. i \in 1 .. Chunks /\ writer[w].version \in Piece
        BY <1>0, <2>3 DEF WriteChunk, Piece
      <3>2. n \in Nat /\ n <= Chunks
        BY <1>0, <3>1
      <3>3. file' \in [1 .. n -> Piece]
        <4>1. \A j \in 1 .. n : j <= Len(file) => file[j] \in Piece
          BY <1>0
        <4>2. Hole \in Piece
          BY DEF Piece
        <4> QED
          BY <2>3, <3>1, <4>1, <4>2 DEF WriteChunk
      <3>4. file' \in Seq(Piece) /\ Len(file') = n
        BY <3>2, <3>3, FunctionIsSeq
      <3>5. writer' = [writer EXCEPT ![w].done = i] /\ i \in 0 .. Chunks
        BY <1>0, <2>3, <3>1 DEF WriteChunk
      <3> QED
        BY <1>0, <3>2, <3>4, <3>5
    <2> QED
      BY <2>1, <2>2, <2>3
  <1> QED
    BY <1>1, <1>2 DEF HostTypeOK, writerRest, hostVars, procVars, Piece

(* The steps of a process leave the file and its writers alone. *)
LEMMA ProcStepType ==
  ASSUME HostTypeOK, StepsLeft, NEW p \in Proc, ProcStep(p)
  PROVE  HostTypeOK' /\ StepsLeft'
  <1>0. /\ pc \in [Proc -> Pc] /\ step \in [Proc -> 0 .. Len(Modes)]
        /\ buf \in [Proc -> Seq(Piece)] /\ file \in Seq(Piece)
        /\ slot \in Hook /\ Empty \in Hook
        /\ Len(Modes) = 4
    BY DEF HostTypeOK, Piece, Pc, Empty, Hook, Mode, Modes
  <1>1. UNCHANGED <<hostVars, file, writer>>
    BY DEF ProcStep, inputRest, ifRest, ReadChunk, ReadEnd, CheckInput, Off, Look, AttachProgram,
           Fails, Stop, Kill
  <1>2. pc' \in [Proc -> Pc]
    <2>1. CASE ReadChunk(p)
      BY <1>0, <2>1 DEF ReadChunk
    <2>2. ASSUME NEW to \in Pc, Goes(p, to) PROVE pc' \in [Proc -> Pc]
      BY <1>0, <2>2 DEF Goes
    <2> QED
      BY <2>1, <2>2 DEF ProcStep, ReadEnd, CheckInput, Off, Look, AttachProgram, Fails, Stop,
         Kill, Pc
  <1>3. /\ step' \in [Proc -> 0 .. Len(Modes)]
        /\ StepsLeft'
    <2> DEFINE Early == {"load", "check", "off"}
    <2>1. CASE Off(p)
      <3>1. step[p] < Len(Modes) /\ step' = [step EXCEPT ![p] = @ + 1]
        BY <2>1 DEF Off, StepsLeft
      <3>2. pc'[p] \in Early => step'[p] < Len(Modes)
        BY <1>0, <2>1, <3>1 DEF Off, Goes
      <3>3. step' \in [Proc -> 0 .. Len(Modes)]
        <4>1. step[p] \in 0 .. 4 /\ step[p] < 4
          BY <1>0, <3>1
        <4>2. step[p] + 1 \in 0 .. 4
          BY <4>1
        <4> QED
          BY <1>0, <3>1, <4>2
      <3>4. ASSUME NEW q \in Proc \ {p} PROVE pc'[q] = pc[q] /\ step'[q] = step[q]
        BY <1>0, <2>1, <3>1 DEF Off, Goes
      <3> QED
        BY <3>2, <3>3, <3>4 DEF StepsLeft
    <2>2. CASE ~Off(p)
      <3>1. UNCHANGED step /\ \A q \in Proc : pc'[q] \in Early => pc[q] \in Early
        BY <1>0, <2>2 DEF ProcStep, ReadChunk, ReadEnd, CheckInput, Look, AttachProgram, Fails,
           Stop, Kill, Goes
      <3> QED
        BY <1>0, <3>1 DEF StepsLeft
    <2> QED
      BY <2>1, <2>2
  <1>4. buf' \in [Proc -> Seq(Piece)]
    <2>1. CASE ReadChunk(p)
      <3>1. file[Len(buf[p]) + 1] \in Piece
        BY <1>0, <2>1 DEF ReadChunk
      <3>2. Append(buf[p], file[Len(buf[p]) + 1]) \in Seq(Piece)
        BY <1>0, <3>1
      <3> QED
        BY <1>0, <2>1, <3>2 DEF ReadChunk
    <2>2. CASE ~ReadChunk(p)
      BY <1>0, <2>2 DEF ProcStep, ReadEnd, CheckInput, Off, Look, AttachProgram, Fails, Stop,
         Kill, ifRest
    <2> QED
      BY <2>1, <2>2
  <1>5. slot' \in Hook
    <2>1. CASE AttachProgram(p)
      BY <2>1 DEF AttachProgram, Hook, Mode
    <2>2. CASE ~AttachProgram(p)
      BY <1>0, <2>2 DEF ProcStep, inputRest, ReadChunk, ReadEnd, CheckInput, Off, Look,
         Fails, Stop, Kill, Released
    <2> QED
      BY <2>1, <2>2
  <1> QED
    BY <1>1, <1>2, <1>3, <1>4, <1>5 DEF HostTypeOK, Pc, Piece, hostVars

(* The initial state. *)
LEMMA HostInitInv == HostInit => HostIInv
  <1> SUFFICES ASSUME HostInit PROVE HostIInv
    OBVIOUS
  <1>0. Empty \in Hook /\ Len(Modes) = 4
    BY DEF Empty, Hook, Mode, Modes
  <1>1. /\ slot \in Hook /\ first = slot
        /\ slot.owner \in {Nobody, Other}
    <2>1. \/ slot = Empty
          \/ slot \in [owner : {Other}, link : {FALSE}, mode : Mode]
          \/ slot \in [owner : {Other}, link : {TRUE}, mode : {"drv"}]
      BY DEF HostInit
    <2>2. slot \in Hook /\ slot.owner \in {Nobody, Other}
      <3>1. CASE slot = Empty
        BY <1>0, <3>1 DEF Empty
      <3>2. CASE slot \in [owner : {Other}, link : {FALSE}, mode : Mode]
        BY <3>2 DEF Hook
      <3>3. CASE slot \in [owner : {Other}, link : {TRUE}, mode : {"drv"}]
        BY <3>3 DEF Hook, Mode
      <3> QED
        BY <2>1, <3>1, <3>2, <3>3
    <2> QED
      BY <2>2 DEF HostInit
  <1>2. \A p \in Proc : ~Mine(p)
    BY <1>1, BlacklistHostAssumption DEF Mine
  <1>3. file \in Seq(Piece) /\ Len(file) = Chunks
    <2>1. Whole(Old) \in [1 .. Chunks -> Piece]
      BY BlacklistHostAssumption DEF Whole, Piece
    <2> QED
      BY <2>1, FunctionIsSeq, BlacklistHostAssumption DEF HostInit
  <1>4. pc \in [Proc -> {"ended", "off", "load"}]
    BY DEF HostInit
  <1>5. /\ buf = [p \in Proc |-> <<>>] /\ step = [p \in Proc |-> 0]
        /\ writer \in [Writer -> [version : Version, done : {0}, pc : {"fetch", "ended"}]]
        /\ kernel \in Kernel /\ sealed \in BOOLEAN /\ detach \subseteq Proc
    BY DEF HostInit
  <1>6. HostTypeOK
    <2>1. /\ pc \in [Proc -> Pc] /\ buf \in [Proc -> Seq(Piece)]
          /\ step \in [Proc -> 0 .. Len(Modes)]
      BY <1>0, <1>4, <1>5 DEF Pc
    <2>2. writer \in [Writer -> [version : Version, done : 0 .. Chunks,
                                 pc : {"fetch", "write", "done", "torn", "ended"}]]
      BY <1>5, BlacklistHostAssumption
    <2> QED
      BY <1>1, <1>3, <1>5, <2>1, <2>2, BlacklistHostAssumption DEF HostTypeOK, Pc, Piece
  <1>7. StepsLeft /\ HeldByLink
    BY <1>0, <1>1, <1>4, <1>5, BlacklistHostAssumption DEF StepsLeft, HeldByLink
  <1>8. FilePieces
    <2>1. \A w \in Writer : writer[w].pc \in {"fetch", "ended"} /\ writer[w].done = 0
      BY <1>5
    <2>2. Begun = {}
      BY <2>1 DEF Begun
    <2>3. file = Whole(Old)
      BY DEF HostInit
    <2> QED
      BY <2>1, <2>2, <2>3 DEF FilePieces
  <1>9. InterfaceSound
    BY <1>1, <1>2, <1>4 DEF InterfaceSound, RunningFilters, NoLeftovers, UntouchedBefore
  <1> QED
    BY <1>6, <1>7, <1>8, <1>9 DEF HostIInv

-----------------------------------------------------------------------------
(* The interface.                                                            *)

(* What a step of process p does to the interface, and when. *)
LEMMA SlotSteps ==
  ASSUME HostTypeOK, NEW p \in Proc, ProcStep(p)
  PROVE  /\ UNCHANGED kernel
         /\ \A q \in Proc \ {p} : pc'[q] = pc[q]
         /\ pc'[p] \in {"load", "check", "refused"} =>
                UNCHANGED slot /\ pc[p] \in {"load", "check", "refused"}
         /\ \/ UNCHANGED slot /\ (pc'[p] = "run" <=> pc[p] = "run")
            \/ /\ UNCHANGED slot /\ pc[p] = "run" /\ pc'[p] \in {"ended", "killed"}
               /\ Mine(p) => pc'[p] = "killed" /\ ~slot.link
            \/ /\ slot' = Empty /\ ~slot.link
               /\ pc[p] = "off" /\ pc'[p] \in {"off", "look"}
            \/ AttachProgram(p)
            \/ slot' = Empty /\ pc[p] = "run" /\ (Mine(p) \/ kernel = "plain")
               /\ pc'[p] \in {"ended", "killed"}
            \/ slot' = Empty /\ Mine(p) /\ pc'[p] = "killed"
  <1>0. pc \in [Proc -> Pc]
    BY DEF HostTypeOK, Pc
  <1>1. CASE ReadChunk(p) \/ ReadEnd(p) \/ CheckInput(p) \/ Look(p) \/ Fails(p)
    BY <1>0, <1>1 DEF ReadChunk, ReadEnd, CheckInput, Look, Fails, Goes, inputRest, ifRest,
       hostVars
  <1>2. CASE Off(p)
    BY <1>0, <1>2 DEF Off, Goes, ifRest, hostVars
  <1>3. CASE AttachProgram(p)
    BY <1>0, <1>3 DEF AttachProgram, Goes, ifRest, hostVars
  <1>4. CASE Stop(p)
    BY <1>0, <1>4 DEF Stop, Released, Goes, ifRest, hostVars
  <1>5. CASE Kill(p)
    BY <1>0, <1>5 DEF Kill, Goes, ifRest, hostVars
  <1> QED
    BY <1>1, <1>2, <1>3, <1>4, <1>5 DEF ProcStep

(* A process that was killed, or has ended, takes no step. *)
LEMMA LeftStays ==
  ASSUME NEW p \in Proc, ProcStep(p)
  PROVE  pc[p] # "killed"
  BY DEF ProcStep, ReadChunk, ReadEnd, CheckInput, Off, Look, AttachProgram, Fails, Stop, Kill

(* No step of a process leaves the interface without its list, or a program behind.*)
LEMMA InterfaceStep ==
  ASSUME HostIInv, NEW p \in Proc, ProcStep(p)
  PROVE  InterfaceSound' /\ HeldByLink'
  <1>0. /\ HostTypeOK /\ HeldByLink
        /\ RunningFilters /\ NoLeftovers /\ UntouchedBefore
    BY DEF HostIInv, InterfaceSound
  <1>1. /\ kernel' = kernel /\ first' = first
        /\ \A q \in Proc \ {p} : pc'[q] = pc[q]
    BY <1>0, SlotSteps, Frame DEF HostNext, hostVars
  <1>2. Empty.owner = Nobody /\ Nobody \notin Proc
    BY BlacklistHostAssumption DEF Empty
  <1>a. \/ UNCHANGED slot
        \/ slot' = Empty
        \/ slot'.owner = p /\ slot'.link = (kernel = "links") /\ pc'[p] = "run"
    <2>1. CASE AttachProgram(p)
      BY <1>0, <2>1 DEF AttachProgram, Goes, HostTypeOK
    <2> QED
      BY <1>0, <2>1, SlotSteps
  <1>b. UNCHANGED slot /\ Mine(p) =>
          \/ pc'[p] = "run" <=> pc[p] = "run"
          \/ pc'[p] = "killed" /\ ~slot.link
    <2>1. CASE AttachProgram(p)
      BY <1>0, <2>1 DEF AttachProgram, Goes, HostTypeOK, Mine, NoLeftovers
    <2> QED
      BY <1>0, <1>2, <2>1, SlotSteps DEF Mine
  <1>3. HeldByLink'
    <2>1. (kernel = "links" /\ slot.owner \in Proc => slot.link)'
      BY <1>0, <1>1, <1>2, <1>a DEF HeldByLink
    <2>2. (kernel = "links" => \A q \in Proc : pc[q] = "run" => Mine(q))'
      BY <1>0, <1>1, <1>2, SlotSteps DEF HeldByLink, Mine, AttachProgram, Goes
    <2> QED
      BY <2>1, <2>2 DEF HeldByLink
  <1>4. RunningFilters'
    BY <1>3 DEF RunningFilters, HeldByLink, Mine
  <1>5. NoLeftovers'
    <2> SUFFICES ASSUME NEW q \in Proc, Mine(q)'
                 PROVE  (pc[q] = "run" \/ (pc[q] = "killed" /\ kernel # "links"))'
      BY DEF NoLeftovers
    <2>1. CASE UNCHANGED slot /\ q # p
      BY <1>0, <1>1, <2>1 DEF NoLeftovers, Mine
    <2>2. CASE UNCHANGED slot /\ q = p
      <3>1. Mine(p) /\ slot.owner \in Proc
        BY <2>2 DEF Mine
      <3>2. CASE pc'[p] = "run" <=> pc[p] = "run"
        BY <1>0, <1>1, <2>2, <3>1, <3>2, LeftStays DEF NoLeftovers
      <3>3. CASE pc'[p] = "killed" /\ ~slot.link
        BY <1>0, <1>1, <2>2, <3>1, <3>3 DEF HeldByLink
      <3> QED
        BY <1>b, <2>2, <3>1, <3>2, <3>3
    <2>3. CASE slot' = Empty
      BY <1>2, <2>3 DEF Mine
    <2>4. CASE slot'.owner = p /\ pc'[p] = "run"
      BY <2>4 DEF Mine
    <2> QED
      BY <1>a, <2>1, <2>2, <2>3, <2>4
  <1>6. UntouchedBefore'
    <2> DEFINE Before == {"load", "check", "refused"}
    <2>1. pc'[p] \in Before => UNCHANGED slot /\ pc[p] \in Before
      BY <1>0, SlotSteps
    <2> QED
      BY <1>0, <1>1, <2>1 DEF UntouchedBefore
  <1> QED
    BY <1>3, <1>4, <1>5, <1>6 DEF InterfaceSound

-----------------------------------------------------------------------------
(* The file.                                                                 *)

(* A step of a writer takes it on, and leaves the others where they are. *)
LEMMA WriterMoves ==
  ASSUME HostTypeOK, NEW w \in Writer, Truncate(w) \/ WriteChunk(w) \/ WriterEnds(w)
  PROVE  /\ \A v \in Writer : writer'[v].version = writer[v].version
         /\ \A v \in Writer \ {w} : writer'[v] = writer[v]
         /\ writer'[w].done = IF WriteChunk(w) THEN writer[w].done + 1 ELSE writer[w].done
         /\ Begun \subseteq Begun'
  <1> DEFINE Ends == IF writer[w].pc = "fetch" THEN "ended"
                     ELSE IF writer[w].done = Chunks THEN "done" ELSE "torn"
  <1>0. /\ writer \in [Writer -> [version : Version, done : 0 .. Chunks,
                                  pc : {"fetch", "write", "done", "torn", "ended"}]]
        /\ Chunks \in Nat
    BY BlacklistHostAssumption DEF HostTypeOK
  <1>1. CASE Truncate(w)
    BY <1>0, <1>1 DEF Truncate, WriteChunk, Begun
  <1>2. CASE WriteChunk(w)
    BY <1>0, <1>2 DEF WriteChunk, Begun
  <1>3. CASE WriterEnds(w)
    BY <1>0, <1>3 DEF WriterEnds, WriteChunk, Begun
  <1> QED
    BY <1>1, <1>2, <1>3

(* A missing piece stays somebody's task, whoever takes a step. *)
LEMMA FileStep ==
  ASSUME HostTypeOK, FilePieces, NEW w \in Writer, Truncate(w) \/ WriteChunk(w) \/ WriterEnds(w)
  PROVE  FilePieces'
  <1> DEFINE Of(W) == {Hole} \cup {writer[v].version : v \in W}
  <1>0. /\ writer \in [Writer -> [version : Version, done : 0 .. Chunks,
                                  pc : {"fetch", "write", "done", "torn", "ended"}]]
        /\ Chunks \in Nat /\ Hole \notin Version /\ file \in Seq(Piece)
    BY BlacklistHostAssumption DEF HostTypeOK, Piece
  <1>1. /\ \A v \in Writer : writer'[v].version = writer[v].version
        /\ \A v \in Writer \ {w} : writer'[v] = writer[v]
        /\ writer'[w].done = IF WriteChunk(w) THEN writer[w].done + 1 ELSE writer[w].done
        /\ Begun \subseteq Begun'
    BY WriterMoves
  <1>2. ASSUME NEW v \in Writer, writer'[v].pc = "fetch" PROVE writer'[v].done = 0
    <2>1. v # w
      BY <1>0, <1>2 DEF Truncate, WriteChunk, WriterEnds
    <2> QED
      BY <1>1, <1>2, <2>1 DEF FilePieces
  <1>3. CASE Truncate(w)
    <2>1. /\ writer[w].pc = "fetch" /\ writer'[w].pc = "write" /\ file' = <<>>
          /\ writer'[w].done = 0
      BY <1>0, <1>1, <1>3 DEF Truncate, WriteChunk, FilePieces
    <2>2. w \in Begun'
      BY <2>1 DEF Begun
    <2>3. PiecesToCome'
      BY <1>0, <2>1 DEF PiecesToCome
    <2>4. Len(file') = 0
      BY <2>1
    <2> QED
      BY <1>2, <2>2, <2>3, <2>4 DEF FilePieces
  <1>4. CASE WriteChunk(w)
    <2> DEFINE i == writer[w].done + 1
               n == IF i > Len(file) THEN i ELSE Len(file)
    <2>1. /\ writer[w].pc = "write" /\ writer'[w].pc = "write" /\ i \in 1 .. Chunks
          /\ writer'[w].done = i
      BY <1>0, <1>1, <1>4 DEF WriteChunk
    <2>2. Begun' = Begun /\ w \in Begun
      BY <1>1, <2>1 DEF Begun
    <2>3. /\ file' = [j \in 1 .. n |-> IF j = i THEN writer[w].version
                                       ELSE IF j <= Len(file) THEN file[j] ELSE Hole]
          /\ n \in Nat /\ n >= Len(file) /\ n >= i
      BY <1>0, <1>4, <2>1 DEF WriteChunk
    <2>4. Len(file') = n
      BY <2>3
    <2> HIDE DEF n
    <2>5. ASSUME NEW j \in 1 .. Len(file') PROVE file'[j] \in Of(Begun)
      <3>1. /\ j \in 1 .. n
            /\ file'[j] = IF j = i THEN writer[w].version
                          ELSE IF j <= Len(file) THEN file[j] ELSE Hole
        BY <2>3, <2>4
      <3>2. j <= Len(file) => file[j] \in Of(Begun)
        BY <1>0, <2>2, <2>3, <3>1 DEF FilePieces
      <3> QED
        BY <2>2, <3>1, <3>2
    <2>6. ASSUME \A v \in Writer : writer'[v].pc # "torn",
                 NEW j \in 1 .. Chunks, j > Len(file') \/ file'[j] = Hole
          PROVE  \E v \in Writer : writer'[v].pc = "write" /\ writer'[v].done < j
      <3>1. j # i
        BY <1>0, <2>1, <2>3, <2>4, <2>6
      <3>2. j > Len(file) \/ file[j] = Hole
        BY <1>0, <2>3, <2>4, <2>6, <3>1
      <3>3. \A v \in Writer : writer[v].pc # "torn"
        BY <1>1, <2>1, <2>6
      <3>4. PICK v \in Writer : writer[v].pc = "write" /\ writer[v].done < j
        BY <2>2, <3>2, <3>3 DEF FilePieces, PiecesToCome
      <3>5. CASE v = w
        BY <1>0, <2>1, <3>1, <3>4, <3>5
      <3>6. CASE v # w
        BY <1>1, <3>4, <3>6
      <3> QED
        BY <3>5, <3>6
    <2>7. (\A v \in Writer : writer'[v].pc # "torn") => PiecesToCome'
      BY <2>6 DEF PiecesToCome
    <2>8. \A j \in 1 .. Len(file') : file'[j] \in {Hole} \cup {writer'[v].version : v \in Begun'}
      <3>1. {writer'[v].version : v \in Begun'} = {writer[v].version : v \in Begun}
        BY <1>1, <2>2 DEF Begun
      <3> QED
        BY <2>5, <3>1
    <2> QED
      BY <1>2, <2>2, <2>7, <2>8 DEF FilePieces
  <1>5. CASE WriterEnds(w)
    <2>1. /\ file' = file
          /\ \/ writer[w].pc = "fetch" /\ writer'[w].pc = "ended"
             \/ writer[w].pc = "write" /\ writer[w].done = Chunks /\ writer'[w].pc = "done"
             \/ writer[w].pc = "write" /\ writer'[w].pc = "torn"
      BY <1>0, <1>5 DEF WriterEnds
    <2>2. Begun' = Begun
      BY <1>1, <2>1 DEF Begun
    <2>3. {writer'[v].version : v \in Begun'} = {writer[v].version : v \in Begun}
      BY <1>1, <2>2 DEF Begun
    <2>4. ASSUME Begun # {}, \A v \in Writer : writer'[v].pc # "torn" PROVE PiecesToCome'
      <3>1. PiecesToCome
        <4>1. \A v \in Writer : writer[v].pc # "torn"
          BY <1>1, <2>1, <2>4
        <4> QED
          BY <2>4, <4>1 DEF FilePieces
      <3>2. ASSUME NEW v \in Writer, NEW j \in 1 .. Chunks,
                   writer[v].pc = "write", writer[v].done < j
            PROVE  writer'[v].pc = "write" /\ writer'[v].done < j
        <4>1. v # w
          BY <1>0, <2>1, <2>4, <3>2
        <4> QED
          BY <1>1, <3>2, <4>1
      <3> QED
        BY <2>1, <3>1, <3>2 DEF PiecesToCome
    <2> QED
      BY <1>2, <2>1, <2>2, <2>3, <2>4 DEF FilePieces
  <1> QED
    BY <1>3, <1>4, <1>5

(* When nobody is still writing, no piece is missing. *)
LEMMA AllWritten ==
  ASSUME HostTypeOK, FilePieces, \A w \in Writer : writer[w].pc \notin {"write", "torn"}
  PROVE  IF Written = {} THEN file = Whole(Old)
         ELSE file \in [1 .. Chunks -> {writer[w].version : w \in Written}]
  <1>0. Chunks \in Nat /\ file \in Seq(Piece) /\ Len(file) <= Chunks
    BY BlacklistHostAssumption DEF HostTypeOK, Piece
  <1>1. Begun = Written
    BY DEF Begun, Written
  <1>2. CASE Written = {}
    BY <1>1, <1>2 DEF FilePieces
  <1>3. CASE Written # {}
    <2>1. PiecesToCome
      BY <1>1, <1>3 DEF FilePieces
    <2>2. \A i \in 1 .. Chunks : ~(i > Len(file)) /\ file[i] # Hole
      BY <2>1 DEF PiecesToCome
    <2>3. Len(file) = Chunks
      BY <1>0, <2>2
    <2>4. \A i \in 1 .. Chunks : file[i] \in {writer[w].version : w \in Written}
      BY <1>1, <1>3, <2>2, <2>3 DEF FilePieces
    <2> QED
      BY <1>0, <1>3, <2>3, <2>4
  <1> QED
    BY <1>2, <1>3

-----------------------------------------------------------------------------
(* Every step preserves the invariant.                                      *)
LEMMA HostNextInv == HostIInv /\ [HostNext]_allVars => HostIInv'
  <1> SUFFICES ASSUME HostIInv, [HostNext]_allVars PROVE HostIInv'
    OBVIOUS
  <1>1. ASSUME NEW p \in Proc, ProcStep(p) PROVE HostIInv'
    <2>1. HostTypeOK' /\ StepsLeft' /\ InterfaceSound' /\ HeldByLink'
      BY <1>1, ProcStepType, InterfaceStep DEF HostIInv
    <2>2. UNCHANGED <<file, writer>>
      BY <1>1 DEF ProcStep, inputRest, ifRest, ReadChunk, ReadEnd, CheckInput, Off, Look,
         AttachProgram, Fails, Stop, Kill
    <2>3. FilePieces'
      BY <2>2 DEF HostIInv, FilePieces, Begun, PiecesToCome
    <2> QED
      BY <2>1, <2>3 DEF HostIInv
  <1>2. ASSUME NEW w \in Writer, Truncate(w) \/ WriteChunk(w) \/ WriterEnds(w)
        PROVE  HostIInv'
    <2>1. HostTypeOK' /\ UNCHANGED writerRest
      BY <1>2, WriterSteps DEF HostIInv
    <2>2. FilePieces'
      BY <1>2, FileStep DEF HostIInv
    <2>3. StepsLeft' /\ HeldByLink' /\ InterfaceSound'
      BY <2>1 DEF HostIInv, writerRest, hostVars, procVars, StepsLeft, HeldByLink,
         InterfaceSound, RunningFilters, NoLeftovers, UntouchedBefore, Mine
    <2> QED
      BY <2>1, <2>2, <2>3 DEF HostIInv
  <1>3. CASE UNCHANGED allVars
    <2>1. UNCHANGED <<kernel, sealed, detach, first, slot, pc, buf, step, file, writer>>
      BY <1>3 DEF allVars, hostVars, procVars
    <2>2. HostTypeOK' /\ StepsLeft' /\ HeldByLink' /\ FilePieces'
      BY <2>1 DEF HostIInv, HostTypeOK, StepsLeft, HeldByLink, FilePieces, Begun, PiecesToCome,
         Mine
    <2>3. InterfaceSound'
      BY <2>1 DEF HostIInv, InterfaceSound, RunningFilters, NoLeftovers, UntouchedBefore, Mine
    <2> QED
      BY <2>2, <2>3 DEF HostIInv
  <1> QED
    BY <1>1, <1>2, <1>3 DEF HostNext

(* The inductive invariant holds of detach_xdp, the attaching, every end of   *)
(* a process, and of init and load_file on one file.                          *)
THEOREM HostInvariant == HostSpec => []HostIInv
  BY HostInitInv, HostNextInv, PTL DEF HostSpec

(* On a kernel with links one instance runs at a time, and has the interface  *)
(* while no ip-blacklist-detach has begun; nobody leaves a program behind     *)
(* that the kernel takes off; and what was there at first stays until         *)
(* somebody has all its input (run, detach_xdp).                              *)
THEOREM InterfaceSafety == HostSpec => []InterfaceSound
  <1>1. HostIInv => InterfaceSound
    BY DEF HostIInv
  <1> QED
    BY <1>1, HostInvariant, PTL

(* When all who began to write /etc/.ip_blacklist have come to their end, it  *)
(* is a list without a hole, of pieces they published; if none began, it is   *)
(* the old list (run_init).                                                   *)
THEOREM FileSafety == HostSpec => []PublishedWhole
  <1>1. HostIInv => PublishedWhole
    BY AllWritten DEF HostIInv, PublishedWhole
  <1> QED
    BY <1>1, HostInvariant, PTL
=============================================================================
