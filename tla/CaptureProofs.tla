---------------------------- MODULE CaptureProofs ---------------------------
(***************************************************************************)
(* What TLAPS proves of Capture, for any set of frames, any number of      *)
(* interfaces and messages of any length: what the parsers read is what    *)
(* frames carry, nothing is lost between a thread and the last output, and *)
(* Capture implements EpochLog.                                            *)
(***************************************************************************)
EXTENDS Capture, TLAPS, WellFoundedInduction, FiniteSetTheorems,
        SequenceTheorems

-----------------------------------------------------------------------------
(* Induction over the natural numbers, for a set instead of a predicate, and *)
(* the sums that the model defines by recursion.                             *)

(* A set of natural numbers has a least element. *)
LEMMA LeastElement ==
  ASSUME NEW T, T \subseteq Nat, T # {}
  PROVE  \E x \in T : \A y \in T : x <= y
  <1> DEFINE R == OpToRel(<, Nat)
  <1>1. IsWellFoundedOn(R, Nat)
    BY NatLessThanWellFounded
  <1>2. \A x, y \in Nat : y < x => <<y, x>> \in R
    BY DEF OpToRel
  <1> HIDE DEF R
  <1>3. PICK x \in T : \A y \in T : <<y, x>> \notin R
    BY <1>1, WFMin
  <1>4. \A y \in T : x \in Nat /\ y \in Nat /\ ~(y < x)
    BY <1>2, <1>3
  <1>5. \A y \in T : x <= y
    BY <1>4
  <1> QED
    BY <1>5

(* Induction on the members of a set, without an operator as a parameter.   *)
LEMMA SetInduction ==
  ASSUME NEW T, 0 \in T, \A n \in Nat : n \in T => n + 1 \in T
  PROVE  Nat \subseteq T
  <1> SUFFICES ASSUME Nat \ T # {} PROVE FALSE
    OBVIOUS
  <1>1. PICK x \in Nat \ T : \A y \in Nat \ T : x <= y
    BY LeastElement
  <1>2. x # 0 /\ x - 1 \in Nat /\ x - 1 \in T
    BY <1>1
  <1> QED
    BY <1>1, <1>2

(* f has the sums of the first terms of c, up to the n-th. *)
Sums(f, c, n) ==
    /\ f \in [0 .. n -> Nat] /\ f[0] = 0
    /\ \A i \in 1 .. n : f[i] = f[i - 1] + c[i]

(* A recursive definition of sums defines a function. *)
LEMMA SumsExist ==
  ASSUME NEW c, NEW n \in Nat, \A i \in 1 .. n : c[i] \in Nat
  PROVE  \E f : Sums(f, c, n)
  <1> DEFINE T == {m \in Nat : m <= n => \E f : Sums(f, c, m)}
  <1>1. 0 \in T
    <2>1. Sums([i \in 0 .. 0 |-> 0], c, 0)
      BY DEF Sums
    <2> QED
      BY <2>1
  <1>2. ASSUME NEW m \in Nat, m \in T PROVE m + 1 \in T
    <2> SUFFICES ASSUME m + 1 <= n PROVE \E f : Sums(f, c, m + 1)
      OBVIOUS
    <2>1. PICK f : Sums(f, c, m)
      BY <1>2
    <2>2. /\ f \in [0 .. m -> Nat] /\ f[0] = 0 /\ c[m + 1] \in Nat
          /\ \A i \in 1 .. m : f[i] = f[i - 1] + c[i]
      BY <2>1 DEF Sums
    <2> DEFINE g == [i \in 0 .. m + 1 |-> IF i = m + 1 THEN f[m] + c[m + 1] ELSE f[i]]
    <2>3. g \in [0 .. m + 1 -> Nat] /\ g[0] = 0
      BY <2>2
    <2>4. ASSUME NEW i \in 1 .. m + 1 PROVE g[i] = g[i - 1] + c[i]
      <3>1. CASE i = m + 1
        BY <2>2, <3>1
      <3>2. CASE i \in 1 .. m
        BY <2>2, <3>2
      <3> QED
        BY <3>1, <3>2
    <2> HIDE DEF g
    <2>5. Sums(g, c, m + 1)
      BY <2>3, <2>4 DEF Sums
    <2> QED
      BY <2>5
  <1>3. Nat \subseteq T
    <2> HIDE DEF T
    <2> QED
      BY <1>1, <1>2, SetInduction
  <1>4. n \in T
    BY <1>3
  <1> QED
    BY <1>4

(* Sums of natural numbers do not decrease. *)
LEMMA SumsGrow ==
  ASSUME NEW c, NEW n \in Nat, \A i \in 1 .. n : c[i] \in Nat,
         NEW f, Sums(f, c, n), NEW i \in 0 .. n, NEW j \in 0 .. n, i <= j
  PROVE  f[i] <= f[j]
  <1> DEFINE T == {d \in Nat : i + d <= n => f[i] <= f[i + d]}
  <1>0. /\ f \in [0 .. n -> Nat]
        /\ \A k \in 1 .. n : f[k] = f[k - 1] + c[k]
    BY DEF Sums
  <1>1. 0 \in T
    BY <1>0
  <1>2. ASSUME NEW d \in Nat, d \in T PROVE d + 1 \in T
    <2> SUFFICES ASSUME i + (d + 1) <= n PROVE f[i] <= f[i + (d + 1)]
      OBVIOUS
    <2>1. f[i] <= f[i + d]
      BY <1>2
    <2>2. i + (d + 1) \in 1 .. n /\ i + (d + 1) - 1 = i + d /\ i + d \in 0 .. n
      OBVIOUS
    <2>3. f[i + (d + 1)] = f[i + d] + c[i + (d + 1)]
      BY <1>0, <2>2
    <2>4. f[i] \in Nat /\ f[i + d] \in Nat /\ c[i + (d + 1)] \in Nat
      BY <1>0, <2>2
    <2> QED
      BY <2>1, <2>3, <2>4
  <1>3. Nat \subseteq T
    <2> HIDE DEF T
    <2> QED
      BY <1>1, <1>2, SetInduction
  <1>4. j - i \in T /\ i + (j - i) = j
    BY <1>3
  <1> QED
    BY <1>4

-----------------------------------------------------------------------------
(* The parser of ClientHello.                                                *)

(* Where extensions end: the sums of what they take. *)
LEMMA EndsSum ==
  ASSUME NEW exts \in Seq(Extension)
  PROVE  LET c == [i \in 1 .. Len(exts) |-> 4 + exts[i].len]
         IN  /\ Sums(Ends(exts), c, Len(exts))
             /\ \A i \in 1 .. Len(exts) : c[i] \in Nat
             /\ WireSize(exts) = Ends(exts)[Len(exts)]
  <1> DEFINE c == [i \in 1 .. Len(exts) |-> 4 + exts[i].len]
             E(g) == [i \in 0 .. Len(exts) |->
                         IF i = 0 THEN 0 ELSE g[i - 1] + 4 + exts[i].len]
  <1>0. Len(exts) \in Nat
    OBVIOUS
  <1>1. ASSUME NEW i \in 1 .. Len(exts)
        PROVE  exts[i].len \in Nat /\ c[i] = 4 + exts[i].len /\ c[i] \in Nat
    <2>1. exts[i] \in Extension
      BY ElementOfSeq
    <2>2. exts[i].len \in Nat
      BY <2>1 DEF Extension
    <2> QED
      BY <2>2
  <1> HIDE DEF c
  <1>2. PICK f : Sums(f, c, Len(exts))
    BY <1>0, <1>1, SumsExist
  <1>3. f = E(f)
    <2>1. f \in [0 .. Len(exts) -> Nat] /\ f[0] = 0
      BY <1>2 DEF Sums
    <2>2. ASSUME NEW i \in 1 .. Len(exts) PROVE f[i] = f[i - 1] + 4 + exts[i].len
      <3>1. f[i] = f[i - 1] + c[i] /\ f[i - 1] \in Nat
        BY <1>2 DEF Sums
      <3>2. f[i] = f[i - 1] + (4 + exts[i].len)
        BY <1>1, <3>1
      <3>3. exts[i].len \in Nat
        BY <1>1
      <3> QED
        BY <3>1, <3>2, <3>3
    <2>3. \A i \in 0 .. Len(exts) : f[i] = E(f)[i]
      BY <2>1, <2>2
    <2> QED
      BY <2>1, <2>3
  <1>4. Ends(exts) = CHOOSE g : g = E(g)
    BY DEF Ends
  <1>5. Ends(exts) = E(Ends(exts))
    BY <1>3, <1>4
  <1>6. Sums(Ends(exts), c, Len(exts))
    <2> DEFINE g == Ends(exts)
    <2>1. g[0] = 0 /\ \A i \in 1 .. Len(exts) : g[i] = g[i - 1] + 4 + exts[i].len
      BY <1>0, <1>5
    <2> DEFINE T == {m \in Nat : m <= Len(exts) => g[m] \in Nat}
    <2>2. 0 \in T
      BY <2>1
    <2>3. ASSUME NEW m \in Nat, m \in T PROVE m + 1 \in T
      <3> SUFFICES ASSUME m + 1 <= Len(exts) PROVE g[m + 1] \in Nat
        OBVIOUS
      <3>1. g[m] \in Nat
        BY <1>0, <2>3
      <3>2. m + 1 \in 1 .. Len(exts) /\ (m + 1) - 1 = m
        BY <1>0
      <3>3. g[m + 1] = g[(m + 1) - 1] + 4 + exts[m + 1].len
        BY <2>1, <3>2
      <3>4. exts[m + 1].len \in Nat
        BY <1>1, <3>2
      <3> QED
        BY <3>1, <3>2, <3>3, <3>4
    <2>4. Nat \subseteq T
      <3> HIDE DEF T
      <3> QED
        BY <2>2, <2>3, SetInduction
    <2>5. g \in [0 .. Len(exts) -> Nat]
      <3>1. \A m \in 0 .. Len(exts) : g[m] \in Nat
        BY <1>0, <2>4
      <3>2. g = [m \in 0 .. Len(exts) |-> g[m]]
        BY <1>5
      <3> HIDE DEF g
      <3> QED
        BY <3>1, <3>2
    <2>6. ASSUME NEW i \in 1 .. Len(exts) PROVE g[i] = g[i - 1] + c[i]
      <3>1. g[i] = g[i - 1] + 4 + exts[i].len
        BY <2>1
      <3>2. g[i - 1] \in Nat
        BY <1>0, <2>5
      <3>3. exts[i].len \in Nat /\ c[i] = 4 + exts[i].len
        BY <1>1
      <3>4. \A a, b \in Nat : a + 4 + b = a + (4 + b)
        OBVIOUS
      <3> HIDE DEF g
      <3> QED
        BY <3>1, <3>2, <3>3, <3>4
    <2> QED
      BY <2>1, <2>5, <2>6 DEF Sums
  <1>7. WireSize(exts) = Ends(exts)[Len(exts)]
    BY DEF WireSize, Ends
  <1> QED
    BY <1>1, <1>6, <1>7 DEF c

(* At most one extension of a hello is looked at. *)
Found(h) == {i \in DOMAIN h.exts :
                 /\ Ends(h.exts)[i] <= h.declared
                 /\ h.exts[i].sni
                 /\ \A j \in 1 .. i - 1 : ~h.exts[j].sni}

(* At most one extension of a hello is taken for its server name.           *)
LEMMA FoundOne ==
  ASSUME NEW h \in Hello
  PROVE  Found(h) = {} \/ \E i \in DOMAIN h.exts : Found(h) = {i}
  <1>1. h.exts \in Seq(Extension)
    BY DEF Hello
  <1>2. ASSUME NEW i \in Found(h), NEW j \in Found(h) PROVE i = j
    <2>1. /\ i \in 1 .. Len(h.exts) /\ h.exts[i].sni /\ (\A k \in 1 .. i - 1 : ~h.exts[k].sni)
          /\ j \in 1 .. Len(h.exts) /\ h.exts[j].sni /\ (\A k \in 1 .. j - 1 : ~h.exts[k].sni)
      BY <1>1, <1>2 DEF Found
    <2>2. i < j => i \in 1 .. j - 1
      BY <1>1, <2>1
    <2>3. j < i => j \in 1 .. i - 1
      BY <1>1, <2>1
    <2> QED
      BY <1>1, <2>1, <2>2, <2>3
  <1> QED
    BY <1>2 DEF Found

(* So a hello has at most one outcome. *)
LEMMA SniOutcome ==
  ASSUME NEW h \in Hello
  PROVE  ParseTlsSni(h) = {} \/ \E n \in Host \cup {Panic} : ParseTlsSni(h) = {n}
  <1> DEFINE P(i) == ParseSniExtension(h.exts[i])
  <1>1. ASSUME NEW i \in DOMAIN h.exts
        PROVE  P(i) = {} \/ \E n \in Host \cup {Panic} : P(i) = {n}
    <2>1. h.exts[i] \in Extension
      BY ElementOfSeq DEF Hello
    <2>2. h.exts[i].name \in Host
      BY <2>1 DEF Extension
    <2> QED
      BY <2>2 DEF ParseSniExtension
  <1>2. \/ ParseTlsSni(h) = {}
        \/ ParseTlsSni(h) = UNION {P(i) : i \in Found(h)}
    BY DEF ParseTlsSni, Found
  <1> HIDE DEF P
  <1>3. CASE Found(h) = {}
    BY <1>2, <1>3
  <1>4. ASSUME NEW i \in DOMAIN h.exts, Found(h) = {i}
        PROVE  ParseTlsSni(h) = {} \/ \E n \in Host \cup {Panic} : ParseTlsSni(h) = {n}
    <2>1. UNION {P(j) : j \in Found(h)} = P(i)
      BY <1>4
    <2> QED
      BY <1>1, <1>2, <2>1
  <1> QED
    BY <1>3, <1>4, FoundOne

(* parse_tls_sni finds the host of every well-formed hello, however many      *)
(* extensions precede its name.                                               *)
THEOREM HostFound ==
  ASSUME NEW h \in Hello, NEW n \in Named(h)
  PROVE  ParseTlsSni(h) = {n}
  <1>0. h.exts \in Seq(Extension) /\ Len(h.exts) \in Nat /\ DOMAIN h.exts = 1 .. Len(h.exts)
    BY DEF Hello
  <1>1. PICK i \in 1 .. Len(h.exts) : Names(h, i) /\ n = h.exts[i].name
    BY <1>0 DEF Named
  <1>2. h.exts[i] \in Extension
    BY <1>0, ElementOfSeq
  <1> DEFINE e == h.exts[i]
  <1>3. ParseSniExtension(e) = {n}
    <2>1. /\ e.len \in Nat /\ e.list \in Nat /\ e.size \in Nat /\ e.host
          /\ e.size >= 1 /\ e.size <= MaxSni /\ e.list = e.size + 3 /\ e.len = e.list + 2
          /\ e.name = n
      BY <1>1, <1>2, ClientHelloAssumption DEF Names, Extension
    <2> HIDE DEF e
    <2> QED
      BY <2>1, ClientHelloAssumption DEF ParseSniExtension
  <1>4. Ends(h.exts)[i] <= h.declared
    <2> DEFINE c == [j \in 1 .. Len(h.exts) |-> 4 + h.exts[j].len]
    <2>1. /\ Sums(Ends(h.exts), c, Len(h.exts))
          /\ \A j \in 1 .. Len(h.exts) : c[j] \in Nat
          /\ WireSize(h.exts) = Ends(h.exts)[Len(h.exts)]
      BY <1>0, EndsSum
    <2> HIDE DEF c
    <2>2. /\ i \in 0 .. Len(h.exts) /\ Len(h.exts) \in 0 .. Len(h.exts)
          /\ i <= Len(h.exts)
      BY <1>0
    <2>3. Ends(h.exts)[i] <= Ends(h.exts)[Len(h.exts)]
      BY <1>0, <2>1, <2>2, SumsGrow
    <2> QED
      BY <1>1, <2>1, <2>3 DEF Names
  <1>5. i \in Found(h)
    <2>1. \A j \in 1 .. i - 1 : j \in DOMAIN h.exts \ {i}
      BY <1>0
    <2> QED
      BY <1>0, <1>1, <1>4, <2>1 DEF Found, Names
  <1>6. Found(h) = {i}
    BY <1>5, FoundOne
  <1>7. h.hello /\ h.declared <= h.room
    <2>1. h.declared \in Nat /\ h.room \in Nat
      BY DEF Hello
    <2> QED
      BY <1>1, <2>1 DEF Names
  <1>8. ParseTlsSni(h) = UNION {ParseSniExtension(h.exts[j]) : j \in Found(h)}
    BY <1>7 DEF ParseTlsSni, Found
  <1> QED
    BY <1>3, <1>6, <1>8

-----------------------------------------------------------------------------
(* The parser of DnsQuery.                                                   *)

(* At most one record comes of a message. *)
LEMMA QueryOutcome ==
  ASSUME NEW m \in Message
  PROVE  ParseDnsQuery(m) = {} \/ \E q : ParseDnsQuery(m) = {q}
  <1>1. ParseQname(m.name) = {} \/ \E l : ParseQname(m.name) = {l}
    BY DEF ParseQname
  <1> QED
    BY <1>1 DEF ParseDnsQuery

(* parse_dns_query reads what a message asks, and nothing else, as long as    *)
(* the name is shorter than the turns of its loop.                            *)
THEOREM QueryRead ==
  ASSUME NEW m \in Message, NEW q, Len(q.domain) < MaxLabels
  PROVE  q \in ParseDnsQuery(m) <=> q \in Question(m)
  <1> DEFINE name == m.name
             labels == SubSeq(name, 1, IF Len(name) < MaxLabels THEN Len(name)
                                       ELSE MaxLabels)
  <1>0. name \in Seq(Label \cup {Pointer}) /\ Len(name) \in Nat /\ MaxLabels \in Nat \ {0}
    BY DnsQueryAssumption DEF Message
  <1>1. CASE Len(name) < MaxLabels
    <2>1. labels = name
      BY <1>0, <1>1, SubSeqFull
    <2>2. name \in Seq(Label) <=> ~\E i \in DOMAIN name : name[i] = Pointer
      <3>1. Pointer \notin Label
        BY DnsQueryAssumption
      <3>2. \A i \in 1 .. Len(name) : name[i] \in Label \cup {Pointer}
        BY <1>0, ElementOfSeq
      <3>3. DOMAIN name = 1 .. Len(name)
        BY <1>0
      <3>4. ASSUME \A i \in 1 .. Len(name) : name[i] # Pointer PROVE name \in Seq(Label)
        <4>1. name \in [1 .. Len(name) -> Label]
          BY <1>0, <3>2, <3>3, <3>4
        <4> QED
          BY <1>0, <4>1
      <3>5. ASSUME name \in Seq(Label), NEW i \in 1 .. Len(name) PROVE name[i] # Pointer
        BY <3>1, <3>5, ElementOfSeq
      <3> QED
        BY <3>3, <3>4, <3>5
    <2>3. ParseQname(name) = IF name \in Seq(Label) \ {<<>>} THEN {name} ELSE {}
      <3>1. ParseQname(name) = IF labels = <<>> \/ \E i \in DOMAIN labels : labels[i] = Pointer
                               THEN {} ELSE {labels}
        BY DEF ParseQname
      <3> HIDE DEF name, labels
      <3> QED
        BY <2>1, <2>2, <3>1
    <2>4. ParseDnsQuery(m) = IF m.response \/ m.questions = 0 \/ ~m.complete THEN {}
                             ELSE {[domain |-> l, type |-> m.type] : l \in ParseQname(name)}
      BY <1>1, <2>3 DEF ParseDnsQuery
    <2> HIDE DEF name
    <2> QED
      BY <2>3, <2>4 DEF Question, name
  <1>2. CASE ~(Len(name) < MaxLabels)
    <2>1. q \notin Question(m)
      BY <1>2 DEF Question
    <2>2. Len(labels) = MaxLabels
      BY <1>0, <1>2
    <2>3. \A l \in ParseQname(name) : Len(l) = MaxLabels
      BY <2>2 DEF ParseQname
    <2>4. \A l \in ParseQname(name) : ~(Len(l) < MaxLabels)
      BY <1>0, <2>3
    <2>5. q \in ParseDnsQuery(m) => \E l \in ParseQname(name) : q.domain = l
      BY DEF ParseDnsQuery
    <2> QED
      BY <2>1, <2>4, <2>5
  <1> QED
    BY <1>1, <1>2

-----------------------------------------------------------------------------
(* Frames.                                                                   *)

(* A frame has one record, or ends the thread, or has none. *)
LEMMA FrameOne ==
  ASSUME NEW f \in Frames, Panic \notin Parse(f)
  PROVE  Parse(f) = {} \/ \E r \in Record : Parse(f) = {r}
  <1>0. f \in Frame /\ f.dns \in Message /\ f.tls \in Hello
    BY CaptureAssumption DEF Frame
  <1>1. CASE sni
    <2>1. TcpPayload(f) = {} \/ \E n \in Host \cup {Panic} : TcpPayload(f) = {n}
      BY <1>0, SniOutcome DEF TcpPayload
    <2>2. \A n \in Host : SniRecord(n) \in Record
      BY DEF Record
    <2> QED
      BY <1>1, <2>1, <2>2 DEF Parse
  <1>2. CASE ~sni
    <2>1. Parse(f) = {} \/ Parse(f) = ParseDnsQuery(f.dns)
      BY <1>2 DEF Parse, UdpPayload
    <2>2. ParseDnsQuery(f.dns) \subseteq Record
      BY DEF Record
    <2> QED
      BY <1>0, <2>1, <2>2, QueryOutcome
  <1> QED
    BY <1>1, <1>2

(* What the threads take from a frame is what it carries. *)
LEMMA FrameRead ==
  ASSUME NEW f \in Frames, NEW r, Len(r.domain) < MaxLabels
  PROVE  /\ r \in Carries(f) => r \in Parse(f) /\ Panic \notin Parse(f)
         /\ (~sni \/ Strict) /\ r \in Parse(f) /\ Panic \notin Parse(f) => r \in Carries(f)
  <1>0. f \in Frame /\ f.dns \in Message /\ f.tls \in Hello
    BY CaptureAssumption DEF Frame
  <1>1. CASE sni
    <2>1. ASSUME NEW n \in Host PROVE SniRecord(n) # Panic
      <3>1. <<n>> \in Seq(Host)
        OBVIOUS
      <3>2. SniRecord(n) \in [domain : Seq(Host), type : {Sni}]
        BY <3>1 DEF SniRecord
      <3> QED
        BY <3>2, CaptureAssumption
    <2>2. \A n \in Named(f.tls) : n \in Host
      <3>1. ASSUME NEW i \in DOMAIN f.tls.exts PROVE f.tls.exts[i].name \in Host
        <4>1. f.tls.exts \in Seq(Extension)
          BY <1>0 DEF Hello
        <4>2. f.tls.exts[i] \in Extension
          BY <4>1, ElementOfSeq
        <4> QED
          BY <4>2 DEF Extension
      <3> QED
        BY <3>1 DEF Named
    <2>3. ASSUME r \in Carries(f) PROVE r \in Parse(f) /\ Panic \notin Parse(f)
      <3>1. /\ f.tags <= 1 /\ f.intact /\ f.l4Fits /\ f.net = "v4" /\ f.own /\ f.l4 = "tcp"
            /\ r \in {SniRecord(n) : n \in Named(f.tls)}
        BY <1>1, <2>3 DEF Carries
      <3>2. PICK n \in Named(f.tls) : r = SniRecord(n)
        BY <3>1
      <3>3. ParseTlsSni(f.tls) = {n}
        BY <1>0, HostFound
      <3>4. ~(f.tags > 1)
        BY <1>0, <3>1 DEF Frame
      <3>5. TcpPayload(f) = {n}
        BY <3>1, <3>3, <3>4 DEF TcpPayload
      <3>6. n \in Host /\ n # Panic /\ SniRecord(n) # Panic
        BY <2>1, <2>2, ClientHelloAssumption
      <3>7. Parse(f) = {SniRecord(n)}
        BY <1>1, <3>5, <3>6 DEF Parse
      <3> QED
        BY <3>2, <3>6, <3>7
    <2>4. ASSUME Strict, r \in Parse(f), Panic \notin Parse(f) PROVE r \in Carries(f)
      <3>1. PICK n \in TcpPayload(f) : n # Panic /\ r = SniRecord(n)
        BY <1>1, <2>4 DEF Parse
      <3>2. /\ ~(f.tags > 1) /\ f.net = "v4" /\ f.l4 = "tcp" /\ f.intact /\ f.l4Fits /\ f.own
            /\ n \in ParseTlsSni(f.tls)
        BY <3>1 DEF TcpPayload
      <3>3. n \in Named(f.tls)
        BY <2>4, <3>1, <3>2 DEF Strict
      <3>4. f.tags <= 1
        BY <1>0, <3>2 DEF Frame
      <3> QED
        BY <1>1, <3>1, <3>2, <3>3, <3>4 DEF Carries
    <2> QED
      BY <1>1, <2>3, <2>4
  <1>2. CASE ~sni
    <2>1. r \in ParseDnsQuery(f.dns) <=> r \in Question(f.dns)
      BY <1>0, QueryRead
    <2>2. ASSUME r \in Carries(f) PROVE r \in Parse(f) /\ Panic \notin Parse(f)
      <3>1. /\ f.tags <= 1 /\ f.intact /\ f.l4Fits /\ f.net \in {"v4", "v6"}
            /\ f.l4 = "udp53" /\ r \in Question(f.dns)
        BY <1>2, <2>2 DEF Carries
      <3>2. ~(f.tags > 1)
        BY <1>0, <3>1 DEF Frame
      <3>3. Parse(f) = ParseDnsQuery(f.dns)
        BY <1>2, <3>1, <3>2 DEF Parse, UdpPayload
      <3>4. Parse(f) = {r}
        BY <1>0, <2>1, <3>1, <3>3, QueryOutcome
      <3>5. r \in [domain : Seq(Label), type : QType]
        BY <1>0, <3>1 DEF Question, Message
      <3> QED
        BY <3>4, <3>5, CaptureAssumption
    <2>3. ASSUME r \in Parse(f), Panic \notin Parse(f) PROVE r \in Carries(f)
      <3>1. /\ ~(f.tags > 1) /\ f.net # "arp" /\ f.l4 = "udp53" /\ f.l4Fits
            /\ f.intact
            /\ r \in ParseDnsQuery(f.dns)
        BY <1>2, <2>3 DEF Parse, UdpPayload
      <3>2. f.tags <= 1 /\ f.net \in {"v4", "v6"}
        BY <1>0, <3>1 DEF Frame
      <3> QED
        BY <1>2, <2>1, <3>1, <3>2 DEF Carries
    <2> QED
      BY <2>2, <2>3
  <1> QED
    BY <1>1, <1>2

-----------------------------------------------------------------------------
(* Records on their way from a frame to the map.                             *)

(* The number of threads that hold r, when one of them goes on. *)
LEMMA HoldersChange ==
  ASSUME TypeOK, NEW i \in Iface, NEW to, NEW R, Goes(i, to, R), NEW r
  PROVE  /\ Cardinality(Holders(r)) \in Nat /\ Cardinality(Holders(r)') \in Nat
         /\ Cardinality(Holders(r)') + (IF r \in thread[i].rec THEN 1 ELSE 0)
            = Cardinality(Holders(r)) + (IF r \in R THEN 1 ELSE 0)
  <1> DEFINE H == Holders(r) \ {i}
  <1>0. /\ IsFiniteSet(Holders(r)) /\ IsFiniteSet(H)
        /\ Cardinality(Holders(r)) \in Nat /\ Cardinality(H) \in Nat
    <2>1. IsFiniteSet(Holders(r)) /\ IsFiniteSet(H)
      BY CaptureAssumption, FS_Subset DEF Holders
    <2> QED
      BY <2>1, FS_CardinalityType
  <1>1. /\ thread'[i].rec = R
        /\ \A j \in Iface \ {i} : thread'[j] = thread[j]
    BY DEF Goes, TypeOK
  <1>2. Holders(r) = IF r \in thread[i].rec THEN H \cup {i} ELSE H
    BY DEF Holders
  <1>3. Holders(r)' = IF r \in R THEN H \cup {i} ELSE H
    BY <1>1 DEF Holders
  <1>4. Cardinality(H \cup {i}) = Cardinality(H) + 1
    BY <1>0, FS_AddElement
  <1> HIDE DEF H
  <1> QED
    BY <1>0, <1>2, <1>3, <1>4

(* What the threads do to what the task has. *)
LEMMA ThreadFrame ==
  ASSUME NEW i \in Iface, ThreadStep(i)
  PROVE  UNCHANGED taskVars /\ (agg' = agg \/ Count(i)) /\ thread[i].pc # "ended"
  BY DEF ThreadStep, OpenChannel, CheckStop, Timeout, Lock, Count, ReadFrame, At

(* Where a step takes a thread, and which record it then carries.           *)
LEMMA ThreadGoes ==
  ASSUME TypeOK, OneRecord, NEW i \in Iface, ThreadStep(i)
  PROVE  \E to, R : /\ Goes(i, to, R)
                    /\ to \in {"check", "next", "lock", "count", "ended"}
                    /\ \/ R = {}
                       \/ to \in {"lock", "count"} /\ \E r \in Record : R = {r}
  <1>0. thread[i].pc \in {"lock", "count"} \/ thread[i].rec = {}
    BY DEF OneRecord
  <1>1. CASE OpenChannel(i) \/ CheckStop(i) \/ Timeout(i) \/ Count(i)
    BY <1>1 DEF OpenChannel, CheckStop, Timeout, Count
  <1>2. CASE Lock(i)
    BY <1>2 DEF Lock, OneRecord
  <1>3. ASSUME NEW f \in Frames, ReadFrame(i, f)
        PROVE  Goes(i, "check", {}) \/ \E r \in Record : Goes(i, "lock", {r})
    BY <1>3, FrameOne DEF ReadFrame
  <1> QED
    BY <1>1, <1>2, <1>3 DEF ThreadStep

(* A thread's step and the mutex.                                           *)
LEMMA ThreadInv ==
  ASSUME TypeOK, OneRecord, LockHeld, NEW i \in Iface, ThreadStep(i)
  PROVE  TypeOK' /\ OneRecord' /\ LockHeld'
  <1> DEFINE Pcs == {"unborn", "open", "check", "next", "lock", "count", "ended"}
             Threads == [pc : Pcs, rec : SUBSET Record]
  <1>0. /\ thread \in [Iface -> Threads] /\ frames \in Nat
        /\ agg \in Counts /\ carried \in Counts /\ UNCHANGED taskVars
    BY ThreadFrame DEF TypeOK
  <1>1. PICK to, R : /\ Goes(i, to, R)
                     /\ to \in {"check", "next", "lock", "count", "ended"}
                     /\ \/ R = {}
                        \/ to \in {"lock", "count"} /\ \E r \in Record : R = {r}
    BY ThreadGoes
  <1>2. thread' = [thread EXCEPT ![i] = [pc |-> to, rec |-> R]]
    BY <1>1 DEF Goes
  <1>3. thread' \in [Iface -> Threads] /\ OneRecord'
    <2>1. [pc |-> to, rec |-> R] \in Threads
      BY <1>1
    <2>2. thread' \in [Iface -> Threads]
      BY <1>0, <1>2, <2>1
    <2>3. thread'[i] = [pc |-> to, rec |-> R] /\ \A j \in Iface \ {i} : thread'[j] = thread[j]
      BY <1>0, <1>2
    <2>4. OneRecord'
      BY <1>1, <2>3 DEF OneRecord
    <2> QED
      BY <2>2, <2>4
  <1>4. agg' \in Counts /\ carried' \in Counts /\ frames' \in Nat
    <2>1. CASE Count(i)
      BY <1>0, <2>1 DEF Count, Counts
    <2>2. ASSUME NEW f \in Frames, ReadFrame(i, f) PROVE agg' \in Counts /\ carried' \in Counts /\ frames' \in Nat
      BY <1>0, <2>2 DEF ReadFrame, Counts
    <2>3. CASE OpenChannel(i) \/ CheckStop(i) \/ Timeout(i) \/ Lock(i)
      BY <1>0, <2>3 DEF OpenChannel, CheckStop, Timeout, Lock
    <2> QED
      BY <2>1, <2>2, <2>3 DEF ThreadStep
  <1>5. lock' \in Iface \cup {Task, Free} /\ LockHeld'
    <2>0. Free \notin Iface /\ Task \notin Iface /\ Task # Free /\ upc' = upc
      BY <1>0, CaptureAssumption DEF taskVars
    <2>a. \A j \in Iface \ {i} : thread'[j] = thread[j]
      BY <1>0, <1>2
    <2>1. CASE Lock(i)
      <3>1. lock = Free /\ lock' = i /\ thread'[i].pc = "count"
        BY <1>0, <2>1 DEF Lock, Goes
      <3> QED
        BY <2>0, <2>a, <3>1 DEF LockHeld, At, TypeOK
    <2>2. CASE Count(i)
      <3>1. lock = i /\ lock' = Free /\ thread'[i].pc = "check"
        BY <1>0, <2>2 DEF Count, Goes, LockHeld
      <3> QED
        BY <2>0, <2>a, <3>1 DEF LockHeld, At, TypeOK
    <2>3. CASE ~Lock(i) /\ ~Count(i)
      <3>1. lock' = lock /\ thread[i].pc # "count" /\ thread'[i].pc # "count"
        <4>1. ASSUME NEW f \in Frames, ReadFrame(i, f)
              PROVE  lock' = lock /\ thread[i].pc # "count" /\ thread'[i].pc # "count"
          BY <1>0, <4>1 DEF ReadFrame, At, Goes
        <4>2. CASE OpenChannel(i) \/ CheckStop(i) \/ Timeout(i)
          BY <1>0, <4>2 DEF OpenChannel, CheckStop, Timeout, At, Goes
        <4> QED
          BY <2>3, <4>1, <4>2 DEF ThreadStep
      <3> QED
        BY <2>0, <2>a, <3>1 DEF LockHeld, At, TypeOK
    <2> QED
      BY <2>1, <2>2, <2>3
  <1>6. TypeOK'
    BY <1>0, <1>3, <1>4, <1>5 DEF TypeOK, taskVars
  <1> QED
    BY <1>3, <1>5, <1>6

(* A step of a thread keeps count of every frame. *)
LEMMA ThreadAccounts ==
  ASSUME IInv, Running, NEW i \in Iface, ThreadStep(i)
  PROVE  FramesAccounted'
  <1> SUFFICES ASSUME NEW r \in Record, Len(r.domain) < MaxLabels, Running
               PROVE  Kept(Accounted(r)', carried'[r])
    BY ThreadFrame DEF FramesAccounted, Kept, Running, taskVars
  <1> DEFINE H == Cardinality(Holders(r))
             Out == IF sni THEN 0 ELSE taken[r] + shown[r]
  <1>0. /\ agg[r] \in Nat /\ carried[r] \in Nat /\ taken[r] \in Nat /\ shown[r] \in Nat
        /\ sni' = sni /\ taken' = taken /\ shown' = shown
        /\ TypeOK /\ OneRecord
    BY ThreadFrame DEF IInv, TypeOK, Counts, taskVars
  <1>1. Out \in Nat /\ Out' = Out
    BY <1>0
  <1>2. Accounted(r) = H + agg[r] + Out /\ Accounted(r)' = H' + agg'[r] + Out'
    BY DEF Accounted
  <1>3. Kept(H + agg[r] + Out, carried[r])
    BY <1>2 DEF IInv, FramesAccounted, Kept, Running
  <1>4. ASSUME NEW to, NEW R, Goes(i, to, R)
        PROVE  /\ H \in Nat /\ H' \in Nat
               /\ H' + (IF r \in thread[i].rec THEN 1 ELSE 0) = H + (IF r \in R THEN 1 ELSE 0)
    BY <1>0, <1>4, HoldersChange
  <1> HIDE DEF H, Out
  <1>5. CASE OpenChannel(i) \/ CheckStop(i) \/ Timeout(i) \/ Lock(i)
    <2>1. agg' = agg /\ carried' = carried
      BY <1>5 DEF OpenChannel, CheckStop, Timeout, Lock
    <2>2. H' = H /\ H \in Nat
      <3>1. PICK to : Goes(i, to, thread[i].rec)
        <4>1. CASE Lock(i)
          BY <4>1 DEF Lock
        <4>2. CASE OpenChannel(i) \/ CheckStop(i) \/ Timeout(i)
          <5>1. thread[i].rec = {}
            BY <1>0, <4>2 DEF OneRecord, OpenChannel, CheckStop, Timeout, At
          <5> QED
            BY <4>2, <5>1 DEF OpenChannel, CheckStop, Timeout
        <4> QED
          BY <1>5, <4>1, <4>2
      <3> QED
        BY <1>4, <3>1
    <2> QED
      BY <1>0, <1>1, <1>2, <1>3, <2>1, <2>2
  <1>6. CASE Count(i)
    <2>1. /\ carried' = carried /\ Goes(i, "check", {})
          /\ agg'[r] = agg[r] + IF r \in thread[i].rec THEN 1 ELSE 0
      BY <1>6 DEF Count
    <2>2. /\ H \in Nat /\ H' \in Nat
          /\ H' + (IF r \in thread[i].rec THEN 1 ELSE 0) = H
      BY <1>4, <2>1
    <2>3. H' + agg'[r] = H + agg[r]
      <3>0. agg[r] \in Nat /\ H \in Nat /\ H' \in Nat
        BY <1>0, <2>2
      <3>1. CASE r \in thread[i].rec
        <4>1. H' + 1 = H /\ agg'[r] = agg[r] + 1
          BY <2>1, <2>2, <3>1
        <4> QED
          BY <3>0, <4>1
      <3>2. CASE r \notin thread[i].rec
        <4>1. H' + 0 = H /\ agg'[r] = agg[r] + 0
          BY <2>1, <2>2, <3>2
        <4>2. \A n, m \in Nat : n + 0 = m => n = m
          OBVIOUS
        <4>3. H' = H
          BY <3>0, <4>1, <4>2, Zenon
        <4>4. agg'[r] = agg[r]
          BY <3>0, <4>1
        <4> QED
          BY <4>3, <4>4
      <3> QED
        BY <3>1, <3>2
    <2> QED
      BY <1>0, <1>1, <1>2, <1>3, <2>1, <2>3
  <1>7. ASSUME NEW f \in Frames, ReadFrame(i, f)
        PROVE  Kept(Accounted(r)', carried'[r])
    <2>1. /\ agg' = agg
          /\ carried'[r] = carried[r] + IF r \in Carries(f) THEN 1 ELSE 0
          /\ thread[i].rec = {}
      BY <1>0, <1>7 DEF ReadFrame, OneRecord, At
    <2>2. PICK to, R : /\ Goes(i, to, R)
                       /\ r \in R <=> r \in Parse(f) /\ Panic \notin Parse(f)
      BY <1>7 DEF ReadFrame
    <2>3. H \in Nat /\ H' = H + IF r \in R THEN 1 ELSE 0
      <3> HIDE DEF H
      <3> QED
        BY <1>4, <2>1, <2>2
    <2>4. /\ r \in Carries(f) => r \in R
          /\ (~sni \/ Strict) /\ r \in R => r \in Carries(f)
      BY <2>2, FrameRead
    <2>5. CASE r \in R
      BY <1>0, <1>1, <1>2, <1>3, <2>1, <2>3, <2>4, <2>5 DEF Kept
    <2>6. CASE r \notin R
      BY <1>0, <1>1, <1>2, <1>3, <2>1, <2>3, <2>4, <2>6 DEF Kept
    <2> QED
      BY <2>5, <2>6
  <1> QED
    BY <1>0, <1>5, <1>6, <1>7 DEF ThreadStep

(* A thread's step preserves the invariant.                                 *)
LEMMA ThreadStepInv ==
  ASSUME IInv, Running, NEW i \in Iface, ThreadStep(i)
  PROVE  IInv'
  <1>1. TypeOK' /\ OneRecord' /\ LockHeld' /\ FramesAccounted'
    BY ThreadInv, ThreadAccounts DEF IInv
  <1>2. UNCHANGED taskVars /\ thread[i].pc # "ended" /\ thread[i].pc # "unborn"
    BY ThreadFrame DEF ThreadStep, OpenChannel, CheckStop, Timeout, Lock, Count,
       ReadFrame, At
  <1>3. ~(stop /\ upc # "join") /\ upc # "start" /\ upc # "exited"
    BY <1>2 DEF IInv, ReadAhead, Unborn, At, Running
  <1>4. ReadAhead' /\ Unborn'
    BY <1>2, <1>3 DEF IInv, ReadAhead, Unborn, taskVars, None
  <1> QED
    BY <1>1, <1>4 DEF IInv

-----------------------------------------------------------------------------
(* The task.                                                                 *)

LEMMA InitInv == Init => IInv
  <1> SUFFICES ASSUME Init PROVE IInv
    OBVIOUS
  <1>1. TypeOK
    BY CaptureAssumption DEF Init, TypeOK, Counts, None
  <1>2. OneRecord /\ Unborn /\ LockHeld /\ ReadAhead
    BY CaptureAssumption DEF Init, OneRecord, Unborn, LockHeld, ReadAhead, At, None
  <1>3. FramesAccounted
    <2>1. \A r : Holders(r) = {}
      BY DEF Holders, Init
    <2>2. Cardinality({}) = 0
      BY FS_EmptySet
    <2>3. ASSUME NEW r \in Record PROVE Accounted(r) = 0 /\ carried[r] = 0
      <3>1. agg[r] = 0 /\ taken[r] = 0 /\ shown[r] = 0 /\ carried[r] = 0
        BY DEF Init, None
      <3>2. Cardinality(Holders(r)) = 0
        BY <2>1, <2>2
      <3> QED
        BY <3>1, <3>2 DEF Accounted
    <2> QED
      BY <2>3 DEF FramesAccounted, Kept
  <1> QED
    BY <1>1, <1>2, <1>3 DEF IInv

(* A record of which as much is taken out of the map as is put into the       *)
(* output, while the same threads hold it.                                    *)
LEMMA SameAccount ==
  ASSUME NEW r \in Record, sni' = sni, Holders(r)' = Holders(r), TypeOK, TypeOK',
         IF sni THEN agg'[r] = agg[r]
         ELSE agg'[r] + (taken'[r] + shown'[r]) = agg[r] + (taken[r] + shown[r])
  PROVE  Accounted(r)' = Accounted(r)
  <1>1. Cardinality(Holders(r)) \in Nat
    BY CaptureAssumption, FS_Subset, FS_CardinalityType DEF Holders
  <1>2. /\ agg[r] \in Nat /\ taken[r] \in Nat /\ shown[r] \in Nat
        /\ agg'[r] \in Nat /\ taken'[r] \in Nat /\ shown'[r] \in Nat
    BY DEF TypeOK, Counts
  <1>3. CASE sni
    BY <1>3 DEF Accounted
  <1>4. CASE ~sni
    <2>1. Accounted(r) = Cardinality(Holders(r)) + agg[r] + (taken[r] + shown[r])
      BY <1>4 DEF Accounted
    <2>2. Accounted(r)' =
              Cardinality(Holders(r)) + agg'[r] + (taken'[r] + shown'[r])
      BY <1>4 DEF Accounted
    <2>3. Cardinality(Holders(r)) + agg'[r] + (taken'[r] + shown'[r]) =
              Cardinality(Holders(r)) + agg[r] + (taken[r] + shown[r])
      BY <1>1, <1>2, <1>4
    <2> QED
      BY <2>1, <2>2, <2>3
  <1> QED
    BY <1>3, <1>4

(* A step that changes neither the threads nor what is accounted for. *)
LEMMA SameAccounts ==
  ASSUME FramesAccounted, upc # "aborted", UNCHANGED <<sni, carried>>,
         \A r : Holders(r)' = Holders(r),
         \A r \in Record : agg'[r] + (IF sni THEN 0 ELSE taken'[r] + shown'[r])
                           = agg[r] + (IF sni THEN 0 ELSE taken[r] + shown[r]),
         TypeOK, TypeOK'
  PROVE  FramesAccounted'
  <1> SUFFICES ASSUME NEW r \in Record, Len(r.domain) < MaxLabels
               PROVE  Accounted(r)' = Accounted(r)
    BY DEF FramesAccounted, Kept
  <1>1. agg'[r] \in Nat /\ agg[r] \in Nat
    BY DEF TypeOK, Counts
  <1>2. IF sni THEN agg'[r] = agg[r]
        ELSE agg'[r] + (taken'[r] + shown'[r]) = agg[r] + (taken[r] + shown[r])
    BY <1>1
  <1> QED
    BY <1>2, SameAccount

(* The output is made of counts, however much of it there is.               *)
LEMMA OutputCounts ==
  ASSUME TypeOK
  PROVE  Output \in Counts /\ Interrupted \subseteq Counts
  <1>1. Output \in Counts
    BY DEF TypeOK, Counts, Output, Plus, Lines
  <1>2. ASSUME NEW part \in SUBSET Record
        PROVE  [r \in Record |-> IF r \in part THEN Output[r] ELSE IF sni THEN 0 ELSE shown[r]]
                   \in Counts
    BY <1>1 DEF TypeOK, Counts
  <1>3. shown \in Counts
    BY DEF TypeOK
  <1> QED
    BY <1>1, <1>2, <1>3 DEF Interrupted

(* A program that ends while it is at work leaves the threads and the map as  *)
(* they are.                                                                  *)
LEMMA BrokenOff ==
  ASSUME IInv, upc # "start", upc' \in {"failed", "aborted"}, shown' \in Interrupted,
         UNCHANGED <<sni, stop, taken, lock, agg, thread>>,
         frames' \in Nat, carried' \in Counts,
         upc' = "failed" => sni /\ upc = "write" /\ carried' = carried
  PROVE  IInv'
  <1>0. TypeOK /\ OneRecord /\ Unborn /\ LockHeld /\ ReadAhead /\ FramesAccounted
    BY DEF IInv
  <1>1. TypeOK'
    <2>1. shown' \in Counts
      BY <1>0, OutputCounts
    <2> QED
      BY <1>0, <2>1 DEF TypeOK
  <1>2. OneRecord' /\ Unborn'
    BY <1>0 DEF OneRecord, Unborn
  <1>3. LockHeld'
    BY <1>0 DEF LockHeld, At
  <1>4. ReadAhead'
    BY <1>0 DEF ReadAhead, At
  <1>5. FramesAccounted'
    <2> SUFFICES ASSUME NEW r \in Record, Len(r.domain) < MaxLabels, upc' = "failed"
                 PROVE  Kept(Accounted(r)', carried[r])
      BY DEF FramesAccounted, Kept
    <2>1. Kept(Accounted(r), carried[r])
      BY <1>0 DEF FramesAccounted, Kept
    <2>2. Accounted(r)' = Accounted(r)
      <3>1. Holders(r)' = Holders(r)
        BY DEF Holders
      <3> QED
        BY <3>1 DEF Accounted
    <2> QED
      BY <2>1, <2>2
  <1> QED
    BY <1>1, <1>2, <1>3, <1>4, <1>5 DEF IInv

(* A step of the task preserves the invariant.                              *)
LEMMA TaskStepInv ==
  ASSUME IInv, TaskStep \/ CtrlC
  PROVE  IInv'
  <1>0. TypeOK /\ OneRecord /\ Unborn /\ LockHeld /\ ReadAhead /\ FramesAccounted
    BY DEF IInv
  <1>1. CASE Start
    <2>1. /\ upc = "start" /\ upc' = "loop"
          /\ thread' = [i \in Iface |-> [pc |-> "open", rec |-> {}]]
          /\ UNCHANGED <<sni, stop, taken, shown, lock, agg, frames, carried>>
      BY <1>1 DEF Start
    <2>2. \A i \in Iface : thread[i].rec = {} /\ thread[i].pc = "unborn"
      BY <1>0, <2>1 DEF OneRecord, Unborn, At
    <2>3. TypeOK' /\ OneRecord' /\ Unborn'
      BY <1>0, <2>1 DEF TypeOK, OneRecord, Unborn
    <2>4. LockHeld' /\ ReadAhead'
      BY <1>0, <2>1, <2>2 DEF LockHeld, ReadAhead, At, None
    <2>5. \A r : Holders(r)' = Holders(r)
      BY <2>1, <2>2 DEF Holders
    <2>6. FramesAccounted'
      BY <1>0, <2>1, <2>3, <2>5, SameAccounts
    <2> QED
      BY <2>3, <2>4, <2>6 DEF IInv
  <1>2. CASE StartFails \/ Tick \/ CtrlC \/ Join
    <2>1. UNCHANGED <<sni, taken, shown, lock, agg, threadVars>>
      BY <1>2 DEF StartFails, Tick, CtrlC, Join
    <2>2. TypeOK'
      BY <1>0, <1>2, <2>1 DEF TypeOK, threadVars, StartFails, Tick, CtrlC, Join
    <2>3. OneRecord' /\ Unborn'
      BY <1>0, <1>2, <2>1 DEF OneRecord, Unborn, threadVars, StartFails, Tick, CtrlC, Join
    <2>4. LockHeld'
      BY <1>0, <1>2, <2>1 DEF LockHeld, threadVars, At, StartFails, Tick, CtrlC, Join
    <2>5. ReadAhead'
      BY <1>0, <1>2, <2>1 DEF ReadAhead, threadVars, At, None, StartFails, Tick, CtrlC, Join
    <2>6. \A r : Holders(r)' = Holders(r)
      BY <2>1 DEF Holders, threadVars
    <2>7. FramesAccounted'
      <3>1. upc # "aborted"
        BY <1>2 DEF StartFails, Tick, CtrlC, Join
      <3> QED
        BY <1>0, <2>1, <2>2, <2>6, <3>1, SameAccounts DEF threadVars
    <2> QED
      BY <2>2, <2>3, <2>4, <2>5, <2>7 DEF IInv
  <1>3. CASE ReadMap
    <2>1. /\ upc = "emit" /\ lock = Free /\ lock' = Task /\ taken' = agg
          /\ agg' = IF sni THEN agg ELSE None
          /\ upc' = "write"
          /\ UNCHANGED <<sni, stop, shown, thread, frames, carried>>
      BY <1>3 DEF ReadMap, threadVars
    <2>2. TypeOK'
      BY <1>0, <2>1 DEF TypeOK, Counts, None
    <2>3. OneRecord' /\ Unborn'
      BY <1>0, <2>1 DEF OneRecord, Unborn
    <2>4. LockHeld'
      BY <1>0, <2>1, CaptureAssumption DEF LockHeld, At
    <2>5. ReadAhead'
      BY <1>0, <2>1 DEF ReadAhead, At, None
    <2>6. \A r : Holders(r)' = Holders(r)
      BY <2>1 DEF Holders
    <2>7. ~sni => taken = None
      BY <1>0, <2>1 DEF ReadAhead
    <2>8. ASSUME NEW r \in Record
          PROVE  agg'[r] + (IF sni THEN 0 ELSE taken'[r] + shown'[r])
                 = agg[r] + (IF sni THEN 0 ELSE taken[r] + shown[r])
      BY <1>0, <2>1, <2>7 DEF TypeOK, Counts, None
    <2>9. FramesAccounted'
      BY <1>0, <2>1, <2>2, <2>6, <2>8, SameAccounts
    <2> QED
      BY <2>2, <2>3, <2>4, <2>5, <2>9 DEF IInv
  <1>4. CASE Emit
    <2>1. /\ upc = "write" /\ lock' = Free
          /\ shown' = Output
          /\ taken' = IF sni THEN taken ELSE None
          /\ upc' = IF stop THEN "exited" ELSE "loop"
          /\ UNCHANGED <<sni, stop, agg, thread, frames, carried>>
      BY <1>4 DEF Emit, threadVars
    <2>2. TypeOK'
      <3>1. shown' \in Counts
        BY <1>0, <2>1, OutputCounts
      <3> QED
        BY <1>0, <2>1, <3>1 DEF TypeOK, Counts, None
    <2>3. OneRecord' /\ Unborn'
      BY <1>0, <2>1 DEF OneRecord, Unborn
    <2>4. LockHeld'
      BY <1>0, <2>1, CaptureAssumption DEF LockHeld, At
    <2>5. ReadAhead'
      BY <1>0, <2>1 DEF ReadAhead, At, None, Output
    <2>6. \A r : Holders(r)' = Holders(r)
      BY <2>1 DEF Holders
    <2>7. CASE sni
      <3>1. ASSUME NEW r \in Record
            PROVE  agg'[r] + (IF sni THEN 0 ELSE taken'[r] + shown'[r])
                   = agg[r] + (IF sni THEN 0 ELSE taken[r] + shown[r])
        BY <1>0, <2>1, <2>7 DEF TypeOK, Counts
      <3>2. FramesAccounted'
        BY <1>0, <2>1, <2>2, <2>6, <3>1, SameAccounts
      <3> QED
        BY <2>2, <2>3, <2>4, <2>5, <3>2 DEF IInv
    <2>8. CASE ~sni
      <3>1. FramesAccounted'
        <4> SUFFICES ASSUME NEW r \in Record, Len(r.domain) < MaxLabels
                     PROVE  Kept(Accounted(r)', carried[r])
          BY <2>1 DEF FramesAccounted, Kept
        <4>1. Kept(Accounted(r), carried[r])
          BY <1>0, <2>1 DEF FramesAccounted, Kept
        <4>2. /\ agg'[r] = agg[r] /\ taken'[r] = 0 /\ Holders(r)' = Holders(r)
              /\ shown'[r] = shown[r] + IF taken[r] > 0 THEN 1 ELSE 0
          BY <2>1, <2>6, <2>8 DEF None, Output, Plus, Lines
        <4>3. agg[r] \in Nat /\ taken[r] \in Nat /\ shown[r] \in Nat /\ carried[r] \in Nat
          BY <1>0 DEF TypeOK, Counts
        <4>4. Cardinality(Holders(r)) \in Nat
          BY CaptureAssumption, FS_Subset, FS_CardinalityType DEF Holders
        <4> DEFINE H == Cardinality(Holders(r))
        <4>5. /\ Accounted(r) = H + agg[r] + (taken[r] + shown[r])
              /\ Accounted(r)' = H + agg[r] + (0 + shown'[r])
          BY <2>1, <2>8, <4>2 DEF Accounted
        <4> HIDE DEF H
        <4>6. H \in Nat
          BY <4>4 DEF H
        <4> QED
          BY <2>8, <4>1, <4>2, <4>3, <4>5, <4>6 DEF Kept
      <3> QED
        BY <2>2, <2>3, <2>4, <2>5, <3>1 DEF IInv
    <2> QED
      BY <2>7, <2>8
  <1>5. CASE EmitFails
    BY <1>5, BrokenOff DEF EmitFails, threadVars, IInv, TypeOK
  <1> QED
    BY <1>1, <1>2, <1>3, <1>4, <1>5 DEF TaskStep

(* A frame that aborts does too. *)
LEMMA AbortInv ==
  ASSUME IInv, Running, NEW i \in Iface, NEW f \in Frames, FrameAborts(i, f)
  PROVE  IInv'
  <1>1. frames' \in Nat /\ carried' \in Counts
    BY DEF FrameAborts, IInv, TypeOK, Counts
  <1>2. upc # "start"
    BY DEF FrameAborts, IInv, Unborn, At
  <1> QED
    BY <1>1, <1>2, BrokenOff DEF FrameAborts

(* Every step preserves the invariant.                                      *)
LEMMA NextInv == IInv /\ [Next]_vars => IInv'
  <1>1. IInv /\ UNCHANGED vars => IInv'
    <2> SUFFICES ASSUME IInv, UNCHANGED vars PROVE IInv'
      OBVIOUS
    <2>1. \A r : Holders(r)' = Holders(r)
      BY DEF Holders, vars, threadVars
    <2>2. TypeOK'
      BY DEF IInv, TypeOK, vars, taskVars, threadVars
    <2>3. FramesAccounted'
      <3>1. CASE upc = "aborted"
        BY <3>1 DEF FramesAccounted, vars, taskVars
      <3>2. CASE upc # "aborted"
        BY <2>1, <2>2, <3>2, SameAccounts DEF IInv, vars, taskVars, threadVars
      <3> QED
        BY <3>1, <3>2
    <2> QED
      BY <2>2, <2>3 DEF IInv, vars, taskVars, threadVars, OneRecord, Unborn, LockHeld,
         ReadAhead, At, None
  <1> QED
    BY <1>1, ThreadStepInv, TaskStepInv, AbortInv DEF Next

(* The inductive invariant holds of both commands. *)
THEOREM Invariant == Spec => []IInv
  BY InitInv, NextInv, PTL DEF Spec

(* When dns_capture has ended after Ctrl+C it has printed every query that    *)
(* was read, none more often than it was read, and nothing else; and the file *)
(* of tls-sni-capture has every host of a well-formed hello as often as it    *)
(* was read, and nothing else where all hellos are well-formed (run,          *)
(* capture_on_interface, flush_records, write_sni_counts, the parsers).       *)
THEOREM NothingLost == Spec => []NothingMissing
  <1>1. IInv => NothingMissing
    <2> SUFFICES ASSUME IInv, upc = "exited", NEW r \in Record, Len(r.domain) < MaxLabels
                 PROVE  Kept(shown[r], carried[r])
      BY DEF NothingMissing, Kept
    <2>1. /\ \A i \in Iface : At(i, "ended")
          /\ taken = IF sni THEN shown ELSE None
          /\ agg = IF sni THEN taken ELSE None
      BY DEF IInv, ReadAhead
    <2>2. Holders(r) = {}
      BY <2>1 DEF IInv, OneRecord, Holders, At
    <2>3. Cardinality(Holders(r)) = 0
      BY <2>2, FS_EmptySet
    <2>4. shown[r] \in Nat /\ carried[r] \in Nat
      BY DEF IInv, TypeOK, Counts
    <2>5. Accounted(r) = shown[r]
      BY <2>1, <2>3, <2>4 DEF Accounted, None
    <2> QED
      BY <2>5 DEF IInv, FramesAccounted, Kept
  <1> QED
    BY <1>1, Invariant, PTL

-----------------------------------------------------------------------------
(* The refinement.                                                           *)

Current == IF sni THEN Minus(agg, taken) ELSE Lines(agg)
Waiting == IF sni THEN Minus(taken, shown) ELSE Lines(taken)
Ended == upc \in {"failed", "aborted"}

(* A thread's step counts one record of the open epoch, or nothing a reader sees.*)
LEMMA ThreadEpoch ==
  ASSUME IInv, NEW i \in Iface, ThreadStep(i)
  PROVE  Epochs!Next \/ UNCHANGED Epochs!vars
  <1>0. UNCHANGED taskVars /\ agg \in Counts /\ taken \in Counts
    BY ThreadFrame DEF IInv, TypeOK
  <1>1. CASE agg' = agg
    BY <1>0, <1>1 DEF Epochs!vars, Minus, Lines, taskVars
  <1>2. CASE Count(i)
    <2>1. thread[i].rec = {} \/ \E r \in Record : thread[i].rec = {r}
      BY DEF IInv, OneRecord
    <2>2. CASE thread[i].rec = {}
      <3>1. agg' = agg
        BY <1>0, <1>2, <2>2 DEF Count, Counts
      <3> QED
        BY <1>1, <3>1
    <2>3. ASSUME NEW r \in Record, thread[i].rec = {r}
          PROVE  Epochs!Count(r) \/ UNCHANGED Epochs!vars
      <3>1. \A q \in Record : agg'[q] = IF q = r THEN agg[q] + 1 ELSE agg[q]
        <4>1. agg' = [q \in Record |-> agg[q] + IF q \in {r} THEN 1 ELSE 0]
          BY <1>2, <2>3 DEF Count
        <4> QED
          BY <1>0, <4>1 DEF Counts
      <3>2. \A q \in Record : agg[q] \in Nat /\ taken[q] \in Nat
        BY <1>0 DEF Counts
      <3>3. Waiting' = Waiting /\ shown' = shown /\ Ended' = Ended /\ sni' = sni
        BY <1>0 DEF Waiting, Ended, taskVars, Minus, Lines
      <3>4. CASE sni
        <4>1. \A q \in Record :
                 agg'[q] - taken[q] = IF q = r THEN (agg[q] - taken[q]) + 1
                                      ELSE agg[q] - taken[q]
          BY <3>1, <3>2
        <4>2. Minus(agg', taken) = [Minus(agg, taken) EXCEPT ![r] = @ + 1]
          BY <4>1 DEF Minus
        <4>3. Current' = [Current EXCEPT ![r] = @ + 1]
          BY <1>0, <3>4, <4>2 DEF Current, taskVars, Minus
        <4> QED
          BY <3>3, <4>3 DEF Epochs!Count, Current, Waiting, Ended
      <3>5. CASE ~sni /\ agg[r] = 0
        <4>1. \A q \in Record : Lines(agg')[q] = IF q = r THEN Lines(agg)[q] + 1
                                                 ELSE Lines(agg)[q]
          BY <3>1, <3>2, <3>5 DEF Lines
        <4>2. Lines(agg') = [Lines(agg) EXCEPT ![r] = @ + 1]
          BY <4>1 DEF Lines
        <4>3. Current' = [Current EXCEPT ![r] = @ + 1]
          BY <1>0, <3>5, <4>2 DEF Current, taskVars, Lines
        <4> QED
          BY <3>3, <4>3 DEF Epochs!Count, Current, Waiting, Ended
      <3>6. CASE ~sni /\ agg[r] # 0
        <4>1. \A q \in Record : agg'[q] > 0 <=> agg[q] > 0
          BY <3>1, <3>2, <3>6
        <4>2. Lines(agg') = Lines(agg)
          BY <4>1 DEF Lines
        <4>3. Current' = Current
          BY <1>0, <3>6, <4>2 DEF Current, taskVars, Lines
        <4> QED
          BY <3>3, <4>3 DEF Epochs!vars, Current, Waiting, Ended
      <3> QED
        BY <3>4, <3>5, <3>6
    <2> QED
      BY <2>1, <2>2, <2>3 DEF Epochs!Next
  <1> QED
    BY <1>1, <1>2, ThreadFrame

(* Reading the map closes the epoch. *)
LEMMA MapEpoch ==
  ASSUME IInv, ReadMap
  PROVE  Epochs!Rotate
  <1>0. /\ agg \in Counts /\ taken \in Counts /\ shown \in Counts
        /\ sni' = sni /\ shown' = shown /\ taken' = agg
        /\ agg' = IF sni THEN agg ELSE None
        /\ taken = IF sni THEN shown ELSE None
        /\ ~Ended /\ ~Ended'
    BY DEF IInv, TypeOK, ReadMap, ReadAhead, Ended
  <1>1. Waiting = None
    BY <1>0 DEF Waiting, Minus, Lines, None, Counts
  <1>2. Waiting' = Current
    <2>1. Waiting' = IF sni THEN Minus(agg, shown) ELSE Lines(agg)
      BY <1>0 DEF Waiting, Minus, Lines
    <2> QED
      BY <1>0, <2>1 DEF Current
  <1>3. Current' = None
    <2>1. Current' = IF sni THEN Minus(agg, agg) ELSE Lines(None)
      BY <1>0 DEF Current, Minus, Lines
    <2> QED
      BY <1>0, <2>1 DEF Minus, Lines, None, Counts
  <1> QED
    BY <1>0, <1>1, <1>2, <1>3 DEF Epochs!Rotate, Epochs!Nothing, Current, Waiting, None, Ended

(* Every output reports it. *)
LEMMA EmitEpoch ==
  ASSUME IInv, Emit
  PROVE  Epochs!Report
  <1>0. /\ agg \in Counts /\ taken \in Counts /\ shown \in Counts
        /\ sni' = sni /\ agg' = agg
        /\ shown' = Output
        /\ taken' = IF sni THEN taken ELSE None
        /\ ~Ended /\ ~Ended'
    BY DEF IInv, TypeOK, Emit, threadVars, Ended
  <1>1. Current' = Current
    BY <1>0 DEF Current, Minus, Lines
  <1>2. Waiting' = None
    <2>1. CASE sni
      <3>1. Waiting' = Minus(taken, taken)
        BY <1>0, <2>1 DEF Waiting, Minus, Output
      <3> QED
        BY <1>0, <3>1 DEF Minus, None, Counts
    <2>2. CASE ~sni
      <3>1. Waiting' = Lines(None)
        BY <1>0, <2>2 DEF Waiting, Lines
      <3> QED
        BY <3>1 DEF Lines, None
    <2> QED
      BY <2>1, <2>2
  <1>3. shown' = [r \in Record |-> IF r \in Record THEN shown[r] + Waiting[r] ELSE shown[r]]
    <2>1. CASE sni
      <3>1. \A r \in Record : shown[r] + Waiting[r] = taken[r]
        BY <1>0, <2>1 DEF Waiting, Minus, Counts
      <3> QED
        BY <1>0, <2>1, <3>1 DEF Counts, Output
    <2>2. CASE ~sni
      BY <1>0, <2>2 DEF Waiting, Output, Plus
    <2> QED
      BY <2>1, <2>2
  <1> QED
    BY <1>0, <1>1, <1>2, <1>3 DEF Epochs!Report, Epochs!Nothing, Current, Waiting, None, Ended

(* Every step is one of EpochLog, or changes nothing it speaks of.          *)
LEMMA EpochStep == IInv /\ [Next]_vars => [Epochs!Next]_(Epochs!vars)
  <1> SUFFICES ASSUME IInv, [Next]_vars PROVE Epochs!Next \/ UNCHANGED Epochs!vars
    OBVIOUS
  <1>1. CASE Start \/ Tick \/ Join \/ CtrlC \/ UNCHANGED vars
    <2>1. UNCHANGED <<sni, agg, taken, shown, Ended>>
      BY <1>1 DEF Start, Tick, Join, CtrlC, vars, taskVars, Ended
    <2> QED
      BY <2>1 DEF Epochs!vars, Minus, Lines, Ended
  <1>2. CASE ReadMap \/ Emit
    BY <1>2, MapEpoch, EmitEpoch DEF Epochs!Next
  <1>3. ASSUME Ended' PROVE Epochs!Next
    BY <1>3 DEF Epochs!Next, Ended
  <1>4. CASE \/ StartFails \/ EmitFails
             \/ \E i \in Iface, f \in Frames : FrameAborts(i, f)
    BY <1>3, <1>4 DEF StartFails, EmitFails, FrameAborts, Ended
  <1> QED
    BY <1>1, <1>2, <1>4, ThreadEpoch DEF Next, TaskStep

(* Both captures implement EpochLog under the refinement mapping of Epochs:   *)
(* what a thread counts is in one output and no other.                        *)
THEOREM Refinement == Spec => CaptureEpochs
  <1>1. Init => Epochs!Init
    <2> SUFFICES ASSUME Init PROVE Epochs!Init
      OBVIOUS
    <2>1. agg = None /\ taken = None /\ shown = None /\ upc = "start"
      BY DEF Init
    <2>2. Minus(None, None) = None /\ Lines(None) = None
      BY DEF Minus, Lines, None
    <2> QED
      BY <2>1, <2>2 DEF Epochs!Init, Epochs!Nothing, None
  <1> QED
    BY <1>1, EpochStep, Invariant, PTL DEF Spec, CaptureEpochs, Epochs!Spec
=============================================================================
