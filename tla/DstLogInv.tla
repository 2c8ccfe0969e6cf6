----------------------------- MODULE DstLogInv ------------------------------
(***************************************************************************)
(* The inductive invariant behind the safety properties of DstLog: why a   *)
(* probe and the drain keep out of each other's way until the first race.  *)
(***************************************************************************)
EXTENDS DstLog

Draining == upc \in {"iter", "print", "remove"}

(* A probe goes only through element pointers it was given. *)
ElemOK == \A c \in CPU : probe[c].pc \in {"load", "store"} => probe[c].elem \in Slot

(* The task publishes its write_buf at once and drains the other map. *)
Turned ==
    /\ active = writeBuf
    /\ Draining => drainBuf = 1 - writeBuf
    /\ ~Draining /\ upc # "failed" => seen = {}
    /\ upc = "failed" => straddled /\ collided

(* No element belongs to two keys. *)
OneOwner ==
    \A b \in Buf : \A j, k \in Key :
        Present(dst[b], j) /\ j # k => dst[b].tab[j] # dst[b].tab[k]

(* A probe that no turn has overtaken works on the active map. *)
OnActive == ~straddled => \A c \in CPU : Holding(c) => probe[c].buf = active

(* Without a collision two probes never work on the same entry ... *)
Apart ==
    ~collided =>
        \A c, d \in CPU : c # d /\ Holding(c) /\ Holding(d) =>
            probe[c].buf # probe[d].buf \/ probe[c].key # probe[d].key

(* ... so an entry a probe found absent is still absent when it inserts it.  *)
StillAbsent ==
    ~collided =>
        \A c \in CPU : probe[c].pc = "insert" =>
                           ~Present(dst[probe[c].buf], probe[c].key)

(* Without any race a pointer is still the key's, and its register current.  *)
StillValid ==
    ~straddled /\ ~collided =>
        \A c \in CPU :
            LET p == probe[c]  m == dst[p.buf] IN
            /\ p.pc \in {"load", "store"} => m.tab[p.key] = p.elem
            /\ p.pc = "store" => m.val[p.elem] = p.reg

(* What the drain has read it can remove, once. *)
Removable ==
    ~(straddled /\ collided) =>
        /\ twice = {} /\ again = {}
        /\ Draining => seen \subseteq KeysOf(dst[drainBuf])

(* The drain misses nothing of the map it was turned to. *)
NothingMissed ==
    ~straddled =>
        /\ upc = "iter" => KeysOf(dst[drainBuf]) \subseteq walk
        /\ upc \in {"print", "remove"} => KeysOf(dst[drainBuf]) \subseteq seen
        /\ upc \in Startup \cup {"select"} => KeysOf(dst[1 - active]) = {}

(* The counts read are those of the map. *)
Current ==
    ~straddled /\ ~collided /\ Draining =>
        \A k \in seen : snap[k] = ValueOf(dst[drainBuf], k)

IInv ==
    /\ TypeOK /\ ElemOK /\ Turned /\ OneOwner /\ OnActive /\ Apart
    /\ StillAbsent /\ StillValid /\ Removable /\ NothingMissed /\ Current
    /\ ExactUnlessRaced

(* The kernel filters before it counts: what is known at each point.         *)
Accepted(p) ==
    /\ p.pc # "idle" => Enabled(args, p.key[2])
    /\ p.pc \notin {"idle", "filter"} => p.comm \in Target /\ p.key[1] \in External

FilterInv ==
    /\ TypeOK
    /\ \A q \in Proto : config[q] => Enabled(args, q)
    /\ \A c \in CPU : Accepted(probe[c])
    /\ OnlyTargetRecorded

=============================================================================
