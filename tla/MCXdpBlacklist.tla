--------------------------- MODULE MCXdpBlacklist ---------------------------
(* Instances of XdpBlacklist for TLC. *)
EXTENDS XdpBlacklist, TLC

CONSTANTS c1, c2, e1, e2, e3, e4

Net(ip, prefix) == [ip |-> ip, prefix |-> prefix]

Command(file, add, delete, proto, dry, out, stun) ==
    [file |-> file, add |-> add, delete |-> delete, proto |-> proto,
     dry |-> dry, out |-> out, stun |-> stun]

(* A STUN message with its cookie; one of RFC 3489, with and without its      *)
(* port, too long, longer than its packet; other data; packets whose length   *)
(* field claims more than the frame holds.                                    *)
Message(room, claimed, binding, size, cookie, port) ==
    [room |-> room, claimed |-> claimed, binding |-> binding, size |-> size,
     cookie |-> cookie, port |-> port]

Stuns == {Message(8, 8, TRUE, 0, TRUE, FALSE), Message(9, 9, TRUE, 1, TRUE, FALSE),
          Message(9, 9, TRUE, 1, FALSE, TRUE), Message(9, 9, TRUE, 1, FALSE, FALSE),
          Message(10, 10, TRUE, 2, FALSE, TRUE), Message(9, 9, TRUE, 2, TRUE, TRUE),
          Message(7, 7, TRUE, 0, TRUE, TRUE), Message(1, 9, TRUE, 0, TRUE, TRUE),
          Message(3, 9, TRUE, 0, TRUE, TRUE), Message(5, 9, TRUE, 0, TRUE, TRUE)}

Data == Message(8, 8, FALSE, 0, FALSE, FALSE)
Stun0 == Message(8, 8, TRUE, 0, TRUE, FALSE)

Arrives(src, dst, proto, udp) ==
    [src |-> src, dst |-> dst, proto |-> proto, udp |-> udp]

UpTo(n, S) == UNION {[1 .. k -> S] : k \in 0 .. n}

(* Lists over two bits: nested, equal and neighbouring ranges, the half 10    *)
(* under two texts, duplicates that sorting does not bring together; --delete *)
(* of a range that is there once, twice or not; texts that do not parse.      *)
FileLines == {Net(0, 0), Net(0, 1), Net(2, 1), Net(3, 1), Net(0, 2), Comment}

RuleLines ==
    {Command(f, a, d, {"udp"}, FALSE, FALSE, FALSE) :
        f \in UpTo(3, FileLines),
        a \in {<<>>, <<Net(0, 1)>>, <<Net(0, 2), Net(1, 2)>>},
        d \in {<<>>, <<Net(0, 1)>>, <<Net(2, 1), Net(1, 2)>>}}
    \cup {Command(f, <<l>>, <<m>>, p, dry, FALSE, FALSE) :
        f \in {<<>>, <<Malformed>>, <<Net(0, 1)>>},
        l \in {Malformed, Net(3, 1)}, m \in {Malformed, Net(0, 1)},
        p \in {{}, {"tcp"}}, dry \in BOOLEAN}

RulePackets ==
    {Arrives(0, 3, "udp", Data), Arrives(1, 1, "udp", Data),
     Arrives(1, 3, "tcp", Data), Arrives(0, 1, "icmp", Data)}
    \cup {Arrives(2, 0, "udp", m) : m \in Stuns}

(* Everything, and the upper half again; every kind of output; packets that   *)
(* hit both ranges, with one address more than the maps have room for.        *)
Both == <<Net(0, 0), Net(2, 1)>>

CountLines ==
    {Command(Both, <<>>, <<>>, {"udp"}, FALSE, TRUE, stun) : stun \in BOOLEAN}
    \cup {Command(Both, <<>>, <<>>, {"udp"}, FALSE, FALSE, TRUE),
          Command(Both, <<>>, <<>>, {"udp"}, TRUE, FALSE, FALSE)}

CountPackets ==
    {Arrives(0, 3, "udp", Data), Arrives(1, 3, "udp", Data), Arrives(3, 3, "udp", Stun0)}

AllLines == RuleLines \cup CountLines

(* Two packets where counts are written, one where it is dropped or not.      *)
PacketsUnder(c) == IF c \in CountLines THEN CountPackets ELSE RulePackets
PacketsOf(c) == IF c \in CountLines THEN 2 ELSE 1

AllQuestions == UpTo(3, {0, 3, Bad, Blank})

(* CPUs and map elements are interchangeable: no operator chooses one. *)
Symm == Permutations(CPU) \cup Permutations(Slot)
=============================================================================
