------------------------------ MODULE MCCapture ------------------------------
(* Instances of Capture for TLC. *)
EXTENDS Capture

CONSTANTS eth0, lo, a, b, A, AAAA, h1, h2

Query(name) ==
    [response |-> FALSE, questions |-> 1, name |-> name, type |-> A, complete |-> TRUE]

NamedExtension(name, size) ==
    [sni |-> TRUE, len |-> size + 5, list |-> size + 3, host |-> TRUE, size |-> size,
     name |-> name]

OtherExtension(len) == [NamedExtension(h1, 1) EXCEPT !.sni = FALSE, !.len = len]

HelloWith(exts) ==
    LET end == WireSize(exts)
    IN  [hello |-> TRUE, declared |-> end, room |-> end, exts |-> exts]

UdpFrame == [tags |-> 0, net |-> "v4", own |-> FALSE, l4 |-> "udp53", intact |-> TRUE,
             l4Fits |-> TRUE, dns |-> Query(<<a>>), tls |-> HelloWith(<<>>)]

TcpFrame == [UdpFrame EXCEPT !.own = TRUE, !.l4 = "tcp"]

(* Names shorter than the parser's loop, as long, and longer; what is no      *)
(* query, or not all of one.                                                  *)
DnsMessages ==
    {Query(n) : n \in {<<a>>, <<a, b>>, <<a, b, a>>, <<>>, <<Pointer>>, <<a, Pointer>>}}
    \cup {[Query(<<a>>) EXCEPT !.type = AAAA], [Query(<<a>>) EXCEPT !.response = TRUE],
          [Query(<<a>>) EXCEPT !.questions = 0], [Query(<<a>>) EXCEPT !.complete = FALSE]}

(* The extension first, last, or missing; names as long as allowed and        *)
(* longer; a hello that is cut; lists and names whose lengths do not fit.     *)
TlsPayloads ==
    LET e == NamedExtension(h1, 1) IN
    {HelloWith(x) : x \in {<<>>, <<e>>, <<OtherExtension(0), NamedExtension(h2, 2)>>,
        <<e, OtherExtension(3)>>, <<OtherExtension(1)>>, <<NamedExtension(h1, 3)>>,
        <<[e EXCEPT !.list = 2]>>, <<[e EXCEPT !.size = 0]>>, <<[e EXCEPT !.host = FALSE]>>,
        <<[e EXCEPT !.list = 7]>>, <<[e EXCEPT !.size = 2]>>,
        <<[e EXCEPT !.list = 6, !.size = 2]>>}}
    \cup {[HelloWith(<<e>>) EXCEPT !.room = @ - 1], [HelloWith(<<e>>) EXCEPT !.declared = @ - 1],
          [HelloWith(<<e>>) EXCEPT !.hello = FALSE]}

AllFrames ==
    {[UdpFrame EXCEPT !.dns = m] : m \in DnsMessages}
    \cup {[UdpFrame EXCEPT !.tags = t, !.net = n] : t \in 0 .. 2, n \in {"v4", "v6", "arp"}}
    \cup {[UdpFrame EXCEPT !.l4 = "udp"], [UdpFrame EXCEPT !.intact = FALSE],
          [UdpFrame EXCEPT !.intact = FALSE, !.net = "v6"],
          [UdpFrame EXCEPT !.l4Fits = FALSE]}
    \cup {[TcpFrame EXCEPT !.tls = h] : h \in TlsPayloads}
    \cup {[f EXCEPT !.tls = HelloWith(<<NamedExtension(h1, 1)>>)] : f \in
             {[TcpFrame EXCEPT !.own = FALSE], [TcpFrame EXCEPT !.net = "v6"],
              [TcpFrame EXCEPT !.tags = 1], [TcpFrame EXCEPT !.intact = FALSE],
              [TcpFrame EXCEPT !.l4Fits = FALSE]}}

(* None of the hellos above names a host for the parser only. *)
ASSUME MCCaptureStrict == Strict
=============================================================================
