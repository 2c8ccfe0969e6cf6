------------------------------ MODULE DnsQuery ------------------------------
(***************************************************************************)
(* The parser of `rstrace dns_capture` (parse_dns_query, parse_qname in    *)
(* rstrace/src/dns_capture.rs).  A name is a sequence of labels, of which  *)
(* the parser reads at most MaxLabels.  A parser's result is a set: of the *)
(* record, or empty.                                                       *)
(***************************************************************************)
EXTENDS Integers, Sequences

CONSTANTS
    Label,      \* labels of domain names
    QType,      \* types of queries
    Misread,    \* a type that is read from elsewhere in the message
    MaxLabels   \* the turns of the loop: 32

(* A byte above 63 where a label should begin. *)
Pointer == "pointer"

ASSUME DnsQueryAssumption ==
    MaxLabels \in Nat \ {0} /\ Pointer \notin Label /\ Misread \notin QType

(* complete: the message does not end before its first question does. *)
Message == [response : BOOLEAN, questions : Nat, name : Seq(Label \cup {Pointer}),
            type : QType, complete : BOOLEAN]

(* Mutant: the end of the name is not read in a turn of its own. *)
ParseQnameShort(name) ==
    LET labels == SubSeq(name, 1, IF Len(name) < MaxLabels - 1 THEN Len(name)
                                  ELSE MaxLabels - 1)
    IN  IF labels = <<>> \/ \E i \in DOMAIN labels : labels[i] = Pointer
        THEN {} ELSE {labels}

(* The labels the loop gets to. *)
ParseQname(name) ==
    LET labels == SubSeq(name, 1, IF Len(name) < MaxLabels THEN Len(name)
                                  ELSE MaxLabels)
    IN  IF labels = <<>> \/ \E i \in DOMAIN labels : labels[i] = Pointer
        THEN {} ELSE {labels}

(* The end of a name takes a turn too.  When the labels have used up all of   *)
(* them, the offset is left in front of what follows, which is then taken for *)
(* the type.                                                                  *)
ParseDnsQuery(m) ==
    LET type(labels) == IF Len(labels) < MaxLabels THEN m.type ELSE Misread
    IN  IF m.response \/ m.questions = 0 \/ ~m.complete THEN {}
        ELSE {[domain |-> labels, type |-> type(labels)] : labels \in ParseQname(m.name)}

(* What the message asks, however long the name is. *)
Question(m) ==
    IF ~m.response /\ m.questions # 0 /\ m.complete /\ m.name \in Seq(Label) \ {<<>>}
    THEN {[domain |-> m.name, type |-> m.type]} ELSE {}
=============================================================================
