----------------------------- MODULE ClientHello ----------------------------
(***************************************************************************)
(* The parser of `rstrace tls-sni-capture` (parse_tls_sni,                 *)
(* parse_sni_extension in rstrace/src/tls_sni_capture.rs): lengths inside  *)
(* lengths, each of which is compared with some other one.                 *)
(***************************************************************************)
EXTENDS Integers, Sequences

CONSTANTS
    Host,    \* names of hosts
    MaxSni,  \* MAX_SNI_LEN: 253
    Panic    \* the outcome of a slice behind the end of its array

ASSUME ClientHelloAssumption == MaxSni \in Nat \ {0} /\ Panic \notin Host

(* One extension.  sni: its type is server_name; len: its length; the rest is *)
(* the content of a server_name extension: the length of the list, and its    *)
(* first entry, whose type may be host_name, with the length of the name.     *)
Extension == [sni : BOOLEAN, len : Nat, list : Nat, host : BOOLEAN, size : Nat,
              name : Host]

(* A TCP payload.  hello: it begins like a ClientHello, and all that precedes *)
(* the extensions is there; declared: the length of the extensions; room: the *)
(* bytes that are there for them.                                             *)
Hello == [hello : BOOLEAN, declared : Nat, room : Nat, exts : Seq(Extension)]

(* Where each extension ends, from the first one's beginning.  The mutant     *)
(* takes type and length to be as long as a record's header.                  *)
EndsLong(exts) ==
    LET ends[i \in 0 .. Len(exts)] ==
            IF i = 0 THEN 0 ELSE ends[i - 1] + 5 + exts[i].len
    IN  ends

Ends(exts) ==
    LET ends[i \in 0 .. Len(exts)] ==
            IF i = 0 THEN 0 ELSE ends[i - 1] + 4 + exts[i].len
    IN  ends

(* The end of the list is compared with the length of the extension, two less *)
(* than where the list ends, and the name with the end of the list.           *)
ParseSniExtension(e) ==
    IF \/ e.len < 5 \/ e.list < 3 \/ e.list > e.len
       \/ ~e.host
       \/ e.size = 0 \/ e.size > MaxSni \/ 5 + e.size > 2 + e.list
    THEN {}
    ELSE IF 5 + e.size > e.len THEN {Panic} ELSE {e.name}

(* The first server_name extension decides, if the loop gets to it. *)
ParseTlsSni(h) ==
    LET found == {i \in DOMAIN h.exts :
                     /\ Ends(h.exts)[i] <= h.declared
                     /\ h.exts[i].sni
                     /\ \A j \in 1 .. i - 1 : ~h.exts[j].sni}
    IN  IF h.hello /\ h.declared <= h.room
        THEN UNION {ParseSniExtension(h.exts[i]) : i \in found} ELSE {}

(* The bytes that extensions take. *)
WireSize(exts) ==
    LET size[i \in 0 .. Len(exts)] ==
            IF i = 0 THEN 0 ELSE size[i - 1] + 4 + exts[i].len
    IN  size[Len(exts)]

(* The extension of a well-formed hello in one segment that names a host; no  *)
(* type occurs twice (RFC 8446, 4.2).                                         *)
Names(h, i) ==
    LET e == h.exts[i] IN
    /\ h.hello /\ h.declared = WireSize(h.exts) /\ h.room >= h.declared
    /\ e.sni /\ e.host /\ e.size \in 1 .. MaxSni
    /\ e.list = e.size + 3 /\ e.len = e.list + 2
    /\ \A j \in DOMAIN h.exts \ {i} : ~h.exts[j].sni

Named(h) == {h.exts[i].name : i \in {i \in DOMAIN h.exts : Names(h, i)}}
=============================================================================
