-------------------------------- MODULE Stun --------------------------------
(***************************************************************************)
(* What ip-blacklist takes for a STUN Binding message and lets pass: the   *)
(* check of the XDP program (is_stun_message in                            *)
(* rstrace-ebpf/src/ip_blacklist.rs) and the one in user space that it     *)
(* mirrors (is_stun_binding_message in rstrace/src/ip_blacklist.rs), which *)
(* gets the payload as a slice.                                            *)
(***************************************************************************)
EXTENDS Integers

CONSTANTS
    StunHeader,  \* STUN_HDR_LEN: 20
    MaxClassic   \* 256, the longest message of RFC 3489 that passes

ASSUME StunAssumption == StunHeader \in Nat /\ StunHeader >= 8 /\ MaxClassic \in Nat

(* A UDP packet.  room: the bytes the frame holds after the UDP header;       *)
(* claimed: the payload its length field claims; binding, size, cookie: type, *)
(* length field and cookie of the message; port: 3478 on either side.         *)
Udp == [room : Nat, claimed : Int, binding : BOOLEAN, size : Nat,
        cookie : BOOLEAN, port : BOOLEAN]

Agrees(u) == u.claimed = u.room

(* Mutant: the message is measured from the start of its header. *)
IsStunMessageLonger(u) ==
    IF u.claimed < StunHeader THEN "no"
    ELSE IF u.room < 2 THEN "error"
    ELSE IF ~u.binding THEN "no"
    ELSE IF u.room < 4 THEN "error"
    ELSE IF u.size > u.claimed THEN "no"
    ELSE IF u.room < 8 THEN "error"
    ELSE IF u.cookie \/ (u.port /\ u.size <= MaxClassic) THEN "yes"
    ELSE "no"

(* The kernel's comparisons of an offset with data_end(), which is a pointer, *)
(* never reject; a read behind the end of the frame is an error.              *)
IsStunMessage(u) ==
    IF u.claimed < StunHeader THEN "no"
    ELSE IF u.room < 2 THEN "error"
    ELSE IF ~u.binding THEN "no"
    ELSE IF u.room < 4 THEN "error"
    ELSE IF u.size > u.claimed - StunHeader THEN "no"
    ELSE IF u.room < 8 THEN "error"
    ELSE IF u.cookie \/ (u.port /\ u.size <= MaxClassic) THEN "yes"
    ELSE "no"

(* is_stun_binding_message. *)
IsStunBindingMessage(u) ==
    /\ u.room >= StunHeader
    /\ u.binding
    /\ u.size <= u.room - StunHeader
    /\ u.cookie \/ (u.port /\ u.size <= MaxClassic)
=============================================================================
