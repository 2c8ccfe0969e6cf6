------------------------------ MODULE BpfHash ------------------------------
(***************************************************************************)
(* The kernel's BPF_MAP_TYPE_HASH, as the programs of rstrace use it.      *)
(*                                                                         *)
(* Every hash map of rstrace is declared with_max_entries(N, 0): no        *)
(* BPF_F_NO_PREALLOC, so its elements come from a pool that is allocated   *)
(* once and an element that was removed may be handed out again at once.   *)
(* A probe that obtained a pointer with get_ptr_mut therefore keeps a      *)
(* pointer to an ELEMENT, and that element may meanwhile belong to no key  *)
(* or to another key.  The model keeps the pool (Slot) apart from the      *)
(* table that says which element holds which key.                          *)
(*                                                                         *)
(* A map is a record [tab, val]:                                           *)
(*   tab[k]  the element of key k, or NoSlot when k is absent              *)
(*   val[s]  the value stored in element s, whoever owns it                *)
(***************************************************************************)
EXTENDS Naturals, FiniteSets

CONSTANTS
    Slot,        \* the elements of one map: max_entries plus one spare per CPU
    NoSlot,      \* "no element"
    MaxEntries   \* the map's max_entries

ASSUME BpfHashAssumption ==
    /\ NoSlot \notin Slot
    /\ MaxEntries \in Nat
    /\ IsFiniteSet(Slot)

(* A freshly loaded map over the keys K. *)
EmptyMap(K) == [tab |-> [k \in K |-> NoSlot], val |-> [s \in Slot |-> 0]]

MapType(K) == [tab : [K -> Slot \cup {NoSlot}], val : [Slot -> Nat]]

Present(m, k) == m.tab[k] # NoSlot

KeysOf(m) == {k \in DOMAIN m.tab : Present(m, k)}

ValueOf(m, k) == m.val[m.tab[k]]

FreeSlots(m) == {s \in Slot : \A k \in DOMAIN m.tab : m.tab[k] # s}

(* bpf_map_update_elem(.., BPF_ANY) fails only for a new key in a full map. *)
CanUpdate(m, k) == Present(m, k) \/ Cardinality(KeysOf(m)) < MaxEntries

(* The update links a FREE element for k; an element k had before is freed. *)
UpdateElem(m, k, s, v) ==
    [tab |-> [m.tab EXCEPT ![k] = s], val |-> [m.val EXCEPT ![s] = v]]

(* bpf_map_delete_elem: the element goes back to the pool, value untouched. *)
DeleteElem(m, k) == [m EXCEPT !.tab = [m.tab EXCEPT ![k] = NoSlot]]

(* A store through an element pointer, whoever owns the element by now. *)
StoreElem(m, s, v) == [m EXCEPT !.val = [m.val EXCEPT ![s] = v]]

=============================================================================
