----------------------------- MODULE Blacklist ------------------------------
(***************************************************************************)
(* The list of IPv4 ranges of `rstrace ip-blacklist` (struct Blacklist in  *)
(* rstrace/src/ip_blacklist.rs) and the LPM trie it is written to          *)
(* (BLACKLIST in rstrace-ebpf/src/ip_blacklist.rs).                        *)
(*                                                                         *)
(* The list compares numbers: an address is in a range or not.  The trie   *)
(* compares leading bits, of words that both sides turn into network byte  *)
(* order.  The list is searched with max_by_key, the trie for its longest  *)
(* prefix, and a counter is found by its position in the list: the two     *)
(* have to agree on the position for every address.                        *)
(***************************************************************************)
EXTENDS Integers, Sequences

CONSTANTS
    Width,     \* bits of an address: 32
    MaxRanges  \* MAX_BLACKLIST_RANGES

ASSUME BlacklistAssumption == Width \in Nat /\ MaxRanges \in Nat

(* 1 << n *)
TwoTo[n \in 0 .. Width] == IF n = 0 THEN 1 ELSE 2 * TwoTo[n - 1]

Addr == 0 .. TwoTo[Width] - 1

(* A text that parse_cidr accepts; the label of an entry is this text. *)
Cidr == [ip : Addr, prefix : 0 .. Width]

(* A text it rejects, and a line of a file that is no range. *)
Malformed == [ip |-> 0, prefix |-> Width + 1]
Comment   == [ip |-> 0, prefix |-> Width + 2]

(* cidr_to_range: the bits after the prefix are cleared, or set. *)
Start(e) == e.ip - (e.ip % TwoTo[Width - e.prefix])
End(e)   == Start(e) + TwoTo[Width - e.prefix] - 1

SameRange(e, f) == Start(e) = Start(f) /\ End(e) = End(f)

(* Mutant: the last address of a range is left out. *)
InRangeOpen(e, a) == Start(e) <= a /\ a < End(e)

InRange(e, a) == Start(e) <= a /\ a <= End(e)

-----------------------------------------------------------------------------
(* The list: a sequence of entries, positions from 0 in the code, 1 here.    *)

(* The elements of s that are in S, in their order: filter, retain. *)
Among(s, S) ==
    LET kept[i \in 0 .. Len(s)] ==
            IF i = 0 THEN <<>>
            ELSE IF s[i] \in S THEN Append(kept[i - 1], s[i]) ELSE kept[i - 1]
    IN  kept[Len(s)]

(* sort_by_key is stable: equal starts keep their order. *)
InsertByStart(sorted, e) ==
    Among(sorted, {f \in Cidr : Start(f) <= Start(e)}) \o <<e>>
        \o Among(sorted, {f \in Cidr : Start(f) > Start(e)})

SortByStart(entries) ==
    LET sorted[i \in 0 .. Len(entries)] ==
            IF i = 0 THEN <<>> ELSE InsertByStart(sorted[i - 1], entries[i])
    IN  sorted[Len(entries)]

(* dedup_by_key drops an entry with the range of the one before it.  Entries  *)
(* with one start and different ends are not ordered among themselves, so     *)
(* equal ranges need not be neighbours: some duplicates stay.                 *)
DedupStep(kept, e) ==
    IF kept # <<>> /\ SameRange(kept[Len(kept)], e) THEN kept ELSE Append(kept, e)

Dedup(entries) ==
    LET kept[i \in 0 .. Len(entries)] ==
            IF i = 0 THEN <<>> ELSE DedupStep(kept[i - 1], entries[i])
    IN  kept[Len(entries)]

SortDedup(entries) == Dedup(SortByStart(entries))

Merge(entries, more) == SortDedup(entries \o more)

AddCidr(entries, e) ==
    IF \E i \in DOMAIN entries : SameRange(entries[i], e) THEN entries
    ELSE SortDedup(Append(entries, e))

(* Mutant: only the first entry with the range goes. *)
RemoveCidrFirst(entries, e) ==
    LET at == {i \in DOMAIN entries : SameRange(entries[i], e)} IN
    IF at = {} THEN entries
    ELSE LET i == CHOOSE i \in at : \A j \in at : i <= j
         IN  SubSeq(entries, 1, i - 1) \o SubSeq(entries, i + 1, Len(entries))

RemoveCidr(entries, e) == Among(entries, {f \in Cidr : ~SameRange(f, e)})

(* parse_blacklist_text fails on the first line that is neither a range nor   *)
(* empty nor a comment.                                                       *)
Parses(lines) == \A i \in DOMAIN lines : lines[i] # Malformed

ParseText(lines) == SortDedup(Among(lines, Cidr))

(* matching_entry: of several equally long prefixes max_by_key takes the last. *)
MatchingEntry(entries, a) ==
    LET at == {i \in DOMAIN entries : InRange(entries[i], a)} IN
    {i \in at : \A j \in at :
        \/ entries[j].prefix < entries[i].prefix
        \/ entries[j].prefix = entries[i].prefix /\ j <= i}

-----------------------------------------------------------------------------
(* The trie: the position stored for each string of leading bits.            *)

Bit(a, i) == (a \div TwoTo[i]) % 2

(* Mutant: the word is left in the byte order of the machine. *)
WordNative(a) == [i \in 1 .. Width |-> Bit(a, i - 1)]

(* to_be: in memory the most significant part comes first, and the trie       *)
(* compares from there.                                                       *)
Word(a) == [i \in 1 .. Width |-> Bit(a, Width - i)]

LeadingBits(a, n) == SubSeq(Word(a), 1, n)

(* trie.insert overwrites the position of a key that is there.  The mutant    *)
(* keeps it.                                                                  *)
TrieInsertKeeps(trie, key, i) ==
    [k \in DOMAIN trie \cup {key} |-> IF k \in DOMAIN trie THEN trie[k] ELSE i]

TrieInsert(trie, key, i) ==
    [k \in DOMAIN trie \cup {key} |-> IF k = key THEN i ELSE trie[k]]

(* sync_to_ebpf: every entry under its prefix and its masked start. *)
EmptyTrie == [k \in {} |-> 0]

TrieKey(e) == LeadingBits(Start(e), e.prefix)

TrieOf(entries) ==
    LET trie[i \in 0 .. Len(entries)] ==
            IF i = 0 THEN EmptyTrie ELSE TrieInsert(trie[i - 1], TrieKey(entries[i]), i)
    IN  trie[Len(entries)]

(* A lookup with all bits: the longest key that leads the word, if any. *)
TrieLookup(trie, a) ==
    LET found == {n \in 0 .. Width : LeadingBits(a, n) \in DOMAIN trie} IN
    {trie[LeadingBits(a, n)] : n \in {m \in found : \A l \in found : l <= m}}

=============================================================================
