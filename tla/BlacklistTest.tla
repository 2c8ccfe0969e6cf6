---------------------------- MODULE BlacklistTest ---------------------------
(***************************************************************************)
(* `rstrace ip-blacklist-test` (rstrace/src/ip_blacklist_test.rs): is an   *)
(* address on the list?  It asks the list of ip-blacklist about its        *)
(* arguments, or, with --stream, about the lines of stdin.                 *)
(***************************************************************************)
EXTENDS Blacklist

(* An argument or line that is no address, and one of white space.            *)
Bad   == -1
Blank == -2

(* load_file into an empty list; sort_dedup once more. *)
TestList(lines) == SortDedup(Merge(<<>>, ParseText(lines)))

Element(entries, a) == [target |-> a, hit |-> MatchingEntry(entries, a) # {}]

Answers(entries, targets) ==
    LET asked == Among(targets, Addr) IN
    [i \in DOMAIN asked |-> Element(entries, asked[i])]

(* Mutant: an answer does not clear the line. *)
FeedKeeps(entries, state, line) ==
    LET buffer == IF line = Blank THEN state.buffer ELSE Append(state.buffer, line)
    IN  IF Len(buffer) = 1 /\ buffer[1] \in Addr
        THEN [buffer |-> buffer, out |-> Append(state.out, Element(entries, buffer[1]))]
        ELSE [state EXCEPT !.buffer = buffer]

(* One turn of the loop.  read_line appends to `target`, which only an answer *)
(* clears: what did not parse stays in front of every later line.             *)
Feed(entries, state, line) ==
    LET buffer == IF line = Blank THEN state.buffer ELSE Append(state.buffer, line)
    IN  IF Len(buffer) = 1 /\ buffer[1] \in Addr
        THEN [buffer |-> <<>>, out |-> Append(state.out, Element(entries, buffer[1]))]
        ELSE [state EXCEPT !.buffer = buffer]

(* What has been printed after these lines.  At the end of the input          *)
(* read_line goes on to return Ok(0), a blank line: the loop never ends.      *)
StreamAnswers(entries, lines) ==
    LET fed[i \in 0 .. Len(lines)] ==
            IF i = 0 THEN [buffer |-> <<>>, out |-> <<>>]
            ELSE Feed(entries, fed[i - 1], lines[i])
    IN  fed[Len(lines)].out
=============================================================================
