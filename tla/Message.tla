------------------------------- MODULE Message -------------------------------
(***************************************************************************)
(* The frame of include/net/message.hpp: a header of four characters, the  *)
(* length of the body in decimal, and the body.  Lengths have the sizes of *)
(* the code.  A text longer than max_body_length is outside the model:     *)
(* operator= copies all of it into data_, past the end of the array.       *)
(***************************************************************************)
EXTENDS Integers, Sequences, FiniteSetsExt

header_length == 4

\* Mutant: 64 bytes instead of 2048.
max_body_length_64 == 64 - header_length

max_body_length == 2048 - header_length

Digit == {"0", "1", "2", "3", "4", "5", "6", "7", "8", "9"}
Numeral == <<"0", "1", "2", "3", "4", "5", "6", "7", "8", "9">>
ValueOf(d) == (CHOOSE v \in 1 .. 10 : Numeral[v] = d) - 1

\* Mutant: three digits.
encode_header_3(n) ==
    [i \in 1 .. header_length |->
        IF i = 1 THEN " " ELSE Numeral[1 + ((n \div (10 ^ (header_length - i))) % 10)]]

\* sprintf("%4d", n), for an n that body_length() has capped.
encode_header(n) ==
    [i \in 1 .. header_length |->
        LET weight == 10 ^ (header_length - i)
        IN  IF n < weight /\ i < header_length THEN " " ELSE Numeral[1 + ((n \div weight) % 10)]]

\* body_length(new_length)
body_length(new_length) ==
    IF new_length > max_body_length THEN max_body_length ELSE new_length

\* Mutant: the header announces itself as well.
message_whole_length(text) == encode_header(body_length(header_length + Len(text))) \o text

\* operator= of a text of at most max_body_length characters.
message(text) == encode_header(body_length(Len(text))) \o text

\* isspace of the C locale; a control character goes by its name.
Blank == {" ", "HT", "LF", "VT", "FF", "CR"}

\* The number of the digits from .. to of h.
Number(h, from, to) ==
    LET value[k \in from - 1 .. to] ==
            IF k < from THEN 0 ELSE 10 * value[k - 1] + ValueOf(h[k])
    IN  value[to]

\* The first position at or after i that is in S, or the one behind the last.
First(h, i, S) == Min({p \in i .. Len(h) : p \in S} \cup {Len(h) + 1})

\* atoi: leading blanks, a sign, then the digits up to the first other character.
atoi(h) ==
    LET start == First(h, 1, {p \in DOMAIN h : h[p] \notin Blank})
        signed == start <= Len(h) /\ h[start] \in {"-", "+"}
        first == IF signed THEN start + 1 ELSE start
        end == First(h, first, {p \in DOMAIN h : h[p] \notin Digit})
        magnitude == Number(h, first, end - 1)
    IN  IF signed /\ h[start] = "-" THEN - magnitude ELSE magnitude

\* Mutant: the length is compared as an int.
decode_header_signed(h) ==
    IF atoi(h) <= max_body_length
    THEN [ok |-> TRUE, body_length |-> atoi(h)]
    ELSE [ok |-> FALSE, body_length |-> 0]

\* decode_header: whether it succeeds, and the body_length_ it leaves.  A negative number is
\* huge as a size_t.
decode_header(h) ==
    IF atoi(h) \in 0 .. max_body_length
    THEN [ok |-> TRUE, body_length |-> atoi(h)]
    ELSE [ok |-> FALSE, body_length |-> 0]
=============================================================================
