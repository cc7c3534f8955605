---------------------------- MODULE MessageHeader ----------------------------
(***************************************************************************)
(* Every header there is to decode: the one of each length a message can   *)
(* have, and every header over an alphabet that has all kinds of           *)
(* characters, which a peer of another make can send.                      *)
(***************************************************************************)
EXTENDS Message

CONSTANT Alphabet     \* characters of the headers of others

VARIABLES
    announced,        \* a length, or -1 when header is another program's
    header

MHInit ==
    \/ announced = 0 /\ header = encode_header(0)
    \/ announced = -1 /\ header \in [1 .. header_length -> Alphabet]

\* The next length.
MHNext ==
    /\ announced \in 0 .. max_body_length - 1
    /\ announced' = announced + 1
    /\ header' = encode_header(announced')

MHSpec == MHInit /\ [][MHNext]_<<announced, header>>

\* The receiver gets back the length the sender wrote, for each of the 2045 lengths of a
\* body: four characters hold it and nothing in them is taken for something else.
LengthsSurvive ==
    announced >= 0 =>
        /\ Len(header) = header_length
        /\ decode_header(header) = [ok |-> TRUE, body_length |-> announced]

\* What a header stands for, said the other way round: it splits into blanks, at most one
\* sign, digits, and a rest that does not go on with them; the digits are a number's.
Splits(h) ==
    {s \in [blanks : 0 .. header_length, sign : 0 .. 1, digits : 0 .. header_length] :
        LET i == s.blanks
            j == i + s.sign
            k == j + s.digits
        IN  /\ k <= header_length
            /\ \A p \in 1 .. i : h[p] \in Blank
            /\ i = header_length \/ h[i + 1] \notin Blank
            /\ IF s.sign = 1 THEN h[j] \in {"-", "+"}
               ELSE i = header_length \/ h[i + 1] \notin {"-", "+"}
            /\ \A p \in j + 1 .. k : h[p] \in Digit
            /\ k = header_length \/ h[k + 1] \notin Digit}

Meaning(h, s) ==
    LET j == s.blanks + s.sign
        k == j + s.digits
        w(p) == IF p \in j + 1 .. k THEN ValueOf(h[p]) * 10 ^ (k - p) ELSE 0
        n == w(1) + w(2) + w(3) + w(4)
    IN  IF s.sign = 1 /\ h[j] = "-" THEN 0 - n ELSE n

\* No header makes the receiver expect more than data_ can hold: it is refused exactly when
\* its number is negative or above max_body_length, and one without digits announces an
\* empty body.
RefusedOrFits ==
    /\ Splits(header) # {}
    /\ \A s \in Splits(header) :
          LET v == Meaning(header, s)
          IN  decode_header(header) =
                IF v >= 0 /\ v <= max_body_length
                THEN [ok |-> TRUE, body_length |-> v]
                ELSE [ok |-> FALSE, body_length |-> 0]
=============================================================================
