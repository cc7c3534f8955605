---------------------------- MODULE MessageProofs ----------------------------
(***************************************************************************)
(* Theorems about messages on a stream: whatever the texts are, they are   *)
(* found again, so that the stream is a channel of texts.                  *)
(***************************************************************************)
EXTENDS MessageStream, MessageHeaderProofs

Chars == {Space} \cup Digit \cup UNION {Range(t) : t \in Text}

LEMMA TextType ==
    ASSUME NEW t \in Text
    PROVE  t \in Seq(Chars) /\ Len(t) \in 0 .. max_body_length
<1>1. t \in Seq(Range(t)) /\ Len(t) <= max_body_length
  BY MessageStreamAssumption
<1>2. Range(t) \subseteq Chars
  BY DEF Chars
<1>3. t \in Seq(Chars)
  BY <1>1, <1>2, SeqMonotonic
<1>4. Len(t) \in Nat
  BY <1>1, LenProperties
<1>5. \A n \in Nat : n <= max_body_length => n \in 0 .. max_body_length
  BY DEF max_body_length, header_length
<1> QED
  BY <1>1, <1>3, <1>4, <1>5

LEMMA HeaderType ==
    ASSUME NEW h, Header(h), NEW S, \A p \in 1 .. 4 : h[p] \in S
    PROVE  h \in Seq(S)
<1>1. h \in [1 .. 4 -> S]
  BY DEF Header
<1> QED
  BY <1>1, SeqDef

LEMMA EncodedType ==
    ASSUME NEW n \in 0 .. max_body_length
    PROVE  encode_header(n) \in Seq(Chars) /\ Len(encode_header(n)) = 4
<1> DEFINE h == encode_header(n)
           c(weight) == Numeral[1 + ((n \div weight) % 10)]
<1>1. n \in Nat /\ n < 10000
  BY DEF max_body_length, header_length
<1>2. /\ (n \div 1000) % 10 \in 0 .. 9 /\ (n \div 100) % 10 \in 0 .. 9
      /\ (n \div 10) % 10 \in 0 .. 9 /\ (n \div 1) % 10 \in 0 .. 9
  BY <1>1, Decimal
<1>3. ASSUME NEW x \in 0 .. 9
      PROVE  Numeral[1 + x] \in Chars
  <2>1. 1 + x \in 1 .. 10
    OBVIOUS
  <2> QED
    BY <2>1, Digits DEF Chars
<1>4. c(1000) \in Chars /\ c(100) \in Chars /\ c(10) \in Chars /\ c(1) \in Chars
  BY <1>2, <1>3
<1>5. /\ h[1] = IF n < 1000 THEN Space ELSE c(1000)
      /\ h[2] = IF n < 100 THEN Space ELSE c(100)
      /\ h[3] = IF n < 10 THEN Space ELSE c(10)
      /\ h[4] = c(1)
  BY EncodedIs
<1>6. Space \in Chars
  BY DEF Chars
<1>7. Header(h)
  BY EncodedIsHeader
<1> HIDE DEF h, c
<1>8. \A p \in 1 .. 4 : h[p] \in Chars
  <2>1. h[1] \in Chars
    BY <1>4, <1>5, <1>6
  <2>2. h[2] \in Chars
    BY <1>4, <1>5, <1>6
  <2>3. h[3] \in Chars
    BY <1>4, <1>5, <1>6
  <2>4. h[4] \in Chars
    BY <1>4, <1>5
  <2> QED
    BY <2>1, <2>2, <2>3, <2>4
<1>9. h \in Seq(Chars) /\ Len(h) = 4
  BY <1>7, <1>8, Length, HeaderType
<1> QED
  BY <1>9 DEF h

LEMMA MessageIs ==
    ASSUME NEW t \in Text
    PROVE  /\ message(t) \in Seq(Chars)
           /\ Len(message(t)) = 4 + Len(t)
           /\ \A i \in 1 .. 4 : message(t)[i] = encode_header(Len(t))[i]
           /\ \A i \in 1 .. Len(t) : message(t)[4 + i] = t[i]
<1>1. t \in Seq(Chars) /\ Len(t) \in 0 .. max_body_length
  BY TextType
<1>2. body_length(Len(t)) = Len(t)
  <2>1. \A n \in 0 .. max_body_length : body_length(n) = n
    BY DEF body_length, max_body_length, header_length
  <2> QED
    BY <1>1, <2>1
<1> DEFINE h == encode_header(Len(t))
<1>3. h \in Seq(Chars) /\ Len(h) = 4
  BY <1>1, EncodedType
<1>4. message(t) = h \o t
  BY <1>2 DEF message
<1> HIDE DEF h
<1>5. /\ h \o t \in Seq(Chars)
      /\ Len(h \o t) = Len(h) + Len(t)
      /\ \A i \in 1 .. Len(h) + Len(t) : (h \o t)[i] = IF i <= Len(h) THEN h[i] ELSE t[i - Len(h)]
  BY <1>1, <1>3, ConcatProperties
<1>6. Len(t) \in Nat
  BY <1>1, LenProperties
<1>7. \A i \in 1 .. 4 : (h \o t)[i] = h[i]
  BY <1>3, <1>5, <1>6
<1>8. \A i \in 1 .. Len(t) : (h \o t)[4 + i] = t[i]
  <2> TAKE i \in 1 .. Len(t)
  <2>1. 4 + i \in 1 .. Len(h) + Len(t) /\ ~(4 + i <= Len(h)) /\ (4 + i) - Len(h) = i
    BY <1>3, <1>6
  <2> QED
    BY <1>5, <2>1
<1> QED
  BY <1>3, <1>4, <1>5, <1>7, <1>8 DEF h

\* The p-th of the characters the receiver has not taken yet.
Char(arr, str, p) == IF p <= Len(arr) THEN arr[p] ELSE str[p - Len(arr)]

LEMMA TakeShifts ==
    ASSUME NEW arr \in Seq(Chars), NEW str \in Seq(Chars), NEW n \in 0 .. Len(arr)
    PROVE  LET rest == SubSeq(arr, n + 1, Len(arr))
           IN  /\ rest \in Seq(Chars)
               /\ Len(rest) = Len(arr) - n
               /\ \A p \in 1 .. Len(arr) - n + Len(str) :
                     Char(rest, str, p) = Char(arr, str, p + n)
<1> DEFINE rest == SubSeq(arr, n + 1, Len(arr))
<1>1. Len(arr) \in Nat /\ Len(str) \in Nat
  BY LenProperties
<1>2. \A i \in n + 1 .. Len(arr) : arr[i] \in Chars
  BY <1>1, ElementOfSeq
<1>3. n + 1 \in Int /\ Len(arr) \in Int
  BY <1>1
<1>4. /\ rest \in Seq(Chars)
      /\ Len(rest) = IF n + 1 <= Len(arr) THEN Len(arr) - (n + 1) + 1 ELSE 0
      /\ \A i \in 1 .. Len(arr) - (n + 1) + 1 : rest[i] = arr[(n + 1) + i - 1]
  BY <1>2, <1>3, SubSeqProperties
<1> HIDE DEF rest
<1>5. Len(rest) = Len(arr) - n
  BY <1>1, <1>4
<1>6. ASSUME NEW p \in 1 .. Len(arr) - n + Len(str)
      PROVE  Char(rest, str, p) = Char(arr, str, p + n)
  <2>1. CASE p <= Len(arr) - n
    <3>1. p \in 1 .. Len(arr) - (n + 1) + 1 /\ (n + 1) + p - 1 = p + n /\ p + n <= Len(arr)
      BY <1>1, <2>1
    <3> QED
      BY <1>4, <1>5, <2>1, <3>1 DEF Char
  <2>2. CASE ~(p <= Len(arr) - n)
    <3>1. ~(p + n <= Len(arr)) /\ p - (Len(arr) - n) = (p + n) - Len(arr)
      BY <1>1, <2>2
    <3> QED
      BY <1>5, <2>2, <3>1 DEF Char
  <2> QED
    BY <2>1, <2>2
<1> QED
  BY <1>4, <1>5, <1>6 DEF rest

LEMMA ArriveKeeps ==
    ASSUME NEW arr \in Seq(Chars), NEW str \in Seq(Chars), NEW n \in 1 .. Len(str)
    PROVE  LET more == arr \o SubSeq(str, 1, n)
               rest == SubSeq(str, n + 1, Len(str))
           IN  /\ more \in Seq(Chars) /\ rest \in Seq(Chars)
               /\ Len(more) + Len(rest) = Len(arr) + Len(str)
               /\ \A p \in 1 .. Len(arr) + Len(str) : Char(more, rest, p) = Char(arr, str, p)
<1> DEFINE part == SubSeq(str, 1, n)
           more == arr \o part
           rest == SubSeq(str, n + 1, Len(str))
<1>1. Len(arr) \in Nat /\ Len(str) \in Nat
  BY LenProperties
<1>2. /\ \A i \in n + 1 .. Len(str) : str[i] \in Chars
      /\ \A i \in 1 .. n : str[i] \in Chars
  BY <1>1, ElementOfSeq
<1>3. n + 1 \in Int /\ Len(str) \in Int /\ 1 \in Int /\ n \in Int
  BY <1>1
<1>4. /\ rest \in Seq(Chars)
      /\ Len(rest) = IF n + 1 <= Len(str) THEN Len(str) - (n + 1) + 1 ELSE 0
      /\ \A i \in 1 .. Len(str) - (n + 1) + 1 : rest[i] = str[(n + 1) + i - 1]
  BY <1>2, <1>3, SubSeqProperties
<1>5. /\ part \in Seq(Chars)
      /\ Len(part) = IF 1 <= n THEN n - 1 + 1 ELSE 0
      /\ \A i \in 1 .. n - 1 + 1 : part[i] = str[1 + i - 1]
  BY <1>2, <1>3, SubSeqProperties
<1> HIDE DEF rest, part
<1>6. /\ more \in Seq(Chars)
      /\ Len(more) = Len(arr) + Len(part)
      /\ \A i \in 1 .. Len(arr) + Len(part) :
            more[i] = IF i <= Len(arr) THEN arr[i] ELSE part[i - Len(arr)]
  BY <1>5, ConcatProperties
<1> HIDE DEF more
<1>7. Len(part) = n /\ Len(rest) = Len(str) - n /\ Len(more) = Len(arr) + n
  BY <1>1, <1>4, <1>5, <1>6
<1>8. ASSUME NEW p \in 1 .. Len(arr) + Len(str)
      PROVE  Char(more, rest, p) = Char(arr, str, p)
  <2>1. CASE p <= Len(arr)
    <3>1. p <= Len(more) /\ p \in 1 .. Len(arr) + Len(part)
      BY <1>1, <1>7, <2>1
    <3> QED
      BY <1>6, <2>1, <3>1 DEF Char
  <2>2. CASE ~(p <= Len(arr)) /\ p <= Len(arr) + n
    <3>1. p <= Len(more) /\ p \in 1 .. Len(arr) + Len(part)
          /\ p - Len(arr) \in 1 .. n - 1 + 1 /\ 1 + (p - Len(arr)) - 1 = p - Len(arr)
      BY <1>1, <1>7, <2>2
    <3>2. more[p] = part[p - Len(arr)] /\ part[p - Len(arr)] = str[p - Len(arr)]
      BY <1>5, <1>6, <2>2, <3>1
    <3> QED
      BY <2>2, <3>1, <3>2 DEF Char
  <2>3. CASE ~(p <= Len(arr) + n)
    <3>1. /\ ~(p <= Len(more)) /\ ~(p <= Len(arr))
          /\ p - Len(more) \in 1 .. Len(str) - (n + 1) + 1
          /\ (n + 1) + (p - Len(more)) - 1 = p - Len(arr)
      BY <1>1, <1>7, <2>3
    <3> QED
      BY <1>4, <3>1 DEF Char
  <2> QED
    BY <2>1, <2>2, <2>3
<1>9. Len(more) + Len(rest) = Len(arr) + Len(str)
  BY <1>1, <1>7
<1> QED
  BY <1>4, <1>6, <1>8, <1>9 DEF more, rest, part

LEMMA WriteExtends ==
    ASSUME NEW arr \in Seq(Chars), NEW str \in Seq(Chars), NEW m \in Seq(Chars)
    PROVE  LET more == str \o m
               total == Len(arr) + Len(str)
           IN  /\ more \in Seq(Chars)
               /\ Len(more) = Len(str) + Len(m)
               /\ \A p \in 1 .. total : Char(arr, more, p) = Char(arr, str, p)
               /\ \A i \in 1 .. Len(m) : Char(arr, more, total + i) = m[i]
<1> DEFINE more == str \o m
           total == Len(arr) + Len(str)
<1>1. Len(arr) \in Nat /\ Len(str) \in Nat /\ Len(m) \in Nat
  BY LenProperties
<1>2. /\ more \in Seq(Chars)
      /\ Len(more) = Len(str) + Len(m)
      /\ \A i \in 1 .. Len(str) + Len(m) :
            more[i] = IF i <= Len(str) THEN str[i] ELSE m[i - Len(str)]
  BY ConcatProperties
<1> HIDE DEF more
<1>3. ASSUME NEW p \in 1 .. total
      PROVE  Char(arr, more, p) = Char(arr, str, p)
  <2>1. CASE p <= Len(arr)
    BY <2>1 DEF Char
  <2>2. CASE ~(p <= Len(arr))
    <3>1. p - Len(arr) \in 1 .. Len(str) + Len(m) /\ p - Len(arr) <= Len(str)
      BY <1>1, <2>2
    <3> QED
      BY <1>2, <2>2, <3>1 DEF Char
  <2> QED
    BY <2>1, <2>2
<1>4. ASSUME NEW i \in 1 .. Len(m)
      PROVE  Char(arr, more, total + i) = m[i]
  <2>1. /\ ~(total + i <= Len(arr)) /\ (total + i) - Len(arr) = Len(str) + i
        /\ Len(str) + i \in 1 .. Len(str) + Len(m) /\ ~(Len(str) + i <= Len(str))
        /\ (Len(str) + i) - Len(str) = i
    BY <1>1
  <2> QED
    BY <1>2, <2>1 DEF Char
<1> QED
  BY <1>2, <1>3, <1>4 DEF more


\* Where the messages of snt begin: pos[k] characters into those not taken, the k-th; what
\* is before the first of those is taken.  next is the one being read, at base.
Placed(pos, snt, arr, str, next, base) ==
    /\ pos \in [1 .. Len(snt) + 1 -> Int]
    /\ pos[Len(snt) + 1] = Len(arr) + Len(str)
    /\ pos[next] = base
    /\ \A k \in 1 .. Len(snt) : pos[k + 1] = pos[k] + 4 + Len(snt[k])
    /\ \A k \in 1 .. Len(snt) + 1 : pos[k] <= Len(arr) + Len(str)
    /\ \A k \in 1 .. Len(snt) : \A i \in 1 .. 4 + Len(snt[k]) :
          pos[k] + i >= 1 => Char(arr, str, pos[k] + i) = message(snt[k])[i]

LEMMA Within ==
    ASSUME NEW x \in Int, NEW l \in Nat, NEW i \in 1 .. 4 + l, NEW total \in Int, NEW n \in Int,
           x + 4 + l <= total
    PROVE  /\ x + i <= total
           /\ x - n + i >= 1 => x - n + i \in 1 .. total - n
           /\ x + i >= 1 => x + i \in 1 .. total
OBVIOUS

\* Taking n characters moves all messages n characters to the front.
LEMMA TakePlaced ==
    ASSUME NEW snt \in Seq(Text), NEW arr \in Seq(Chars), NEW str \in Seq(Chars),
           NEW n \in 0 .. Len(arr), NEW next \in 1 .. Len(snt) + 1, NEW base \in Int,
           NEW pos, Placed(pos, snt, arr, str, next, base)
    PROVE  Placed([k \in 1 .. Len(snt) + 1 |-> pos[k] - n], snt,
                  SubSeq(arr, n + 1, Len(arr)), str, next, base - n)
<1> DEFINE rest == SubSeq(arr, n + 1, Len(arr))
           q == [k \in 1 .. Len(snt) + 1 |-> pos[k] - n]
<1>1. Len(arr) \in Nat /\ Len(str) \in Nat /\ Len(snt) \in Nat
  BY LenProperties
<1>2. /\ Len(rest) = Len(arr) - n
      /\ \A p \in 1 .. Len(arr) - n + Len(str) : Char(rest, str, p) = Char(arr, str, p + n)
  BY TakeShifts
<1>3. /\ pos \in [1 .. Len(snt) + 1 -> Int]
      /\ pos[Len(snt) + 1] = Len(arr) + Len(str)
      /\ pos[next] = base
      /\ \A k \in 1 .. Len(snt) : pos[k + 1] = pos[k] + 4 + Len(snt[k])
      /\ \A k \in 1 .. Len(snt) + 1 : pos[k] <= Len(arr) + Len(str)
  BY DEF Placed
<1>4. \A k \in 1 .. Len(snt) : \A i \in 1 .. 4 + Len(snt[k]) :
         pos[k] + i >= 1 => Char(arr, str, pos[k] + i) = message(snt[k])[i]
  BY DEF Placed
<1>5. \A k \in 1 .. Len(snt) : Len(snt[k]) \in Nat /\ k \in 1 .. Len(snt) + 1
                                /\ k + 1 \in 1 .. Len(snt) + 1
  BY <1>1, ElementOfSeq, TextType, LenProperties
<1> HIDE DEF rest
<1>6. /\ q \in [1 .. Len(snt) + 1 -> Int]
      /\ \A k \in 1 .. Len(snt) + 1 : q[k] = pos[k] - n
  BY <1>3
<1> HIDE DEF q
<1>7. q[Len(snt) + 1] = Len(rest) + Len(str) /\ q[next] = base - n
  <2>1. Len(snt) + 1 \in 1 .. Len(snt) + 1
    BY <1>1
  <2>2. q[Len(snt) + 1] = Len(arr) + Len(str) - n
    <3>1. q[Len(snt) + 1] = pos[Len(snt) + 1] - n
      BY <1>6, <2>1
    <3> QED
      BY <1>3, <3>1
  <2>3. q[next] = base - n
    BY <1>3, <1>6
  <2> QED
    BY <1>1, <1>2, <2>2, <2>3
<1>8. \A k \in 1 .. Len(snt) : q[k + 1] = q[k] + 4 + Len(snt[k])
  <2> TAKE k \in 1 .. Len(snt)
  <2>1. q[k] = pos[k] - n /\ q[k + 1] = pos[k + 1] - n /\ pos[k] \in Int
    BY <1>3, <1>5, <1>6
  <2>2. pos[k + 1] = pos[k] + 4 + Len(snt[k]) /\ Len(snt[k]) \in Nat
    BY <1>3, <1>5
  <2>3. \A x \in Int, l \in Nat : (x + 4 + l) - n = (x - n) + 4 + l
    OBVIOUS
  <2>4. (pos[k] + 4 + Len(snt[k])) - n = (pos[k] - n) + 4 + Len(snt[k])
    BY <2>1, <2>2, <2>3
  <2> QED
    BY <2>1, <2>2, <2>4
<1>9. \A k \in 1 .. Len(snt) + 1 : q[k] <= Len(rest) + Len(str)
  <2> TAKE k \in 1 .. Len(snt) + 1
  <2>1. q[k] = pos[k] - n /\ pos[k] \in Int /\ pos[k] <= Len(arr) + Len(str)
    BY <1>3, <1>6
  <2> QED
    BY <1>1, <1>2, <2>1
<1>10. ASSUME NEW k \in 1 .. Len(snt), NEW i \in 1 .. 4 + Len(snt[k]), q[k] + i >= 1
       PROVE  Char(rest, str, q[k] + i) = message(snt[k])[i]
  <2>1. q[k] = pos[k] - n /\ pos[k] \in Int /\ Len(snt[k]) \in Nat
    BY <1>3, <1>5, <1>6
  <2>2. pos[k] + i >= 1 /\ q[k] + i + n = pos[k] + i
    BY <1>10, <2>1, SMTT(30)
  <2>3. pos[k] + 4 + Len(snt[k]) <= Len(arr) + Len(str)
    BY <1>3, <1>5
  <2>4. q[k] + i \in 1 .. Len(arr) - n + Len(str)
    <3>1. Len(arr) + Len(str) \in Int /\ n \in Int
      BY <1>1
    <3>2. pos[k] - n + i >= 1 => pos[k] - n + i \in 1 .. (Len(arr) + Len(str)) - n
      BY <2>1, <2>3, <3>1, Within
    <3>3. (Len(arr) + Len(str)) - n = Len(arr) - n + Len(str)
      BY <1>1
    <3> QED
      BY <1>10, <2>1, <3>2, <3>3
  <2>5. Char(arr, str, pos[k] + i) = message(snt[k])[i]
    BY <1>4, <2>2
  <2> QED
    BY <1>2, <2>2, <2>4, <2>5
<1>11. Placed(q, snt, rest, str, next, base - n)
  BY <1>6, <1>7, <1>8, <1>9, <1>10 DEF Placed
<1> QED
  BY <1>11 DEF q, rest

\* Delivery leaves them where they are.
LEMMA ArrivePlaced ==
    ASSUME NEW snt \in Seq(Text), NEW arr \in Seq(Chars), NEW str \in Seq(Chars),
           NEW n \in 1 .. Len(str), NEW next, NEW base,
           NEW pos, Placed(pos, snt, arr, str, next, base)
    PROVE  Placed(pos, snt, arr \o SubSeq(str, 1, n), SubSeq(str, n + 1, Len(str)), next, base)
<1> DEFINE more == arr \o SubSeq(str, 1, n)
           rest == SubSeq(str, n + 1, Len(str))
<1>1. Len(arr) \in Nat /\ Len(str) \in Nat /\ Len(snt) \in Nat
  BY LenProperties
<1>2. /\ Len(more) + Len(rest) = Len(arr) + Len(str)
      /\ \A p \in 1 .. Len(arr) + Len(str) : Char(more, rest, p) = Char(arr, str, p)
  BY ArriveKeeps
<1>3. /\ pos \in [1 .. Len(snt) + 1 -> Int]
      /\ pos[Len(snt) + 1] = Len(arr) + Len(str)
      /\ pos[next] = base
      /\ \A k \in 1 .. Len(snt) : pos[k + 1] = pos[k] + 4 + Len(snt[k])
      /\ \A k \in 1 .. Len(snt) + 1 : pos[k] <= Len(arr) + Len(str)
  BY DEF Placed
<1>4. \A k \in 1 .. Len(snt) : \A i \in 1 .. 4 + Len(snt[k]) :
         pos[k] + i >= 1 => Char(arr, str, pos[k] + i) = message(snt[k])[i]
  BY DEF Placed
<1>5. \A k \in 1 .. Len(snt) : Len(snt[k]) \in Nat /\ k \in 1 .. Len(snt) + 1
                                /\ k + 1 \in 1 .. Len(snt) + 1
  BY <1>1, ElementOfSeq, TextType, LenProperties
<1> HIDE DEF rest, more
<1>6. ASSUME NEW k \in 1 .. Len(snt), NEW i \in 1 .. 4 + Len(snt[k]), pos[k] + i >= 1
      PROVE  Char(more, rest, pos[k] + i) = message(snt[k])[i]
  <2>1. pos[k] \in Int /\ Len(snt[k]) \in Nat
    BY <1>3, <1>5
  <2>2. pos[k] + 4 + Len(snt[k]) <= Len(arr) + Len(str)
    BY <1>3, <1>5
  <2>3. pos[k] + i \in 1 .. Len(arr) + Len(str)
    <3>1. Len(arr) + Len(str) \in Int /\ 0 \in Int
      BY <1>1
    <3> QED
      BY <1>6, <2>1, <2>2, <3>1, Within
  <2> QED
    BY <1>2, <1>4, <1>6, <2>3
<1>7. Placed(pos, snt, more, rest, next, base)
  BY <1>2, <1>3, <1>6 DEF Placed
<1> QED
  BY <1>7 DEF more, rest

\* A text that is written comes behind the others.
LEMMA WritePlaced ==
    ASSUME NEW snt \in Seq(Text), NEW arr \in Seq(Chars), NEW str \in Seq(Chars),
           NEW t \in Text, NEW next \in 1 .. Len(snt) + 1, NEW base,
           NEW pos, Placed(pos, snt, arr, str, next, base)
    PROVE  \E q : Placed(q, Append(snt, t), arr, str \o message(t), next, base)
<1> DEFINE m == message(t)
           more == str \o m
           app == Append(snt, t)
           total == Len(arr) + Len(str)
           L == Len(snt)
           q == [k \in 1 .. L + 2 |-> IF k = L + 2 THEN total + 4 + Len(t) ELSE pos[k]]
<1>1. Len(arr) \in Nat /\ Len(str) \in Nat /\ L \in Nat
  BY LenProperties
<1>2. /\ m \in Seq(Chars) /\ Len(m) = 4 + Len(t) /\ Len(t) \in Nat
  BY MessageIs, TextType, LenProperties
<1>3. /\ Len(more) = Len(str) + Len(m)
      /\ \A p \in 1 .. total : Char(arr, more, p) = Char(arr, str, p)
      /\ \A i \in 1 .. Len(m) : Char(arr, more, total + i) = m[i]
  BY <1>2, WriteExtends
<1>4. /\ pos \in [1 .. L + 1 -> Int]
      /\ pos[L + 1] = total
      /\ pos[next] = base
      /\ \A k \in 1 .. L : pos[k + 1] = pos[k] + 4 + Len(snt[k])
      /\ \A k \in 1 .. L + 1 : pos[k] <= total
  BY DEF Placed
<1>5. \A k \in 1 .. L : \A i \in 1 .. 4 + Len(snt[k]) :
         pos[k] + i >= 1 => Char(arr, str, pos[k] + i) = message(snt[k])[i]
  BY DEF Placed
<1>6. \A k \in 1 .. L : Len(snt[k]) \in Nat /\ k \in 1 .. L + 1 /\ k + 1 \in 1 .. L + 1
  BY <1>1, ElementOfSeq, TextType, LenProperties
<1>7. Len(app) = L + 1 /\ app[L + 1] = t /\ \A k \in 1 .. L : app[k] = snt[k]
  BY AppendProperties
<1> HIDE DEF more, m, app
<1>8. /\ q \in [1 .. L + 2 -> Int]
      /\ q[L + 2] = total + 4 + Len(t)
      /\ \A k \in 1 .. L + 1 : q[k] = pos[k]
  BY <1>1, <1>2, <1>4
<1> HIDE DEF q, L
<1>9. Len(app) + 1 = L + 2 /\ Len(arr) + Len(more) = total + 4 + Len(t)
  BY <1>1, <1>2, <1>3, <1>7
<1>10. \A k \in 1 .. L + 1 : q[k + 1] = q[k] + 4 + Len(app[k])
  <2> TAKE k \in 1 .. L + 1
  <2>1. CASE k = L + 1
    <3>1. k + 1 = L + 2 /\ app[k] = t /\ q[k] = total
      BY <1>1, <1>4, <1>7, <1>8, <2>1
    <3> QED
      BY <1>8, <3>1
  <2>2. CASE k # L + 1
    <3>1. k \in 1 .. L
      BY <1>1, <2>2
    <3>2. q[k + 1] = pos[k + 1] /\ q[k] = pos[k] /\ app[k] = snt[k]
      BY <1>6, <1>7, <1>8, <3>1
    <3> QED
      BY <1>4, <3>1, <3>2
  <2> QED
    BY <2>1, <2>2
<1>11. \A k \in 1 .. L + 2 : q[k] <= total + 4 + Len(t)
  <2> TAKE k \in 1 .. L + 2
  <2>1. CASE k = L + 2
    BY <1>1, <1>2, <1>8, <2>1
  <2>2. CASE k # L + 2
    <3>1. k \in 1 .. L + 1
      BY <1>1, <2>2
    <3>2. q[k] = pos[k] /\ pos[k] <= total /\ pos[k] \in Int
      BY <1>4, <1>8, <3>1
    <3> QED
      BY <1>1, <1>2, <3>2
  <2> QED
    BY <2>1, <2>2
<1>12. ASSUME NEW k \in 1 .. L + 1, NEW i \in 1 .. 4 + Len(app[k]), q[k] + i >= 1
       PROVE  Char(arr, more, q[k] + i) = message(app[k])[i]
  <2>1. CASE k = L + 1
    <3>1. q[k] = total /\ app[k] = t
      BY <1>1, <1>4, <1>7, <1>8, <2>1
    <3>2. i \in 1 .. Len(m)
      BY <1>2, <3>1
    <3> QED
      BY <1>3, <3>1, <3>2 DEF m
  <2>2. CASE k # L + 1
    <3>1. k \in 1 .. L
      BY <1>1, <2>2
    <3>2. q[k] = pos[k] /\ app[k] = snt[k] /\ pos[k] \in Int /\ Len(snt[k]) \in Nat
      BY <1>4, <1>6, <1>7, <1>8, <3>1
    <3>3. pos[k] + 4 + Len(snt[k]) <= total
      BY <1>4, <1>6, <3>1
    <3>4. i \in 1 .. 4 + Len(snt[k]) /\ pos[k] + i >= 1
      BY <1>12, <3>2
    <3>5. pos[k] + i \in 1 .. total
      <4>1. total \in Int /\ 0 \in Int
        BY <1>1
      <4> QED
        BY <3>2, <3>3, <3>4, <4>1, Within
    <3>6. Char(arr, str, pos[k] + i) = message(snt[k])[i]
      BY <1>5, <3>1, <3>4
    <3> QED
      BY <1>3, <3>2, <3>5, <3>6
  <2> QED
    BY <2>1, <2>2
<1>13. q[next] = base
  BY <1>4, <1>8 DEF L
<1>14. Placed(q, app, arr, more, next, base)
  BY <1>7, <1>8, <1>9, <1>10, <1>11, <1>12, <1>13 DEF Placed
<1> QED
  BY <1>14 DEF app, more, m


\* What is read is what was sent first, and the rest of it is on its way, each message whole,
\* the next one's header first, or behind it its body of the length that was announced.
StreamInv ==
    /\ sent \in Seq(Text) /\ received \in Seq(Text)
    /\ arrived \in Seq(Chars) /\ stream \in Seq(Chars)
    /\ Len(received) <= Len(sent)
    /\ \A k \in 1 .. Len(received) : received[k] = sent[k]
    /\ \/ /\ reading = "header"
          /\ \E pos : Placed(pos, sent, arrived, stream, Len(received) + 1, 0)
       \/ /\ reading = "body"
          /\ Len(received) < Len(sent)
          /\ length = Len(sent[Len(received) + 1])
          /\ \E pos : Placed(pos, sent, arrived, stream, Len(received) + 1, -4)

LEMMA StreamInvInit == Init => StreamInv
<1> SUFFICES ASSUME Init PROVE StreamInv
  OBVIOUS
<1>1. sent = <<>> /\ stream = <<>> /\ arrived = <<>> /\ received = <<>> /\ reading = "header"
  BY DEF Init
<1>2. /\ <<>> \in Seq(Text) /\ <<>> \in Seq(Chars) /\ Len(<<>>) = 0
  BY EmptySeq
<1> DEFINE pos == [k \in 1 .. 1 |-> 0]
<1>3. Placed(pos, sent, arrived, stream, Len(received) + 1, 0)
  BY <1>1, <1>2 DEF Placed
<1> HIDE DEF pos
<1>4. \A k \in 1 .. Len(received) : received[k] = sent[k]
  BY <1>1
<1> QED
  BY <1>1, <1>2, <1>3, <1>4 DEF StreamInv

LEMMA WriteKeepsInv ==
    ASSUME StreamInv, NEW t \in Text, do_write_(t)
    PROVE  StreamInv'
<1>1. /\ sent' = Append(sent, t) /\ stream' = stream \o message(t)
      /\ arrived' = arrived /\ reading' = reading /\ length' = length /\ received' = received
  BY DEF do_write_
<1>2. /\ sent \in Seq(Text) /\ received \in Seq(Text)
      /\ arrived \in Seq(Chars) /\ stream \in Seq(Chars)
      /\ Len(received) <= Len(sent)
      /\ \A k \in 1 .. Len(received) : received[k] = sent[k]
  BY DEF StreamInv
<1>3. Len(sent) \in Nat /\ Len(received) \in Nat
  BY <1>2, LenProperties
<1>4. /\ sent' \in Seq(Text) /\ Len(sent') = Len(sent) + 1
      /\ \A k \in 1 .. Len(sent) : sent'[k] = sent[k]
  BY <1>1, <1>2, AppendProperties
<1>5. message(t) \in Seq(Chars)
  BY MessageIs
<1>6. stream' \in Seq(Chars)
  BY <1>1, <1>2, <1>5, WriteExtends
<1>7. \A k \in 1 .. Len(received) : received[k] = sent'[k]
  BY <1>2, <1>3, <1>4
<1>8. Len(received) <= Len(sent')
  BY <1>2, <1>3, <1>4
<1>9. Len(received) + 1 \in 1 .. Len(sent) + 1
  BY <1>2, <1>3
<1>10. ASSUME NEW base, NEW pos, Placed(pos, sent, arrived, stream, Len(received) + 1, base)
       PROVE  \E q : Placed(q, sent', arrived, stream', Len(received) + 1, base)
  BY <1>1, <1>2, <1>9, <1>10, WritePlaced
<1>11. CASE reading = "header"
  <2>1. \E pos : Placed(pos, sent, arrived, stream, Len(received) + 1, 0)
    BY <1>11 DEF StreamInv
  <2>2. \E q : Placed(q, sent', arrived, stream', Len(received) + 1, 0)
    BY <1>10, <2>1
  <2> QED
    BY <1>1, <1>2, <1>4, <1>6, <1>7, <1>8, <1>11, <2>2 DEF StreamInv
<1>12. CASE reading = "body"
  <2>1. /\ Len(received) < Len(sent) /\ length = Len(sent[Len(received) + 1])
        /\ \E pos : Placed(pos, sent, arrived, stream, Len(received) + 1, -4)
    BY <1>12 DEF StreamInv
  <2>2. \E q : Placed(q, sent', arrived, stream', Len(received) + 1, -4)
    BY <1>10, <2>1
  <2>3. Len(received) < Len(sent') /\ Len(received) + 1 \in 1 .. Len(sent)
    BY <1>3, <1>4, <2>1
  <2>4. length = Len(sent'[Len(received) + 1])
    BY <1>4, <2>1, <2>3
  <2> QED
    BY <1>1, <1>2, <1>4, <1>6, <1>7, <1>8, <1>12, <2>2, <2>3, <2>4 DEF StreamInv
<1> QED
  BY <1>11, <1>12 DEF StreamInv

LEMMA ArriveKeepsInv ==
    ASSUME StreamInv, NEW n \in 1 .. Len(stream), arrive(n)
    PROVE  StreamInv'
<1>1. /\ arrived' = arrived \o SubSeq(stream, 1, n)
      /\ stream' = SubSeq(stream, n + 1, Len(stream))
      /\ sent' = sent /\ reading' = reading /\ length' = length /\ received' = received
  BY DEF arrive
<1>2. /\ sent \in Seq(Text) /\ arrived \in Seq(Chars) /\ stream \in Seq(Chars)
  BY DEF StreamInv
<1>3. arrived' \in Seq(Chars) /\ stream' \in Seq(Chars)
  BY <1>1, <1>2, ArriveKeeps
<1>4. ASSUME NEW base, NEW pos, Placed(pos, sent, arrived, stream, Len(received) + 1, base)
      PROVE  Placed(pos, sent, arrived', stream', Len(received) + 1, base)
  BY <1>1, <1>2, <1>4, ArrivePlaced
<1> QED
  BY <1>1, <1>3, <1>4 DEF StreamInv

LEMMA HeaderKeepsInv ==
    ASSUME StreamInv, do_read_header_
    PROVE  StreamInv'
<1>1. /\ reading = "header" /\ Len(arrived) >= header_length
      /\ arrived' = SubSeq(arrived, header_length + 1, Len(arrived))
      /\ LET d == decode_header(SubSeq(arrived, 1, header_length))
         IN  /\ reading' = IF d.ok THEN "body" ELSE "undecodable"
             /\ length' = d.body_length
      /\ sent' = sent /\ stream' = stream /\ received' = received
  BY DEF do_read_header_, Take
<1>2. header_length = 4
  BY DEF header_length
<1>3. /\ sent \in Seq(Text) /\ received \in Seq(Text)
      /\ arrived \in Seq(Chars) /\ stream \in Seq(Chars)
      /\ Len(received) <= Len(sent)
      /\ \A k \in 1 .. Len(received) : received[k] = sent[k]
  BY DEF StreamInv
<1>4. Len(sent) \in Nat /\ Len(received) \in Nat /\ Len(arrived) \in Nat /\ Len(stream) \in Nat
  BY <1>3, LenProperties
<1> DEFINE next == Len(received) + 1
<1>5. PICK pos : Placed(pos, sent, arrived, stream, next, 0)
  BY <1>1 DEF StreamInv
<1>6. /\ pos[Len(sent) + 1] = Len(arrived) + Len(stream) /\ pos[next] = 0
      /\ \A k \in 1 .. Len(sent) : \A i \in 1 .. 4 + Len(sent[k]) :
            pos[k] + i >= 1 => Char(arrived, stream, pos[k] + i) = message(sent[k])[i]
  BY <1>5 DEF Placed
<1>7. Len(received) # Len(sent)
  BY <1>1, <1>2, <1>4, <1>6
<1>8. next \in 1 .. Len(sent) /\ next \in 1 .. Len(sent) + 1 /\ Len(received) < Len(sent)
  BY <1>3, <1>4, <1>7
<1>9. sent[next] \in Text
  BY <1>3, <1>8, ElementOfSeq
<1> DEFINE l == Len(sent[next])
           h == SubSeq(arrived, 1, 4)
<1>10. l \in 0 .. max_body_length
  BY <1>9, TextType
<1>11. l \in Nat
  BY <1>9, TextType, LenProperties
<1>12. \A i \in 1 .. 4 : arrived[i] = encode_header(l)[i]
  <2> TAKE i \in 1 .. 4
  <2>1. i \in 1 .. 4 + l /\ 0 + i = i /\ i >= 1
    BY <1>11
  <2>2. Char(arrived, stream, pos[next] + i) = message(sent[next])[i]
    <3> HIDE DEF next
    <3> QED
      BY <1>6, <1>8, <2>1
  <2>3. Char(arrived, stream, i) = arrived[i]
    BY <1>1, <1>2, <1>4 DEF Char
  <2>4. message(sent[next])[i] = encode_header(l)[i]
    BY <1>9, MessageIs
  <2> HIDE DEF next, l
  <2> QED
    BY <1>6, <2>1, <2>2, <2>3, <2>4
<1>13. h = encode_header(l)
  <2>1. encode_header(l) \in Seq(Chars) /\ Len(encode_header(l)) = 4
    BY <1>10, EncodedType
  <2>2. \A i \in 1 .. 4 : arrived[i] \in Chars
    BY <1>1, <1>2, <1>3, <1>4, ElementOfSeq
  <2>3. /\ h \in Seq(Chars)
        /\ Len(h) = IF 1 <= 4 THEN 4 - 1 + 1 ELSE 0
        /\ \A i \in 1 .. 4 - 1 + 1 : h[i] = arrived[1 + i - 1]
    BY <2>2, SubSeqProperties
  <2> HIDE DEF h, l
  <2>4. Len(h) = 4 /\ \A i \in 1 .. 4 : h[i] = arrived[i]
    BY <2>3
  <2>5. \A i \in 1 .. Len(h) : h[i] = encode_header(l)[i]
    BY <1>12, <2>4
  <2> QED
    BY <2>1, <2>3, <2>4, <2>5, SeqEqual
<1>14. decode_header(h) = [ok |-> TRUE, body_length |-> l]
  <2> HIDE DEF h, l
  <2> QED
    BY <1>10, <1>13, EncodedDecodes
<1>15. reading' = "body" /\ length' = l
  <2> HIDE DEF h, l
  <2>1. reading' = (IF decode_header(h).ok THEN "body" ELSE "undecodable")
        /\ length' = decode_header(h).body_length
    BY <1>1, <1>2 DEF h
  <2> QED
    BY <1>14, <2>1
<1>16. /\ Placed([k \in 1 .. Len(sent) + 1 |-> pos[k] - 4], sent,
                 SubSeq(arrived, 4 + 1, Len(arrived)), stream, next, 0 - 4)
       /\ SubSeq(arrived, 4 + 1, Len(arrived)) \in Seq(Chars)
  <2>1. 4 \in 0 .. Len(arrived) /\ 0 \in Int
    BY <1>1, <1>2, <1>4
  <2> HIDE DEF next
  <2> QED
    BY <1>3, <1>5, <1>8, <2>1, TakePlaced, TakeShifts
<1>17. 0 - 4 = -4
  OBVIOUS
<1>18. /\ arrived' \in Seq(Chars)
       /\ \E q : Placed(q, sent, arrived', stream, next, -4)
  BY <1>1, <1>2, <1>16, <1>17
<1> QED
  BY <1>1, <1>3, <1>8, <1>15, <1>18 DEF StreamInv

LEMMA BodyKeepsInv ==
    ASSUME StreamInv, do_read_body_
    PROVE  StreamInv'
<1>1. /\ reading = "body" /\ Len(arrived) >= length
      /\ arrived' = SubSeq(arrived, length + 1, Len(arrived))
      /\ received' = Append(received, SubSeq(arrived, 1, length))
      /\ reading' = "header"
      /\ sent' = sent /\ stream' = stream /\ length' = length
  BY DEF do_read_body_, Take
<1>2. /\ sent \in Seq(Text) /\ received \in Seq(Text)
      /\ arrived \in Seq(Chars) /\ stream \in Seq(Chars)
      /\ \A k \in 1 .. Len(received) : received[k] = sent[k]
  BY DEF StreamInv
<1>3. Len(sent) \in Nat /\ Len(received) \in Nat /\ Len(arrived) \in Nat /\ Len(stream) \in Nat
  BY <1>2, LenProperties
<1> DEFINE next == Len(received) + 1
           t == sent[next]
           body == SubSeq(arrived, 1, length)
<1>4. /\ Len(received) < Len(sent) /\ length = Len(t)
      /\ \E pos : Placed(pos, sent, arrived, stream, next, -4)
  BY <1>1 DEF StreamInv
<1>5. PICK pos : Placed(pos, sent, arrived, stream, next, -4)
  BY <1>4
<1>6. next \in 1 .. Len(sent) /\ next \in 1 .. Len(sent) + 1 /\ next + 1 \in 1 .. Len(sent) + 1
  BY <1>3, <1>4
<1>7. t \in Text
  BY <1>2, <1>6, ElementOfSeq
<1>8. t \in Seq(Chars) /\ length \in Nat /\ length \in 0 .. Len(arrived)
  <2>1. t \in Seq(Chars) /\ Len(t) \in Nat
    BY <1>7, TextType, LenProperties
  <2> QED
    BY <1>1, <1>3, <1>4, <2>1
<1> HIDE DEF t
<1>9. /\ pos[next] = -4 /\ pos[next + 1] = pos[next] + 4 + length
      /\ \A i \in 1 .. 4 + length :
            pos[next] + i >= 1 => Char(arrived, stream, pos[next] + i) = message(t)[i]
      /\ pos \in [1 .. Len(sent) + 1 -> Int]
  BY <1>4, <1>5, <1>6 DEF Placed, t
<1> HIDE DEF next
<1>10. \A i \in 1 .. length : arrived[i] = t[i]
  <2> TAKE i \in 1 .. length
  <2>1. 4 + i \in 1 .. 4 + length /\ -4 + (4 + i) = i /\ i >= 1 /\ i <= Len(arrived)
    BY <1>3, <1>8
  <2>2. Char(arrived, stream, i) = message(t)[4 + i]
    BY <1>9, <2>1
  <2>3. Char(arrived, stream, i) = arrived[i]
    BY <2>1 DEF Char
  <2>4. message(t)[4 + i] = t[i]
    BY <1>4, <1>7, MessageIs
  <2> QED
    BY <2>2, <2>3, <2>4
<1>11. body = t
  <2>1. \A i \in 1 .. length : arrived[i] \in Chars
    BY <1>2, <1>3, <1>8, ElementOfSeq
  <2>2. 1 \in Int /\ length \in Int
    BY <1>8
  <2>3. /\ body \in Seq(Chars)
        /\ Len(body) = IF 1 <= length THEN length - 1 + 1 ELSE 0
        /\ \A i \in 1 .. length - 1 + 1 : body[i] = arrived[1 + i - 1]
    BY <2>1, <2>2, SubSeqProperties
  <2> HIDE DEF body
  <2>4. Len(body) = length /\ \A i \in 1 .. length : body[i] = arrived[i]
    BY <1>8, <2>3
  <2>5. Len(body) = Len(t) /\ \A i \in 1 .. Len(body) : body[i] = t[i]
    BY <1>4, <1>10, <2>4
  <2> QED
    BY <1>8, <2>3, <2>5, SeqEqual
<1>12. /\ received' \in Seq(Text) /\ Len(received') = Len(received) + 1
       /\ \A k \in 1 .. Len(received) : received'[k] = received[k]
       /\ received'[Len(received) + 1] = t
  <2>1. received' = Append(received, body)
    BY <1>1
  <2> HIDE DEF body
  <2> QED
    BY <1>2, <1>7, <1>11, <2>1, AppendProperties
<1>13. \A k \in 1 .. Len(received') : received'[k] = sent[k]
  <2> TAKE k \in 1 .. Len(received')
  <2>1. CASE k = Len(received) + 1
    BY <1>12, <2>1 DEF t, next
  <2>2. CASE k # Len(received) + 1
    <3>1. k \in 1 .. Len(received)
      BY <1>3, <1>12, <2>2
    <3> QED
      BY <1>2, <1>12, <3>1
  <2> QED
    BY <2>1, <2>2
<1> DEFINE q == [k \in 1 .. Len(sent) + 1 |-> pos[k] - length]
<1>14. /\ Placed(q, sent, SubSeq(arrived, length + 1, Len(arrived)), stream, next, -4 - length)
       /\ SubSeq(arrived, length + 1, Len(arrived)) \in Seq(Chars)
  <2>1. -4 \in Int
    OBVIOUS
  <2> QED
    BY <1>2, <1>5, <1>6, <1>8, <2>1, TakePlaced, TakeShifts
<1>15. q[next + 1] = 0
  <2>1. q[next + 1] = pos[next + 1] - length
    BY <1>6
  <2>2. pos[next + 1] = -4 + 4 + length
    BY <1>9
  <2> QED
    BY <1>8, <2>1, <2>2
<1> HIDE DEF q
<1>16. Placed(q, sent, arrived', stream, next + 1, 0)
  BY <1>1, <1>14, <1>15 DEF Placed
<1>17. Len(received') + 1 = next + 1 /\ Len(received') <= Len(sent)
  BY <1>3, <1>4, <1>12 DEF next
<1>18. \E p : Placed(p, sent', arrived', stream', Len(received') + 1, 0)
  BY <1>1, <1>16, <1>17
<1>19. arrived' \in Seq(Chars)
  BY <1>1, <1>14
<1> QED
  BY <1>1, <1>2, <1>12, <1>13, <1>17, <1>18, <1>19 DEF StreamInv

LEMMA StreamInvStep ==
    ASSUME StreamInv, [Next]_vars
    PROVE  StreamInv'
<1>1. ASSUME NEW t \in Text, do_write_(t) PROVE StreamInv'
  BY <1>1, WriteKeepsInv
<1>2. CASE Arrive
  BY <1>2, ArriveKeepsInv DEF Arrive
<1>3. CASE do_read_header_
  BY <1>3, HeaderKeepsInv
<1>4. CASE do_read_body_
  BY <1>4, BodyKeepsInv
<1>5. CASE UNCHANGED vars
  BY <1>5 DEF vars, StreamInv
<1> QED
  BY <1>1, <1>2, <1>3, <1>4, <1>5 DEF Next, Read

LEMMA StreamInvariant == Spec => []StreamInv
BY StreamInvInit, StreamInvStep, PTL DEF Spec

\* The two chains of the code agree on where a message ends: the receiver's texts are the
\* first of the sender's, for all texts, all that is sent and all pieces it arrives in, and
\* do_read_header_ never takes the characters of a body for a header.
THEOREM StreamIsReadAsSent == Spec => []ReadAsSent
<1>1. StreamInv => ReadAsSent
  <2> SUFFICES ASSUME StreamInv PROVE ReadAsSent
    OBVIOUS
  <2>1. /\ sent \in Seq(Text) /\ received \in Seq(Text) /\ Len(received) <= Len(sent)
        /\ \A k \in 1 .. Len(received) : received[k] = sent[k]
        /\ reading # "undecodable"
    BY DEF StreamInv
  <2>2. Len(sent) \in Nat /\ Len(received) \in Nat
    BY <2>1, LenProperties
  <2> DEFINE n == Len(received)
             s == SubSeq(sent, 1, n)
             r == SubSeq(received, 1, n)
  <2>3. /\ \A i \in 1 .. n : sent[i] \in Text /\ received[i] \in Text
        /\ 1 \in Int /\ n \in Int
    BY <2>1, <2>2, ElementOfSeq
  <2>4. /\ s \in Seq(Text) /\ Len(s) = IF 1 <= n THEN n - 1 + 1 ELSE 0
        /\ \A i \in 1 .. n - 1 + 1 : s[i] = sent[1 + i - 1]
    BY <2>3, SubSeqProperties
  <2>5. r = received
    BY <2>1, SubSeqFull
  <2> HIDE DEF s, r
  <2>6. Len(s) = n /\ \A i \in 1 .. n : s[i] = sent[i]
    BY <2>2, <2>4
  <2>7. \A i \in 1 .. Len(s) : s[i] = received[i]
    BY <2>1, <2>6
  <2>8. s = received
    BY <2>1, <2>4, <2>6, <2>7, SeqEqual
  <2> QED
    BY <2>1, <2>5, <2>8 DEF ReadAsSent, IsPrefix, s, r
<1> QED
  BY <1>1, StreamInvariant, PTL

\* What async_read waits for was sent or is there: the lengths in the headers add up to the
\* characters that were written, so that neither side waits for the other.
THEOREM ReaderNeverStarves == Spec => []NeverStarves
<1>1. StreamInv => NeverStarves
  <2> SUFFICES ASSUME StreamInv, Len(received) < Len(sent), stream = <<>>
               PROVE  Len(arrived) >= (IF reading = "header" THEN header_length ELSE length)
    BY DEF NeverStarves
  <2>1. /\ sent \in Seq(Text) /\ received \in Seq(Text) /\ arrived \in Seq(Chars)
        /\ Len(sent) \in Nat /\ Len(received) \in Nat /\ Len(arrived) \in Nat
        /\ Len(stream) = 0
    BY LenProperties DEF StreamInv
  <2> DEFINE next == Len(received) + 1
  <2>2. next \in 1 .. Len(sent) /\ next + 1 \in 1 .. Len(sent) + 1
    BY <2>1
  <2>3. sent[next] \in Text
    BY <2>1, <2>2, ElementOfSeq
  <2>4. Len(sent[next]) \in Nat
    BY <2>3, TextType, LenProperties
  <2>5. ASSUME NEW pos, NEW base \in Int, Placed(pos, sent, arrived, stream, next, base)
        PROVE  base + 4 + Len(sent[next]) <= Len(arrived)
    <3>1. /\ pos[next] = base
          /\ pos[next + 1] = pos[next] + 4 + Len(sent[next])
          /\ pos[next + 1] <= Len(arrived) + Len(stream)
      <4> HIDE DEF next
      <4> QED
        BY <2>2, <2>5 DEF Placed
    <3> HIDE DEF next
    <3>2. base + 4 + Len(sent[next]) <= Len(arrived) + 0
      BY <2>1, <3>1
    <3>3. \A n \in Nat : n + 0 = n
      OBVIOUS
    <3> QED
      BY <2>1, <3>2, <3>3
  <2>6. CASE reading = "header"
    <3>1. PICK pos : Placed(pos, sent, arrived, stream, next, 0)
      BY <2>6 DEF StreamInv
    <3>2. 0 + 4 + Len(sent[next]) <= Len(arrived)
      <4>1. 0 \in Int
        OBVIOUS
      <4> HIDE DEF next
      <4> QED
        BY <2>5, <3>1, <4>1
    <3> HIDE DEF next
    <3> QED
      BY <2>1, <2>4, <2>6, <3>2 DEF header_length
  <2>7. CASE reading = "body"
    <3>1. PICK pos : Placed(pos, sent, arrived, stream, next, -4)
      BY <2>7 DEF StreamInv
    <3>2. -4 + 4 + Len(sent[next]) <= Len(arrived)
      <4>1. -4 \in Int
        OBVIOUS
      <4> HIDE DEF next
      <4> QED
        BY <2>5, <3>1, <4>1
    <3>3. length = Len(sent[next])
      BY <2>7 DEF StreamInv
    <3> HIDE DEF next
    <3> QED
      BY <2>1, <2>4, <2>7, <3>2, <3>3
  <2> QED
    BY <2>6, <2>7 DEF StreamInv
<1> QED
  BY <1>1, StreamInvariant, PTL

-----------------------------------------------------------------------------
(* The channel.                                                             *)

\* The texts that are under way.
Queue == SubSeq(sent, Len(received) + 1, Len(sent))

LEMMA QueueIs ==
    ASSUME NEW snt \in Seq(Text), NEW rcv \in Seq(Text), Len(rcv) <= Len(snt)
    PROVE  LET q == SubSeq(snt, Len(rcv) + 1, Len(snt))
           IN  /\ q \in Seq(Text) /\ Len(q) = Len(snt) - Len(rcv)
               /\ \A i \in 1 .. Len(snt) - Len(rcv) : q[i] = snt[Len(rcv) + i]
               /\ Len(snt) \in Nat /\ Len(rcv) \in Nat
<1>1. Len(snt) \in Nat /\ Len(rcv) \in Nat
  BY LenProperties
<1> DEFINE m == Len(rcv) + 1
           n == Len(snt)
           q == SubSeq(snt, m, n)
<1>2. m \in Int /\ n \in Int /\ \A i \in m .. n : snt[i] \in Text
  BY <1>1, ElementOfSeq
<1>3. /\ q \in Seq(Text)
      /\ Len(q) = IF m <= n THEN n - m + 1 ELSE 0
      /\ \A i \in 1 .. n - m + 1 : q[i] = snt[m + i - 1]
  BY <1>2, SubSeqProperties
<1> HIDE DEF q
<1>4. Len(q) = n - Len(rcv) /\ \A i \in 1 .. n - Len(rcv) : q[i] = snt[Len(rcv) + i]
  BY <1>1, <1>3
<1> QED
  BY <1>1, <1>3, <1>4 DEF q

LEMMA QueueHead ==
    ASSUME NEW S, NEW s \in Seq(S), NEW m \in 1 .. Len(s)
    PROVE  LET q == SubSeq(s, m, Len(s))
           IN  q # <<>> /\ Head(q) = s[m] /\ Tail(q) = SubSeq(s, m + 1, Len(s))
<1> DEFINE q == SubSeq(s, m, Len(s))
<1>1. Len(s) \in Nat /\ Len(s) \in m .. Len(s)
  BY LenProperties
<1>2. q # <<>> /\ Head(q) = s[m] /\ Tail(q) = SubSeq(s, m + 1, Len(s))
  BY <1>1, HeadTailOfSubSeq, SMTT(30)
<1> QED
  BY <1>2

LEMMA AppendLast ==
    ASSUME NEW S, NEW s \in Seq(S), NEW e
    PROVE  Len(Append(s, e)) = Len(s) + 1 /\ Append(s, e)[Len(s) + 1] = e
<1>1. s \in Seq(S \cup {e}) /\ e \in S \cup {e}
  BY SeqMonotonic
<1> QED
  BY <1>1, AppendProperties

LEMMA WriteSends ==
    ASSUME StreamInv, StreamInv', NEW t \in Text, do_write_(t)
    PROVE  channel!Send(t)
<1>1. sent' = Append(sent, t) /\ received' = received
  BY DEF do_write_
<1>2. /\ Len(sent') = Len(sent) + 1 /\ sent'[Len(sent) + 1] = t
      /\ \A k \in 1 .. Len(sent) : sent'[k] = sent[k]
  <2>1. sent \in Seq(Text)
    BY DEF StreamInv
  <2> QED
    BY <1>1, <2>1, AppendProperties
<1> DEFINE q == Append(Queue, t)
           n == Len(sent) - Len(received)
<1>3. /\ Queue \in Seq(Text) /\ Len(Queue) = n
      /\ \A i \in 1 .. n : Queue[i] = sent[Len(received) + i]
      /\ Len(sent) \in Nat /\ Len(received) \in Nat /\ Len(received) <= Len(sent)
  BY QueueIs DEF StreamInv, Queue
<1>4. /\ Queue' \in Seq(Text) /\ Len(Queue') = n + 1
      /\ \A i \in 1 .. n + 1 : Queue'[i] = sent'[Len(received) + i]
  <2>1. /\ Queue' \in Seq(Text) /\ Len(Queue') = Len(sent') - Len(received')
        /\ \A i \in 1 .. Len(sent') - Len(received') : Queue'[i] = sent'[Len(received') + i]
    BY QueueIs DEF StreamInv, Queue
  <2>2. Len(sent') - Len(received') = n + 1
    BY <1>1, <1>2, <1>3
  <2> QED
    BY <1>1, <2>1, <2>2
<1>5. /\ q \in Seq(Text) /\ Len(q) = n + 1 /\ q[n + 1] = t
      /\ \A i \in 1 .. n : q[i] = Queue[i]
  BY <1>3, AppendProperties
<1> HIDE DEF q
<1>6. \A i \in 1 .. n + 1 : Queue'[i] = q[i]
  <2> TAKE i \in 1 .. n + 1
  <2>1. CASE i = n + 1
    BY <1>2, <1>3, <1>4, <1>5, <2>1
  <2>2. CASE i # n + 1
    <3>1. n \in Nat /\ n = Len(sent) - Len(received) /\ i \in 1 .. n + 1 /\ i # n + 1
          /\ Len(sent) \in Nat /\ Len(received) \in Nat
      BY <1>3, <2>2
    <3> HIDE DEF n
    <3>2. i \in 1 .. n /\ Len(received) + i \in 1 .. Len(sent)
      BY <3>1
    <3> QED
      BY <1>2, <1>3, <1>4, <1>5, <3>2
  <2> QED
    BY <2>1, <2>2
<1>7. Queue' = q
  BY <1>4, <1>5, <1>6, SeqEqual
<1> QED
  BY <1>1, <1>7 DEF channel!Send, Queue, q

LEMMA BodyReceives ==
    ASSUME StreamInv, StreamInv', do_read_body_
    PROVE  channel!Receive
<1>1. sent' = sent /\ received' = Append(received, SubSeq(arrived, 1, length))
  BY DEF do_read_body_
<1>2. /\ sent \in Seq(Text) /\ received \in Seq(Text) /\ received' \in Seq(Text)
      /\ Len(received) < Len(sent)
      /\ Len(received') <= Len(sent)
      /\ \A k \in 1 .. Len(received') : received'[k] = sent[k]
      /\ \A k \in 1 .. Len(received) : received[k] = sent[k]
  BY <1>1 DEF StreamInv, do_read_body_
<1>3. Len(sent) \in Nat /\ Len(received) \in Nat
  BY <1>2, LenProperties
<1> DEFINE next == Len(received) + 1
           n == Len(sent)
           body == SubSeq(arrived, 1, length)
<1>4. Len(received') = next /\ received'[next] = body
  <2>1. Len(received') = Len(received) + 1 /\ received'[Len(received) + 1] = body
    <3> HIDE DEF body
    <3>1. received' = Append(received, body)
      BY <1>1 DEF body
    <3> QED
      BY <1>2, <3>1, AppendLast
  <2> QED
    BY <2>1
<1>5. next \in 1 .. n /\ next \in Int
  BY <1>2, <1>3
<1>6. body = sent[next]
  <2>1. next \in 1 .. Len(received')
    BY <1>3, <1>4
  <2> HIDE DEF next, body
  <2> QED
    BY <1>2, <1>4, <2>1
<1>7. /\ Queue # <<>> /\ Head(Queue) = sent[next]
      /\ Tail(Queue) = SubSeq(sent, next + 1, n)
  <2>1. next \in 1 .. Len(sent) /\ n \in next .. Len(sent)
    BY <1>3, <1>5
  <2>2. Queue = SubSeq(sent, next, n)
    BY DEF Queue
  <2> HIDE DEF next, n
  <2> QED
    BY <1>2, <2>1, <2>2, QueueHead DEF n
<1>8. Queue' = Tail(Queue)
  <2>1. Queue' = SubSeq(sent', Len(received') + 1, Len(sent'))
    BY DEF Queue
  <2> QED
    BY <1>1, <1>4, <1>7, <2>1
<1>9. received' = Append(received, Head(Queue))
  BY <1>1, <1>6, <1>7
<1> QED
  BY <1>7, <1>8, <1>9 DEF channel!Receive, Queue

LEMMA ChannelInit ==
    ASSUME Init
    PROVE  channel!Init
<1>1. sent = <<>> /\ received = <<>>
  BY DEF Init
<1>2. SubSeq(<<>>, 1, 0) = <<>>
  OBVIOUS
<1>3. Len(sent) = 0 /\ Len(received) + 1 = 1
  BY <1>1
<1> QED
  BY <1>1, <1>2, <1>3 DEF channel!Init

LEMMA ChannelStep ==
    ASSUME StreamInv, StreamInv', [Next]_vars
    PROVE  [channel!Next]_(channel!vars)
<1>1. ASSUME NEW t \in Text, do_write_(t) PROVE channel!Next
  BY <1>1, WriteSends DEF channel!Next
<1>2. CASE do_read_body_
  BY <1>2, BodyReceives DEF channel!Next
<1>3. CASE Arrive \/ do_read_header_ \/ UNCHANGED vars
  <2>1. sent' = sent /\ received' = received
    BY <1>3 DEF Arrive, arrive, do_read_header_, vars
  <2> QED
    BY <2>1 DEF channel!vars
<1> QED
  BY <1>1, <1>2, <1>3 DEF Next, Read

\* Messages are texts: a program that writes with do_write_ and reads with do_read_header_ and
\* do_read_body_ has a channel, whatever the texts are and wherever the network cuts the
\* stream; it is what PokerServer, Session and Client build on.
THEOREM StreamIsAChannel == Spec => IsChannel
<1>1. Init => channel!Init
  BY ChannelInit
<1>2. StreamInv /\ StreamInv' /\ [Next]_vars => [channel!Next]_(channel!vars)
  BY ChannelStep
<1> QED
  BY <1>1, <1>2, StreamInvariant, PTL DEF Spec, IsChannel, channel!Spec
=============================================================================
