------------------------- MODULE MessageHeaderProofs -------------------------
(***************************************************************************)
(* Theorems about the headers of messages: the header of each length is    *)
(* read as that length, and whatever characters there are a header is      *)
(* refused or fits.                                                        *)
(***************************************************************************)
EXTENDS MessageHeader, SequenceTheorems, WellFoundedInduction, TLAPS

(* Numbers.                                                                 *)

\* A set of numbers that is not empty has a least one.  For a set, not for an operator, so
\* that it can be instantiated: with the n for which something does not hold, it is induction.
LEMMA Least ==
    ASSUME NEW S \in SUBSET Nat, S # {}
    PROVE  \E n \in S : \A m \in S : n <= m
<1>1. PICK n \in S : \A m \in S : <<m, n>> \notin OpToRel(<, Nat)
  BY NatLessThanWellFounded, WFMin
<1>2. \A m \in S : ~(m < n)
  BY <1>1 DEF OpToRel
<1> QED
  BY <1>2

LEMMA Weights == 10 ^ 0 = 1 /\ 10 ^ 1 = 10 /\ 10 ^ 2 = 100 /\ 10 ^ 3 = 1000
OBVIOUS

LEMMA Digits ==
    /\ \A k \in 1 .. 10 : Numeral[k] \in Digit /\ ValueOf(Numeral[k]) = k - 1
    /\ \A d \in Digit : ValueOf(d) \in 0 .. 9
    /\ \A d \in Digit : d \notin Blank /\ d \notin {"-", "+"}
<1>1. \A k, l \in 1 .. 10 : Numeral[k] = Numeral[l] => k = l
  BY DEF Numeral
<1>2. \A k \in 1 .. 10 : Numeral[k] \in Digit
  BY DEF Numeral, Digit
<1>3. \A d \in Digit : \E k \in 1 .. 10 : Numeral[k] = d
  BY DEF Numeral, Digit
<1>4. \A d \in Digit : d \notin Blank /\ d \notin {"-", "+"}
  BY DEF Digit, Blank
<1>5. \A k \in 1 .. 10 : ValueOf(Numeral[k]) = k - 1
  BY <1>1 DEF ValueOf
<1>6. \A d \in Digit : ValueOf(d) \in 0 .. 9
  <2> TAKE d \in Digit
  <2>1. PICK k \in 1 .. 10 : Numeral[k] = d
    BY <1>3
  <2>2. ValueOf(d) = k - 1
    BY <1>5, <2>1
  <2> QED
    BY <2>2
<1> QED
  BY <1>2, <1>4, <1>5, <1>6

LEMMA FirstPosition ==
    ASSUME NEW h, Len(h) \in Nat, NEW i \in 1 .. Len(h) + 1, NEW S
    PROVE  /\ First(h, i, S) \in i .. Len(h) + 1
           /\ \A p \in i .. First(h, i, S) - 1 : p \notin S
           /\ First(h, i, S) <= Len(h) => First(h, i, S) \in S
<1> DEFINE T == {p \in i .. Len(h) : p \in S} \cup {Len(h) + 1}
<1>1. T \in SUBSET Nat /\ T # {}
  OBVIOUS
<1>2. PICK n \in T : \A m \in T : n <= m
  BY <1>1, Least
<1>3. \A x \in T : (\A y \in T : x <= y) => x = n
  BY <1>1, <1>2
<1>4. First(h, i, S) = n
  BY <1>2, <1>3 DEF Min, First
<1>5. n \in i .. Len(h) + 1 /\ (n <= Len(h) => n \in S)
  OBVIOUS
<1>6. \A p \in i .. n - 1 : p \notin S
  <2> SUFFICES ASSUME NEW p \in i .. n - 1, p \in S PROVE FALSE
    OBVIOUS
  <2>1. p \in T
    BY <1>5
  <2> QED
    BY <1>2, <1>5, <2>1
<1> QED
  BY <1>4, <1>5, <1>6

\* The function in Number exists.
LEMMA ValueFunction ==
    ASSUME NEW h, NEW from \in Int, NEW n \in Nat
    PROVE  \E f : f = [k \in from - 1 .. from - 1 + n |->
                         IF k < from THEN 0 ELSE 10 * f[k - 1] + ValueOf(h[k])]
<1> DEFINE Is(f, m) == f = [k \in from - 1 .. from - 1 + m |->
                         IF k < from THEN 0 ELSE 10 * f[k - 1] + ValueOf(h[k])]
           T == {m \in Nat : ~ \E f : Is(f, m)}
<1>1. SUFFICES ASSUME T # {} PROVE FALSE
  OBVIOUS
<1>2. PICK m \in T : \A l \in T : m <= l
  BY <1>1, Least
<1>2a. m \in Nat
  OBVIOUS
<1>3. CASE m = 0
  <2>1. Is([k \in from - 1 .. from - 1 |-> 0], 0)
    OBVIOUS
  <2> QED
    BY <1>2, <1>3, <2>1
<1>4. CASE m # 0
  <2>1. m - 1 \in Nat /\ m - 1 \notin T
    <3> HIDE DEF T
    <3> QED
      BY <1>2, <1>2a, <1>4
  <2>2. PICK f : Is(f, m - 1)
    BY <2>1
  <2> DEFINE g == [k \in from - 1 .. from - 1 + m |->
                     IF k = from - 1 + m THEN 10 * f[k - 1] + ValueOf(h[k]) ELSE f[k]]
  <2>3. \A k \in from .. from - 1 + m : g[k - 1] = f[k - 1]
    BY <1>2, <1>4
  <2>4. \A k \in from - 1 .. from - 1 + m :
           g[k] = IF k < from THEN 0 ELSE 10 * g[k - 1] + ValueOf(h[k])
    <3> TAKE k \in from - 1 .. from - 1 + m
    <3>1. CASE k = from - 1 + m
      BY <1>2, <1>4, <2>3, <3>1
    <3>2. CASE k # from - 1 + m
      <4>1. k \in from - 1 .. from - 1 + (m - 1)
        BY <3>2, <1>2
      <4>2. f[k] = IF k < from THEN 0 ELSE 10 * f[k - 1] + ValueOf(h[k])
        BY <2>2, <4>1
      <4> QED
        BY <2>3, <3>2, <4>2
    <3> QED
      BY <3>1, <3>2
  <2> HIDE DEF g
  <2>5. g = [k \in from - 1 .. from - 1 + m |-> g[k]]
    BY DEF g
  <2>6. Is(g, m)
    BY <2>4, <2>5
  <2> QED
    BY <1>2, <2>6
<1> QED
  BY <1>3, <1>4

LEMMA ValueIs ==
    ASSUME NEW h, NEW from \in Int, NEW to \in Int, to >= from - 1
    PROVE  /\ to = from - 1 => Number(h, from, to) = 0
           /\ to >= from => Number(h, from, to) = 10 * Number(h, from, to - 1) + ValueOf(h[to])
<1> DEFINE Is(f, t) == f = [k \in from - 1 .. t |->
                              IF k < from THEN 0 ELSE 10 * f[k - 1] + ValueOf(h[k])]
           The(t) == CHOOSE f : Is(f, t)
<1>1. ASSUME NEW t \in Int, t >= from - 1
      PROVE  Is(The(t), t)
  <2>1. PICK n \in Nat : from - 1 + n = t
    <3>1. t - (from - 1) \in Nat /\ from - 1 + (t - (from - 1)) = t
      BY <1>1
    <3> QED
      BY <3>1
  <2>2. \E f : Is(f, from - 1 + n)
    BY ValueFunction
  <2>3. \E f : Is(f, t)
    <3> HIDE DEF Is
    <3> QED
      BY <2>1, <2>2
  <2> HIDE DEF Is
  <2> QED
    BY <2>3
<1>2. ASSUME NEW t \in Int
      PROVE  Number(h, from, t) = The(t)[t]
  BY DEF Number
<1> DEFINE f == The(to)
<1>3. /\ f[from - 1] = 0
      /\ \A k \in from .. to : f[k] = 10 * f[k - 1] + ValueOf(h[k])
  <2>1. Is(f, to)
    BY <1>1
  <2> HIDE DEF The, f
  <2> QED
    BY <2>1
<1>4. CASE to = from - 1
  <2> HIDE DEF The
  <2> QED
    BY <1>2, <1>3, <1>4
<1>5. CASE to >= from
  <2> DEFINE e == The(to - 1)
  <2>1. Is(e, to - 1)
    BY <1>1, <1>5, SMTT(30)
  <2>2. \A k \in from - 1 .. to - 1 : e[k] = f[k]
    <3> DEFINE T == {n \in Nat : n <= to - from /\ e[from - 1 + n] # f[from - 1 + n]}
    <3>1. SUFFICES ASSUME T # {} PROVE FALSE
      <4>1. T = {}
        BY <3>1
      <4>2. \A k \in from - 1 .. to - 1 :
               k - (from - 1) \in Nat /\ k - (from - 1) <= to - from
               /\ from - 1 + (k - (from - 1)) = k
        OBVIOUS
      <4> HIDE DEF e, f
      <4> QED
        BY <4>1, <4>2
    <3>2. PICK n \in T : \A m \in T : n <= m
      BY <3>1, Least
    <3> HIDE DEF The, f, e
    <3>3. n \in Nat /\ n <= to - from /\ e[from - 1 + n] # f[from - 1 + n]
      OBVIOUS
    <3>4. n # 0
      BY <1>3, <1>5, <2>1, <3>3
    <3>5. n - 1 \in Nat /\ n - 1 \notin T
      <4> HIDE DEF T
      <4> QED
        BY <3>2, <3>3, <3>4
    <3>6. e[from - 1 + (n - 1)] = f[from - 1 + (n - 1)]
      BY <3>3, <3>5
    <3>7. from - 1 + n \in from .. to - 1 /\ (from - 1 + n) - 1 = from - 1 + (n - 1)
      BY <3>3, <3>4
    <3>8. e[from - 1 + n] = 10 * e[(from - 1 + n) - 1] + ValueOf(h[from - 1 + n])
      BY <2>1, <3>7
    <3> QED
      BY <1>3, <3>3, <3>6, <3>7, <3>8
  <2>3. e[to - 1] = f[to - 1] /\ f[to] = 10 * f[to - 1] + ValueOf(h[to])
    <3> HIDE DEF e, f
    <3> QED
      BY <1>3, <1>5, <2>2
  <2> HIDE DEF The
  <2> QED
    BY <1>2, <1>5, <2>3
<1> QED
  BY <1>4, <1>5

-----------------------------------------------------------------------------
(* Headers.  The parts of a header h of four characters, whatever they are. *)

Header(h) == h = [p \in 1 .. 4 |-> h[p]]

Start(h) == First(h, 1, {p \in DOMAIN h : h[p] \notin Blank})
Signed(h) == Start(h) <= Len(h) /\ h[Start(h)] \in {"-", "+"}
FirstDigit(h) == IF Signed(h) THEN Start(h) + 1 ELSE Start(h)
End(h) == First(h, FirstDigit(h), {p \in DOMAIN h : h[p] \notin Digit})

LEMMA AtoiIs ==
    ASSUME NEW h
    PROVE  atoi(h) = IF Signed(h) /\ h[Start(h)] = "-"
                     THEN - Number(h, FirstDigit(h), End(h) - 1)
                     ELSE Number(h, FirstDigit(h), End(h) - 1)
BY DEF atoi, Start, Signed, FirstDigit, End

LEMMA Length ==
    ASSUME NEW h, Header(h)
    PROVE  Len(h) = 4 /\ DOMAIN h = 1 .. 4
<1>1. h \in [1 .. 4 -> {h[p] : p \in 1 .. 4}]
  BY DEF Header
<1>2. h \in Seq({h[p] : p \in 1 .. 4})
  BY <1>1, SeqDef
<1> QED
  BY <1>1, <1>2, LenProperties

LEMMA FirstOfFour ==
    ASSUME NEW h, Header(h), NEW i \in 1 .. 5, NEW S
    PROVE  /\ First(h, i, S) \in i .. 5
           /\ \A p \in i .. First(h, i, S) - 1 : p \in 1 .. 4 /\ p \notin S
           /\ First(h, i, S) <= 4 => First(h, i, S) \in S
<1>1. Len(h) = 4
  BY Length
<1>2. Len(h) \in Nat /\ i \in 1 .. Len(h) + 1
  BY <1>1
<1>3. /\ First(h, i, S) \in i .. Len(h) + 1
      /\ \A p \in i .. First(h, i, S) - 1 : p \notin S
      /\ First(h, i, S) <= Len(h) => First(h, i, S) \in S
  BY <1>2, FirstPosition
<1> QED
  BY <1>1, <1>3

LEMMA Parts ==
    ASSUME NEW h, Header(h)
    PROVE  /\ Start(h) \in 1 .. 5
           /\ \A p \in 1 .. Start(h) - 1 : h[p] \in Blank
           /\ Start(h) <= 4 => h[Start(h)] \notin Blank
           /\ Signed(h) <=> Start(h) <= 4 /\ h[Start(h)] \in {"-", "+"}
           /\ FirstDigit(h) \in 1 .. 5
           /\ End(h) \in FirstDigit(h) .. 5
           /\ \A p \in FirstDigit(h) .. End(h) - 1 : h[p] \in Digit
           /\ End(h) <= 4 => h[End(h)] \notin Digit
<1>1. Len(h) = 4 /\ DOMAIN h = 1 .. 4
  BY Length
<1>2. /\ Start(h) \in 1 .. 5
      /\ \A p \in 1 .. Start(h) - 1 : h[p] \in Blank
      /\ Start(h) <= 4 => h[Start(h)] \notin Blank
  <2> DEFINE S == {p \in DOMAIN h : h[p] \notin Blank}
  <2>1. \A p \in 1 .. 4 : p \in S <=> h[p] \notin Blank
    BY <1>1
  <2>2. Start(h) = First(h, 1, S)
    BY DEF Start
  <2> HIDE DEF S
  <2>3. /\ Start(h) \in 1 .. 5
        /\ \A p \in 1 .. Start(h) - 1 : p \in 1 .. 4 /\ p \notin S
        /\ Start(h) <= 4 => Start(h) \in S
    BY <2>2, FirstOfFour
  <2>4. ASSUME Start(h) <= 4
        PROVE  Start(h) \in 1 .. 4 /\ h[Start(h)] \notin Blank
    <3>1. Start(h) \in 1 .. 4 /\ Start(h) \in S
      BY <2>3, <2>4
    <3> QED
      BY <2>1, <3>1
  <2>5. ASSUME NEW p \in 1 .. Start(h) - 1
        PROVE  h[p] \in Blank
    BY <2>1, <2>3
  <2> QED
    BY <2>3, <2>4, <2>5
<1>3. Signed(h) <=> Start(h) <= 4 /\ h[Start(h)] \in {"-", "+"}
  BY <1>1 DEF Signed
<1>4. FirstDigit(h) \in 1 .. 5
  <2>1. CASE Signed(h)
    <3>1. FirstDigit(h) = Start(h) + 1
      BY <2>1 DEF FirstDigit
    <3>2. Start(h) <= 4
      BY <1>3, <2>1
    <3>3. Start(h) \in 1 .. 4
      <4>1. Start(h) \in 1 .. 5
        BY <1>2
      <4> QED
        BY <3>2, <4>1
    <3> QED
      BY <3>1, <3>3
  <2>2. CASE ~Signed(h)
    BY <1>2, <2>2 DEF FirstDigit
  <2> QED
    BY <2>1, <2>2
<1>5. /\ End(h) \in FirstDigit(h) .. 5
      /\ \A p \in FirstDigit(h) .. End(h) - 1 : h[p] \in Digit
      /\ End(h) <= 4 => h[End(h)] \notin Digit
  <2> DEFINE S == {p \in DOMAIN h : h[p] \notin Digit}
  <2>1. \A p \in 1 .. 4 : p \in S <=> h[p] \notin Digit
    BY <1>1
  <2>2. End(h) = First(h, FirstDigit(h), S)
    BY DEF End
  <2> HIDE DEF S
  <2>3. /\ End(h) \in FirstDigit(h) .. 5
        /\ \A p \in FirstDigit(h) .. End(h) - 1 : p \in 1 .. 4 /\ p \notin S
        /\ End(h) <= 4 => End(h) \in S
    BY <1>4, <2>2, FirstOfFour
  <2> QED
    BY <1>4, <2>1, <2>3
<1> QED
  BY <1>2, <1>3, <1>4, <1>5

\* What the digits are worth, one by one.
LEMMA ValueIsSum ==
    ASSUME NEW h, Header(h), NEW j \in 0 .. 4, NEW k \in j .. 4,
           \A p \in j + 1 .. k : h[p] \in Digit
    PROVE  LET w(p) == IF p \in j + 1 .. k THEN ValueOf(h[p]) * 10 ^ (k - p) ELSE 0
           IN  Number(h, j + 1, k) = w(1) + w(2) + w(3) + w(4)
<1> DEFINE w(p) == IF p \in j + 1 .. k THEN ValueOf(h[p]) * 10 ^ (k - p) ELSE 0
           V(t) == Number(h, j + 1, t)
           d(p) == ValueOf(h[p])
<1>1. \A p \in j + 1 .. k : d(p) \in 0 .. 9
  BY Digits
<1>2. V(j) = 0
  BY ValueIs
<1>3. ASSUME NEW t \in j + 1 .. k
      PROVE  V(t) = 10 * V(t - 1) + d(t)
  BY ValueIs
<1> HIDE DEF V, d
<1>4. \A p \in j + 1 .. k : w(p) = d(p) * 10 ^ (k - p)
  BY DEF d
<1>5. \A p \in 1 .. 4 : p \notin j + 1 .. k => w(p) = 0
  OBVIOUS
<1> HIDE DEF w
<1>6. V(k) = w(1) + w(2) + w(3) + w(4)
  <2>1. CASE k = j
    BY <1>2, <1>5, <2>1
  <2>2. CASE k = j + 1
    <3>1. k \in j + 1 .. k
      BY <2>2
    <3>2. V(k) = d(k) /\ w(k) = d(k) /\ d(k) \in 0 .. 9
      BY <1>1, <1>2, <1>3, <1>4, <2>2, <3>1, Weights
    <3>3. \A p \in 1 .. 4 : p # k => w(p) = 0
      BY <1>5, <2>2
    <3> QED
      BY <2>2, <3>2, <3>3
  <2>3. CASE k = j + 2
    <3>1. k \in j + 1 .. k /\ k - 1 \in j + 1 .. k /\ k - (k - 1) = 1 /\ k - k = 0
      BY <2>3
    <3>2. V(k - 1) = d(k - 1) /\ d(k) \in 0 .. 9 /\ d(k - 1) \in 0 .. 9
      BY <1>1, <1>2, <1>3, <2>3, <3>1
    <3>3. V(k) = 10 * d(k - 1) + d(k)
      BY <1>3, <3>1, <3>2
    <3>4. w(k) = d(k) /\ w(k - 1) = 10 * d(k - 1)
      <4>1. 10 ^ (k - k) = 1 /\ 10 ^ (k - (k - 1)) = 10
        BY <3>1, Weights
      <4>2. w(k) = d(k) * 1 /\ w(k - 1) = d(k - 1) * 10
        BY <1>4, <3>1, <4>1
      <4> QED
        BY <3>2, <4>2
    <3>5. \A p \in 1 .. 4 : p # k /\ p # k - 1 => w(p) = 0
      BY <1>5, <2>3
    <3> QED
      BY <2>3, <3>2, <3>3, <3>4, <3>5
  <2>4. CASE k = j + 3
    <3>1. /\ k \in j + 1 .. k /\ k - 1 \in j + 1 .. k /\ k - 2 \in j + 1 .. k
          /\ k - (k - 2) = 2 /\ k - (k - 1) = 1 /\ k - k = 0
      BY <2>4
    <3>2. d(k) \in 0 .. 9 /\ d(k - 1) \in 0 .. 9 /\ d(k - 2) \in 0 .. 9
      BY <1>1, <3>1
    <3>3. V(k - 2) = d(k - 2)
      BY <1>2, <1>3, <2>4, <3>1, <3>2
    <3>4. V(k - 1) = 10 * d(k - 2) + d(k - 1)
      BY <1>3, <3>1, <3>2, <3>3
    <3>5. V(k) = 10 * (10 * d(k - 2) + d(k - 1)) + d(k)
      BY <1>3, <3>1, <3>2, <3>4
    <3>6. w(k) = d(k) /\ w(k - 1) = 10 * d(k - 1) /\ w(k - 2) = 100 * d(k - 2)
      <4>1. 10 ^ (k - k) = 1 /\ 10 ^ (k - (k - 1)) = 10 /\ 10 ^ (k - (k - 2)) = 100
        BY <3>1, Weights
      <4>2. w(k) = d(k) * 1 /\ w(k - 1) = d(k - 1) * 10 /\ w(k - 2) = d(k - 2) * 100
        BY <1>4, <3>1, <4>1, ZenonT(30)
      <4> QED
        BY <3>2, <4>2
    <3>7. \A p \in 1 .. 4 : p # k /\ p # k - 1 /\ p # k - 2 => w(p) = 0
      BY <1>5, <2>4
    <3> QED
      BY <2>4, <3>2, <3>5, <3>6, <3>7
  <2>5. CASE k = j + 4
    <3>1. j = 0 /\ k = 4
      BY <2>5
    <3>2. d(1) \in 0 .. 9 /\ d(2) \in 0 .. 9 /\ d(3) \in 0 .. 9 /\ d(4) \in 0 .. 9
      BY <1>1, <3>1
    <3>3. V(1) = d(1) /\ V(2) = 10 * V(1) + d(2) /\ V(3) = 10 * V(2) + d(3)
          /\ V(4) = 10 * V(3) + d(4)
      BY <1>2, <1>3, <3>1, <3>2
    <3>4. w(1) = 1000 * d(1) /\ w(2) = 100 * d(2) /\ w(3) = 10 * d(3) /\ w(4) = d(4)
      BY <1>4, <3>1, <3>2, Weights
    <3> QED
      BY <3>1, <3>2, <3>3, <3>4
  <2> QED
    BY <2>1, <2>2, <2>3, <2>4, <2>5
<1> QED
  BY <1>6 DEF V, w

\* The parts of h, and what says that i, g and d split it.
PartsAre(h, a, g, e) ==
    /\ \A p \in 1 .. a - 1 : h[p] \in Blank
    /\ a <= 4 => h[a] \notin Blank
    /\ IF g = 1 THEN a <= 4 /\ h[a] \in {"-", "+"} ELSE a <= 4 => h[a] \notin {"-", "+"}
    /\ \A p \in a + g .. e - 1 : h[p] \in Digit
    /\ e <= 4 => h[e] \notin Digit

SplitAt(h, i, g, d) ==
    /\ i + g + d <= 4
    /\ \A p \in 1 .. i : h[p] \in Blank
    /\ i = 4 \/ h[i + 1] \notin Blank
    /\ IF g = 1 THEN h[i + g] \in {"-", "+"} ELSE i = 4 \/ h[i + 1] \notin {"-", "+"}
    /\ \A p \in i + g + 1 .. i + g + d : h[p] \in Digit
    /\ i + g + d = 4 \/ h[i + g + d + 1] \notin Digit

LEMMA PartsSplit ==
    ASSUME NEW h, NEW a \in 1 .. 5, NEW g \in 0 .. 1, NEW e \in a + g .. 5, PartsAre(h, a, g, e)
    PROVE  SplitAt(h, a - 1, g, e - (a + g))
<1>1. /\ a - 1 + g + (e - (a + g)) = e - 1 /\ a - 1 + 1 = a /\ a - 1 + g + 1 = a + g
      /\ e - 1 + 1 = e
  OBVIOUS
<1>2. e - 1 <= 4 /\ (e - 1 = 4 \/ e <= 4) /\ (a - 1 = 4 \/ a <= 4)
  OBVIOUS
<1>3. g = 1 => a - 1 + g = a
  OBVIOUS
<1> QED
  BY <1>1, <1>2, <1>3 DEF PartsAre, SplitAt

LEMMA SplitParts ==
    ASSUME NEW h, NEW a \in 1 .. 5, NEW g \in 0 .. 1, NEW e \in a + g .. 5, PartsAre(h, a, g, e),
           NEW i \in 0 .. 4, NEW c \in 0 .. 1, NEW d \in 0 .. 4, SplitAt(h, i, c, d)
    PROVE  i = a - 1 /\ c = g /\ d = e - (a + g)
<1>1. i = a - 1
  <2>1. CASE i < a - 1
    <3>1. i + 1 \in 1 .. a - 1 /\ i # 4
      BY <2>1
    <3> QED
      BY <3>1 DEF PartsAre, SplitAt
  <2>2. CASE i > a - 1
    <3>1. a \in 1 .. i /\ a <= 4
      BY <2>2
    <3> QED
      BY <3>1 DEF PartsAre, SplitAt
  <2> QED
    BY <2>1, <2>2
<1>2. c = g
  <2>1. i + 1 = a /\ (i = 4 <=> a = 5)
    BY <1>1
  <2>2. ASSUME c = 1 PROVE g = 1
    <3>1. h[i + 1] \in {"-", "+"} /\ i + 1 + d <= 4
      BY <2>2 DEF SplitAt
    <3>2. a <= 4 /\ h[a] \in {"-", "+"}
      BY <2>1, <3>1
    <3> QED
      BY <3>2 DEF PartsAre
  <2>3. ASSUME c # 1 PROVE g # 1
    <3>1. i = 4 \/ h[i + 1] \notin {"-", "+"}
      BY <2>3 DEF SplitAt
    <3>2. a = 5 \/ h[a] \notin {"-", "+"}
      BY <2>1, <3>1
    <3>3. g = 1 => a <= 4 /\ h[a] \in {"-", "+"}
      BY DEF PartsAre
    <3>4. a <= 4 => a # 5
      OBVIOUS
    <3> QED
      BY <3>2, <3>3, <3>4
  <2> QED
    BY <2>2, <2>3
<1>3. d = e - (a + g)
  <2>1. i + c + 1 = a + g /\ i + c + d + 1 = a + g + d
    BY <1>1, <1>2
  <2>2. CASE a + g + d < e
    <3>1. a + g + d \in a + g .. e - 1 /\ i + c + d # 4
      BY <2>1, <2>2
    <3> QED
      BY <2>1, <3>1 DEF PartsAre, SplitAt
  <2>3. CASE a + g + d > e
    <3>1. i + c + d <= 4 /\ \A p \in i + c + 1 .. i + c + d : h[p] \in Digit
      BY DEF SplitAt
    <3>2. e \in i + c + 1 .. i + c + d /\ e <= 4
      BY <2>1, <2>3, <3>1
    <3>3. h[e] \in Digit
      BY <3>1, <3>2
    <3> QED
      BY <3>2, <3>3 DEF PartsAre
  <2> QED
    BY <2>2, <2>3
<1> QED
  BY <1>1, <1>2, <1>3

\* A header splits in one way, into its parts.
LEMMA OneSplit ==
    ASSUME NEW h, Header(h)
    PROVE  \E a \in 1 .. 5, g \in 0 .. 1, e \in 1 .. 5 :
              /\ e >= a + g
              /\ Start(h) = a /\ End(h) = e /\ FirstDigit(h) = a + g
              /\ Signed(h) <=> g = 1
              /\ PartsAre(h, a, g, e)
              /\ Splits(h) = {[blanks |-> a - 1, sign |-> g, digits |-> e - (a + g)]}
<1> DEFINE a == Start(h)
           g == IF Signed(h) THEN 1 ELSE 0
           e == End(h)
<1>1. a \in 1 .. 5 /\ g \in 0 .. 1 /\ FirstDigit(h) = a + g
  <2>1. a \in 1 .. 5
    BY Parts
  <2>2. CASE Signed(h)
    BY <2>1, <2>2 DEF FirstDigit
  <2>3. CASE ~Signed(h)
    BY <2>1, <2>3 DEF FirstDigit
  <2> QED
    BY <2>1, <2>2, <2>3
<1>2. Signed(h) <=> g = 1
  OBVIOUS
<1>3. e \in FirstDigit(h) .. 5 /\ FirstDigit(h) \in 1 .. 5
  BY Parts
<1>4. PartsAre(h, a, g, e)
  BY <1>1, <1>2, Parts DEF PartsAre
<1> HIDE DEF a, g, e
<1>4a. e \in 1 .. 5 /\ e \in a + g .. 5
  BY <1>1, <1>3
<1> DEFINE S == [blanks : 0 .. header_length, sign : 0 .. 1, digits : 0 .. header_length]
           s0 == [blanks |-> a - 1, sign |-> g, digits |-> e - (a + g)]
<1>5. Splits(h) = {s \in S : SplitAt(h, s.blanks, s.sign, s.digits)}
  BY DEF Splits, SplitAt, header_length
<1>6. s0 \in S /\ SplitAt(h, s0.blanks, s0.sign, s0.digits)
  <2>1. SplitAt(h, a - 1, g, e - (a + g))
    BY <1>1, <1>4, <1>4a, PartsSplit
  <2>2. a - 1 \in 0 .. 4 /\ e - (a + g) \in 0 .. 4
    BY <1>1, <1>4a
  <2> QED
    BY <1>1, <2>1, <2>2 DEF header_length
<1>7. ASSUME NEW s \in S, SplitAt(h, s.blanks, s.sign, s.digits)
      PROVE  s = s0
  <2>1. s.blanks \in 0 .. 4 /\ s.sign \in 0 .. 1 /\ s.digits \in 0 .. 4
    BY DEF header_length
  <2>2. s.blanks = a - 1 /\ s.sign = g /\ s.digits = e - (a + g)
    BY <1>1, <1>4, <1>4a, <1>7, <2>1, SplitParts
  <2> QED
    BY <2>2
<1>8. Splits(h) = {s0}
  BY <1>5, <1>6, <1>7
<1>9. Start(h) = a /\ End(h) = e
  BY DEF a, e
<1> QED
  BY <1>1, <1>2, <1>4, <1>4a, <1>8, <1>9


LEMMA MeaningIsAtoi ==
    ASSUME NEW h, Header(h), NEW s \in Splits(h)
    PROVE  Meaning(h, s) = atoi(h) /\ atoi(h) \in Int
<1>1. PICK a \in 1 .. 5, g \in 0 .. 1, e \in 1 .. 5 :
         /\ e >= a + g
         /\ Start(h) = a /\ End(h) = e /\ FirstDigit(h) = a + g
         /\ Signed(h) <=> g = 1
         /\ PartsAre(h, a, g, e)
         /\ Splits(h) = {[blanks |-> a - 1, sign |-> g, digits |-> e - (a + g)]}
  BY OneSplit
<1>2. s = [blanks |-> a - 1, sign |-> g, digits |-> e - (a + g)]
  BY <1>1
<1> DEFINE j == a - 1 + g
           k == e - 1
           w(p) == IF p \in j + 1 .. k THEN ValueOf(h[p]) * 10 ^ (k - p) ELSE 0
           n == w(1) + w(2) + w(3) + w(4)
<1>3. j \in 0 .. 4 /\ k \in j .. 4 /\ j + 1 = a + g /\ j + (e - (a + g)) = k
  BY <1>1
<1>4. \A p \in j + 1 .. k : h[p] \in Digit
  BY <1>1, <1>3 DEF PartsAre
<1>5. Number(h, j + 1, k) = n
  BY <1>3, <1>4, ValueIsSum
<1>6. n \in Int
  <2>1. ASSUME NEW p \in j + 1 .. k
        PROVE  ValueOf(h[p]) \in 0 .. 9 /\ 10 ^ (k - p) \in Int
    <3>1. k - p \in 0 .. 3
      BY <1>3
    <3>2. 10 ^ (k - p) \in Int
      BY <3>1, Weights
    <3> QED
      BY <1>4, <3>2, Digits
  <2>2. ASSUME NEW p \in 1 .. 4
        PROVE  w(p) \in Int
    BY <2>1
  <2> HIDE DEF w
  <2> QED
    BY <2>2
<1>7. Meaning(h, s) = IF g = 1 /\ h[j] = "-" THEN 0 - n ELSE n
  <2>1. s.blanks = a - 1 /\ s.sign = g /\ s.digits = e - (a + g)
    BY <1>2
  <2>2. s.blanks + s.sign = j /\ j + s.digits = k
    BY <1>3, <2>1
  <2> HIDE DEF j, k
  <2> QED
    BY <2>1, <2>2 DEF Meaning
<1>8. atoi(h) = IF g = 1 /\ h[a] = "-" THEN - n ELSE n
  <2>1. FirstDigit(h) = j + 1 /\ End(h) - 1 = k
    BY <1>1, <1>3
  <2> HIDE DEF j, k, n
  <2> QED
    BY <1>1, <1>5, <2>1, AtoiIs
<1>9. g = 1 => j = a
  BY <1>1
<1> HIDE DEF n, j, k
<1> QED
  BY <1>6, <1>7, <1>8, <1>9

\* The headers of the module: of each length a body can have, and any four characters.
MHInv ==
    /\ Header(header)
    /\ announced \in -1 .. max_body_length
    /\ announced >= 0 => header = encode_header(announced)

LEMMA EncodedIsHeader ==
    ASSUME NEW n
    PROVE  Header(encode_header(n))
<1>1. header_length = 4
  BY DEF header_length
<1> DEFINE c(i) == LET weight == 10 ^ (header_length - i)
                   IN  IF n < weight /\ i < header_length THEN " "
                       ELSE Numeral[1 + ((n \div weight) % 10)]
<1>2. encode_header(n) = [i \in 1 .. 4 |-> c(i)]
  BY <1>1 DEF encode_header
<1> HIDE DEF c
<1> QED
  BY <1>2 DEF Header

LEMMA MHInvariant == MHSpec => []MHInv
<1>1. MHInit => MHInv
  <2> SUFFICES ASSUME MHInit PROVE MHInv
    OBVIOUS
  <2>1. 0 \in -1 .. max_body_length /\ -1 \in -1 .. max_body_length
    BY DEF max_body_length, header_length
  <2>2. CASE announced = 0 /\ header = encode_header(0)
    BY <2>1, <2>2, EncodedIsHeader DEF MHInv
  <2>3. CASE announced = -1 /\ header \in [1 .. header_length -> Alphabet]
    <3>1. Header(header)
      BY <2>3 DEF Header, header_length
    <3> QED
      BY <2>1, <2>3, <3>1 DEF MHInv
  <2> QED
    BY <2>2, <2>3 DEF MHInit
<1>2. MHInv /\ [MHNext]_<<announced, header>> => MHInv'
  <2> SUFFICES ASSUME MHInv, [MHNext]_<<announced, header>> PROVE MHInv'
    OBVIOUS
  <2>1. CASE MHNext
    <3>1. announced' \in -1 .. max_body_length
      BY <2>1 DEF MHNext, max_body_length, header_length
    <3>2. header' = encode_header(announced')
      BY <2>1 DEF MHNext
    <3>3. Header(header')
      BY <3>2, EncodedIsHeader
    <3> QED
      BY <3>1, <3>2, <3>3 DEF MHInv, Header
  <2>2. CASE UNCHANGED <<announced, header>>
    BY <2>2 DEF MHInv, Header
  <2> QED
    BY <2>1, <2>2
<1> QED
  BY <1>1, <1>2, PTL DEF MHSpec

\* do_read_header_ and do_read_body_ trust decode_header with the size of data_: of all that
\* four characters can be, whoever wrote them, one split into blanks, sign and digits exists,
\* and the header is refused when its number is not a length data_ has room for.
THEOREM HeadersAreRefusedOrFit == MHSpec => []RefusedOrFits
<1>1. ASSUME Header(header)
      PROVE  RefusedOrFits
  <2>1. Splits(header) # {}
    BY <1>1, OneSplit
  <2>2. ASSUME NEW s \in Splits(header)
        PROVE  LET v == Meaning(header, s)
               IN  decode_header(header) =
                     IF v >= 0 /\ v <= max_body_length
                     THEN [ok |-> TRUE, body_length |-> v]
                     ELSE [ok |-> FALSE, body_length |-> 0]
    <3>1. Meaning(header, s) = atoi(header) /\ atoi(header) \in Int
      BY <1>1, MeaningIsAtoi
    <3>2. \A v \in Int : v \in 0 .. max_body_length <=> v >= 0 /\ v <= max_body_length
      BY DEF max_body_length, header_length
    <3> QED
      BY <3>1, <3>2 DEF decode_header
  <2> QED
    BY <2>1, <2>2 DEF RefusedOrFits
<1>2. MHInv => RefusedOrFits
  BY <1>1 DEF MHInv
<1> QED
  BY <1>2, MHInvariant, PTL


\* The provers take characters better by name.
Space == " "
Signs == {"-", "+"}

\* A numeral of four characters, the first z of them spaces.
LEMMA PaddedNumeral ==
    ASSUME NEW h, NEW z \in 0 .. 3,
           \A p \in 1 .. z : h[p] = Space,
           \A p \in z + 1 .. 4 : h[p] \in Digit
    PROVE  LET v(p) == IF p \in z + 1 .. 4 THEN ValueOf(h[p]) ELSE 0
           IN  \E s \in Splits(h) :
                  Meaning(h, s) = v(1) * 1000 + v(2) * 100 + v(3) * 10 + v(4)
<1> DEFINE v(p) == IF p \in z + 1 .. 4 THEN ValueOf(h[p]) ELSE 0
           s == [blanks |-> z, sign |-> 0, digits |-> 4 - z]
           w(p) == IF p \in z + 1 .. 4 THEN ValueOf(h[p]) * 10 ^ (4 - p) ELSE 0
<1>1. header_length = 4
  BY DEF header_length
<1>2. /\ z + 0 + (4 - z) = 4 /\ z + (4 - z) = 4 /\ z + 0 = z /\ z + 1 \in 1 .. 4
      /\ z + 1 \in z + 1 .. 4 /\ 4 - z \in 0 .. 4 /\ z \in 0 .. 4
  OBVIOUS
<1>3. s.blanks = z /\ s.sign = 0 /\ s.digits = 4 - z
      /\ s \in [blanks : 0 .. 4, sign : 0 .. 1, digits : 0 .. 4]
  BY <1>2
<1>4. h[z + 1] \in Digit /\ h[z + 1] \notin Blank /\ h[z + 1] \notin Signs
  <2>1. \A d \in Digit : d \notin Blank /\ d \notin Signs
    BY Digits DEF Signs
  <2> QED
    BY <1>2, <2>1
<1> HIDE DEF s
<1>5. s.blanks + s.sign = z /\ z + s.digits = 4 /\ ~(s.sign = 1)
  BY <1>2, <1>3
<1>6. s \in Splits(h)
  <2> DEFINE Is(t) == LET i == t.blanks
                          j == i + t.sign
                          k == j + t.digits
                      IN  /\ k <= 4
                          /\ \A p \in 1 .. i : h[p] \in Blank
                          /\ i = 4 \/ h[i + 1] \notin Blank
                          /\ IF t.sign = 1 THEN h[j] \in Signs
                             ELSE i = 4 \/ h[i + 1] \notin Signs
                          /\ \A p \in j + 1 .. k : h[p] \in Digit
                          /\ k = 4 \/ h[k + 1] \notin Digit
  <2>1. Splits(h) = {t \in [blanks : 0 .. 4, sign : 0 .. 1, digits : 0 .. 4] : Is(t)}
    BY DEF Splits, Signs, header_length
  <2>2. s.blanks = z
    BY <1>3
  <2>3. Space \in Blank
    BY DEF Space, Blank
  <2>4. Is(s)
    BY <1>4, <1>5, <2>2, <2>3
  <2> HIDE DEF Is
  <2> QED
    BY <1>3, <2>1, <2>4
<1>7. Meaning(h, s) = w(1) + w(2) + w(3) + w(4)
  BY <1>5 DEF Meaning
<1>8. \A p \in z + 1 .. 4 : ValueOf(h[p]) \in 0 .. 9
  BY Digits
<1>9. w(1) = v(1) * 1000
  <2>1. 10 ^ (4 - 1) = 1000
    BY Weights
  <2> QED
    BY <1>8, <2>1
<1>10. w(2) = v(2) * 100
  <2>1. 10 ^ (4 - 2) = 100
    BY Weights
  <2> QED
    BY <1>8, <2>1
<1>11. w(3) = v(3) * 10
  <2>1. 10 ^ (4 - 3) = 10
    BY Weights
  <2> QED
    BY <1>8, <2>1
<1>12. w(4) = v(4)
  <2>1. 10 ^ (4 - 4) = 1
    BY Weights
  <2> QED
    BY <1>8, <2>1
<1> HIDE DEF v, w
<1>13. Meaning(h, s) = v(1) * 1000 + v(2) * 100 + v(3) * 10 + v(4)
  BY <1>7, <1>9, <1>10, <1>11, <1>12
<1> QED
  BY <1>6, <1>13 DEF v

\* The digits of n, and those that are 0 as n is small.
LEMMA Decimal ==
    ASSUME NEW n \in Nat, n < 10000
    PROVE  /\ n = ((n \div 1000) % 10) * 1000 + ((n \div 100) % 10) * 100
                  + ((n \div 10) % 10) * 10 + (n % 10)
           /\ n \div 1 = n
           /\ (n \div 1000) % 10 \in 0 .. 9 /\ (n \div 100) % 10 \in 0 .. 9
           /\ (n \div 10) % 10 \in 0 .. 9 /\ n % 10 \in 0 .. 9
           /\ n < 1000 => (n \div 1000) % 10 = 0
           /\ n < 100 => (n \div 100) % 10 = 0
           /\ n < 10 => (n \div 10) % 10 = 0
<1>1. n = ((n \div 1000) % 10) * 1000 + ((n \div 100) % 10) * 100
          + ((n \div 10) % 10) * 10 + (n % 10)
  OBVIOUS
<1>2. n \div 1 = n
  OBVIOUS
<1>3. /\ (n \div 1000) % 10 \in 0 .. 9 /\ (n \div 100) % 10 \in 0 .. 9
      /\ (n \div 10) % 10 \in 0 .. 9 /\ n % 10 \in 0 .. 9
  OBVIOUS
<1>4. n < 1000 => (n \div 1000) % 10 = 0
  OBVIOUS
<1>5. n < 100 => (n \div 100) % 10 = 0
  OBVIOUS
<1>6. n < 10 => (n \div 10) % 10 = 0
  OBVIOUS
<1> QED
  BY <1>1, <1>2, <1>3, <1>4, <1>5, <1>6

LEMMA EncodedIs ==
    ASSUME NEW n
    PROVE  LET c(weight) == Numeral[1 + ((n \div weight) % 10)]
           IN  /\ encode_header(n)[1] = IF n < 1000 THEN Space ELSE c(1000)
               /\ encode_header(n)[2] = IF n < 100 THEN Space ELSE c(100)
               /\ encode_header(n)[3] = IF n < 10 THEN Space ELSE c(10)
               /\ encode_header(n)[4] = c(1)
<1> DEFINE c(weight) == Numeral[1 + ((n \div weight) % 10)]
           Less(weight) == n < weight
<1>1. encode_header(n) =
        [i \in 1 .. 4 |-> IF Less(10 ^ (4 - i)) /\ i < 4 THEN Space ELSE c(10 ^ (4 - i))]
  BY DEF encode_header, header_length, Space
<1> HIDE DEF c, Less
<1>2. 10 ^ (4 - 1) = 1000 /\ 10 ^ (4 - 2) = 100 /\ 10 ^ (4 - 3) = 10 /\ 10 ^ (4 - 4) = 1
  BY Weights
<1>3. ASSUME NEW i \in 1 .. 4, NEW weight, weight = 10 ^ (4 - i)
      PROVE  encode_header(n)[i] = IF Less(weight) /\ i < 4 THEN Space ELSE c(weight)
  BY <1>1, <1>3
<1>4. encode_header(n)[1] = IF Less(1000) /\ 1 < 4 THEN Space ELSE c(1000)
  BY <1>2, <1>3
<1>5. encode_header(n)[2] = IF Less(100) /\ 2 < 4 THEN Space ELSE c(100)
  BY <1>2, <1>3
<1>6. encode_header(n)[3] = IF Less(10) /\ 3 < 4 THEN Space ELSE c(10)
  BY <1>2, <1>3
<1>7. encode_header(n)[4] = IF Less(1) /\ 4 < 4 THEN Space ELSE c(1)
  BY <1>2, <1>3
<1>8. 1 < 4 /\ 2 < 4 /\ 3 < 4 /\ ~(4 < 4)
  OBVIOUS
<1> QED
  BY <1>4, <1>5, <1>6, <1>7, <1>8 DEF c, Less

LEMMA EncodedSplits ==
    ASSUME NEW n \in 0 .. max_body_length
    PROVE  \E s \in Splits(encode_header(n)) : Meaning(encode_header(n), s) = n
<1> DEFINE h == encode_header(n)
           a == (n \div 1000) % 10
           b == (n \div 100) % 10
           c == (n \div 10) % 10
           d == n % 10
           Found == \E s \in Splits(h) : Meaning(h, s) = n
<1> SUFFICES Found
  OBVIOUS
<1>1. n \in Nat /\ n < 10000
  BY DEF max_body_length, header_length
<1>2. a \in 0 .. 9 /\ b \in 0 .. 9 /\ c \in 0 .. 9 /\ d \in 0 .. 9
  BY <1>1, Decimal
<1>3. n = a * 1000 + b * 100 + c * 10 + d
  BY <1>1, Decimal
<1>4. (n < 1000 => a = 0) /\ (n < 100 => b = 0) /\ (n < 10 => c = 0)
  BY <1>1, Decimal
<1>5. /\ n < 1000 => h[1] = Space
      /\ ~(n < 1000) => h[1] = Numeral[1 + a]
      /\ n < 100 => h[2] = Space
      /\ ~(n < 100) => h[2] = Numeral[1 + b]
      /\ n < 10 => h[3] = Space
      /\ ~(n < 10) => h[3] = Numeral[1 + c]
      /\ h[4] = Numeral[1 + d]
  <2>1. n \div 1 = n
    BY <1>1, Decimal
  <2>2. h[4] = Numeral[1 + d]
    BY <2>1, EncodedIs
  <2>3. /\ h[1] = IF n < 1000 THEN Space ELSE Numeral[1 + a]
        /\ h[2] = IF n < 100 THEN Space ELSE Numeral[1 + b]
        /\ h[3] = IF n < 10 THEN Space ELSE Numeral[1 + c]
    BY EncodedIs
  <2> HIDE DEF h, a, b, c, d
  <2> QED
    BY <2>2, <2>3
<1> HIDE DEF h, a, b, c, d
<1>6. ASSUME NEW x \in 0 .. 9
      PROVE  Numeral[1 + x] \in Digit /\ ValueOf(Numeral[1 + x]) = x
  <2>1. 1 + x \in 1 .. 10 /\ (1 + x) - 1 = x
    OBVIOUS
  <2> QED
    BY <2>1, Digits
<1> DEFINE v(z, p) == IF p \in z + 1 .. 4 THEN ValueOf(h[p]) ELSE 0
\* It is enough to say how many spaces there are.
<1>7. ASSUME NEW z \in 0 .. 3,
             \A p \in 1 .. z : h[p] = Space,
             \A p \in z + 1 .. 4 : h[p] \in Digit,
             v(z, 1) = a, v(z, 2) = b, v(z, 3) = c, v(z, 4) = d
      PROVE  Found
  <2>1. \E s \in Splits(h) : Meaning(h, s) = v(z, 1) * 1000 + v(z, 2) * 100
                                             + v(z, 3) * 10 + v(z, 4)
    BY <1>7, PaddedNumeral
  <2> HIDE DEF v
  <2>2. \E s \in Splits(h) : Meaning(h, s) = a * 1000 + b * 100 + c * 10 + d
    BY <1>7, <2>1
  <2> QED
    BY <1>3, <2>2
<1> HIDE DEF Found
<1>8. CASE n < 10
  <2>1. n < 1000 /\ n < 100
    BY <1>1, <1>8
  <2>2. /\ \A p \in 1 .. 3 : h[p] = Space
        /\ \A p \in 3 + 1 .. 4 : h[p] \in Digit
        /\ ValueOf(h[4]) = d
    BY <1>2, <1>5, <1>6, <1>8, <2>1
  <2>3. v(3, 1) = a /\ v(3, 2) = b /\ v(3, 3) = c /\ v(3, 4) = d
    BY <1>4, <1>8, <2>1, <2>2
  <2>5. 3 \in 0 .. 3
    OBVIOUS
  <2> HIDE DEF v
  <2> QED
    BY <1>7, <2>2, <2>3, <2>5
<1>9. CASE ~(n < 10) /\ n < 100
  <2>1. n < 1000
    BY <1>1, <1>9
  <2>2. /\ \A p \in 1 .. 2 : h[p] = Space
        /\ \A p \in 2 + 1 .. 4 : h[p] \in Digit
        /\ ValueOf(h[3]) = c /\ ValueOf(h[4]) = d
    BY <1>2, <1>5, <1>6, <1>9, <2>1
  <2>3. v(2, 1) = a /\ v(2, 2) = b /\ v(2, 3) = c /\ v(2, 4) = d
    BY <1>4, <1>9, <2>1, <2>2
  <2>5. 2 \in 0 .. 3
    OBVIOUS
  <2> HIDE DEF v
  <2> QED
    BY <1>7, <2>2, <2>3, <2>5
<1>10. CASE ~(n < 100) /\ n < 1000
  <2>1. ~(n < 10)
    BY <1>1, <1>10
  <2>2. /\ \A p \in 1 .. 1 : h[p] = Space
        /\ \A p \in 1 + 1 .. 4 : h[p] \in Digit
        /\ ValueOf(h[2]) = b /\ ValueOf(h[3]) = c /\ ValueOf(h[4]) = d
    BY <1>2, <1>5, <1>6, <1>10, <2>1
  <2>3. v(1, 1) = a /\ v(1, 2) = b /\ v(1, 3) = c /\ v(1, 4) = d
    BY <1>4, <1>10, <2>1, <2>2
  <2>5. 1 \in 0 .. 3
    OBVIOUS
  <2> HIDE DEF v
  <2> QED
    BY <1>7, <2>2, <2>3, <2>5
<1>11. CASE ~(n < 1000)
  <2>1. ~(n < 10) /\ ~(n < 100)
    BY <1>1, <1>11
  <2>2. /\ \A p \in 0 + 1 .. 4 : h[p] \in Digit
        /\ ValueOf(h[1]) = a /\ ValueOf(h[2]) = b /\ ValueOf(h[3]) = c /\ ValueOf(h[4]) = d
    BY <1>2, <1>5, <1>6, <1>11, <2>1
  <2>3. v(0, 1) = a /\ v(0, 2) = b /\ v(0, 3) = c /\ v(0, 4) = d
    BY <2>2
  <2>4. \A p \in 1 .. 0 : h[p] = Space
    OBVIOUS
  <2>5. 0 \in 0 .. 3
    OBVIOUS
  <2> HIDE DEF v
  <2> QED
    BY <1>7, <2>2, <2>3, <2>4, <2>5
<1> QED
  BY <1>1, <1>8, <1>9, <1>10, <1>11

\* What do_read_header_ makes of a header that operator= has written.
LEMMA EncodedDecodes ==
    ASSUME NEW n \in 0 .. max_body_length
    PROVE  /\ Len(encode_header(n)) = header_length
           /\ decode_header(encode_header(n)) = [ok |-> TRUE, body_length |-> n]
<1>1. Header(encode_header(n))
  BY EncodedIsHeader
<1>2. PICK s \in Splits(encode_header(n)) : Meaning(encode_header(n), s) = n
  BY EncodedSplits
<1>3. atoi(encode_header(n)) = n
  BY <1>1, <1>2, MeaningIsAtoi
<1>4. Len(encode_header(n)) = header_length
  BY <1>1, Length DEF header_length
<1> QED
  BY <1>3, <1>4 DEF decode_header

\* The length a sender writes into a header is the length the receiver reads from it, each of
\* those operator= can be given.
THEOREM LengthsAreKept == MHSpec => []LengthsSurvive
<1>1. MHInv => LengthsSurvive
  <2> SUFFICES ASSUME MHInv, announced >= 0
               PROVE  /\ Len(header) = header_length
                      /\ decode_header(header) = [ok |-> TRUE, body_length |-> announced]
    BY DEF LengthsSurvive
  <2>1. announced \in 0 .. max_body_length /\ header = encode_header(announced)
    BY DEF MHInv, max_body_length, header_length
  <2> QED
    BY <2>1, EncodedDecodes
<1> QED
  BY <1>1, MHInvariant, PTL
=============================================================================
