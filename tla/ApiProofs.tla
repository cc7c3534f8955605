------------------------------ MODULE ApiProofs ------------------------------
(***************************************************************************)
(* For any words and any number of edits: a text that still has the        *)
(* members of what was sent is read as that, no request is read in a text  *)
(* that does not have all its members, and no reply is longer than a body. *)
(***************************************************************************)
EXTENDS Api, MessageHeaderProofs

Name == {"type", "email", "nickname", "pass_hash", "message", "code"}
Kind == {"string", "number", "null", "array"}
Value ==
    Word \cup Nat \cup {"null", "array", "connect_response"} \cup RequestType \cup ResponseType
         \cup {m.message : m \in Reply}
AnyMember == {Member(name, kind, val) : name \in Name, kind \in Kind, val \in Value}

Sent == Request \cup Reply \cup {Greeting}

\* The first member of name f in s has the value v.
FirstIs(s, f, v) ==
    \E i \in DOMAIN s :
        s[i].name = f /\ s[i].val = v /\ \A k \in 1 .. i - 1 : s[k].name # f

\* What to_json() writes for member f of m.
Written(m, f) == [k \in {KindOf(f)} |-> m[f]]

TextIsText == msg \in Sent /\ text \in Seq(AnyMember)

SameIsSame == same => \A f \in MemberOf(msg.type) \cup {"type"} : FirstIs(text, f, Written(msg, f))

-----------------------------------------------------------------------------
(* Edits.                                                                   *)

LEMMA SwapKeeps ==
    ASSUME NEW S, NEW s \in Seq(S), NEW f, NEW v, FirstIs(s, f, v),
           NEW i \in 1 .. Len(s) - 1, s[i].name = f => s[i].name # s[i + 1].name
    PROVE  FirstIs([s EXCEPT ![i] = s[i + 1], ![i + 1] = s[i]], f, v)
<1> DEFINE t == [s EXCEPT ![i] = s[i + 1], ![i + 1] = s[i]]
<1>1. Len(s) \in Nat /\ DOMAIN s = 1 .. Len(s)
  BY LenProperties
<1>2. /\ DOMAIN t = DOMAIN s /\ t[i] = s[i + 1] /\ t[i + 1] = s[i]
      /\ \A k \in DOMAIN s : k # i /\ k # i + 1 => t[k] = s[k]
  BY <1>1
<1>3. PICK j \in DOMAIN s :
          s[j].name = f /\ s[j].val = v /\ \A k \in 1 .. j - 1 : s[k].name # f
  BY DEF FirstIs
<1> HIDE DEF t
<1>4. CASE j = i
  <2>1. t[i + 1].name = f /\ t[i + 1].val = v /\ \A k \in 1 .. i : t[k].name # f
    BY <1>1, <1>2, <1>3, <1>4
  <2>2. i + 1 \in DOMAIN t /\ (i + 1) - 1 = i
    BY <1>1, <1>2
  <2> QED
    BY <2>1, <2>2 DEF FirstIs, t
<1>5. CASE j = i + 1
  <2>1. t[i].name = f /\ t[i].val = v /\ \A k \in 1 .. i - 1 : t[k].name # f
    BY <1>1, <1>2, <1>3, <1>5
  <2>2. i \in DOMAIN t
    BY <1>1, <1>2
  <2> QED
    BY <2>1, <2>2 DEF FirstIs, t
<1>6. CASE j # i /\ j # i + 1
  <2>1. t[j].name = f /\ t[j].val = v /\ \A k \in 1 .. j - 1 : t[k].name # f
    BY <1>1, <1>2, <1>3, <1>6
  <2>2. j \in DOMAIN t
    BY <1>2
  <2> QED
    BY <2>1, <2>2 DEF FirstIs, t
<1> QED
  BY <1>4, <1>5, <1>6

LEMMA PrependKeeps ==
    ASSUME NEW S, NEW s \in Seq(S), NEW m \in S, NEW f, NEW v, FirstIs(s, f, v), m.name # f
    PROVE  FirstIs(<<m>> \o s, f, v)
<1> DEFINE t == <<m>> \o s
<1>1. Len(s) \in Nat /\ DOMAIN s = 1 .. Len(s) /\ <<m>> \in Seq(S)
  BY LenProperties
<1>2. /\ DOMAIN t = 1 .. 1 + Len(s) /\ t[1] = m
      /\ \A k \in 1 .. Len(s) : t[k + 1] = s[k]
  BY <1>1
<1>3. PICK j \in DOMAIN s :
          s[j].name = f /\ s[j].val = v /\ \A k \in 1 .. j - 1 : s[k].name # f
  BY DEF FirstIs
<1> HIDE DEF t
<1>4. \A k \in 2 .. j : t[k] = s[k - 1]
  BY <1>1, <1>2
<1>5. j + 1 \in DOMAIN t /\ t[j + 1].name = f /\ t[j + 1].val = v
  BY <1>1, <1>2, <1>3
<1>6. \A k \in 1 .. j : t[k].name # f
  BY <1>1, <1>2, <1>3, <1>4
<1>7. (j + 1) - 1 = j
  BY <1>1
<1> QED
  BY <1>5, <1>6, <1>7 DEF FirstIs, t

LEMMA AppendKeeps ==
    ASSUME NEW S, NEW s \in Seq(S), NEW m \in S, NEW f, NEW v, FirstIs(s, f, v)
    PROVE  FirstIs(s \o <<m>>, f, v)
<1> DEFINE t == s \o <<m>>
<1>1. Len(s) \in Nat /\ DOMAIN s = 1 .. Len(s) /\ <<m>> \in Seq(S)
  BY LenProperties
<1>2. DOMAIN t = 1 .. Len(s) + 1 /\ \A k \in 1 .. Len(s) : t[k] = s[k]
  BY <1>1
<1> HIDE DEF t
<1> QED
  BY <1>1, <1>2 DEF FirstIs, t

LEMMA DropKeeps ==
    ASSUME NEW S, NEW s \in Seq(S), NEW f, NEW v, FirstIs(s, f, v), NEW i \in DOMAIN s,
           s[i].name = f => \E j \in 1 .. i - 1 : s[j].name = s[i].name
    PROVE  FirstIs(SubSeq(s, 1, i - 1) \o SubSeq(s, i + 1, Len(s)), f, v)
<1> DEFINE a == SubSeq(s, 1, i - 1)
           b == SubSeq(s, i + 1, Len(s))
           t == a \o b
<1>1. Len(s) \in Nat /\ DOMAIN s = 1 .. Len(s)
  BY LenProperties
<1>2. a \in Seq(S) /\ Len(a) = i - 1 /\ \A k \in 1 .. i - 1 : a[k] = s[k]
  BY <1>1, SubSeqProperties
<1>3. b \in Seq(S) /\ Len(b) = Len(s) - i /\ \A k \in 1 .. Len(s) - i : b[k] = s[i + k]
  BY <1>1, SubSeqProperties
<1> HIDE DEF a, b
<1>4. /\ DOMAIN t = 1 .. Len(s) - 1
      /\ \A k \in 1 .. i - 1 : t[k] = s[k]
      /\ \A k \in i .. Len(s) - 1 : t[k] = s[k + 1]
  <2>1. Len(t) = Len(a) + Len(b) /\ DOMAIN t = 1 .. Len(t)
    BY <1>2, <1>3, ConcatProperties
  <2>2. \A k \in 1 .. Len(t) : t[k] = IF k <= Len(a) THEN a[k] ELSE b[k - Len(a)]
    BY <1>2, <1>3, ConcatProperties
  <2>3. Len(t) = Len(s) - 1
    BY <1>1, <1>2, <1>3, <2>1
  <2>4. \A k \in 1 .. i - 1 : t[k] = s[k]
    BY <1>1, <1>2, <2>2, <2>3
  <2>5. ASSUME NEW k \in i .. Len(s) - 1
        PROVE  t[k] = s[k + 1]
    <3>1. k \in 1 .. Len(t) /\ ~(k <= Len(a)) /\ k - Len(a) = k - i + 1
      BY <1>1, <1>2, <2>3
    <3>2. k - i + 1 \in 1 .. Len(s) - i /\ i + (k - i + 1) = k + 1
      BY <1>1
    <3> QED
      BY <1>3, <2>2, <3>1, <3>2
  <2> QED
    BY <2>1, <2>3, <2>4, <2>5
<1>5. PICK j \in DOMAIN s :
          s[j].name = f /\ s[j].val = v /\ \A k \in 1 .. j - 1 : s[k].name # f
  BY DEF FirstIs
<1> HIDE DEF t
<1>6. j # i
  <2> SUFFICES ASSUME j = i PROVE FALSE
    OBVIOUS
  <2>1. PICK k \in 1 .. i - 1 : s[k].name = s[i].name
    BY <1>5
  <2> QED
    BY <1>5, <2>1
<1>7. CASE j < i
  <2>1. j \in DOMAIN t /\ t[j].name = f /\ t[j].val = v
    BY <1>1, <1>4, <1>5, <1>7
  <2>2. \A k \in 1 .. j - 1 : t[k].name # f
    BY <1>1, <1>4, <1>5, <1>7, SMTT(30)
  <2> QED
    BY <2>1, <2>2 DEF FirstIs, t, a, b
<1>8. CASE j > i
  <2>1. j - 1 \in DOMAIN t /\ t[j - 1].name = f /\ t[j - 1].val = v
    BY <1>1, <1>4, <1>5, <1>8
  <2>2. ASSUME NEW k \in 1 .. (j - 1) - 1
        PROVE  t[k].name # f
    <3>1. k \in 1 .. j - 1 /\ k + 1 \in 1 .. j - 1
      BY <1>1
    <3>2. t[k] \in {s[k], s[k + 1]}
      BY <1>1, <1>4, <1>8
    <3> QED
      BY <1>5, <3>1, <3>2
  <2> QED
    BY <2>1, <2>2 DEF FirstIs, t, a, b
<1> QED
  BY <1>1, <1>6, <1>7, <1>8

-----------------------------------------------------------------------------
(* The invariants.                                                          *)

LEMMA MemberIsAny ==
    ASSUME NEW name \in Name, NEW kind \in Kind, NEW val \in Value
    PROVE  Member(name, kind, val) \in AnyMember
  BY DEF AnyMember

LEMMA OtherMembersAreAny ==
    ASSUME NEW m \in OtherMember
    PROVE  m \in AnyMember
<1>1. Word \subseteq Value /\ 1 \in Value /\ "null" \in Value /\ "array" \in Value
  BY DEF Value
<1>2. PICK name \in Name, kind \in Kind, val \in Value : m = Member(name, kind, val)
  BY <1>1 DEF OtherMember, Name, Kind
<1> QED
  BY <1>2, MemberIsAny

\* What the members after "type" of an object must be.
Members(s, m) ==
    /\ s \in Seq(Name) /\ Len(s) \in Nat /\ DOMAIN s = 1 .. Len(s)
    /\ \A i \in 1 .. Len(s) : s[i] # "type" /\ m[s[i]] \in Value
    /\ \A i, j \in 1 .. Len(s) : s[i] = s[j] => i = j

LEMMA ThreeMembers ==
    ASSUME NEW m, m.email \in Value, m.nickname \in Value, m.pass_hash \in Value
    PROVE  Members(<<"email", "nickname", "pass_hash">>, m)
<1> DEFINE s == <<"email", "nickname", "pass_hash">>
<1>1. s \in Seq(Name) /\ Len(s) = 3
  BY DEF Name
<1>2. s[1] = "email" /\ s[2] = "nickname" /\ s[3] = "pass_hash"
  OBVIOUS
<1> HIDE DEF s
<1>3. \A i \in 1 .. 3 : i = 1 \/ i = 2 \/ i = 3
  OBVIOUS
<1>4. \A i \in 1 .. 3 : s[i] # "type" /\ m[s[i]] \in Value
  BY <1>2, <1>3
<1>5. \A i, j \in 1 .. 3 : s[i] = s[j] => i = j
  BY <1>2, <1>3
<1>6. DOMAIN s = 1 .. 3
  BY <1>1, LenProperties
<1>7. Members(s, m)
  BY <1>1, <1>4, <1>5, <1>6 DEF Members
<1> QED
  BY <1>7 DEF s

LEMMA TwoMembers ==
    ASSUME NEW m, NEW a \in Name, NEW b \in Name, a # b, a # "type", b # "type",
           m[a] \in Value, m[b] \in Value
    PROVE  Members(<<a, b>>, m)
<1> DEFINE s == <<a, b>>
<1>1. s \in Seq(Name) /\ Len(s) = 2
  OBVIOUS
<1>2. s[1] = a /\ s[2] = b
  OBVIOUS
<1> HIDE DEF s
<1>3. \A i \in 1 .. 2 : i = 1 \/ i = 2
  OBVIOUS
<1>4. \A i \in 1 .. 2 : s[i] # "type" /\ m[s[i]] \in Value
  BY <1>2, <1>3
<1>5. \A i, j \in 1 .. 2 : s[i] = s[j] => i = j
  BY <1>2, <1>3
<1>6. DOMAIN s = 1 .. 2
  BY <1>1, LenProperties
<1>7. Members(s, m)
  BY <1>1, <1>4, <1>5, <1>6 DEF Members
<1> QED
  BY <1>7 DEF s

LEMMA RequestsHaveMembers ==
    ASSUME NEW m \in Request
    PROVE  Members(members[m.type], m)
<1>1. CASE m.type = "register_request"
  <2>1. members[m.type] = <<"email", "nickname", "pass_hash">>
    BY <1>1 DEF members, register_request
  <2>2. m.email \in Value /\ m.nickname \in Value /\ m.pass_hash \in Value
    BY <1>1 DEF Request, Value
  <2> QED
    BY <2>1, <2>2, ThreeMembers
<1>2. CASE m.type \in {"login_request", "unregister_request"}
  <2>1. members[m.type] = <<"email", "pass_hash">>
    BY <1>2 DEF members, login_request, unregister_request
  <2>2. m.email \in Value /\ m.pass_hash \in Value
    BY <1>2 DEF Request, Value
  <2> QED
    BY <2>1, <2>2, TwoMembers DEF Name
<1> QED
  BY <1>1, <1>2 DEF Request

LEMMA RepliesHaveMembers ==
    ASSUME NEW m \in Reply
    PROVE  /\ Members(members[m.type], m)
           /\ m.type \in ResponseType
<1>1. m.type \in ResponseType /\ m.code \in Nat
  <2>1. \A t, c, words : response(t, c, words).type = t /\ response(t, c, words).code = c
    BY DEF response
  <2>2. register_code.OK \in Nat /\ register_code.NAME_TAKEN \in Nat
    BY DEF register_code
  <2>3. /\ login_code.OK \in Nat /\ login_code.NAME_UNKNOWN \in Nat
        /\ login_code.PASS_INCORRECT \in Nat
    BY DEF login_code
  <2>4. /\ unregister_code.OK \in Nat /\ unregister_code.NO_NAME \in Nat
        /\ unregister_code.NO_PASS \in Nat
    BY DEF unregister_code
  <2>5. CASE m \in register_replies
    <3>1. PICK c \in Nat : \E words : m = response("register_response", c, words)
      BY <2>2, <2>5 DEF register_replies
    <3> QED
      BY <2>1, <3>1 DEF ResponseType
  <2>6. CASE m \in login_replies
    <3>1. PICK c \in Nat : \E words : m = response("login_response", c, words)
      BY <2>3, <2>6 DEF login_replies
    <3> QED
      BY <2>1, <3>1 DEF ResponseType
  <2>7. CASE m \in unregister_replies
    <3>1. PICK c \in Nat : \E words : m = response("unregister_response", c, words)
      BY <2>4, <2>7 DEF unregister_replies
    <3> QED
      BY <2>1, <3>1 DEF ResponseType
  <2> QED
    BY <2>5, <2>6, <2>7 DEF Reply
<1>2. members[m.type] = <<"message", "code">>
  BY <1>1 DEF members, register_response, login_response, unregister_response, ResponseType
<1>3. m.message \in Value /\ m.code \in Value
  BY <1>1 DEF Value
<1> QED
  BY <1>1, <1>2, <1>3, TwoMembers DEF Name

LEMMA GreetingHasMembers == Members(members[Greeting.type], Greeting)
<1> DEFINE s == <<"code">>
<1>1. s \in Seq(Name) /\ Len(s) = 1 /\ s[1] = "code"
  BY DEF Name
<1>2. members[Greeting.type] = s /\ Greeting["code"] \in Value
  BY DEF members, connect_response, Greeting, Value
<1> HIDE DEF s
<1>3. DOMAIN s = 1 .. 1
  BY <1>1, LenProperties
<1>4. \A i \in 1 .. 1 : s[i] = "code"
  BY <1>1
<1>5. \A i, j \in 1 .. 1 : i = j
  OBVIOUS
<1>6. Members(s, Greeting)
  <2>1. \A i \in 1 .. 1 : s[i] # "type" /\ Greeting[s[i]] \in Value
    BY <1>2, <1>4
  <2> QED
    BY <1>1, <1>3, <1>5, <2>1 DEF Members
<1> QED
  BY <1>2, <1>6

LEMMA ObjectsHaveMembers ==
    ASSUME NEW m \in Sent
    PROVE  Members(members[m.type], m) /\ m.type \in Value
<1>1. CASE m \in Request
  BY <1>1, RequestsHaveMembers DEF Request, RequestType, Value
<1>2. CASE m \in Reply
  BY <1>2, RepliesHaveMembers DEF Value
<1>3. CASE m = Greeting
  BY <1>3, GreetingHasMembers DEF Greeting, Value
<1> QED
  BY <1>1, <1>2, <1>3 DEF Sent

LEMMA ToJsonIs ==
    ASSUME NEW m \in Sent
    PROVE  LET s == members[m.type]
               t == to_json(m)
           IN  /\ t \in Seq(AnyMember) /\ Len(t) = 1 + Len(s) /\ DOMAIN t = 1 .. 1 + Len(s)
               /\ t[1] = Member("type", "string", m.type)
               /\ \A i \in 1 .. Len(s) : t[i + 1] = Member(s[i], KindOf(s[i]), m[s[i]])
<1> DEFINE s == members[m.type]
           one(name) == Member(name, KindOf(name), m[name])
           tail == [i \in 1 .. Len(s) |-> one(s[i])]
           head == <<Member("type", "string", m.type)>>
           t == head \o tail
<1>1. Members(s, m) /\ m.type \in Value
  BY ObjectsHaveMembers
<1>2. to_json(m) = t
  BY DEF to_json
<1> HIDE DEF s
<1>3. \A name \in Name : KindOf(name) \in Kind
  BY DEF KindOf, Kind
<1>4. tail \in Seq(AnyMember) /\ Len(tail) = Len(s) /\ \A i \in 1 .. Len(s) : tail[i] = one(s[i])
  <2>1. \A i \in 1 .. Len(s) : s[i] \in Name
    BY <1>1 DEF Members
  <2>2. \A i \in 1 .. Len(s) : one(s[i]) \in AnyMember
    BY <1>1, <1>3, <2>1, MemberIsAny DEF Members
  <2> QED
    BY <1>1, <2>2 DEF Members
<1>5. head \in Seq(AnyMember) /\ Len(head) = 1 /\ head[1] = Member("type", "string", m.type)
  BY <1>1, MemberIsAny DEF Name, Kind
<1> HIDE DEF tail, head
<1>6. /\ t \in Seq(AnyMember) /\ Len(t) = 1 + Len(s) /\ DOMAIN t = 1 .. 1 + Len(s)
      /\ t[1] = Member("type", "string", m.type)
      /\ \A i \in 1 .. Len(s) : t[i + 1] = one(s[i])
  <2>a. Len(s) \in Nat
    BY <1>1 DEF Members
  <2>b. head \in Seq(AnyMember) /\ tail \in Seq(AnyMember)
    BY <1>4, <1>5
  <2>c. t \in Seq(AnyMember) /\ Len(t) = Len(head) + Len(tail)
    BY <2>b, ConcatProperties
  <2>1. t \in Seq(AnyMember) /\ Len(t) = 1 + Len(s) /\ Len(s) \in Nat
    BY <1>4, <1>5, <2>a, <2>c
  <2>d. \A i \in 1 .. Len(t) : t[i] = IF i <= Len(head) THEN head[i] ELSE tail[i - Len(head)]
    BY <2>b, ConcatProperties
  <2>2. \A i \in 1 .. Len(t) : t[i] = IF i <= 1 THEN head[i] ELSE tail[i - 1]
    BY <1>5, <2>d
  <2>3. ASSUME NEW i \in 1 .. Len(s) PROVE t[i + 1] = one(s[i])
    <3>1. i + 1 \in 1 .. Len(t) /\ ~(i + 1 <= 1) /\ (i + 1) - 1 = i
      BY <2>1
    <3> QED
      BY <1>4, <2>2, <3>1
  <2>4. DOMAIN t = 1 .. 1 + Len(s)
    BY <2>1, LenProperties
  <2>5. t[1] = head[1]
    BY <2>1, <2>2
  <2> QED
    BY <1>5, <2>1, <2>3, <2>4, <2>5
<1> QED
  BY <1>2, <1>6 DEF s

LEMMA ToJsonWrites ==
    ASSUME NEW m \in Sent
    PROVE  /\ to_json(m) \in Seq(AnyMember)
           /\ \A f \in MemberOf(m.type) \cup {"type"} : FirstIs(to_json(m), f, Written(m, f))
<1> DEFINE s == members[m.type]
           t == to_json(m)
<1>1. Members(s, m) /\ m.type \in Value
  BY ObjectsHaveMembers
<1>2. /\ t \in Seq(AnyMember) /\ DOMAIN t = 1 .. 1 + Len(s)
      /\ t[1] = Member("type", "string", m.type)
      /\ \A i \in 1 .. Len(s) : t[i + 1] = Member(s[i], KindOf(s[i]), m[s[i]])
  BY ToJsonIs
<1> HIDE DEF s, t
<1>3. \A name : Member(name, KindOf(name), m[name]).name = name
                /\ Member(name, KindOf(name), m[name]).val = Written(m, name)
  BY DEF Member, Written
<1>4. FirstIs(t, "type", Written(m, "type"))
  <2>1. t[1].name = "type" /\ t[1].val = Written(m, "type")
    BY <1>2 DEF Member, Written, KindOf
  <2>2. 1 \in DOMAIN t /\ \A k \in 1 .. 1 - 1 : FALSE
    BY <1>1, <1>2 DEF Members
  <2> QED
    BY <2>1, <2>2 DEF FirstIs
<1>5. ASSUME NEW f \in MemberOf(m.type) PROVE FirstIs(t, f, Written(m, f))
  <2>1. PICK i \in 1 .. Len(s) : f = s[i]
    BY <1>1 DEF MemberOf, Members, s
  <2>2. t[i + 1].name = f /\ t[i + 1].val = Written(m, f)
    BY <1>2, <1>3, <2>1
  <2>3. i + 1 \in DOMAIN t /\ (i + 1) - 1 = i /\ i \in Nat
    BY <1>1, <1>2 DEF Members
  <2>4. ASSUME NEW k \in 1 .. i PROVE t[k].name # f
    <3>1. CASE k = 1
      BY <1>1, <1>2, <2>1, <3>1 DEF Member, Members
    <3>2. CASE k # 1
      <4>1. k - 1 \in 1 .. Len(s) /\ (k - 1) + 1 = k /\ k - 1 # i
        BY <1>1, <2>3, <3>2 DEF Members
      <4>2. t[k].name = s[k - 1]
        BY <1>2, <1>3, <4>1
      <4> QED
        BY <1>1, <2>1, <4>1, <4>2 DEF Members
    <3> QED
      BY <3>1, <3>2
  <2> QED
    BY <2>2, <2>3, <2>4 DEF FirstIs
<1> QED
  BY <1>2, <1>4, <1>5 DEF t

LEMMA InitText ==
    ASSUME Init
    PROVE  TextIsText /\ SameIsSame
<1>1. msg \in Sent /\ text = to_json(msg)
  BY DEF Init, Sent
<1> QED
  BY <1>1, ToJsonWrites DEF TextIsText, SameIsSame

LEMMA SwapStep ==
    ASSUME TextIsText, SameIsSame, NEW i \in 1 .. Len(text) - 1, swap(i)
    PROVE  TextIsText' /\ SameIsSame'
<1> DEFINE new == [text EXCEPT ![i] = text[i + 1], ![i + 1] = text[i]]
<1>1. text' = new /\ msg' = msg
  BY DEF swap, Edit
<1>2. text \in Seq(AnyMember) /\ Len(text) \in Nat /\ DOMAIN text = 1 .. Len(text)
  BY LenProperties DEF TextIsText
<1>3. new \in Seq(AnyMember)
  <2>1. i \in DOMAIN text /\ i + 1 \in DOMAIN text
    BY <1>2
  <2>2. text[i] \in AnyMember /\ text[i + 1] \in AnyMember
    BY <1>2, <2>1
  <2>3. [text EXCEPT ![i] = text[i + 1]] \in Seq(AnyMember)
    BY <1>2, <2>1, <2>2, ExceptSeq
  <2>4. DOMAIN [text EXCEPT ![i] = text[i + 1]] = DOMAIN text
    OBVIOUS
  <2> QED
    BY <2>1, <2>2, <2>3, <2>4, ExceptSeq
<1> HIDE DEF new
<1>4. ASSUME same', NEW f \in MemberOf(msg.type) \cup {"type"}
      PROVE  FirstIs(new, f, Written(msg, f))
  <2>1. same /\ Needed(f)
    BY <1>4 DEF swap, Needed
  <2>2. FirstIs(text, f, Written(msg, f))
    BY <2>1 DEF SameIsSame
  <2>3. text[i].name = f => text[i].name # text[i + 1].name
    BY <1>4, <2>1 DEF swap
  <2> QED
    BY <1>2, <2>2, <2>3, SwapKeeps DEF new
<1> QED
  BY <1>1, <1>3, <1>4 DEF TextIsText, SameIsSame

LEMMA PrependStep ==
    ASSUME TextIsText, SameIsSame, NEW m \in OtherMember, prepend(m)
    PROVE  TextIsText' /\ SameIsSame'
<1> DEFINE new == <<m>> \o text
<1>1. text' = new /\ msg' = msg
  BY DEF prepend, Edit
<1>2. text \in Seq(AnyMember) /\ m \in AnyMember
  BY OtherMembersAreAny DEF TextIsText
<1>3. new \in Seq(AnyMember)
  <2>1. <<m>> \in Seq(AnyMember)
    BY <1>2
  <2> QED
    BY <1>2, <2>1, ConcatProperties
<1> HIDE DEF new
<1>4. ASSUME same', NEW f \in MemberOf(msg.type) \cup {"type"}
      PROVE  FirstIs(new, f, Written(msg, f))
  <2>1. same /\ Needed(f) /\ ~Needed(m.name)
    BY <1>4 DEF prepend, Needed
  <2>2. FirstIs(text, f, Written(msg, f))
    BY <2>1 DEF SameIsSame
  <2>3. m.name # f
    BY <2>1
  <2> QED
    BY <1>2, <2>2, <2>3, PrependKeeps DEF new
<1> QED
  BY <1>1, <1>3, <1>4 DEF TextIsText, SameIsSame

LEMMA AppendStep ==
    ASSUME TextIsText, SameIsSame, NEW m \in OtherMember, append(m)
    PROVE  TextIsText' /\ SameIsSame'
<1> DEFINE new == text \o <<m>>
<1>1. text' = new /\ msg' = msg
  BY DEF append, Edit
<1>2. text \in Seq(AnyMember) /\ m \in AnyMember
  BY OtherMembersAreAny DEF TextIsText
<1>3. new \in Seq(AnyMember)
  <2>1. <<m>> \in Seq(AnyMember)
    BY <1>2
  <2> QED
    BY <1>2, <2>1, ConcatProperties
<1> HIDE DEF new
<1>4. ASSUME same', NEW f \in MemberOf(msg.type) \cup {"type"}
      PROVE  FirstIs(new, f, Written(msg, f))
  <2>1. FirstIs(text, f, Written(msg, f))
    BY <1>4 DEF SameIsSame, append
  <2> QED
    BY <1>2, <2>1, AppendKeeps DEF new
<1> QED
  BY <1>1, <1>3, <1>4 DEF TextIsText, SameIsSame

LEMMA DropStep ==
    ASSUME TextIsText, SameIsSame, NEW i \in DOMAIN text, drop(i)
    PROVE  TextIsText' /\ SameIsSame'
<1> DEFINE a == SubSeq(text, 1, i - 1)
           b == SubSeq(text, i + 1, Len(text))
           new == a \o b
<1>1. text' = new /\ msg' = msg
  BY DEF drop, Edit
<1>2. text \in Seq(AnyMember) /\ Len(text) \in Nat /\ DOMAIN text = 1 .. Len(text)
  BY LenProperties DEF TextIsText
<1>3. new \in Seq(AnyMember)
  <2>1. a \in Seq(AnyMember) /\ b \in Seq(AnyMember)
    BY <1>2, SubSeqProperties
  <2> QED
    BY <2>1, ConcatProperties
<1> HIDE DEF new, a, b
<1>4. ASSUME same', NEW f \in MemberOf(msg.type) \cup {"type"}
      PROVE  FirstIs(new, f, Written(msg, f))
  <2>1. same /\ Needed(f)
    BY <1>4 DEF drop, Needed
  <2>2. FirstIs(text, f, Written(msg, f))
    BY <2>1 DEF SameIsSame
  <2>3. text[i].name = f => \E j \in 1 .. i - 1 : text[j].name = text[i].name
    BY <1>4, <2>1 DEF drop
  <2> QED
    BY <1>2, <2>2, <2>3, DropKeeps DEF new, a, b
<1> QED
  BY <1>1, <1>3, <1>4 DEF TextIsText, SameIsSame

LEMMA StepText ==
    ASSUME TextIsText, SameIsSame, [Next]_vars
    PROVE  TextIsText' /\ SameIsSame'
<1>1. CASE \E i \in 1 .. Len(text) - 1 : swap(i)
  BY <1>1, SwapStep
<1>2. CASE \E m \in OtherMember : prepend(m) \/ append(m)
  BY <1>2, PrependStep, AppendStep
<1>3. CASE \E i \in DOMAIN text : drop(i)
  BY <1>3, DropStep
<1>4. CASE UNCHANGED vars
  BY <1>4 DEF vars, TextIsText, SameIsSame
<1> QED
  BY <1>1, <1>2, <1>3, <1>4 DEF Next

-----------------------------------------------------------------------------
(* Reading.                                                                 *)

LEMMA FirstIsRead ==
    ASSUME NEW s \in Seq(AnyMember), NEW f, NEW m, FirstIs(s, f, Written(m, f))
    PROVE  value_as(s, f, KindOf(f)) = {m[f]}
<1>1. PICK i \in DOMAIN s :
          s[i].name = f /\ s[i].val = Written(m, f) /\ \A k \in 1 .. i - 1 : s[k].name # f
  BY DEF FirstIs
<1>2. Len(s) \in Nat /\ DOMAIN s = 1 .. Len(s)
  BY LenProperties
<1>3. ASSUME NEW j \in DOMAIN s, s[j].name = f, \A k \in 1 .. j - 1 : s[k].name # f
      PROVE  j = i
  <2>1. ~(j < i) /\ ~(i < j)
    BY <1>1, <1>2, <1>3
  <2> QED
    BY <1>2, <2>1
<1>4. Named(s, f) = {Written(m, f)}
  BY <1>1, <1>3 DEF Named
<1>5. KindOf(f) \in DOMAIN Written(m, f) /\ Written(m, f)[KindOf(f)] = m[f]
  BY DEF Written
<1> QED
  BY <1>4, <1>5 DEF value_as

LEMMA MembersOfTypes ==
    /\ MemberOf("connect_response") = {"code"}
    /\ MemberOf("register_request") = {"email", "nickname", "pass_hash"}
    /\ \A t \in {"login_request", "unregister_request"} : MemberOf(t) = {"email", "pass_hash"}
    /\ \A t \in ResponseType : MemberOf(t) = {"message", "code"}
<1>1. \A a : {<<a>>[i] : i \in DOMAIN <<a>>} = {a}
  OBVIOUS
<1>2. \A a, b : {<<a, b>>[i] : i \in DOMAIN <<a, b>>} = {a, b}
  OBVIOUS
<1>3. \A a, b, c : {<<a, b, c>>[i] : i \in DOMAIN <<a, b, c>>} = {a, b, c}
  OBVIOUS
<1>4. MemberOf("connect_response") = {"code"}
  <2>1. members["connect_response"] = <<"code">>
    BY DEF members, connect_response
  <2> QED
    BY <1>1, <2>1 DEF MemberOf
<1>5. MemberOf("register_request") = {"email", "nickname", "pass_hash"}
  <2>1. members["register_request"] = <<"email", "nickname", "pass_hash">>
    BY DEF members, register_request
  <2> QED
    BY <1>3, <2>1 DEF MemberOf
<1>6. ASSUME NEW t \in {"login_request", "unregister_request"}
      PROVE  MemberOf(t) = {"email", "pass_hash"}
  <2>1. members[t] = <<"email", "pass_hash">>
    BY DEF members, login_request, unregister_request
  <2> QED
    BY <1>2, <2>1 DEF MemberOf
<1>7. ASSUME NEW t \in ResponseType
      PROVE  MemberOf(t) = {"message", "code"}
  <2>1. members[t] = <<"message", "code">>
    BY DEF members, register_response, login_response, unregister_response, ResponseType
  <2> QED
    BY <1>2, <2>1 DEF MemberOf
<1> QED
  BY <1>4, <1>5, <1>6, <1>7

LEMMA ObjectIsItsMembers ==
    ASSUME NEW m \in Sent
    PROVE  /\ m = [f \in MemberOf(m.type) \cup {"type"} |-> m[f]]
           /\ m.type \in RequestType \cup ResponseType \cup {"connect_response"}
           /\ m.type \in RequestType <=> m \in Request
           /\ m.type \in ResponseType <=> m \in Reply
<1>1. CASE m \in [type : {"register_request"}, nickname : Word, email : Word, pass_hash : Word]
  <2>1. m = [type |-> m.type, nickname |-> m.nickname, email |-> m.email,
             pass_hash |-> m.pass_hash] /\ m.type = "register_request"
    BY <1>1
  <2>2. MemberOf(m.type) \cup {"type"} = {"type", "nickname", "email", "pass_hash"}
    BY <2>1, MembersOfTypes
  <2>3. m = [f \in MemberOf(m.type) \cup {"type"} |-> m[f]]
    BY <2>1, <2>2
  <2>4. m \notin Reply
    BY <2>1, RepliesHaveMembers DEF ResponseType
  <2> QED
    BY <1>1, <2>1, <2>3, <2>4 DEF Request, RequestType, ResponseType
<1>2. CASE m \in [type : {"login_request", "unregister_request"}, email : Word, pass_hash : Word]
  <2>1. m = [type |-> m.type, email |-> m.email, pass_hash |-> m.pass_hash]
        /\ m.type \in {"login_request", "unregister_request"}
    BY <1>2
  <2>2. MemberOf(m.type) \cup {"type"} = {"type", "email", "pass_hash"}
    BY <2>1, MembersOfTypes
  <2>3. m = [f \in MemberOf(m.type) \cup {"type"} |-> m[f]]
    BY <2>1, <2>2
  <2>4. m \notin Reply
    BY <2>1, RepliesHaveMembers DEF ResponseType
  <2> QED
    BY <1>2, <2>1, <2>3, <2>4 DEF Request, RequestType, ResponseType
<1>3. CASE m \in Reply
  <2>1. m = [type |-> m.type, code |-> m.code, message |-> m.message]
    BY <1>3 DEF Reply, register_replies, login_replies, unregister_replies, response
  <2>2. m.type \in ResponseType
    BY <1>3, RepliesHaveMembers
  <2>3. MemberOf(m.type) \cup {"type"} = {"type", "code", "message"}
    BY <2>2, MembersOfTypes
  <2>4. m = [f \in MemberOf(m.type) \cup {"type"} |-> m[f]]
    BY <2>1, <2>3
  <2> QED
    BY <1>3, <2>2, <2>4 DEF Request, RequestType, ResponseType
<1>4. CASE m = Greeting
  <2>1. m = [type |-> m.type, code |-> m.code] /\ m.type = "connect_response"
    BY <1>4 DEF Greeting
  <2>2. MemberOf(m.type) \cup {"type"} = {"type", "code"}
    BY <2>1, MembersOfTypes
  <2>3. m = [f \in MemberOf(m.type) \cup {"type"} |-> m[f]]
    BY <2>1, <2>2
  <2>4. m \notin Reply
    BY <2>1, RepliesHaveMembers DEF ResponseType
  <2> QED
    BY <2>1, <2>3, <2>4 DEF Request, RequestType, ResponseType
<1> QED
  BY <1>1, <1>2, <1>3, <1>4 DEF Sent, Request

LEMMA TextIsRead ==
    ASSUME TextIsText, SameIsSame, same
    PROVE  /\ from_json(msg.type, text) = {msg}
           /\ value_as(text, "type", "string") = {msg.type}
<1>1. msg \in Sent /\ text \in Seq(AnyMember)
  BY DEF TextIsText
<1>2. \A f \in MemberOf(msg.type) \cup {"type"} : value_as(text, f, KindOf(f)) = {msg[f]}
  BY <1>1, FirstIsRead DEF SameIsSame
<1>3. value_as(text, "type", "string") = {msg.type}
  BY <1>2 DEF KindOf
<1> DEFINE found(f) == IF f = "type" THEN {msg.type} ELSE value_as(text, f, KindOf(f))
           all == MemberOf(msg.type) \cup {"type"}
<1>4. \A f \in all : found(f) = {msg[f]}
  BY <1>2
<1>5. [f \in all |-> CHOOSE v \in found(f) : TRUE] = [f \in all |-> msg[f]]
  BY <1>4
<1>6. from_json(msg.type, text) = {[f \in all |-> msg[f]]}
  BY <1>4, <1>5 DEF from_json
<1> QED
  BY <1>1, <1>3, <1>6, ObjectIsItsMembers

-----------------------------------------------------------------------------
(* Lengths.                                                                 *)

\* What MapThenSumSet() adds up, along the elements of s that CHOOSE takes.
Sums(f, F, S) ==
    f = [s \in SUBSET S |->
            IF s = {} THEN 0 ELSE LET x == CHOOSE x \in s : TRUE IN F[x] + f[s \ {x}]]

LEMMA SumExists ==
    ASSUME NEW S \in SUBSET (1 .. 3), NEW F, \A i \in S : F[i] \in Nat
    PROVE  \E f : Sums(f, F, S)
<1> DEFINE V(s, i) == IF i \in s THEN F[i] ELSE 0
           g == [s \in SUBSET S |-> V(s, 1) + V(s, 2) + V(s, 3)]
<1>1. \A s \in SUBSET S : V(s, 1) \in Nat /\ V(s, 2) \in Nat /\ V(s, 3) \in Nat
  OBVIOUS
<1>2. ASSUME NEW s \in SUBSET S, NEW x \in s
      PROVE  g[s] = F[x] + g[s \ {x}]
  <2> DEFINE r == s \ {x}
  <2>1. V(r, x) = 0 /\ V(s, x) = F[x] /\ \A i \in {1, 2, 3} : i # x => V(r, i) = V(s, i)
    OBVIOUS
  <2>2. x = 1 \/ x = 2 \/ x = 3
    OBVIOUS
  <2>3. r \in SUBSET S
    OBVIOUS
  <2>4. V(s, 1) \in Nat /\ V(s, 2) \in Nat /\ V(s, 3) \in Nat
    BY <1>1
  <2>5. g[s] = V(s, 1) + V(s, 2) + V(s, 3) /\ g[r] = V(r, 1) + V(r, 2) + V(r, 3)
    BY <2>3
  <2> HIDE DEF V, g, r
  <2>6. CASE x = 1
    BY <2>1, <2>4, <2>5, <2>6 DEF r
  <2>7. CASE x = 2
    BY <2>1, <2>4, <2>5, <2>7 DEF r
  <2>8. CASE x = 3
    BY <2>1, <2>4, <2>5, <2>8 DEF r
  <2> QED
    BY <2>2, <2>6, <2>7, <2>8
<1>3. g[{}] = 0
  OBVIOUS
<1>4. \A s \in SUBSET S :
         g[s] = IF s = {} THEN 0 ELSE LET x == CHOOSE x \in s : TRUE IN F[x] + g[s \ {x}]
  <2> TAKE s \in SUBSET S
  <2> DEFINE x == CHOOSE x \in s : TRUE
  <2>1. s # {} => x \in s
    OBVIOUS
  <2> HIDE DEF g, x
  <2>2. s # {} => g[s] = F[x] + g[s \ {x}]
    BY <1>2, <2>1
  <2> QED
    BY <1>3, <2>2 DEF x
<1>5. g = [s \in SUBSET S |-> g[s]]
  OBVIOUS
<1> HIDE DEF g
<1>6. Sums(g, F, S)
  BY <1>4, <1>5 DEF Sums
<1> QED
  BY <1>6

LEMMA SumIsBounded ==
    ASSUME NEW K \in Nat, NEW n \in 2 .. 3, NEW F, \A i \in 1 .. n : F[i] \in 0 .. K,
           NEW f, Sums(f, F, 1 .. n)
    PROVE  f[1 .. n] \in 0 .. 3 * K
<1> DEFINE S == 1 .. n
<1>1. f[{}] = 0
  BY DEF Sums
<1>2. ASSUME NEW s \in SUBSET S, s # {}
      PROVE  \E x \in s : f[s] = F[x] + f[s \ {x}]
  <2> DEFINE x == CHOOSE x \in s : TRUE
  <2>1. x \in s
    BY <1>2
  <2>2. f[s] = F[x] + f[s \ {x}]
    BY <1>2 DEF Sums
  <2> HIDE DEF x
  <2> QED
    BY <2>1, <2>2
<1>3. \A i \in S : F[i] \in Int /\ F[i] >= 0 /\ F[i] <= K
  OBVIOUS
<1>4. ASSUME NEW a \in S
      PROVE  f[{a}] \in Int /\ 0 <= f[{a}] /\ f[{a}] <= K
  <2>1. f[{a}] = F[a] + f[{a} \ {a}] /\ {a} \ {a} = {}
    BY <1>2
  <2>2. f[{a}] = F[a] + 0 /\ F[a] \in Int /\ F[a] >= 0 /\ F[a] <= K
    BY <1>1, <1>3, <2>1
  <2> QED
    BY <2>2
<1>5. ASSUME NEW a \in S, NEW b \in S, a # b
      PROVE  f[{a, b}] \in Int /\ 0 <= f[{a, b}] /\ f[{a, b}] <= 2 * K
  <2>1. PICK x \in {a, b} : f[{a, b}] = F[x] + f[{a, b} \ {x}]
    BY <1>2
  <2>2. PICK y \in S : {a, b} \ {x} = {y} /\ x \in S
    <3>1. {a, b} \ {a} = {b} /\ {a, b} \ {b} = {a}
      BY <1>5
    <3> QED
      BY <3>1
  <2>3. f[{a, b}] = F[x] + f[{y}] /\ x \in S /\ y \in S
    BY <2>1, <2>2
  <2>4. F[x] \in Int /\ F[x] >= 0 /\ F[x] <= K
    BY <1>3, <2>3
  <2>5. f[{y}] \in Int /\ 0 <= f[{y}] /\ f[{y}] <= K
    BY <1>4, <2>3
  <2> QED
    BY <2>3, <2>4, <2>5
<1>6. CASE n = 2
  <2>1. S = {1, 2} /\ 1 \in S /\ 2 \in S
    BY <1>6
  <2>2. f[{1, 2}] \in Int /\ 0 <= f[{1, 2}] /\ f[{1, 2}] <= 2 * K
    BY <1>5, <2>1
  <2> HIDE DEF S
  <2>3. f[S] \in 0 .. 3 * K
    BY <2>1, <2>2
  <2> QED
    BY <2>3 DEF S
<1>7. CASE n = 3
  <2>1. S = {1, 2, 3} /\ 1 \in S /\ 2 \in S /\ 3 \in S
    BY <1>7
  <2>2. PICK x \in S : f[S] = F[x] + f[S \ {x}]
    BY <1>2, <2>1
  <2>3. \E a, b \in S : a # b /\ S \ {x} = {a, b}
    <3>1. {1, 2, 3} \ {1} = {2, 3} /\ {1, 2, 3} \ {2} = {1, 3} /\ {1, 2, 3} \ {3} = {1, 2}
      OBVIOUS
    <3> QED
      BY <2>1, <3>1
  <2>4. PICK a \in S, b \in S : a # b /\ S \ {x} = {a, b}
    BY <2>3
  <2>5. f[{a, b}] \in Int /\ 0 <= f[{a, b}] /\ f[{a, b}] <= 2 * K
    BY <1>5, <2>4
  <2>6. f[S] = F[x] + f[{a, b}] /\ F[x] \in Int /\ F[x] >= 0 /\ F[x] <= K
    BY <1>3, <2>2, <2>4
  <2> HIDE DEF S
  <2> QED
    BY <2>5, <2>6 DEF S
<1> QED
  BY <1>6, <1>7

\* The characters of a line: indentation, line break, name, colon and value.
LineLength(e) ==
    5 + (Len(e.name) + 2) + 2 + (IF "string" \in DOMAIN e.val THEN Len(e.val.string) + 2 ELSE 1)

LEMMA LengthIsBounded ==
    ASSUME NEW t, NEW n \in 2 .. 3, Len(t) = n, DOMAIN t = 1 .. n,
           NEW K \in Nat, \A i \in 1 .. n : LineLength(t[i]) \in 0 .. K
    PROVE  json_length(t) \in 0 .. 3 * K + 5
<1> DEFINE S == 1 .. n
           F == [i \in S |-> LineLength(t[i])]
           Is(f) == f = [s \in SUBSET S |->
                            IF s = {} THEN 0
                            ELSE LET x == CHOOSE x \in s : TRUE IN LineLength(t[x]) + f[s \ {x}]]
           sum == CHOOSE f : Is(f)
<1>1. \A f : Sums(f, F, S) <=> Is(f)
  <2> TAKE f
  <2>1. \A s \in SUBSET S : s # {} => (CHOOSE x \in s : TRUE) \in S
    OBVIOUS
  <2>2. \A x \in S : F[x] = LineLength(t[x])
    OBVIOUS
  <2> HIDE DEF F, S
  <2>3. [s \in SUBSET S |->
            IF s = {} THEN 0 ELSE LET x == CHOOSE x \in s : TRUE IN F[x] + f[s \ {x}]]
        = [s \in SUBSET S |->
            IF s = {} THEN 0
            ELSE LET x == CHOOSE x \in s : TRUE IN LineLength(t[x]) + f[s \ {x}]]
    BY <2>1, <2>2
  <2> QED
    BY <2>3 DEF Sums
<1>2. \A i \in S : F[i] \in 0 .. K
  OBVIOUS
<1>3. Sums(sum, F, S)
  <2>1. \A i \in S : F[i] \in Nat
    BY <1>2
  <2>2. S \in SUBSET (1 .. 3)
    OBVIOUS
  <2> HIDE DEF F, S, Is
  <2>3. \E f : Sums(f, F, S)
    BY <2>1, <2>2, SumExists
  <2> QED
    BY <1>1, <2>3
<1>4. json_length(t) = 2 + sum[S] + (n - 1) + 1
  BY DEF json_length, MapThenSumSet, MapThenFoldSet, LineLength
<1>5. sum[S] \in 0 .. 3 * K
  <2> HIDE DEF F, sum
  <2> QED
    BY <1>2, <1>3, SumIsBounded
<1> HIDE DEF sum
<1> QED
  BY <1>4, <1>5, SMTT(30)

LEMMA LineIsBounded ==
    ASSUME NEW name \in ReplyWord, NEW kind \in {"string", "number"}, NEW val,
           kind = "string" => val \in ReplyWord
    PROVE  LineLength(Member(name, kind, val)) \in 0 .. 139
<1> DEFINE e == Member(name, kind, val)
<1>1. e.name = name /\ e.val = [k \in {kind} |-> val]
  BY DEF Member
<1> HIDE DEF e
<1>2. Len(name) \in 0 .. 64
  BY ReplyWordsAreShort
<1>3. CASE kind = "string"
  <2>1. "string" \in DOMAIN e.val /\ e.val.string = val
    BY <1>1, <1>3
  <2>2. Len(val) \in 0 .. 64
    BY <1>3, ReplyWordsAreShort
  <2>3. LineLength(e) = 5 + (Len(name) + 2) + 2 + (Len(val) + 2)
    BY <1>1, <2>1 DEF LineLength
  <2>4. \A a, b \in 0 .. 64 : 5 + (a + 2) + 2 + (b + 2) \in 0 .. 139
    OBVIOUS
  <2>5. LineLength(e) \in 0 .. 139
    BY <1>2, <2>2, <2>3, <2>4
  <2> QED
    BY <2>5 DEF e
<1>4. CASE kind = "number"
  <2>1. "string" \notin DOMAIN e.val
    BY <1>1, <1>4
  <2>2. LineLength(e) = 5 + (Len(name) + 2) + 2 + 1
    BY <1>1, <2>1 DEF LineLength
  <2>3. \A a \in 0 .. 64 : 5 + (a + 2) + 2 + 1 \in 0 .. 139
    OBVIOUS
  <2>4. LineLength(e) \in 0 .. 139
    BY <1>2, <2>2, <2>3
  <2> QED
    BY <2>4 DEF e
<1> QED
  BY <1>3, <1>4

LEMMA RepliesAreShort ==
    ASSUME NEW m \in Reply \cup {Greeting}
    PROVE  json_length(to_json(m)) \in 0 .. max_body_length
<1> DEFINE s == members[m.type]
           t == to_json(m)
<1>1. /\ DOMAIN t = 1 .. 1 + Len(s) /\ Len(t) = 1 + Len(s)
      /\ t[1] = Member("type", "string", m.type)
      /\ \A i \in 1 .. Len(s) : t[i + 1] = Member(s[i], KindOf(s[i]), m[s[i]])
  BY ToJsonIs DEF Sent
<1>2. /\ m.type \in ReplyWord
      /\ Len(s) \in 1 .. 2
      /\ \A i \in 1 .. Len(s) :
            s[i] \in ReplyWord /\ KindOf(s[i]) \in {"string", "number"}
            /\ (KindOf(s[i]) = "string" => m[s[i]] \in ReplyWord)
  <2>1. CASE m = Greeting
    <3>1. s = <<"code">> /\ Len(<<"code">>) = 1 /\ \A i \in 1 .. 1 : <<"code">>[i] = "code"
      BY <2>1 DEF members, connect_response, Greeting
    <3> HIDE DEF s
    <3> QED
      BY <2>1, <3>1 DEF ReplyWord, KindOf
  <2>2. CASE m \in Reply
    <3>1. m.type \in ResponseType
      BY <2>2, RepliesHaveMembers
    <3>2. s = <<"message", "code">>
      BY <3>1 DEF members, register_response, login_response, unregister_response, ResponseType
    <3>3. Len(s) = 2 /\ \A i \in 1 .. 2 : s[i] = "message" \/ s[i] = "code"
      <4>1. Len(<<"message", "code">>) = 2 /\ <<"message", "code">>[1] = "message"
            /\ <<"message", "code">>[2] = "code"
        OBVIOUS
      <4>2. \A i \in 1 .. 2 : i = 1 \/ i = 2
        OBVIOUS
      <4> QED
        BY <3>2, <4>1, <4>2
    <3>4. m.message \in ReplyWord
      BY <2>2 DEF ReplyWord
    <3> HIDE DEF s
    <3>5. \A i \in 1 .. 2 :
             s[i] \in ReplyWord /\ KindOf(s[i]) \in {"string", "number"}
             /\ (KindOf(s[i]) = "string" => m[s[i]] \in ReplyWord)
      BY <3>3, <3>4 DEF ReplyWord, KindOf
    <3>6. m.type \in ReplyWord
      BY <3>1 DEF ReplyWord
    <3> QED
      BY <3>3, <3>5, <3>6
  <2> QED
    BY <2>1, <2>2
<1> HIDE DEF s, t
<1> DEFINE n == 1 + Len(s)
<1>3. n \in 2 .. 3 /\ Len(t) = n /\ DOMAIN t = 1 .. n
  <2>1. Len(s) \in 1 .. 2
    BY <1>2
  <2>2. \A k \in 1 .. 2 : 1 + k \in 2 .. 3
    OBVIOUS
  <2>3. n \in 2 .. 3
    BY <2>1, <2>2
  <2> QED
    BY <1>1, <2>3
<1>4. ASSUME NEW i \in 1 .. n
      PROVE  LineLength(t[i]) \in 0 .. 139
  <2>1. CASE i = 1
    <3>1. "type" \in ReplyWord /\ "string" \in {"string", "number"}
      BY DEF ReplyWord
    <3>2. LineLength(t[1]) \in 0 .. 139
      BY <1>1, <1>2, <3>1, LineIsBounded
    <3> QED
      BY <2>1, <3>2
  <2>2. CASE i # 1
    <3>1. i - 1 \in 1 .. Len(s) /\ (i - 1) + 1 = i
      BY <1>2, <2>2
    <3> DEFINE k == i - 1
    <3>2. t[i] = Member(s[k], KindOf(s[k]), m[s[k]])
      BY <1>1, <3>1
    <3> HIDE DEF k
    <3>3. LineLength(Member(s[k], KindOf(s[k]), m[s[k]])) \in 0 .. 139
      BY <1>2, <3>1, LineIsBounded DEF k
    <3> QED
      BY <3>2, <3>3
  <2> QED
    BY <2>1, <2>2
<1>5. json_length(t) \in 0 .. 3 * 139 + 5
  <2> HIDE DEF n
  <2>1. 139 \in Nat
    OBVIOUS
  <2> QED
    BY <1>3, <1>4, <2>1, LengthIsBounded
<1>6. json_length(t) \in 0 .. max_body_length
  BY <1>5 DEF max_body_length, header_length
<1> QED
  BY <1>6 DEF t

\* A text with no edits is what to_json() wrote.
Unedited == edits \in Nat /\ msg \in Sent /\ (edits = 0 => text = to_json(msg))

LEMMA UneditedStep ==
    ASSUME Unedited, [Next]_vars
    PROVE  Unedited'
<1>1. ASSUME NEW new, Edit(new) PROVE Unedited'
  BY <1>1 DEF Edit, Unedited
<1>2. CASE Next
  BY <1>1, <1>2 DEF Next, swap, prepend, append, drop
<1>3. CASE UNCHANGED vars
  BY <1>3 DEF vars, Unedited
<1> QED
  BY <1>2, <1>3

-----------------------------------------------------------------------------
(* The theorems.                                                            *)

\* However many members a text has and in whatever order, if those of what was sent are there
\* the receiver reads what was sent: json_obj::get_value_as, from_json and handle().
THEOREM TextsAreReadAsSent == Spec => []ReadAsSent
<1>1. Init => TextIsText /\ SameIsSame
  BY InitText
<1>2. TextIsText /\ SameIsSame /\ [Next]_vars => (TextIsText /\ SameIsSame)'
  BY StepText
<1>3. TextIsText /\ SameIsSame => ReadAsSent
  <2> SUFFICES ASSUME TextIsText, SameIsSame, same
               PROVE  /\ msg \in from_json(msg.type, text)
                      /\ handle(text) = {msg} \cap Request
                      /\ Returns(text)
    BY DEF ReadAsSent
  <2>1. /\ from_json(msg.type, text) = {msg}
        /\ value_as(text, "type", "string") = {msg.type}
    BY TextIsRead
  <2>2. msg.type \in RequestType <=> msg \in Request
    BY ObjectIsItsMembers DEF TextIsText
  <2>3. handle(text) = {msg} \cap Request
    BY <2>1, <2>2 DEF handle
  <2>4. Returns(text)
    BY <2>1 DEF Returns
  <2> QED
    BY <2>1, <2>3, <2>4
<1> QED
  BY <1>1, <1>2, <1>3, PTL DEF Spec

\* A step of a test goes on with the reply it waits for and with no other, although the codes
\* of the three types overlap: the steps of RT compare the type before the code.
THEOREM TypesTellRepliesApart == Spec => []RepliesAreToldApart
<1>1. Init => TextIsText /\ SameIsSame
  BY InitText
<1>2. TextIsText /\ SameIsSame /\ [Next]_vars => (TextIsText /\ SameIsSame)'
  BY StepText
<1>3. TextIsText /\ SameIsSame => RepliesAreToldApart
  <2> SUFFICES ASSUME TextIsText, SameIsSame, same, NEW t \in ResponseType, NEW c \in 0 .. 3
               PROVE  accepts(t, c, text) <=> (msg \in Reply /\ msg.type = t /\ msg.code = c)
    BY DEF RepliesAreToldApart
  <2>1. /\ from_json(msg.type, text) = {msg}
        /\ value_as(text, "type", "string") = {msg.type}
    BY TextIsRead
  <2>2. msg.type \in ResponseType <=> msg \in Reply
    BY ObjectIsItsMembers DEF TextIsText
  <2> QED
    BY <2>1, <2>2 DEF accepts
<1> QED
  BY <1>1, <1>2, <1>3, PTL DEF Spec

\* A text that lacks a member of a request, or has it as something else than a string, makes
\* no request of its own: value_as() and from_json() fill nothing in.
THEOREM RequestsComeFromTheText == Spec => []NothingInvented
<1>1. Init => TextIsText /\ SameIsSame
  BY InitText
<1>2. TextIsText /\ SameIsSame /\ [Next]_vars => (TextIsText /\ SameIsSame)'
  BY StepText
<1>3. TextIsText => NothingInvented
  <2> SUFFICES ASSUME TextIsText, NEW r \in handle(text), NEW f \in DOMAIN r
               PROVE  \E i \in DOMAIN text : text[i] = Member(f, "string", r[f])
    BY DEF NothingInvented
  <2>1. text \in Seq(AnyMember)
    BY DEF TextIsText
  <2>2. PICK t \in RequestType : t \in value_as(text, "type", "string") /\ r \in from_json(t, text)
    BY DEF handle
  <2>3. f \in MemberOf(t) \cup {"type"} /\ KindOf(f) = "string"
    <3>1. DOMAIN r = MemberOf(t) \cup {"type"}
      BY <2>2 DEF from_json
    <3>2. "code" \notin MemberOf(t)
      BY MembersOfTypes DEF RequestType
    <3> QED
      BY <3>1, <3>2 DEF KindOf
  <2>4. r[f] \in value_as(text, f, "string")
    <3> DEFINE found(g) == IF g = "type" THEN {t} ELSE value_as(text, g, KindOf(g))
               all == MemberOf(t) \cup {"type"}
    <3>1. /\ \A g \in all : found(g) # {}
          /\ r = [g \in all |-> CHOOSE v \in found(g) : TRUE]
      BY <2>2 DEF from_json
    <3>2. r[f] \in found(f)
      BY <2>3, <3>1
    <3> QED
      BY <2>2, <2>3, <3>2
  <2>5. PICK i \in DOMAIN text :
            text[i].name = f /\ "string" \in DOMAIN text[i].val /\ r[f] = text[i].val["string"]
    BY <2>4 DEF value_as, Named
  <2>6. PICK name, kind, val : text[i] = Member(name, kind, val)
    BY <2>1 DEF AnyMember
  <2>7. name = f /\ kind = "string" /\ val = r[f]
    BY <2>5, <2>6 DEF Member
  <2> QED
    BY <2>6, <2>7
<1> QED
  BY <1>1, <1>2, <1>3, PTL DEF Spec

\* No reply is cut short, and the header of each announces all of it: the texts of the handlers
\* are so short that what PrettyWriter makes of them fits a body many times over, and the
\* header of a length that fits is read as that length.
THEOREM RepliesAlwaysFit == Spec => []RepliesFit
<1>1. Init => Unedited
  BY DEF Init, Unedited, Sent
<1>2. Unedited /\ [Next]_vars => Unedited'
  BY UneditedStep
<1>3. Unedited => RepliesFit
  <2> SUFFICES ASSUME Unedited, msg \in Reply \cup {Greeting}, edits = 0
               PROVE  /\ body_length(json_length(text)) = json_length(text)
                      /\ decode_header(encode_header(json_length(text))).body_length
                            = json_length(text)
    BY DEF RepliesFit
  <2>1. json_length(text) \in 0 .. max_body_length
    BY RepliesAreShort DEF Unedited
  <2>2. \A n \in 0 .. max_body_length :
           /\ body_length(n) = n
           /\ decode_header(encode_header(n)).body_length = n
    <3>1. \A n \in 0 .. max_body_length : body_length(n) = n
      BY DEF body_length, max_body_length, header_length
    <3> QED
      BY <3>1, EncodedDecodes
  <2> QED
    BY <2>1, <2>2
<1> QED
  BY <1>1, <1>2, <1>3, PTL DEF Spec
=============================================================================
