--------------------------------- MODULE Api ---------------------------------
(***************************************************************************)
(* The texts in the messages: components/api writes an object of the       *)
(* protocol as JSON, rapidjson parses it, include/json_obj.h looks its     *)
(* members up, and mes_handler::handle and the tests decide by the member  *)
(* "type" what to read.                                                    *)
(*                                                                         *)
(* A text is the sequence of the members of a JSON object; one that does   *)
(* not parse counts as an object without members, for both make the reader *)
(* throw.  Reading yields a set: the value or object read, or nothing when *)
(* an exception leaves the function.  So it does when a member is missing, *)
(* where the assertions of rapidjson end the program too.                  *)
(***************************************************************************)
EXTENDS Message

CONSTANTS
    Word,         \* what users enter
    MaxEdits      \* bound: by how much a text differs from what to_json() writes

ASSUME ApiAssumption == MaxEdits \in Nat

\* The members of each object after "type", as to_json() writes them.
connect_response == <<"code">>
register_request == <<"email", "nickname", "pass_hash">>
register_response == <<"message", "code">>
login_request == <<"email", "pass_hash">>
login_response == <<"message", "code">>
unregister_request == <<"email", "pass_hash">>
unregister_response == <<"message", "code">>

members ==
    [connect_response |-> connect_response,
     register_request |-> register_request, register_response |-> register_response,
     login_request |-> login_request, login_response |-> login_response,
     unregister_request |-> unregister_request,
     unregister_response |-> unregister_response]

RequestType == {"register_request", "login_request", "unregister_request"}
ResponseType == {"register_response", "login_response", "unregister_response"}

MemberOf(t) == {members[t][i] : i \in DOMAIN members[t]}
KindOf(name) == IF name = "code" THEN "number" ELSE "string"

register_code == [OK |-> 0, NAME_TAKEN |-> 1, ETC |-> 2]
login_code == [OK |-> 0, NAME_UNKNOWN |-> 1, PASS_INCORRECT |-> 2, ETC |-> 3]
unregister_code == [OK |-> 0, NO_NAME |-> 1, NO_PASS |-> 2, ETC |-> 3]

response(t, c, words) == [type |-> t, code |-> c, message |-> words]

register_replies ==
    {response("register_response", register_code.NAME_TAKEN, "email is already in use"),
     response("register_response", register_code.OK, "registration success")}

login_replies ==
    {response("login_response", login_code.NAME_UNKNOWN, "email is unkown"),
     response("login_response", login_code.OK, "login success"),
     response("login_response", login_code.PASS_INCORRECT, "password is incorrect")}

unregister_replies ==
    {response("unregister_response", unregister_code.OK, "unregister processed, status:ok"),
     response("unregister_response", unregister_code.NO_PASS, "invalid pass"),
     response("unregister_response", unregister_code.NO_NAME, "invalid email")}

Greeting == [type |-> "connect_response", code |-> 0]
Reply == register_replies \cup login_replies \cup unregister_replies

\* The strings in what the server sends.  TLC counts their characters, the provers cannot.
ReplyWord ==
    {"type", "code", "message", Greeting.type} \cup ResponseType \cup {m.message : m \in Reply}

ASSUME ReplyWordsAreShort == \A w \in ReplyWord : Len(w) \in 0 .. 64

Request ==
    [type : {"register_request"}, nickname : Word, email : Word, pass_hash : Word]
        \cup [type : {"login_request", "unregister_request"}, email : Word, pass_hash : Word]
-----------------------------------------------------------------------------
Member(name, kind, val) == [name |-> name, val |-> [k \in {kind} |-> val]]

\* Mutant: the objects name no type of their own.
to_json_untyped(m) ==
    [i \in 1 .. Len(members[m.type]) |->
        LET name == members[m.type][i] IN Member(name, KindOf(name), m[name])]

to_json(m) ==
    <<Member("type", "string", m.type)>> \o
    [i \in 1 .. Len(members[m.type]) |->
        LET name == members[m.type][i] IN Member(name, KindOf(name), m[name])]

\* The characters of a text of strings and digits as PrettyWriter lays it out: braces, and
\* each member on a line of its own, indented by four.
json_length(text) ==
    LET Size(v) == IF "string" \in DOMAIN v THEN Len(v.string) + 2 ELSE 1
        Line(i) == 5 + (Len(text[i].name) + 2) + 2 + Size(text[i].val)
    IN  2 + MapThenSumSet(Line, DOMAIN text) + (Len(text) - 1) + 1

\* d_[name]: the first member of that name.
Named(text, name) ==
    {text[i].val : i \in {j \in DOMAIN text :
        text[j].name = name /\ \A k \in 1 .. j - 1 : text[k].name # name}}

\* Mutant: the overload with an error code, which is not looked at.
value_as_unchecked(text, name, kind) ==
    LET found == {v[kind] : v \in {w \in Named(text, name) : kind \in DOMAIN w}}
    IN  IF found = {} /\ kind = "string" THEN {""} ELSE found

value_as(text, name, kind) ==
    {v[kind] : v \in {w \in Named(text, name) : kind \in DOMAIN w}}

\* The from_json() of a type, which throws unless it can read all members.
from_json(t, text) ==
    LET found(f) == IF f = "type" THEN {t} ELSE value_as(text, f, KindOf(f))
        all == MemberOf(t) \cup {"type"}
    IN  IF \E f \in all : found(f) = {} THEN {}
        ELSE {[f \in all |-> CHOOSE v \in found(f) : TRUE]}

\* mes_handler::handle, up to the request its handler reads.
handle(text) ==
    UNION {from_json(t, text) : t \in value_as(text, "type", "string") \cap RequestType}

\* It returns, after a handler or after logging a text of another type.
Returns(text) ==
    \E t \in value_as(text, "type", "string") : t \in RequestType => from_json(t, text) # {}

\* Mutant: the type of the reply is not looked at.
accepts_any_type(t, c, text) == \E m \in from_json(t, text) : m.code = c

\* A step of a test that waits for code c in a response of type t goes on.
accepts(t, c, text) ==
    t \in value_as(text, "type", "string") /\ \E m \in from_json(t, text) : m.code = c
-----------------------------------------------------------------------------
VARIABLES
    msg,          \* the object that is sent
    text,         \* the text its receiver gets
    edits,        \* how many edits made text of what to_json() writes
    same          \* has text still the members of msg, under some order and among others

vars == <<msg, text, edits, same>>

Init ==
    /\ msg \in Request \cup Reply \cup {Greeting}
    /\ text = to_json(msg)
    /\ edits = 0 /\ same = TRUE

Edit(new) ==
    /\ edits < MaxEdits /\ edits' = edits + 1
    /\ text' = new
    /\ UNCHANGED msg

Needed(name) == name \in MemberOf(msg.type) \cup {"type"}

\* What a user types at the client, or a program of another make sends, differs from what
\* to_json() writes: in the order of its members,
swap(i) ==
    /\ Edit([text EXCEPT ![i] = text[i + 1], ![i + 1] = text[i]])
    /\ same' = (same /\ (Needed(text[i].name) => text[i].name # text[i + 1].name))

\* in a member more, where the first of a name counts,
prepend(m) ==
    /\ Edit(<<m>> \o text)
    /\ same' = (same /\ ~Needed(m.name))

append(m) ==
    /\ Edit(text \o <<m>>)
    /\ UNCHANGED same

\* or in a member less.
drop(i) ==
    /\ Edit(SubSeq(text, 1, i - 1) \o SubSeq(text, i + 1, Len(text)))
    /\ same' = (same /\ (Needed(text[i].name) => \E j \in 1 .. i - 1 : text[j].name = text[i].name))

OtherMember ==
    LET Name == {"type", "email", "nickname", "pass_hash", "message", "code"}
    IN  {Member(name, "string", w) : name \in Name, w \in Word}
        \cup {Member(name, "number", 1) : name \in Name}
        \cup {Member(name, kind, kind) : name \in Name, kind \in {"null", "array"}}

Next ==
    \/ \E i \in 1 .. Len(text) - 1 : swap(i)
    \/ \E m \in OtherMember : prepend(m) \/ append(m)
    \/ \E i \in DOMAIN text : drop(i)

Spec == Init /\ [][Next]_vars
-----------------------------------------------------------------------------
\* What one side writes the other reads, in whatever order the members come and whatever
\* else is among them: the server handles each request as the one that was sent, and reads
\* none in a response that comes back to it, nor does either end it.
ReadAsSent ==
    same => /\ msg \in from_json(msg.type, text)
            /\ handle(text) = {msg} \cap Request
            /\ Returns(text)

\* Whatever the text is, the server fills no request from something else: each member of a
\* request it handles, the type included, was a string of that name in the text.  A text
\* that lacks one ends the server and has no handler run on the members' defaults.
NothingInvented ==
    \A r \in handle(text) : \A f \in DOMAIN r :
        \E i \in DOMAIN text : text[i] = Member(f, "string", r[f])

\* The three types number their codes each from 0, so a code alone says nothing: the tests
\* take a reply for the one they wait for only if type and code are those the server meant.
RepliesAreToldApart ==
    same => \A t \in ResponseType, c \in 0 .. 3 :
        accepts(t, c, text) <=> (msg \in Reply /\ msg.type = t /\ msg.code = c)

\* operator= of message copies a text whole and caps only its length: no text the server
\* sends is longer than a body may be, and its header announces all of it.
RepliesFit ==
    msg \in Reply \cup {Greeting} /\ edits = 0 =>
        /\ body_length(json_length(text)) = json_length(text)
        /\ decode_header(encode_header(json_length(text))).body_length = json_length(text)
=============================================================================
