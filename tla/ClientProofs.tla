---------------------------- MODULE ClientProofs ----------------------------
(***************************************************************************)
(* Theorems about Client, for any number of lines.                         *)
(***************************************************************************)
EXTENDS Client, FiniteSetTheorems, SequenceTheorems, WellFoundedInduction, TLAPS

Function == [op : {"write"}, line : Line] \cup [op : {"close"}]
Operation == {"started", "sent", "dead"}

ClientInv == ClientTypeOK /\ WriteUnderWay

LEMMA ClientInit == Init => ClientInv
BY ClientAssumption
DEF Init, session!Init, ClientInv, ClientTypeOK, WriteUnderWay, Reply

LEMMA MainStep ==
    ASSUME ClientInv, Main
    PROVE  ClientInv'
<1> USE ClientAssumption
<1>1. ASSUME NEW f \in Function
      PROVE  Append(posted, f) \in Seq(Function)
  BY AppendProperties DEF ClientInv, ClientTypeOK, Function
<1>2. ASSUME NEW n \in Reply
      PROVE  Append(unread, n) \in Seq(Reply)
  BY AppendProperties DEF ClientInv, ClientTypeOK
<1>3. CASE send_request
  <2>1. NextLine(TRUE) \in Line /\ lines + 1 \in Reply
    BY <1>3 DEF send_request, NextLine, Line, Reply, ClientInv, ClientTypeOK
  <2>2. [op |-> "write", line |-> NextLine(TRUE)] \in Function
    BY <2>1 DEF Function
  <2>3. posted' \in Seq(Function) /\ unread' \in Seq(Reply)
    BY <1>1, <1>2, <1>3, <2>1, <2>2 DEF send_request, write, Post
  <2> QED
    BY <1>3, <2>1, <2>3
    DEF send_request, ioVars, wire, Function, ClientInv, ClientTypeOK, WriteUnderWay
<1>4. ASSUME NEW asks \in BOOLEAN, send_raw(asks)
      PROVE  ClientInv'
  <2>1. NextLine(asks) \in Line /\ lines + 1 \in Reply
    BY <1>4 DEF send_raw, NextLine, Line, Reply, ClientInv, ClientTypeOK
  <2>2. [op |-> "write", line |-> NextLine(asks)] \in Function
    BY <2>1 DEF Function
  <2>3. posted' \in Seq(Function)
    BY <1>1, <1>4, <2>2 DEF send_raw, write, Post
  <2>4. unread' \in Seq(Reply)
    BY <1>2, <1>4, <2>1 DEF send_raw, ClientInv, ClientTypeOK
  <2> QED
    BY <1>4, <2>1, <2>3, <2>4
    DEF send_raw, ioVars, wire, Function, ClientInv, ClientTypeOK, WriteUnderWay
<1>5. CASE too_few_words
  BY <1>5 DEF too_few_words, wire, ClientInv, ClientTypeOK, WriteUnderWay
<1>6. CASE read_wait
  <2>1. read_messages' \in Seq(Reply)
    BY <1>6, HeadTailProperties DEF read_wait, ClientInv, ClientTypeOK
  <2>2. unread' \in Seq(Reply)
    <3>1. unread \in Seq(Reply) /\ Len(unread) \in Nat
      BY LenProperties DEF ClientInv, ClientTypeOK
    <3>2. \A i \in 2 .. Len(unread) : unread[i] \in Reply
      BY <3>1, ElementOfSeq
    <3> QED
      BY <1>6, <3>1, <3>2, SubSeqProperties DEF read_wait
  <2> QED
    BY <1>6, <2>1, <2>2 DEF read_wait, ioVars, wire, ClientInv, ClientTypeOK, WriteUnderWay
<1>7. CASE end_of_input
  <2>1. [op |-> "close"] \in Function
    BY DEF Function
  <2>2. posted' \in Seq(Function)
    BY <1>1, <1>7, <2>1 DEF end_of_input, Post
  <2> QED
    BY <1>7, <2>2 DEF end_of_input, ioVars, wire, Function, ClientInv, ClientTypeOK, WriteUnderWay
<1>8. CASE join
  BY <1>8 DEF join, ioVars, wire, ClientInv, ClientTypeOK, WriteUnderWay
<1> QED
  BY <1>3, <1>4, <1>5, <1>6, <1>7, <1>8 DEF Main

\* The first write begun.
LEMMA OneWrite ==
    ASSUME NEW op \in Operation
    PROVE  /\ Append(<<>>, op) \in Seq(Operation)
           /\ Append(<<>>, op) # <<>>
           /\ Len(Append(<<>>, op)) = 1
           /\ Head(Append(<<>>, op)) = op
<1>1. <<>> \in Seq(Operation) /\ Len(<<>>) = 0
  BY EmptySeq
<1>2. /\ Append(<<>>, op) \in Seq(Operation) /\ Append(<<>>, op) # <<>>
      /\ Len(Append(<<>>, op)) = 1 /\ Append(<<>>, op)[1] = op
  BY <1>1, AppendProperties
<1> QED
  BY <1>2, HeadTailProperties

\* The functions the main thread posts.
LEMMA PostedStep ==
    ASSUME ClientInv, run_posted_write \/ run_posted_close
    PROVE  ClientInv'
<1>1. posted \in Seq(Function) /\ posted # <<>>
  BY DEF ClientInv, ClientTypeOK, Function, run_posted_write, run_posted_close
<1>2. Tail(posted) \in Seq(Function) /\ Head(posted) \in Function
  BY <1>1, HeadTailProperties
<1>3. CASE run_posted_write
  <2>1. Head(posted).line \in Line
    BY <1>2, <1>3 DEF run_posted_write, Function
  <2>2. Append(write_msgs, Head(posted).line) \in Seq(Line)
        /\ Append(write_msgs, Head(posted).line) # <<>>
    <3>1. write_msgs \in Seq(Line)
      BY DEF ClientInv, ClientTypeOK
    <3> QED
      BY <2>1, <3>1, AppendProperties
  <2>3. write_msgs' \in Seq(Line) /\ write_msgs' # <<>>
    BY <1>3, <2>2 DEF run_posted_write
  <2>4. CASE write_msgs = <<>>
    <3>1. writing = <<>> /\ Started("started") \in Operation
      BY <2>4 DEF Started, Operation, ClientInv, WriteUnderWay
    <3>2. writing' \in Seq(Operation) /\ Len(writing') = 1 /\ writing' # <<>>
      BY <1>3, <2>4, <3>1, OneWrite DEF run_posted_write
    <3> QED
      BY <1>2, <1>3, <2>3, <3>2, SMTT(30)
      DEF run_posted_write, mainVars, wire, Function, Operation, ClientInv, ClientTypeOK,
          WriteUnderWay
  <2>5. CASE write_msgs # <<>>
    BY <1>2, <1>3, <2>3, <2>5
    DEF run_posted_write, mainVars, wire, Function, ClientInv, ClientTypeOK, WriteUnderWay
  <2> QED
    BY <2>4, <2>5
<1>4. CASE run_posted_close
  BY <1>2, <1>4
  DEF run_posted_close, mainVars, wire, Function, ClientInv, ClientTypeOK, WriteUnderWay
<1> QED
  BY <1>3, <1>4

\* When a write is over none is outstanding.
LEMMA LastWrite ==
    ASSUME ClientInv, writing # <<>>
    PROVE  Tail(writing) = <<>> /\ Tail(writing) \in Seq(Operation)
BY HeadTailProperties, EmptySeq DEF ClientInv, ClientTypeOK, WriteUnderWay, Operation

\* The completions of the asynchronous operations.
LEMMA CompletionStep ==
    ASSUME ClientInv, Completion
    PROVE  ClientInv'
<1>1. CASE connected \/ connect_failed
  BY <1>1 DEF connected, connect_failed, mainVars, wire, ClientInv, ClientTypeOK, WriteUnderWay
<1>2. CASE read_header
  BY <1>2 DEF read_header, Started, mainVars, wire, ClientInv, ClientTypeOK, WriteUnderWay
<1>3. CASE read_body
  <2>1. to_client # <<>> /\ to_client' = Tail(to_client)
        /\ UNCHANGED <<server, to_server, due>>
    BY <1>3 DEF read_body, session!Receive
  <2>2. Tail(to_client) \in Seq(Reply) /\ Head(to_client) \in Reply
    BY <2>1, HeadTailProperties DEF ClientInv, ClientTypeOK
  <2>3. read_messages' \in Seq(Reply)
    BY <1>3, <2>2, AppendProperties DEF read_body, ClientInv, ClientTypeOK
  <2> QED
    BY <1>3, <2>1, <2>2, <2>3
    DEF read_body, Started, mainVars, ClientInv, ClientTypeOK, WriteUnderWay
<1>4. CASE read_error
  BY <1>4 DEF read_error, mainVars, wire, ClientInv, ClientTypeOK, WriteUnderWay
<1>5. CASE write_done
  <2>1. Tail(write_msgs) \in Seq(Line)
    BY <1>5, HeadTailProperties DEF write_done, ClientInv, ClientTypeOK, WriteUnderWay
  <2>2. Tail(writing) = <<>> /\ Tail(writing) \in Seq(Operation)
    BY <1>5, LastWrite DEF write_done
  <2>3. Append(<<>>, Started("started")) \in Seq(Operation)
        /\ Append(<<>>, Started("started")) # <<>>
        /\ Len(Append(<<>>, Started("started"))) = 1
    <3>1. Started("started") \in Operation
      BY DEF Started, Operation
    <3> QED
      BY <3>1, OneWrite
  <2>4. CASE write_msgs' = <<>>
    <3>1. writing' = <<>>
      BY <1>5, <2>2, <2>4 DEF write_done
    <3> QED
      BY <1>5, <2>1, <2>4, <3>1, EmptySeq, SMTT(30)
      DEF write_done, mainVars, wire, ClientInv, ClientTypeOK, WriteUnderWay
  <2>5. CASE write_msgs' # <<>>
    <3>1. writing' = Append(<<>>, Started("started"))
      BY <1>5, <2>2, <2>5 DEF write_done
    <3>2. writing' \in Seq(Operation) /\ writing' # <<>> /\ Len(writing') = 1
      BY <2>3, <3>1
    <3> QED
      BY <1>5, <2>1, <2>5, <3>2, SMTT(30)
      DEF write_done, mainVars, wire, Operation, ClientInv, ClientTypeOK, WriteUnderWay
  <2> QED
    BY <2>4, <2>5
<1>6. CASE write_error
  BY <1>6, LastWrite, SMTT(30)
  DEF write_error, mainVars, wire, Operation, ClientInv, ClientTypeOK, WriteUnderWay
<1>7. CASE run_returns
  BY <1>7 DEF run_returns, mainVars, wire, ClientInv, ClientTypeOK, WriteUnderWay
<1> QED
  BY <1>1, <1>2, <1>3, <1>4, <1>5, <1>6, <1>7, PostedStep DEF Completion

\* What the session lets the server do, and what that keeps of the types.
LEMMA SessionStep ==
    ASSUME ClientInv, session!Accept \/ session!Deliver \/ session!End \/ session!Answer
                      \/ session!Ignore
    PROVE  /\ server' \in {"none", "queued", "served"}
           /\ to_server' \in Seq(Line)
           /\ due' \in Seq(Reply)
           /\ to_client' \in Seq(Reply)
<1> USE DEF ClientInv, ClientTypeOK
<1>1. CASE session!Accept
  <2>1. Append(due, 0) \in Seq(Reply)
    BY ClientAssumption, AppendProperties DEF Reply
  <2> QED
    BY <1>1, <2>1 DEF session!Accept
<1>2. CASE session!Deliver
  <2>1. Tail(due) \in Seq(Reply) /\ Head(due) \in Reply
    BY <1>2, HeadTailProperties DEF session!Deliver
  <2>2. Append(to_client, Head(due)) \in Seq(Reply)
    BY <2>1, AppendProperties
  <2> QED
    BY <1>2, <2>1, <2>2 DEF session!Deliver
<1>3. CASE session!End
  <2>1. PICK k \in 0 .. Len(to_client) : to_client' = SubSeq(to_client, 1, k)
    BY <1>3 DEF session!End
  <2>2. to_client \in Seq(Reply) /\ k \in Int /\ k <= Len(to_client)
    BY LenProperties
  <2>3. \A i \in 1 .. k : to_client[i] \in Reply
    BY <2>2, ElementOfSeq, LenProperties
  <2>4. to_client' \in Seq(Reply)
    BY <2>1, <2>2, <2>3, SubSeqProperties
  <2> QED
    BY <1>3, <2>4, EmptySeq DEF session!End
<1>4. CASE session!Answer \/ session!Ignore
  <2>1. to_server # <<>> /\ to_server' = Tail(to_server) /\ UNCHANGED <<server, to_client>>
    BY <1>4 DEF session!Answer, session!Ignore
  <2>2. Tail(to_server) \in Seq(Line) /\ Head(to_server) \in Line
    BY <2>1, HeadTailProperties
  <2>3. Append(due, Head(to_server).n) \in Seq(Reply)
    <3>1. Head(to_server).n \in Reply
      BY <2>2, ClientAssumption DEF Line, Reply
    <3> QED
      BY <3>1, AppendProperties
  <2>4. due' = due \/ due' = Append(due, Head(to_server).n)
    BY <1>4 DEF session!Answer, session!Ignore, replyTo
  <2> QED
    BY <2>1, <2>2, <2>3, <2>4
<1> QED
  BY <1>1, <1>2, <1>3, <1>4

\* The socket and the server.
LEMMA NetworkStep ==
    ASSUME ClientInv, system_connects \/ write_sent \/ server_handles \/ server_steps
    PROVE  ClientInv'
<1> USE ClientAssumption
<1>1. CASE system_connects
  BY <1>1, EmptySeq
  DEF system_connects, session!Connect, mainVars, ClientInv, ClientTypeOK, WriteUnderWay
<1>2. CASE write_sent
  <2>1. Head(write_msgs) \in Line
    BY <1>2, HeadTailProperties DEF write_sent, ClientInv, ClientTypeOK, WriteUnderWay
  <2>2. Append(to_server, Head(write_msgs)) \in Seq(Line)
    BY <2>1, AppendProperties DEF ClientInv, ClientTypeOK
  <2>3. to_server' \in Seq(Line) /\ UNCHANGED <<server, due, to_client>>
    BY <1>2, <2>2 DEF write_sent, wire, session!Send, ClientInv, ClientTypeOK
  <2>4. writing' = <<"sent">>
    <3>1. writing' = <<"sent">> \o <<>>
      BY <1>2, LastWrite DEF write_sent
    <3> QED
      BY <3>1
  <2>5. writing' \in Seq(Operation) /\ Len(writing') = 1 /\ writing' # <<>>
    BY <2>4 DEF Operation
  <2> QED
    BY <1>2, <2>3, <2>5 DEF write_sent, mainVars, Operation, ClientInv, ClientTypeOK, WriteUnderWay
<1>3. CASE server_handles
  <2>1. Head(to_server).n \in 0 .. MaxLines
    <3>1. to_server # <<>>
      BY <1>3 DEF server_handles, session!Answer, session!Ignore
    <3>2. Head(to_server) \in Line
      BY <3>1, HeadTailProperties DEF ClientInv, ClientTypeOK
    <3> QED
      BY <3>2 DEF Line
  <2> QED
    BY <1>3, <2>1, SessionStep, ZenonT(30)
    DEF server_handles, mainVars, ioVars, ClientInv, ClientTypeOK, WriteUnderWay
<1>4. CASE server_steps
  BY <1>4, SessionStep
  DEF server_steps, mainVars, ioVars, ClientInv, ClientTypeOK, WriteUnderWay
<1> QED
  BY <1>1, <1>2, <1>3, <1>4

\* The inductive invariant: the write chain needs the type of its queue, and the type of the
\* queue, from which a completion takes the first message, needs the write chain.
THEOREM ClientInvariant == Spec => []ClientInv
<1>1. ASSUME ClientInv, [Next]_vars
      PROVE  ClientInv'
  <2>1. CASE UNCHANGED vars
    BY <1>1, <2>1
    DEF vars, mainVars, ioVars, wire, ClientInv, ClientTypeOK, WriteUnderWay
  <2> QED
    BY <1>1, <2>1, MainStep, CompletionStep, NetworkStep DEF Next
<1> QED
  BY <1>1, ClientInit, PTL DEF Spec

\* The types, and that main() ends only after the io thread has.
THEOREM ClientTypeCorrect == Spec => []ClientTypeOK
<1>1. ClientInv => ClientTypeOK
  BY DEF ClientInv
<1> QED
  BY <1>1, ClientInvariant, PTL

\* client::write and the completions of do_write_ never run two writes at once and leave no
\* message behind on an open socket.
THEOREM ClientWritesAreChained == Spec => []WriteUnderWay
<1>1. ClientInv => WriteUnderWay
  BY DEF ClientInv
<1> QED
  BY <1>1, ClientInvariant, PTL

-----------------------------------------------------------------------------
(***************************************************************************)
(* Where the lines of the client are: for any number of lines, the queues  *)
(* they pass between the keyboard and the server hold a run of consecutive *)
(* numbers, so that the server handles them in order; and the replies that *)
(* the main thread has taken bound the commands that can still be lost.    *)
(***************************************************************************)

\* The lines of s are the ones that follow line b.
Follow(s, b) == \A i \in DOMAIN s : s[i].n = b + i

\* So are the lines of the functions posted in s.
PostedFollow(s, b) == \A i \in DOMAIN s : s[i].op = "write" => s[i].line.n = b + i

Written == handled + Len(to_server)

\* The inductive invariant: as long as the connection is there, the lines the server has, the
\* ones the client has not sent and the ones it has not been told of follow each other.
Numbered ==
    /\ Follow(to_server, handled)
    /\ Connected =>
        /\ Follow(Unsent, Written)
        /\ PostedFollow(posted, Written + Len(Unsent))
        /\ main \in {"getline", "read_wait"} => lines = Written + Len(Unsent) + Len(posted)
    /\ socket = "connecting" => server = "none" /\ to_server = <<>>

Waits == IF main = "read_wait" THEN 1 ELSE 0
Greeted == IF socket = "connecting" \/ server = "queued" THEN 0 ELSE 1

\* The lines that were answered.
Replied == {n \in commands \cup requests : n <= handled}

\* A reply that was taken, is queued or is on its way answers a line that was handled, except
\* for the connect response; the main thread took one for each command it does not wait for.
Balance ==
    1 + Cardinality(commands) + Len(read_messages) + Len(to_client) + Len(due)
        <= Waits + Cardinality(Replied) + Greeted

\* A line that asks for a reply is a command or a raw request, wherever it is.
Typed == {l \in Line : l.asks => l.n \in commands \cup requests}
TypedFunction == [op : {"write"}, line : Typed] \cup [op : {"close"}]

AskersAreTyped ==
    /\ to_server \in Seq(Typed)
    /\ write_msgs \in Seq(Typed)
    /\ posted \in Seq(TypedFunction)

LEMMA TailAt ==
    ASSUME NEW T, NEW s \in Seq(T), s # <<>>
    PROVE  /\ Tail(s) \in Seq(T) /\ Len(Tail(s)) + 1 = Len(s) /\ Len(Tail(s)) \in Nat
           /\ 1 \in DOMAIN s /\ Head(s) = s[1]
           /\ \A i \in DOMAIN Tail(s) : i \in Nat /\ i + 1 \in DOMAIN s /\ Tail(s)[i] = s[i + 1]
<1>1. Len(s) \in Nat /\ Len(s) # 0 /\ DOMAIN s = 1 .. Len(s)
  BY EmptySeq, LenProperties
<1>2. Tail(s) \in Seq(T) /\ Len(Tail(s)) = Len(s) - 1 /\ Head(s) = s[1]
      /\ \A i \in 1 .. Len(Tail(s)) : Tail(s)[i] = s[i + 1]
  BY <1>1, HeadTailProperties
<1>3. DOMAIN Tail(s) = 1 .. Len(Tail(s))
  BY <1>2, LenProperties
<1> QED
  BY <1>1, <1>2, <1>3

LEMMA AppendAt ==
    ASSUME NEW T, NEW s \in Seq(T), NEW e \in T
    PROVE  /\ Append(s, e) \in Seq(T) /\ Len(Append(s, e)) = Len(s) + 1 /\ Len(s) \in Nat
           /\ \A i \in DOMAIN Append(s, e) :
                 IF i = Len(s) + 1 THEN Append(s, e)[i] = e
                 ELSE i \in DOMAIN s /\ Append(s, e)[i] = s[i]
<1>1. Len(s) \in Nat /\ DOMAIN s = 1 .. Len(s)
  BY LenProperties
<1>2. Append(s, e) \in Seq(T) /\ Len(Append(s, e)) = Len(s) + 1
      /\ (\A i \in 1 .. Len(s) : Append(s, e)[i] = s[i]) /\ Append(s, e)[Len(s) + 1] = e
  BY AppendProperties
<1>3. DOMAIN Append(s, e) = 1 .. Len(s) + 1
  BY <1>2, LenProperties
<1> QED
  BY <1>1, <1>2, <1>3

LEMMA FollowTail ==
    ASSUME NEW s \in Seq(Line), NEW b \in Nat, s # <<>>, Follow(s, b)
    PROVE  Head(s).n = b + 1 /\ Follow(Tail(s), b + 1)
<1>1. 1 \in DOMAIN s /\ Head(s) = s[1]
      /\ \A i \in DOMAIN Tail(s) : i \in Nat /\ i + 1 \in DOMAIN s /\ Tail(s)[i] = s[i + 1]
  BY TailAt
<1> QED
  BY <1>1 DEF Follow

LEMMA FollowAppend ==
    ASSUME NEW s \in Seq(Line), NEW b \in Nat, NEW l \in Line, l.n = b + Len(s) + 1, Follow(s, b)
    PROVE  Follow(Append(s, l), b)
<1>1. Len(s) \in Nat
      /\ \A i \in DOMAIN Append(s, l) :
            IF i = Len(s) + 1 THEN Append(s, l)[i] = l
            ELSE i \in DOMAIN s /\ Append(s, l)[i] = s[i]
  BY AppendAt
<1> QED
  BY <1>1, SMTT(30) DEF Follow

LEMMA PostedTail ==
    ASSUME NEW s \in Seq(Function), NEW b \in Nat, s # <<>>, PostedFollow(s, b)
    PROVE  /\ Head(s).op = "write" => Head(s).line.n = b + 1
           /\ PostedFollow(Tail(s), b + 1)
<1>1. 1 \in DOMAIN s /\ Head(s) = s[1]
      /\ \A i \in DOMAIN Tail(s) : i \in Nat /\ i + 1 \in DOMAIN s /\ Tail(s)[i] = s[i + 1]
  BY TailAt
<1> QED
  BY <1>1 DEF PostedFollow

LEMMA PostedAppend ==
    ASSUME NEW s \in Seq(Function), NEW b \in Nat, NEW f \in Function, PostedFollow(s, b),
           f.op = "write" => f.line.n = b + Len(s) + 1
    PROVE  PostedFollow(Append(s, f), b)
<1>1. Len(s) \in Nat
      /\ \A i \in DOMAIN Append(s, f) :
            IF i = Len(s) + 1 THEN Append(s, f)[i] = f
            ELSE i \in DOMAIN s /\ Append(s, f)[i] = s[i]
  BY AppendAt
<1> QED
  BY <1>1 DEF PostedFollow

\* The types of what Numbered counts.
LEMMA Counted ==
    ASSUME ClientInv
    PROVE  /\ Unsent \in Seq(Line) /\ Len(Unsent) \in Nat
           /\ to_server \in Seq(Line) /\ Len(to_server) \in Nat
           /\ posted \in Seq(Function) /\ Len(posted) \in Nat
           /\ handled \in Nat /\ lines \in Nat /\ Written \in Nat
<1>1. /\ write_msgs \in Seq(Line) /\ to_server \in Seq(Line) /\ posted \in Seq(Function)
      /\ handled \in Nat /\ lines \in Nat
  BY ClientAssumption DEF ClientInv, ClientTypeOK, Function
<1>2. Unsent \in Seq(Line)
  BY <1>1, HeadTailProperties DEF Unsent, ClientInv, WriteUnderWay
<1> QED
  BY <1>1, <1>2, LenProperties DEF Written

LEMMA NumberedInit == Init => Numbered
<1>1. DOMAIN <<>> = {} /\ Len(<<>>) = 0
  BY EmptySeq, LenProperties
<1> QED
  BY <1>1
  DEF Init, session!Init, Numbered, Follow, PostedFollow, Unsent, Written, Connected

\* A command or a raw line takes the number after the last one that is posted.
LEMMA TypedStep ==
    ASSUME ClientInv, Numbered, NEW asks \in BOOLEAN,
           send_raw(asks) \/ (send_request /\ asks = TRUE)
    PROVE  Numbered'
<1> DEFINE f == [op |-> "write", line |-> NextLine(asks)]
<1>1. /\ lines' = lines + 1 /\ posted' = Append(posted, f) /\ lines < MaxLines
      /\ main = "getline" /\ UNCHANGED <<ioVars, wire, handled>>
  BY DEF send_raw, send_request, write, Post
<1>2. f \in Function /\ f.line.n = lines + 1
  <2>1. NextLine(asks) \in Line
    BY <1>1, Counted, ClientAssumption DEF NextLine, Line
  <2> QED
    BY <2>1 DEF Function, NextLine
<1> HIDE DEF f
<1>3. Len(posted') = Len(posted) + 1
  BY <1>1, <1>2, Counted, AppendAt
<1>4. Connected => PostedFollow(posted', Written + Len(Unsent))
  <2>1. SUFFICES ASSUME Connected PROVE PostedFollow(posted', Written + Len(Unsent))
    OBVIOUS
  <2>2. lines = Written + Len(Unsent) + Len(posted) /\ Written + Len(Unsent) \in Nat
    BY <1>1, <2>1, Counted DEF Numbered
  <2>3. f.line.n = Written + Len(Unsent) + Len(posted) + 1
    BY <1>2, <2>2
  <2> QED
    BY <1>1, <1>2, <2>1, <2>2, <2>3, Counted, PostedAppend DEF Numbered
<1>5. Unsent' = Unsent /\ Written' = Written /\ (Connected' <=> Connected)
  BY <1>1 DEF ioVars, wire, Unsent, Written, Connected
<1> QED
  BY <1>1, <1>3, <1>4, <1>5, Counted DEF Numbered, ioVars, wire

\* A function that is run puts its line behind those not sent, if the connection is there.
LEMMA RunUnsent ==
    ASSUME ClientInv, run_posted_write, Connected
    PROVE  /\ Head(posted).line \in Line
           /\ Unsent' = Append(Unsent, Head(posted).line)
<1> DEFINE l == Head(posted).line
<1>1. /\ posted # <<>> /\ Head(posted).op = "write" /\ write_msgs' = Append(write_msgs, l)
  BY DEF run_posted_write
<1>2. l \in Line
  BY <1>1, Counted, HeadTailProperties DEF Function
<1>3. Unsent' = Append(Unsent, l)
  <2>1. write_msgs \in Seq(Line)
    BY DEF ClientInv, ClientTypeOK
  <2>2. CASE write_msgs = <<>>
    <3>1. writing = <<>>
      BY <2>2 DEF ClientInv, WriteUnderWay
    <3>2. Started("started") # "sent"
      BY DEF Started
    <3>3. writing' = Append(<<>>, Started("started"))
      BY <2>2, <3>1 DEF run_posted_write
    <3>4. writing' # <<>> /\ Head(writing') # "sent"
      <4>1. Started("started") \in Operation
        BY DEF Started, Operation
      <4> QED
        BY <3>2, <3>3, <4>1, OneWrite
    <3> QED
      BY <1>1, <2>2, <3>1, <3>4 DEF Unsent
  <2>3. CASE write_msgs # <<>>
    <3>1. writing' = writing /\ writing # <<>>
      BY <2>3 DEF run_posted_write, Connected, ClientInv, WriteUnderWay
    <3>2. Tail(Append(write_msgs, l)) = Append(Tail(write_msgs), l)
      BY <1>2, <2>1, <2>3
    <3> QED
      BY <1>1, <3>1, <3>2 DEF Unsent
  <2> QED
    BY <2>2, <2>3
<1> QED
  BY <1>2, <1>3

\* A function that is run takes the first posted line to the end of write_msgs_.
LEMMA RunStep ==
    ASSUME ClientInv, Numbered, run_posted_write
    PROVE  Numbered'
<1> DEFINE l == Head(posted).line
<1>1. /\ posted # <<>> /\ Head(posted).op = "write" /\ posted' = Tail(posted)
      /\ write_msgs' = Append(write_msgs, l)
      /\ UNCHANGED <<main, lines, socket, wire, handled>>
  BY DEF run_posted_write, mainVars
<1>2. l \in Line
  BY <1>1, Counted, HeadTailProperties DEF Function
<1>3. ASSUME Connected
      PROVE  Unsent' = Append(Unsent, l)
  BY <1>3, RunUnsent
<1>4. Written' = Written /\ (Connected' <=> Connected)
  BY <1>1 DEF wire, Written, Connected
<1>5. ASSUME Connected
      PROVE  /\ Follow(Unsent', Written)
             /\ Len(Unsent') = Len(Unsent) + 1 /\ Len(posted') + 1 = Len(posted)
             /\ PostedFollow(posted', Written + Len(Unsent'))
  <2>1. /\ Follow(Unsent, Written) /\ PostedFollow(posted, Written + Len(Unsent))
        /\ Written + Len(Unsent) \in Nat
    BY <1>5, Counted DEF Numbered
  <2>2. l.n = Written + Len(Unsent) + 1 /\ PostedFollow(Tail(posted), Written + Len(Unsent) + 1)
    BY <1>1, <2>1, Counted, PostedTail
  <2>3. Follow(Append(Unsent, l), Written)
    BY <1>2, <2>1, <2>2, Counted, FollowAppend
  <2>4. Len(Append(Unsent, l)) = Len(Unsent) + 1
    BY <1>2, Counted, AppendAt
  <2>5. Len(Tail(posted)) + 1 = Len(posted)
    BY <1>1, Counted, TailAt
  <2>6. Unsent' = Append(Unsent, l)
    BY <1>3, <1>5
  <2> HIDE DEF l
  <2>7. Written + (Len(Unsent) + 1) = Written + Len(Unsent) + 1
    BY Counted
  <2> QED
    BY <1>1, <2>2, <2>3, <2>4, <2>5, <2>6, <2>7
<1>6. Connected' /\ main' \in {"getline", "read_wait"} =>
          lines' = Written' + Len(Unsent') + Len(posted')
  <2>1. ASSUME Connected, main \in {"getline", "read_wait"}
        PROVE  lines = Written + Len(Unsent') + Len(posted')
    <3>1. lines = Written + Len(Unsent) + Len(posted)
      BY <2>1 DEF Numbered
    <3>2. Len(Unsent') = Len(Unsent) + 1 /\ Len(posted') + 1 = Len(posted)
      BY <1>5, <2>1
    <3>3. Len(Tail(posted)) \in Nat
      BY <1>1, Counted, TailAt
    <3>4. Len(posted') \in Nat
      BY <1>1, <3>3
    <3>5. Written \in Nat /\ Len(Unsent) \in Nat /\ Len(posted) \in Nat
      BY Counted
    <3> QED
      BY <3>1, <3>2, <3>4, <3>5
  <2> QED
    BY <1>1, <1>4, <2>1
<1> QED
  BY <1>1, <1>4, <1>5, <1>6 DEF Numbered, wire

LEMMA SentUnsent ==
    ASSUME ClientInv, write_sent
    PROVE  Unsent = write_msgs /\ Unsent' = Tail(write_msgs)
<1>1. /\ writing # <<>> /\ Head(writing) = "started" /\ write_msgs # <<>>
      /\ writing' = <<"sent">> \o Tail(writing) /\ write_msgs' = write_msgs
  BY DEF write_sent, ClientInv, WriteUnderWay
<1>2. writing' = <<"sent">>
  <2>1. writing' = <<"sent">> \o <<>>
    BY <1>1, LastWrite
  <2> QED
    BY <2>1
<1> QED
  BY <1>1, <1>2 DEF Unsent

\* write() takes the first unsent line to the session, and the completion forgets it.
LEMMA SentStep ==
    ASSUME ClientInv, Numbered, write_sent
    PROVE  Numbered'
<1>1. /\ socket = "open" /\ writing # <<>> /\ Head(writing) = "started" /\ write_msgs # <<>>
      /\ writing' = <<"sent">> \o Tail(writing)
      /\ UNCHANGED <<main, lines, socket, write_msgs, posted, handled>>
  BY DEF write_sent, mainVars, ClientInv, WriteUnderWay
<1>2. CASE server = "none"
  <2>1. ~ Connected' /\ UNCHANGED <<server, to_server>>
    BY <1>1, <1>2 DEF write_sent, wire, Connected
  <2> QED
    BY <1>1, <2>1 DEF Numbered
<1>3. CASE server # "none"
  <2>1. /\ Connected /\ Connected' /\ server' = server
        /\ to_server' = Append(to_server, Head(write_msgs))
    BY <1>1, <1>3 DEF write_sent, session!Send, Connected
  <2>2. Unsent = write_msgs /\ Unsent' = Tail(write_msgs)
    BY SentUnsent
  <2>3. write_msgs \in Seq(Line) /\ Head(write_msgs) \in Line
    BY <1>1, HeadTailProperties DEF ClientInv, ClientTypeOK
  <2>4. Head(write_msgs).n = Written + 1 /\ Follow(Tail(write_msgs), Written + 1)
    BY <1>1, <2>1, <2>2, <2>3, Counted, FollowTail DEF Numbered
  <2>5. Follow(to_server', handled)
    <3>1. Head(write_msgs).n = handled + Len(to_server) + 1
      BY <2>4 DEF Written
    <3> QED
      BY <2>1, <2>3, <3>1, Counted, FollowAppend DEF Numbered
  <2>6. Len(to_server') = Len(to_server) + 1 /\ Len(Unsent') + 1 = Len(Unsent)
        /\ Len(Unsent') \in Nat
    BY <1>1, <2>1, <2>2, <2>3, Counted, AppendAt, TailAt
  <2>7. Written' = Written + 1 /\ Written' + Len(Unsent') = Written + Len(Unsent)
    <3>1. handled \in Nat /\ Len(to_server) \in Nat /\ Len(Unsent) \in Nat /\ handled' = handled
      BY <1>1, Counted
    <3> HIDE DEF Unsent
    <3>2. Written' = Written + 1 /\ Written \in Nat
      BY <2>6, <3>1 DEF Written
    <3> QED
      BY <2>6, <3>1, <3>2
  <2> QED
    BY <1>1, <2>1, <2>2, <2>4, <2>5, <2>7 DEF Numbered
<1> QED
  BY <1>2, <1>3

LEMMA DoneUnsent ==
    ASSUME ClientInv, write_done
    PROVE  Unsent' = Unsent
<1>1. /\ writing # <<>> /\ Head(writing) = "sent" /\ write_msgs' = Tail(write_msgs)
      /\ writing' = IF write_msgs' # <<>> THEN Append(Tail(writing), Started("started"))
                    ELSE Tail(writing)
  BY DEF write_done
<1>2. Unsent' = Unsent
  <2>1. Unsent = Tail(write_msgs) /\ Tail(writing) = <<>>
    BY <1>1, LastWrite DEF Unsent
  <2>2. CASE write_msgs' = <<>>
    BY <1>1, <2>1, <2>2 DEF Unsent
  <2>3. CASE write_msgs' # <<>>
    <3>1. writing' = Append(<<>>, Started("started"))
      BY <1>1, <2>1, <2>3
    <3>2. writing' # <<>> /\ Head(writing') = Started("started")
      <4>1. Started("started") \in Operation
        BY DEF Started, Operation
      <4> QED
        BY <3>1, <4>1, OneWrite
    <3> QED
      BY <1>1, <2>1, <2>3, <3>2 DEF Unsent, Started
  <2> QED
    BY <2>2, <2>3
<1> QED
  BY <1>2

LEMMA DoneStep ==
    ASSUME ClientInv, Numbered, write_done
    PROVE  Numbered'
<1>1. /\ writing # <<>> /\ Head(writing) = "sent" /\ write_msgs' = Tail(write_msgs)
      /\ writing' = IF write_msgs' # <<>> THEN Append(Tail(writing), Started("started"))
                    ELSE Tail(writing)
      /\ UNCHANGED <<main, lines, socket, wire, posted, handled>>
  BY DEF write_done, mainVars
<1>2. Unsent' = Unsent
  BY DoneUnsent
<1>3. Written' = Written /\ (Connected' <=> Connected)
  BY <1>1 DEF wire, Written, Connected
<1> QED
  BY <1>1, <1>2, <1>3 DEF Numbered, wire

\* The server handles the line after the one it handled last.
LEMMA HandledNext ==
    ASSUME ClientInv, Numbered, server_handles
    PROVE  handled' = handled + 1 /\ Numbered'
<1>1. /\ to_server # <<>> /\ to_server' = Tail(to_server) /\ handled' = Head(to_server).n
      /\ server = "served" /\ server' = server
      /\ UNCHANGED <<mainVars, ioVars, posted>>
  BY DEF server_handles, session!Answer, session!Ignore
<1>2. handled' = handled + 1 /\ Follow(to_server', handled')
  BY <1>1, Counted, FollowTail DEF Numbered
<1>3. Written' = Written
  <2>1. Len(Tail(to_server)) + 1 = Len(to_server) /\ Len(Tail(to_server)) \in Nat
    BY <1>1, Counted, TailAt
  <2>2. handled \in Nat /\ Len(to_server) \in Nat
    BY Counted
  <2>3. Len(to_server') + 1 = Len(to_server) /\ Len(to_server') \in Nat
    BY <1>1, <2>1
  <2> QED
    BY <1>2, <2>2, <2>3 DEF Written
<1>4. Unsent' = Unsent /\ (Connected' <=> Connected)
  BY <1>1 DEF ioVars, Unsent, Connected
<1> QED
  BY <1>1, <1>2, <1>3, <1>4 DEF Numbered, mainVars, ioVars

\* The steps that lose the connection, and those that touch no line.
LEMMA OtherStep ==
    ASSUME ClientInv, Numbered,
           \/ too_few_words \/ read_wait \/ end_of_input \/ join
           \/ connected \/ connect_failed \/ run_posted_close
           \/ read_header \/ read_body \/ read_error \/ write_error \/ run_returns
           \/ system_connects \/ server_steps
    PROVE  Numbered' /\ handled' = handled
<1>1. CASE too_few_words \/ connect_failed \/ run_posted_close \/ read_error \/ write_error
  <2>1. ~ Connected' /\ socket' = "closed" /\ UNCHANGED <<to_server, handled>>
    BY <1>1 DEF too_few_words, connect_failed, run_posted_close, read_error, write_error, wire,
                Connected
  <2> QED
    BY <2>1 DEF Numbered
<1>2. CASE read_wait \/ join \/ read_header \/ read_body \/ run_returns
  <2>1. /\ UNCHANGED <<socket, server, to_server, writing, write_msgs, lines, posted, handled>>
        /\ main' \in {"getline", "read_wait"} => main \in {"getline", "read_wait"}
    BY <1>2 DEF read_wait, join, read_header, read_body, session!Receive, run_returns, mainVars,
                ioVars, wire
  <2>2. Unsent' = Unsent /\ Written' = Written /\ (Connected' <=> Connected)
    BY <2>1 DEF Unsent, Written, Connected
  <2> QED
    BY <2>1, <2>2 DEF Numbered
<1>3. CASE end_of_input
  <2> DEFINE f == [op |-> "close"]
  <2>1. /\ UNCHANGED <<socket, server, to_server, writing, write_msgs, lines, handled>>
        /\ main' = "join" /\ posted' = Append(posted, f)
    BY <1>3 DEF end_of_input, Post, ioVars, wire
  <2>2. f \in Function /\ f.op # "write"
    BY DEF Function
  <2> HIDE DEF f
  <2>3. Connected => PostedFollow(posted', Written + Len(Unsent))
    <3>1. Written + Len(Unsent) \in Nat
      BY Counted
    <3> QED
      BY <2>1, <2>2, <3>1, Counted, PostedAppend DEF Numbered
  <2>4. Unsent' = Unsent /\ Written' = Written /\ (Connected' <=> Connected)
    BY <2>1 DEF Unsent, Written, Connected
  <2> QED
    BY <2>1, <2>3, <2>4 DEF Numbered
<1>4. CASE connected
  <2>1. /\ UNCHANGED <<main, server, to_server, writing, write_msgs, lines, posted, handled>>
        /\ socket = "made" /\ socket' = "open"
    BY <1>4 DEF connected, mainVars, wire
  <2>2. Unsent' = Unsent /\ Written' = Written /\ (Connected' <=> Connected)
    BY <2>1 DEF Unsent, Written, Connected
  <2> QED
    BY <2>1, <2>2 DEF Numbered
<1>5. CASE system_connects
  <2>1. /\ UNCHANGED <<main, writing, write_msgs, lines, posted, handled>>
        /\ socket = "connecting" /\ socket' = "made" /\ to_server' = <<>> /\ to_server = <<>>
    BY <1>5 DEF system_connects, session!Connect, mainVars, Numbered
  <2>2. Unsent' = Unsent /\ Written' = Written /\ Connected
    BY <2>1 DEF Unsent, Written, Connected
  <2> QED
    BY <2>1, <2>2 DEF Numbered
<1>6. ASSUME server_steps, ~ session!End
      PROVE  Numbered' /\ handled' = handled
  <2>1. /\ UNCHANGED <<mainVars, ioVars, to_server, posted, handled>>
        /\ server # "none" \/ server' = server
        /\ server' = "none" => server = "none"
    BY <1>6 DEF server_steps, session!Accept, session!Deliver
  <2>2. Unsent' = Unsent /\ Written' = Written /\ (Connected' => Connected)
    BY <2>1 DEF ioVars, Unsent, Written, Connected
  <2> QED
    BY <2>1, <2>2 DEF Numbered, ioVars, mainVars
<1>7. ASSUME server_steps, session!End
      PROVE  Numbered' /\ handled' = handled
  <2>1. /\ UNCHANGED <<socket, handled>> /\ server # "none" /\ server' = "none"
        /\ to_server' = <<>>
    BY <1>7 DEF server_steps, session!End, ioVars
  <2>2. ~ Connected' /\ socket' # "connecting"
    BY <2>1 DEF Numbered, Connected
  <2>3. Follow(to_server', handled')
    BY <2>1, EmptySeq, LenProperties DEF Follow
  <2> QED
    BY <2>1, <2>2, <2>3 DEF Numbered
<1> QED
  BY <1>1, <1>2, <1>3, <1>4, <1>5, <1>6, <1>7

LEMMA NumberedStep ==
    ASSUME ClientInv, Numbered, [Next]_vars
    PROVE  Numbered' /\ (handled' # handled => handled' = handled + 1)
<1>1. CASE UNCHANGED vars
  BY <1>1 DEF vars, mainVars, ioVars, wire, Numbered, Unsent, Written, Connected
<1>2. CASE send_request
  BY <1>2, TypedStep DEF send_request
<1>3. ASSUME NEW asks \in BOOLEAN, send_raw(asks)
      PROVE  Numbered' /\ handled' = handled
  BY <1>3, TypedStep DEF send_raw
<1>4. CASE run_posted_write
  BY <1>4, RunStep DEF run_posted_write
<1>5. CASE write_sent
  BY <1>5, SentStep DEF write_sent
<1>6. CASE write_done
  BY <1>6, DoneStep DEF write_done
<1> QED
  BY <1>1, <1>2, <1>3, <1>4, <1>5, <1>6, HandledNext, OtherStep DEF Next, Main, Completion

THEOREM LinesAreNumbered == Spec => [](ClientInv /\ Numbered)
<1>1. ClientInv /\ Numbered /\ [Next]_vars => Numbered'
  BY NumberedStep
<1> QED
  BY <1>1, NumberedInit, ClientInvariant, PTL DEF Spec

\* Lines reach the server in the order in which they were typed and none is skipped.
THEOREM LinesArriveInOrder == Spec => LinesInOrder
<1>1. ClientInv /\ Numbered /\ [Next]_vars => [handled' # handled => handled' = handled + 1]_vars
  BY NumberedStep
<1> QED
  BY <1>1, LinesAreNumbered, PTL DEF Spec, LinesInOrder
-----------------------------------------------------------------------------
LEMMA TypedInit == Init => AskersAreTyped
BY EmptySeq DEF Init, session!Init, AskersAreTyped

\* A sequence is one over every larger set.
LEMMA SeqGrows ==
    ASSUME NEW S, NEW T, S \subseteq T, NEW s \in Seq(S)
    PROVE  s \in Seq(T)
<1>1. Len(s) \in Nat /\ \A i \in 1 .. Len(s) : s[i] \in T
  BY ElementOfSeq, LenProperties
<1>2. s \in [1 .. Len(s) -> T]
  BY <1>1
<1> QED
  BY <1>1, <1>2, SeqDef

\* Lines stay what they were when more are typed.
LEMMA TypedGrows ==
    ASSUME AskersAreTyped, commands \subseteq commands', requests \subseteq requests'
    PROVE  /\ Typed \subseteq Typed' /\ TypedFunction \subseteq TypedFunction'
           /\ to_server \in Seq(Typed') /\ write_msgs \in Seq(Typed')
           /\ posted \in Seq(TypedFunction')
<1>1. Typed \subseteq Typed'
  BY DEF Typed
<1>2. TypedFunction \subseteq TypedFunction'
  BY <1>1 DEF TypedFunction
<1> QED
  BY <1>1, <1>2, SeqGrows DEF AskersAreTyped

LEMMA TypedMain ==
    ASSUME ClientInv, AskersAreTyped, Main
    PROVE  AskersAreTyped'
<1>1. ASSUME NEW asks \in BOOLEAN, send_raw(asks) \/ (send_request /\ asks = TRUE)
      PROVE  AskersAreTyped'
  <2> DEFINE f == [op |-> "write", line |-> NextLine(asks)]
  <2>1. /\ posted' = Append(posted, f) /\ lines < MaxLines
        /\ asks => lines + 1 \in commands' \cup requests'
        /\ commands \subseteq commands' /\ requests \subseteq requests'
        /\ UNCHANGED <<to_server, write_msgs>>
    BY <1>1 DEF send_raw, send_request, write, Post, ioVars, wire
  <2>2. NextLine(asks) \in Typed'
    <3>1. NextLine(asks) \in Line /\ NextLine(asks).n = lines + 1 /\ NextLine(asks).asks = asks
      BY <2>1, Counted, ClientAssumption DEF NextLine, Line
    <3> QED
      BY <2>1, <3>1 DEF Typed
  <2>3. f \in TypedFunction'
    BY <2>2 DEF TypedFunction
  <2> HIDE DEF f
  <2>4. Append(posted, f) \in Seq(TypedFunction')
    BY <2>1, <2>3, TypedGrows, AppendProperties
  <2> QED
    BY <2>1, <2>4, TypedGrows DEF AskersAreTyped
<1>2. CASE end_of_input
  <2> DEFINE f == [op |-> "close"]
  <2>1. /\ posted' = Append(posted, f)
        /\ UNCHANGED <<to_server, write_msgs, commands, requests>>
    BY <1>2 DEF end_of_input, Post, ioVars, wire
  <2>2. f \in TypedFunction
    BY DEF TypedFunction
  <2> HIDE DEF f
  <2>3. Append(posted, f) \in Seq(TypedFunction)
    BY <2>2, AppendProperties DEF AskersAreTyped
  <2> QED
    BY <2>1, <2>3 DEF AskersAreTyped, TypedFunction, Typed
<1>3. CASE too_few_words \/ read_wait \/ join
  <2>1. UNCHANGED <<to_server, write_msgs, posted, commands, requests>>
    BY <1>3 DEF too_few_words, read_wait, join, ioVars, wire
  <2> QED
    BY <2>1 DEF AskersAreTyped, TypedFunction, Typed
<1> QED
  BY <1>1, <1>2, <1>3 DEF Main

LEMMA TypedOther ==
    ASSUME ClientInv, AskersAreTyped,
           Completion \/ system_connects \/ write_sent \/ server_handles \/ server_steps
               \/ UNCHANGED vars
    PROVE  AskersAreTyped'
<1>0. UNCHANGED <<commands, requests>>
  BY DEF Completion, connected, connect_failed, run_posted_write, run_posted_close, read_header,
         read_body, read_error, write_done, write_error, run_returns, system_connects, write_sent,
         server_handles, server_steps, vars, mainVars
<1>1. Typed' = Typed /\ TypedFunction' = TypedFunction
  BY <1>0 DEF Typed, TypedFunction
<1>2. SUFFICES /\ to_server' \in Seq(Typed)
               /\ write_msgs' \in Seq(Typed)
               /\ posted' \in Seq(TypedFunction)
  BY <1>1 DEF AskersAreTyped
<1> USE DEF AskersAreTyped
<1>3. CASE run_posted_write \/ run_posted_close
  <2>1. posted # <<>> /\ posted' = Tail(posted) /\ to_server' = to_server
    BY <1>3 DEF run_posted_write, run_posted_close, wire
  <2>2. Head(posted) \in TypedFunction /\ posted' \in Seq(TypedFunction)
    BY <2>1, HeadTailProperties
  <2>3. CASE run_posted_write
    <3>1. Head(posted).line \in Typed
      BY <2>2, <2>3 DEF run_posted_write, TypedFunction
    <3>2. write_msgs' \in Seq(Typed)
      BY <2>3, <3>1, AppendProperties DEF run_posted_write
    <3> QED
      BY <2>1, <2>2, <3>2
  <2>4. CASE run_posted_close
    BY <2>1, <2>2, <2>4 DEF run_posted_close
  <2> QED
    BY <1>3, <2>3, <2>4
<1>4. CASE write_done
  <2>1. write_msgs # <<>> /\ write_msgs' = Tail(write_msgs) /\ UNCHANGED <<to_server, posted>>
    BY <1>4 DEF write_done, wire, ClientInv, WriteUnderWay
  <2> QED
    BY <2>1, HeadTailProperties
<1>5. CASE write_sent
  <2>1. /\ write_msgs # <<>> /\ UNCHANGED <<write_msgs, posted>>
        /\ to_server' = to_server \/ to_server' = Append(to_server, Head(write_msgs))
    BY <1>5 DEF write_sent, session!Send, wire, ClientInv, WriteUnderWay
  <2>2. Head(write_msgs) \in Typed
    BY <2>1, HeadTailProperties
  <2>3. Append(to_server, Head(write_msgs)) \in Seq(Typed)
    BY <2>2, AppendProperties
  <2> QED
    BY <2>1, <2>3
<1>6. CASE server_handles
  <2>1. to_server # <<>> /\ to_server' = Tail(to_server) /\ UNCHANGED <<write_msgs, posted>>
    BY <1>6 DEF server_handles, session!Answer, session!Ignore, ioVars
  <2> QED
    BY <2>1, HeadTailProperties
<1>7. CASE system_connects \/ server_steps
  <2>1. (to_server' = to_server \/ to_server' = <<>>) /\ UNCHANGED <<write_msgs, posted>>
    BY <1>7 DEF system_connects, server_steps, session!Connect, session!Accept, session!Deliver,
                session!End, ioVars
  <2> QED
    BY <2>1, EmptySeq
<1>8. CASE \/ connected \/ connect_failed \/ read_header \/ read_body \/ read_error
           \/ write_error \/ run_returns \/ UNCHANGED vars
  <2>1. UNCHANGED <<to_server, write_msgs, posted>>
    BY <1>8 DEF connected, connect_failed, read_header, read_body, session!Receive, read_error,
                write_error, run_returns, vars, ioVars, wire
  <2> QED
    BY <2>1
<1> QED
  BY <1>3, <1>4, <1>5, <1>6, <1>7, <1>8 DEF Completion

LEMMA LinesAreFinite ==
    ASSUME NEW l \in Nat, NEW C \in SUBSET (1 .. l), NEW R \in SUBSET (1 .. l), NEW h
    PROVE  /\ IsFiniteSet(C) /\ IsFiniteSet(R)
           /\ IsFiniteSet({n \in C \cup R : n <= h})
<1>1. IsFiniteSet(1 .. l)
  BY FS_Interval
<1>2. {n \in C \cup R : n <= h} \in SUBSET (1 .. l)
  OBVIOUS
<1> QED
  BY <1>1, <1>2, FS_Subset

LEMMA BalanceTypes ==
    ASSUME ClientInv
    PROVE  /\ Cardinality(commands) \in Nat /\ Cardinality(Replied) \in Nat
           /\ IsFiniteSet(commands) /\ IsFiniteSet(requests) /\ IsFiniteSet(Replied)
           /\ Len(read_messages) \in Nat /\ Len(to_client) \in Nat /\ Len(due) \in Nat
<1>1. /\ lines \in Nat /\ commands \in SUBSET (1 .. lines) /\ requests \in SUBSET (1 .. lines)
      /\ read_messages \in Seq(Reply) /\ to_client \in Seq(Reply) /\ due \in Seq(Reply)
  BY ClientAssumption DEF ClientInv, ClientTypeOK
<1>2. IsFiniteSet(commands) /\ IsFiniteSet(requests) /\ IsFiniteSet(Replied)
  BY <1>1, LinesAreFinite DEF Replied
<1> QED
  BY <1>1, <1>2, FS_CardinalityType, LenProperties

\* What was answered stays so, and the line handled now is answered too if it is one of those.
LEMMA RepliedGrows ==
    ASSUME ClientInv, ClientInv', commands \subseteq commands', requests \subseteq requests',
           handled' = handled \/ handled' = handled + 1
    PROVE  /\ Cardinality(Replied') \in Nat
           /\ Cardinality(Replied) <= Cardinality(Replied')
           /\ handled' # handled /\ handled' \in commands \cup requests
                  => Cardinality(Replied) + 1 <= Cardinality(Replied')
<1>1. /\ lines' \in Nat /\ commands' \in SUBSET (1 .. lines')
      /\ requests' \in SUBSET (1 .. lines') /\ handled \in Nat
  BY ClientAssumption, SMTT(30) DEF ClientInv, ClientTypeOK
<1>2. IsFiniteSet(Replied')
  BY <1>1, LinesAreFinite DEF Replied
<1>3. \A n \in commands \cup requests : n \in Nat
  BY <1>1
<1>4. Replied \in SUBSET Replied'
  <2>1. ASSUME NEW n \in Replied
        PROVE  n \in Replied'
    <3>1. n \in commands \cup requests /\ n <= handled /\ n \in Nat
      BY <1>3 DEF Replied
    <3>2. n \in commands' \cup requests' /\ n <= handled'
      BY <1>1, <3>1
    <3> QED
      BY <3>2 DEF Replied
  <2> QED
    BY <2>1
<1>5. IsFiniteSet(Replied) /\ Cardinality(Replied) \in Nat
  BY BalanceTypes
<1>6. ASSUME handled' # handled, handled' \in commands \cup requests
      PROVE  Cardinality(Replied) + 1 <= Cardinality(Replied')
  <2>1. handled' \notin Replied
    BY <1>1, <1>6 DEF Replied
  <2>2. handled' \in Replied'
    BY <1>1, <1>6 DEF Replied
  <2>3. Replied \cup {handled'} \in SUBSET Replied'
    BY <1>4, <2>2
  <2>4. Cardinality(Replied \cup {handled'}) = Cardinality(Replied) + 1
    BY <1>5, <2>1, FS_AddElement
  <2>5. Cardinality(Replied \cup {handled'}) <= Cardinality(Replied')
    BY <1>2, <2>3, FS_Subset
  <2> QED
    BY <2>4, <2>5
<1> QED
  BY <1>2, <1>4, <1>6, FS_Subset, FS_CardinalityType

LEMMA BalanceInit == Init => Balance
<1> SUFFICES ASSUME Init PROVE Balance
  OBVIOUS
<1>1. Len(<<>>) = 0 /\ Cardinality({}) = 0
  BY EmptySeq, FS_EmptySet
<1>2. Replied = {} /\ commands = {}
  BY DEF Init, Replied
<1>3. /\ read_messages = <<>> /\ to_client = <<>> /\ due = <<>> /\ main = "read_wait"
  BY DEF Init, session!Init
<1>4. Greeted \in {0, 1}
  BY DEF Greeted
<1> QED
  BY <1>1, <1>2, <1>3, <1>4 DEF Balance, Waits

\* What the server does to the number of its replies.
LEMMA ServerBalance ==
    ASSUME ClientInv, ClientInv', Numbered, AskersAreTyped, Balance,
           server_handles \/ server_steps
    PROVE  Balance'
<1>t. /\ Cardinality(commands) \in Nat /\ Cardinality(Replied) \in Nat
      /\ Len(read_messages) \in Nat /\ Len(to_client) \in Nat /\ Len(due) \in Nat
  BY BalanceTypes
<1> USE <1>t
<1>0. UNCHANGED <<main, commands, requests, read_messages, socket>>
  BY DEF server_handles, server_steps, mainVars, ioVars
<1>1. CASE server_handles
  <2>1. /\ handled' = handled + 1 /\ handled' = Head(to_server).n
        /\ UNCHANGED <<server, to_client>>
    BY <1>1, HandledNext DEF server_handles, session!Answer, session!Ignore
  <2>2. to_server # <<>> /\ Head(to_server) \in Typed
    <3>1. to_server # <<>>
      BY <1>1 DEF server_handles, session!Answer, session!Ignore
    <3> QED
      BY <3>1, HeadTailProperties DEF AskersAreTyped
  <2>3. handled \in Nat /\ Head(to_server).n \in Reply /\ due \in Seq(Reply)
    <3>1. Head(to_server) \in Line
      BY <2>2 DEF Typed
    <3>2. Head(to_server).n \in Reply
      BY <3>1, ClientAssumption DEF Line, Reply
    <3> QED
      BY <3>2, Counted DEF ClientInv, ClientTypeOK
  <2>4. /\ Cardinality(Replied') \in Nat
        /\ Cardinality(Replied) <= Cardinality(Replied')
        /\ handled' # handled /\ handled' \in commands \cup requests
               => Cardinality(Replied) + 1 <= Cardinality(Replied')
    BY <1>0, <2>1, RepliedGrows
  <2>5. Waits' = Waits /\ Greeted' = Greeted /\ Waits \in {0, 1} /\ Greeted \in {0, 1}
    BY <1>0, <2>1 DEF Waits, Greeted
  <2>6. CASE due' = due
    BY <1>0, <2>1, <2>4, <2>5, <2>6, SMTT(30) DEF Balance
  <2>7. CASE Head(to_server).asks /\ due' = Append(due, Head(to_server).n)
    <3>1. Len(due') = Len(due) + 1
      BY <2>3, <2>7, AppendAt
    <3>2. handled' \in commands \cup requests /\ handled' # handled
      BY <2>1, <2>2, <2>3, <2>7 DEF Typed
    <3>3. Cardinality(Replied) + 1 <= Cardinality(Replied')
      BY <2>4, <3>2
    <3>4. /\ Cardinality(Replied') \in Nat /\ commands' = commands
          /\ read_messages' = read_messages /\ to_client' = to_client
      BY <1>0, <2>1, <2>4
    <3> DEFINE others == 1 + Cardinality(commands) + Len(read_messages) + Len(to_client)
               s == Cardinality(Replied)
               t == Cardinality(Replied')
    <3>5. others + Len(due) <= Waits + s + Greeted
      BY DEF Balance
    <3>6. others \in Nat /\ s \in Nat /\ t \in Nat /\ s + 1 <= t
      BY <3>3, <3>4
    <3>7. others + (Len(due) + 1) <= Waits + t + Greeted
      <4> HIDE DEF others, s, t
      <4> QED
        BY <2>5, <3>5, <3>6
    <3>8. others + Len(due') <= Waits' + t + Greeted'
      <4> HIDE DEF others, t
      <4> QED
        BY <2>5, <3>1, <3>7
    <3> QED
      BY <3>4, <3>8 DEF Balance
  <2> QED
    BY <1>1, <2>6, <2>7 DEF server_handles, session!Answer, session!Ignore, replyTo
<1>2. ASSUME server_steps
      PROVE  /\ Cardinality(Replied') = Cardinality(Replied) /\ Waits' = Waits
             /\ Waits \in {0, 1} /\ Greeted \in {0, 1} /\ handled' = handled
  BY <1>0, <1>2 DEF server_steps, Replied, Waits, Greeted
<1>3. ASSUME server_steps, session!Accept
      PROVE  Balance'
  <2>1. /\ server = "queued" /\ server' = "served" /\ due' = Append(due, 0)
        /\ to_client' = to_client
    BY <1>3 DEF server_steps, session!Accept
  <2>2. Len(Append(due, 0)) = Len(due) + 1
    <3>1. due \in Seq(Reply) /\ 0 \in Reply
      BY ClientAssumption DEF Reply, ClientInv, ClientTypeOK
    <3> QED
      BY <3>1, AppendAt
  <2>3. Len(due') = Len(due) + 1 /\ socket # "connecting"
    BY <2>1, <2>2 DEF Numbered
  <2>4. Greeted = 0 /\ Greeted' = 1
    BY <1>0, <2>1, <2>3 DEF Greeted
  <2> QED
    BY <1>0, <1>2, <1>3, <2>1, <2>3, <2>4 DEF Balance
<1>4. ASSUME server_steps, session!Deliver
      PROVE  Balance'
  <2>1. /\ due # <<>> /\ due' = Tail(due) /\ to_client' = Append(to_client, Head(due))
        /\ server' = server
    BY <1>4 DEF server_steps, session!Deliver
  <2>2. due \in Seq(Reply) /\ to_client \in Seq(Reply) /\ Head(due) \in Reply
    BY <2>1, HeadTailProperties DEF ClientInv, ClientTypeOK
  <2>3. Len(Append(to_client, Head(due))) = Len(to_client) + 1 /\ Len(Tail(due)) + 1 = Len(due)
        /\ Len(Tail(due)) \in Nat
    BY <2>1, <2>2, AppendAt, TailAt
  <2>4. Len(to_client') = Len(to_client) + 1 /\ Len(due') + 1 = Len(due) /\ Len(due') \in Nat
    BY <2>1, <2>3
  <2>5. Greeted' = Greeted
    BY <1>0, <2>1 DEF Greeted
  <2> QED
    BY <1>0, <1>2, <1>4, <2>4, <2>5, SMTT(30) DEF Balance
<1>5. ASSUME server_steps, session!End
      PROVE  Balance'
  <2>1. PICK k \in 0 .. Len(to_client) : to_client' = SubSeq(to_client, 1, k)
    BY <1>5 DEF session!End
  <2>2. Len(to_client') = k
    <3>1. to_client \in Seq(Reply) /\ Len(to_client) \in Nat
      BY DEF ClientInv, ClientTypeOK
    <3>2. \A i \in 1 .. k : to_client[i] \in Reply
      BY <3>1, ElementOfSeq
    <3> QED
      BY <2>1, <3>1, <3>2, SubSeqProperties
  <2>3. server # "none" /\ server' = "none" /\ Len(due') = 0
    BY <1>5, EmptySeq DEF server_steps, session!End
  <2>4. socket # "connecting"
    BY <2>3 DEF Numbered
  <2>5. Greeted' = 1
    BY <1>0, <2>3, <2>4 DEF Greeted
  <2> QED
    BY <1>0, <1>2, <1>5, <2>1, <2>2, <2>3, <2>5 DEF Balance
<1> QED
  BY <1>1, <1>3, <1>4, <1>5 DEF server_steps

\* What the main thread does to it.
LEMMA MainBalance ==
    ASSUME ClientInv, ClientInv', Balance, Main
    PROVE  Balance'
<1>t. /\ Cardinality(commands) \in Nat /\ Cardinality(Replied) \in Nat /\ IsFiniteSet(commands)
      /\ Len(read_messages) \in Nat /\ Len(to_client) \in Nat /\ Len(due) \in Nat
  BY BalanceTypes
<1> USE <1>t
<1>0. /\ handled' = handled /\ commands \subseteq commands' /\ requests \subseteq requests'
      /\ UNCHANGED <<server, to_client, due>>
  BY DEF Main, send_request, send_raw, too_few_words, read_wait, end_of_input, join, wire
<1>1. Cardinality(Replied') \in Nat /\ Cardinality(Replied) <= Cardinality(Replied')
  BY <1>0, RepliedGrows
<1>2. /\ Waits \in {0, 1} /\ Waits' \in {0, 1} /\ Greeted \in {0, 1}
      /\ socket' = socket \/ socket' = "closed" => Greeted <= Greeted' /\ Greeted' \in {0, 1}
  BY <1>0 DEF Waits, Greeted
<1>3. CASE send_request
  <2>1. /\ commands' = commands \cup {lines + 1} /\ main = "getline" /\ main' = "read_wait"
        /\ UNCHANGED <<read_messages, socket>>
    BY <1>3 DEF send_request, ioVars
  <2>2. Cardinality(commands') <= Cardinality(commands) + 1 /\ Cardinality(commands') \in Nat
    <3>1. Cardinality(commands \cup {lines + 1})
             = IF lines + 1 \in commands THEN Cardinality(commands) ELSE Cardinality(commands) + 1
      BY FS_AddElement
    <3> QED
      BY <2>1, <3>1
  <2>3. Waits = 0 /\ Waits' = 1
    BY <2>1 DEF Waits
  <2>4. Greeted <= Greeted' /\ Greeted \in {0, 1} /\ Greeted' \in {0, 1}
    BY <1>2, <2>1
  <2> DEFINE q == Len(read_messages) + Len(to_client) + Len(due)
             c == Cardinality(commands)
             d == Cardinality(commands')
             s == Cardinality(Replied)
             t == Cardinality(Replied')
             g == Greeted
             h == Greeted'
  <2>5. /\ 1 + c + q <= 0 + s + g /\ s <= t /\ d <= c + 1 /\ g <= h
        /\ q \in Nat /\ c \in Nat /\ d \in Nat /\ s \in Nat /\ t \in Nat /\ g \in Nat /\ h \in Nat
    <3>1. 1 + c + q <= 0 + s + g
      BY <2>3 DEF Balance
    <3> QED
      BY <1>1, <2>2, <2>4, <3>1
  <2>6. 1 + d + q <= 1 + t + h
    <3> HIDE DEF q, c, d, s, t, g, h
    <3> QED
      BY <2>5
  <2>7. /\ Len(read_messages') = Len(read_messages) /\ Len(to_client') = Len(to_client)
        /\ Len(due') = Len(due)
    BY <1>0, <2>1
  <2>8. 1 + d + Len(read_messages') + Len(to_client') + Len(due') <= Waits' + t + h
    <3> HIDE DEF d, t, h
    <3> QED
      BY <2>3, <2>5, <2>6, <2>7
  <2> QED
    BY <2>8 DEF Balance
<1>4. CASE \/ \E asks \in BOOLEAN : send_raw(asks)
           \/ end_of_input \/ join \/ too_few_words
  <2>1. /\ commands' = commands /\ read_messages' = read_messages
        /\ socket' = socket \/ socket' = "closed"
        /\ main # "read_wait"
    BY <1>4 DEF send_raw, end_of_input, join, too_few_words, ioVars
  <2>2. Waits = 0
    BY <2>1 DEF Waits
  <2> QED
    BY <1>0, <1>1, <1>2, <2>1, <2>2, SMTT(30) DEF Balance
<1>5. CASE read_wait
  <2>1. read_messages \in Seq(Reply) /\ read_messages # <<>>
    BY <1>5 DEF read_wait, ClientInv, ClientTypeOK
  <2>2. Len(Tail(read_messages)) + 1 = Len(read_messages) /\ Len(Tail(read_messages)) \in Nat
    BY <2>1, TailAt
  <2>3. /\ Len(read_messages') + 1 = Len(read_messages) /\ Len(read_messages') \in Nat
        /\ main = "read_wait" /\ main' = "getline"
        /\ UNCHANGED <<commands, socket>>
    BY <1>5, <2>2 DEF read_wait, ioVars
  <2>4. Waits = 1 /\ Waits' = 0
    BY <2>3 DEF Waits
  <2>5. Greeted <= Greeted' /\ Greeted' \in {0, 1}
    BY <1>2, <2>3
  <2>6. commands' = commands /\ Len(to_client') = Len(to_client) /\ Len(due') = Len(due)
    BY <1>0, <2>3
  <2>7. Len(read_messages') + 1 = Len(read_messages) /\ Len(read_messages') \in Nat
    BY <2>3
  <2> DEFINE c == Cardinality(commands)
             s == Cardinality(Replied')
             m == Len(read_messages')
  <2>8. Cardinality(commands') = c
    BY <2>6
  <2>9. 1 + c + m + Len(to_client) + Len(due) <= 0 + s + Greeted'
    <3>1. 1 + c + (m + 1) + Len(to_client) + Len(due) <= 1 + Cardinality(Replied) + Greeted
      BY <2>4, <2>7 DEF Balance
    <3>2. c \in Nat /\ s \in Nat /\ m \in Nat /\ Cardinality(Replied) <= s
      BY <1>1, <2>7
    <3> HIDE DEF c, s, m
    <3> QED
      BY <1>2, <2>5, <3>1, <3>2
  <2> HIDE DEF c, s, m
  <2> QED
    BY <2>4, <2>6, <2>8, <2>9 DEF Balance, s, m
<1> QED
  BY <1>3, <1>4, <1>5 DEF Main

\* What the io thread and the system do to it.
LEMMA IoBalance ==
    ASSUME ClientInv, Balance, Completion \/ system_connects \/ write_sent \/ UNCHANGED vars
    PROVE  Balance'
<1>t. /\ Cardinality(commands) \in Nat /\ Cardinality(Replied) \in Nat
      /\ Len(read_messages) \in Nat /\ Len(to_client) \in Nat /\ Len(due) \in Nat
  BY BalanceTypes
<1> USE <1>t
<1>0. UNCHANGED <<main, commands, requests, handled>>
  BY DEF Completion, connected, connect_failed, run_posted_write, run_posted_close, read_header,
         read_body, read_error, write_done, write_error, run_returns, system_connects, write_sent,
         vars, mainVars
<1>1. /\ commands' = commands /\ Replied' = Replied /\ Waits' = Waits /\ Waits \in {0, 1}
      /\ Greeted \in {0, 1} /\ Greeted' \in {0, 1}
  BY <1>0 DEF Replied, Waits, Greeted
<1>2. CASE read_body
  <2>1. /\ to_client # <<>> /\ to_client' = Tail(to_client)
        /\ read_messages' = Append(read_messages, Head(to_client))
        /\ UNCHANGED <<socket, server, due>>
    BY <1>2 DEF read_body, session!Receive
  <2>2. to_client \in Seq(Reply) /\ read_messages \in Seq(Reply) /\ Head(to_client) \in Reply
    BY <2>1, HeadTailProperties DEF ClientInv, ClientTypeOK
  <2>3. /\ Len(Append(read_messages, Head(to_client))) = Len(read_messages) + 1
        /\ Len(Tail(to_client)) + 1 = Len(to_client) /\ Len(Tail(to_client)) \in Nat
    BY <2>1, <2>2, AppendAt, TailAt
  <2>4. /\ Len(read_messages') = Len(read_messages) + 1
        /\ Len(to_client') + 1 = Len(to_client) /\ Len(to_client') \in Nat
    BY <2>1, <2>3
  <2>5. Greeted' = Greeted
    BY <2>1 DEF Greeted
  <2> QED
    BY <1>1, <2>1, <2>4, <2>5 DEF Balance
<1>3. CASE system_connects
  <2>1. /\ due' = <<>> /\ to_client' = <<>> /\ socket = "connecting" /\ Len(<<>>) = 0
        /\ read_messages' = read_messages
    BY <1>3, EmptySeq DEF system_connects, session!Connect
  <2>2. Greeted = 0
    BY <2>1 DEF Greeted
  <2> QED
    BY <1>1, <2>1, <2>2 DEF Balance
<1>4. CASE (Completion /\ ~ read_body) \/ write_sent \/ UNCHANGED vars
  <2>1. UNCHANGED <<read_messages, server, due, to_client>>
        /\ (socket' = "connecting" => socket = "connecting")
    BY <1>4
    DEF Completion, connected, connect_failed, run_posted_write, run_posted_close, read_header,
        read_error, write_done, write_error, run_returns, write_sent, session!Send, ioVars, wire,
        vars
  <2>2. Greeted <= Greeted'
    BY <2>1 DEF Greeted
  <2> QED
    BY <1>1, <2>1, <2>2 DEF Balance
<1> QED
  BY <1>2, <1>3, <1>4

\* When the main thread does not wait it has had a reply for each command, so that the commands
\* that were not handled are no more than the raw requests that were.
LEMMA BalanceBounds ==
    ASSUME ClientInv, Balance
    PROVE  LostCommandsHadReplies
<1> DEFINE Lost == {n \in commands : n > handled}
           HandledCommands == {n \in commands : n <= handled}
           HandledRequests == {n \in requests : n <= handled}
<1> SUFFICES ASSUME main # "read_wait"
             PROVE  Cardinality(Lost) <= Cardinality(HandledRequests)
  BY DEF LostCommandsHadReplies
<1>1. /\ commands \in SUBSET Nat /\ handled \in Nat /\ commands \cap requests = {}
  BY ClientAssumption DEF ClientInv, ClientTypeOK
<1>2. /\ IsFiniteSet(commands) /\ IsFiniteSet(requests)
      /\ Cardinality(commands) \in Nat /\ Cardinality(Replied) \in Nat
      /\ Len(read_messages) \in Nat /\ Len(to_client) \in Nat /\ Len(due) \in Nat
  BY BalanceTypes
<1>3. Cardinality(commands) <= Cardinality(Replied)
  <2>1. Waits = 0 /\ Greeted \in {0, 1}
    BY DEF Waits, Greeted
  <2> QED
    BY <1>2, <2>1 DEF Balance
<1>4. /\ Lost \in SUBSET commands /\ HandledCommands \in SUBSET commands
      /\ HandledRequests \in SUBSET requests
  OBVIOUS
<1>5. commands = Lost \cup HandledCommands /\ Lost \cap HandledCommands = {}
  <2>1. \A n \in commands : n > handled <=> ~(n <= handled)
    BY <1>1
  <2> QED
    BY <2>1
<1>6. /\ Replied = HandledCommands \cup HandledRequests
      /\ HandledCommands \cap HandledRequests = {}
  BY <1>1 DEF Replied
<1> HIDE DEF Lost, HandledCommands, HandledRequests
<1>7. IsFiniteSet(Lost) /\ IsFiniteSet(HandledCommands) /\ IsFiniteSet(HandledRequests)
  BY <1>2, <1>4, FS_Subset
<1>8. /\ Cardinality(Lost) \in Nat /\ Cardinality(HandledCommands) \in Nat
      /\ Cardinality(HandledRequests) \in Nat /\ Cardinality({}) = 0
  BY <1>7, FS_CardinalityType, FS_EmptySet
<1>9. Cardinality(commands) = Cardinality(Lost) + Cardinality(HandledCommands)
  <2>1. Cardinality(Lost \cup HandledCommands)
          = Cardinality(Lost) + Cardinality(HandledCommands) - Cardinality(Lost \cap HandledCommands)
    BY <1>7, FS_Union
  <2> QED
    BY <1>5, <1>8, <2>1
<1>10. Cardinality(Replied) = Cardinality(HandledCommands) + Cardinality(HandledRequests)
  <2>1. Cardinality(HandledCommands \cup HandledRequests)
          = Cardinality(HandledCommands) + Cardinality(HandledRequests)
              - Cardinality(HandledCommands \cap HandledRequests)
    BY <1>7, FS_Union
  <2>2. /\ Cardinality(HandledCommands \cup HandledRequests) = Cardinality(Replied)
        /\ Cardinality(HandledCommands \cap HandledRequests) = 0
    BY <1>6, <1>8
  <2> QED
    BY <1>8, <2>1, <2>2
<1> QED
  BY <1>3, <1>8, <1>9, <1>10

\* Closing at the end of the input drops a command only if the main thread went on with the
\* reply to a raw request in place of its own, and no more commands than there were of these.
THEOREM CommandsLostHadReplies == Spec => []LostCommandsHadReplies
<1>1. ClientInv /\ AskersAreTyped /\ [Next]_vars => AskersAreTyped'
  BY TypedMain, TypedOther DEF Next
<1>2. ClientInv /\ ClientInv' /\ Numbered /\ AskersAreTyped /\ Balance /\ [Next]_vars => Balance'
  BY ServerBalance, MainBalance, IoBalance DEF Next
<1>3. ClientInv /\ Balance => LostCommandsHadReplies
  BY BalanceBounds
<1> QED
  BY <1>1, <1>2, <1>3, TypedInit, BalanceInit, LinesAreNumbered, PTL DEF Spec

-----------------------------------------------------------------------------
(***************************************************************************)
(* The replies.  Each queue between the keyboard and read_wait holds a     *)
(* part of the replies the main thread asked for, the lines those they     *)
(* will bring, so that all parts together are always unread.               *)
(***************************************************************************)

\* A set of numbers that is not empty has a least one: with the n for which something does
\* not hold, this is induction.
LEMMA Least ==
    ASSUME NEW S \in SUBSET Nat, S # {}
    PROVE  \E n \in S : \A m \in S : n <= m
<1>1. PICK n \in S : \A m \in S : <<m, n>> \notin OpToRel(<, Nat)
  BY NatLessThanWellFounded, WFMin
<1>2. \A m \in S : ~(m < n)
  BY <1>1 DEF OpToRel
<1> QED
  BY <1>2

\* The function in FlattenSeq.
Flat(f, s, n) == f = [i \in 1 .. n |-> IF i = 1 THEN s[i] ELSE f[i - 1] \o s[i]]

LEMMA FlatExists ==
    ASSUME NEW s, NEW n \in Nat
    PROVE  \E f : Flat(f, s, n)
<1> DEFINE T == {m \in Nat : ~ \E f : Flat(f, s, m)}
<1>1. SUFFICES ASSUME T # {} PROVE FALSE
  OBVIOUS
<1>2. PICK m \in T : \A l \in T : m <= l
  BY <1>1, Least
<1>3. m \in Nat /\ ~ \E f : Flat(f, s, m)
  OBVIOUS
<1>4. CASE m = 0
  <2>1. Flat([i \in 1 .. 0 |-> 0], s, 0)
    BY DEF Flat
  <2> QED
    BY <1>3, <1>4, <2>1
<1>5. CASE m # 0
  <2>1. m - 1 \in Nat /\ m - 1 \notin T
    <3> HIDE DEF T
    <3> QED
      BY <1>2, <1>3, <1>5
  <2>2. PICK f : Flat(f, s, m - 1)
    BY <2>1
  <2> DEFINE g == [i \in 1 .. m |-> IF i = m THEN IF i = 1 THEN s[i] ELSE f[i - 1] \o s[i]
                                    ELSE f[i]]
  <2>3. \A i \in 1 .. m : i # 1 => g[i - 1] = f[i - 1]
    BY <1>3
  <2>4. \A i \in 1 .. m : g[i] = IF i = 1 THEN s[i] ELSE g[i - 1] \o s[i]
    <3> TAKE i \in 1 .. m
    <3>1. CASE i = m
      BY <2>3, <3>1
    <3>2. CASE i # m
      <4>1. i \in 1 .. m - 1
        BY <1>3, <3>2
      <4>2. f[i] = IF i = 1 THEN s[i] ELSE f[i - 1] \o s[i]
        BY <2>2, <4>1 DEF Flat
      <4> QED
        BY <2>3, <3>2, <4>2
    <3> QED
      BY <3>1, <3>2
  <2>5. g = [i \in 1 .. m |-> g[i]]
    OBVIOUS
  <2> HIDE DEF g
  <2>6. Flat(g, s, m)
    BY <2>4, <2>5 DEF Flat
  <2> QED
    BY <1>3, <2>6
<1> QED
  BY <1>4, <1>5

LEMMA FlatIs ==
    ASSUME NEW s, NEW n \in Nat, NEW f, Flat(f, s, n)
    PROVE  /\ n > 0 => f[1] = s[1]
           /\ \A i \in 2 .. n : f[i] = f[i - 1] \o s[i]
<1>1. \A i \in 1 .. n : f[i] = IF i = 1 THEN s[i] ELSE f[i - 1] \o s[i]
  BY DEF Flat
<1>2. \A i \in 2 .. n : i \in 1 .. n /\ i # 1
  OBVIOUS
<1>3. n > 0 => 1 \in 1 .. n
  OBVIOUS
<1> QED
  BY <1>1, <1>2, <1>3

LEMMA FlatType ==
    ASSUME NEW S, NEW s, NEW n \in Nat, \A i \in 1 .. n : s[i] \in Seq(S),
           NEW f, Flat(f, s, n), NEW k \in 1 .. n
    PROVE  f[k] \in Seq(S)
<1> DEFINE T == {i \in Nat : i \in 1 .. n /\ f[i] \notin Seq(S)}
<1>1. SUFFICES ASSUME T # {} PROVE FALSE
  OBVIOUS
<1>2. PICK i \in T : \A l \in T : i <= l
  BY <1>1, Least
<1>3. i \in 1 .. n /\ f[i] \notin Seq(S)
  OBVIOUS
<1>4. CASE i = 1
  <2>1. n > 0 /\ 1 \in 1 .. n
    BY <1>3
  <2>2. f[1] = s[1]
    BY <2>1, FlatIs
  <2>3. s[1] \in Seq(S)
    BY <2>1
  <2> QED
    BY <1>3, <1>4, <2>2, <2>3
<1>5. CASE i # 1
  <2>1. i - 1 \in Nat /\ i - 1 \in 1 .. n /\ i - 1 \notin T
    <3> HIDE DEF T
    <3> QED
      BY <1>2, <1>3, <1>5
  <2>2. f[i - 1] \in Seq(S)
    BY <2>1
  <2>3. f[i] = f[i - 1] \o s[i]
    <3>1. i \in 2 .. n
      BY <1>3, <1>5
    <3> QED
      BY <3>1, FlatIs
  <2> QED
    BY <1>3, <2>2, <2>3, ConcatProperties
<1> QED
  BY <1>4, <1>5

LEMMA FlattenIs ==
    ASSUME NEW s, Len(s) \in Nat
    PROVE  /\ Len(s) = 0 => FlattenSeq(s) = s
           /\ Len(s) # 0 => \E f : Flat(f, s, Len(s)) /\ FlattenSeq(s) = f[Len(s)]
<1> DEFINE The == CHOOSE f : Flat(f, s, Len(s))
<1>1. Flat(The, s, Len(s))
  BY FlatExists
<1>2. Len(s) # 0 => FlattenSeq(s) = The[Len(s)]
  BY DEF FlattenSeq, Flat
<1> HIDE DEF The
<1> QED
  BY <1>1, <1>2 DEF FlattenSeq

\* What comes behind is behind.
LEMMA FlattenAppend ==
    ASSUME NEW S, NEW s \in Seq(Seq(S)), NEW e \in Seq(S)
    PROVE  /\ FlattenSeq(<<>>) = <<>>
           /\ FlattenSeq(s) \in Seq(S)
           /\ FlattenSeq(Append(s, e)) = FlattenSeq(s) \o e
<1> DEFINE t == Append(s, e)
           n == Len(s)
<1>1. n \in Nat /\ Len(<<>>) = 0 /\ (n = 0 => s = <<>>)
  BY LenProperties, EmptySeq
<1>2. Len(t) = n + 1 /\ (\A i \in 1 .. n : t[i] = s[i]) /\ t[n + 1] = e
  BY AppendProperties
<1> HIDE DEF t
<1>3. FlattenSeq(<<>>) = <<>>
  BY <1>1, FlattenIs
<1>4. PICK g : Flat(g, t, n + 1) /\ FlattenSeq(t) = g[n + 1]
  <2>1. Len(t) \in Nat /\ Len(t) # 0
    BY <1>1, <1>2
  <2> QED
    BY <1>2, <2>1, FlattenIs
<1>5. CASE n = 0
  <2>1. g[1] = t[1] /\ n + 1 = 1
    <3>1. n + 1 \in Nat /\ n + 1 > 0 /\ n + 1 = 1
      BY <1>1, <1>5
    <3> HIDE DEF n
    <3>2. g[1] = t[1]
      BY <1>4, <3>1, FlatIs
    <3> QED
      BY <3>1, <3>2
  <2>2. FlattenSeq(t) = e /\ FlattenSeq(s) = <<>>
    BY <1>1, <1>2, <1>3, <1>4, <1>5, <2>1
  <2> QED
    BY <1>3, <2>2, ConcatEmptySeq, EmptySeq DEF t
<1>6. CASE n # 0
  <2>1. PICK f : Flat(f, s, n) /\ FlattenSeq(s) = f[n]
    BY <1>1, <1>6, FlattenIs
  <2>2. f[n] \in Seq(S)
    <3>1. \A i \in 1 .. n : s[i] \in Seq(S)
      BY ElementOfSeq
    <3>2. n \in 1 .. n
      BY <1>1, <1>6
    <3> HIDE DEF n
    <3> QED
      BY <1>1, <2>1, <3>1, <3>2, FlatType
  <2> DEFINE T == {i \in Nat : i \in 1 .. n /\ f[i] # g[i]}
  <2>3. T = {}
    <3>1. SUFFICES ASSUME T # {} PROVE FALSE
      OBVIOUS
    <3>2. PICK i \in T : \A l \in T : i <= l
      BY <3>1, Least
    <3>3. i \in 1 .. n /\ f[i] # g[i] /\ t[i] = s[i]
      BY <1>2
    <3> HIDE DEF n
    <3>4. n + 1 \in Nat /\ n > 0 /\ n + 1 > 0
      BY <1>1, <3>3
    <3>5. f[1] = s[1] /\ \A k \in 2 .. n : f[k] = f[k - 1] \o s[k]
      <4>1. n \in Nat /\ Flat(f, s, n)
        BY <1>1, <2>1
      <4> QED
        BY <3>4, <4>1, FlatIs
    <3>6. g[1] = t[1] /\ \A k \in 2 .. n + 1 : g[k] = g[k - 1] \o t[k]
      BY <1>4, <3>4, FlatIs
    <3>7. CASE i = 1
      BY <3>3, <3>5, <3>6, <3>7
    <3>8. CASE i # 1
      <4>1. i - 1 \in Nat /\ i - 1 \in 1 .. n /\ i - 1 \notin T
        <5> HIDE DEF T
        <5> QED
          BY <1>1, <3>2, <3>3, <3>8
      <4>2. f[i - 1] = g[i - 1]
        BY <4>1
      <4>3. i \in 2 .. n /\ i \in 2 .. n + 1
        BY <1>1, <3>3, <3>8
      <4> QED
        BY <3>3, <3>5, <3>6, <4>2, <4>3
    <3> QED
      BY <3>7, <3>8
  <2>4. g[n + 1] = g[n] \o t[n + 1]
    <3>1. n + 1 \in 2 .. n + 1 /\ (n + 1) - 1 = n /\ n + 1 \in Nat
      BY <1>1, <1>6
    <3>2. \A i \in 2 .. n + 1 : g[i] = g[i - 1] \o t[i]
      BY <1>4, <3>1, FlatIs
    <3> QED
      BY <3>1, <3>2
  <2> QED
    <3>1. f[n] = g[n]
      <4>1. n \in 1 .. n /\ n \in Nat
        BY <1>1, <1>6
      <4>2. n \notin T
        <5> HIDE DEF T
        <5> QED
          BY <2>3
      <4> HIDE DEF n
      <4> QED
        BY <4>1, <4>2
    <3> QED
      BY <1>2, <1>3, <1>4, <2>1, <2>2, <2>4, <3>1 DEF t
<1> QED
  BY <1>5, <1>6

\* What comes first is first.
LEMMA FlattenHead ==
    ASSUME NEW S, NEW s \in Seq(Seq(S)), s # <<>>
    PROVE  FlattenSeq(s) = Head(s) \o FlattenSeq(Tail(s))
<1> DEFINE t == Tail(s)
           n == Len(t)
<1>1. /\ Head(s) = s[1] /\ Head(s) \in Seq(S) /\ t \in Seq(Seq(S))
      /\ n \in Nat /\ Len(s) = n + 1 /\ \A i \in 1 .. n : t[i] = s[i + 1]
  <2>1. Len(s) \in Nat /\ Len(s) # 0
    BY EmptySeq, LenProperties
  <2>2. Head(s) \in Seq(S) /\ t \in Seq(Seq(S)) /\ Len(t) = Len(s) - 1
        /\ \A i \in 1 .. Len(t) : t[i] = s[i + 1]
    BY HeadTailProperties
  <2> HIDE DEF t
  <2> QED
    BY <2>1, <2>2
<1>2. PICK f : Flat(f, s, n + 1) /\ FlattenSeq(s) = f[n + 1]
  <2>1. Len(s) \in Nat /\ Len(s) # 0
    BY <1>1
  <2> HIDE DEF n
  <2> QED
    BY <1>1, <2>1, FlattenIs
<1> HIDE DEF t
<1>3. f[1] = Head(s) /\ \A i \in 1 .. n : f[i + 1] = f[i] \o t[i]
  <2>1. n + 1 \in Nat /\ n + 1 > 0
    BY <1>1
  <2>2. f[1] = s[1] /\ \A i \in 2 .. n + 1 : f[i] = f[i - 1] \o s[i]
    BY <1>2, <2>1, FlatIs, ZenonT(30)
  <2>3. ASSUME NEW i \in 1 .. n
        PROVE  f[i + 1] = f[i] \o t[i]
    <3>1. i + 1 \in 2 .. n + 1 /\ (i + 1) - 1 = i
      BY <1>1
    <3>2. f[i + 1] = f[(i + 1) - 1] \o s[i + 1]
      BY <2>2, <3>1
    <3> QED
      BY <1>1, <3>1, <3>2
  <2> QED
    BY <1>1, <2>2, <2>3
<1>4. CASE n = 0
  <2>1. t = <<>> /\ FlattenSeq(t) = <<>>
    <3>1. t = <<>>
      BY <1>1, <1>4, EmptySeq
    <3>2. <<>> \in Seq(S)
      BY EmptySeq
    <3> QED
      BY <1>1, <3>1, <3>2, FlattenAppend
  <2>2. FlattenSeq(s) = Head(s)
    BY <1>2, <1>3, <1>4
  <2> QED
    BY <1>1, <2>1, <2>2, ConcatEmptySeq DEF t
<1>5. CASE n # 0
  <2>1. PICK g : Flat(g, t, n) /\ FlattenSeq(t) = g[n]
    BY <1>1, <1>5, FlattenIs
  <2>2. \A i \in 1 .. n : t[i] \in Seq(S)
    BY <1>1, ElementOfSeq
  <2> HIDE DEF n
  <2>3. g[1] = t[1] /\ \A i \in 2 .. n : g[i] = g[i - 1] \o t[i]
    <3>1. n > 0
      BY <1>1, <1>5
    <3> QED
      BY <1>1, <2>1, <3>1, FlatIs, ZenonT(30)
  <2>4. \A i \in 1 .. n : g[i] \in Seq(S)
    BY <1>1, <2>1, <2>2, FlatType
  <2> DEFINE T == {i \in Nat : i \in 1 .. n /\ f[i + 1] # Head(s) \o g[i]}
  <2>5. T = {}
    <3>1. SUFFICES ASSUME T # {} PROVE FALSE
      OBVIOUS
    <3>2. PICK i \in T : \A l \in T : i <= l
      BY <3>1, Least
    <3>3. i \in 1 .. n /\ f[i + 1] # Head(s) \o g[i]
      OBVIOUS
    <3>4. CASE i = 1
      <4>1. f[1 + 1] = f[1] \o t[1] /\ g[1] = t[1]
        BY <1>3, <2>3, <3>3, <3>4
      <4> QED
        BY <1>3, <3>3, <3>4, <4>1
    <3>5. CASE i # 1
      <4>1. i - 1 \in Nat /\ i - 1 \in 1 .. n /\ i - 1 \notin T /\ (i - 1) + 1 = i
            /\ i \in 2 .. n
        <5> HIDE DEF T
        <5> QED
          BY <1>1, <3>2, <3>3, <3>5
      <4>2. f[i] = Head(s) \o g[i - 1]
        BY <4>1
      <4>3. f[i + 1] = f[i] \o t[i] /\ g[i] = g[i - 1] \o t[i]
        BY <1>3, <2>3, <3>3, <4>1
      <4>4. (Head(s) \o g[i - 1]) \o t[i] = Head(s) \o (g[i - 1] \o t[i])
        <5>1. g[i - 1] \in Seq(S) /\ t[i] \in Seq(S)
          BY <2>2, <2>4, <3>3, <4>1
        <5>2. ASSUME NEW a \in Seq(S), NEW b \in Seq(S), NEW c \in Seq(S)
              PROVE  (a \o b) \o c = a \o (b \o c)
          BY ConcatAssociative, SMTT(30)
        <5> QED
          BY <1>1, <5>1, <5>2, ZenonT(30)
      <4> QED
        BY <3>3, <4>2, <4>3, <4>4
    <3> QED
      BY <3>4, <3>5
  <2>6. f[n + 1] = Head(s) \o g[n]
    <3>1. n \in 1 .. n /\ n \in Nat
      BY <1>1, <1>5
    <3>2. n \notin T
      BY <2>5
    <3> QED
      BY <3>1, <3>2
  <2> QED
    BY <1>2, <2>1, <2>6 DEF t
<1> QED
  BY <1>4, <1>5


\* What the elements of s map to, one after the other.
Flattened(F, s) == FlattenSeq([i \in DOMAIN s |-> F[s[i]]])

LEMMA MappedIs ==
    ASSUME NEW A, NEW S, NEW F \in [A -> Seq(S)], NEW s \in Seq(A)
    PROVE  /\ [i \in DOMAIN s |-> F[s[i]]] \in Seq(Seq(S))
           /\ Len([i \in DOMAIN s |-> F[s[i]]]) = Len(s)
           /\ \A i \in 1 .. Len(s) : [j \in DOMAIN s |-> F[s[j]]][i] = F[s[i]]
<1>1. DOMAIN s = 1 .. Len(s) /\ Len(s) \in Nat
  BY LenProperties
<1>2. \A i \in 1 .. Len(s) : F[s[i]] \in Seq(S)
  BY ElementOfSeq
<1> DEFINE t == [i \in DOMAIN s |-> F[s[i]]]
<1>3. t \in [1 .. Len(s) -> Seq(S)]
  BY <1>1, <1>2
<1> QED
  BY <1>1, <1>3

LEMMA FlattenedGrows ==
    ASSUME NEW A, NEW S, NEW F \in [A -> Seq(S)]
    PROVE  /\ Flattened(F, <<>>) = <<>>
           /\ \A s \in Seq(A) :
                 /\ Flattened(F, s) \in Seq(S)
                 /\ \A a \in A : Flattened(F, Append(s, a)) = Flattened(F, s) \o F[a]
                 /\ s # <<>> => Flattened(F, s) = F[Head(s)] \o Flattened(F, Tail(s))
<1> DEFINE Map(s) == [i \in DOMAIN s |-> F[s[i]]]
<1>1. \A s \in Seq(A) : /\ Map(s) \in Seq(Seq(S)) /\ Len(Map(s)) = Len(s)
                        /\ \A i \in 1 .. Len(s) : Map(s)[i] = F[s[i]]
  BY MappedIs
<1>2. \A s : Flattened(F, s) = FlattenSeq(Map(s))
  BY DEF Flattened
<1> HIDE DEF Map
<1>3. \A t \in Seq(Seq(S)), e \in Seq(S) :
         /\ FlattenSeq(<<>>) = <<>>
         /\ FlattenSeq(t) \in Seq(S)
         /\ FlattenSeq(Append(t, e)) = FlattenSeq(t) \o e
  BY FlattenAppend
<1>4. <<>> \in Seq(A) /\ <<>> \in Seq(S) /\ <<>> \in Seq(Seq(S)) /\ Len(<<>>) = 0
  BY EmptySeq
<1>5. Map(<<>>) = <<>>
  BY <1>1, <1>4, EmptySeq
<1>6. Flattened(F, <<>>) = <<>>
  BY <1>2, <1>3, <1>4, <1>5
<1>7. ASSUME NEW s \in Seq(A)
      PROVE  Flattened(F, s) \in Seq(S)
  BY <1>1, <1>2, <1>3, <1>4
<1>8. ASSUME NEW s \in Seq(A), NEW a \in A
      PROVE  Flattened(F, Append(s, a)) = Flattened(F, s) \o F[a]
  <2> DEFINE t == Append(s, a)
             e == F[a]
             u == Append(Map(s), e)
  <2>1. t \in Seq(A) /\ Len(t) = Len(s) + 1 /\ Len(s) \in Nat
        /\ (\A i \in 1 .. Len(s) : t[i] = s[i]) /\ t[Len(s) + 1] = a
    BY AppendProperties, LenProperties
  <2>2. e \in Seq(S) /\ Map(s) \in Seq(Seq(S)) /\ Len(Map(s)) = Len(s)
    BY <1>1
  <2>3. u \in Seq(Seq(S)) /\ Len(u) = Len(s) + 1
        /\ (\A i \in 1 .. Len(s) : u[i] = Map(s)[i]) /\ u[Len(s) + 1] = e
    BY <2>2, AppendProperties
  <2>4. \A i \in 1 .. Len(s) : Map(s)[i] = F[s[i]]
    BY <1>1
  <2> HIDE DEF t, u
  <2>5. Map(t) \in Seq(Seq(S)) /\ Len(Map(t)) = Len(t)
        /\ \A i \in 1 .. Len(t) : Map(t)[i] = F[t[i]]
    BY <1>1, <2>1
  <2>6. Map(t) = u
    <3>1. ASSUME NEW i \in 1 .. Len(Map(t))
          PROVE  Map(t)[i] = u[i]
      <4>1. i \in 1 .. Len(s) \/ i = Len(s) + 1
        BY <2>1, <2>5
      <4>2. i \in 1 .. Len(t) /\ Map(t)[i] = F[t[i]]
        BY <2>5
      <4> QED
        BY <2>1, <2>3, <2>4, <4>1, <4>2
    <3> QED
      BY <2>1, <2>3, <2>5, <3>1, SeqEqual
  <2> QED
    BY <1>2, <1>3, <2>2, <2>6 DEF t, u
<1>9. ASSUME NEW s \in Seq(A), s # <<>>
      PROVE  Flattened(F, s) = F[Head(s)] \o Flattened(F, Tail(s))
  <2> DEFINE t == Tail(s)
             m == Map(s)
  <2>1. Len(s) \in Nat /\ Len(s) # 0 /\ Head(s) = s[1]
    BY <1>9, EmptySeq, LenProperties
  <2>2. t \in Seq(A) /\ Len(t) = Len(s) - 1 /\ \A i \in 1 .. Len(t) : t[i] = s[i + 1]
    BY <1>9, HeadTailProperties
  <2>3. m \in Seq(Seq(S)) /\ Len(m) = Len(s) /\ \A i \in 1 .. Len(s) : m[i] = F[s[i]]
    BY <1>1
  <2> HIDE DEF t, m
  <2>4. m # <<>> /\ Head(m) = F[Head(s)]
    <3>1. m # <<>>
      BY <1>4, <2>1, <2>3
    <3>2. Head(m) = m[1] /\ 1 \in 1 .. Len(s)
      BY <2>1, <2>3, <3>1
    <3> QED
      BY <2>1, <2>3, <3>1, <3>2
  <2>5. Tail(m) \in Seq(Seq(S)) /\ Len(Tail(m)) = Len(m) - 1
        /\ \A i \in 1 .. Len(Tail(m)) : Tail(m)[i] = m[i + 1]
    BY <2>3, <2>4, HeadTailProperties
  <2>6. Map(t) \in Seq(Seq(S)) /\ Len(Map(t)) = Len(t)
        /\ \A i \in 1 .. Len(t) : Map(t)[i] = F[t[i]]
    BY <1>1, <2>2
  <2>7. Map(t) = Tail(m)
    <3>1. Len(Map(t)) = Len(Tail(m)) /\ Len(t) \in Nat
      BY <2>1, <2>2, <2>3, <2>5, <2>6
    <3>2. ASSUME NEW i \in 1 .. Len(Map(t))
          PROVE  Map(t)[i] = Tail(m)[i]
      <4>1. i \in 1 .. Len(t) /\ i \in 1 .. Len(Tail(m)) /\ i + 1 \in 1 .. Len(s)
        BY <2>1, <2>2, <2>6, <3>1
      <4> QED
        BY <2>2, <2>3, <2>5, <2>6, <4>1
    <3> QED
      BY <2>5, <2>6, <3>1, <3>2, SeqEqual
  <2>8. FlattenSeq(m) = Head(m) \o FlattenSeq(Tail(m))
    BY <2>3, <2>4, FlattenHead
  <2> QED
    BY <1>2, <2>4, <2>7, <2>8 DEF t, m
<1> QED
  BY <1>6, <1>7, <1>8, <1>9

-----------------------------------------------------------------------------
\* The replies the functions of p will bring.
Posts == [f \in Function |-> IF f.op = "write" THEN Asked(f.line) ELSE <<>>]
AskedByFunctions(p) == Flattened(Posts, p)

LEMMA AskedType ==
    /\ \A l \in Line : Asked(l) \in Seq(Reply)
    /\ \A l \in Line : ~ l.asks => Asked(l) = <<>>
    /\ \A l \in Line : l.asks => Asked(l) = <<l.n>> /\ l.n \in Reply
<1>1. ASSUME NEW l \in Line
      PROVE  l.n \in Reply
  BY ClientAssumption DEF Line, Reply
<1>2. <<>> \in Seq(Reply)
  BY EmptySeq
<1>3. \A n \in Reply : <<n>> \in Seq(Reply)
  OBVIOUS
<1> QED
  BY <1>1, <1>2, <1>3 DEF Asked

LEMMA AskedByGrows ==
    /\ AskedBy(<<>>) = <<>>
    /\ \A s \in Seq(Line) :
          /\ AskedBy(s) \in Seq(Reply)
          /\ \A l \in Line : AskedBy(Append(s, l)) = AskedBy(s) \o Asked(l)
          /\ s # <<>> => AskedBy(s) = Asked(Head(s)) \o AskedBy(Tail(s))
<1> DEFINE F == [l \in Line |-> Asked(l)]
<1>1. F \in [Line -> Seq(Reply)] /\ \A l \in Line : F[l] = Asked(l)
  BY AskedType
<1>2. ASSUME NEW s \in Seq(Line)
      PROVE  AskedBy(s) = Flattened(F, s)
  <2>1. \A i \in DOMAIN s : s[i] \in Line
    BY ElementOfSeq, LenProperties
  <2>2. [i \in DOMAIN s |-> Asked(s[i])] = [i \in DOMAIN s |-> F[s[i]]]
    BY <1>1, <2>1
  <2> QED
    BY <2>2 DEF AskedBy, Flattened
<1> HIDE DEF F
<1>3. /\ Flattened(F, <<>>) = <<>>
      /\ \A s \in Seq(Line) :
            /\ Flattened(F, s) \in Seq(Reply)
            /\ \A l \in Line : Flattened(F, Append(s, l)) = Flattened(F, s) \o F[l]
            /\ s # <<>> => Flattened(F, s) = F[Head(s)] \o Flattened(F, Tail(s))
  BY <1>1, FlattenedGrows, ZenonT(30)
<1>4. <<>> \in Seq(Line)
  BY EmptySeq
<1>5. ASSUME NEW s \in Seq(Line), NEW l \in Line
      PROVE  AskedBy(Append(s, l)) = AskedBy(s) \o Asked(l)
  <2>1. Append(s, l) \in Seq(Line)
    BY AppendProperties
  <2> QED
    BY <1>1, <1>2, <1>3, <2>1
<1>6. ASSUME NEW s \in Seq(Line), s # <<>>
      PROVE  AskedBy(s) = Asked(Head(s)) \o AskedBy(Tail(s))
  <2>1. Head(s) \in Line /\ Tail(s) \in Seq(Line)
    BY <1>6, HeadTailProperties
  <2> QED
    BY <1>1, <1>2, <1>3, <1>6, <2>1
<1> QED
  BY <1>2, <1>3, <1>4, <1>5, <1>6

LEMMA PostsGrow ==
    /\ AskedByFunctions(<<>>) = <<>>
    /\ \A p \in Seq(Function) :
          /\ AskedByFunctions(p) \in Seq(Reply)
          /\ \A f \in Function : AskedByFunctions(Append(p, f)) = AskedByFunctions(p) \o Posts[f]
          /\ p # <<>> => AskedByFunctions(p) = Posts[Head(p)] \o AskedByFunctions(Tail(p))
<1>1. Posts \in [Function -> Seq(Reply)]
  <2>1. ASSUME NEW f \in Function, f.op = "write"
        PROVE  Asked(f.line) \in Seq(Reply)
    BY <2>1, AskedType DEF Function
  <2>2. <<>> \in Seq(Reply)
    BY EmptySeq
  <2> QED
    BY <2>1, <2>2 DEF Posts
<1> QED
  BY <1>1, FlattenedGrows, ZenonT(30) DEF AskedByFunctions

LEMMA PostedIs ==
    /\ posted \in Seq(Function) => AskedByPosted = AskedByFunctions(posted)
    /\ posted' \in Seq(Function) => AskedByPosted' = AskedByFunctions(posted')
<1>1. ASSUME NEW p \in Seq(Function)
      PROVE  [i \in DOMAIN p |-> IF p[i].op = "write" THEN Asked(p[i].line) ELSE <<>>]
             = [i \in DOMAIN p |-> Posts[p[i]]]
  <2>1. \A i \in DOMAIN p : p[i] \in Function
    BY ElementOfSeq, LenProperties
  <2> QED
    BY <2>1 DEF Posts
<1> QED
  BY <1>1 DEF AskedByPosted, AskedByFunctions, Flattened

LEMMA Associates ==
    ASSUME NEW S
    PROVE  \A p \in Seq(S), q \in Seq(S) :
              p \o q \in Seq(S) /\ \A r \in Seq(S) : (p \o q) \o r = p \o (q \o r)
<1>1. ASSUME NEW p \in Seq(S), NEW q \in Seq(S)
      PROVE  p \o q \in Seq(S)
  BY ConcatProperties
<1>2. ASSUME NEW p \in Seq(S), NEW q \in Seq(S), NEW r \in Seq(S)
      PROVE  (p \o q) \o r = p \o (q \o r)
  BY ConcatAssociative, SMTT(30)
<1> QED
  BY <1>1, <1>2

\* The same of sequences of replies.
LEMMA RepliesAssociate ==
    /\ \A p, q \in Seq(Reply) : p \o q \in Seq(Reply)
    /\ \A p, q, r \in Seq(Reply) : (p \o q) \o r = p \o (q \o r)
<1>1. \A p, q \in Seq(Reply) : p \o q \in Seq(Reply)
  BY ConcatProperties
<1>2. ASSUME NEW p \in Seq(Reply), NEW q \in Seq(Reply), NEW r \in Seq(Reply)
      PROVE  (p \o q) \o r = p \o (q \o r)
  BY ConcatAssociative, SMTT(30)
<1> QED
  BY <1>1, <1>2

LEMMA TailConcat ==
    ASSUME NEW S, NEW a \in Seq(S), NEW b \in Seq(S), a # <<>>
    PROVE  a \o b # <<>> /\ Tail(a \o b) = Tail(a) \o b
<1> DEFINE h == <<Head(a)>>
           t == Tail(a)
<1>1. h \in Seq(S) /\ t \in Seq(S) /\ a = h \o t
  BY HeadTailProperties
<1>2. a \o b = h \o (t \o b) /\ t \o b \in Seq(S)
  <2> HIDE DEF h, t
  <2> QED
    BY <1>1, Associates, SMTT(30)
<1> QED
  BY <1>2

\* u begins with p.
Starts(u, p) == \E rest \in Seq(Reply) : u = p \o rest

LEMMA StartsLess ==
    ASSUME NEW u, NEW p \in Seq(Reply), NEW q \in Seq(Reply), Starts(u, p \o q)
    PROVE  Starts(u, p)
<1>1. PICK r \in Seq(Reply) : u = (p \o q) \o r
  BY DEF Starts
<1>2. u = p \o (q \o r) /\ q \o r \in Seq(Reply)
  BY <1>1, RepliesAssociate
<1> QED
  BY <1>2 DEF Starts

LEMMA StartsTail ==
    ASSUME NEW u, NEW p \in Seq(Reply), Starts(u, p), p # <<>>
    PROVE  Starts(Tail(u), Tail(p))
BY TailConcat DEF Starts

LEMMA StartsSub ==
    ASSUME NEW u, NEW p \in Seq(Reply), Starts(u, p)
    PROVE  SubSeq(u, 1, Len(p)) = p
<1>1. PICK r \in Seq(Reply) : u = p \o r
  BY DEF Starts
<1>2. Len(p) \in Nat /\ Len(r) \in Nat
  BY LenProperties
<1>3. /\ u \in Seq(Reply) /\ Len(u) = Len(p) + Len(r)
      /\ \A i \in 1 .. Len(p) + Len(r) : u[i] = IF i <= Len(p) THEN p[i] ELSE r[i - Len(p)]
  BY <1>1, ConcatProperties
<1>4. \A i \in 1 .. Len(p) : u[i] = p[i] /\ u[i] \in Reply
  BY <1>2, <1>3, ElementOfSeq
<1>5. /\ SubSeq(u, 1, Len(p)) \in Seq(Reply)
      /\ Len(SubSeq(u, 1, Len(p))) = IF 1 <= Len(p) THEN Len(p) - 1 + 1 ELSE 0
      /\ \A i \in 1 .. Len(p) - 1 + 1 : SubSeq(u, 1, Len(p))[i] = u[1 + i - 1]
  BY <1>2, <1>4, SubSeqProperties
<1>6. Len(SubSeq(u, 1, Len(p))) = Len(p)
  BY <1>2, <1>5
<1>7. \A i \in 1 .. Len(p) : SubSeq(u, 1, Len(p))[i] = p[i]
  BY <1>2, <1>4, <1>5
<1> QED
  BY <1>5, <1>6, <1>7, SeqEqual

-----------------------------------------------------------------------------
Greeting == IF server = "served" THEN <<>> ELSE <<0>>

\* The replies that crossed the network, and all that the server has to do with.
Arrived == read_messages \o to_client
InFlight == Arrived \o due \o Greeting \o AskedBy(to_server)

\* The inductive invariant: with the connection up, the parts together are what the main
\* thread asked for.  When it is lost the first parts still are the beginning of it, and the
\* session goes on as long as the server does not notice.
PairInv ==
    /\ Connected => Coming = unread
    /\ Starts(unread, IF server = "none" THEN Arrived ELSE InFlight)
    /\ server = "none" => due = <<>>
    /\ socket = "connecting" => to_client = <<>>

LEMMA Parts ==
    ASSUME ClientInv
    PROVE  /\ read_messages \in Seq(Reply) /\ to_client \in Seq(Reply) /\ due \in Seq(Reply)
           /\ Greeting \in Seq(Reply) /\ Arrived \in Seq(Reply)
           /\ AskedBy(to_server) \in Seq(Reply) /\ AskedBy(Unsent) \in Seq(Reply)
           /\ AskedByPosted = AskedByFunctions(posted) /\ AskedByPosted \in Seq(Reply)
           /\ InFlight \in Seq(Reply)
           /\ Coming = (InFlight \o AskedBy(Unsent)) \o AskedByPosted
           /\ unread \in Seq(Reply)
<1>1. /\ read_messages \in Seq(Reply) /\ to_client \in Seq(Reply) /\ due \in Seq(Reply)
      /\ unread \in Seq(Reply)
  BY DEF ClientInv, ClientTypeOK
<1>2. Greeting \in Seq(Reply)
  <2>1. 0 \in Reply
    BY ClientAssumption DEF Reply
  <2> QED
    BY <2>1 DEF Greeting
<1>3. AskedBy(to_server) \in Seq(Reply) /\ AskedBy(Unsent) \in Seq(Reply)
  BY Counted, AskedByGrows
<1>4. AskedByPosted = AskedByFunctions(posted) /\ AskedByPosted \in Seq(Reply)
  BY Counted, PostedIs, PostsGrow
<1>5. Arrived \in Seq(Reply)
  BY <1>1, RepliesAssociate DEF Arrived
<1>6. Arrived \o due \in Seq(Reply)
  BY <1>1, <1>5, RepliesAssociate
<1>7. Arrived \o due \o Greeting \in Seq(Reply)
  BY <1>2, <1>6, RepliesAssociate
<1>8. InFlight \in Seq(Reply)
  BY <1>3, <1>7, RepliesAssociate DEF InFlight
<1>9. Coming = (InFlight \o AskedBy(Unsent)) \o AskedByPosted
  BY DEF Coming, InFlight, Arrived, Greeting
<1> QED
  BY <1>1, <1>2, <1>3, <1>4, <1>5, <1>8, <1>9

LEMMA PairInit == Init => PairInv
<1>1. SUFFICES ASSUME Init PROVE PairInv
  OBVIOUS
<1> DEFINE g == <<0>>
<1>2. <<>> \in Seq(Reply) /\ g \in Seq(Reply)
  <2>1. 0 \in Reply
    BY ClientAssumption DEF Reply
  <2> QED
    BY <2>1
<1>3. <<>> \in Seq(Function)
  BY EmptySeq
<1>4. AskedBy(<<>>) = <<>> /\ AskedByFunctions(<<>>) = <<>>
  BY AskedByGrows, PostsGrow
<1>5. /\ read_messages = <<>> /\ to_client = <<>> /\ due = <<>> /\ server = "none"
      /\ to_server = <<>> /\ Unsent = <<>> /\ posted = <<>> /\ unread = g
  BY <1>1 DEF Init, session!Init, Unsent
<1>6. Arrived = <<>> /\ Greeting = g /\ AskedByPosted = <<>>
  BY <1>2, <1>3, <1>4, <1>5, PostedIs, ConcatEmptySeq DEF Arrived, Greeting
<1> HIDE DEF g
<1>7. InFlight = g
  BY <1>2, <1>4, <1>5, <1>6, ConcatEmptySeq DEF InFlight
<1>8. Coming = (InFlight \o AskedBy(Unsent)) \o AskedByPosted
  BY DEF Coming, InFlight, Arrived, Greeting
<1>9. Coming = unread
  BY <1>2, <1>4, <1>5, <1>6, <1>7, <1>8, ConcatEmptySeq
<1>10. Starts(unread, Arrived)
  BY <1>2, <1>5, <1>6, ConcatEmptySeq DEF Starts
<1> QED
  BY <1>5, <1>9, <1>10 DEF PairInv

\* Steps that touch no part as long as the connection is there.
LEMMA QuietPair ==
    ASSUME PairInv, UNCHANGED <<read_messages, to_client, due, to_server, server, unread>>,
           socket' = "connecting" => socket = "connecting",
           Connected' => Connected /\ Unsent' = Unsent /\ posted' = posted
    PROVE  PairInv'
<1>1. Arrived' = Arrived /\ Greeting' = Greeting /\ InFlight' = InFlight
  BY DEF Arrived, Greeting, InFlight
<1>2. Connected' => Coming' = Coming
  BY DEF Coming, AskedByPosted
<1> QED
  BY <1>1, <1>2 DEF PairInv

\* Steps that move a reply, or turn a line into one, within the session.
LEMMA SessionPair ==
    ASSUME ClientInv, PairInv, socket # "connecting",
           UNCHANGED <<unread, posted, socket, writing, write_msgs>>,
           server' = "none" <=> server = "none",
           server = "none" => Arrived' = Arrived /\ due' = due, InFlight' = InFlight
    PROVE  PairInv'
<1>1. Unsent' = Unsent /\ AskedByPosted' = AskedByPosted /\ (Connected' <=> Connected)
  BY DEF Unsent, AskedByPosted, Connected
<1>2. Coming' = Coming
  BY <1>1 DEF Coming, InFlight, Arrived, Greeting
<1> QED
  BY <1>1, <1>2 DEF PairInv


\* A typed line: the reply it asks for is the last of all.
LEMMA TypedPair ==
    ASSUME ClientInv, ClientInv', PairInv, NEW asks \in BOOLEAN,
           send_raw(asks) \/ (send_request /\ asks = TRUE)
    PROVE  PairInv'
<1> DEFINE l == NextLine(asks)
           f == [op |-> "write", line |-> l]
           x == Asked(l)
<1>1. /\ posted' = Append(posted, f) /\ lines < MaxLines
      /\ UNCHANGED <<ioVars, wire, read_messages>>
      /\ unread' = IF asks THEN Append(unread, lines + 1) ELSE unread
  BY DEF send_raw, send_request, write, Post
<1>2. l \in Line /\ l.n = lines + 1 /\ l.asks = asks
  BY <1>1, Counted, ClientAssumption DEF NextLine, Line
<1>3. f \in Function /\ f.op = "write" /\ f.line = l
  BY <1>2 DEF Function
<1>4. Posts[f] = x
  BY <1>3 DEF Posts
<1>5. x \in Seq(Reply) /\ unread' = unread \o x
  <2>1. x \in Seq(Reply) /\ IF asks THEN x = <<lines + 1>> /\ lines + 1 \in Reply ELSE x = <<>>
    BY <1>2, AskedType
  <2> HIDE DEF x
  <2>2. Append(unread, lines + 1) = unread \o <<lines + 1>> \/ ~ asks
    BY <2>1, Parts, AppendIsConcat
  <2>3. unread \o <<>> = unread
    BY Parts, ConcatEmptySeq
  <2> QED
    BY <1>1, <2>1, <2>2, <2>3
<1> HIDE DEF l, f, x
<1>6. /\ Arrived' = Arrived /\ Greeting' = Greeting /\ InFlight' = InFlight
      /\ Unsent' = Unsent /\ (Connected' <=> Connected)
  BY <1>1 DEF ioVars, wire, Arrived, Greeting, InFlight, Unsent, Connected
<1>7. AskedByPosted' = AskedByPosted \o x
  <2>1. posted' \in Seq(Function)
    BY <1>1, <1>3, Counted, AppendProperties
  <2>2. AskedByFunctions(posted') = AskedByFunctions(posted) \o x
    BY <1>1, <1>3, <1>4, Counted, PostsGrow
  <2> QED
    BY <2>1, <2>2, Parts, PostedIs
<1>8. Coming' = Coming \o x
  <2>1. Coming' = (InFlight' \o AskedBy(Unsent)') \o AskedByPosted'
    BY DEF Coming, InFlight, Arrived, Greeting
  <2>2. AskedBy(Unsent)' = AskedBy(Unsent)
    BY <1>6
  <2>3. InFlight \o AskedBy(Unsent) \in Seq(Reply)
    BY Parts, RepliesAssociate
  <2>4. (InFlight \o AskedBy(Unsent)) \o (AskedByPosted \o x)
        = ((InFlight \o AskedBy(Unsent)) \o AskedByPosted) \o x
    <3> DEFINE m == InFlight \o AskedBy(Unsent)
               a == AskedByPosted
    <3>1. m \in Seq(Reply) /\ a \in Seq(Reply)
      BY <2>3, Parts
    <3> HIDE DEF m, a
    <3>2. m \o (a \o x) = (m \o a) \o x
      BY <1>5, <3>1, RepliesAssociate
    <3> QED
      BY <3>2 DEF m, a
  <2> QED
    BY <1>6, <1>7, <2>1, <2>2, <2>4, Parts
<1>9. ASSUME NEW p \in Seq(Reply), Starts(unread, p)
      PROVE  Starts(unread', p)
  <2>1. PICK r \in Seq(Reply) : unread = p \o r
    BY <1>9 DEF Starts
  <2>2. unread' = p \o (r \o x) /\ r \o x \in Seq(Reply)
    BY <1>5, <2>1, RepliesAssociate
  <2> QED
    BY <2>2 DEF Starts
<1> QED
  BY <1>1, <1>5, <1>6, <1>8, <1>9, Parts DEF PairInv, ioVars, wire

\* A posted function that is run: its line is the last of those not sent.
LEMMA RunPair ==
    ASSUME ClientInv, ClientInv', PairInv, run_posted_write
    PROVE  PairInv'
<1> DEFINE l == Head(posted).line
           x == Asked(l)
<1>1. /\ posted # <<>> /\ Head(posted).op = "write" /\ posted' = Tail(posted)
      /\ UNCHANGED <<unread, read_messages, socket, wire>>
  BY DEF run_posted_write, mainVars
<1>2. /\ Arrived' = Arrived /\ Greeting' = Greeting /\ InFlight' = InFlight
      /\ (Connected' <=> Connected)
  BY <1>1 DEF wire, Arrived, Greeting, InFlight, Connected
<1>3. ASSUME Connected
      PROVE  Coming' = Coming
  <2>1. l \in Line /\ Unsent' = Append(Unsent, l)
    BY <1>3, RunUnsent
  <2>2. AskedBy(Unsent)' = AskedBy(Unsent) \o x
    BY <2>1, Counted, AskedByGrows
  <2>3. Head(posted) \in Function /\ Tail(posted) \in Seq(Function)
    BY <1>1, Counted, HeadTailProperties
  <2>4. Posts[Head(posted)] = x
    BY <1>1, <2>3 DEF Posts
  <2>5. AskedByPosted = x \o AskedByPosted'
    <3>1. AskedByFunctions(posted) = x \o AskedByFunctions(Tail(posted))
      BY <1>1, <2>4, Counted, PostsGrow
    <3> QED
      BY <1>1, <2>3, <3>1, Parts, PostedIs
  <2>6. x \in Seq(Reply)
    BY <2>1, AskedType
  <2>7. AskedByPosted' \in Seq(Reply)
    BY <1>1, <2>3, PostedIs, PostsGrow
  <2> HIDE DEF l, x
  <2>8. (InFlight \o (AskedBy(Unsent) \o x)) \o AskedByPosted'
        = (InFlight \o AskedBy(Unsent)) \o (x \o AskedByPosted')
    <3> DEFINE a == InFlight
               b == AskedBy(Unsent)
               c == AskedByPosted'
    <3>1. a \in Seq(Reply) /\ b \in Seq(Reply) /\ c \in Seq(Reply)
      BY <2>7, Parts
    <3> HIDE DEF a, b, c
    <3>2. \A p \in Seq(Reply), q \in Seq(Reply) :
             p \o q \in Seq(Reply) /\ \A r \in Seq(Reply) : (p \o q) \o r = p \o (q \o r)
      BY RepliesAssociate
    <3>3. a \o b \in Seq(Reply) /\ a \o (b \o x) = (a \o b) \o x
      <4>1. a \o b \in Seq(Reply)
        BY <3>1, <3>2
      <4>2. \A r \in Seq(Reply) : (a \o b) \o r = a \o (b \o r)
        BY <3>1, <3>2
      <4> QED
        BY <2>6, <4>1, <4>2
    <3>4. ((a \o b) \o x) \o c = (a \o b) \o (x \o c)
      BY <2>6, <3>1, <3>2, <3>3
    <3> QED
      BY <3>3, <3>4 DEF a, b, c
  <2>9. Coming' = (InFlight' \o AskedBy(Unsent)') \o AskedByPosted'
    BY DEF Coming, InFlight, Arrived, Greeting
  <2> QED
    BY <1>2, <2>2, <2>5, <2>8, <2>9, Parts
<1> QED
  BY <1>1, <1>2, <1>3 DEF PairInv, wire

\* A line that is sent: the server's last one.
LEMMA SentPair ==
    ASSUME ClientInv, Numbered, PairInv, write_sent
    PROVE  PairInv'
<1>1. /\ socket = "open" /\ writing # <<>> /\ write_msgs # <<>>
      /\ UNCHANGED <<unread, read_messages, socket, write_msgs, posted>>
  BY DEF write_sent, mainVars, ClientInv, WriteUnderWay
<1>2. CASE server = "none"
  <2>1. UNCHANGED wire
    BY <1>2 DEF write_sent
  <2>2. ~ Connected'
    BY <1>1, <1>2, <2>1 DEF wire, Connected
  <2> QED
    BY <1>1, <2>1, <2>2, QuietPair DEF wire
<1>3. CASE server # "none"
  <2> DEFINE l == Head(write_msgs)
             x == Asked(l)
             p == Arrived \o due \o Greeting
  <2>1. /\ Connected /\ Connected' /\ UNCHANGED <<server, due, to_client>>
        /\ to_server' = Append(to_server, l)
    BY <1>1, <1>3 DEF write_sent, session!Send, Connected
  <2>2. Unsent = write_msgs /\ Unsent' = Tail(write_msgs)
    BY SentUnsent
  <2>3. l \in Line /\ Tail(write_msgs) \in Seq(Line) /\ write_msgs \in Seq(Line)
    BY <1>1, <2>2, Counted, HeadTailProperties
  <2>4. x \in Seq(Reply)
    BY <2>3, AskedType
  <2>5. AskedBy(Unsent) = x \o AskedBy(Unsent)' /\ AskedBy(Unsent)' \in Seq(Reply)
    BY <1>1, <2>2, <2>3, AskedByGrows
  <2>6. AskedBy(to_server') = AskedBy(to_server) \o x
    BY <2>1, <2>3, Counted, AskedByGrows
  <2>7. p \in Seq(Reply) /\ InFlight = p \o AskedBy(to_server)
    <3>1. Arrived \o due \in Seq(Reply)
      BY Parts, RepliesAssociate
    <3> QED
      BY <3>1, Parts, RepliesAssociate DEF InFlight
  <2>8. InFlight' = p \o (AskedBy(to_server) \o x)
    BY <1>1, <2>1, <2>6 DEF InFlight, Arrived, Greeting
  <2>9. AskedByPosted' = AskedByPosted
    BY <1>1 DEF AskedByPosted
  <2>10. Coming' = (InFlight' \o AskedBy(Unsent)') \o AskedByPosted'
    BY DEF Coming, InFlight, Arrived, Greeting
  <2> HIDE DEF l, x, p
  <2>11. InFlight' \o AskedBy(Unsent)' = InFlight \o AskedBy(Unsent)
    <3> DEFINE b == AskedBy(to_server)
               c == AskedBy(Unsent)'
    <3>1. b \in Seq(Reply) /\ c \in Seq(Reply)
      BY <2>5, Parts
    <3> HIDE DEF b, c
    <3>2. p \o b \in Seq(Reply) /\ p \o (b \o x) = (p \o b) \o x
      BY <2>4, <2>7, <3>1, RepliesAssociate
    <3>3. ((p \o b) \o x) \o c = (p \o b) \o (x \o c)
      BY <2>4, <3>1, <3>2, RepliesAssociate
    <3> QED
      BY <2>5, <2>7, <2>8, <3>2, <3>3 DEF b, c
  <2>12. Coming' = unread' /\ unread' = unread
    BY <1>1, <2>1, <2>9, <2>10, <2>11, Parts DEF PairInv
  <2>13. InFlight' \in Seq(Reply) /\ AskedBy(to_server) \o x \in Seq(Reply)
    BY <2>4, <2>7, <2>8, Parts, RepliesAssociate
  <2>14. Starts(unread', InFlight')
    <3>1. unread' = InFlight' \o (AskedBy(Unsent)' \o AskedByPosted)
          /\ AskedBy(Unsent)' \o AskedByPosted \in Seq(Reply)
      <4> DEFINE a == InFlight'
                 b == AskedBy(Unsent)'
                 c == AskedByPosted
      <4>1. a \in Seq(Reply) /\ b \in Seq(Reply) /\ c \in Seq(Reply)
        BY <2>5, <2>13, Parts
      <4>2. unread' = (a \o b) \o c
        BY <2>9, <2>10, <2>12
      <4> HIDE DEF a, b, c
      <4>3. (a \o b) \o c = a \o (b \o c) /\ b \o c \in Seq(Reply)
        BY <4>1, RepliesAssociate
      <4> QED
        BY <4>2, <4>3 DEF a, b, c
    <3> QED
      BY <3>1 DEF Starts
  <2>15. server' # "none" /\ socket' # "connecting"
    BY <1>1, <1>3, <2>1
  <2> QED
    BY <2>12, <2>14, <2>15 DEF PairInv
<1> QED
  BY <1>2, <1>3


\* What the server does within the session: it turns the first line into its reply, greets,
\* or sends a reply.
LEMMA ServedPair ==
    ASSUME ClientInv, Numbered, PairInv,
           server_handles \/ (server_steps /\ ~ session!End)
    PROVE  PairInv'
<1>1. /\ UNCHANGED <<unread, read_messages, posted, socket, writing, write_msgs>>
      /\ server # "none" /\ server' # "none"
  BY DEF server_handles, server_steps, session!Answer, session!Ignore, session!Accept,
         session!Deliver, mainVars, ioVars, PairInv
<1>2. server = "none" \/ socket # "connecting"
  BY DEF Numbered
<1>3. socket # "connecting"
  BY <1>1, <1>2
<1> DEFINE AS == AskedBy(to_server)
<1>4. /\ read_messages \in Seq(Reply) /\ to_client \in Seq(Reply) /\ due \in Seq(Reply)
      /\ Arrived \in Seq(Reply) /\ AS \in Seq(Reply) /\ <<>> \in Seq(Reply)
  BY Parts, EmptySeq
<1>a. \A p \in Seq(Reply), q \in Seq(Reply) :
         /\ p \o q \in Seq(Reply) /\ p \o <<>> = p
         /\ \A r \in Seq(Reply) : (p \o q) \o r = p \o (q \o r)
  BY RepliesAssociate, ConcatEmptySeq
<1>5. CASE server_handles
  <2> DEFINE l == Head(to_server)
             x == Asked(l)
  <2>1. /\ server = "served" /\ server' = server /\ to_server # <<>>
        /\ to_server' = Tail(to_server) /\ UNCHANGED to_client
        /\ due' = IF l \in {m \in Line : m.asks} THEN Append(due, l.n) ELSE due
    BY <1>5 DEF server_handles, session!Answer, session!Ignore, replyTo
  <2>2. l \in Line /\ Tail(to_server) \in Seq(Line)
    BY <2>1, Counted, HeadTailProperties
  <2>3. x \in Seq(Reply) /\ due' = due \o x
    <3>1. l.asks => x = <<l.n>> /\ l.n \in Reply
      BY <2>2, AskedType
    <3>2. l.asks \in BOOLEAN /\ (~ l.asks => x = <<>>)
      BY <2>2, AskedType DEF Line
    <3>3. x \in Seq(Reply)
      BY <2>2, AskedType
    <3>4. l \in {m \in Line : m.asks} <=> l.asks
      BY <2>2
    <3> HIDE DEF l, x
    <3>5. CASE l.asks
      <4>1. Append(due, l.n) = due \o <<l.n>>
        BY <1>4, <3>1, <3>5, AppendIsConcat
      <4> QED
        BY <2>1, <3>1, <3>3, <3>4, <3>5, <4>1
    <3>6. CASE ~ l.asks
      BY <1>4, <1>a, <2>1, <3>2, <3>3, <3>4, <3>6
    <3> QED
      BY <3>5, <3>6
  <2>4. AS = x \o AskedBy(to_server') /\ AskedBy(to_server') \in Seq(Reply)
    BY <2>1, <2>2, Counted, AskedByGrows
  <2>5. /\ InFlight = ((Arrived \o due) \o <<>>) \o AS
        /\ InFlight' = ((Arrived \o due') \o <<>>) \o AskedBy(to_server')
    BY <1>1, <2>1 DEF InFlight, Arrived, Greeting
  <2> DEFINE B == AskedBy(to_server')
  <2>6. B \in Seq(Reply) /\ AS = x \o B /\ InFlight' = ((Arrived \o due') \o <<>>) \o B
    BY <2>4, <2>5
  <2> HIDE DEF l, x, AS, B
  <2>7. /\ Arrived \o due \in Seq(Reply) /\ Arrived \o (due \o x) = (Arrived \o due) \o x
        /\ due \o x \in Seq(Reply)
    <3>1. Arrived \o due \in Seq(Reply) /\ due \o x \in Seq(Reply)
      BY <1>4, <1>a, <2>3
    <3>2. \A r \in Seq(Reply) : (Arrived \o due) \o r = Arrived \o (due \o r)
      BY <1>4, <1>a
    <3> QED
      BY <2>3, <3>1, <3>2
  <2>8. ((Arrived \o due) \o x) \o B = (Arrived \o due) \o (x \o B)
    <3> DEFINE p == Arrived \o due
    <3>1. p \in Seq(Reply)
      BY <2>7
    <3> HIDE DEF p
    <3>2. \A r \in Seq(Reply) : (p \o x) \o r = p \o (x \o r)
      BY <1>a, <2>3, <3>1
    <3> QED
      BY <2>6, <3>2 DEF p
  <2>9. InFlight = (Arrived \o due) \o (x \o B)
    BY <1>a, <2>5, <2>6, <2>7
  <2>10. InFlight' = (Arrived \o (due \o x)) \o B
    <3>1. Arrived \o (due \o x) \in Seq(Reply)
      BY <1>4, <1>a, <2>7
    <3>2. (Arrived \o (due \o x)) \o <<>> = Arrived \o (due \o x)
      BY <1>4, <1>a, <3>1
    <3> QED
      BY <2>3, <2>6, <3>2
  <2>11. InFlight' = InFlight
    BY <2>7, <2>8, <2>9, <2>10
  <2> QED
    BY <1>1, <1>3, <2>11, SessionPair
<1>6. ASSUME server_steps, session!Accept
      PROVE  PairInv'
  <2> DEFINE g == <<0>>
  <2>1. /\ server = "queued" /\ server' = "served" /\ due' = Append(due, 0)
        /\ UNCHANGED <<to_client, to_server>>
    BY <1>6 DEF session!Accept
  <2>2. g \in Seq(Reply) /\ due' = due \o g
    <3>1. 0 \in Reply
      BY ClientAssumption DEF Reply
    <3> QED
      BY <1>4, <2>1, <3>1, AppendIsConcat
  <2>3. /\ InFlight = ((Arrived \o due) \o g) \o AS
        /\ InFlight' = ((Arrived \o due') \o <<>>) \o AS
    BY <1>1, <2>1 DEF InFlight, Arrived, Greeting
  <2> HIDE DEF g, AS
  <2>4. (Arrived \o due) \o g = Arrived \o (due \o g)
    <3>1. \A r \in Seq(Reply) : (Arrived \o due) \o r = Arrived \o (due \o r)
      BY <1>4, <1>a
    <3> QED
      BY <2>2, <3>1
  <2>5. (Arrived \o (due \o g)) \o <<>> = Arrived \o (due \o g)
    <3>1. due \o g \in Seq(Reply)
      BY <1>4, <1>a, <2>2
    <3>2. Arrived \o (due \o g) \in Seq(Reply)
      BY <1>4, <1>a, <3>1
    <3> QED
      BY <1>4, <1>a, <3>2
  <2>6. InFlight' = InFlight
    BY <2>2, <2>3, <2>4, <2>5
  <2> QED
    BY <1>1, <1>3, <2>6, SessionPair
<1>7. ASSUME server_steps, session!Deliver
      PROVE  PairInv'
  <2> DEFINE x == <<Head(due)>>
             t == Tail(due)
  <2>1. /\ due # <<>> /\ due' = t /\ to_client' = Append(to_client, Head(due))
        /\ UNCHANGED <<server, to_server>>
    BY <1>7 DEF session!Deliver
  <2>2. x \in Seq(Reply) /\ t \in Seq(Reply) /\ due = x \o t /\ Head(due) \in Reply
    BY <1>4, <2>1, HeadTailProperties
  <2>3. to_client' = to_client \o x
    BY <1>4, <2>1, <2>2, AppendIsConcat
  <2>4. /\ InFlight = (((read_messages \o to_client) \o due) \o Greeting) \o AS
        /\ InFlight' = (((read_messages \o to_client') \o t) \o Greeting) \o AS
    BY <1>1, <2>1 DEF InFlight, Arrived, Greeting
  <2> HIDE DEF x, t, AS
  <2>5. /\ read_messages \o to_client \in Seq(Reply)
        /\ (read_messages \o to_client) \o x = read_messages \o (to_client \o x)
    <3>1. \A r \in Seq(Reply) :
             (read_messages \o to_client) \o r = read_messages \o (to_client \o r)
      BY <1>4, <1>a
    <3> QED
      BY <1>4, <1>a, <2>2, <3>1
  <2>6. ((read_messages \o to_client) \o x) \o t = (read_messages \o to_client) \o (x \o t)
    <3> DEFINE p == read_messages \o to_client
    <3>1. p \in Seq(Reply)
      BY <2>5
    <3> HIDE DEF p
    <3>2. \A r \in Seq(Reply) : (p \o x) \o r = p \o (x \o r)
      BY <1>a, <2>2, <3>1
    <3> QED
      BY <2>2, <3>2 DEF p
  <2>7. InFlight' = InFlight
    BY <2>2, <2>3, <2>4, <2>5, <2>6
  <2> QED
    BY <1>1, <1>3, <2>7, SessionPair
<1> QED
  BY <1>5, <1>6, <1>7 DEF server_steps

\* A reply that is read leaves the network for read_messages_.
LEMMA BodyPair ==
    ASSUME ClientInv, PairInv, read_body
    PROVE  PairInv'
<1> DEFINE x == <<Head(to_client)>>
           t == Tail(to_client)
<1>1. /\ to_client # <<>> /\ to_client' = t
      /\ read_messages' = Append(read_messages, Head(to_client))
      /\ UNCHANGED <<server, to_server, due, unread, posted, socket, writing, write_msgs>>
  BY DEF read_body, session!Receive, mainVars
<1>2. to_client \in Seq(Reply) /\ read_messages \in Seq(Reply)
  BY Parts
<1>3. x \in Seq(Reply) /\ t \in Seq(Reply) /\ to_client = x \o t /\ Head(to_client) \in Reply
  BY <1>1, <1>2, HeadTailProperties
<1>4. read_messages' = read_messages \o x
  BY <1>1, <1>2, <1>3, AppendIsConcat
<1> HIDE DEF x, t
<1>5. (read_messages \o x) \o t = read_messages \o (x \o t)
  <2>1. \A r \in Seq(Reply) : (read_messages \o x) \o r = read_messages \o (x \o r)
    <3>1. read_messages \in Seq(Reply) /\ x \in Seq(Reply)
      BY <1>2, <1>3
    <3> QED
      BY <3>1, RepliesAssociate
  <2> QED
    BY <1>3, <2>1
<1>6. Arrived' = Arrived /\ due' = due
  BY <1>1, <1>3, <1>4, <1>5 DEF Arrived
<1>7. InFlight' = InFlight
  BY <1>1, <1>6 DEF InFlight, Greeting
<1>8. socket # "connecting"
  BY <1>1 DEF PairInv
<1> QED
  BY <1>1, <1>6, <1>7, <1>8, SessionPair

\* The main thread takes the first of all.
LEMMA WaitPair ==
    ASSUME ClientInv, PairInv, read_wait
    PROVE  PairInv'
<1>1. /\ read_messages # <<>> /\ read_messages' = Tail(read_messages)
      /\ unread' = SubSeq(unread, 2, Len(unread))
      /\ UNCHANGED <<server, to_server, to_client, due, posted, socket, writing, write_msgs>>
  BY DEF read_wait, ioVars, wire
<1>2. \A p \in Seq(Reply), q \in Seq(Reply) :
         p # <<>> => p \o q \in Seq(Reply) /\ p \o q # <<>> /\ Tail(p \o q) = Tail(p) \o q
  BY TailConcat, RepliesAssociate
<1>3. Arrived # <<>> /\ Arrived' = Tail(Arrived)
  BY <1>1, <1>2, Parts DEF Arrived
<1>4. InFlight # <<>> /\ InFlight' = Tail(InFlight)
  <2> DEFINE G == Greeting
             A == AskedBy(to_server)
             p == Arrived \o due
             q == p \o G
  <2>1. p \in Seq(Reply) /\ p # <<>> /\ Tail(p) = Tail(Arrived) \o due
    BY <1>2, <1>3, Parts
  <2>2. G \in Seq(Reply) /\ A \in Seq(Reply)
    BY Parts
  <2> HIDE DEF p
  <2>3. q \in Seq(Reply) /\ q # <<>> /\ Tail(q) = Tail(p) \o G
    BY <1>2, <2>1, <2>2
  <2> HIDE DEF q
  <2>4. q \o A # <<>> /\ Tail(q \o A) = Tail(q) \o A
    BY <1>2, <2>2, <2>3
  <2>5. InFlight = q \o A
    BY DEF InFlight, q, p
  <2>6. InFlight' = ((Arrived' \o due) \o G) \o A
    BY <1>1 DEF InFlight, Greeting
  <2> QED
    BY <1>3, <2>1, <2>3, <2>4, <2>5, <2>6
<1>5. Unsent' = Unsent /\ AskedByPosted' = AskedByPosted /\ (Connected' <=> Connected)
  BY <1>1 DEF Unsent, AskedByPosted, Connected
<1>6. Coming # <<>> /\ Coming' = Tail(Coming)
  <2> DEFINE U == AskedBy(Unsent)
             P == AskedByPosted
             q == InFlight \o U
  <2>1. U \in Seq(Reply) /\ P \in Seq(Reply) /\ InFlight \in Seq(Reply) /\ Coming = q \o P
    BY Parts
  <2>2. Coming' = (InFlight' \o U) \o P
    BY <1>5 DEF Coming, InFlight, Arrived, Greeting
  <2> HIDE DEF U, P
  <2>3. q \in Seq(Reply) /\ q # <<>> /\ Tail(q) = Tail(InFlight) \o U
    BY <1>2, <1>4, <2>1
  <2> HIDE DEF q
  <2>4. q \o P # <<>> /\ Tail(q \o P) = Tail(q) \o P
    BY <1>2, <2>1, <2>3
  <2> QED
    BY <1>4, <2>1, <2>2, <2>3, <2>4
<1> DEFINE p == IF server = "none" THEN Arrived ELSE InFlight
<1>7. p \in Seq(Reply) /\ p # <<>> /\ Starts(unread, p)
  BY <1>3, <1>4, Parts DEF PairInv
<1>8. unread' = Tail(unread)
  <2>1. unread # <<>>
    BY <1>2, <1>7 DEF Starts
  <2> QED
    BY <1>1, <2>1, Parts, TailIsSubSeq
<1>9. Starts(unread', Tail(p))
  BY <1>7, <1>8, StartsTail
<1>10. Tail(p) = IF server' = "none" THEN Arrived' ELSE InFlight'
  BY <1>1, <1>3, <1>4
<1> HIDE DEF p
<1> QED
  BY <1>1, <1>5, <1>6, <1>8, <1>9, <1>10 DEF PairInv

\* The connection ends: the first of the replies on their way may still be read.
LEMMA EndPair ==
    ASSUME ClientInv, Numbered, PairInv, server_steps, session!End
    PROVE  PairInv'
<1>1. PICK k \in 0 .. Len(to_client) : to_client' = SubSeq(to_client, 1, k)
  BY DEF session!End
<1>2. /\ server # "none" /\ server' = "none"
      /\ UNCHANGED <<read_messages, unread, socket>> /\ due' = <<>>
  BY DEF session!End, server_steps, mainVars, ioVars
<1>3. socket # "connecting" /\ ~ Connected'
  BY <1>2 DEF Numbered, Connected
<1>4. /\ to_client \in Seq(Reply) /\ Len(to_client) \in Nat /\ read_messages \in Seq(Reply)
      /\ Arrived \in Seq(Reply)
  BY Parts, LenProperties
<1> DEFINE a == SubSeq(to_client, 1, k)
           b == SubSeq(to_client, k + 1, Len(to_client))
<1>5. a \in Seq(Reply) /\ b \in Seq(Reply)
  <2>1. \A i \in 1 .. k : to_client[i] \in Reply
    BY <1>4, ElementOfSeq
  <2>2. \A i \in k + 1 .. Len(to_client) : to_client[i] \in Reply
    BY <1>4, ElementOfSeq
  <2>3. a \in Seq(Reply)
    BY <1>4, <2>1, SubSeqProperties
  <2>4. b \in Seq(Reply)
    BY <1>4, <2>2, SubSeqProperties
  <2> QED
    BY <2>3, <2>4
<1>6. to_client = a \o b
  <2>1. 1 \in 1 .. Len(to_client) + 1 /\ k \in 1 - 1 .. Len(to_client)
        /\ Len(to_client) \in k .. Len(to_client)
    BY <1>4
  <2>2. a \o b = SubSeq(to_client, 1, Len(to_client))
    BY <1>4, <2>1, ConcatAdjacentSubSeq
  <2> QED
    BY <1>4, <2>2, SubSeqFull
<1>7. to_client' = a
  BY <1>1
<1> HIDE DEF a, b
<1>8. /\ Arrived' = read_messages \o a /\ read_messages \o a \in Seq(Reply)
      /\ Arrived = (read_messages \o a) \o b
  <2>1. /\ read_messages \o a \in Seq(Reply)
        /\ \A r \in Seq(Reply) : (read_messages \o a) \o r = read_messages \o (a \o r)
    <3>1. read_messages \in Seq(Reply) /\ a \in Seq(Reply)
      BY <1>4, <1>5
    <3> QED
      BY <3>1, RepliesAssociate
  <2> QED
    BY <1>2, <1>5, <1>6, <1>7, <2>1 DEF Arrived
<1>9. Starts(unread, Arrived)
  <2> DEFINE p == Arrived \o due
             q == p \o Greeting
  <2>1. p \in Seq(Reply)
    BY Parts, RepliesAssociate
  <2>2. q \in Seq(Reply)
    BY <2>1, Parts, RepliesAssociate
  <2> HIDE DEF p
  <2>3. Starts(unread, q \o AskedBy(to_server))
    BY <1>2 DEF PairInv, InFlight, p
  <2>4. Starts(unread, q)
    <3> HIDE DEF q
    <3> QED
      BY <2>2, <2>3, Parts, StartsLess
  <2>5. Starts(unread, p)
    BY <2>1, <2>4, Parts, StartsLess
  <2> QED
    BY <2>5, Parts, StartsLess DEF p
<1>10. Starts(unread, Arrived')
  BY <1>5, <1>8, <1>9, StartsLess
<1> QED
  BY <1>2, <1>3, <1>10 DEF PairInv

\* The system makes the connection: nothing is on its way.
LEMMA ConnectPair ==
    ASSUME ClientInv, Numbered, PairInv, system_connects
    PROVE  PairInv'
<1>1. /\ socket = "connecting" /\ socket' = "made" /\ server = "none" /\ server' = "queued"
      /\ to_server = <<>> /\ to_server' = <<>> /\ due = <<>> /\ due' = <<>>
      /\ to_client = <<>> /\ to_client' = <<>>
      /\ UNCHANGED <<unread, read_messages, posted, writing, write_msgs>>
  BY DEF system_connects, session!Connect, mainVars, Numbered, PairInv
<1>2. /\ Arrived' = Arrived /\ Greeting' = Greeting /\ InFlight' = InFlight
      /\ Unsent' = Unsent /\ AskedByPosted' = AskedByPosted /\ Connected
  BY <1>1 DEF Arrived, Greeting, InFlight, Unsent, AskedByPosted, Connected
<1>3. Coming' = Coming
  BY <1>2 DEF Coming, InFlight, Arrived, Greeting
<1>4. Coming = unread
  BY <1>2 DEF PairInv
<1>5. Starts(unread, InFlight)
  <2> DEFINE U == AskedBy(Unsent)
             P == AskedByPosted
  <2>1. U \in Seq(Reply) /\ P \in Seq(Reply) /\ InFlight \in Seq(Reply)
        /\ Coming = (InFlight \o U) \o P
    BY Parts
  <2> HIDE DEF U, P
  <2>2. Coming = InFlight \o (U \o P) /\ U \o P \in Seq(Reply)
    BY <2>1, RepliesAssociate
  <2> QED
    BY <1>4, <2>2 DEF Starts
<1> QED
  BY <1>1, <1>2, <1>3, <1>4, <1>5 DEF PairInv


LEMMA PairStep ==
    ASSUME ClientInv, ClientInv', Numbered, PairInv, [Next]_vars
    PROVE  PairInv'
<1>1. CASE UNCHANGED vars
  BY <1>1, QuietPair DEF vars, mainVars, ioVars, wire, Connected, Unsent
<1>2. CASE send_request
  BY <1>2, TypedPair
<1>3. ASSUME NEW asks \in BOOLEAN, send_raw(asks)
      PROVE  PairInv'
  BY <1>3, TypedPair
<1>4. CASE too_few_words \/ connect_failed \/ run_posted_close \/ read_error \/ write_error
  <2>1. /\ ~ Connected' /\ socket' # "connecting"
        /\ UNCHANGED <<read_messages, to_client, due, to_server, server, unread>>
    BY <1>4 DEF too_few_words, connect_failed, run_posted_close, read_error, write_error,
                mainVars, wire, Connected
  <2> QED
    BY <2>1, QuietPair
<1>5. CASE join \/ connected \/ read_header \/ run_returns
  <2>1. /\ UNCHANGED <<read_messages, to_client, due, to_server, server, unread, posted,
                       writing, write_msgs>>
        /\ socket' = socket \/ (socket = "made" /\ socket' = "open")
    BY <1>5 DEF join, connected, read_header, run_returns, mainVars, ioVars, wire
  <2>2. Unsent' = Unsent /\ (Connected' => Connected)
    BY <2>1 DEF Unsent, Connected
  <2> QED
    BY <2>1, <2>2, QuietPair
<1>6. CASE write_done
  <2>1. UNCHANGED <<read_messages, to_client, due, to_server, server, unread, posted, socket>>
    BY <1>6 DEF write_done, mainVars, wire
  <2>2. Unsent' = Unsent /\ (Connected' => Connected)
    BY <1>6, <2>1, DoneUnsent DEF Connected
  <2> QED
    BY <2>1, <2>2, QuietPair
<1>7. CASE end_of_input
  <2> DEFINE f == [op |-> "close"]
  <2>1. /\ posted' = Append(posted, f)
        /\ UNCHANGED <<read_messages, to_client, due, to_server, server, unread, socket,
                       writing, write_msgs>>
    BY <1>7 DEF end_of_input, Post, ioVars, wire
  <2>2. f \in Function /\ f.op # "write"
    BY DEF Function
  <2>3. Posts[f] = <<>>
    BY <2>2 DEF Posts
  <2> HIDE DEF f
  <2>4. AskedByPosted' = AskedByPosted
    <3>1. posted' \in Seq(Function)
      BY <2>1, <2>2, Counted, AppendProperties
    <3>2. AskedByFunctions(posted') = AskedByFunctions(posted) \o <<>>
      BY <2>1, <2>2, <2>3, Counted, PostsGrow
    <3>3. AskedByFunctions(posted) \o <<>> = AskedByFunctions(posted)
      BY Counted, PostsGrow, ConcatEmptySeq
    <3> QED
      BY <3>1, <3>2, <3>3, Parts, PostedIs
  <2>5. /\ Unsent' = Unsent /\ (Connected' <=> Connected)
        /\ Arrived' = Arrived /\ InFlight' = InFlight
    BY <2>1 DEF Unsent, Connected, Arrived, InFlight, Greeting
  <2>6. Coming' = Coming
    BY <2>4, <2>5 DEF Coming, InFlight, Arrived, Greeting
  <2> QED
    BY <2>1, <2>5, <2>6 DEF PairInv
<1>8. CASE server_steps
  BY <1>8, ServedPair, EndPair
<1> QED
  BY <1>1, <1>2, <1>3, <1>4, <1>5, <1>6, <1>7, <1>8, RunPair, SentPair, BodyPair, WaitPair,
     ServedPair, ConnectPair
  DEF Next, Main, Completion

\* read_wait returns the replies in the order in which their requests were typed, whatever
\* the main thread, the io thread and the server do in between, and for any number of lines;
\* after the connection is lost it returns fewer, never others.
THEOREM RepliesArePaired == Spec => []RepliesPairUp
<1>1. ClientInv /\ ClientInv' /\ Numbered /\ PairInv /\ [Next]_vars => PairInv'
  BY PairStep
<1>2. ClientInv /\ PairInv => RepliesPairUp
  <2>1. SUFFICES ASSUME ClientInv, PairInv
                 PROVE  Starts(unread, read_messages)
    BY Parts, StartsSub DEF PairInv, RepliesPairUp
  <2> DEFINE p == Arrived \o due
             q == p \o Greeting
  <2>2. p \in Seq(Reply) /\ q \in Seq(Reply)
    <3>1. p \in Seq(Reply)
      BY <2>1, Parts, RepliesAssociate
    <3> HIDE DEF p
    <3> QED
      BY <2>1, <3>1, Parts, RepliesAssociate
  <2>3. Starts(unread, Arrived)
    <3>1. CASE server = "none"
      BY <2>1, <3>1 DEF PairInv
    <3>2. CASE server # "none"
      <4> HIDE DEF p
      <4>1. Starts(unread, q \o AskedBy(to_server))
        BY <2>1, <3>2 DEF PairInv, InFlight, p
      <4>2. Starts(unread, q)
        <5> HIDE DEF q
        <5> QED
          BY <2>1, <2>2, <4>1, Parts, StartsLess
      <4>3. Starts(unread, p)
        BY <2>1, <2>2, <4>2, Parts, StartsLess
      <4> QED
        BY <2>1, <4>3, Parts, StartsLess DEF p
    <3> QED
      BY <3>1, <3>2
  <2> QED
    BY <2>1, <2>3, Parts, StartsLess DEF Arrived
<1> QED
  BY <1>1, <1>2, PairInit, LinesAreNumbered, PTL DEF Spec

-----------------------------------------------------------------------------
(* Waiting.                                                                 *)

\* A close that is posted is not lost, and a socket that is open is read from.
CloseIsDue == socket = "closed" \/ \E i \in DOMAIN posted : posted[i].op = "close"

AwakeInv ==
    /\ main = "read_wait" => unread # <<>>
    /\ socket = "open" => reading \in {"header", "body"}
    /\ main = "join" => CloseIsDue

LEMMA AwakeInit == Init => AwakeInv
  BY DEF Init, AwakeInv

LEMMA AwakeMain ==
    ASSUME ClientInv, AwakeInv, Main
    PROVE  AwakeInv'
<1>1. posted \in Seq(Function) /\ unread \in Seq(Reply) /\ Len(unread) \in Nat
  BY LenProperties DEF ClientInv, ClientTypeOK, Function
<1>2. CASE send_request
  <2>1. unread' = Append(unread, lines + 1) /\ main' = "read_wait"
        /\ socket' = socket /\ reading' = reading
    BY <1>2 DEF send_request, ioVars
  <2>2. lines + 1 \in Reply
    BY <1>2, ClientAssumption DEF send_request, ClientInv, ClientTypeOK, Reply
  <2>3. unread' # <<>>
    BY <1>1, <2>1, <2>2, AppendProperties, EmptySeq
  <2> QED
    BY <2>1, <2>3 DEF AwakeInv
<1>3. CASE end_of_input
  <2> DEFINE f == [op |-> "close"]
  <2>1. posted' = Append(posted, f) /\ main' = "join" /\ socket' = socket /\ reading' = reading
    BY <1>3 DEF end_of_input, Post, ioVars
  <2>2. f \in Function /\ f.op = "close"
    BY DEF Function
  <2> HIDE DEF f
  <2>3. Len(posted) + 1 \in DOMAIN posted' /\ posted'[Len(posted) + 1] = f
    <3>1. /\ Append(posted, f) \in Seq(Function) /\ Len(Append(posted, f)) = Len(posted) + 1
          /\ Append(posted, f)[Len(posted) + 1] = f /\ Len(posted) \in Nat
      BY <1>1, <2>2, AppendProperties, LenProperties
    <3> QED
      BY <2>1, <3>1, LenProperties
  <2> QED
    BY <2>1, <2>2, <2>3 DEF AwakeInv, CloseIsDue
<1>4. CASE (\E asks \in BOOLEAN : send_raw(asks)) \/ too_few_words \/ read_wait \/ join
  BY <1>4 DEF send_raw, too_few_words, read_wait, join, ioVars, AwakeInv
<1> QED
  BY <1>2, <1>3, <1>4 DEF Main

LEMMA AwakeOther ==
    ASSUME ClientInv, AwakeInv,
           Completion \/ system_connects \/ write_sent \/ server_handles \/ server_steps
               \/ UNCHANGED vars
    PROVE  AwakeInv'
<1> USE DEF AwakeInv, CloseIsDue, mainVars, ioVars, Started
<1>1. CASE run_posted_write
  <2>1. /\ posted' = Tail(posted) /\ Head(posted).op = "write" /\ posted # <<>>
        /\ main' = main /\ unread' = unread /\ socket' = socket /\ reading' = reading
    BY <1>1 DEF run_posted_write
  <2>2. ASSUME NEW i \in DOMAIN posted, posted[i].op = "close"
        PROVE  \E j \in DOMAIN posted' : posted'[j].op = "close"
    <3>1. posted \in Seq(Function) /\ Len(posted) \in Nat /\ DOMAIN posted = 1 .. Len(posted)
      BY LenProperties DEF ClientInv, ClientTypeOK, Function
    <3>2. /\ Head(posted) = posted[1] /\ Tail(posted) \in Seq(Function)
          /\ Len(Tail(posted)) = Len(posted) - 1
          /\ \A j \in 1 .. Len(Tail(posted)) : Tail(posted)[j] = posted[j + 1]
      BY <2>1, <3>1, HeadTailProperties
    <3>3. i # 1
      BY <2>1, <2>2, <3>2
    <3>4. i - 1 \in 1 .. Len(Tail(posted)) /\ (i - 1) + 1 = i
      BY <3>1, <3>2, <3>3
    <3>5. i - 1 \in DOMAIN Tail(posted) /\ Tail(posted)[i - 1] = posted[i]
      BY <3>2, <3>4, LenProperties
    <3> QED
      BY <2>1, <2>2, <3>5
  <2> QED
    BY <2>1, <2>2
<1>2. CASE run_posted_close
  BY <1>2 DEF run_posted_close
<1>3. CASE connected \/ connect_failed
  BY <1>3 DEF connected, connect_failed
<1>4. CASE read_header \/ read_body \/ read_error
  BY <1>4 DEF read_header, read_body, read_error
<1>5. CASE write_done \/ write_error \/ run_returns
  BY <1>5 DEF write_done, write_error, run_returns
<1>6. CASE system_connects \/ write_sent \/ server_handles \/ server_steps
  BY <1>6 DEF system_connects, write_sent, server_handles, server_steps
<1>7. CASE UNCHANGED vars
  BY <1>7 DEF vars
<1> QED
  BY <1>1, <1>2, <1>3, <1>4, <1>5, <1>6, <1>7 DEF Completion

\* Of a reply that is asked for and has not come there is a trace in one of the queues.
LEMMA ComingIsSomewhere ==
    ASSUME ClientInv, Coming # <<>>
    PROVE  \/ read_messages # <<>> \/ to_client # <<>> \/ due # <<>> \/ server # "served"
           \/ to_server # <<>> \/ write_msgs # <<>> \/ posted # <<>>
<1> SUFFICES ASSUME /\ read_messages = <<>> /\ to_client = <<>> /\ due = <<>>
                    /\ server = "served"
                    /\ to_server = <<>> /\ write_msgs = <<>> /\ posted = <<>>
             PROVE  FALSE
  OBVIOUS
<1>1. AskedBy(<<>>) = <<>> /\ AskedByFunctions(<<>>) = <<>> /\ <<>> \in Seq(Reply)
  BY AskedByGrows, PostsGrow, EmptySeq
<1>2. writing = <<>> /\ Unsent = <<>>
  BY DEF ClientInv, WriteUnderWay, Unsent
<1>3. AskedByPosted = <<>>
  BY <1>1, Parts
<1>4. Arrived = <<>> /\ Greeting = <<>>
  BY <1>1, ConcatEmptySeq DEF Arrived, Greeting
<1>5. InFlight = <<>>
  BY <1>1, <1>4, ConcatEmptySeq DEF InFlight
<1>6. Coming = (InFlight \o AskedBy(Unsent)) \o AskedByPosted
  BY Parts
<1>7. Coming = <<>>
  BY <1>1, <1>2, <1>3, <1>5, <1>6, ConcatEmptySeq
<1> QED
  BY <1>7

\* Threads, queues and the server never all wait for each other: when the main thread is in
\* read_wait and the connection is not lost, the reply it waits for is in one of the queues
\* and whoever is to pass it on can; when it is in join, nothing keeps run() from returning.
\* It is what the liveness of read_wait and join rests on, for any number of lines.
THEOREM MainNeverWaitsInVain == Spec => []NoWaitInVain
<1>1. ClientInv /\ AwakeInv /\ [Next]_vars => AwakeInv'
  BY AwakeMain, AwakeOther DEF Next
<1>2. ClientInv /\ AwakeInv /\ RepliesPairUp => NoWaitInVain
  <2> SUFFICES ASSUME ClientInv, AwakeInv, RepliesPairUp
               PROVE  NoWaitInVain
    OBVIOUS
  <2>1. ASSUME main = "read_wait", Connected, read_messages = <<>>, socket = "open",
               ~(reading \in {"header", "body"} /\ to_client # <<>>),
               ~(due # <<>> /\ Len(to_client) <= MaxLines),
               server # "queued", ~(server = "served" /\ to_server # <<>>),
               writing = <<>>, posted = <<>>
        PROVE  FALSE
    <3>1. to_client = <<>>
      BY <2>1 DEF AwakeInv
    <3>2. due = <<>>
      BY <2>1, <3>1, EmptySeq, ClientAssumption
    <3>3. server = "served"
      BY <2>1 DEF Connected, ClientInv, ClientTypeOK
    <3>4. to_server = <<>>
      BY <2>1, <3>3
    <3>5. write_msgs = <<>>
      BY <2>1 DEF ClientInv, WriteUnderWay
    <3>6. Coming # <<>>
      BY <2>1 DEF RepliesPairUp, AwakeInv
    <3> QED
      BY <2>1, <3>1, <3>2, <3>3, <3>4, <3>5, <3>6, ComingIsSomewhere
  <2>2. main = "join" => CloseIsDue
    BY DEF AwakeInv
  <2> QED
    BY <2>1, <2>2 DEF NoWaitInVain, CloseIsDue
<1> QED
  BY <1>1, <1>2, AwakeInit, ClientInvariant, RepliesArePaired, PTL DEF Spec

=============================================================================
