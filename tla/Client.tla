------------------------------- MODULE Client -------------------------------
(***************************************************************************)
(* The command line client: class client (components/client) on its thread *)
(* of io_context.run(), and client/main.cpp on the main thread.  They      *)
(* share the io_context's queue of posted functions and the queue          *)
(* read_messages_; all else belongs to the io thread.                      *)
(*                                                                         *)
(* A message is the number of the line it was made from, the connect       *)
(* response is 0.  The server is what PokerServer is proved to be to a     *)
(* peer, a Session, which may end at any time.                             *)
(***************************************************************************)
EXTENDS Naturals, FiniteSets, Sequences, SequencesExt

CONSTANT MaxLines     \* bound: lines typed before the end of the input

ASSUME ClientAssumption == MaxLines \in Nat

\* A line as a message; asks tells if the server replies to it.
Line == [n : 1 .. MaxLines, asks : BOOLEAN]

VARIABLES
    main,             \* where the main thread is
    lines,            \* how many lines it has read
    running,          \* has io_context.run() not returned
    posted,           \* functions posted to the io_context and not run
    socket,           \* socket_
    reading,          \* the async_read outstanding; "dead" if begun on a closed socket
    writing,          \* the async_writes outstanding; "sent" once the socket took all of it
    write_msgs,       \* write_msgs_
    read_messages,    \* read_messages_
    server, to_server, due, to_client,      \* the session, as in Session
    unread,           \* the replies the main thread asked for and did not read, in order
    commands,         \* the lines that were commands
    requests,         \* the lines sent as they were that the server replies to
    handled           \* the line the server has handled last

mainVars == <<main, lines, unread, commands, requests>>
ioVars == <<running, socket, reading, writing, write_msgs>>
wire == <<server, to_server, due, to_client>>
vars == <<mainVars, ioVars, wire, posted, read_messages, handled>>

Reply == 0 .. MaxLines

replyTo(line) == line.n

session == INSTANCE Session
             WITH Frame <- Line, Asking <- {l \in Line : l.asks}, Undecodable <- {},
                  rsp <- replyTo, greeting <- 0, Window <- MaxLines + 1,
                  phase <- server, frames <- to_server, delivered <- to_client

ClientTypeOK ==
    /\ main \in {"getline", "read_wait", "join", "done", "aborted"}
    /\ lines \in 0 .. MaxLines
    /\ running \in BOOLEAN
    /\ posted \in Seq([op : {"write"}, line : Line] \cup [op : {"close"}])
    /\ socket \in {"connecting", "made", "open", "closed"}
    /\ reading \in {"none", "header", "body", "dead"}
    /\ writing \in Seq({"started", "sent", "dead"})
    /\ write_msgs \in Seq(Line)
    /\ read_messages \in Seq(Reply)
    /\ server \in {"none", "queued", "served"}
    /\ to_server \in Seq(Line)
    /\ due \in Seq(Reply)
    /\ to_client \in Seq(Reply)
    /\ unread \in Seq(Reply)
    /\ commands \subseteq 1 .. lines /\ requests \subseteq 1 .. lines /\ commands \cap requests = {}
    /\ handled \in 0 .. MaxLines
    /\ main = "done" => ~running

\* The client is constructed, its thread started, and main() waits for the connect response.
Init ==
    /\ main = "read_wait" /\ lines = 0 /\ unread = <<0>> /\ handled = 0
    /\ commands = {} /\ requests = {}
    /\ running = TRUE
    /\ posted = <<>>
    /\ socket = "connecting" /\ reading = "none" /\ writing = <<>>
    /\ write_msgs = <<>> /\ read_messages = <<>>
    /\ session!Init
-----------------------------------------------------------------------------
(* The main thread.                                                        *)

Post(f) == posted' = Append(posted, f)

\* client::write, as far as the caller runs it.
write(line) == Post([op |-> "write", line |-> line])

NextLine(asks) == [n |-> lines + 1, asks |-> asks]

\* Mutant: the reply is not waited for.
send_request_not_waiting ==
    /\ main = "getline" /\ lines < MaxLines
    /\ lines' = lines + 1
    /\ write(NextLine(TRUE))
    /\ unread' = Append(unread, lines + 1) /\ commands' = commands \cup {lines + 1}
    /\ UNCHANGED <<main, requests, ioVars, wire, read_messages, handled>>

\* "/r" and "/l": the request is sent and its reply waited for.
send_request ==
    /\ main = "getline" /\ lines < MaxLines
    /\ lines' = lines + 1
    /\ write(NextLine(TRUE))
    /\ unread' = Append(unread, lines + 1) /\ commands' = commands \cup {lines + 1}
    /\ main' = "read_wait"
    /\ UNCHANGED <<requests, ioVars, wire, read_messages, handled>>

\* Any other line is sent as it is, and may be a request, but no reply is waited for.
send_raw(asks) ==
    /\ main = "getline" /\ lines < MaxLines
    /\ lines' = lines + 1
    /\ write(NextLine(asks))
    /\ unread' = IF asks THEN Append(unread, lines + 1) ELSE unread
    /\ requests' = IF asks THEN requests \cup {lines + 1} ELSE requests
    /\ UNCHANGED <<main, commands, ioVars, wire, read_messages, handled>>

\* A command with too few words: words.at() throws out of main().
too_few_words ==
    /\ main = "getline" /\ lines < MaxLines
    /\ main' = "aborted"
    /\ running' = FALSE /\ socket' = "closed"
    /\ UNCHANGED <<lines, unread, commands, requests, reading, writing, write_msgs, wire, posted,
                   read_messages, handled>>

read_wait ==
    /\ main = "read_wait" /\ read_messages # <<>>
    /\ read_messages' = Tail(read_messages)
    /\ unread' = SubSeq(unread, 2, Len(unread))
    /\ main' = "getline"
    /\ UNCHANGED <<lines, commands, requests, ioVars, wire, posted, handled>>

\* The end of the input: client::close() and t.join().
end_of_input ==
    /\ main = "getline"
    /\ Post([op |-> "close"])
    /\ main' = "join"
    /\ UNCHANGED <<lines, unread, commands, requests, ioVars, wire, read_messages, handled>>

join ==
    /\ main = "join" /\ ~running
    /\ main' = "done"
    /\ UNCHANGED <<lines, unread, commands, requests, ioVars, wire, posted, read_messages, handled>>
-----------------------------------------------------------------------------
(* The thread of io_context.run().                                         *)

Started(op) == IF socket = "open" THEN op ELSE "dead"

connected ==
    /\ running /\ socket = "made"
    /\ socket' = "open"
    /\ reading' = "header"
    /\ UNCHANGED <<mainVars, running, writing, write_msgs, wire, posted,
                   read_messages, handled>>

\* No one listens: no read is begun, nothing is tried again.
connect_failed ==
    /\ running /\ socket = "connecting"
    /\ socket' = "closed"
    /\ UNCHANGED <<mainVars, running, reading, writing, write_msgs, wire, posted,
                   read_messages, handled>>

\* Mutant: a new message goes before those that wait.
run_posted_write_front ==
    /\ running /\ posted # <<>> /\ Head(posted).op = "write"
    /\ posted' = Tail(posted)
    /\ write_msgs' = IF write_msgs = <<>> THEN <<Head(posted).line>>
                     ELSE <<Head(write_msgs), Head(posted).line>> \o Tail(write_msgs)
    /\ writing' = IF write_msgs = <<>> THEN Append(writing, Started("started")) ELSE writing
    /\ UNCHANGED <<mainVars, running, socket, reading, wire, read_messages, handled>>

\* Mutant: write_in_progress is not looked at.
run_posted_write_always ==
    /\ running /\ posted # <<>> /\ Head(posted).op = "write"
    /\ posted' = Tail(posted)
    /\ write_msgs' = Append(write_msgs, Head(posted).line)
    /\ writing' = Append(writing, Started("started"))
    /\ UNCHANGED <<mainVars, running, socket, reading, wire, read_messages, handled>>

\* The function client::write posts.
run_posted_write ==
    /\ running /\ posted # <<>> /\ Head(posted).op = "write"
    /\ posted' = Tail(posted)
    /\ write_msgs' = Append(write_msgs, Head(posted).line)
    /\ writing' = IF write_msgs = <<>> THEN Append(writing, Started("started")) ELSE writing
    /\ UNCHANGED <<mainVars, running, socket, reading, wire, read_messages, handled>>

\* Mutant: the function does not close the socket.
run_posted_close_not ==
    /\ running /\ posted # <<>> /\ Head(posted).op = "close"
    /\ posted' = Tail(posted)
    /\ UNCHANGED <<mainVars, ioVars, wire, read_messages, handled>>

\* The function client::close posts.
run_posted_close ==
    /\ running /\ posted # <<>> /\ Head(posted).op = "close"
    /\ posted' = Tail(posted)
    /\ socket' = "closed"
    /\ UNCHANGED <<mainVars, running, reading, writing, write_msgs, wire, read_messages, handled>>

\* A read that had its bytes before the socket was closed still succeeds.
read_header ==
    /\ running /\ reading = "header" /\ to_client # <<>>
    /\ reading' = Started("body")
    /\ UNCHANGED <<mainVars, running, socket, writing, write_msgs, wire, posted,
                   read_messages, handled>>

\* Mutant: the chain is not continued.
read_body_once ==
    /\ running /\ reading = "body"
    /\ session!Receive
    /\ read_messages' = Append(read_messages, Head(to_client))
    /\ reading' = "none"
    /\ UNCHANGED <<mainVars, running, socket, writing, write_msgs, posted, handled>>

read_body ==
    /\ running /\ reading = "body"
    /\ session!Receive
    /\ read_messages' = Append(read_messages, Head(to_client))
    /\ reading' = Started("header")
    /\ UNCHANGED <<mainVars, running, socket, writing, write_msgs, posted, handled>>

\* The socket was closed on this side, or by the server when all it sent was read.
read_error ==
    /\ running
    /\ \/ reading = "dead"
       \/ reading \in {"header", "body"} /\ socket = "closed"
       \/ reading \in {"header", "body"} /\ server = "none" /\ to_client = <<>>
    /\ reading' = "none"
    /\ socket' = "closed"
    /\ UNCHANGED <<mainVars, running, writing, write_msgs, wire, posted,
                   read_messages, handled>>

\* Mutant: a completed write does not start the next one.
write_done_once ==
    /\ running /\ writing # <<>> /\ Head(writing) = "sent"
    /\ write_msgs' = Tail(write_msgs)
    /\ writing' = Tail(writing)
    /\ UNCHANGED <<mainVars, running, socket, reading, wire, posted, read_messages, handled>>

write_done ==
    /\ running /\ writing # <<>> /\ Head(writing) = "sent"
    /\ write_msgs' = Tail(write_msgs)
    /\ writing' = IF write_msgs' # <<>> THEN Append(Tail(writing), Started("started"))
                  ELSE Tail(writing)
    /\ UNCHANGED <<mainVars, running, socket, reading, wire, posted, read_messages, handled>>

write_error ==
    /\ running /\ writing # <<>>
    /\ \/ Head(writing) = "dead"
       \/ Head(writing) = "started" /\ (socket = "closed" \/ server = "none")
    /\ writing' = Tail(writing)
    /\ socket' = "closed"
    /\ UNCHANGED <<mainVars, running, reading, write_msgs, wire, posted,
                   read_messages, handled>>

\* io_context.run() returns when nothing is posted and no operation outstanding.
run_returns ==
    /\ running
    /\ posted = <<>> /\ socket \notin {"connecting", "made"} /\ reading = "none" /\ writing = <<>>
    /\ running' = FALSE
    /\ UNCHANGED <<mainVars, socket, reading, writing, write_msgs, wire, posted,
                   read_messages, handled>>
-----------------------------------------------------------------------------
(* The socket and the server.  A reply may be read before the completion   *)
(* of the write of its request runs.                                       *)

\* The system connects the socket to the listening server.
system_connects ==
    /\ socket = "connecting" /\ socket' = "made"
    /\ session!Connect
    /\ UNCHANGED <<mainVars, running, reading, writing, write_msgs, posted, read_messages, handled>>

write_sent ==
    /\ writing # <<>> /\ Head(writing) = "started" /\ socket = "open"
    /\ writing' = <<"sent">> \o Tail(writing)
    /\ IF server = "none" THEN UNCHANGED wire ELSE session!Send(Head(write_msgs))
    /\ UNCHANGED <<mainVars, running, socket, reading, write_msgs, posted, read_messages, handled>>

server_handles ==
    /\ session!Answer \/ session!Ignore
    /\ handled' = Head(to_server).n
    /\ UNCHANGED <<mainVars, ioVars, posted, read_messages>>

\* It accepts, sends a reply, or ends, and the last replies may not come.
server_steps ==
    /\ session!Accept \/ session!Deliver \/ session!End
    /\ UNCHANGED <<mainVars, ioVars, posted, read_messages, handled>>
-----------------------------------------------------------------------------
Main ==
    \/ send_request \/ (\E asks \in BOOLEAN : send_raw(asks)) \/ too_few_words
    \/ read_wait \/ end_of_input \/ join

Completion ==
    \/ connected \/ connect_failed
    \/ run_posted_write \/ run_posted_close
    \/ read_header \/ read_body \/ read_error
    \/ write_done \/ write_error
    \/ run_returns

Next ==
    \/ Main \/ Completion
    \/ system_connects \/ write_sent \/ server_handles \/ server_steps

Spec == Init /\ [][Next]_vars

\* Both threads run and the system takes what is written to it.  run() serves its queue, the
\* reads and the writes in turn.  Of the user and the server nothing is assumed.
Fairness ==
    /\ WF_vars(read_wait) /\ WF_vars(join)
    /\ WF_vars(connected \/ connect_failed)
    /\ WF_vars(run_posted_write \/ run_posted_close)
    /\ WF_vars(read_header \/ read_body \/ read_error)
    /\ WF_vars(write_done \/ write_error) /\ WF_vars(write_sent)
    /\ WF_vars(run_returns)

FairSpec == Spec /\ Fairness
-----------------------------------------------------------------------------
\* There is at most one async_write, there is none of no message, and messages wait without
\* one only on a closed socket: the emptiness of write_msgs_, which functions of the main
\* thread and completions change in turns, tells write() that one is under way.
WriteUnderWay ==
    /\ Len(writing) <= 1
    /\ writing # <<>> => write_msgs # <<>>
    /\ writing = <<>> /\ write_msgs # <<>> => socket = "closed"

\* The replies that lines ask for, and those that the posted functions will.
Asked(line) == IF line.asks THEN <<line.n>> ELSE <<>>
AskedBy(s) == FlattenSeq([i \in DOMAIN s |-> Asked(s[i])])
AskedByPosted ==
    FlattenSeq([i \in DOMAIN posted |->
                   IF posted[i].op = "write" THEN Asked(posted[i].line) ELSE <<>>])

Unsent == IF writing # <<>> /\ Head(writing) = "sent" THEN Tail(write_msgs) ELSE write_msgs

Coming ==
    read_messages \o to_client \o due
    \o (IF server = "served" THEN <<>> ELSE <<0>>)
    \o AskedBy(to_server) \o AskedBy(Unsent) \o AskedByPosted

\* The connection is being made or has not been lost.
Connected == socket = "connecting" \/ (socket \in {"made", "open"} /\ server # "none")

\* read_wait returns the replies in the order in which their requests were typed, so each
\* command prints its own reply unless a raw line was a request: the main thread's lines, the
\* io thread's queue and the replies pass each other without one being lost, swapped or
\* taken twice.  After the connection is lost there may be fewer, never others.
RepliesPairUp ==
    /\ SubSeq(unread, 1, Len(read_messages)) = read_messages
    /\ Connected => Coming = unread

\* Lines reach the server in the order in which they were typed and none is skipped, though
\* they pass two queues of two threads and the socket may close in between.
LinesInOrder == [][handled' # handled => handled' = handled + 1]_vars

\* close() drops what is still in write_msgs_, which may be a command: read_wait takes any
\* reply, and that of an earlier raw line lets the main thread go on.  No command is dropped
\* otherwise: when the main thread does not wait, there are no more commands that the server
\* has not handled than raw requests that it has.
LostCommandsHadReplies ==
    main # "read_wait" =>
        Cardinality({n \in commands : n > handled})
            <= Cardinality({n \in requests : n <= handled})

\* The main thread never waits for something that nobody is about to do.  In read_wait, as
\* long as the connection is there, some step that brings its message nearer is ready: its
\* own, a completion, a posted function, the system's or the server's.  In join it waits for
\* run() to return, and the socket that keeps it from that is closed or about to be.
NoWaitInVain ==
    /\ main = "read_wait" /\ Connected =>
          \/ read_messages # <<>>
          \/ socket # "open"
          \/ reading \in {"header", "body"} /\ to_client # <<>>
          \/ due # <<>> /\ Len(to_client) <= MaxLines
          \/ server = "queued"
          \/ server = "served" /\ to_server # <<>>
          \/ writing # <<>>
          \/ posted # <<>>
    /\ main = "join" => socket = "closed" \/ \E i \in DOMAIN posted : posted[i].op = "close"

\* A main thread in read_wait gets its message if the server is there and goes on; when the
\* connection is lost instead, nothing wakes it.
ReadWaitReturns ==
    session!Fairness => (main = "read_wait" ~> main # "read_wait" \/ ~Connected)

\* Whatever the server does, the program ends after the end of its input: close() makes every
\* operation of the io thread complete, so that run() returns.
Joins == main = "join" ~> main = "done"
=============================================================================
