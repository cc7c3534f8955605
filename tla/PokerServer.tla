---------------------------- MODULE PokerServer ----------------------------
(***************************************************************************)
(* The server process: tcp_server accepts connections, each tcp_connection *)
(* reads frames and writes replies through chains of asynchronous          *)
(* operations, mes_handler dispatches the requests to the handlers of      *)
(* module Accounts.  One thread runs every completion (main.cpp's          *)
(* io_context.run()), so a completion starts only when no other runs; the  *)
(* handlers alone take several steps, one per SQL statement.               *)
(*                                                                         *)
(* Peers are any programs that speak the protocol or fail to: they         *)
(* connect, send frames, read replies or do not, and close at any time.    *)
(* A connection is modelled on both its ends; the name of a tcp_connection *)
(* object is used again once the object is gone.                           *)
(***************************************************************************)
EXTENDS Accounts, Sequences

CONSTANTS
    poker,        \* the process
    SockBuf,      \* how many replies the socket holds for a peer that does not read
    MaxSends,     \* bound: how many frames the peers send in all
    Malformed,    \* a body that does not parse, or an object without the members it needs
    UnknownType,  \* a body of a type the server has no handler for
    BadHeader,    \* a header that does not decode, and whatever follows it
    CutOff        \* the first bytes of a frame whose rest never comes

ASSUME PokerServerAssumption ==
    /\ Server = {poker}
    /\ SockBuf \in Nat /\ MaxSends \in Nat
    /\ MaxSends <= MaxInserts
    /\ {Malformed, UnknownType, BadHeader, CutOff} \cap Request = {}
    /\ UnknownType \notin {Malformed, BadHeader, CutOff}
    /\ BadHeader \notin {Malformed, CutOff} /\ Malformed # CutOff

\* What a peer sends, a header with a body: a request, or one of the other kinds.
Frame == Request \cup {Malformed, UnknownType, BadHeader}

Response ==
    {"connect_response", "register_response", "login_response", "unregister_response"}

VARIABLES
    accepting,    \* is an async_accept outstanding
    backlog,      \* connections the kernel has made and the server has not accepted
    participants, \* mes_handler::participants_
    reading,      \* the read chain of a connection: what it waits for or where it ended
    write_msgs,   \* replies queued on a connection, the one being written first
    writes,       \* how many async_writes a connection has outstanding
    peer,         \* the other end: "absent", "open" or "closed"
    inbox,        \* frames sent and not dealt with, the one in read_msg_ first
    outbox,       \* replies written to the socket and not read by the peer
    sent          \* how many frames the peers have sent in all

wire == <<backlog, peer, inbox, outbox, sent>>
chains == <<participants, reading, write_msgs, writes>>
netVars == <<accepting, chains, wire>>
vars == <<accVars, netVars>>

TypeOK ==
    /\ AccTypeOK
    /\ accepting \in BOOLEAN
    /\ backlog \in SUBSET Conn
    /\ participants \in SUBSET Conn
    /\ reading \in [Conn -> {"none", "header", "body", "handler", "undecodable"}]
    /\ write_msgs \in [Conn -> Seq(Response)]
    /\ writes \in [Conn -> Nat]
    /\ peer \in [Conn -> {"absent", "open", "closed"}]
    /\ inbox \in [Conn -> Seq(Frame \cup {CutOff})]
    /\ outbox \in [Conn -> Seq(Response)]
    /\ sent \in Nat

\* A process that has just started: tcp_server's constructor has called start_accept().
Init ==
    /\ AccInit
    /\ accepting = TRUE
    /\ backlog = {} /\ participants = {}
    /\ reading = [c \in Conn |-> "none"]
    /\ write_msgs = [c \in Conn |-> <<>>]
    /\ writes = [c \in Conn |-> 0]
    /\ peer = [c \in Conn |-> "absent"]
    /\ inbox = [c \in Conn |-> <<>>]
    /\ outbox = [c \in Conn |-> <<>>]
    /\ sent = 0
-----------------------------------------------------------------------------
\* The thread is inside io_context.run() and between two completions.
Dispatching == up[poker] /\ pc[poker] = "idle"

\* Someone holds a shared_ptr to the object: the set of participants, the completion of an
\* outstanding operation, the handler that runs, a user in server::users_.
Held(c) ==
    \/ c \in participants
    \/ reading[c] \in {"header", "body", "handler"}
    \/ writes[c] > 0
    \/ \E u \in users[poker] : u.connection = c

Read(c, what) == reading' = [reading EXCEPT ![c] = what]

\* Mutant: write_in_progress is not looked at.
deliver_always_writes(c, m) ==
    /\ write_msgs' = [write_msgs EXCEPT ![c] = Append(@, m)]
    /\ writes' = [writes EXCEPT ![c] = @ + 1]

\* Mutant: the queue is filled from the front.
deliver_front(c, m) ==
    /\ write_msgs' = [write_msgs EXCEPT ![c] = <<m>> \o @]
    /\ writes' = [writes EXCEPT ![c] = IF write_msgs[c] = <<>> THEN @ + 1 ELSE @]

\* tcp_connection::deliver
deliver(c, m) ==
    /\ write_msgs' = [write_msgs EXCEPT ![c] = Append(@, m)]
    /\ writes' = [writes EXCEPT ![c] = IF write_msgs[c] = <<>> THEN @ + 1 ELSE @]

del_connection(c) == participants' = participants \ {c}

\* Mutant: the connection is not started.
add_connection_only(c) == participants' = participants \cup {c} /\ UNCHANGED reading

\* mes_handler::add_connection, with start(): the first do_read_header_().
add_connection(c) == participants' = participants \cup {c} /\ Read(c, "header")

handle_accept(c) ==
    /\ Dispatching /\ accepting /\ c \in backlog
    /\ deliver(c, "connect_response")
    /\ add_connection(c)
    /\ backlog' = backlog \ {c}
    /\ accepting' = TRUE
    /\ UNCHANGED <<accVars, peer, inbox, outbox, sent>>

\* The peer gave the connection up before it was accepted.
Aborted(c) ==
    /\ backlog' = backlog \ {c}
    /\ peer' = [peer EXCEPT ![c] = "absent"]
    /\ inbox' = [inbox EXCEPT ![c] = <<>>]

\* Mutant: start_accept() is called only when the accept succeeded.
handle_accept_error_once(c) ==
    /\ Dispatching /\ accepting /\ c \in backlog
    /\ accepting' = FALSE
    /\ \/ Aborted(c) \/ UNCHANGED <<backlog, peer, inbox>>
    /\ UNCHANGED <<accVars, chains, outbox, sent>>

\* The accept failed: the connection was aborted, or no descriptor was left for it and it
\* stays in the backlog for the accept that is begun now.
handle_accept_error(c) ==
    /\ Dispatching /\ accepting /\ c \in backlog
    /\ accepting' = TRUE
    /\ \/ Aborted(c) \/ UNCHANGED <<backlog, peer, inbox>>
    /\ UNCHANGED <<accVars, chains, outbox, sent>>

\* The completion of do_read_header_.  When decode_header() fails the chain just ends: the
\* connection is not closed and stays a participant.
read_header(c) ==
    /\ Dispatching /\ reading[c] = "header" /\ inbox[c] # <<>>
    /\ Read(c, IF Head(inbox[c]) = BadHeader THEN "undecodable" ELSE "body")
    /\ UNCHANGED <<accVars, accepting, participants, write_msgs, writes, wire>>

\* The peer closed before all bytes of what is read came.
Broken(c) == peer[c] = "closed" /\ (inbox[c] # <<>> => Head(inbox[c]) = CutOff)

\* Mutant: the connection stays a participant.
read_error_kept(c) ==
    /\ Dispatching
    /\ reading[c] \in {"header", "body"} /\ Broken(c)
    /\ Read(c, "none")
    /\ UNCHANGED <<accVars, accepting, participants, write_msgs, writes, wire>>

\* An outstanding read fails.
read_error(c) ==
    /\ Dispatching
    /\ reading[c] \in {"header", "body"} /\ Broken(c)
    /\ Read(c, "none")
    /\ del_connection(c)
    /\ UNCHANGED <<accVars, accepting, write_msgs, writes, wire>>

\* Everything the process held in memory, and with it every connection.
LoseConnections ==
    /\ accepting' = FALSE
    /\ backlog' = {} /\ participants' = {}
    /\ reading' = [c \in Conn |-> "none"]
    /\ write_msgs' = [c \in Conn |-> <<>>]
    /\ writes' = [c \in Conn |-> 0]
    /\ peer' = [c \in Conn |-> "absent"]
    /\ inbox' = [c \in Conn |-> <<>>]
    /\ outbox' = [c \in Conn |-> <<>>]
    /\ UNCHANGED sent

\* The completion of do_read_body_ with a body of one of the kinds.
ReadBody(c, kinds) ==
    /\ Dispatching /\ reading[c] = "body"
    /\ inbox[c] # <<>> /\ Head(inbox[c]) \in kinds

\* Mutant: the next header is asked for before the handler runs.
read_body_request_rearmed(c) ==
    /\ ReadBody(c, Request)
    /\ handle(poker, c, Head(inbox[c]))
    /\ Read(c, "header")
    /\ UNCHANGED <<accepting, participants, write_msgs, writes, wire>>

\* mes_handler::handle, and do_read_header_() once that has returned.  A known request starts
\* its handler, which has it in read_msg_; a body of another type is only logged; one that
\* does not parse or lacks a member throws out of io_context.run().  What rapidjson makes of a
\* body that is JSON but no object (an assertion, or undefined without it) is outside the model.
read_body_request(c) ==
    /\ ReadBody(c, Request)
    /\ handle(poker, c, Head(inbox[c]))
    /\ Read(c, "handler")
    /\ UNCHANGED <<accepting, participants, write_msgs, writes, wire>>

read_body_unknown(c) ==
    /\ ReadBody(c, {UnknownType})
    /\ inbox' = [inbox EXCEPT ![c] = Tail(@)]
    /\ Read(c, "header")
    /\ UNCHANGED <<accVars, accepting, participants, write_msgs, writes,
                   backlog, peer, outbox, sent>>

read_body_malformed(c) ==
    /\ ReadBody(c, {Malformed})
    /\ terminate(poker)
    /\ LoseConnections

\* A SQL statement of the handler that runs.
statement == Statement(poker) /\ UNCHANGED netVars

\* Mutant: a reply of the request's own type.
rsp_type_echo(r) == r.type

rsp_type(r) ==
    [register_request |-> "register_response",
     login_request |-> "login_response",
     unregister_request |-> "unregister_response"][r.type]

\* The reply of the handler that runs, and do_read_header_() as handle() returns.
Responds ==
    /\ deliver(sender[poker], rsp_type(req[poker]))
    /\ inbox' = [inbox EXCEPT ![sender[poker]] = Tail(@)]
    /\ Read(sender[poker], "header")
    /\ UNCHANGED <<accepting, participants, backlog, peer, outbox, sent>>

\* The end of a handler.
handler_returns == reply(poker) /\ Responds

\* Mutant: a completed write does not start the next one.
write_done_once(c) ==
    /\ Dispatching
    /\ writes[c] > 0
    /\ peer[c] = "open" => Len(outbox[c]) < SockBuf
    /\ outbox' = [outbox EXCEPT ![c] =
                    IF peer[c] = "open" THEN Append(@, Head(write_msgs[c])) ELSE @]
    /\ write_msgs' = [write_msgs EXCEPT ![c] = Tail(@)]
    /\ writes' = [writes EXCEPT ![c] = @ - 1]
    /\ UNCHANGED <<accVars, accepting, participants, reading, backlog, peer, inbox, sent>>

\* The completion of do_write_: the socket has taken the reply, as it always can once the
\* peer is gone.
write_done(c) ==
    /\ Dispatching
    /\ writes[c] > 0
    /\ peer[c] = "open" => Len(outbox[c]) < SockBuf
    /\ outbox' = [outbox EXCEPT ![c] =
                    IF peer[c] = "open" THEN Append(@, Head(write_msgs[c])) ELSE @]
    /\ write_msgs' = [write_msgs EXCEPT ![c] = Tail(@)]
    /\ writes' = [writes EXCEPT ![c] = IF write_msgs'[c] # <<>> THEN @ ELSE @ - 1]
    /\ UNCHANGED <<accVars, accepting, participants, reading, backlog, peer, inbox, sent>>

\* A write fails.  The queue keeps the reply that was not written, so deliver() will not
\* start another write on this connection.
write_error(c) ==
    /\ Dispatching
    /\ writes[c] > 0 /\ peer[c] = "closed"
    /\ writes' = [writes EXCEPT ![c] = @ - 1]
    /\ del_connection(c)
    /\ UNCHANGED <<accVars, accepting, reading, write_msgs, wire>>

\* The process ends from outside, and comes up again on the same database.
killed == terminate(poker) /\ LoseConnections

started == main(poker) /\ accepting' = TRUE /\ UNCHANGED <<chains, wire>>
-----------------------------------------------------------------------------
\* A peer connects; the kernel completes the connection while the process listens.
peer_connect(c) ==
    /\ up[poker]
    /\ peer[c] # "open" /\ c \notin backlog /\ ~Held(c)
    /\ backlog' = backlog \cup {c}
    /\ peer' = [peer EXCEPT ![c] = "open"]
    /\ reading' = [reading EXCEPT ![c] = "none"]
    /\ write_msgs' = [write_msgs EXCEPT ![c] = <<>>]
    /\ inbox' = [inbox EXCEPT ![c] = <<>>]
    /\ outbox' = [outbox EXCEPT ![c] = <<>>]
    /\ UNCHANGED <<accVars, accepting, participants, writes, sent>>

\* A peer sends a frame, without waiting for the replies to earlier ones.
peer_send(c, f) ==
    /\ peer[c] = "open"
    /\ sent < MaxSends /\ sent' = sent + 1
    /\ inbox' = [inbox EXCEPT ![c] = Append(@, f)]
    /\ UNCHANGED <<accVars, accepting, chains, backlog, peer, outbox>>

peer_receive(c) ==
    /\ peer[c] = "open" /\ outbox[c] # <<>>
    /\ outbox' = [outbox EXCEPT ![c] = Tail(@)]
    /\ UNCHANGED <<accVars, accepting, chains, backlog, peer, inbox, sent>>

\* The peer closes or the network drops it.  What it sent last may never arrive, from some
\* frame on; the body in read_msg_ has.
peer_close(c) ==
    /\ peer[c] = "open"
    /\ peer' = [peer EXCEPT ![c] = "closed"]
    /\ \/ UNCHANGED inbox
       \/ \E n \in (IF reading[c] = "handler" THEN 1 ELSE 0) .. Len(inbox[c]) - 1 :
             inbox' = [inbox EXCEPT ![c] = Append(SubSeq(@, 1, n), CutOff)]
    /\ outbox' = [outbox EXCEPT ![c] = <<>>]
    /\ UNCHANGED <<accVars, accepting, chains, backlog, sent>>
-----------------------------------------------------------------------------
Accept(c) == handle_accept(c) \/ handle_accept_error(c)
Reading(c) ==
    \/ read_header(c) \/ read_error(c)
    \/ read_body_request(c) \/ read_body_unknown(c) \/ read_body_malformed(c)
Writing(c) == write_done(c) \/ write_error(c)
Handler == statement \/ handler_returns

Peer(c) ==
    \/ peer_connect(c)
    \/ \E f \in Frame : peer_send(c, f)
    \/ peer_receive(c)
    \/ peer_close(c)

Next ==
    \/ \E c \in Conn : Accept(c) \/ Reading(c) \/ Writing(c) \/ Peer(c)
    \/ Handler
    \/ killed
    \/ started

Spec == Init /\ [][Next]_vars

\* The thread runs the handler it is in, and io_context.run() gets to every completion that
\* stays ready.  Nothing is assumed of the peers.
Fairness ==
    /\ WF_vars(Handler)
    /\ \A c \in Conn : WF_vars(Accept(c)) /\ WF_vars(Reading(c)) /\ WF_vars(Writing(c))

FairSpec == Spec /\ Fairness
-----------------------------------------------------------------------------
\* A connection never has two async_writes outstanding, none without a reply to write, and a
\* reply that waits with no write outstanding belongs to a connection that failed: deliver()
\* and do_write_'s completion decide by the emptiness of one queue who starts the next write.
WriteChain ==
    \A c \in Conn :
        /\ writes[c] <= 1
        /\ writes[c] = 1 => write_msgs[c] # <<>>
        /\ writes[c] = 0 /\ write_msgs[c] # <<>> => peer[c] = "closed"

\* The read chain of a connection is suspended in a handler exactly while that handler runs
\* for it: no second request of a connection starts, and no chain is left behind.
HandlerOfReader ==
    \A c \in Conn : reading[c] = "handler" <=> pc[poker] # "idle" /\ sender[poker] = c

\* The server never gives up on a peer that is there: from its accept on it is a participant
\* with a read chain, whatever the other connections do.
PeersAreServed ==
    \A c \in Conn :
        peer[c] = "open" /\ c \notin backlog => c \in participants /\ reading[c] # "none"

\* The chains of the server go on as long as it runs: there always is an accept outstanding,
\* whatever became of those before, and no connection stays a participant without a read
\* that would tell of its end, unless its header did not decode.
ChainsGoOn ==
    /\ up[poker] => accepting
    /\ \A c \in participants : reading[c] # "none"

\* When a peer is gone its connection loses its place among the participants and all its
\* operations end, so that only a user in server::users_ can keep the object and its socket;
\* a header that did not decode is the exception: nothing is left to notice the end.
Reclaimed ==
    \A c \in Conn :
        peer[c] = "closed" ~>
            \/ c \notin participants /\ reading[c] = "none" /\ writes[c] = 0
            \/ reading[c] = "undecodable"

-----------------------------------------------------------------------------
(***************************************************************************)
(* Refinement.  To its peer a connection is a session, as long as the peer *)
(* is there.                                                               *)
(***************************************************************************)
sessionPhase(c) ==
    IF peer[c] # "open" THEN "none"
    ELSE IF c \in backlog THEN "queued"
    ELSE IF reading[c] = "undecodable" THEN "deaf" ELSE "served"

IfOpen(c, s) == IF peer[c] = "open" THEN s ELSE <<>>

S(c) == INSTANCE Session
          WITH Asking <- Request, Undecodable <- {BadHeader}, rsp <- rsp_type,
               greeting <- "connect_response", Window <- SockBuf,
               phase <- sessionPhase(c), frames <- IfOpen(c, inbox[c]),
               due <- IfOpen(c, write_msgs[c]), delivered <- IfOpen(c, outbox[c])

\* Every peer gets one reply for each request it sent, of that request's type and in the
\* order of the requests, after one connect_response, however requests, replies and other
\* connections interleave; after a header that does not decode it gets no more.
RepliesInOrder ==
    /\ \A c \in Conn : S(c)!Init
    /\ [][\A c \in Conn : [S(c)!Next]_(S(c)!vars)]_vars

\* And each connection is accepted, each frame dealt with, each reply written: whatever the
\* other connections do, unless the connection ends or its peer does not read what it has.
Answered == \A c \in Conn : S(c)!Fairness
=============================================================================
