------------------------- MODULE PokerServerProofs -------------------------
(***************************************************************************)
(* Theorems about PokerServer, for any number of connections, frames and   *)
(* accounts, and any socket buffer; last, that it implements a Session for *)
(* every connection.                                                       *)
(***************************************************************************)
EXTENDS PokerServer, AccountsProofs, SequenceTheorems

\* Every step of the server is a step of the handlers or leaves the accounts alone.
LEMMA DrivingStep ==
    ASSUME [Next]_vars
    PROVE  [AccNext]_accVars
<1> USE PokerServerAssumption
<1>1. ASSUME NEW c \in Conn, read_body_request(c)
      PROVE  AccNext
  BY <1>1 DEF read_body_request, ReadBody, AccNext
<1>2. ASSUME NEW c \in Conn, Accept(c) \/ Writing(c) \/ Peer(c)
      PROVE  UNCHANGED accVars
  BY <1>2 DEF Accept, handle_accept, handle_accept_error, Writing, write_done, write_error,
              Peer, peer_connect, peer_send, peer_receive, peer_close
<1>3. ASSUME NEW c \in Conn, read_header(c) \/ read_body_unknown(c) \/ read_error(c)
      PROVE  UNCHANGED accVars
  BY <1>3 DEF read_header, read_body_unknown, read_error
<1>4. ASSUME NEW c \in Conn, read_body_malformed(c)
      PROVE  AccNext
  BY <1>4 DEF read_body_malformed, AccNext
<1>5. CASE Handler
  BY <1>5 DEF Handler, statement, handler_returns, AccNext
<1>6. CASE killed \/ started
  BY <1>6 DEF killed, started, AccNext
<1>7. CASE UNCHANGED vars
  BY <1>7 DEF vars
<1> QED
  BY <1>1, <1>2, <1>3, <1>4, <1>5, <1>6, <1>7 DEF Next, Reading

\* PokerServer conjoins its steps to those of Accounts, so that what is proved of AccSpec can
\* be cited here.
LEMMA AccountsInside == Spec => AccSpec
<1>1. Init => AccInit
  BY DEF Init
<1> QED
  BY <1>1, DrivingStep, PTL DEF Spec, AccSpec

\* The server is the abstract account service to its peers together, however the completions
\* of their connections interleave with its statements and whenever it is killed.
THEOREM ServerIsAccountService == Spec => AS!Spec
<1>1. OneServer
  BY PokerServerAssumption DEF OneServer
<1>2. AccSpec => AS!Spec
  BY <1>1, ImplementsAccountService
<1> QED
  BY <1>2, AccountsInside, PTL
-----------------------------------------------------------------------------
NetTypeOK ==
    /\ accepting \in BOOLEAN
    /\ backlog \in SUBSET Conn
    /\ participants \in SUBSET Conn
    /\ reading \in [Conn -> {"none", "header", "body", "handler", "undecodable"}]
    /\ write_msgs \in [Conn -> Seq(Response)]
    /\ writes \in [Conn -> Nat]
    /\ peer \in [Conn -> {"absent", "open", "closed"}]
    /\ inbox \in [Conn -> Seq(Frame \cup {CutOff})]
    /\ outbox \in [Conn -> Seq(Response)]
    /\ sent \in Nat

\* A connection that waits to be accepted has no history.
BacklogFresh ==
    \A c \in backlog : reading[c] = "none" /\ write_msgs[c] = <<>> /\ c \notin participants

\* The request a handler works on is the first frame of its connection.
HandledFrame ==
    \A c \in Conn : reading[c] = "handler" => inbox[c] # <<>> /\ Head(inbox[c]) = req[poker]

\* The inductive invariant of the connections.
NetInv ==
    /\ NetTypeOK /\ WriteChain /\ HandlerOfReader /\ PeersAreServed
    /\ BacklogFresh /\ HandledFrame

LEMMA NetInit == Init => NetInv
BY PokerServerAssumption
DEF Init, AccInit, NetInv, NetTypeOK, WriteChain, HandlerOfReader, PeersAreServed, BacklogFresh,
    HandledFrame

LEMMA RspType ==
    ASSUME NEW r \in Request
    PROVE  rsp_type(r) \in Response
BY DEF rsp_type, Request, register_request, login_request, unregister_request, Response

\* What deliver() leaves of the state of a connection that is there.
LEMMA Delivers ==
    ASSUME NetTypeOK, NEW c \in Conn, NEW m \in Response, deliver(c, m)
    PROVE  /\ write_msgs' \in [Conn -> Seq(Response)]
           /\ writes' \in [Conn -> Nat]
           /\ write_msgs'[c] # <<>>
           /\ writes'[c] = IF write_msgs[c] = <<>> THEN writes[c] + 1 ELSE writes[c]
           /\ \A d \in Conn : d # c => write_msgs'[d] = write_msgs[d] /\ writes'[d] = writes[d]
<1>1. Append(write_msgs[c], m) \in Seq(Response) /\ Append(write_msgs[c], m) # <<>>
  <2>1. write_msgs[c] \in Seq(Response)
    BY DEF NetTypeOK
  <2> QED
    BY <2>1, AppendProperties
<1> QED
  BY <1>1 DEF deliver, NetTypeOK

\* What is left of the stream when its first frame is dealt with.
LEMMA Dequeues ==
    ASSUME NetTypeOK, NEW c \in Conn, inbox[c] # <<>>,
           inbox' = [inbox EXCEPT ![c] = Tail(@)]
    PROVE  inbox' \in [Conn -> Seq(Frame \cup {CutOff})]
<1>1. Tail(inbox[c]) \in Seq(Frame \cup {CutOff})
  BY HeadTailProperties DEF NetTypeOK
<1> QED
  BY <1>1 DEF NetTypeOK

\* What is sent later, or fails to come, does not change the first of the frames.
LEMMA FirstStays ==
    ASSUME NEW X, NEW s \in Seq(X), s # <<>>, NEW x \in X
    PROVE  /\ Append(s, x) \in Seq(X) /\ Append(s, x) # <<>> /\ Head(Append(s, x)) = Head(s)
<1>1. Len(s) \in Nat /\ Len(s) # 0
  BY EmptySeq, LenProperties
<1>2. Append(s, x) \in Seq(X) /\ Append(s, x)[1] = s[1] /\ Append(s, x) # <<>>
  BY <1>1, AppendProperties
<1> QED
  BY <1>2, HeadTailProperties

LEMMA CutStays ==
    ASSUME NEW X, NEW s \in Seq(X), NEW n \in 0 .. Len(s) - 1, NEW x \in X
    PROVE  /\ Append(SubSeq(s, 1, n), x) \in Seq(X)
           /\ n # 0 => Append(SubSeq(s, 1, n), x) # <<>>
                       /\ Head(Append(SubSeq(s, 1, n), x)) = Head(s)
<1>1. n \in Nat /\ Len(s) \in Nat /\ n < Len(s)
  BY LenProperties
<1>2. \A i \in 1 .. n : s[i] \in X
  BY <1>1, ElementOfSeq
<1>3. SubSeq(s, 1, n) \in Seq(X) /\ Len(SubSeq(s, 1, n)) = n
      /\ \A i \in 1 .. n : SubSeq(s, 1, n)[i] = s[i]
  BY <1>1, <1>2, SubSeqProperties
<1>4. Append(SubSeq(s, 1, n), x) \in Seq(X)
  BY <1>3, AppendProperties
<1>5. CASE n # 0
  <2>1. SubSeq(s, 1, n) # <<>>
    BY <1>1, <1>3, <1>5, EmptySeq
  <2>2. Head(SubSeq(s, 1, n)) = s[1] /\ Head(s) = s[1]
    <3>1. s # <<>>
      BY <1>1, EmptySeq
    <3>2. SubSeq(s, 1, n)[1] = s[1]
      BY <1>1, <1>3, <1>5
    <3> QED
      BY <1>3, <2>1, <3>1, <3>2, HeadTailProperties
  <2> QED
    BY <1>3, <1>4, <2>1, <2>2, FirstStays
<1> QED
  BY <1>4, <1>5

LEMMA CutFrames ==
    ASSUME NetTypeOK, NEW c \in Conn, NEW n \in 0 .. Len(inbox[c]) - 1
    PROVE  /\ Append(SubSeq(inbox[c], 1, n), CutOff) \in Seq(Frame \cup {CutOff})
           /\ n # 0 => Append(SubSeq(inbox[c], 1, n), CutOff) # <<>>
                       /\ Head(Append(SubSeq(inbox[c], 1, n), CutOff)) = Head(inbox[c])
<1>1. inbox[c] \in Seq(Frame \cup {CutOff}) /\ CutOff \in Frame \cup {CutOff}
  BY DEF NetTypeOK
<1> QED
  BY <1>1, CutStays, SMTT(30)

LEMMA HandlerStatement ==
    ASSUME AccTypeOK, Statement(poker)
    PROVE  pc[poker] # "idle" /\ pc'[poker] # "idle" /\ sender' = sender /\ req' = req
BY PokerServerAssumption
DEF Statement, reg_select, reg_max, reg_insert, login_select, unreg_select, unreg_remove,
    At, Answer, Goto, AccTypeOK

\* A process that dies leaves no connection behind.
LEMMA LosingStep ==
    ASSUME AccTypeOK, NetTypeOK, terminate(poker), LoseConnections
    PROVE  NetInv'
<1>1. NetTypeOK'
  BY EmptySeq DEF LoseConnections, NetTypeOK
<1>2. pc'[poker] = "idle"
  BY PokerServerAssumption DEF terminate, Forget, AccTypeOK
<1>3. HandlerOfReader'
  BY <1>2 DEF LoseConnections, HandlerOfReader
<1>4. WriteChain' /\ PeersAreServed' /\ BacklogFresh' /\ HandledFrame'
  BY DEF LoseConnections, WriteChain, PeersAreServed, BacklogFresh, HandledFrame, NetTypeOK
<1> QED
  BY <1>1, <1>3, <1>4 DEF NetInv

\* The steps of a connection's two chains.
LEMMA ConnectionStep ==
    ASSUME AccTypeOK, NetInv, NEW c \in Conn, Accept(c) \/ Reading(c) \/ Writing(c)
    PROVE  NetInv'
<1> USE PokerServerAssumption
<1> USE DEF NetInv, wire, chains, Read, del_connection, Dispatching
<1>1. ASSUME handle_accept(c)
      PROVE  NetInv'
  <2>1. deliver(c, "connect_response") /\ "connect_response" \in Response
    BY <1>1 DEF handle_accept, Response
  <2>2. NetTypeOK'
    BY <1>1, <2>1, Delivers DEF handle_accept, add_connection, NetTypeOK
  <2>3. WriteChain'
    <3>1. write_msgs[c] = <<>> /\ writes[c] = 0
      <4>1. c \in backlog
        BY <1>1 DEF handle_accept
      <4>2. write_msgs[c] = <<>>
        BY <4>1 DEF BacklogFresh
      <4>3. writes[c] \in Nat /\ writes[c] <= 1 /\ writes[c] # 1
        BY <4>2 DEF WriteChain, NetTypeOK
      <4> QED
        BY <4>2, <4>3
    <3>2. /\ writes'[c] = 1 /\ write_msgs'[c] # <<>>
          /\ \A d \in Conn : d # c => write_msgs'[d] = write_msgs[d] /\ writes'[d] = writes[d]
      BY <2>1, <3>1, Delivers
    <3>3. peer' = peer
      BY <1>1 DEF handle_accept
    <3> QED
      BY <3>2, <3>3 DEF WriteChain
  <2>4. HandlerOfReader' /\ PeersAreServed'
    BY <1>1 DEF handle_accept, add_connection, HandlerOfReader, PeersAreServed, BacklogFresh,
                accVars, NetTypeOK
  <2>5. BacklogFresh'
    BY <1>1, <2>1, Delivers DEF handle_accept, add_connection, BacklogFresh, NetTypeOK
  <2>6. HandledFrame'
    BY <1>1 DEF handle_accept, add_connection, HandledFrame, accVars, NetTypeOK
  <2> QED
    BY <2>2, <2>3, <2>4, <2>5, <2>6
<1>2. ASSUME handle_accept_error(c)
      PROVE  NetInv'
  <2>1. CASE Aborted(c)
    <3>1. NetTypeOK'
      BY <1>2, <2>1, EmptySeq DEF handle_accept_error, Aborted, NetTypeOK
    <3>2. WriteChain' /\ HandlerOfReader' /\ PeersAreServed' /\ BacklogFresh' /\ HandledFrame'
      BY <1>2, <2>1
      DEF handle_accept_error, Aborted, WriteChain, HandlerOfReader, PeersAreServed, BacklogFresh,
          HandledFrame, accVars, NetTypeOK
    <3> QED
      BY <3>1, <3>2
  <2>2. CASE UNCHANGED <<backlog, peer, inbox>>
    BY <1>2, <2>2
    DEF handle_accept_error, WriteChain, HandlerOfReader, PeersAreServed, BacklogFresh,
        HandledFrame, accVars, NetTypeOK
  <2> QED
    BY <1>2, <2>1, <2>2 DEF handle_accept_error
<1>3. ASSUME read_header(c) \/ read_body_unknown(c)
      PROVE  NetInv'
  <2>1. /\ reading[c] \in {"header", "body"} /\ inbox[c] # <<>>
        /\ \E l \in {"header", "body", "undecodable"} : Read(c, l)
        /\ inbox' = inbox \/ inbox' = [inbox EXCEPT ![c] = Tail(@)]
        /\ UNCHANGED <<accVars, accepting, participants, write_msgs, writes,
                       backlog, peer, outbox, sent>>
    BY <1>3 DEF read_header, read_body_unknown, ReadBody
  <2>2. NetTypeOK'
    <3>1. inbox' \in [Conn -> Seq(Frame \cup {CutOff})]
      BY <2>1, Dequeues DEF NetTypeOK
    <3> QED
      BY <2>1, <3>1 DEF NetTypeOK
  <2>3. WriteChain' /\ HandlerOfReader' /\ PeersAreServed' /\ BacklogFresh'
    BY <2>1 DEF WriteChain, HandlerOfReader, PeersAreServed, BacklogFresh, accVars, NetTypeOK
  <2>4. HandledFrame'
    BY <2>1 DEF HandledFrame, accVars, NetTypeOK
  <2> QED
    BY <2>2, <2>3, <2>4
<1>4. ASSUME read_body_request(c)
      PROVE  NetInv'
  <2>1. NetTypeOK'
    BY <1>4 DEF read_body_request, NetTypeOK
  <2>2. HandlerOfReader'
    BY <1>4 DEF read_body_request, handle, HandlerOfReader, NetTypeOK, AccTypeOK
  <2>3. WriteChain' /\ PeersAreServed' /\ BacklogFresh'
    BY <1>4 DEF read_body_request, ReadBody, WriteChain, PeersAreServed, BacklogFresh, NetTypeOK
  <2>4. HandledFrame'
    <3>1. \A d \in Conn : reading'[d] = "handler" => d = c
      BY <1>4 DEF read_body_request, ReadBody, HandlerOfReader, NetTypeOK
    <3>2. inbox' = inbox /\ inbox[c] # <<>> /\ req'[poker] = Head(inbox[c])
      BY <1>4 DEF read_body_request, ReadBody, handle, AccTypeOK
    <3> QED
      BY <3>1, <3>2 DEF HandledFrame
  <2> QED
    BY <2>1, <2>2, <2>3, <2>4
<1>5. ASSUME read_error(c)
      PROVE  NetInv'
  <2>1. NetTypeOK'
    BY <1>5 DEF read_error, NetTypeOK
  <2>2. WriteChain' /\ HandlerOfReader' /\ PeersAreServed' /\ BacklogFresh' /\ HandledFrame'
    BY <1>5 DEF read_error, Broken, WriteChain, HandlerOfReader, PeersAreServed, BacklogFresh,
                HandledFrame, accVars, NetTypeOK
  <2> QED
    BY <2>1, <2>2
<1>6. ASSUME write_done(c)
      PROVE  NetInv'
  <2>1. write_msgs[c] \in Seq(Response) /\ write_msgs[c] # <<>>
    BY <1>6 DEF write_done, WriteChain, NetTypeOK
  <2>2. /\ Head(write_msgs[c]) \in Response
        /\ Tail(write_msgs[c]) \in Seq(Response)
    BY <2>1, HeadTailProperties
  <2>3. Append(outbox[c], Head(write_msgs[c])) \in Seq(Response)
    BY <2>2, AppendProperties DEF NetTypeOK
  <2>4. NetTypeOK'
    BY <1>6, <2>2, <2>3, SMTT(30) DEF write_done, WriteChain, NetTypeOK
  <2>5. WriteChain'
    BY <1>6 DEF write_done, WriteChain, NetTypeOK
  <2>6. HandlerOfReader' /\ PeersAreServed' /\ BacklogFresh' /\ HandledFrame'
    BY <1>6, <2>1 DEF write_done, HandlerOfReader, PeersAreServed, BacklogFresh, HandledFrame,
                      accVars, NetTypeOK
  <2> QED
    BY <2>4, <2>5, <2>6
<1>7. ASSUME write_error(c)
      PROVE  NetInv'
  <2>1. NetTypeOK'
    BY <1>7 DEF write_error, NetTypeOK, WriteChain
  <2>2. WriteChain' /\ HandlerOfReader' /\ PeersAreServed' /\ BacklogFresh' /\ HandledFrame'
    BY <1>7 DEF write_error, WriteChain, HandlerOfReader, PeersAreServed, BacklogFresh,
                HandledFrame, accVars, NetTypeOK
  <2> QED
    BY <2>1, <2>2
<1>8. ASSUME read_body_malformed(c)
      PROVE  NetInv'
  BY <1>8, LosingStep DEF read_body_malformed
<1> QED
  BY <1>1, <1>2, <1>3, <1>4, <1>5, <1>6, <1>7, <1>8
  DEF Accept, Reading, Writing

LEMMA PeerStep ==
    ASSUME NetInv, NEW c \in Conn, Peer(c)
    PROVE  NetInv'
<1> USE PokerServerAssumption
<1> USE DEF NetInv, chains
<1>1. ASSUME peer_connect(c)
      PROVE  NetInv'
  <2>2. NetTypeOK'
    BY <1>1, EmptySeq DEF peer_connect, NetTypeOK
  <2>3. writes[c] = 0 /\ c \notin participants /\ reading[c] # "handler" /\ c \notin backlog
    BY <1>1 DEF peer_connect, Held, NetTypeOK
  <2>4. WriteChain' /\ HandlerOfReader' /\ PeersAreServed' /\ BacklogFresh' /\ HandledFrame'
    BY <1>1, <2>3 DEF peer_connect, WriteChain, HandlerOfReader, PeersAreServed, BacklogFresh,
                      HandledFrame, accVars, NetTypeOK
  <2> QED
    BY <2>2, <2>4
<1>2. ASSUME NEW f \in Frame, peer_send(c, f)
      PROVE  NetInv'
  <2>1. Append(inbox[c], f) \in Seq(Frame \cup {CutOff})
    BY AppendProperties DEF NetTypeOK
  <2>2. NetTypeOK'
    BY <1>2, <2>1 DEF peer_send, NetTypeOK
  <2>3. WriteChain' /\ HandlerOfReader' /\ PeersAreServed' /\ BacklogFresh'
    BY <1>2 DEF peer_send, accVars, WriteChain, HandlerOfReader, PeersAreServed, BacklogFresh
  <2>4. inbox[c] # <<>> =>
          Append(inbox[c], f) # <<>> /\ Head(Append(inbox[c], f)) = Head(inbox[c])
    <3> DEFINE X == Frame \cup {CutOff}
    <3>1. inbox[c] \in Seq(X) /\ f \in X
      BY DEF NetTypeOK
    <3> HIDE DEF X
    <3> QED
      BY <3>1, FirstStays
  <2>5. HandledFrame'
    BY <1>2, <2>4 DEF peer_send, accVars, HandledFrame, NetTypeOK
  <2> QED
    BY <2>2, <2>3, <2>5
<1>3. ASSUME peer_receive(c)
      PROVE  NetInv'
  <2>1. Tail(outbox[c]) \in Seq(Response)
    BY <1>3, HeadTailProperties DEF peer_receive, NetTypeOK
  <2>2. NetTypeOK'
    BY <1>3, <2>1 DEF peer_receive, NetTypeOK
  <2>3. WriteChain' /\ HandlerOfReader' /\ PeersAreServed' /\ BacklogFresh' /\ HandledFrame'
    BY <1>3 DEF peer_receive, WriteChain, HandlerOfReader, PeersAreServed, BacklogFresh,
                HandledFrame, accVars
  <2> QED
    BY <2>2, <2>3
<1>4. ASSUME peer_close(c)
      PROVE  NetInv'
  <2>1. CASE inbox' = inbox
    BY <1>4, <2>1, EmptySeq DEF peer_close, NetTypeOK, WriteChain, HandlerOfReader,
       PeersAreServed, BacklogFresh, HandledFrame, accVars
  <2>2. ASSUME NEW n \in 0 .. Len(inbox[c]) - 1, reading[c] = "handler" => n # 0,
               inbox' = [inbox EXCEPT ![c] = Append(SubSeq(@, 1, n), CutOff)]
        PROVE  NetInv'
    <3> DEFINE cut == Append(SubSeq(inbox[c], 1, n), CutOff)
    <3>2. cut \in Seq(Frame \cup {CutOff})
          /\ (n # 0 => cut # <<>> /\ Head(cut) = Head(inbox[c]))
      BY CutFrames
    <3>3. inbox' = [inbox EXCEPT ![c] = cut]
      BY <2>2
    <3> HIDE DEF cut
    <3>4. NetTypeOK'
      BY <1>4, <3>2, <3>3, EmptySeq DEF peer_close, NetTypeOK
    <3>5. WriteChain' /\ HandlerOfReader' /\ PeersAreServed' /\ BacklogFresh'
      BY <1>4 DEF peer_close, WriteChain, HandlerOfReader, PeersAreServed, BacklogFresh,
                  accVars, NetTypeOK
    <3>6. HandledFrame'
      BY <1>4, <2>2, <3>2, <3>3 DEF peer_close, HandledFrame, accVars, NetTypeOK
    <3> QED
      BY <3>4, <3>5, <3>6
  <2>3. \A n \in (IF reading[c] = "handler" THEN 1 ELSE 0) .. Len(inbox[c]) - 1 :
            n \in 0 .. Len(inbox[c]) - 1 /\ (reading[c] = "handler" => n # 0)
    <3>1. inbox[c] \in Seq(Frame \cup {CutOff})
      BY DEF NetTypeOK
    <3>2. Len(inbox[c]) \in Nat
      BY <3>1, LenProperties
    <3> QED
      BY <3>2
  <2> QED
    BY <1>4, <2>1, <2>2, <2>3, Zenon DEF peer_close
<1> QED
  BY <1>1, <1>2, <1>3, <1>4 DEF Peer

LEMMA ProcessStep ==
    ASSUME AccTypeOK, NetInv, Handler \/ killed \/ started
    PROVE  NetInv'
<1> USE PokerServerAssumption
<1> USE DEF NetInv, netVars, wire, chains, Read
<1>1. ASSUME statement
      PROVE  NetInv'
  <2>1. NetTypeOK' /\ WriteChain' /\ PeersAreServed' /\ BacklogFresh'
    BY <1>1 DEF statement, NetTypeOK, WriteChain, PeersAreServed, BacklogFresh
  <2>2. HandlerOfReader' /\ HandledFrame'
    BY <1>1, HandlerStatement DEF statement, HandlerOfReader, HandledFrame
  <2> QED
    BY <2>1, <2>2
<1>2. ASSUME handler_returns
      PROVE  NetInv'
  <2> DEFINE c == sender[poker]
             m == rsp_type(req[poker])
  <2>1. pc[poker] = "deliver" /\ c \in Conn /\ m \in Response
    BY <1>2, RspType DEF handler_returns, reply, AccTypeOK
  <2>2. reading[c] = "handler"
    BY <2>1 DEF HandlerOfReader
  <2>3. deliver(c, m) /\ reading' = [reading EXCEPT ![c] = "header"]
        /\ inbox' = [inbox EXCEPT ![c] = Tail(@)]
        /\ UNCHANGED <<accepting, participants, backlog, peer, outbox, sent>>
    BY <1>2 DEF handler_returns, Responds
  <2> HIDE DEF m
  <2>4. NetTypeOK'
    <3>1. inbox' \in [Conn -> Seq(Frame \cup {CutOff})]
      BY <2>1, <2>2, <2>3, Dequeues DEF HandledFrame
    <3> QED
      BY <2>1, <2>3, <3>1, Delivers DEF NetTypeOK
  <2>5. WriteChain'
    <3>1. \A d \in Conn : d # c => write_msgs'[d] = write_msgs[d] /\ writes'[d] = writes[d]
      BY <2>1, <2>3, Delivers
    <3>2. /\ write_msgs'[c] # <<>>
          /\ writes'[c] = IF write_msgs[c] = <<>> THEN writes[c] + 1 ELSE writes[c]
      BY <2>1, <2>3, Delivers
    <3>3. writes[c] \in Nat /\ writes[c] <= 1 /\ (writes[c] = 1 => write_msgs[c] # <<>>)
          /\ (writes[c] = 0 /\ write_msgs[c] # <<>> => peer[c] = "closed")
      BY <2>1 DEF WriteChain, NetTypeOK
    <3>4. writes'[c] <= 1 /\ (writes'[c] = 0 => peer[c] = "closed")
      BY <3>2, <3>3
    <3> QED
      BY <2>3, <3>1, <3>2, <3>4 DEF WriteChain
  <2>6. pc'[poker] = "idle" /\ sender'[poker] = NoConn
    BY <1>2 DEF handler_returns, reply, Forget, AccTypeOK
  <2>7. HandlerOfReader'
    BY <2>1, <2>3, <2>6 DEF HandlerOfReader, NetTypeOK
  <2>8. PeersAreServed'
    BY <2>1, <2>2, <2>3 DEF PeersAreServed, NetTypeOK
  <2>9. BacklogFresh'
    <3>1. c \notin backlog
      BY <2>2 DEF BacklogFresh
    <3>2. \A d \in backlog : d # c /\ write_msgs'[d] = write_msgs[d] /\ reading'[d] = reading[d]
      BY <2>1, <2>3, <3>1, Delivers DEF NetTypeOK
    <3> QED
      BY <2>3, <3>2 DEF BacklogFresh
  <2>10. HandledFrame'
    BY <2>1, <2>3 DEF HandledFrame, HandlerOfReader, NetTypeOK
  <2> QED
    BY <2>4, <2>5, <2>7, <2>8, <2>9, <2>10
<1>3. ASSUME killed
      PROVE  NetInv'
  BY <1>3, LosingStep DEF killed
<1>4. ASSUME started
      PROVE  NetInv'
  BY <1>4 DEF started, main, local, NetTypeOK, WriteChain, HandlerOfReader, PeersAreServed,
              BacklogFresh, HandledFrame
<1> QED
  BY <1>1, <1>2, <1>3, <1>4 DEF Handler

\* The inductive invariant of the connections.
THEOREM NetInvariant == Spec => [](AccTypeOK /\ NetInv)
<1>1. Spec => []AccTypeOK
  BY AccountsInside, AccTypeCorrect, PTL
<1>2. Init => NetInv
  BY NetInit
<1>3. AccTypeOK /\ NetInv /\ [Next]_vars => NetInv'
  <2>1. ASSUME AccTypeOK, NetInv, UNCHANGED vars
        PROVE  NetInv'
    BY <2>1 DEF vars, netVars, chains, wire, accVars, NetInv, NetTypeOK, WriteChain,
                HandlerOfReader, PeersAreServed, BacklogFresh, HandledFrame
  <2> QED
    BY <2>1, ConnectionStep, PeerStep, ProcessStep DEF Next
<1> QED
  BY <1>1, <1>2, <1>3, PTL DEF Spec

\* Type correctness of the whole server.
THEOREM TypeCorrect == Spec => []TypeOK
<1>1. AccTypeOK /\ NetInv => TypeOK
  BY DEF NetInv, NetTypeOK, TypeOK
<1> QED
  BY <1>1, NetInvariant, PTL

\* deliver() and do_write_ never overlap two writes and never strand a reply.
THEOREM WritesAreChained == Spec => []WriteChain
<1>1. AccTypeOK /\ NetInv => WriteChain
  BY DEF NetInv
<1> QED
  BY <1>1, NetInvariant, PTL

\* A handler runs for the connection whose read chain waits for it, and for no other.
THEOREM HandlersHaveReaders == Spec => []HandlerOfReader
<1>1. AccTypeOK /\ NetInv => HandlerOfReader
  BY DEF NetInv
<1> QED
  BY <1>1, NetInvariant, PTL

\* A peer that stays connected stays a participant with a read chain.
THEOREM OpenPeersAreServed == Spec => []PeersAreServed
<1>1. AccTypeOK /\ NetInv => PeersAreServed
  BY DEF NetInv
<1> QED
  BY <1>1, NetInvariant, PTL

LEMMA ChainsStep ==
    ASSUME AccTypeOK, NetInv, ChainsGoOn, [Next]_vars
    PROVE  ChainsGoOn'
<1> USE PokerServerAssumption DEF NetInv, NetTypeOK, chains, Read, del_connection
<1>1. ASSUME NEW c \in Conn, Accept(c)
      PROVE  ChainsGoOn'
  BY <1>1 DEF Accept, handle_accept, handle_accept_error, add_connection, ChainsGoOn, accVars
<1>2. ASSUME NEW c \in Conn, read_header(c) \/ read_error(c)
      PROVE  ChainsGoOn'
  BY <1>2 DEF read_header, read_error, ChainsGoOn, accVars
<1>3. ASSUME NEW c \in Conn, read_body_request(c) \/ read_body_unknown(c)
      PROVE  ChainsGoOn'
  BY <1>3 DEF read_body_request, read_body_unknown, handle, ChainsGoOn, accVars
<1>4. ASSUME terminate(poker), LoseConnections
      PROVE  ChainsGoOn'
  BY <1>4 DEF terminate, LoseConnections, ChainsGoOn, AccTypeOK
<1>5. ASSUME NEW c \in Conn, Writing(c)
      PROVE  ChainsGoOn'
  BY <1>5 DEF Writing, write_done, write_error, ChainsGoOn, accVars
<1>6. ASSUME NEW c \in Conn, Peer(c)
      PROVE  ChainsGoOn'
  BY <1>6 DEF Peer, peer_connect, peer_send, peer_receive, peer_close, Held, ChainsGoOn, accVars
<1>7. CASE statement
  BY <1>7 DEF statement, netVars, Statement, reg_select, reg_max, reg_insert, login_select,
              unreg_select, unreg_remove, At, Answer, Goto, ChainsGoOn
<1>8. CASE handler_returns
  BY <1>8 DEF handler_returns, reply, Responds, ChainsGoOn
<1>9. CASE started
  BY <1>9 DEF started, ChainsGoOn
<1>10. CASE UNCHANGED vars
  BY <1>10 DEF vars, netVars, accVars, ChainsGoOn
<1> QED
  BY <1>1, <1>2, <1>3, <1>4, <1>5, <1>6, <1>7, <1>8, <1>9, <1>10
  DEF Next, Reading, read_body_malformed, killed, Handler

\* The accept chain and the read chains never just stop: handle_accept() calls start_accept()
\* whatever the accept's outcome, and who has no read any more is no participant.
THEOREM ServerChainsGoOn == Spec => []ChainsGoOn
<1>1. Init => ChainsGoOn
  BY DEF Init, ChainsGoOn
<1>2. AccTypeOK /\ NetInv /\ ChainsGoOn /\ [Next]_vars => ChainsGoOn'
  BY ChainsStep
<1> QED
  BY <1>1, <1>2, NetInvariant, PTL DEF Spec

\* With all its connections around them, the handlers keep what Accounts promises of them; the
\* server is the only writer of its database, and what it answers a peer is true when the
\* response is delivered to it.
THEOREM ServerAnswersAreTrue == Spec => [](OneRowPerEmailPerServer /\ AnswersHold)
BY AccountsInside, EmailOncePerServer, AnswersAreTrue, PTL
-----------------------------------------------------------------------------
SessionStep(c) == [S(c)!Next]_(S(c)!vars)

LEMMA SessionInit ==
    ASSUME Init, NEW c \in Conn
    PROVE  S(c)!Init
BY DEF Init, S!Init, sessionPhase, IfOpen

\* A connection whose peer is not there, before and after.
LEMMA Gone ==
    ASSUME NEW c \in Conn, peer[c] # "open", peer'[c] # "open"
    PROVE  SessionStep(c)
BY DEF SessionStep, S!vars, sessionPhase, IfOpen

\* A connection of which a step changes nothing that its peer could notice.
LEMMA Untouched ==
    ASSUME NEW c \in Conn, peer'[c] = peer[c], inbox'[c] = inbox[c],
           write_msgs'[c] = write_msgs[c], outbox'[c] = outbox[c],
           c \in backlog <=> c \in backlog',
           reading[c] = "undecodable" <=> reading'[c] = "undecodable"
    PROVE  SessionStep(c)
BY DEF SessionStep, S!vars, sessionPhase, IfOpen

\* The step that takes the peer away.
LEMMA Ends ==
    ASSUME NetTypeOK, NEW c \in Conn, peer[c] = "open", peer'[c] # "open"
    PROVE  SessionStep(c)
<1>1. outbox[c] \in Seq(Response)
  BY DEF NetTypeOK
<1>2. 0 \in 0 .. Len(outbox[c]) /\ SubSeq(outbox[c], 1, 0) = <<>>
  <2>1. Len(outbox[c]) \in Nat
    BY <1>1, LenProperties
  <2>2. SubSeq(outbox[c], 1, 0) = <<>>
    BY <1>1, SubSeqProperties, EmptySeq
  <2> QED
    BY <2>1, <2>2
<1>3. S(c)!End
  BY <1>2 DEF S!End, sessionPhase, IfOpen
<1> QED
  BY <1>3 DEF SessionStep, S!Next

\* What a connection does is not seen by the peers of the others.
LEMMA Elsewhere ==
    ASSUME NetInv, NEW d \in Conn, NEW c \in Conn, c # d,
           \/ Accept(d) \/ Writing(d) \/ Peer(d)
           \/ read_header(d) \/ read_error(d) \/ read_body_request(d) \/ read_body_unknown(d)
    PROVE  SessionStep(c)
<1> USE DEF NetInv, NetTypeOK, wire, chains
<1>1. /\ peer'[c] = peer[c] /\ inbox'[c] = inbox[c]
      /\ write_msgs'[c] = write_msgs[c] /\ outbox'[c] = outbox[c]
      /\ c \in backlog <=> c \in backlog'
      /\ reading'[c] = reading[c]
  <2>1. CASE Accept(d)
    BY <2>1
    DEF Accept, handle_accept, handle_accept_error, Aborted, deliver, add_connection, Read
  <2>2. CASE Writing(d)
    BY <2>2 DEF Writing, write_done, write_error
  <2>3. CASE Peer(d)
    BY <2>3 DEF Peer, peer_connect, peer_send, peer_receive, peer_close
  <2>4. CASE read_header(d) \/ read_error(d) \/ read_body_request(d) \/ read_body_unknown(d)
    BY <2>4 DEF read_header, read_error, read_body_request, read_body_unknown, Read
  <2> QED
    BY <2>1, <2>2, <2>3, <2>4
<1> QED
  BY <1>1, Untouched

LEMMA AcceptSession ==
    ASSUME NetInv, NEW c \in Conn, Accept(c)
    PROVE  SessionStep(c)
<1> USE DEF NetInv, NetTypeOK, chains
<1>1. ASSUME handle_accept(c), peer[c] = "open"
      PROVE  SessionStep(c)
  <2>1. S(c)!Accept
    BY <1>1 DEF S!Accept, handle_accept, deliver, add_connection, Read, sessionPhase, IfOpen,
                BacklogFresh
  <2> QED
    BY <2>1 DEF SessionStep, S!Next
<1>2. ASSUME handle_accept(c), peer[c] # "open"
      PROVE  SessionStep(c)
  BY <1>2, Gone DEF handle_accept
<1>3. ASSUME handle_accept_error(c)
      PROVE  SessionStep(c)
  <2>1. CASE Aborted(c)
    BY <1>3, <2>1, Gone, Ends DEF handle_accept_error, Aborted
  <2>2. CASE UNCHANGED <<backlog, peer, inbox>>
    BY <1>3, <2>2, Untouched DEF handle_accept_error
  <2> QED
    BY <1>3, <2>1, <2>2 DEF handle_accept_error
<1> QED
  BY <1>1, <1>2, <1>3 DEF Accept

LEMMA ReadSession ==
    ASSUME NetInv, NEW c \in Conn,
           read_header(c) \/ read_error(c) \/ read_body_request(c) \/ read_body_unknown(c)
    PROVE  SessionStep(c)
<1> USE DEF NetInv, NetTypeOK, wire
<1>1. CASE peer[c] # "open"
  BY <1>1, Gone DEF read_header, read_error, read_body_request, read_body_unknown
<1>2. ASSUME peer[c] = "open", read_header(c), Head(inbox[c]) = BadHeader
      PROVE  SessionStep(c)
  <2>1. S(c)!Refuse
    BY <1>2 DEF S!Refuse, read_header, Read, sessionPhase, IfOpen, BacklogFresh
  <2> QED
    BY <2>1 DEF SessionStep, S!Next, S!Handle
<1>3. ASSUME read_header(c), Head(inbox[c]) # BadHeader
      PROVE  SessionStep(c)
  BY <1>3, Untouched DEF read_header, Read
<1>4. ASSUME read_body_request(c)
      PROVE  SessionStep(c)
  BY <1>4, Untouched DEF read_body_request, ReadBody, Read
<1>5. ASSUME peer[c] = "open", read_body_unknown(c)
      PROVE  SessionStep(c)
  <2>1. UnknownType \notin Request \cup {BadHeader}
    BY PokerServerAssumption
  <2>2. S(c)!Ignore
    BY <1>5, <2>1 DEF S!Ignore, read_body_unknown, ReadBody, Read, sessionPhase, IfOpen,
                      BacklogFresh
  <2> QED
    BY <2>2 DEF SessionStep, S!Next, S!Handle
<1>6. ASSUME peer[c] = "open"
      PROVE  ~ read_error(c)
  BY <1>6 DEF read_error, Broken
<1> QED
  BY <1>1, <1>2, <1>3, <1>4, <1>5, <1>6

LEMMA WriteSession ==
    ASSUME NetInv, NEW c \in Conn, Writing(c)
    PROVE  SessionStep(c)
<1> USE DEF NetInv, NetTypeOK
<1>1. CASE peer[c] # "open"
  BY <1>1, Gone DEF Writing, write_done, write_error, wire
<1>2. ASSUME peer[c] = "open", write_done(c)
      PROVE  SessionStep(c)
  <2>1. write_msgs[c] # <<>> /\ Len(outbox[c]) < SockBuf
    BY <1>2 DEF write_done, WriteChain
  <2>2. S(c)!Deliver
    BY <1>2, <2>1 DEF S!Deliver, write_done, sessionPhase, IfOpen
  <2> QED
    BY <2>2 DEF SessionStep, S!Next
<1> QED
  BY <1>1, <1>2 DEF Writing, write_error

LEMMA PeerSession ==
    ASSUME NetInv, NEW c \in Conn, Peer(c)
    PROVE  SessionStep(c)
<1> USE DEF NetInv, NetTypeOK, chains
<1>1. ASSUME peer_connect(c)
      PROVE  SessionStep(c)
  <2>1. S(c)!Connect
    BY <1>1 DEF S!Connect, peer_connect, sessionPhase, IfOpen
  <2> QED
    BY <2>1 DEF SessionStep, S!Next
<1>2. ASSUME NEW f \in Frame, peer_send(c, f)
      PROVE  SessionStep(c)
  <2>1. S(c)!Send(f)
    BY <1>2 DEF S!Send, peer_send, sessionPhase, IfOpen
  <2> QED
    BY <2>1 DEF SessionStep, S!Next
<1>3. ASSUME peer_receive(c)
      PROVE  SessionStep(c)
  <2>1. S(c)!Receive
    BY <1>3 DEF S!Receive, peer_receive, sessionPhase, IfOpen
  <2> QED
    BY <2>1 DEF SessionStep, S!Next
<1>4. ASSUME peer_close(c)
      PROVE  SessionStep(c)
  BY <1>4, Ends DEF peer_close
<1> QED
  BY <1>1, <1>2, <1>3, <1>4 DEF Peer

LEMMA HandlerSession ==
    ASSUME AccTypeOK, NetInv, NEW c \in Conn, Handler
    PROVE  SessionStep(c)
<1> USE DEF NetInv, NetTypeOK, netVars, chains, wire
<1>1. ASSUME statement
      PROVE  SessionStep(c)
  BY <1>1, Untouched DEF statement
<1>2. ASSUME handler_returns, c # sender[poker]
      PROVE  SessionStep(c)
  BY <1>2, Untouched DEF handler_returns, Responds, deliver, Read
<1>3. ASSUME handler_returns, c = sender[poker]
      PROVE  SessionStep(c)
  <2>1. pc[poker] = "deliver" /\ req[poker] \in Request
    BY <1>3, PokerServerAssumption DEF handler_returns, reply, AccTypeOK
  <2>2. reading[c] = "handler"
    BY <1>3, <2>1 DEF HandlerOfReader
  <2>3. inbox[c] # <<>> /\ Head(inbox[c]) = req[poker] /\ c \notin backlog
    BY <2>2 DEF HandledFrame, BacklogFresh
  <2>4. CASE peer[c] # "open"
    BY <1>3, <2>4, Gone DEF handler_returns, Responds
  <2>5. CASE peer[c] = "open"
    <3>1. S(c)!Answer
      BY <1>3, <2>1, <2>2, <2>3, <2>5
      DEF S!Answer, handler_returns, Responds, deliver, Read, sessionPhase, IfOpen
    <3> QED
      BY <3>1 DEF SessionStep, S!Next, S!Handle
  <2> QED
    BY <2>4, <2>5
<1> QED
  BY <1>1, <1>2, <1>3 DEF Handler

\* When the process dies every session that lasts ends.
LEMMA LostSession ==
    ASSUME NetInv, NEW c \in Conn, LoseConnections
    PROVE  SessionStep(c)
<1>1. peer'[c] # "open"
  BY DEF LoseConnections
<1> QED
  BY <1>1, Gone, Ends DEF NetInv

\* One reply for each request, of its type and in the order of the requests, on every
\* connection, however requests, replies and other connections interleave.
THEOREM ServerKeepsSessions == Spec => RepliesInOrder
<1>1. Init => \A c \in Conn : S(c)!Init
  BY SessionInit
<1>2. ASSUME AccTypeOK, NetInv, Next, NEW c \in Conn
      PROVE  SessionStep(c)
  <2>1. ASSUME NEW d \in Conn, Accept(d) \/ Writing(d) \/ Peer(d)
        PROVE  SessionStep(c)
    BY <1>2, <2>1, Elsewhere, AcceptSession, WriteSession, PeerSession
  <2>2. ASSUME NEW d \in Conn, Reading(d)
        PROVE  SessionStep(c)
    BY <1>2, <2>2, Elsewhere, ReadSession, LostSession DEF Reading, read_body_malformed
  <2>3. CASE Handler
    BY <1>2, <2>3, HandlerSession
  <2>4. CASE killed
    BY <1>2, <2>4, LostSession DEF killed
  <2>5. CASE started
    BY <2>5, Untouched DEF started, chains, wire
  <2> QED
    BY <1>2, <2>1, <2>2, <2>3, <2>4, <2>5 DEF Next
<1>3. AccTypeOK /\ NetInv /\ [Next]_vars => [\A c \in Conn : [S(c)!Next]_(S(c)!vars)]_vars
  BY <1>2 DEF SessionStep
<1> QED
  BY <1>1, <1>3, NetInvariant, PTL DEF Spec, RepliesInOrder
=============================================================================
