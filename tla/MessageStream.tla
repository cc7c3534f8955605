---------------------------- MODULE MessageStream ----------------------------
(***************************************************************************)
(* Messages on a TCP stream: what do_write_ puts on it, in what pieces it  *)
(* arrives, and how do_read_header_ and do_read_body_ find the messages    *)
(* again.  The same two chains are in tcp_connection.cpp and client.cpp.   *)
(***************************************************************************)
EXTENDS Message, SequencesExt

CONSTANTS
    Text,         \* the bodies that are sent
    MaxTexts      \* bound: how many are sent

ASSUME MessageStreamAssumption ==
    /\ \A t \in Text : t \in Seq(Range(t)) /\ Len(t) <= max_body_length
    /\ MaxTexts \in Nat

VARIABLES
    sent,         \* the texts written, in order
    stream,       \* the characters on their way, and then
    arrived,      \* those the receiver's socket holds
    reading,      \* what the receiver's async_read waits for, or "undecodable"
    length,       \* read_msg_.body_length_
    received      \* the texts read, in order

vars == <<sent, stream, arrived, reading, length, received>>

Init ==
    /\ sent = <<>> /\ stream = <<>> /\ arrived = <<>>
    /\ reading = "header" /\ length = 0
    /\ received = <<>>

do_write_(t) ==
    /\ Len(sent) < MaxTexts
    /\ sent' = Append(sent, t)
    /\ stream' = stream \o message(t)
    /\ UNCHANGED <<arrived, reading, length, received>>

\* The network delivers some of the characters.
arrive(n) ==
    /\ arrived' = arrived \o SubSeq(stream, 1, n)
    /\ stream' = SubSeq(stream, n + 1, Len(stream))
    /\ UNCHANGED <<sent, reading, length, received>>

\* An async_read of n characters completes when all have come, and takes no more.
Take(n) ==
    /\ Len(arrived) >= n
    /\ arrived' = SubSeq(arrived, n + 1, Len(arrived))

\* Mutant: a body of no characters is taken for an error.
do_read_header_nonempty ==
    /\ reading = "header"
    /\ Take(header_length)
    /\ LET d == decode_header(SubSeq(arrived, 1, header_length))
       IN  /\ reading' = IF d.ok /\ d.body_length > 0 THEN "body" ELSE "undecodable"
           /\ length' = d.body_length
    /\ UNCHANGED <<sent, stream, received>>

do_read_header_ ==
    /\ reading = "header"
    /\ Take(header_length)
    /\ LET d == decode_header(SubSeq(arrived, 1, header_length))
       IN  /\ reading' = IF d.ok THEN "body" ELSE "undecodable"
           /\ length' = d.body_length
    /\ UNCHANGED <<sent, stream, received>>

\* Mutant: read_some, which completes with what there is.
do_read_body_some ==
    /\ reading = "body"
    /\ LET n == IF Len(arrived) < length THEN Len(arrived) ELSE length
       IN  Take(n) /\ received' = Append(received, SubSeq(arrived, 1, n))
    /\ reading' = "header"
    /\ UNCHANGED <<sent, stream, length>>

\* Mutant: the chain goes on with another body.
do_read_body_again ==
    /\ reading = "body"
    /\ Take(length)
    /\ received' = Append(received, SubSeq(arrived, 1, length))
    /\ UNCHANGED <<sent, stream, reading, length>>

do_read_body_ ==
    /\ reading = "body"
    /\ Take(length)
    /\ received' = Append(received, SubSeq(arrived, 1, length))
    /\ reading' = "header"
    /\ UNCHANGED <<sent, stream, length>>

Read == do_read_header_ \/ do_read_body_
Arrive == \E n \in 1 .. Len(stream) : arrive(n)

Next == (\E t \in Text : do_write_(t)) \/ Arrive \/ Read

\* The network delivers, and the receiver runs the completions of its reads.
Spec == Init /\ [][Next]_vars /\ WF_vars(Arrive) /\ WF_vars(Read)
-----------------------------------------------------------------------------
\* The receiver reads the texts that were sent, whole, in order and none twice, even when
\* bodies look like headers and whatever the pieces they come in.
ReadAsSent == IsPrefix(received, sent) /\ reading # "undecodable"

\* The receiver never waits for characters that nobody sends: as long as a text is not read,
\* some of what was written is still on its way, or what the outstanding async_read asks for
\* is there.
NeverStarves ==
    Len(received) < Len(sent) =>
        \/ stream # <<>>
        \/ Len(arrived) >= (IF reading = "header" THEN header_length ELSE length)

\* And each text that is sent is read.
AllRead == \A k \in 1 .. MaxTexts : (Len(sent) = k) ~> (Len(received) >= k)
-----------------------------------------------------------------------------
(***************************************************************************)
(* Refinement.  A text is sent when it is written and received when its    *)
(* body has been read; what lies between, the headers, the characters and  *)
(* the pieces they come in, is not to be seen from outside.                *)
(***************************************************************************)
channel == INSTANCE Channel
             WITH Message <- Text, queue <- SubSeq(sent, Len(received) + 1, Len(sent))

\* The framing makes of a stream of characters a channel of whole texts: what is received next
\* is the text that was sent first of those not yet received, and no read begins or ends
\* anywhere else.  So the other modules may speak of messages.
IsChannel == channel!Spec
=============================================================================
