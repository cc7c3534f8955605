------------------------------- MODULE Channel -------------------------------
(***************************************************************************)
(* What one direction of a connection promises, with no headers, lengths   *)
(* or pieces in sight: messages come as they were sent, whole, in order    *)
(* and each once.  PokerServer, Session and Client take a connection to be *)
(* two of these, one each way, as long as both ends are there.             *)
(***************************************************************************)
EXTENDS Sequences

CONSTANT Message

VARIABLES
    queue,        \* sent and not received
    received      \* received, in order

vars == <<queue, received>>

Init == queue = <<>> /\ received = <<>>

Send(m) ==
    /\ queue' = Append(queue, m)
    /\ UNCHANGED received

Receive ==
    /\ queue # <<>>
    /\ received' = Append(received, Head(queue))
    /\ queue' = Tail(queue)

Next == (\E m \in Message : Send(m)) \/ Receive

Spec == Init /\ [][Next]_vars
=============================================================================
