------------------------------- MODULE Session -------------------------------
(***************************************************************************)
(* What the server promises to one peer, with no reads, writes, handlers   *)
(* or other connections in sight: a peer that connects is greeted, then    *)
(* its frames are dealt with one by one in the order they were sent, each  *)
(* request with one reply, and the replies come in the same order.  A      *)
(* frame whose header does not decode makes the server deaf to the rest.   *)
(* The session may end at any time.                                        *)
(*                                                                         *)
(* PokerServer implements a session for every connection; Client relies on *)
(* one.                                                                    *)
(***************************************************************************)
EXTENDS Naturals, Sequences

CONSTANTS
    Frame,        \* what a peer can send
    Asking,       \* the frames that call for a reply
    Undecodable,  \* the frames whose header does not decode
    rsp(_),       \* the reply to a frame
    greeting,     \* the reply to the connection itself
    Window        \* how many replies can be on their way to a peer that does not read

VARIABLES
    phase,        \* "none", "queued" until accepted, "served", or "deaf"
    frames,       \* sent and not dealt with
    due,          \* replies not yet on their way
    delivered     \* replies on their way to the peer

vars == <<phase, frames, due, delivered>>

Init == phase = "none" /\ frames = <<>> /\ due = <<>> /\ delivered = <<>>
-----------------------------------------------------------------------------
Connect ==
    /\ phase = "none" /\ phase' = "queued"
    /\ frames' = <<>> /\ due' = <<>> /\ delivered' = <<>>

Send(f) ==
    /\ phase # "none"
    /\ frames' = Append(frames, f)
    /\ UNCHANGED <<phase, due, delivered>>

Receive ==
    /\ delivered # <<>>
    /\ delivered' = Tail(delivered)
    /\ UNCHANGED <<phase, frames, due>>

Accept ==
    /\ phase = "queued" /\ phase' = "served"
    /\ due' = Append(due, greeting)
    /\ UNCHANGED <<frames, delivered>>

Answer ==
    /\ phase = "served" /\ frames # <<>> /\ Head(frames) \in Asking
    /\ frames' = Tail(frames)
    /\ due' = Append(due, rsp(Head(frames)))
    /\ UNCHANGED <<phase, delivered>>

Ignore ==
    /\ phase = "served" /\ frames # <<>> /\ Head(frames) \notin Asking \cup Undecodable
    /\ frames' = Tail(frames)
    /\ UNCHANGED <<phase, due, delivered>>

Refuse ==
    /\ phase = "served" /\ frames # <<>> /\ Head(frames) \in Undecodable
    /\ phase' = "deaf"
    /\ UNCHANGED <<frames, due, delivered>>

Deliver ==
    /\ due # <<>> /\ Len(delivered) < Window
    /\ delivered' = Append(delivered, Head(due))
    /\ due' = Tail(due)
    /\ UNCHANGED <<phase, frames>>

\* Either end goes away: the peer may still read the first of what is on its way.
End ==
    /\ phase # "none" /\ phase' = "none"
    /\ frames' = <<>> /\ due' = <<>>
    /\ \E k \in 0 .. Len(delivered) : delivered' = SubSeq(delivered, 1, k)
-----------------------------------------------------------------------------
Handle == Answer \/ Ignore \/ Refuse

Next ==
    \/ Connect \/ (\E f \in Frame : Send(f)) \/ Receive
    \/ Accept \/ Handle \/ Deliver
    \/ End

Spec == Init /\ [][Next]_vars

\* While the session lasts the server accepts, deals with each frame, and delivers.
Fairness == WF_vars(Accept) /\ WF_vars(Handle) /\ WF_vars(Deliver)

FairSpec == Spec /\ Fairness
=============================================================================
