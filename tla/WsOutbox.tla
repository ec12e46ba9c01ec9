------------------------------ MODULE WsOutbox ------------------------------
(***************************************************************************)
(* What a WebSocket promises about outgoing messages, without I/O, frames  *)
(* or handlers: messages are numbered in the order send() accepts them,    *)
(* they leave in that order and at most once, and a closed socket sends    *)
(* nothing more.  WsConnection implements this specification.              *)
(***************************************************************************)
EXTENDS Naturals, Sequences

VARIABLES status,   \* "new", "open" (has a connection) or "closed"
          accepted, \* how many messages send() accepted so far
          waiting,  \* accepted, neither written nor lost, oldest first
          wire,     \* handed to the network, oldest first
          thrown    \* a handler of the application threw

outVars == <<status, accepted, waiting, wire, thrown>>

OutInit == /\ status \in {"new", "open"}
           /\ accepted = 0
           /\ waiting = <<>>
           /\ wire = <<>>
           /\ thrown = FALSE

Open == /\ status = "new"
        /\ status' = "open"
        /\ UNCHANGED <<accepted, waiting, wire>>

(* send() accepts a message; handlers that throw one after the other may   *)
(* have sent several by then.                                              *)
Accept == /\ status = "open"
          /\ accepted' \in Nat /\ accepted < accepted'
          /\ accepted' = accepted + 1 \/ thrown'
          /\ waiting' = waiting \o [i \in 1..(accepted' - accepted) |-> accepted + i]
          /\ UNCHANGED <<status, wire>>

(* The oldest waiting message is written ... *)
Deliver == /\ status = "open" /\ waiting # <<>>
           /\ wire' = Append(wire, Head(waiting))
           /\ waiting' = Tail(waiting)
           /\ UNCHANGED <<status, accepted>>

(* ... or its write failed, and it is not tried again ... *)
Lose == /\ status = "open" /\ waiting # <<>>
        /\ waiting' = Tail(waiting)
        /\ UNCHANGED <<status, accepted, wire>>

(* ... or, behind a handler that threw, the next send() cancels its write. *)
Cut == /\ status = "open" /\ waiting # <<>> /\ thrown
       /\ accepted' = accepted + 1
       /\ waiting' = Append(Tail(waiting), accepted + 1)
       /\ UNCHANGED <<status, wire>>

(* What still waits when the socket closes is dropped, together with what  *)
(* onClose handlers add at the last moment.                                *)
Shut == /\ status \in {"new", "open"}
        /\ status' = "closed"
        /\ accepted' \in Nat /\ accepted <= accepted'
        /\ accepted' <= accepted + 1 \/ thrown'
        /\ waiting' = <<>>
        /\ UNCHANGED wire

(* A handler throws, and nothing leaves or comes. *)
Throw == UNCHANGED <<status, accepted, waiting, wire>>

OutNext == /\ Open \/ Accept \/ Deliver \/ Lose \/ Cut \/ Shut \/ Throw
           /\ thrown' \in BOOLEAN /\ (thrown => thrown')

OutSpec == OutInit /\ [][OutNext]_outVars
=============================================================================
