------------------------------ MODULE Mailbox ------------------------------
(***************************************************************************)
(* What a client of the in-process bus may rely on: one lane of frames in  *)
(* flight and one box of delivered frames per endpoint.  A post puts zero, *)
(* one or two copies of a message on the addressee's lane; a delivery      *)
(* empties every lane into its box, each lane in some order; a take        *)
(* removes the oldest frame of one box.  Frames never change lane, and a   *)
(* later delivery never gets in front of an earlier one.                   *)
(*                                                                         *)
(* Bus.tla, which follows the code line by line, implements this module    *)
(* (Bus!MailboxSpec); Handshake.tla uses its operators as the network.     *)
(***************************************************************************)
EXTENDS FaultInjector

CONSTANTS Endpoint, Message

VARIABLES
    lane,   \* lane[e] : frames posted to e, not yet delivered
    box     \* box[e]  : frames delivered to e, not yet taken

vars == << lane, box >>

TypeOK ==
    /\ lane \in [Endpoint -> Seq(Frames(Message))]
    /\ box \in [Endpoint -> Seq(Frames(Message))]

Init ==
    /\ lane = [e \in Endpoint |-> << >>]
    /\ box = [e \in Endpoint |-> << >>]

(* Effect of bus.send(e, m) on the lanes.                                  *)
Enqueue(e, m) ==
    \E frames \in Transmissions(m) : lane' = [lane EXCEPT ![e] = @ \o frames]

(* A bug: the oldest frame is looked at and stays where it is.             *)
Pop_Peeks(e) ==
    /\ box[e] # << >>
    /\ UNCHANGED box

(* Effect of bus.try_recv(e) on the boxes, when there is a frame to take.  *)
Pop(e) ==
    /\ box[e] # << >>
    /\ box' = [box EXCEPT ![e] = Tail(@)]

Post(e, m) ==
    /\ Enqueue(e, m)
    /\ UNCHANGED box

(* A bug: a delivery goes in front of the frames that are still unread.    *)
Deliver_NewestFirst ==
    /\ box' = [e \in Endpoint |-> lane[e] \o box[e]]
    /\ lane' = [e \in Endpoint |-> << >>]

(* bus.flush().                                                            *)
Deliver ==
    /\ LET orders == [e \in Endpoint |-> ReorderBatch(lane[e])]
       IN  \E order \in [Endpoint -> UNION { orders[e] : e \in Endpoint }] :
             /\ \A e \in Endpoint : order[e] \in orders[e]
             /\ box' = [e \in Endpoint |-> box[e] \o order[e]]
    /\ lane' = [e \in Endpoint |-> << >>]

Take(e) ==
    /\ Pop(e)
    /\ UNCHANGED lane

Next ==
    \/ \E e \in Endpoint, m \in Message : Post(e, m)
    \/ Deliver
    \/ \E e \in Endpoint : Take(e)

Spec == Init /\ [][Next]_vars
=============================================================================
