---------------------------- MODULE MCHandshake ----------------------------
(***************************************************************************)
(* Small groups of agents for Handshake.  a1, a2 are sessions of alice,    *)
(* b1, b2 of bob, c1 of carol; the scenarios say which of them exist and   *)
(* whom they may dial.                                                     *)
(***************************************************************************)
EXTENDS Handshake

CONSTANTS alice, bob, carol, a1, a2, b1, b2, c1

MCAgent == { alice, bob }
MCAgents3 == { alice, bob, carol }
OwnerOf(s) ==
    IF s \in {a1, a2} THEN alice ELSE IF s \in {b1, b2} THEN bob ELSE carol
MCOwner == [s \in Slot |-> OwnerOf(s)]

(* One session each, and both may dial.                                    *)
PairSlots == { a1, b1 }
PairDial == { << a1, bob >>, << b1, alice >> }

(* Two sessions each; the first of each dials, the second may answer.      *)
CrossedSlots == { a1, a2, b1, b2 }
CrossedDial == { << a1, bob >>, << b1, alice >> }

(* alice dials bob and carol, a session for each; bob has a session more.  *)
FanSlots == { a1, a2, b1, b2, c1 }
FanDial == { << a1, bob >>, << a2, carol >> }
=============================================================================
