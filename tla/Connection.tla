----------------------------- MODULE Connection -----------------------------
(***************************************************************************)
(* What the handshake of protocol/session.py promises, with no network in  *)
(* sight: a session is established only against a session at the other     *)
(* end that is itself part of the same handshake.  The responder joins a   *)
(* dial addressed to its agent; the initiator joins a responder of the     *)
(* agent it dialled that answers the initiator's agent.  Anybody may give  *)
(* up at any time, and only an established session can be closed.          *)
(*                                                                         *)
(* Handshake.tla implements this module over a faulty bus.                 *)
(***************************************************************************)
CONSTANTS
    Agent,      \* agents
    Slot,       \* the IdleSession objects the program ever creates
    Owner,      \* Owner[s] : the local_id of s
    None        \* no agent, no session

VARIABLES
    phase,      \* phase[s] : phase of the newest object of lineage s
    peer,       \* peer[s]  : the agent s is bound to
    cause       \* cause[s] : the session whose frame established s

vars == << phase, peer, cause >>

Init ==
    /\ phase = [s \in Slot |-> "Idle"]
    /\ peer = [s \in Slot |-> None]
    /\ cause = [s \in Slot |-> None]

Opened(s) == phase[s] \in {"Established", "Closed"}

Dialled(s, p) ==
    /\ phase[s] = "Idle"
    /\ phase' = [phase EXCEPT ![s] = "Handshaking"]
    /\ peer' = [peer EXCEPT ![s] = p]
    /\ UNCHANGED cause

(* t answers the dial of s.                                                *)
Joined(t, s) ==
    /\ phase[t] = "Idle"
    /\ phase[s] # "Idle" /\ peer[s] = Owner[t]
    /\ phase' = [phase EXCEPT ![t] = "Established"]
    /\ peer' = [peer EXCEPT ![t] = Owner[s]]
    /\ cause' = [cause EXCEPT ![t] = s]

(* s learns that t answers its agent.                                      *)
Confirmed(s, t) ==
    /\ phase[s] = "Handshaking"
    /\ Opened(t) /\ peer[s] = Owner[t] /\ peer[t] = Owner[s]
    /\ phase' = [phase EXCEPT ![s] = "Established"]
    /\ cause' = [cause EXCEPT ![s] = t]
    /\ UNCHANGED peer

GaveUp(s) ==
    /\ phase[s] \in {"Idle", "Handshaking"}
    /\ phase' = [phase EXCEPT ![s] = "Spent"]
    /\ UNCHANGED << peer, cause >>

Finished(s) ==
    /\ phase[s] = "Established"
    /\ phase' = [phase EXCEPT ![s] = "Closed"]
    /\ UNCHANGED << peer, cause >>

Next ==
    \E s \in Slot :
        \/ \E p \in Agent : Dialled(s, p)
        \/ \E t \in Slot : Joined(s, t) \/ Confirmed(s, t)
        \/ GaveUp(s)
        \/ Finished(s)

Spec == Init /\ [][Next]_vars
=============================================================================
