------------------------------ MODULE Consensus ------------------------------
(***************************************************************************)
(* colony/experiment.py, find_sustained_consensus_tick(): the tick from    *)
(* which on every agent chose one and the same location.                   *)
(*                                                                         *)
(* A history is a sequence of ticks, a tick the sequence of the agents'    *)
(* choices.  Ticks are numbered from 1 here and from 0 in the code; 0      *)
(* stands for the code's None.                                             *)
(***************************************************************************)
EXTENDS Naturals, Sequences

Unanimous(choices, location) ==
    choices # << >> /\ \A i \in DOMAIN choices : choices[i] = location

(* A bug: later ticks need only be unanimous, on whatever location.        *)
Sustained_AnyWinner(history, start) ==
    /\ history[start] # << >>
    /\ \A later \in start .. Len(history) : Unanimous(history[later], history[later][1])

(* A bug: the last tick is not looked at.                                  *)
Sustained_SkipsLast(history, start) ==
    /\ history[start] # << >>
    /\ \A later \in start .. Len(history) - 1 : Unanimous(history[later], history[start][1])

(* The candidate is the first agent's choice at start.                     *)
Sustained(history, start) ==
    /\ history[start] # << >>
    /\ \A later \in start .. Len(history) : Unanimous(history[later], history[start][1])

Starts(history) == { s \in 1 .. Len(history) : Sustained(history, s) }

(* A bug: a later start replaces an earlier one.                           *)
FindSustainedConsensusTick_Latest(history) ==
    IF Starts(history) = {} THEN 0
    ELSE CHOOSE s \in Starts(history) : \A t \in Starts(history) : t <= s

FindSustainedConsensusTick(history) ==
    IF Starts(history) = {} THEN 0
    ELSE CHOOSE s \in Starts(history) : \A t \in Starts(history) : s <= t
=============================================================================
