------------------------------ MODULE Unanimity ------------------------------
(***************************************************************************)
(* What sustained consensus means, told tick by tick: the agents are in    *)
(* consensus on a location since the first tick of the present unbroken    *)
(* run of ticks in which they all chose it.                                *)
(*                                                                         *)
(* find_sustained_consensus_tick() searches the finished history for a     *)
(* start after which nothing differs; NullModel.tla shows that this        *)
(* yields, after every tick, what is kept here.                            *)
(***************************************************************************)
EXTENDS Naturals

CONSTANTS Location, Nowhere

VARIABLES
    ticks,      \* how many there have been
    winner,     \* what all agents chose in the last one, or Nowhere
    since       \* the tick at which the run of that choice began, or 0

vars == << ticks, winner, since >>

Init == ticks = 0 /\ winner = Nowhere /\ since = 0

Split ==
    /\ ticks' = ticks + 1
    /\ winner' = Nowhere
    /\ since' = 0

Agree(location) ==
    /\ ticks' = ticks + 1
    /\ winner' = location
    /\ since' = IF winner = location THEN since ELSE ticks + 1

Next == Split \/ \E location \in Location : Agree(location)

Spec == Init /\ [][Next]_vars
=============================================================================
