--------------------------- MODULE ObservationLog ---------------------------
(***************************************************************************)
(* What agents that share a file may rely on when                          *)
(* Agent.record_observation() returns Ok: the observation is in the file,  *)
(* durably and at once, or it never will be, and then the agent is stuck:  *)
(* this was the last observation it got to record.  Any other call, and    *)
(* any crash, leaves no trace.                                             *)
(*                                                                         *)
(* Agent.tla implements this module (Agent!LogSpec).                       *)
(***************************************************************************)
EXTENDS Sequences

CONSTANTS Worker, Row

VARIABLES
    durable,    \* the observations in the file
    log,        \* log[a] : the observations agent a was told are recorded
    stuck       \* agents whose last one is not in the file

vars == << durable, log, stuck >>

Init ==
    /\ durable = {}
    /\ log = [a \in Worker |-> << >>]
    /\ stuck = {}

New(r) == \A a \in Worker : \A i \in DOMAIN log[a] : log[a][i] # r

Record(a, r) ==
    /\ a \notin stuck
    /\ New(r)
    /\ log' = [log EXCEPT ![a] = Append(@, r)]
    /\ \/ durable' = durable \cup {r} /\ UNCHANGED stuck
       \/ stuck' = stuck \cup {a} /\ UNCHANGED durable

Next == \E a \in Worker, r \in Row : Record(a, r)

Spec == Init /\ [][Next]_vars
=============================================================================
