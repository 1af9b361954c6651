------------------------------ MODULE NullModel ------------------------------
(***************************************************************************)
(* colony/nullmodel.py, run_null_model_trial(): every agent draws its      *)
(* choice at random each tick, without field, belief or file; the trial    *)
(* reports whether the draws happened to end in consensus.                 *)
(***************************************************************************)
EXTENDS Consensus

CONSTANTS
    NumAgents, NumTicks,
    Location,
    Nowhere         \* no location

(* __post_init__() refuses any other configuration.                        *)
ASSUME ConfigAssumption ==
    /\ NumAgents \in Nat \ {0}
    /\ NumTicks \in Nat \ {0}
    /\ Location # {}
ASSUME NowhereAssumption == Nowhere \notin Location

VARIABLES
    choice_history,
    returned,
    consensus_tick  \* of the result, once returned

vars == << choice_history, returned, consensus_tick >>

Choices == [1 .. NumAgents -> Location]

TypeOK ==
    /\ choice_history \in Seq(Choices)
    /\ Len(choice_history) <= NumTicks
    /\ returned \in BOOLEAN
    /\ consensus_tick \in 0 .. NumTicks

Init == choice_history = << >> /\ returned = FALSE /\ consensus_tick = 0

(* One draw per agent, in the order of their indices.                      *)
Tick ==
    /\ Len(choice_history) < NumTicks
    /\ \E tick_choices \in Choices :
         choice_history' = Append(choice_history, tick_choices)
    /\ UNCHANGED << returned, consensus_tick >>

(* The result's converged is consensus_tick # 0.                           *)
Return ==
    /\ Len(choice_history) = NumTicks
    /\ ~returned
    /\ returned' = TRUE
    /\ consensus_tick' = FindSustainedConsensusTick(choice_history)
    /\ UNCHANGED choice_history

Next == Tick \/ Return

Spec == Init /\ [][Next]_vars

-----------------------------------------------------------------------------
(* A trial converged exactly if its last tick is unanimous: a late         *)
(* agreement counts, an early one that broke does not.                     *)
ConvergedIffLastUnanimous ==
    returned =>
        (consensus_tick # 0 <=> \E l \in Location : Unanimous(choice_history[NumTicks], l))

(* The search over the finished history finds, after every tick, the start *)
(* of the run of unanimous ticks the last tick belongs to.                 *)
Since == FindSustainedConsensusTick(choice_history)
Winner == IF Since = 0 THEN Nowhere ELSE choice_history[Since][1]

Watch == INSTANCE Unanimity
    WITH ticks <- Len(choice_history), winner <- Winner, since <- Since
WatchSpec == Watch!Spec
=============================================================================
