------------------------------- MODULE Sweep -------------------------------
(***************************************************************************)
(* colony/sweep.py, run_parameter_sweep(), called once by an experiment of *)
(* its own or once for each axis of an accepted experiment plan, with one  *)
(* db_dir, trial count and first seed for all of them.  No code under src/ *)
(* runs a plan: that loop is the program a plan is written for (external). *)
(*                                                                         *)
(* The calls are numbered, and the points of a call.  A swept value is a   *)
(* float, counted in units of 1/Unit.  A trial is the function of its      *)
(* configuration and seed that Colony describes, of which the consensus    *)
(* tick is kept (0 for None); what it returns is chosen when a             *)
(* configuration is first run.                                             *)
(*                                                                         *)
(* ran is history: the trials that returned, in order, with the directory  *)
(* each kept its files in.                                                 *)
(***************************************************************************)
EXTENDS ExperimentPlan, FiniteSets

CONSTANTS
    Plans,          \* raw plans that may be loaded
    Experiments,    \* calls [param_name, values, n_per_value] made without one
    PlanTrials,     \* n_per_value of the calls made for a plan
    SeedBase,       \* seed_base of all calls
    Unit,           \* a value v stands for v / Unit
    NumTicks        \* num_ticks of the base configuration

ASSUME SweepAssumption ==
    /\ PlanTrials \in Nat \ {0} /\ SeedBase \in Nat
    /\ Unit \in Nat \ {0} /\ NumTicks \in Nat \ {0}

(* What a call is given, and what is taken from an axis for it.            *)
Calls == [param_name : STRING, values : Seq(Int), n_per_value : Int]

ASSUME CallsAssumption ==
    /\ Experiments \subseteq Calls
    /\ Blank \notin Plans
    /\ \A raw \in Plans :
         /\ Len(raw.axes) \in Nat /\ DOMAIN raw.axes = 1 .. Len(raw.axes)
         /\ \A i \in DOMAIN raw.axes :
              raw.axes[i].parameter \in STRING /\ raw.axes[i].values \in Seq(Int)

VARIABLES
    plan,           \* the plan loaded, or Blank
    calls,          \* the calls to make
    phase, call,    \* of the program, and the number of the call it is in
    outcomes,       \* of the trials of the current point
    points,         \* of the current call
    results,        \* what the calls returned so far
    why,            \* what raised, or "nothing"
    ran

work == << outcomes, points, results, ran >>
vars == << plan, calls, phase, call, work, why >>

Call(axis) ==
    [param_name |-> axis.parameter, values |-> axis.values, n_per_value |-> PlanTrials]
Planned == plan # Blank

TypeOK ==
    /\ plan \in Plans \cup {Blank}
    /\ phase \in {"loaded", "ready", "sweeping", "done", "raised"}
    /\ call \in 1 .. Len(calls) + 1
    /\ Len(results) < call
    /\ phase = "sweeping" =>
         /\ Len(points) <= Len(calls[call].values)
         /\ Len(outcomes) <= calls[call].n_per_value
    /\ why \in {"nothing", "plan", "arguments", "config", "trial", "statistics"}
    /\ (phase = "raised") = (why # "nothing")
    /\ \A i \in DOMAIN ran : ran[i].tick \in 0 .. NumTicks

Init ==
    /\ \/ plan \in Plans /\ calls = << >> /\ phase = "loaded"
       \/ plan = Blank /\ calls \in { << c >> : c \in Experiments } /\ phase = "ready"
    /\ call = 1
    /\ outcomes = << >> /\ points = << >> /\ results = << >> /\ ran = << >>
    /\ why = "nothing"

-----------------------------------------------------------------------------
Raise(what) == phase' = "raised" /\ why' = what

(* validate_experiment_plan()                                              *)
ValidatePlan ==
    /\ phase = "loaded"
    /\ \/ /\ Accepted(plan)
          /\ phase' = "ready"
          /\ calls' = [i \in DOMAIN plan.axes |-> Call(plan.axes[i])]
          /\ UNCHANGED why
       \/ ~Accepted(plan) /\ Raise("plan") /\ UNCHANGED calls
    /\ UNCHANGED << plan, call, work >>

Current == calls[call]

(* The guards of run_parameter_sweep().                                    *)
WellFormed(c) == c.param_name \in Sweepable /\ c.values # << >> /\ c.n_per_value >= 1
StartSweep ==
    /\ phase = "ready" /\ call <= Len(calls)
    /\ \/ WellFormed(Current) /\ phase' = "sweeping" /\ UNCHANGED why
       \/ ~WellFormed(Current) /\ Raise("arguments")
    /\ UNCHANGED << plan, calls, call, work >>

Point == Len(points) + 1
Value == Current.values[Point]
Seed == SeedBase + Len(outcomes)
InPoint ==
    /\ phase = "sweeping"
    /\ Point <= Len(Current.values)
    /\ Len(outcomes) < Current.n_per_value

(* from_mapping() wants ints, or sequences, for the fields a float cannot  *)
(* be; __post_init__() refuses what is out of range.                       *)
ConfigAccepts(param, v) ==
    CASE param = "decay" -> v \in 0 .. Unit
      [] param = "sensing_noise_std" -> v >= 0
      [] param \in {"preference_variance", "sensed_concentration_cap"} -> v > 0
      [] param = "deposit_amount" -> TRUE
      [] OTHER -> FALSE

(* deposit() raises on a negative amount, in the first turn of the trial.  *)
TrialMayReturn(param, v) ==
    ConfigAccepts(param, v) /\ (param = "deposit_amount" => v >= 0)

(* A bug: the directory is named by the parameter alone.                   *)
Directory_OfParameter(param, index) == << param, "point", 0 >>
(* db_dir / "{param_name}_point_{index}", in which the trial makes         *)
(* "trial_{seed}".                                                         *)
Directory(param, index) == << param, "point", index >>

Trial(tick) ==
    [call |-> call, param |-> Current.param_name, value |-> Value, seed |-> Seed,
     path |-> << Directory(Current.param_name, Point - 1), Seed >>, tick |-> tick]

(* A bug: the seeds go on counting from point to point.                    *)
RunTrial_FreshSeeds(tick) ==
    /\ InPoint
    /\ TrialMayReturn(Current.param_name, Value)
    /\ LET seed == SeedBase + Len(ran)
       IN  ran' = Append(ran, [Trial(tick) EXCEPT !.seed = seed,
                                 !.path = << Directory(Current.param_name, Point - 1), seed >>])
    /\ outcomes' = Append(outcomes, tick # 0)
    /\ UNCHANGED << plan, calls, phase, call, points, results, why >>

(* run_colony_trial() returns, always the same for the same configuration. *)
RunTrial(tick) ==
    /\ InPoint
    /\ TrialMayReturn(Current.param_name, Value)
    /\ \A i \in DOMAIN ran :
         (ran[i].param = Current.param_name /\ ran[i].value = Value /\ ran[i].seed = Seed)
            => tick = ran[i].tick
    /\ ran' = Append(ran, Trial(tick))
    /\ outcomes' = Append(outcomes, tick # 0)
    /\ UNCHANGED << plan, calls, phase, call, points, results, why >>

(* The configuration is refused, or the trial raises: the call raises, and *)
(* the points it had are lost.                                             *)
TrialRaises ==
    /\ InPoint
    /\ Raise(IF ConfigAccepts(Current.param_name, Value) THEN "trial" ELSE "config")
    /\ UNCHANGED << plan, calls, call, work >>

Converged == Cardinality({ i \in DOMAIN outcomes : outcomes[i] })
PointResult == [value |-> Value, n |-> Current.n_per_value, successes |-> Converged]

(* The point is summarized: its rate and interval follow from the record   *)
(* (see Statistics); convergence_rate() raises on no outcomes.             *)
EndPoint ==
    /\ phase = "sweeping"
    /\ Point <= Len(Current.values)
    /\ Len(outcomes) = Current.n_per_value
    /\ IF outcomes # << >>
       THEN /\ points' = Append(points, PointResult)
            /\ outcomes' = << >>
            /\ UNCHANGED << phase, why >>
       ELSE Raise("statistics") /\ UNCHANGED << points, outcomes >>
    /\ UNCHANGED << plan, calls, call, results, ran >>

(* The call returns its points.                                            *)
EndSweep ==
    /\ phase = "sweeping"
    /\ Len(points) = Len(Current.values)
    /\ results' = Append(results, points)
    /\ points' = << >>
    /\ call' = call + 1
    /\ phase' = IF call = Len(calls) THEN "done" ELSE "ready"
    /\ UNCHANGED << plan, calls, outcomes, why, ran >>

Next ==
    \/ ValidatePlan \/ StartSweep \/ EndPoint \/ EndSweep \/ TrialRaises
    \/ \E tick \in 0 .. NumTicks : RunTrial(tick)

Spec == Init /\ [][Next]_vars

-----------------------------------------------------------------------------
TrialsOf(c, k) ==
    { i \in DOMAIN ran :
        ran[i].call = c /\ ran[i].path[1] = Directory(calls[c].param_name, k - 1) }

(* What a call returned is what was run for it: one point per value, in    *)
(* the order of the values, each the count over exactly one trial of every *)
(* seed of the one paired sequence, configured with the point's value.     *)
PointsMatchTrials ==
    \A c \in DOMAIN results :
        /\ Len(results[c]) = Len(calls[c].values)
        /\ \A k \in DOMAIN results[c] :
             LET point == results[c][k]
                 trials == TrialsOf(c, k)
             IN  /\ point.value = calls[c].values[k]
                 /\ \A i \in trials : ran[i].value = point.value
                 /\ point.n = Cardinality(trials)
                 /\ { ran[i].seed : i \in trials }
                      = SeedBase .. SeedBase + calls[c].n_per_value - 1
                 /\ point.successes = Cardinality({ i \in trials : ran[i].tick # 0 })

(* No two trials keep their files in one place, though all points share    *)
(* their seeds, and all axes of a plan the directory.                      *)
FilesApart == \A i, j \in DOMAIN ran : ran[i].path = ran[j].path => i = j

(* An accepted plan can be handed to the sweep axis by axis: no call is    *)
(* refused for its arguments and no statistic is undefined, and when all   *)
(* have returned, every required parameter was swept, over different       *)
(* values.  What the plan does not guarantee is that a configuration       *)
(* accepts its values.                                                     *)
PlanRuns ==
    /\ Planned => why # "arguments"
    /\ why # "statistics"
    /\ Planned /\ phase = "done" =>
         /\ Required \subseteq { calls[c].param_name : c \in DOMAIN results }
         /\ \A c \in DOMAIN results : \A j, k \in DOMAIN results[c] :
              results[c][j].value = results[c][k].value => j = k
=============================================================================
