------------------------------ MODULE MCSweep ------------------------------
(* Plans of at most two axes, and calls of run_parameter_sweep() made      *)
(* without a plan.                                                         *)
EXTENDS SweepReport

CONSTANTS A, B

MCRequired == {"decay"}
MCValues == { << >>, << 1 >>, << 1, 1 >>, << 0, 3 >> }
Axis == [name : {A, B, Blank}, negative_control : {A, Blank}, values : MCValues,
         parameter : {"decay", "sensing_noise_std", "num_agents", "seed"}]
MCPlans ==
    [version : {1}, axes : {<< >>} \cup { << a >> : a \in Axis } \cup (Axis \X Axis)]
        \cup [version : {2}, axes : { << a >> : a \in Axis }]
MCExperiments ==
    { [param_name |-> "deposit_amount", values |-> << 0, 2 >>, n_per_value |-> 3],
      [param_name |-> "deposit_amount", values |-> << 2, -1 >>, n_per_value |-> 1],
      [param_name |-> "preference_variance", values |-> << 1, 2, 5 >>, n_per_value |-> 1],
      [param_name |-> "sensed_concentration_cap", values |-> << 2, 2 >>, n_per_value |-> 2],
      [param_name |-> "decay", values |-> << >>, n_per_value |-> 1],
      [param_name |-> "decay", values |-> << 1 >>, n_per_value |-> 0],
      [param_name |-> "seed", values |-> << 1 >>, n_per_value |-> 1] }
=============================================================================
