--------------------------- MODULE ExperimentPlan ---------------------------
(***************************************************************************)
(* colony/experiment_plan.py, validate_experiment_plan(): which plans are  *)
(* accepted, and the fields of ColonyTrialConfig they speak of.            *)
(*                                                                         *)
(* A plan is [version, axes], an axis [name, parameter, values,            *)
(* negative_control].  A name or control that is not a string with visible *)
(* characters is Blank; values that are not a non-empty sequence of        *)
(* numbers are << >>.  The order of the tests decides only which message   *)
(* is raised.                                                              *)
(***************************************************************************)
EXTENDS Integers, Sequences, Functions

CONSTANTS
    Blank,
    Required        \* REQUIRED_ABLATION_PARAMETERS

ConfigFields ==
    { "num_agents", "locations", "num_ticks", "preference_mean_range",
      "preference_variance", "sensing_noise_std", "deposit_amount", "decay",
      "seed", "sensed_concentration_cap" }

(* _SWEEPABLE_FIELD_NAMES of the sweep, known_parameters of the plan.      *)
Sweepable == ConfigFields \ {"seed"}

ASSUME RequiredAssumption == Required \subseteq Sweepable

Parameters(plan) == { plan.axes[i].parameter : i \in DOMAIN plan.axes }

(* _number_values()                                                        *)
NumberValues(values) == values # << >> /\ IsInjective(values)

(* A bug: the names are taken from the whole class, seed included.         *)
Accepted_AnyField(plan) ==
    /\ plan.version = 1
    /\ plan.axes # << >>
    /\ \A i \in DOMAIN plan.axes :
         LET axis == plan.axes[i]
         IN  /\ axis.name # Blank /\ axis.negative_control # Blank
             /\ axis.parameter \in ConfigFields
             /\ NumberValues(axis.values)
             /\ \A j \in 1 .. i - 1 :
                  plan.axes[j].name # axis.name /\ plan.axes[j].parameter # axis.parameter
    /\ Required \subseteq Parameters(plan)

Accepted(plan) ==
    /\ plan.version = 1
    /\ plan.axes # << >>
    /\ \A i \in DOMAIN plan.axes :
         LET axis == plan.axes[i]
         IN  /\ axis.name # Blank /\ axis.negative_control # Blank
             /\ axis.parameter \in Sweepable
             /\ NumberValues(axis.values)
             /\ \A j \in 1 .. i - 1 :
                  plan.axes[j].name # axis.name /\ plan.axes[j].parameter # axis.parameter
    /\ Required \subseteq Parameters(plan)
=============================================================================
