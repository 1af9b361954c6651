------------------------------- MODULE Colony -------------------------------
(***************************************************************************)
(* colony/experiment.py, run_colony_trial(), and colony/demo.py,           *)
(* run_demo_colony(): the coordinator loop over real agents, each with a   *)
(* file of its own, and one pheromone field, run any number of times into  *)
(* the same directory.                                                     *)
(*                                                                         *)
(* Which location an agent chooses depends on what it senses, its          *)
(* preference and the noise; here it may be any.  Concentrations are kept  *)
(* as what they are made of: conc[l][k] deposits at l that went through k  *)
(* evaporations stand for the sum of deposit_amount * (1 - decay)^k.       *)
(* An agent's calls end as Agent.tla says: an observation is committed, or *)
(* held back by a commit that failed unnoticed, or the call fails.         *)
(*                                                                         *)
(* before is history: the files as they were when the run began.           *)
(***************************************************************************)
EXTENDS Consensus, FiniteSets

CONSTANTS
    NumAgents, NumTicks,
    Location,
    Programs,       \* which of "trial" and "demo" are run
    Amounts,        \* signs the configured deposit_amount may have
    MaxRuns         \* bound on the runs into one directory

(* What ColonyTrialConfig and run_colony_trial() accept.                   *)
ASSUME ConfigAssumption ==
    /\ NumAgents \in Nat \ {0}
    /\ NumTicks \in Nat \ {0}
    /\ Location # {}
    /\ Amounts # {} /\ Amounts \subseteq {"negative", "zero", "positive"}
ASSUME RunsAssumption == MaxRuns \in Nat
ASSUME ProgramsAssumption ==
    /\ Programs # {} /\ Programs \subseteq {"trial", "demo"}
    /\ "demo" \in Programs => "positive" \in Amounts

VARIABLES
    runs, phase,
    program,        \* the program of this run
    deposit_amount, \* and the sign configured for it
    open,           \* agents whose connection is open
    file,           \* file[i] : committed observations, of all runs
    held,           \* held[i] : observations in a transaction left open
    conc, tick_choices, choice_history, concentration_history,
    consensus_tick, \* of the result of a trial
    counts,         \* observation_counts of the summary of the demo
    before

disk == << file, held >>
trace == << choice_history, concentration_history >>
setup == << runs, program, deposit_amount >>
vars == << setup, phase, open, disk, conc, tick_choices, trace,
           consensus_tick, counts, before >>

Agents == 1 .. NumAgents
Ages == 0 .. NumTicks
Field == [Location -> [Ages -> Nat]]
NoDeposits == [l \in Location |-> [k \in Ages |-> 0]]

TypeOK ==
    /\ runs \in 0 .. MaxRuns
    /\ phase \in {"idle", "building", "ticking", "returned", "raised"}
    /\ program \in Programs
    /\ deposit_amount \in Amounts
    /\ open \subseteq Agents
    /\ file \in [Agents -> Seq(Location)]
    /\ held \in [Agents -> Seq(Location)] /\ \A i \in Agents : Len(held[i]) <= 1
    /\ conc \in Field
    /\ tick_choices \in Seq(Location) /\ Len(tick_choices) <= NumAgents
    /\ choice_history \in Seq([Agents -> Location]) /\ Len(choice_history) <= NumTicks
    /\ concentration_history \in Seq(Field)
    /\ consensus_tick \in 0 .. NumTicks
    /\ counts \in [Agents -> Nat]
    /\ before \in [Agents -> Seq(Location)]

(* The demo has a deposit of its own.                                      *)
Configured(prog, amount) ==
    /\ prog \in Programs
    /\ amount \in Amounts
    /\ prog = "demo" => amount = "positive"

Init ==
    /\ runs = 0 /\ phase = "idle" /\ open = {}
    /\ Configured(program, deposit_amount)
    /\ file = [i \in Agents |-> << >>] /\ held = file /\ before = file
    /\ conc = NoDeposits
    /\ tick_choices = << >> /\ choice_history = << >> /\ concentration_history = << >>
    /\ consensus_tick = 0
    /\ counts = [i \in Agents |-> 0]

-----------------------------------------------------------------------------
(* A new field and empty histories.  What an earlier run that failed while *)
(* it built its agents left open has been collected by now.                *)
StartRun ==
    /\ phase \in {"idle", "returned", "raised"}
    /\ runs < MaxRuns
    /\ runs' = runs + 1
    /\ phase' = "building"
    /\ Configured(program', deposit_amount')
    /\ open' = {}
    /\ conc' = NoDeposits
    /\ tick_choices' = << >> /\ choice_history' = << >> /\ concentration_history' = << >>
    /\ consensus_tick' = 0
    /\ counts' = [i \in Agents |-> 0]
    /\ before' = file
    /\ UNCHANGED disk

(* Agent(...) on agent_{index}.sqlite3, which may exist from earlier runs. *)
BuildAgent ==
    /\ phase = "building"
    /\ open' = open \cup {Cardinality(open) + 1}
    /\ phase' = IF open' = Agents THEN "ticking" ELSE "building"
    /\ UNCHANGED << setup, disk, conc, tick_choices, trace,
                    consensus_tick, counts, before >>

(* A constructor raises: the try has not been entered.                     *)
BuildFails ==
    /\ phase = "building"
    /\ phase' = "raised"
    /\ UNCHANGED << setup, open, disk, conc, tick_choices, trace,
                    consensus_tick, counts, before >>

(* A bug: only a run that returns closes its agents.                       *)
Leave_ForgetsFinally(how) ==
    /\ phase' = how
    /\ open' = IF how = "returned" THEN {} ELSE open
    /\ held' = [i \in Agents |-> << >>]

(* The finally: every agent is closed, which drops an open transaction.    *)
Leave(how) ==
    /\ phase' = how
    /\ open' = {}
    /\ held' = [i \in Agents |-> << >>]

(* record_observation() returns Ok.                                        *)
Committed(i, l) == file' = [file EXCEPT ![i] = Append(@, l)] /\ UNCHANGED held
HeldBack(i, l) == held' = [held EXCEPT ![i] = Append(@, l)] /\ UNCHANGED file

Deposit(l) == conc' = [conc EXCEPT ![l][0] = @ + 1]

Turn == Len(tick_choices) + 1
InTick == phase = "ticking" /\ Len(choice_history) < NumTicks /\ Turn \in Agents

(* A bug: the choice is deposited before its record is known to be made,   *)
(* and a failure to record it skips the agent instead of the run.          *)
AgentTurn_ForgivesRecord(l) ==
    /\ InTick
    /\ deposit_amount # "negative"
    /\ \/ held[Turn] = << >> /\ (Committed(Turn, l) \/ HeldBack(Turn, l))
       \/ UNCHANGED disk
    /\ Deposit(l)
    /\ tick_choices' = Append(tick_choices, l)
    /\ UNCHANGED << setup, phase, open, trace, consensus_tick, counts, before >>

(* The turn of one agent: record_observation(), deposit(), append().  An   *)
(* agent that holds an observation back cannot begin another transaction.  *)
AgentTurn(l) ==
    /\ InTick
    /\ held[Turn] = << >>
    /\ deposit_amount # "negative"
    /\ Committed(Turn, l) \/ HeldBack(Turn, l)
    /\ Deposit(l)
    /\ tick_choices' = Append(tick_choices, l)
    /\ UNCHANGED << setup, phase, open, trace, consensus_tick, counts, before >>

(* record_observation() raises or returns Err, which the loop turns into   *)
(* an exception.                                                           *)
RecordFails ==
    /\ InTick
    /\ Leave("raised")
    /\ UNCHANGED << setup, file, conc, tick_choices, trace,
                    consensus_tick, counts, before >>

(* deposit() raises, after the observation was recorded.                   *)
DepositFails(l) ==
    /\ InTick
    /\ deposit_amount = "negative"
    /\ \/ file' = [file EXCEPT ![Turn] = Append(@, l)]
       \/ UNCHANGED file
    /\ Leave("raised")
    /\ UNCHANGED << setup, conc, tick_choices, trace,
                    consensus_tick, counts, before >>

Evaporated(field) ==
    [l \in Location |-> [k \in Ages |-> IF k = 0 THEN 0 ELSE field[l][k - 1]]]

(* A bug: the next tick goes on with the choices of this one.              *)
EndTick_KeepsChoices ==
    /\ phase = "ticking" /\ Len(tick_choices) = NumAgents
    /\ conc' = Evaporated(conc)
    /\ choice_history' = Append(choice_history, tick_choices)
    /\ concentration_history' = Append(concentration_history, conc')
    /\ UNCHANGED << setup, phase, open, disk, tick_choices,
                    consensus_tick, counts, before >>

(* A bug: the snapshot is taken before the evaporation.                    *)
EndTick_SnapshotsFirst ==
    /\ phase = "ticking" /\ Len(tick_choices) = NumAgents
    /\ concentration_history' = Append(concentration_history, conc)
    /\ conc' = Evaporated(conc)
    /\ choice_history' = Append(choice_history, tick_choices)
    /\ tick_choices' = << >>
    /\ UNCHANGED << setup, phase, open, disk, consensus_tick, counts, before >>

(* The end of a tick: evaporate(), then the two histories.                 *)
EndTick ==
    /\ phase = "ticking" /\ Len(tick_choices) = NumAgents
    /\ conc' = Evaporated(conc)
    /\ choice_history' = Append(choice_history, tick_choices)
    /\ concentration_history' = Append(concentration_history, conc')
    /\ tick_choices' = << >>
    /\ UNCHANGED << setup, phase, open, disk, consensus_tick, counts, before >>

(* After the last tick: a trial is evaluated, the demo counts the rows of  *)
(* its files before it closes the agents.  observation_count() is 0 for an *)
(* agent whose SELECT is not answered.                                     *)
Return ==
    /\ phase = "ticking" /\ Len(choice_history) = NumTicks
    /\ Leave("returned")
    /\ \/ /\ program = "trial"
          /\ consensus_tick' = FindSustainedConsensusTick(choice_history)
          /\ UNCHANGED counts
       \/ /\ program = "demo"
          /\ \E answered \in SUBSET Agents :
               counts' = [i \in Agents |->
                            IF i \in answered THEN Len(file[i]) + Len(held[i]) ELSE 0]
          /\ UNCHANGED consensus_tick
    /\ UNCHANGED << setup, file, conc, tick_choices, trace, before >>

Next ==
    \/ StartRun \/ BuildAgent \/ BuildFails
    \/ \E l \in Location : AgentTurn(l) \/ DepositFails(l)
    \/ RecordFails \/ EndTick \/ Return

Spec == Init /\ [][Next]_vars

-----------------------------------------------------------------------------
(* The snapshot of a tick follows from the choices up to that tick alone:  *)
(* what was chosen in a tick is deposited once, at the chosen location,    *)
(* and evaporates once per tick from that tick on.                         *)
FieldFollowsHistory ==
    \A t \in DOMAIN concentration_history, l \in Location, k \in Ages :
        concentration_history[t][l][k] =
            IF k \in 1 .. t
            THEN Cardinality({ i \in Agents : choice_history[t - k + 1][i] = l })
            ELSE 0

Chosen(i) ==
    [t \in DOMAIN choice_history |-> choice_history[t][i]]
        \o (IF i \in DOMAIN tick_choices THEN << tick_choices[i] >> ELSE << >>)

(* An agent's file holds the choices the run counted, in their order,      *)
(* after what was there before; when the run is over, however it ended, at *)
(* most the last one is missing.  Only a deposit that raises leaves a row  *)
(* more, the first agent's, and then the run counted no choice at all.     *)
(* What the demo reports as counts are these rows, older ones and the one  *)
(* held back included, or 0 for an agent whose file it could not read.     *)
RowsFollowChoices ==
    \A i \in Agents :
        LET all == before[i] \o Chosen(i)
        IN  /\ IF phase = "ticking"
               THEN file[i] \o held[i] = all
               ELSE \/ file[i] = all
                    \/ Chosen(i) # << >> /\ file[i] = SubSeq(all, 1, Len(all) - 1)
                    \/ /\ deposit_amount = "negative" /\ i = 1 /\ Chosen(i) = << >>
                       /\ Len(file[i]) = Len(all) + 1 /\ SubSeq(file[i], 1, Len(all)) = all
            /\ phase = "returned" /\ program = "demo" => counts[i] \in {0, Len(all)}

(* The row an agent records in tick t of this run, where its file has it.  *)
Recorded(i, t) == Len(before[i]) + t \in DOMAIN file[i]
RowOfTick(i, t) == file[i][Len(before[i]) + t]

(* The reported consensus is in the files: from its tick on the row of     *)
(* every agent is there and names one location, the one the result ends    *)
(* with; only a row of the last tick may be missing, of an agent whose     *)
(* last commit failed unnoticed.  The row of the tick before is there for  *)
(* all agents, and some agent's names another location.                    *)
ConsensusOnDisk ==
    phase = "returned" /\ consensus_tick # 0 =>
        LET agreed == choice_history[NumTicks][1]
        IN  /\ \A i \in Agents, t \in consensus_tick .. NumTicks :
                 IF Recorded(i, t) THEN RowOfTick(i, t) = agreed ELSE t = NumTicks
            /\ consensus_tick > 1 =>
                 /\ \A i \in Agents : Recorded(i, consensus_tick - 1)
                 /\ \E i \in Agents : RowOfTick(i, consensus_tick - 1) # agreed

(* When a run is over, however it ended, no transaction is left open, and  *)
(* a connection only if building the agents failed, before any of them     *)
(* recorded anything: the try that closes them begins after that.          *)
LeftOpenByBuildingOnly ==
    phase \in {"returned", "raised"} =>
        /\ \A i \in Agents : held[i] = << >>
        /\ open # {} => open # Agents /\ file = before
=============================================================================
