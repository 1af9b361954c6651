------------------------------ MODULE Analysis ------------------------------
(***************************************************************************)
(* colony/analysis.py, run_publication_analysis(): the demo and a sweep of *)
(* seeded trials.  The demo adds rows to the databases of its agents; the  *)
(* other five artifacts are written one after the other, each over the one *)
(* of an earlier run.  Any step may raise and the process may die at any   *)
(* point, in the middle of a write too; then it is run again.              *)
(*                                                                         *)
(* What the agents of the demo and of a trial choose does not depend on    *)
(* what earlier runs left on disk (Colony.tla), and a trial is a function  *)
(* of its seed, so whether the trial of a seed converges is fixed once and *)
(* for all.                                                                *)
(***************************************************************************)
EXTENDS Naturals, Sequences, FiniteSets

CONSTANTS
    NumTrials,      \* SWEEP_NUM_TRIALS
    MinConverged,   \* MIN_CONVERGED_FOR_HISTOGRAM
    DemoAgents,     \* DEMO_NUM_AGENTS
    DemoTicks,      \* DEMO_NUM_TICKS
    MaxRuns         \* bound on the runs into one project root

ASSUME SweepAssumption ==
    /\ NumTrials \in Nat \ {0}
    /\ MinConverged \in Nat \ {0}
    /\ DemoAgents \in Nat \ {0}
    /\ DemoTicks \in Nat \ {0}
    /\ MaxRuns \in Nat

(* demo_databases of AnalysisArtifacts, by the index in their names.       *)
Databases == 1 .. DemoAgents

(* Its other fields, which are files that each run writes anew.            *)
Artifact == {"demo_summary", "demo_figure", "sweep_summary", "sweep_figure", "figure_registry"}

(* The places of the artifacts in the order they are written in.           *)
Place == [demo_summary |-> 1, demo_figure |-> 2, sweep_summary |-> 3,
          sweep_figure |-> 4, figure_registry |-> 5]

(* An artifact on disk: the run that wrote it, 0 if none did, whether it   *)
(* is complete, and the number of converged trials it was made from.       *)
Content == [run : Nat, whole : BOOLEAN, successes : Nat]
Missing == [run |-> 0, whole |-> FALSE, successes |-> 0]

Stage == Artifact \cup {"idle", "demo", "trials", "returned", "raised"}

VARIABLES
    runs, stage,
    converges,  \* converges[i] : does the trial of seed SWEEP_SEED_BASE + i converge?
    outcomes,   \* of the trials of this run so far
    trials,     \* trials[i] : trials that wrote to the directory of seed SWEEP_SEED_BASE + i
    disk,
    databases   \* databases[i][r] : rows that run r left in the i-th database

vars == << runs, stage, converges, outcomes, trials, disk, databases >>

Seeds == 0 .. NumTrials - 1

TypeOK ==
    /\ runs \in 0 .. MaxRuns
    /\ stage \in Stage
    /\ converges \in [Seeds -> BOOLEAN]
    /\ outcomes \in Seq(BOOLEAN) /\ Len(outcomes) <= NumTrials
    /\ trials \in [Seeds -> Nat]
    /\ disk \in [Artifact -> Content]
    /\ databases \in [Databases -> [1 .. MaxRuns -> Nat]]

Init ==
    /\ runs = 0
    /\ stage = "idle"
    /\ converges \in [Seeds -> BOOLEAN]
    /\ outcomes = << >>
    /\ trials = [i \in Seeds |-> 0]
    /\ disk = [a \in Artifact |-> Missing]
    /\ databases = [i \in Databases |-> [r \in 1 .. MaxRuns |-> 0]]

Successes == Cardinality({ i \in DOMAIN outcomes : outcomes[i] })

-----------------------------------------------------------------------------
Start ==
    /\ stage \in {"idle", "returned", "raised"}
    /\ runs < MaxRuns
    /\ runs' = runs + 1
    /\ stage' = "demo"
    /\ outcomes' = << >>
    /\ UNCHANGED << converges, trials, disk, databases >>

(* A bug: the demo removes the databases it finds.                         *)
Recorded_Afresh(turns, lost) ==
    databases' =
        [i \in Databases |->
            [r \in 1 .. MaxRuns |->
                IF r # runs THEN 0
                ELSE IF i \in lost /\ turns[i] > 0 THEN turns[i] - 1 ELSE turns[i]]]

(* What a demo whose agents had so many turns leaves in their databases,   *)
(* next to the rows of earlier runs.  An agent whose last commit failed    *)
(* unnoticed loses its last row; it cannot lose more (Colony.tla).         *)
Recorded(turns, lost) ==
    databases' =
        [i \in Databases |->
            [databases[i] EXCEPT ![runs] =
                IF i \in lost /\ turns[i] > 0 THEN turns[i] - 1 ELSE turns[i]]]

(* run_demo_colony() returns its summary.                                  *)
Demo ==
    /\ stage = "demo"
    /\ stage' = "demo_summary"
    /\ \E lost \in SUBSET Databases : Recorded([i \in Databases |-> DemoTicks], lost)
    /\ UNCHANGED << runs, converges, outcomes, trials, disk >>

(* It raises, or the process dies in it, in a tick in which the first      *)
(* agents have had their turn.                                             *)
DemoFails ==
    /\ stage = "demo"
    /\ stage' = "raised"
    /\ \E tick \in 0 .. DemoTicks - 1, last \in 0 .. DemoAgents, lost \in SUBSET Databases :
         Recorded([i \in Databases |-> IF i <= last THEN tick + 1 ELSE tick], lost)
    /\ UNCHANGED << runs, converges, outcomes, trials, disk >>

(* The i-th trial of run_statistics_sweep(), counted from 0.               *)
SeedOf(i) == i

(* A trial of run_statistics_sweep(), in the directory named by its seed.  *)
Trial ==
    /\ stage = "trials"
    /\ LET seed == SeedOf(Len(outcomes))
       IN  /\ outcomes' = Append(outcomes, converges[seed])
           /\ trials' = [trials EXCEPT ![seed] = @ + 1]
    /\ stage' = IF Len(outcomes) + 1 = NumTrials THEN "sweep_summary" ELSE "trials"
    /\ UNCHANGED << runs, converges, disk, databases >>

(* A trial raises after it made its directory.                             *)
TrialFails ==
    /\ stage = "trials"
    /\ trials' = [trials EXCEPT ![SeedOf(Len(outcomes))] = @ + 1]
    /\ stage' = "raised"
    /\ UNCHANGED << runs, converges, outcomes, disk, databases >>

(* A bug: the registry is written before the figures of the sweep.         *)
After_RegistryFirst(a) ==
    CASE a = "demo_summary"    -> "demo_figure"
      [] a = "demo_figure"     -> "trials"
      [] a = "sweep_summary"   -> "figure_registry"
      [] a = "figure_registry" -> "sweep_figure"
      [] OTHER                 -> "returned"

(* Where the run goes on when artifact a is written.                       *)
After(a) ==
    CASE a = "demo_summary"  -> "demo_figure"
      [] a = "demo_figure"   -> "trials"
      [] a = "sweep_summary" -> "sweep_figure"
      [] a = "sweep_figure"  -> "figure_registry"
      [] OTHER               -> "returned"

(* A bug: the guard counts trials instead of converged trials.             *)
Declined_CountsTrials(a) == a = "sweep_figure" /\ Len(outcomes) < MinConverged

(* write_convergence_tick_histogram() declines to draw too few trials.     *)
Declined(a) == a = "sweep_figure" /\ Successes < MinConverged

(* A write replaces what was there, or is cut off, by an error, a crash,   *)
(* or, for a figure, because _validate_rendered_png() rejects the file it  *)
(* finds.                                                                  *)
Write(a) ==
    /\ stage = a
    /\ ~Declined(a)
    /\ \E whole \in BOOLEAN :
         /\ disk' = [disk EXCEPT ![a] =
                       [run |-> runs, whole |-> whole, successes |-> Successes]]
         /\ stage' = IF whole THEN After(a) ELSE "raised"
    /\ UNCHANGED << runs, converges, outcomes, trials, databases >>

(* A bug: that there is no figure is not noticed.                          *)
Decline_Ignored(a) ==
    /\ stage = a
    /\ Declined(a)
    /\ stage' = After(a)
    /\ UNCHANGED << runs, converges, outcomes, trials, disk, databases >>

(* The figure is None: RuntimeError.                                       *)
Decline(a) ==
    /\ stage = a
    /\ Declined(a)
    /\ stage' = "raised"
    /\ UNCHANGED << runs, converges, outcomes, trials, disk, databases >>

(* Anything else that goes wrong between two steps.                        *)
Fail ==
    /\ stage \notin {"idle", "returned", "raised"}
    /\ stage' = "raised"
    /\ UNCHANGED << runs, converges, outcomes, trials, disk, databases >>

Next ==
    \/ Start \/ Demo \/ DemoFails \/ Trial \/ TrialFails \/ Fail
    \/ \E a \in Artifact : Write(a) \/ Decline(a)

Spec == Init /\ [][Next]_vars

-----------------------------------------------------------------------------
(* A run of the demo is in a database with all its rows, or all but its    *)
(* last.                                                                   *)
InDatabase(i, run) == databases[i][run] \in {DemoTicks - 1, DemoTicks}

(* An analysis that returns has written the five artifacts it overwrites,  *)
(* in full, in this very run: none is left over from an earlier one.  Its  *)
(* rows are in every database, the last one perhaps missing, but those are *)
(* not of this run alone: WrittenInOrder says what else they must hold.    *)
ReturnedComplete ==
    stage = "returned" =>
        /\ \A a \in Artifact : disk[a].run = runs /\ disk[a].whole
        /\ \A i \in Databases : InDatabase(i, runs)

(* Whatever runs failed and wherever they did, the overwritten artifacts   *)
(* on disk are in the order of writing: none is of a later run than one it *)
(* was made after, and of that one's run only if that one is complete.  So *)
(* the run of a complete registry has left no incomplete one behind.  The  *)
(* databases come before them all and may hold rows of runs that left      *)
(* nothing else, but whichever run an artifact is of, complete or not, the *)
(* databases still hold that run's demo.                                   *)
WrittenInOrder ==
    /\ \A a, b \in Artifact :
         Place[a] < Place[b] =>
             /\ disk[b].run <= disk[a].run
             /\ disk[b].run = disk[a].run /\ disk[b].run # 0 => disk[a].whole
    /\ \A a \in Artifact, i \in Databases :
         disk[a].run # 0 => InDatabase(i, disk[a].run)

(* The summary and the histogram of the sweep report the same successes    *)
(* even if a failed run left them of different ages, and a histogram never *)
(* shows fewer than the minimum.                                           *)
SweepArtifactsAgree ==
    LET summary == disk["sweep_summary"]
        histogram == disk["sweep_figure"]
    IN  /\ histogram.run # 0 => histogram.successes = summary.successes
        /\ histogram.run # 0 => histogram.successes >= MinConverged

(* No two trials of one run share a directory.                             *)
OneTrialPerDirectory == \A i \in Seeds : trials[i] <= runs
=============================================================================
