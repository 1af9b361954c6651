--------------------------- MODULE AnalysisProofs ---------------------------
(***************************************************************************)
(* Proofs about the two programs that are run again over what earlier runs *)
(* left behind: Analysis and its artifacts, for any number of trials, any  *)
(* threshold and any number of runs; and, at the end, CheckScript and its  *)
(* cached jar, for any number of kills and outside changes.                *)
(***************************************************************************)
EXTENDS Analysis, CheckScript, FiniteSetTheorems, TLAPS

UnderWay == Stage \ {"idle", "raised"}

(* The stages a run is in only after it wrote artifact a.                  *)
Past(a) ==
    CASE a = "demo_summary"  -> {"demo_figure", "trials", "sweep_summary", "sweep_figure",
                                 "figure_registry", "returned"}
      [] a = "demo_figure"   -> {"trials", "sweep_summary", "sweep_figure",
                                 "figure_registry", "returned"}
      [] a = "sweep_summary" -> {"sweep_figure", "figure_registry", "returned"}
      [] a = "sweep_figure"  -> {"figure_registry", "returned"}
      [] OTHER               -> {"returned"}

(* A run has written, in full, what its stage is past, and nothing else.   *)
Progress ==
    /\ \A a \in Artifact : disk[a].run <= runs
    /\ stage \in UnderWay =>
         \A a \in Artifact :
            IF stage \in Past(a) THEN disk[a].run = runs /\ disk[a].whole
                                 ELSE disk[a].run < runs

(* The trials of a run are those of the first seeds.                       *)
TrialsInOrder ==
    /\ \A i \in DOMAIN outcomes : outcomes[i] = converges[i - 1]
    /\ stage \in {"demo", "demo_summary", "demo_figure"} => outcomes = << >>
    /\ stage = "trials" => Len(outcomes) < NumTrials
    /\ stage \in {"sweep_summary", "sweep_figure"} => Len(outcomes) = NumTrials
    /\ \A i \in Seeds : trials[i] <= runs
    /\ stage \in UnderWay => \A i \in Seeds : i >= Len(outcomes) => trials[i] < runs

(* What a complete sweep counts.                                           *)
Converging == Cardinality({ i \in 1 .. NumTrials : converges[i - 1] })

Counted ==
    /\ disk["sweep_summary"].run # 0 => disk["sweep_summary"].successes = Converging
    /\ disk["sweep_figure"].run # 0 =>
         /\ disk["sweep_figure"].successes = Converging
         /\ Converging >= MinConverged

(* A run that is past its demo has left its rows in every database.        *)
DemoDone ==
    stage \in UnderWay \ {"demo"} => \A i \in Databases : InDatabase(i, runs)

IInv == TypeOK /\ Progress /\ WrittenInOrder /\ TrialsInOrder /\ Counted /\ DemoDone

-----------------------------------------------------------------------------
(* The number of converged trials is a number.                             *)
LEMMA SuccessesNat ==
    ASSUME TypeOK
    PROVE  Successes \in Nat
<1> DEFINE S == { i \in DOMAIN outcomes : outcomes[i] }
<1>1. S \subseteq 1 .. Len(outcomes) /\ Len(outcomes) \in Nat
    BY DEF TypeOK
<1>2. IsFiniteSet(1 .. Len(outcomes))
    BY <1>1, FS_Interval
<1>3. IsFiniteSet(S)
    BY <1>1, <1>2, FS_Subset
<1> QED
    BY <1>3, FS_CardinalityType DEF Successes

(* At the end of the sweep it is the number of seeds whose trial converges.*)
LEMMA SuccessesOfSweep ==
    ASSUME TypeOK, TrialsInOrder, stage \in {"sweep_summary", "sweep_figure"}
    PROVE  Successes = Converging
<1>1. DOMAIN outcomes = 1 .. NumTrials
    BY SweepAssumption DEF TypeOK, TrialsInOrder
<1>2. { i \in DOMAIN outcomes : outcomes[i] } = { i \in 1 .. NumTrials : converges[i - 1] }
    BY <1>1 DEF TrialsInOrder
<1> QED
    BY <1>2 DEF Successes, Converging

(* The order of writing, artifact by artifact.                             *)
LEMMA PlaceOrder ==
    ASSUME NEW a \in Artifact, NEW b \in Artifact, Place[a] < Place[b]
    PROVE  /\ a # b
           /\ b \in Past(a)
           /\ a \notin Past(b)
           /\ \A s \in Stage : s \in Past(b) => s \in Past(a)
    BY DEF Artifact, Place, Past, Stage

(* The invariant holds before the first run.                               *)
LEMMA InitInvariant == Init => IInv
<1> SUFFICES ASSUME Init PROVE IInv
    OBVIOUS
<1>1. TypeOK
    BY SweepAssumption DEF Init, TypeOK, Stage, Content, Missing
<1>2. Progress /\ WrittenInOrder /\ Counted
    BY DEF Init, Progress, WrittenInOrder, Counted, Missing, UnderWay, Artifact
<1>3. TrialsInOrder
    BY DEF Init, TrialsInOrder, UnderWay
<1>4. DemoDone
    BY DEF Init, DemoDone, UnderWay
<1> QED
    BY <1>1, <1>2, <1>3, <1>4 DEF IInv

(* A step that leaves the files alone keeps their order and contents.      *)
LEMMA DiskStable ==
    ASSUME WrittenInOrder, Counted, UNCHANGED << converges, disk, databases >>
    PROVE  WrittenInOrder' /\ Counted'
    BY DEF WrittenInOrder, Counted, Converging, InDatabase

(* A new run starts with nothing written and no outcome.                   *)
LEMMA StartStep ==
    ASSUME IInv, Start
    PROVE  IInv'
<1> USE DEF IInv, Start
<1>1. TypeOK'
    BY SweepAssumption DEF TypeOK, Stage
<1>2. Progress'
  <2>1. \A a \in Artifact : disk[a].run \in Nat
      BY DEF TypeOK, Content
  <2>2. \A a \in Artifact : "demo" \notin Past(a)
      BY DEF Past
  <2> QED
      BY <2>1, <2>2 DEF Progress, TypeOK
<1>3. TrialsInOrder'
  <2>1. \A i \in Seeds : trials[i] \in Nat /\ trials[i] <= runs
      BY DEF TypeOK, TrialsInOrder
  <2> QED
      BY <2>1 DEF TrialsInOrder, TypeOK
<1>4. DemoDone'
    BY DEF DemoDone
<1> QED
    BY <1>1, <1>2, <1>3, <1>4, DiskStable

(* What a demo whose agents had so many turns leaves in their databases.   *)
LEMMA RecordedRows ==
    ASSUME TypeOK, runs # 0, NEW turns \in [Databases -> Nat],
           NEW lost \in SUBSET Databases, Recorded(turns, lost)
    PROVE  /\ databases' \in [Databases -> [1 .. MaxRuns -> Nat]]
           /\ \A i \in Databases, r \in 1 .. MaxRuns :
                r # runs => databases'[i][r] = databases[i][r]
           /\ \A i \in Databases :
                databases'[i][runs] \in IF turns[i] = 0 THEN {0} ELSE {turns[i] - 1, turns[i]}
<1>1. runs \in 1 .. MaxRuns
    BY SweepAssumption DEF TypeOK
<1> DEFINE left(i) == IF i \in lost /\ turns[i] > 0 THEN turns[i] - 1 ELSE turns[i]
<1>2. \A i \in Databases : left(i) \in Nat
    OBVIOUS
<1>3. databases' = [i \in Databases |-> [databases[i] EXCEPT ![runs] = left(i)]]
    BY DEF Recorded
<1>4. \A i \in Databases :
        left(i) \in IF turns[i] = 0 THEN {0} ELSE {turns[i] - 1, turns[i]}
    OBVIOUS
<1> HIDE DEF left
<1>5. \A i \in Databases : databases[i] \in [1 .. MaxRuns -> Nat]
    BY DEF TypeOK
<1>6. \A i \in Databases : databases'[i][runs] = left(i)
    BY <1>1, <1>3, <1>5
<1> QED
    BY <1>1, <1>2, <1>3, <1>4, <1>5, <1>6

(* What every demo step has in common: only the rows of this run are new.  *)
LEMMA DemoStable ==
    ASSUME IInv, stage = "demo", stage' \in {"demo_summary", "raised"},
           UNCHANGED << runs, converges, outcomes, trials, disk >>,
           databases' \in [Databases -> [1 .. MaxRuns -> Nat]],
           \A i \in Databases, r \in 1 .. MaxRuns :
               r # runs => databases'[i][r] = databases[i][r]
    PROVE  TypeOK' /\ Progress' /\ WrittenInOrder' /\ TrialsInOrder' /\ Counted'
<1>1. TypeOK'
    BY DEF IInv, TypeOK, Stage, Artifact
<1>2. \A a \in Artifact : "demo" \notin Past(a) /\ "demo_summary" \notin Past(a)
    BY DEF Past
<1>3. \A a \in Artifact : disk[a].run < runs
    BY <1>2 DEF IInv, Progress, UnderWay, Stage
<1>4. Progress'
  <2>1. \A a \in Artifact : stage' = "demo_summary" => stage' \notin Past(a)
      BY <1>2
  <2>2. stage' = "raised" => stage' \notin UnderWay
      BY DEF UnderWay
  <2>3. \A a \in Artifact : disk'[a].run <= runs' /\ disk'[a].run < runs'
      BY <1>3 DEF IInv, Progress
  <2> QED
      BY <2>1, <2>2, <2>3 DEF Progress
<1>5. WrittenInOrder'
  <2>1. \A a \in Artifact : disk[a].run # 0 =>
          disk[a].run \in 1 .. MaxRuns /\ disk[a].run # runs
      BY <1>3, SweepAssumption DEF IInv, TypeOK, Content
  <2>2. \A a \in Artifact, i \in Databases :
          disk[a].run # 0 => databases'[i][disk[a].run] = databases[i][disk[a].run]
      BY <2>1
  <2> QED
      BY <2>2 DEF IInv, WrittenInOrder, InDatabase
<1>6. TrialsInOrder'
    BY DEF IInv, TrialsInOrder, UnderWay, Stage
<1>7. Counted'
    BY DEF IInv, Counted, Converging
<1> QED
    BY <1>1, <1>4, <1>5, <1>6, <1>7

(* Before the demo ends, this run is one of the runs.                      *)
LEMMA DemoOfARun ==
    ASSUME IInv, stage = "demo"
    PROVE  runs # 0
<1>1. "demo_summary" \in Artifact /\ "demo" \notin Past("demo_summary")
    BY DEF Artifact, Past
<1>2. disk["demo_summary"].run \in Nat /\ disk["demo_summary"].run < runs
    BY <1>1 DEF IInv, TypeOK, Content, Progress, UnderWay, Stage
<1> QED
    BY <1>2

(* A demo that returns.                                                    *)
LEMMA DemoStep ==
    ASSUME IInv, Demo
    PROVE  IInv'
<1> DEFINE turns == [i \in Databases |-> DemoTicks]
<1>1. PICK lost \in SUBSET Databases : Recorded(turns, lost)
    BY DEF Demo
<1>2. /\ stage = "demo" /\ stage' = "demo_summary"
      /\ UNCHANGED << runs, converges, outcomes, trials, disk >>
    BY DEF Demo
<1>3. turns \in [Databases -> Nat] /\ \A i \in Databases : turns[i] = DemoTicks
    BY SweepAssumption
<1> HIDE DEF turns
<1>4. runs # 0 /\ TypeOK
    BY <1>2, DemoOfARun DEF IInv
<1>5. /\ databases' \in [Databases -> [1 .. MaxRuns -> Nat]]
      /\ \A i \in Databases, r \in 1 .. MaxRuns :
           r # runs => databases'[i][r] = databases[i][r]
      /\ \A i \in Databases :
           databases'[i][runs] \in IF turns[i] = 0 THEN {0} ELSE {turns[i] - 1, turns[i]}
    BY <1>1, <1>3, <1>4, RecordedRows
<1>6. DemoDone'
    BY <1>2, <1>3, <1>5, SweepAssumption DEF DemoDone, InDatabase
<1> QED
    BY <1>2, <1>5, <1>6, DemoStable DEF IInv

(* A demo that fails.                                                      *)
LEMMA DemoFailsStep ==
    ASSUME IInv, DemoFails
    PROVE  IInv'
<1>1. PICK tick \in 0 .. DemoTicks - 1, last \in 0 .. DemoAgents, lost \in SUBSET Databases :
        Recorded([i \in Databases |-> IF i <= last THEN tick + 1 ELSE tick], lost)
    BY DEF DemoFails
<1> DEFINE turns == [i \in Databases |-> IF i <= last THEN tick + 1 ELSE tick]
<1>2. /\ stage = "demo" /\ stage' = "raised"
      /\ UNCHANGED << runs, converges, outcomes, trials, disk >>
    BY DEF DemoFails
<1>3. turns \in [Databases -> Nat] /\ Recorded(turns, lost)
    BY <1>1, SweepAssumption
<1> HIDE DEF turns
<1>4. runs # 0 /\ TypeOK
    BY <1>2, DemoOfARun DEF IInv
<1>5. /\ databases' \in [Databases -> [1 .. MaxRuns -> Nat]]
      /\ \A i \in Databases, r \in 1 .. MaxRuns :
           r # runs => databases'[i][r] = databases[i][r]
    BY <1>3, <1>4, RecordedRows
<1>6. DemoDone'
    BY <1>2 DEF DemoDone, UnderWay
<1> QED
    BY <1>2, <1>5, <1>6, DemoStable DEF IInv

(* Failing without leaving anything.                                       *)
LEMMA QuietStep ==
    ASSUME IInv, Fail \/ (\E a \in Artifact : Decline(a))
    PROVE  IInv'
<1>1. /\ UNCHANGED << runs, converges, outcomes, trials, disk, databases >>
      /\ stage' = "raised"
    BY DEF Fail, Decline
<1>2. TypeOK'
    BY <1>1 DEF IInv, TypeOK, Stage
<1>3. Progress' /\ TrialsInOrder' /\ DemoDone'
    BY <1>1 DEF IInv, Progress, TrialsInOrder, DemoDone, UnderWay
<1> QED
    BY <1>1, <1>2, <1>3, DiskStable DEF IInv

(* A trial adds the outcome of the next seed.                              *)
LEMMA TrialStep ==
    ASSUME IInv, Trial
    PROVE  IInv'
<1> DEFINE n == Len(outcomes)
<1> USE DEF Trial, SeedOf
<1>1. /\ n \in Nat /\ n < NumTrials /\ n \in Seeds
      /\ outcomes \in Seq(BOOLEAN) /\ converges[n] \in BOOLEAN
      /\ outcomes' = Append(outcomes, converges[n])
    BY SweepAssumption DEF IInv, TypeOK, TrialsInOrder, Seeds
<1>2. /\ Len(outcomes') = n + 1
      /\ DOMAIN outcomes' = 1 .. n + 1
      /\ \A i \in 1 .. n + 1 : outcomes'[i] = converges[i - 1]
  <2>1. \A i \in 1 .. n : outcomes'[i] = outcomes[i] /\ outcomes[i] = converges[i - 1]
      BY <1>1 DEF IInv, TrialsInOrder
  <2>2. outcomes'[n + 1] = converges[n]
      BY <1>1
  <2> QED
      BY <1>1, <2>1, <2>2
<1>3. \A i \in Seeds : /\ trials[i] \in Nat /\ trials[i] <= runs
                       /\ i >= n => trials[i] < runs
                       /\ trials'[i] = IF i = n THEN trials[i] + 1 ELSE trials[i]
    BY <1>1 DEF IInv, TypeOK, TrialsInOrder, UnderWay, Stage
<1>4. TypeOK'
  <2>1. trials' \in [Seeds -> Nat]
      BY <1>1 DEF IInv, TypeOK
  <2> QED
      BY <1>1, <1>2, <2>1, SweepAssumption DEF IInv, TypeOK, Stage, Artifact
<1>5. Progress'
  <2>1. \A a \in Artifact : "trials" \in Past(a) <=> "sweep_summary" \in Past(a)
      BY DEF Past, Artifact
  <2> QED
      BY <2>1 DEF IInv, Progress, UnderWay, Stage, Artifact
<1>6. TrialsInOrder'
  <2>1. runs \in Nat /\ runs' = runs /\ converges' = converges
      BY DEF IInv, TypeOK
  <2>2. stage' = IF n + 1 = NumTrials THEN "sweep_summary" ELSE "trials"
      OBVIOUS
  <2>3. \A i \in Seeds : trials'[i] <= runs' /\ (i >= n + 1 => trials'[i] < runs')
      BY <1>1, <1>3, <2>1 DEF Seeds
  <2>4. stage' = "trials" => n + 1 < NumTrials
      BY <1>1, <2>2, SweepAssumption
  <2> QED
      BY <1>2, <2>1, <2>2, <2>3, <2>4 DEF TrialsInOrder
<1>7. DemoDone'
    BY DEF IInv, DemoDone, UnderWay, Stage, InDatabase
<1> QED
    BY <1>4, <1>5, <1>6, <1>7, DiskStable DEF IInv

(* A trial that fails has used up its directory for this run.              *)
LEMMA TrialFailsStep ==
    ASSUME IInv, TrialFails
    PROVE  IInv'
<1> DEFINE n == Len(outcomes)
<1> USE DEF TrialFails, SeedOf
<1>1. n \in Nat /\ n \in Seeds
    BY SweepAssumption DEF IInv, TypeOK, TrialsInOrder, Seeds
<1>2. \A i \in Seeds : /\ trials[i] \in Nat /\ trials[i] <= runs
                       /\ i >= n => trials[i] < runs
                       /\ trials'[i] = IF i = n THEN trials[i] + 1 ELSE trials[i]
    BY <1>1 DEF IInv, TypeOK, TrialsInOrder, UnderWay, Stage
<1>3. TypeOK'
    BY <1>1 DEF IInv, TypeOK, Stage
<1>4. Progress'
    BY DEF IInv, Progress, UnderWay
<1>5. TrialsInOrder'
  <2>1. runs \in Nat /\ runs' = runs
      BY DEF IInv, TypeOK
  <2>2. \A i \in Seeds : trials'[i] <= runs'
      BY <1>1, <1>2, <2>1
  <2> QED
      BY <2>2 DEF IInv, TrialsInOrder, UnderWay
<1>6. DemoDone'
    BY DEF DemoDone, UnderWay
<1> QED
    BY <1>3, <1>4, <1>5, <1>6, DiskStable DEF IInv

(* A write, complete or cut off, extends the prefix of new artifacts.      *)
LEMMA WriteStep ==
    ASSUME IInv, NEW a \in Artifact, Write(a)
    PROVE  IInv'
<1> PICK whole \in BOOLEAN :
      /\ disk' = [disk EXCEPT ![a] = [run |-> runs, whole |-> whole, successes |-> Successes]]
      /\ stage' = IF whole THEN After(a) ELSE "raised"
    BY DEF Write
<1>1. /\ stage = a /\ ~Declined(a)
      /\ UNCHANGED << runs, converges, outcomes, trials, databases >>
    BY DEF Write
<1>2. runs \in Nat /\ Successes \in Nat /\ disk \in [Artifact -> Content]
    BY SuccessesNat DEF IInv, TypeOK
<1>3. /\ disk'[a] = [run |-> runs, whole |-> whole, successes |-> Successes]
      /\ \A b \in Artifact \ {a} : disk'[b] = disk[b]
    BY <1>2
<1>4. \A b \in Artifact : disk[b].run \in Nat /\ disk[b].run <= runs
    BY <1>2 DEF IInv, Progress, Content
<1>5. \A b \in Artifact : IF a \in Past(b) THEN disk[b].run = runs /\ disk[b].whole
                                           ELSE disk[b].run < runs
    BY <1>1 DEF IInv, Progress, UnderWay, Stage, Artifact
<1>6. TypeOK'
  <2>1. disk' \in [Artifact -> Content]
      BY <1>2 DEF Content
  <2>2. stage' \in Stage
      BY DEF After, Stage, Artifact
  <2> QED
      BY <1>1, <2>1, <2>2 DEF IInv, TypeOK
<1>7. Progress'
  <2>1. \A b \in Artifact \ {a} : After(a) \in Past(b) <=> a \in Past(b)
      BY DEF After, Past, Artifact
  <2>2. After(a) \in Past(a)
      BY DEF After, Past, Artifact
  <2>3. \A b \in Artifact : disk'[b].run <= runs'
      BY <1>1, <1>2, <1>3, <1>4
  <2>4. CASE whole
    <3>1. \A b \in Artifact : IF After(a) \in Past(b) THEN disk'[b].run = runs /\ disk'[b].whole
                                                      ELSE disk'[b].run < runs
        BY <2>4, <1>3, <1>5, <2>1, <2>2
    <3> QED
        BY <2>3, <2>4, <3>1, <1>1 DEF Progress
  <2>5. CASE ~whole
      BY <2>3, <2>5 DEF Progress, UnderWay
  <2> QED
      BY <2>4, <2>5
<1>8. \A i \in Databases : InDatabase(i, runs)
    BY <1>1 DEF IInv, DemoDone, UnderWay, Stage, Artifact
<1>9. \A b \in Artifact, i \in Databases :
        disk'[b].run # 0 => databases'[i][disk'[b].run] \in {DemoTicks - 1, DemoTicks}
  <2>1. \A b \in Artifact, i \in Databases : disk[b].run # 0 => InDatabase(i, disk[b].run)
      BY DEF IInv, WrittenInOrder
  <2>2. disk'[a].run = runs
      BY <1>3
  <2> QED
      BY <1>1, <1>3, <1>8, <2>1, <2>2 DEF InDatabase
<1>10. WrittenInOrder'
  <2> SUFFICES ASSUME NEW x \in Artifact, NEW y \in Artifact, Place[x] < Place[y]
               PROVE  /\ disk'[y].run <= disk'[x].run
                      /\ disk'[y].run = disk'[x].run /\ disk'[y].run # 0 => disk'[x].whole
      BY <1>9 DEF WrittenInOrder, InDatabase
  <2>1. /\ disk[y].run <= disk[x].run
        /\ disk[y].run = disk[x].run /\ disk[y].run # 0 => disk[x].whole
      BY DEF IInv, WrittenInOrder
  <2>2. CASE x = a
    <3>1. y # a /\ a \notin Past(y)
        BY <2>2, PlaceOrder
    <3> QED
        BY <2>2, <3>1, <1>2, <1>3, <1>4, <1>5
  <2>3. CASE y = a
    <3>1. x # a /\ a \in Past(x)
        BY <2>3, PlaceOrder
    <3> QED
        BY <2>3, <3>1, <1>2, <1>3, <1>5
  <2>4. CASE x # a /\ y # a
      BY <2>1, <2>4, <1>3
  <2> QED
      BY <2>2, <2>3, <2>4
<1>11. TrialsInOrder'
  <2>1. stage' \in {"demo_figure", "sweep_figure", "figure_registry", "returned", "raised", "trials"}
      BY DEF After
  <2>2. /\ stage' = "demo_figure" => a = "demo_summary"
        /\ stage' = "trials" => a = "demo_figure"
        /\ stage' = "sweep_figure" => a = "sweep_summary"
      BY DEF After
  <2>3. a \in UnderWay
      BY DEF UnderWay, Stage, Artifact
  <2> QED
      BY <1>1, <2>1, <2>2, <2>3, SweepAssumption DEF IInv, TrialsInOrder, TypeOK
<1>12. Counted'
  <2>1. Converging' = Converging
      BY <1>1 DEF Converging
  <2>2. "sweep_summary" \in Artifact /\ "sweep_figure" \in Artifact
      BY DEF Artifact
  <2>3. CASE a = "sweep_summary"
    <3>1. Successes = Converging
        BY <2>3, <1>1, SuccessesOfSweep DEF IInv
    <3> QED
        BY <2>1, <2>2, <2>3, <3>1, <1>3 DEF IInv, Counted
  <2>4. CASE a = "sweep_figure"
    <3>1. Successes = Converging
        BY <2>4, <1>1, SuccessesOfSweep DEF IInv
    <3>2. Successes >= MinConverged
        BY <2>4, <1>1, <1>2, SweepAssumption DEF Declined
    <3> QED
        BY <2>1, <2>2, <2>4, <3>1, <3>2, <1>3 DEF IInv, Counted
  <2>5. CASE a \notin {"sweep_summary", "sweep_figure"}
      BY <2>1, <2>2, <2>5, <1>3 DEF IInv, Counted
  <2> QED
      BY <2>3, <2>4, <2>5
<1>13. DemoDone'
    BY <1>1, <1>8 DEF DemoDone, InDatabase
<1> QED
    BY <1>6, <1>7, <1>10, <1>11, <1>12, <1>13 DEF IInv

(* Every step keeps the invariant.                                         *)
LEMMA NextInvariant == IInv /\ [Next]_vars => IInv'
<1> SUFFICES ASSUME IInv, [Next]_vars PROVE IInv'
    OBVIOUS
<1>1. CASE Start
    BY <1>1, StartStep
<1>2. CASE Fail \/ (\E a \in Artifact : Decline(a))
    BY <1>2, QuietStep
<1>3. CASE Trial
    BY <1>3, TrialStep
<1>4. CASE TrialFails
    BY <1>4, TrialFailsStep
<1>5. CASE \E a \in Artifact : Write(a)
    BY <1>5, WriteStep
<1>6. CASE UNCHANGED vars
  <2>1. UNCHANGED << runs, stage, converges, outcomes, trials, disk, databases >>
      BY <1>6 DEF vars
  <2> QED
      BY <2>1 DEF IInv, TypeOK, Progress, WrittenInOrder, TrialsInOrder, Counted,
                  UnderWay, Converging, DemoDone, InDatabase
<1>7. CASE Demo
    BY <1>7, DemoStep
<1>8. CASE DemoFails
    BY <1>8, DemoFailsStep
<1> QED
    BY <1>1, <1>2, <1>3, <1>4, <1>5, <1>6, <1>7, <1>8 DEF Next

(* The inductive invariant holds in every run of the analysis.             *)
THEOREM Invariant == Spec => []IInv
    BY InitInvariant, NextInvariant, PTL DEF Spec

(* Every variable stays within its type.                                   *)
THEOREM TypeCorrect == Spec => []TypeOK
<1>1. IInv => TypeOK
    BY DEF IInv
<1> QED
    BY <1>1, Invariant, PTL

(* An analysis that returns has written the five overwritten artifacts, in *)
(* full, in this run, and its rows are in every database, but at most the  *)
(* last of each.                                                           *)
THEOREM ReturnsComplete == Spec => []ReturnedComplete
<1>1. IInv => ReturnedComplete
    BY DEF IInv, Progress, DemoDone, ReturnedComplete, UnderWay, Stage, Past
<1> QED
    BY <1>1, Invariant, PTL

(* What failed runs leave of the overwritten artifacts is in the order of  *)
(* writing, and the databases hold the demo of whichever run one is of.    *)
THEOREM StaysInOrder == Spec => []WrittenInOrder
<1>1. IInv => WrittenInOrder
    BY DEF IInv
<1> QED
    BY <1>1, Invariant, PTL

(* The two artifacts of the sweep report the same successes.               *)
THEOREM SweepAgrees == Spec => []SweepArtifactsAgree
<1>1. IInv => SweepArtifactsAgree
  <2> SUFFICES ASSUME IInv PROVE SweepArtifactsAgree
      OBVIOUS
  <2>1. /\ disk["sweep_summary"].run \in Nat /\ disk["sweep_figure"].run \in Nat
        /\ disk["sweep_figure"].run <= disk["sweep_summary"].run
      BY DEF IInv, TypeOK, Content, WrittenInOrder, Place, Artifact
  <2> QED
      BY <2>1 DEF IInv, Counted, SweepArtifactsAgree
<1> QED
    BY <1>1, Invariant, PTL

(* No two trials of one run share a directory.                             *)
THEOREM TrialsApart == Spec => []OneTrialPerDirectory
<1>1. IInv => OneTrialPerDirectory
    BY DEF IInv, TrialsInOrder, OneTrialPerDirectory
<1> QED
    BY <1>1, Invariant, PTL
-----------------------------------------------------------------------------
(* The check script.  It shares no state with the analysis.                *)

(* The checks made before a place is reached.                              *)
MadeBefore(at) == { c \in Checks : Turn[c] < Turn[at] }

(* The books at a place: the status says whether something failed, all of  *)
(* which was tried before, and the checks that passed are those on the way *)
(* here that come before whatever failed.                                  *)
Balanced(at, st, ok, bad) ==
    /\ st = IF bad = {} THEN 0 ELSE 1
    /\ bad \subseteq Checks \cup {"java", "fetch"}
    /\ \A f \in bad : Turn[f] < Turn[at]
    /\ ok = { c \in MadeBefore(at) : \A f \in bad : Turn[c] < Turn[f] }

(* While nothing failed, the jar that is about to be run is the one whose  *)
(* checksum was compared.                                                  *)
Books ==
    /\ place \in Places
    /\ place # "idle" => Balanced(place, status, passed, failed)
    /\ place \in TlcChecks /\ status = 0 => jar = "pinned"
    /\ trusted \subseteq {"pinned"}

Tried == Checks \cup {"java", "fetch"}

LEMMA TurnType == \A p \in Tried \cup {"exit"} : Turn[p] \in Nat
BY DEF Turn, Tried, Checks, TlcChecks

(* A place with nothing to check, or where nothing was found wrong.        *)
LEMMA Moving ==
    ASSUME NEW at \in Tried, NEW next \in Tried \cup {"exit"}, NEW st, NEW ok, NEW bad,
           Balanced(at, st, ok, bad), Turn[at] < Turn[next], MadeBefore(next) = MadeBefore(at)
    PROVE  Balanced(next, st, ok, bad)
<1>1. \A f \in bad : Turn[f] < Turn[next]
    BY TurnType DEF Balanced, Tried
<1> QED
    BY <1>1 DEF Balanced

LEMMA Passing ==
    ASSUME NEW at \in Checks, NEW next, NEW ok, NEW bad,
           Balanced(at, 0, ok, bad), MadeBefore(next) = MadeBefore(at) \cup {at}
    PROVE  Balanced(next, 0, ok \cup {at}, bad)
<1>1. bad = {}
    BY DEF Balanced
<1> QED
    BY <1>1 DEF Balanced

LEMMA Failing ==
    ASSUME NEW at \in Tried, NEW next \in Tried \cup {"exit"}, NEW st, NEW ok, NEW bad,
           Balanced(at, st, ok, bad), Turn[at] < Turn[next]
    PROVE  Balanced(next, 1, ok, bad \cup {at})
<1> DEFINE some == bad \cup {at}
<1>1. /\ Turn[at] \in Nat /\ Turn[next] \in Nat
      /\ \A c \in Checks : Turn[c] \in Nat
      /\ \A f \in bad : Turn[f] \in Nat
    BY TurnType DEF Balanced, Tried
<1>2. \A f \in some : f \in Tried /\ Turn[f] < Turn[next]
    BY <1>1 DEF Balanced, Tried
<1>3. \A c \in Checks :
        /\ Turn[c] < Turn[next] /\ (\A f \in some : Turn[c] < Turn[f])
           <=> Turn[c] < Turn[at] /\ (\A f \in bad : Turn[c] < Turn[f])
    BY <1>1
<1>4. ok = { c \in MadeBefore(next) : \A f \in some : Turn[c] < Turn[f] }
    BY <1>3 DEF Balanced, MadeBefore
<1>5. some # {}
    OBVIOUS
<1> HIDE DEF some
<1>6. Balanced(next, 1, ok, some)
    BY <1>2, <1>4, <1>5 DEF Balanced, Tried
<1> QED
    BY <1>6 DEF some

LEMMA Skipping ==
    ASSUME NEW at \in Checks, NEW next \in Tried \cup {"exit"}, NEW st, NEW ok, NEW bad,
           Balanced(at, st, ok, bad), st # 0, Turn[at] < Turn[next],
           MadeBefore(next) = MadeBefore(at) \cup {at}
    PROVE  Balanced(next, st, ok, bad)
<1>1. \A f \in bad : Turn[f] < Turn[next]
    BY TurnType DEF Balanced, Tried
<1>2. PICK f \in bad : Turn[f] < Turn[at]
    BY DEF Balanced
<1>3. ~ (Turn[at] < Turn[f])
    BY <1>2, TurnType DEF Balanced, Tried
<1> QED
    BY <1>1, <1>3 DEF Balanced

(* What comes after what.                                                  *)
LEMMA TurnOrder ==
    /\ Turn["lean"] < Turn["java"] /\ Turn["java"] < Turn["fetch"]
    /\ Turn["java"] < Turn["exit"] /\ Turn["fetch"] < Turn["checksum"]
    /\ Turn["checksum"] < Turn["AntProtocol"]
    /\ MadeBefore("lean") = {}
    /\ MadeBefore("java") = MadeBefore("lean") \cup {"lean"}
    /\ MadeBefore("fetch") = MadeBefore("java")
    /\ MadeBefore("checksum") = MadeBefore("fetch")
    /\ MadeBefore("AntProtocol") = MadeBefore("checksum") \cup {"checksum"}
    /\ \A check \in TlcChecks :
         /\ AfterCheck(check) \in TlcChecks \cup {"exit"}
         /\ Turn[check] < Turn[AfterCheck(check)]
         /\ MadeBefore(AfterCheck(check)) = MadeBefore(check) \cup {check}
BY DEF Turn, MadeBefore, Checks, TlcChecks, AfterCheck

LEMMA BooksStep == Books /\ [ScriptNext]_scriptVars => Books'
<1> SUFFICES ASSUME Books, [ScriptNext]_scriptVars PROVE Books'
    OBVIOUS
<1> USE DEF TlcChecks, Checks, Places, Tried
<1>1. CASE Launch
  <2>1. Balanced("lean", 0, {}, {})
      BY TurnOrder DEF Balanced
  <2> QED
      BY <1>1, <2>1 DEF Books, Launch
<1>2. CASE Lean
  <2>1. Balanced("lean", status, passed, failed)
      BY <1>2 DEF Books, Lean
  <2>2. Passes("lean") => status = 0
      BY <1>2, <2>1, TurnType DEF Balanced, Turn
  <2>3. Balanced("java", status', passed', failed')
      BY <1>2, <2>1, <2>2, TurnOrder, Passing, Failing DEF Lean, Passes, Fails
  <2> QED
      BY <1>2, <2>3 DEF Books, Lean
<1>3. CASE Java
  <2>1. Balanced("java", status, passed, failed)
      BY <1>3 DEF Books, Java
  <2>2. Balanced(place', status', passed', failed') /\ place' \in {"fetch", "exit"}
      BY <1>3, <2>1, TurnOrder, Moving, Failing DEF Java, Fails
  <2> QED
      BY <1>3, <2>2 DEF Books, Java
<1>4. CASE Fetch
  <2>1. Balanced("fetch", status, passed, failed)
      BY <1>4 DEF Books, Fetch
  <2>2. Balanced("checksum", status', passed', failed')
      BY <1>4, <2>1, TurnOrder, Moving, Failing DEF Fetch, Fails
  <2> QED
      BY <1>4, <2>2 DEF Books, Fetch
<1>5. CASE Checksum
  <2>1. Balanced("checksum", status, passed, failed)
      BY <1>5 DEF Books, Checksum
  <2>2. Balanced("AntProtocol", status', passed', failed')
      BY <1>5, <2>1, TurnOrder, Passing, Failing, Skipping DEF Checksum, Passes, Fails
  <2>3. status' = 0 => jar' = "pinned"
      BY <1>5 DEF Checksum, Fails
  <2> QED
      BY <1>5, <2>2, <2>3 DEF Books, Checksum
<1>6. CASE Exit \/ Kill \/ Outside
    BY <1>6 DEF Books, Exit, Kill, Outside, history
<1>7. ASSUME NEW check \in TlcChecks, Tlc(check) PROVE Books'
  <2>1. /\ place = check /\ place' = AfterCheck(check) /\ jar' = jar
        /\ \/ /\ status = 0 /\ (Passes(check) \/ Fails(check))
              /\ trusted' = trusted \cup {jar}
           \/ status # 0 /\ UNCHANGED << status, passed, failed, trusted >>
      BY <1>7 DEF Tlc, history
  <2>2. Balanced(check, status, passed, failed)
      BY <2>1 DEF Books
  <2>3. Balanced(AfterCheck(check), status', passed', failed')
      BY <2>1, <2>2, TurnOrder, Passing, Failing, Skipping DEF Passes, Fails
  <2>4. trusted' \subseteq {"pinned"}
      BY <2>1 DEF Books
  <2>5. place' \in Places /\ place' # "idle"
      BY <2>1, TurnOrder
  <2>6. status' = 0 => jar' = "pinned"
      BY <2>1 DEF Books, Fails
  <2> QED
      BY <2>1, <2>3, <2>4, <2>5, <2>6 DEF Books
<1>8. CASE UNCHANGED scriptVars
    BY <1>8 DEF Books, scriptVars, history
<1> QED
    BY <1>1, <1>2, <1>3, <1>4, <1>5, <1>6, <1>7, <1>8 DEF ScriptNext

LEMMA BooksKept == ScriptSpec => []Books
<1>1. ScriptInit => Books
    BY DEF ScriptInit, Books, Places, TlcChecks
<1> QED
    BY <1>1, BooksStep, PTL DEF ScriptSpec

(* java is never run on a file other than the pinned release, however      *)
(* often the script is killed and the cache is changed from outside.       *)
THEOREM JarIsPinned == ScriptSpec => []OnlyPinnedRuns
<1>1. Books => OnlyPinnedRuns
    BY DEF Books, OnlyPinnedRuns
<1> QED
    BY <1>1, BooksKept, PTL

(* Exit status 0 means that nothing failed, and then every check passed;   *)
(* otherwise the checks that passed are those before the first failure.    *)
THEOREM StatusTellsTruth == ScriptSpec => []ExitTellsTruth
<1>1. Books => ExitTellsTruth
  <2>1. MadeBefore("exit") = Checks
      BY DEF MadeBefore, Turn, Checks, TlcChecks
  <2> QED
      BY <2>1 DEF Books, Balanced, ExitTellsTruth
<1> QED
    BY <1>1, BooksKept, PTL
=============================================================================
