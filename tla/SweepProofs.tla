---------------------------- MODULE SweepProofs ----------------------------
(***************************************************************************)
(* Proofs about Sweep, for any plans and calls, trial counts and seeds,    *)
(* and about the interval it reports for a point (SweepReport), for any    *)
(* confidence level.                                                       *)
(***************************************************************************)
EXTENDS SweepReport, FiniteSetTheorems, WellFoundedInduction, TLAPS

(* The records the program keeps.                                          *)
Points == [value : Int, n : Int, successes : Nat]
Paths == { << Directory(param, index), seed >> : param \in STRING, index \in Nat, seed \in Nat }
TrialRecords ==
    [call : Nat, param : STRING, value : Int, seed : Nat, tick : 0 .. NumTicks, path : Paths]

DataOK ==
    /\ plan \in Plans \cup {Blank}
    /\ calls \in Seq(Calls)
    /\ phase \in {"loaded", "ready", "sweeping", "done", "raised"}
    /\ call \in 1 .. Len(calls) + 1
    /\ outcomes \in Seq(BOOLEAN)
    /\ points \in Seq(Points)
    /\ results \in Seq(Seq(Points))
    /\ ran \in Seq(TrialRecords)
    /\ why \in {"nothing", "plan", "arguments", "config", "trial", "statistics"}
    /\ (phase = "raised") = (why # "nothing")

(* Where the program is: the results are those of the calls before this    *)
(* one, and a call under way is a good one and not past its end.           *)
PlaceOK ==
    /\ Len(results) = call - 1
    /\ phase = "loaded" => calls = << >> /\ ran = << >> /\ plan \in Plans
    /\ phase \in {"loaded", "ready"} => outcomes = << >> /\ points = << >>
    /\ phase = "done" => call = Len(calls) + 1
    /\ phase = "sweeping" =>
         /\ call <= Len(calls) /\ WellFormed(calls[call])
         /\ Len(points) <= Len(calls[call].values)
         /\ Len(outcomes) <= calls[call].n_per_value
         /\ Len(points) = Len(calls[call].values) => outcomes = << >>

(* The calls of a plan are those of its axes; a call made without a plan   *)
(* is the only one.  In either case each parameter has one call.           *)
CallsOK ==
    /\ \A c, d \in DOMAIN calls : calls[c].param_name = calls[d].param_name => c = d
    /\ Planned /\ phase # "loaded" /\ why # "plan" =>
         /\ \A c \in DOMAIN calls : WellFormed(calls[c]) /\ IsInjective(calls[c].values)
         /\ Required \subseteq { calls[c].param_name : c \in DOMAIN calls }

(* A trial is under the directory of its point; those of the point under   *)
(* way had smaller seeds than the next, and no later point has any.        *)
TrialOK(t) ==
    /\ t.call \in DOMAIN calls
    /\ \E index \in Nat :
         /\ t.path[1] = Directory(calls[t.call].param_name, index)
         /\ t.call = call /\ phase = "sweeping" =>
              index < Len(points) \/ (index = Len(points) /\ t.path[2] < Seed)
    /\ phase = "sweeping" => t.call <= call
    /\ phase \in {"ready", "done"} => t.call < call

(* What is returned is about the values that were asked for.               *)
ValuesOK ==
    /\ \A c \in DOMAIN results :
         /\ Len(results[c]) = Len(calls[c].values)
         /\ \A k \in DOMAIN results[c] : results[c][k].value = calls[c].values[k]
    /\ phase = "sweeping" =>
         \A k \in DOMAIN points : points[k].value = calls[call].values[k]

IInv ==
    /\ DataOK /\ PlaceOK /\ CallsOK /\ ValuesOK
    /\ \A i \in DOMAIN ran : TrialOK(ran[i])
    /\ FilesApart
    /\ why \notin {"arguments", "statistics"} \/ (why = "arguments" /\ ~Planned)

LEMMA InitInvariant == Init => IInv
<1> SUFFICES ASSUME Init PROVE IInv
    OBVIOUS
<1> USE SweepAssumption, CallsAssumption DEF SweepAssumption, CallsAssumption
<1>1. calls \in Seq(Calls) /\ Len(calls) \in Nat
    <2>1. CASE calls = << >>
        BY <2>1
    <2>2. ASSUME NEW c \in Experiments, calls = << c >> PROVE calls \in Seq(Calls)
        BY <2>2
    <2> QED
        BY <2>1, <2>2 DEF Init
<1>2. DataOK
    BY <1>1 DEF Init, DataOK
<1>3. PlaceOK
    BY <1>1 DEF Init, PlaceOK
<1>4. CallsOK
    BY DEF Init, CallsOK, Planned
<1>5. ValuesOK
    BY DEF Init, ValuesOK
<1>6. FilesApart /\ \A i \in DOMAIN ran : TrialOK(ran[i])
    BY DEF Init, FilesApart
<1> QED
    BY <1>2, <1>3, <1>4, <1>5, <1>6 DEF Init, IInv

LEMMA StartSweepInvariant == ASSUME IInv, StartSweep PROVE IInv'
<1> USE DEF IInv, StartSweep, Raise, Current, work
<1>1. DataOK'
    BY DEF DataOK
<1>2. PlaceOK'
    <2>1. call \in DOMAIN calls /\ calls[call] \in Calls
        BY DEF DataOK
    <2>2. Len(outcomes) = 0 /\ Len(points) = 0 /\ outcomes = << >>
        BY DEF PlaceOK
    <2>3. CASE WellFormed(Current) /\ phase' = "sweeping"
        BY <2>1, <2>2, <2>3 DEF PlaceOK, WellFormed, Calls
    <2>4. CASE phase' = "raised"
        BY <2>4 DEF PlaceOK
    <2> QED
        BY <2>3, <2>4
<1>3. CallsOK'
    BY DEF CallsOK, Planned, WellFormed, DataOK
<1>4. ValuesOK'
    BY DEF ValuesOK, PlaceOK
<1>5. (\A i \in DOMAIN ran : TrialOK(ran[i]))'
    BY DEF TrialOK, Seed, DataOK
<1>6. FilesApart'
    BY DEF FilesApart
<1>7. (why \notin {"arguments", "statistics"} \/ (why = "arguments" /\ ~Planned))'
    BY DEF DataOK, CallsOK, Planned
<1> QED
    BY <1>1, <1>2, <1>3, <1>4, <1>5, <1>6, <1>7

LEMMA TrialRaisesInvariant == ASSUME IInv, TrialRaises PROVE IInv'
<1> USE DEF IInv, TrialRaises, Raise, work, InPoint
<1>1. DataOK'
    BY DEF DataOK
<1>2. PlaceOK'
    BY DEF PlaceOK, DataOK
<1>3. CallsOK'
    BY DEF CallsOK, Planned, DataOK
<1>4. ValuesOK'
    BY DEF ValuesOK
<1>5. (\A i \in DOMAIN ran : TrialOK(ran[i]))'
    BY DEF TrialOK
<1>6. FilesApart'
    BY DEF FilesApart
<1> QED
    BY <1>1, <1>2, <1>3, <1>4, <1>5, <1>6

LEMMA EndSweepInvariant == ASSUME IInv, EndSweep PROVE IInv'
<1> USE DEF IInv, EndSweep, Current
<1>1. call \in Nat /\ call <= Len(calls) /\ Len(results) = call - 1 /\ Len(calls) \in Nat
    BY DEF DataOK, PlaceOK
<1>2. DataOK'
    BY <1>1 DEF DataOK
<1>3. PlaceOK'
    BY <1>1 DEF PlaceOK, DataOK
<1>4. CallsOK'
    BY DEF CallsOK, Planned, DataOK
<1>5. ValuesOK'
    <2>1. DOMAIN results' = 1 .. call /\ results'[call] = points
        BY <1>1 DEF DataOK
    <2>2. \A c \in 1 .. call - 1 : c \in DOMAIN results /\ results'[c] = results[c]
        BY <1>1 DEF DataOK
    <2> QED
        BY <1>1, <2>1, <2>2 DEF ValuesOK, DataOK
<1>6. (\A i \in DOMAIN ran : TrialOK(ran[i]))'
    BY <1>1 DEF TrialOK, DataOK, Seed
<1>7. FilesApart'
    BY DEF FilesApart
<1> QED
    BY <1>2, <1>3, <1>4, <1>5, <1>6, <1>7 DEF Planned

LEMMA ConvergedType == ASSUME outcomes \in Seq(BOOLEAN) PROVE Converged \in Nat
<1>1. IsFiniteSet(1 .. Len(outcomes))
    BY FS_Interval
<1>2. IsFiniteSet({ i \in DOMAIN outcomes : outcomes[i] })
    BY <1>1, FS_Subset
<1> QED
    BY <1>2, FS_CardinalityType DEF Converged

LEMMA EndPointInvariant == ASSUME IInv, EndPoint PROVE IInv'
<1> USE DEF IInv, EndPoint, Current
<1>1. call \in DOMAIN calls /\ calls[call] \in Calls /\ WellFormed(calls[call])
    BY DEF DataOK, PlaceOK
<1>2. /\ outcomes # << >> /\ points' = Append(points, PointResult) /\ outcomes' = << >>
      /\ UNCHANGED << phase, why, plan, calls, call, results, ran >>
    BY <1>1 DEF WellFormed, Calls, DataOK
<1>3. PointResult \in Points /\ PointResult.value = calls[call].values[Len(points) + 1]
    <2>1. Converged \in Nat
        BY ConvergedType DEF DataOK
    <2>2. Value \in Int
        BY <1>1 DEF Value, Point, Calls, DataOK
    <2> QED
        BY <1>1, <2>1, <2>2 DEF PointResult, Points, Value, Point, Calls
<1>4. Len(points) \in Nat /\ Len(points') = Len(points) + 1
    BY <1>2 DEF DataOK
<1>5. DataOK'
    BY <1>2, <1>3 DEF DataOK
<1>6. PlaceOK'
    BY <1>1, <1>2, <1>4 DEF PlaceOK, Point, DataOK, WellFormed, Calls
<1>7. CallsOK'
    BY <1>2 DEF CallsOK, Planned
<1>8. ValuesOK'
    <2>1. \A k \in DOMAIN points' : points'[k].value = calls[call].values[k]
        BY <1>2, <1>3, <1>4 DEF ValuesOK, DataOK
    <2> QED
        BY <1>2, <2>1 DEF ValuesOK
<1>9. (\A i \in DOMAIN ran : TrialOK(ran[i]))'
    BY <1>2, <1>4 DEF TrialOK
<1>10. FilesApart'
    BY <1>2 DEF FilesApart
<1> QED
    BY <1>2, <1>5, <1>6, <1>7, <1>8, <1>9, <1>10 DEF Planned

(* The trial about to run has a path of its own: the earlier trials of its *)
(* point had smaller seeds, those of earlier points another index, and     *)
(* those of earlier calls another parameter.                               *)
LEMMA FreshPath ==
    ASSUME IInv, InPoint, NEW tick, NEW i \in DOMAIN ran
    PROVE  ran[i].path # Trial(tick).path
<1> SUFFICES ASSUME ran[i].path = << Directory(Current.param_name, Point - 1), Seed >>
             PROVE  FALSE
    BY DEF Trial
<1>1. call \in DOMAIN calls /\ phase = "sweeping" /\ Point - 1 = Len(points) /\ Seed \in Nat
    BY SweepAssumption DEF IInv, DataOK, PlaceOK, InPoint, Point, Seed, SweepAssumption
<1>2. TrialOK(ran[i])
    BY DEF IInv
<1>3. PICK index \in Nat :
         /\ ran[i].path[1] = Directory(calls[ran[i].call].param_name, index)
         /\ ran[i].call = call => index < Len(points) \/ (index = Len(points) /\ ran[i].path[2] < Seed)
    BY <1>1, <1>2 DEF TrialOK
<1>4. /\ calls[ran[i].call].param_name = calls[call].param_name
      /\ index = Len(points)
    BY <1>1, <1>3 DEF Directory, Current
<1>5. ran[i].call = call
    BY <1>1, <1>2, <1>4 DEF IInv, CallsOK, TrialOK
<1> QED
    BY <1>1, <1>3, <1>4, <1>5

LEMMA RunTrialInvariant ==
    ASSUME IInv, NEW tick \in 0 .. NumTicks, RunTrial(tick) PROVE IInv'
<1> USE DEF IInv, RunTrial
<1>1. /\ phase = "sweeping" /\ call \in DOMAIN calls /\ calls[call] \in Calls
      /\ Point \in 1 .. Len(calls[call].values) /\ Point = Len(points) + 1 /\ Seed \in Nat
      /\ Len(outcomes) < calls[call].n_per_value
    BY SweepAssumption DEF DataOK, PlaceOK, InPoint, Point, Seed, SweepAssumption, Current
<1>2. Trial(tick) \in TrialRecords
    <2>1. Current.param_name \in STRING /\ Value \in Int /\ Point - 1 \in Nat
        BY <1>1 DEF Current, Value, Calls
    <2>2. << Directory(Current.param_name, Point - 1), Seed >> \in Paths
        <3>1. ASSUME NEW p \in STRING, NEW k \in Nat, NEW s \in Nat
              PROVE  << Directory(p, k), s >> \in Paths
            BY DEF Paths
        <3> QED
            BY <1>1, <2>1, <3>1
    <2>3. call \in Nat
        BY <1>1 DEF DataOK
    <2> QED
        BY <1>1, <2>1, <2>2, <2>3 DEF Trial, TrialRecords
<1>3. /\ DOMAIN ran' = 1 .. Len(ran) + 1 /\ DOMAIN ran = 1 .. Len(ran) /\ Len(ran) \in Nat
      /\ ran'[Len(ran) + 1] = Trial(tick)
      /\ \A i \in DOMAIN ran : ran'[i] = ran[i]
    BY <1>2 DEF DataOK
<1>4. Len(outcomes') = Len(outcomes) + 1 /\ Len(outcomes) \in Nat /\ Seed' = Seed + 1
    BY SweepAssumption DEF DataOK, Seed, SweepAssumption
<1>5. DataOK'
    BY <1>2 DEF DataOK
<1>6. PlaceOK'
    BY <1>1, <1>4 DEF PlaceOK, Calls
<1>7. CallsOK'
    BY DEF CallsOK, Planned
<1>8. ValuesOK'
    BY DEF ValuesOK
<1>9. (\A i \in DOMAIN ran : TrialOK(ran[i]))'
    <2>1. \A i \in DOMAIN ran : TrialOK(ran[i])'
        <3> SUFFICES ASSUME NEW i \in DOMAIN ran PROVE TrialOK(ran[i])'
            OBVIOUS
        <3>1. ran[i].path[2] \in Nat
            <4>1. ran[i] \in TrialRecords
                BY <1>3 DEF DataOK
            <4> QED
                BY <4>1 DEF TrialRecords, Paths
        <3> QED
            BY <1>1, <1>3, <1>4, <3>1 DEF TrialOK
    <2>2. ASSUME NEW t, t = Trial(tick) PROVE TrialOK(t)'
        <3>1. /\ t.call = call
              /\ t.path[1] = Directory(calls[call].param_name, Len(points))
              /\ t.path[2] = Seed
            BY <1>1, <2>2 DEF Trial, Current
        <3>2. Len(points) \in Nat /\ call \in Nat
            BY DEF DataOK
        <3>3. UNCHANGED << phase, call, calls, points >>
            OBVIOUS
        <3>4. \E index \in Nat :
                 /\ t.path[1] = Directory(calls'[t.call].param_name, index)
                 /\ t.call = call' /\ phase' = "sweeping" =>
                      index < Len(points') \/ (index = Len(points') /\ t.path[2] < Seed')
            <4> WITNESS Len(points) \in Nat
            <4> QED
                BY <1>1, <1>4, <3>1, <3>3
        <3> QED
            BY <1>1, <3>1, <3>2, <3>3, <3>4 DEF TrialOK
    <2>3. ASSUME NEW t, NEW i \in DOMAIN ran', t = ran'[i] PROVE TrialOK(t)'
        BY <1>3, <2>1, <2>2, <2>3 DEF TrialOK
    <2> QED
        BY <2>3 DEF TrialOK
<1>10. FilesApart'
    BY <1>1, <1>3, FreshPath DEF FilesApart
<1> QED
    BY <1>5, <1>6, <1>7, <1>8, <1>9, <1>10 DEF Planned

(* The calls of an accepted plan are good ones, one for each parameter.    *)
LEMMA PlanCalls ==
    ASSUME NEW p \in Plans, Accepted(p), NEW cs, cs = [i \in DOMAIN p.axes |-> Call(p.axes[i])]
    PROVE  /\ cs \in Seq(Calls) /\ DOMAIN cs = 1 .. Len(cs) /\ Len(cs) \in Nat \ {0}
           /\ \A c, d \in DOMAIN cs : cs[c].param_name = cs[d].param_name => c = d
           /\ \A c \in DOMAIN cs : WellFormed(cs[c]) /\ IsInjective(cs[c].values)
           /\ Required \subseteq { cs[c].param_name : c \in DOMAIN cs }
<1> USE SweepAssumption, CallsAssumption DEF SweepAssumption, CallsAssumption
<1>1. /\ Len(p.axes) \in Nat /\ DOMAIN p.axes = 1 .. Len(p.axes) /\ p.axes # << >>
      /\ \A i \in DOMAIN p.axes : p.axes[i].parameter \in STRING /\ p.axes[i].values \in Seq(Int)
    BY DEF Accepted
<1>2. DOMAIN cs = 1 .. Len(p.axes)
    BY <1>1
<1>3. \A i \in DOMAIN cs :
         /\ cs[i] = Call(p.axes[i]) /\ cs[i] \in Calls
         /\ cs[i].param_name = p.axes[i].parameter /\ cs[i].values = p.axes[i].values
         /\ cs[i].n_per_value = PlanTrials
    BY <1>1, <1>2 DEF Call, Calls
<1>4. cs \in Seq(Calls) /\ Len(cs) = Len(p.axes)
    <2>1. cs \in [1 .. Len(p.axes) -> Calls]
        BY <1>2, <1>3, <1>1
    <2> QED
        BY <1>1, <2>1
<1>5. Len(p.axes) # 0
    <2>1. SUFFICES ASSUME Len(p.axes) = 0 PROVE FALSE
        OBVIOUS
    <2>2. cs = << >>
        BY <1>4, <2>1
    <2> QED
        BY <1>1, <1>2, <2>1, <2>2
<1>6. /\ \A i \in DOMAIN p.axes :
           /\ p.axes[i].parameter \in Sweepable
           /\ p.axes[i].values # << >> /\ IsInjective(p.axes[i].values)
           /\ \A j \in 1 .. i - 1 : p.axes[j].parameter # p.axes[i].parameter
      /\ Required \subseteq { p.axes[i].parameter : i \in DOMAIN p.axes }
    BY DEF Accepted, NumberValues, Parameters
<1>7. \A c \in DOMAIN cs : WellFormed(cs[c]) /\ IsInjective(cs[c].values)
    <2> SUFFICES ASSUME NEW c \in DOMAIN cs PROVE WellFormed(cs[c]) /\ IsInjective(cs[c].values)
        OBVIOUS
    <2>1. c \in DOMAIN p.axes
        BY <1>1, <1>2
    <2>2. cs[c].param_name \in Sweepable /\ cs[c].values # << >> /\ IsInjective(cs[c].values)
        BY <1>3, <1>6, <2>1
    <2>3. PlanTrials \in Nat /\ PlanTrials >= 1
        OBVIOUS
    <2>4. cs[c].n_per_value >= 1
        BY <1>3, <2>3
    <2> QED
        BY <2>2, <2>4 DEF WellFormed
<1>8. Required \subseteq { cs[c].param_name : c \in DOMAIN cs }
    <2> SUFFICES ASSUME NEW r \in Required PROVE \E c \in DOMAIN cs : cs[c].param_name = r
        OBVIOUS
    <2>1. PICK i \in DOMAIN p.axes : p.axes[i].parameter = r
        BY <1>6
    <2> QED
        BY <1>1, <1>2, <1>3, <2>1
<1>9. \A c, d \in DOMAIN cs : cs[c].param_name = cs[d].param_name => c = d
    <2> SUFFICES ASSUME NEW c \in DOMAIN cs, NEW d \in DOMAIN cs,
                        cs[c].param_name = cs[d].param_name
                 PROVE  c = d
        OBVIOUS
    <2>1. c \in 1 .. Len(p.axes) /\ d \in 1 .. Len(p.axes)
        BY <1>1, <1>2
    <2>2. p.axes[c].parameter = p.axes[d].parameter
        BY <1>3
    <2>3. ~(d < c) /\ ~(c < d)
        BY <1>1, <1>6, <2>1, <2>2
    <2> QED
        BY <1>1, <2>1, <2>3
<1> QED
    BY <1>1, <1>2, <1>4, <1>5, <1>7, <1>8, <1>9

LEMMA ValidatePlanInvariant == ASSUME IInv, ValidatePlan PROVE IInv'
<1> USE DEF IInv, ValidatePlan, Raise, work
<1>1. /\ plan \in Plans /\ Planned /\ calls = << >> /\ ran = << >> /\ call = 1
      /\ outcomes = << >> /\ points = << >> /\ results = << >>
    BY CallsAssumption DEF CallsAssumption, PlaceOK, DataOK, Planned
<1>2. /\ calls' \in Seq(Calls) /\ DOMAIN calls' = 1 .. Len(calls') /\ Len(calls') \in Nat
      /\ \A c, d \in DOMAIN calls' : calls'[c].param_name = calls'[d].param_name => c = d
      /\ phase' = "ready" =>
           /\ \A c \in DOMAIN calls' : WellFormed(calls'[c]) /\ IsInjective(calls'[c].values)
           /\ Required \subseteq { calls'[c].param_name : c \in DOMAIN calls' }
    <2>1. CASE Accepted(plan)
        <3>1. calls' = [i \in DOMAIN plan.axes |-> Call(plan.axes[i])]
            BY <2>1
        <3> HIDE DEF IInv, ValidatePlan
        <3> QED
            BY <1>1, <2>1, <3>1, PlanCalls
    <2>2. CASE ~Accepted(plan)
        <3>1. calls' = << >> /\ phase' = "raised"
            BY <1>1, <2>2
        <3> HIDE DEF IInv, ValidatePlan
        <3> QED
            BY <3>1
    <2> QED
        BY <2>1, <2>2
<1>3. (phase' = "ready" /\ why' = "nothing") \/ (phase' = "raised" /\ why' = "plan")
    BY DEF DataOK
<1>4. UNCHANGED << plan, call, outcomes, points, results, ran >>
    OBVIOUS
<1>5. DataOK'
    BY <1>1, <1>2, <1>3, <1>4 DEF DataOK
<1>6. PlaceOK'
    BY <1>1, <1>3, <1>4 DEF PlaceOK
<1>7. CallsOK'
    BY <1>1, <1>2, <1>3, <1>4 DEF CallsOK, Planned
<1>8. ValuesOK' /\ (\A i \in DOMAIN ran : TrialOK(ran[i]))' /\ FilesApart'
    BY <1>1, <1>3, <1>4 DEF ValuesOK, FilesApart
<1> QED
    BY <1>3, <1>5, <1>6, <1>7, <1>8

LEMMA NextInvariant == ASSUME IInv, [Next]_vars PROVE IInv'
<1>1. CASE ValidatePlan
    BY <1>1, ValidatePlanInvariant
<1>2. CASE StartSweep
    BY <1>2, StartSweepInvariant
<1>3. CASE EndPoint
    BY <1>3, EndPointInvariant
<1>4. CASE EndSweep
    BY <1>4, EndSweepInvariant
<1>5. CASE TrialRaises
    BY <1>5, TrialRaisesInvariant
<1>6. ASSUME NEW tick \in 0 .. NumTicks, RunTrial(tick) PROVE IInv'
    BY <1>6, RunTrialInvariant
<1>7. CASE UNCHANGED vars
    BY <1>7 DEF IInv, DataOK, PlaceOK, CallsOK, ValuesOK, TrialOK, FilesApart, Planned, Seed,
                vars, work
<1> QED
    BY <1>1, <1>2, <1>3, <1>4, <1>5, <1>6, <1>7 DEF Next

(* The invariant of all that follows.                                      *)
THEOREM Invariant == Spec => []IInv
<1>1. Init => IInv
    BY InitInvariant
<1>2. IInv /\ [Next]_vars => IInv'
    BY NextInvariant
<1> QED
    BY <1>1, <1>2, PTL DEF Spec

(* The program's place, counters and reports stay within their types.      *)
THEOREM TypeCorrect == Spec => []TypeOK
<1>1. IInv => TypeOK
    <2> SUFFICES ASSUME IInv PROVE TypeOK
        OBVIOUS
    <2>1. \A i \in DOMAIN ran : ran[i].tick \in 0 .. NumTicks
        <3>1. \A i \in DOMAIN ran : ran[i] \in TrialRecords
            BY DEF IInv, DataOK
        <3> QED
            BY <3>1 DEF TrialRecords
    <2> QED
        BY <2>1 DEF IInv, DataOK, PlaceOK, TypeOK
<1> QED
    BY <1>1, Invariant, PTL

(* No two trials of a program keep their files in one place: the reason is *)
(* that the axes of a plan have different parameters, and that a directory *)
(* is named after parameter and point.                                     *)
THEOREM TrialsApart == Spec => []FilesApart
<1>1. IInv => FilesApart
    BY DEF IInv
<1> QED
    BY <1>1, Invariant, PTL

(* Whatever plan is accepted, no call made for it is refused for its       *)
(* arguments, and when all have returned, each required parameter was      *)
(* swept, over different values.                                           *)
THEOREM PlansRun == Spec => []PlanRuns
<1>1. IInv => PlanRuns
    <2> SUFFICES ASSUME IInv PROVE PlanRuns
        OBVIOUS
    <2>1. (Planned => why # "arguments") /\ why # "statistics"
        BY DEF IInv
    <2>2. ASSUME Planned, phase = "done"
          PROVE  /\ Required \subseteq { calls[c].param_name : c \in DOMAIN results }
                 /\ \A c \in DOMAIN results : \A j, k \in DOMAIN results[c] :
                      results[c][j].value = results[c][k].value => j = k
        <3>1. DOMAIN results = DOMAIN calls
            BY <2>2 DEF IInv, DataOK, PlaceOK
        <3>2. /\ \A c \in DOMAIN calls : IsInjective(calls[c].values) /\ calls[c] \in Calls
              /\ Required \subseteq { calls[c].param_name : c \in DOMAIN calls }
            BY <2>2 DEF IInv, DataOK, CallsOK
        <3>3. \A c \in DOMAIN results :
                 /\ DOMAIN results[c] = DOMAIN calls[c].values
                 /\ \A k \in DOMAIN results[c] : results[c][k].value = calls[c].values[k]
            BY <3>1, <3>2 DEF IInv, DataOK, ValuesOK, Calls
        <3> QED
            BY <3>1, <3>2, <3>3 DEF IsInjective
    <2> QED
        BY <2>1, <2>2 DEF PlanRuns
<1> QED
    BY <1>1, Invariant, PTL
-----------------------------------------------------------------------------
(* The trials, among those of the record r, of point k of call number c,   *)
(* which sweeps parameter p; those of them that converged; and the         *)
(* outcomes that say so.                                                   *)
TrialsIn(r, c, p, k) ==
    { i \in DOMAIN r : r[i].call = c /\ r[i].path[1] = Directory(p, k - 1) }
Successful(r, T) == { i \in T : r[i].tick # 0 }
Hits(o) == { j \in DOMAIN o : o[j] }

(* They are one for each of the first n seeds, all with that value, and so *)
(* many of them converged.                                                 *)
Counted(r, T, value, n, successes) ==
    /\ IsFiniteSet(T)
    /\ \A i \in T : r[i].value = value
    /\ Cardinality(T) = n
    /\ { r[i].seed : i \in T } = SeedBase .. SeedBase + n - 1
    /\ Cardinality(Successful(r, T)) = successes

CountedPoint(r, q, c, k, point) ==
    /\ Counted(r, TrialsIn(r, c, q.param_name, k), point.value, point.n, point.successes)
    /\ point.n = q.n_per_value

(* Every summarized point, returned or not, counts its own trials, and so  *)
(* do the outcomes of the point under way.                                 *)
CountsOK ==
    /\ \A c \in DOMAIN results : \A k \in DOMAIN results[c] :
         CountedPoint(ran, calls[c], c, k, results[c][k])
    /\ phase = "sweeping" =>
         \A k \in DOMAIN points : CountedPoint(ran, calls[call], call, k, points[k])
    /\ phase = "sweeping" /\ Point <= Len(calls[call].values) =>
         Counted(ran, TrialsIn(ran, call, calls[call].param_name, Point),
                 Value, Len(outcomes), Converged)

(* No trial counts as nothing.                                             *)
LEMMA NoneCounted == ASSUME NEW r, NEW value PROVE Counted(r, {}, value, 0, 0)
<1>1. Cardinality({}) = 0 /\ IsFiniteSet({})
    BY FS_EmptySet
<1>2. Successful(r, {}) = {}
    BY DEF Successful
<1>3. SeedBase .. SeedBase + 0 - 1 = {}
    BY SweepAssumption DEF SweepAssumption
<1> QED
    BY <1>1, <1>2, <1>3 DEF Counted

(* One more trial, with the next seed, counts as one more.                 *)
LEMMA OneMoreCounted ==
    ASSUME NEW r, NEW r1, NEW T, NEW new, NEW value, NEW n \in Nat, NEW successes \in Nat,
           Counted(r, T, value, n, successes), new \notin T,
           \A i \in T : r1[i] = r[i],
           r1[new].value = value, r1[new].seed = SeedBase + n
    PROVE  Counted(r1, T \cup {new}, value, n + 1,
                   IF r1[new].tick # 0 THEN successes + 1 ELSE successes)
<1> DEFINE U == T \cup {new}
<1>1. IsFiniteSet(T) /\ Cardinality(T) = n
    BY DEF Counted
<1>2. IsFiniteSet(U) /\ Cardinality(U) = n + 1
    BY <1>1, FS_AddElement
<1>3. \A i \in U : r1[i].value = value
    BY DEF Counted
<1>4. { r1[i].seed : i \in U } = SeedBase .. SeedBase + (n + 1) - 1
  <2>1. { r1[i].seed : i \in U } = { r[i].seed : i \in T } \cup {SeedBase + n}
      OBVIOUS
  <2>2. { r[i].seed : i \in T } = SeedBase .. SeedBase + n - 1
      BY DEF Counted
  <2>3. (SeedBase .. SeedBase + n - 1) \cup {SeedBase + n} = SeedBase .. SeedBase + (n + 1) - 1
      BY SweepAssumption DEF SweepAssumption
  <2> HIDE DEF U
  <2> QED
      BY <2>1, <2>2, <2>3
<1>5. IsFiniteSet(Successful(r, T)) /\ Cardinality(Successful(r, T)) = successes
  <2>1. Successful(r, T) \subseteq T
      BY DEF Successful
  <2> QED
      BY <1>1, <2>1, FS_Subset DEF Counted
<1>6. CASE r1[new].tick # 0
  <2>1. Successful(r1, U) = Successful(r, T) \cup {new}
      BY <1>6 DEF Successful
  <2>2. new \notin Successful(r, T)
      BY DEF Successful
  <2>3. Cardinality(Successful(r1, U)) = successes + 1
      BY <1>5, <2>1, <2>2, FS_AddElement
  <2> HIDE DEF U
  <2>4. Counted(r1, U, value, n + 1, successes + 1)
      BY <1>2, <1>3, <1>4, <2>3 DEF Counted
  <2> QED
      BY <1>6, <2>4 DEF U
<1>7. CASE r1[new].tick = 0
  <2>1. Successful(r1, U) = Successful(r, T)
      BY <1>7 DEF Successful
  <2>2. Cardinality(Successful(r1, U)) = successes
      BY <1>5, <2>1
  <2> HIDE DEF U
  <2>3. Counted(r1, U, value, n + 1, successes)
      BY <1>2, <1>3, <1>4, <2>2 DEF Counted
  <2> QED
      BY <1>7, <2>3 DEF U
<1> QED
    BY <1>6, <1>7

(* A point is counted as before by a record that agrees on its trials.     *)
LEMMA CountedAlike ==
    ASSUME NEW r, NEW r1, NEW T, NEW value, NEW n, NEW successes,
           Counted(r, T, value, n, successes), \A i \in T : r1[i] = r[i]
    PROVE  Counted(r1, T, value, n, successes)
<1>1. Successful(r1, T) = Successful(r, T)
    BY DEF Successful
<1>2. { r1[i].seed : i \in T } = { r[i].seed : i \in T }
    OBVIOUS
<1> QED
    BY <1>1, <1>2 DEF Counted

(* One more outcome, and what it adds to the convergences.                 *)
LEMMA OneMoreHit ==
    ASSUME NEW o \in Seq(BOOLEAN), NEW b \in BOOLEAN
    PROVE  /\ Cardinality(Hits(o)) \in Nat
           /\ Cardinality(Hits(Append(o, b))) =
                IF b THEN Cardinality(Hits(o)) + 1 ELSE Cardinality(Hits(o))
<1>1. PICK n \in Nat : n = Len(o) /\ DOMAIN o = 1 .. n
    OBVIOUS
<1>2. IsFiniteSet(Hits(o)) /\ Cardinality(Hits(o)) \in Nat
  <2>1. IsFiniteSet(1 .. n) /\ Hits(o) \subseteq 1 .. n
      BY <1>1, FS_Interval DEF Hits
  <2> QED
      BY <2>1, FS_Subset, FS_CardinalityType
<1>3. PICK o1 : o1 = Append(o, b)
    OBVIOUS
<1>4. /\ DOMAIN o1 = 1 .. n + 1 /\ o1[n + 1] = b
      /\ \A j \in 1 .. n : o1[j] = o[j]
    BY <1>1, <1>3
<1>5. CASE b
  <2>1. Hits(o1) = Hits(o) \cup {n + 1}
    <3>1. \A j : j \in 1 .. n + 1 <=> j \in 1 .. n \/ j = n + 1
        BY <1>1
    <3> QED
        BY <1>1, <1>4, <1>5, <3>1 DEF Hits
  <2>2. n + 1 \notin Hits(o)
      BY <1>1 DEF Hits
  <2> QED
      BY <1>2, <1>3, <1>5, <2>1, <2>2, FS_AddElement
<1>6. CASE ~b
  <2>1. Hits(o1) = Hits(o)
    <3>1. \A j : j \in 1 .. n + 1 <=> j \in 1 .. n \/ j = n + 1
        BY <1>1
    <3> QED
        BY <1>1, <1>4, <1>6, <3>1 DEF Hits
  <2> QED
      BY <1>2, <1>3, <1>6, <2>1
<1> QED
    BY <1>5, <1>6

(* No trial has run of a point that is still to come.                      *)
LEMMA PointsToCome ==
    ASSUME IInv, NEW c, NEW k \in Nat, c \in DOMAIN calls,
           \/ phase = "sweeping" /\ c = call /\ k > Point
           \/ phase = "ready" /\ c = call
    PROVE  TrialsIn(ran, c, calls[c].param_name, k) = {}
<1> SUFFICES ASSUME NEW i \in DOMAIN ran, ran[i].call = c,
                    ran[i].path[1] = Directory(calls[c].param_name, k - 1)
             PROVE  FALSE
    BY DEF TrialsIn
<1>1. TrialOK(ran[i])
    BY DEF IInv
<1>2. phase # "ready"
  <2>1. call \in Nat
      BY DEF IInv, DataOK
  <2> QED
      BY <1>1, <2>1 DEF TrialOK
<1>3. PICK index \in Nat :
         /\ ran[i].path[1] = Directory(calls[c].param_name, index)
         /\ index < Len(points) \/ (index = Len(points) /\ ran[i].path[2] < Seed)
    BY <1>1, <1>2 DEF TrialOK
<1>4. index = k - 1
    BY <1>3 DEF Directory
<1>5. Len(points) \in Nat
    BY DEF IInv, DataOK
<1> QED
    BY <1>2, <1>3, <1>4, <1>5 DEF Point

LEMMA StartSweepCounts == ASSUME IInv, CountsOK, StartSweep PROVE CountsOK'
<1>1. UNCHANGED << plan, calls, call, outcomes, points, results, ran >>
    BY DEF StartSweep, work
<1>2. call \in DOMAIN calls /\ phase = "ready" /\ points = << >> /\ outcomes = << >>
    BY DEF IInv, DataOK, PlaceOK, StartSweep
<1>3. Point = 1 /\ Len(outcomes) = 0 /\ DOMAIN points = {}
    BY <1>2 DEF Point
<1>4. Converged = 0
  <2>1. { i \in DOMAIN outcomes : outcomes[i] } = {}
      BY <1>2
  <2> QED
      BY <2>1, FS_EmptySet DEF Converged
<1>5. TrialsIn(ran, call, calls[call].param_name, Point) = {}
    BY <1>2, <1>3, PointsToCome
<1>6. Counted(ran, TrialsIn(ran, call, calls[call].param_name, Point), Value, Len(outcomes), Converged)
  <2>1. Counted(ran, {}, Value, 0, 0)
      BY NoneCounted
  <2> QED
      BY <1>3, <1>4, <1>5, <2>1
<1>7. UNCHANGED << Point, Value, Converged >>
    BY <1>1 DEF Point, Value, Current, Converged
<1> QED
    BY <1>1, <1>3, <1>6, <1>7 DEF CountsOK

LEMMA RunTrialCounts ==
    ASSUME IInv, CountsOK, NEW tick \in 0 .. NumTicks, RunTrial(tick)
    PROVE  CountsOK'
<1>1. /\ phase = "sweeping" /\ call \in DOMAIN calls /\ calls[call] \in Calls
      /\ Point <= Len(calls[call].values)
      /\ UNCHANGED << phase, call, calls, points, results >>
    BY DEF IInv, DataOK, PlaceOK, RunTrial, InPoint, Current
<1>2. PICK m \in Nat : m = Len(ran) /\ DOMAIN ran = 1 .. m
    BY DEF IInv, DataOK
<1>3. PICK new : new = m + 1
    OBVIOUS
<1>4. /\ DOMAIN ran' = DOMAIN ran \cup {new} /\ new \notin DOMAIN ran
      /\ ran'[new] = Trial(tick)
      /\ \A i \in DOMAIN ran : ran'[i] = ran[i]
  <2>1. PICK t : t = Trial(tick)
      OBVIOUS
  <2>2. ran \in Seq(TrialRecords \cup {t}) /\ ran' = Append(ran, t)
    <3>1. ran' = Append(ran, t) /\ ran \in Seq(TrialRecords)
        BY <2>1 DEF RunTrial, IInv, DataOK
    <3> QED
        BY <3>1
  <2>3. 1 .. m + 1 = (1 .. m) \cup {m + 1} /\ m + 1 \notin 1 .. m
      BY <1>2
  <2> QED
      BY <1>2, <1>3, <2>1, <2>2, <2>3
<1>5. \A c, p, k : TrialsIn(ran, c, p, k) \subseteq DOMAIN ran
    BY DEF TrialsIn
<1>6. \A c, p, k : Trial(tick).call # c \/ Trial(tick).path[1] # Directory(p, k - 1)
        => TrialsIn(ran', c, p, k) = TrialsIn(ran, c, p, k)
    BY <1>4 DEF TrialsIn
<1>7. /\ Trial(tick).call = call
      /\ Trial(tick).path[1] = Directory(calls[call].param_name, Len(points))
      /\ Trial(tick).value = Value /\ Trial(tick).seed = SeedBase + Len(outcomes)
      /\ Trial(tick).tick = tick
  <2>1. Point - 1 = Len(points)
      BY DEF Point, IInv, DataOK
  <2> QED
      BY <2>1 DEF Trial, Current, Seed
<1>8. ASSUME NEW q, NEW c, NEW k \in Nat, NEW point, CountedPoint(ran, q, c, k, point),
             c # call \/ k # Point
      PROVE  CountedPoint(ran', q, c, k, point)
  <2>1. Trial(tick).call # c \/ Trial(tick).path[1] # Directory(q.param_name, k - 1)
    <3>1. Len(points) \in Nat
        BY DEF IInv, DataOK
    <3> QED
        BY <1>7, <1>8, <3>1 DEF Directory, Point
  <2>2. TrialsIn(ran', c, q.param_name, k) = TrialsIn(ran, c, q.param_name, k)
      BY <1>6, <2>1
  <2>3. Counted(ran', TrialsIn(ran, c, q.param_name, k), point.value, point.n, point.successes)
      BY <1>4, <1>5, <1>8, CountedAlike DEF CountedPoint
  <2> QED
      BY <1>8, <2>2, <2>3 DEF CountedPoint
<1>9. ASSUME NEW c \in DOMAIN results, NEW k \in DOMAIN results[c]
      PROVE  CountedPoint(ran', calls[c], c, k, results[c][k])
  <2>1. c # call /\ k \in Nat
    <3>1. c \in 1 .. call - 1 /\ call \in Nat /\ results[c] \in Seq(Points)
        BY DEF IInv, DataOK, PlaceOK
    <3> QED
        BY <3>1
  <2>2. CountedPoint(ran, calls[c], c, k, results[c][k])
      BY DEF CountsOK
  <2> QED
      BY <1>8, <2>1, <2>2
<1>10. ASSUME NEW k \in DOMAIN points
       PROVE  CountedPoint(ran', calls[call], call, k, points[k])
  <2>1. k \in Nat /\ k # Point
      BY DEF IInv, DataOK, Point
  <2>2. CountedPoint(ran, calls[call], call, k, points[k])
      BY <1>1 DEF CountsOK
  <2> QED
      BY <1>8, <2>1, <2>2
<1>11. Counted(ran', TrialsIn(ran', call, calls[call].param_name, Point), Value,
               Len(outcomes'), Cardinality(Hits(outcomes')))
  <2>1. PICK T : T = TrialsIn(ran, call, calls[call].param_name, Point)
      OBVIOUS
  <2>2. PICK n \in Nat : n = Len(outcomes)
      BY DEF IInv, DataOK
  <2>3. PICK successes \in Nat : successes = Cardinality(Hits(outcomes))
      BY OneMoreHit DEF IInv, DataOK
  <2>4. Counted(ran, T, Value, n, successes)
      BY <1>1, <2>1, <2>2, <2>3 DEF CountsOK, Converged, Hits
  <2>5. TrialsIn(ran', call, calls[call].param_name, Point) = T \cup {new}
    <3>1. Point - 1 = Len(points)
        BY DEF Point, IInv, DataOK
    <3> QED
        BY <1>4, <1>7, <2>1, <3>1 DEF TrialsIn
  <2>6. Counted(ran', T \cup {new}, Value, n + 1,
                IF ran'[new].tick # 0 THEN successes + 1 ELSE successes)
    <3>1. T \subseteq DOMAIN ran
        BY <1>5, <2>1
    <3>2. new \notin T /\ \A i \in T : ran'[i] = ran[i]
        BY <1>4, <3>1
    <3>3. ran'[new].value = Value /\ ran'[new].seed = SeedBase + n
        BY <1>4, <1>7, <2>2
    <3> QED
        BY <2>4, <3>2, <3>3, OneMoreCounted
  <2>7. Len(outcomes') = n + 1
      BY <2>2 DEF RunTrial, IInv, DataOK
  <2>8. Cardinality(Hits(outcomes')) = IF tick # 0 THEN successes + 1 ELSE successes
    <3>1. (tick # 0) \in BOOLEAN /\ outcomes \in Seq(BOOLEAN) /\ outcomes' = Append(outcomes, tick # 0)
        BY DEF RunTrial, IInv, DataOK
    <3> QED
        BY <2>3, <3>1, OneMoreHit
  <2> QED
      BY <1>4, <1>7, <2>5, <2>6, <2>7, <2>8
<1>12. UNCHANGED << Point, Value >> /\ Converged' = Cardinality(Hits(outcomes'))
    BY <1>1 DEF Point, Value, Current, Converged, Hits
<1> QED
    BY <1>1, <1>9, <1>10, <1>11, <1>12 DEF CountsOK

LEMMA EndPointCounts == ASSUME IInv, CountsOK, EndPoint PROVE CountsOK'
<1>1. call \in DOMAIN calls /\ calls[call] \in Calls /\ WellFormed(calls[call])
    BY DEF IInv, DataOK, PlaceOK, EndPoint
<1>2. /\ points' = Append(points, PointResult) /\ outcomes' = << >> /\ phase = "sweeping"
      /\ Point <= Len(calls[call].values) /\ Len(outcomes) = calls[call].n_per_value
      /\ UNCHANGED << phase, why, plan, calls, call, results, ran >>
    BY <1>1 DEF EndPoint, Current, WellFormed, Calls, IInv, DataOK
<1>3. PICK n \in Nat : n = Len(points) /\ Point = n + 1
    BY DEF IInv, DataOK, Point
<1>4. /\ DOMAIN points' = 1 .. n + 1 /\ points'[n + 1] = PointResult /\ Len(points') = n + 1
      /\ \A k \in 1 .. n : k \in DOMAIN points /\ points'[k] = points[k]
    BY <1>2, <1>3 DEF IInv, DataOK
<1>5. CountedPoint(ran, calls[call], call, Point, PointResult)
    BY <1>2 DEF CountsOK, CountedPoint, PointResult, Current
<1>6. \A k \in DOMAIN points' : CountedPoint(ran, calls[call], call, k, points'[k])
  <2>1. \A k \in 1 .. n : CountedPoint(ran, calls[call], call, k, points'[k])
      BY <1>2, <1>4 DEF CountsOK
  <2>2. \A k \in 1 .. n + 1 : k \in 1 .. n \/ k = n + 1
      BY <1>3
  <2> QED
      BY <1>3, <1>4, <1>5, <2>1, <2>2
<1>7. TrialsIn(ran, call, calls[call].param_name, Point') = {}
  <2>1. PICK k : k = Point + 1
      OBVIOUS
  <2>2. k \in Nat /\ k > Point /\ Point' = k
      BY <1>3, <1>4, <2>1 DEF Point
  <2>3. TrialsIn(ran, call, calls[call].param_name, k) = {}
      BY <1>1, <1>2, <2>2, PointsToCome
  <2> QED
      BY <2>2, <2>3
<1>8. Converged' = 0 /\ Len(outcomes') = 0
  <2>1. { i \in DOMAIN outcomes' : outcomes'[i] } = {}
      BY <1>2
  <2> QED
      BY <1>2, <2>1, FS_EmptySet DEF Converged
<1>9. Counted(ran, {}, Value', 0, 0)
    BY NoneCounted
<1> QED
    BY <1>2, <1>6, <1>7, <1>8, <1>9 DEF CountsOK

LEMMA EndSweepCounts == ASSUME IInv, CountsOK, EndSweep PROVE CountsOK'
<1>1. /\ phase = "sweeping" /\ results' = Append(results, points) /\ phase' # "sweeping"
      /\ UNCHANGED << calls, ran >>
    BY DEF EndSweep
<1>2. call \in Nat /\ Len(results) = call - 1 /\ results \in Seq(Seq(Points))
    BY DEF IInv, DataOK, PlaceOK
<1>3. DOMAIN results' = 1 .. call /\ results'[call] = points
    BY <1>1, <1>2
<1>4. \A c \in 1 .. call : c # call => c \in DOMAIN results /\ results'[c] = results[c]
    BY <1>1, <1>2
<1>5. ASSUME NEW c \in 1 .. call, NEW k \in DOMAIN results'[c]
      PROVE  CountedPoint(ran, calls[c], c, k, results'[c][k])
    BY <1>1, <1>3, <1>4 DEF CountsOK
<1> QED
    BY <1>1, <1>3, <1>5 DEF CountsOK

LEMMA CountsStep == IInv /\ CountsOK /\ [Next]_vars => CountsOK'
<1> SUFFICES ASSUME IInv, CountsOK, [Next]_vars PROVE CountsOK'
    OBVIOUS
<1>1. CASE ValidatePlan
  <2>1. results = << >> /\ results' = << >> /\ phase' # "sweeping"
      BY <1>1 DEF ValidatePlan, Raise, work, IInv, DataOK, PlaceOK
  <2> QED
      BY <2>1 DEF CountsOK
<1>2. CASE StartSweep
    BY <1>2, StartSweepCounts
<1>3. CASE EndPoint
    BY <1>3, EndPointCounts
<1>4. CASE EndSweep
    BY <1>4, EndSweepCounts
<1>5. CASE TrialRaises
    BY <1>5 DEF TrialRaises, Raise, work, CountsOK
<1>6. ASSUME NEW tick \in 0 .. NumTicks, RunTrial(tick) PROVE CountsOK'
    BY <1>6, RunTrialCounts
<1>7. CASE UNCHANGED vars
    BY <1>7 DEF vars, work, CountsOK, Point, Value, Current, Converged
<1> QED
    BY <1>1, <1>2, <1>3, <1>4, <1>5, <1>6, <1>7 DEF Next

(* What the calls return is what was run for them, for any plans, calls,   *)
(* trial counts and outcomes: each point counts exactly one trial of every *)
(* seed, configured with its value, though all points share the seeds.     *)
THEOREM PointsCountTrials == Spec => []PointsMatchTrials
<1>1. Init => CountsOK
    BY DEF Init, CountsOK
<1>2. IInv /\ CountsOK => PointsMatchTrials
  <2> SUFFICES ASSUME IInv, CountsOK, NEW c \in DOMAIN results
               PROVE  /\ Len(results[c]) = Len(calls[c].values)
                      /\ \A k \in DOMAIN results[c] :
                           LET point == results[c][k]
                               trials == TrialsOf(c, k)
                           IN  /\ point.value = calls[c].values[k]
                               /\ \A i \in trials : ran[i].value = point.value
                               /\ point.n = Cardinality(trials)
                               /\ { ran[i].seed : i \in trials }
                                    = SeedBase .. SeedBase + calls[c].n_per_value - 1
                               /\ point.successes = Cardinality({ i \in trials : ran[i].tick # 0 })
      BY DEF PointsMatchTrials
  <2>1. /\ Len(results[c]) = Len(calls[c].values)
        /\ \A k \in DOMAIN results[c] : results[c][k].value = calls[c].values[k]
      BY DEF IInv, ValuesOK
  <2>2. ASSUME NEW k \in DOMAIN results[c]
        PROVE  /\ results[c][k].value = calls[c].values[k]
               /\ \A i \in TrialsOf(c, k) : ran[i].value = results[c][k].value
               /\ results[c][k].n = Cardinality(TrialsOf(c, k))
               /\ { ran[i].seed : i \in TrialsOf(c, k) }
                    = SeedBase .. SeedBase + calls[c].n_per_value - 1
               /\ results[c][k].successes
                    = Cardinality({ i \in TrialsOf(c, k) : ran[i].tick # 0 })
    <3>1. CountedPoint(ran, calls[c], c, k, results[c][k])
        BY DEF CountsOK
    <3>2. TrialsOf(c, k) = TrialsIn(ran, c, calls[c].param_name, k)
        BY DEF TrialsOf, TrialsIn
    <3> QED
        BY <2>1, <3>1, <3>2 DEF CountedPoint, Counted, Successful
  <2> QED
      BY <2>1, <2>2
<1> QED
    BY <1>1, <1>2, CountsStep, Invariant, PTL DEF Spec

-----------------------------------------------------------------------------
(* Every inhabited set of naturals has a least element.                    *)
LEMMA Smallest ==
    ASSUME NEW T \in SUBSET Nat, T # {}
    PROVE  \E n \in T : \A m \in T : n <= m
<1> DEFINE R == { ss \in Nat \X Nat : ss[1] < ss[2] }
<1>1. IsWellFoundedOn(R, Nat)
    BY NatLessThanWellFounded DEF OpToRel
<1>2. \A m, n \in Nat : m < n => << m, n >> \in R
    OBVIOUS
<1> HIDE DEF R
<1>3. \E n \in T : \A m \in T : << m, n >> \notin R
    BY <1>1, WFMin, Zenon
<1>4. PICK n \in T : \A m \in T : << m, n >> \notin R
    BY <1>3
<1>5. ASSUME NEW m \in T
      PROVE  n <= m
    <2>1. m \in Nat /\ n \in Nat /\ << m, n >> \notin R
        BY <1>4
    <2>2. ~ (m < n)
        BY <1>2, <2>1
    <2> QED
        BY <2>1, <2>2
<1> QED
    BY <1>5

(* What is true of a number whenever it is of all smaller ones is true of  *)
(* all.                                                                    *)
LEMMA Induction ==
    ASSUME NEW T, \A n \in Nat : (\A m \in 0 .. n - 1 : m \in T) => n \in T
    PROVE  \A n \in Nat : n \in T
<1> DEFINE F == { n \in Nat : n \notin T }
<1>1. ASSUME F # {}
      PROVE  FALSE
    <2>1. F \in SUBSET Nat
        OBVIOUS
    <2>2. PICK n \in F : \A m \in F : n <= m
        <3> HIDE DEF F
        <3> QED
            BY <1>1, <2>1, Smallest
    <2>3. \A m \in 0 .. n - 1 : m \in T
        BY <2>2
    <2> QED
        BY <2>2, <2>3
<1> QED
    BY <1>1

-----------------------------------------------------------------------------
(* Euclid's algorithm, column by column: the values at a second argument   *)
(* depend only on those at smaller ones.                                   *)
Column == [Nat -> Nat]
Columns(F, n) ==
    /\ F \in [0 .. n -> Column]
    /\ \A b \in 0 .. n : \A a \in Nat : F[b][a] = IF b = 0 THEN a ELSE F[a % b][b]

LEMMA ColumnsExist == \A n \in Nat : \E F : Columns(F, n)
<1> DEFINE T == { n \in Nat : \E F : Columns(F, n) }
<1>1. ASSUME NEW n \in Nat, \A m \in 0 .. n - 1 : m \in T
      PROVE  n \in T
  <2>1. CASE n = 0
    <3>1. Columns([b \in 0 .. 0 |-> [a \in Nat |-> a]], 0)
        BY DEF Columns, Column
    <3> QED
        BY <2>1, <3>1
  <2>2. CASE n # 0
    <3>1. n - 1 \in 0 .. n - 1 /\ n - 1 \in Nat
        BY <2>2
    <3>2. PICK F : Columns(F, n - 1)
        BY <1>1, <3>1
    <3>3. /\ F \in [0 .. n - 1 -> Column]
          /\ \A b \in 0 .. n - 1 : \A a \in Nat : F[b][a] = IF b = 0 THEN a ELSE F[a % b][b]
        BY <3>2 DEF Columns
    <3> DEFINE next == [a \in Nat |-> F[a % n][n]]
               G == [b \in 0 .. n |-> IF b = n THEN next ELSE F[b]]
    <3>4. next \in Column
      <4>1. \A a \in Nat : a % n \in 0 .. n - 1
          BY <2>2
      <4>2. \A b \in 0 .. n - 1 : F[b] \in [Nat -> Nat]
          BY <3>3 DEF Column
      <4> QED
          BY <4>1, <4>2 DEF Column
    <3>5. G \in [0 .. n -> Column]
      <4> HIDE DEF next
      <4> QED
          BY <3>3, <3>4
    <3>6. ASSUME NEW b \in 0 .. n, NEW a \in Nat
          PROVE  G[b][a] = IF b = 0 THEN a ELSE G[a % b][b]
      <4>1. CASE b = n
        <5>1. a % n \in 0 .. n - 1
            BY <2>2
        <5>2. G[b][a] = F[a % n][n] /\ G[a % n] = F[a % n]
            BY <4>1, <5>1
        <5> HIDE DEF G
        <5> QED
            BY <2>2, <4>1, <5>2
      <4>2. CASE b # n
        <5>1. b \in 0 .. n - 1
            BY <4>2
        <5>2. G[b] = F[b]
            BY <4>2
        <5>3. b # 0 => a % b \in 0 .. n - 1 /\ a % b # n
            BY <5>1
        <5>4. b # 0 => G[a % b] = F[a % b]
            BY <5>3
        <5>5. F[b][a] = IF b = 0 THEN a ELSE F[a % b][b]
            BY <3>3, <5>1
        <5> HIDE DEF G
        <5> QED
            BY <5>2, <5>4, <5>5
      <4> QED
          BY <4>1, <4>2
    <3>7. Columns(G, n)
      <4> HIDE DEF G
      <4> QED
          BY <3>5, <3>6 DEF Columns
    <3> QED
        BY <3>7
  <2> QED
      BY <2>1, <2>2
<1> HIDE DEF T
<1>2. \A n \in Nat : n \in T
    BY <1>1, Induction
<1> QED
    BY <1>2 DEF T

LEMMA ColumnsAgree ==
    ASSUME NEW n \in Nat, NEW m \in Nat, NEW F, NEW G, Columns(F, n), Columns(G, m)
    PROVE  \A b \in Nat : b <= n /\ b <= m => F[b] = G[b]
<1> DEFINE T == { b \in Nat : b <= n /\ b <= m => F[b] = G[b] }
<1>1. /\ F \in [0 .. n -> Column] /\ G \in [0 .. m -> Column]
      /\ \A b \in 0 .. n : \A a \in Nat : F[b][a] = IF b = 0 THEN a ELSE F[a % b][b]
      /\ \A b \in 0 .. m : \A a \in Nat : G[b][a] = IF b = 0 THEN a ELSE G[a % b][b]
    BY DEF Columns
<1>2. ASSUME NEW b \in Nat, \A c \in 0 .. b - 1 : c \in T
      PROVE  b \in T
  <2> SUFFICES ASSUME b <= n, b <= m
               PROVE  F[b] = G[b]
      OBVIOUS
  <2>1. b \in 0 .. n /\ b \in 0 .. m
      OBVIOUS
  <2>2. ASSUME NEW a \in Nat
        PROVE  F[b][a] = G[b][a]
    <3>1. b # 0 => a % b \in 0 .. b - 1
        OBVIOUS
    <3>2. b # 0 => F[a % b] = G[a % b]
        BY <1>2, <3>1
    <3> QED
        BY <1>1, <2>1, <3>2
  <2>3. F[b] \in [Nat -> Nat] /\ G[b] \in [Nat -> Nat]
      BY <1>1, <2>1 DEF Column
  <2> QED
      BY <2>2, <2>3
<1> HIDE DEF T
<1>3. \A b \in Nat : b \in T
    BY <1>2, Induction
<1> QED
    BY <1>3 DEF T

LEMMA GCDStep ==
    \A a, b \in Nat : GCD[<< a, b >>] = IF b = 0 THEN a ELSE GCD[<< b, a % b >>]
<1> DEFINE Unrolled(g) ==
             [p \in Nat \X Nat |-> IF p[2] = 0 THEN p[1] ELSE g[<< p[2], p[1] % p[2] >>]]
           F == [b \in Nat |-> CHOOSE f : Columns(f, b)]
           H == [p \in Nat \X Nat |-> F[p[2]][p[2]][p[1]]]
<1>1. \A b \in Nat : Columns(F[b], b)
    BY ColumnsExist
<1> HIDE DEF F
<1>2. \A a, b \in Nat : H[<< a, b >>] = F[b][b][a]
    OBVIOUS
<1>3. ASSUME NEW p \in Nat \X Nat
      PROVE  H[p] = IF p[2] = 0 THEN p[1] ELSE H[<< p[2], p[1] % p[2] >>]
  <2>1. PICK a \in Nat, b \in Nat : p = << a, b >>
      OBVIOUS
  <2>2. F[b][b][a] = IF b = 0 THEN a ELSE F[b][a % b][b]
      BY <1>1 DEF Columns
  <2> HIDE DEF H
  <2>3. CASE b # 0
    <3>1. PICK r \in Nat : r = a % b /\ r <= b /\ r <= r
        BY <2>3
    <3>2. F[b][r] = F[r][r]
        BY <1>1, <3>1, ColumnsAgree
    <3>3. H[<< a, b >>] = F[b][b][a] /\ H[<< b, r >>] = F[r][r][b]
        BY <1>2
    <3> QED
        BY <2>1, <2>2, <2>3, <3>1, <3>2, <3>3
  <2>4. CASE b = 0
    <3>1. H[<< a, b >>] = F[b][b][a]
        BY <1>2
    <3> QED
        BY <2>1, <2>2, <2>4, <3>1
  <2> QED
      BY <2>3, <2>4
<1>4. H = Unrolled(H)
    BY <1>3
<1>5. GCD = CHOOSE g : g = Unrolled(g)
    BY DEF GCD
<1>6. GCD = Unrolled(GCD)
  <2> HIDE DEF Unrolled, H
  <2> QED
      BY <1>4, <1>5, Zenon
<1>7. \A p \in Nat \X Nat : GCD[p] = IF p[2] = 0 THEN p[1] ELSE GCD[<< p[2], p[1] % p[2] >>]
  <2>1. \A p \in Nat \X Nat : Unrolled(GCD)[p] = IF p[2] = 0 THEN p[1] ELSE GCD[<< p[2], p[1] % p[2] >>]
      OBVIOUS
  <2> HIDE DEF Unrolled
  <2> QED
      BY <1>6, <2>1
<1> QED
    BY <1>7

(* Sums and products regrouped.                                            *)
LEMMA Distribute ==
    ASSUME NEW g \in Int, NEW k \in Int, NEW q \in Int, NEW l \in Int
    PROVE  g * (k * q + l) = (g * k) * q + g * l
OBVIOUS

LEMMA Exchange ==
    ASSUME NEW g \in Int, NEW j \in Int, NEW l \in Int
    PROVE  j * (g * l) = (g * j) * l /\ g * (-j) = -(g * j)
OBVIOUS

(* It divides both numbers.                                                *)
LEMMA GCDDivides ==
    ASSUME NEW x \in Nat, NEW y \in Nat, x + y > 0
    PROVE  /\ GCD[<< x, y >>] \in Nat \ {0}
           /\ \E k, l \in Nat : x = GCD[<< x, y >>] * k /\ y = GCD[<< x, y >>] * l
<1> DEFINE Divides(g, a, b) == g \in Nat \ {0} /\ \E k, l \in Nat : a = g * k /\ b = g * l
           T == { b \in Nat : \A a \in Nat : a + b > 0 => Divides(GCD[<< a, b >>], a, b) }
<1>1. ASSUME NEW b \in Nat, \A c \in 0 .. b - 1 : c \in T
      PROVE  b \in T
  <2> SUFFICES ASSUME NEW a \in Nat, a + b > 0
               PROVE  Divides(GCD[<< a, b >>], a, b)
      OBVIOUS
  <2>1. CASE b = 0
    <3>1. GCD[<< a, b >>] = a
        BY <2>1, GCDStep
    <3>2. a = a * 1 /\ b = a * 0
        BY <2>1
    <3> QED
        BY <2>1, <3>1, <3>2
  <2>2. CASE b # 0
    <3>1. PICK r \in Nat, q \in Nat : r = a % b /\ q = a \div b /\ a = b * q + r /\ r \in 0 .. b - 1
        BY <2>2
    <3>2. PICK g : g = GCD[<< b, r >>] /\ GCD[<< a, b >>] = g
        BY <2>2, <3>1, GCDStep
    <3>3. Divides(g, b, r)
        BY <1>1, <2>2, <3>1, <3>2
    <3>4. PICK k \in Nat, l \in Nat : b = g * k /\ r = g * l /\ g \in Nat \ {0}
        BY <3>3
    <3>5. a = g * (k * q + l) /\ k * q + l \in Nat
      <4>1. a = (g * k) * q + g * l
          BY <3>1, <3>4
      <4>2. g * (k * q + l) = (g * k) * q + g * l
          BY <3>4, Distribute
      <4> QED
          BY <4>1, <4>2
    <3> QED
        BY <3>2, <3>4, <3>5
  <2> QED
      BY <2>1, <2>2
<1> HIDE DEF T
<1>2. \A b \in Nat : b \in T
    BY <1>1, Induction
<1> QED
    BY <1>2 DEF T

-----------------------------------------------------------------------------
(* Rational numbers: q is x / y.                                           *)
Stands(q, x, y) ==
    /\ q = << q[1], q[2] >> /\ q[1] \in Int /\ q[2] \in Nat \ {0}
    /\ x \in Int /\ y \in Nat \ {0}
    /\ q[1] * y = x * q[2]

(* A ratio in lowest terms is still that number.                           *)
LEMMA ExactQuotient ==
    ASSUME NEW x \in Int, NEW g \in Nat \ {0}
    PROVE  (g * x) \div g = x
OBVIOUS

LEMMA RatioStands ==
    ASSUME NEW x \in Int, NEW y \in Nat \ {0}
    PROVE  Stands(Ratio(x, y), x, y)
<1>1. PICK a \in Nat : a = Abs(x) /\ (x = a \/ x = -a)
    BY DEF Abs
<1>2. Abs(y) = y
    BY DEF Abs
<1>3. PICK g \in Nat \ {0}, k \in Nat, l \in Nat : g = GCD[<< a, y >>] /\ a = g * k /\ y = g * l
  <2>1. a + y > 0 /\ y \in Nat
      BY <1>1
  <2>2. /\ GCD[<< a, y >>] \in Nat \ {0}
        /\ \E k, l \in Nat : a = GCD[<< a, y >>] * k /\ y = GCD[<< a, y >>] * l
      BY <2>1, GCDDivides
  <2> QED
      BY <2>2
<1>4. l # 0
    BY <1>3
<1>5. PICK j \in Int : x = g * j
  <2>1. a = x => x = g * k
      BY <1>3
  <2>2. g * (-k) = -(g * k)
      BY Exchange
  <2>3. x = -a => x = g * (-k)
      BY <1>3, <2>2
  <2> QED
      BY <1>1, <1>3, <2>1, <2>3
<1>6. Ratio(x, y) = << x \div g, y \div g >>
    BY <1>1, <1>2, <1>3 DEF Ratio
<1>7. x \div g = j /\ y \div g = l
  <2>1. (g * j) \div g = j
      BY <1>5, ExactQuotient
  <2>2. (g * l) \div g = l
      BY <1>3, ExactQuotient
  <2> QED
      BY <1>3, <1>5, <2>1, <2>2
<1>8. j * y = x * l
  <2>1. j * (g * l) = (g * j) * l
      BY <1>3, <1>5, Exchange
  <2> QED
      BY <1>3, <1>5, <2>1
<1> QED
    BY <1>4, <1>6, <1>7, <1>8 DEF Stands

(* Numbers that are the same number.                                       *)
LEMMA Cancel ==
    ASSUME NEW a \in Int, NEW b \in Int, NEW k \in Nat \ {0}
    PROVE  /\ a * k = b * k => a = b
           /\ a * k <= b * k <=> a <= b
OBVIOUS

LEMMA Regrouped ==
    ASSUME NEW a \in Int, NEW b \in Int, NEW c \in Int
    PROVE  (a * b) * c = (a * c) * b /\ a * b \in Int /\ a * b = b * a
OBVIOUS

LEMMA SameNumber ==
    ASSUME NEW q, NEW x, NEW y, Stands(q, x, y), NEW u \in Int, NEW v \in Nat \ {0}, x * v = u * y
    PROVE  Stands(q, u, v)
<1>1. /\ q = << q[1], q[2] >> /\ q[1] \in Int /\ q[2] \in Nat \ {0}
      /\ x \in Int /\ y \in Nat \ {0}
      /\ q[1] * y = x * q[2]
    BY DEF Stands
<1>2. PICK a \in Int, b \in Nat \ {0} : a = q[1] /\ b = q[2]
    BY <1>1
<1>3. (a * v) * y = (u * b) * y
  <2>1. (a * v) * y = (a * y) * v
      BY <1>1, Regrouped
  <2>2. (a * y) * v = (x * b) * v
      BY <1>1, <1>2
  <2>3. (x * b) * v = (x * v) * b
      BY <1>1, Regrouped
  <2>4. (x * v) * b = (u * y) * b
      OBVIOUS
  <2>5. (u * y) * b = (u * b) * y
      BY <1>1, Regrouped
  <2> QED
      BY <2>1, <2>2, <2>3, <2>4, <2>5
<1>4. a * v = u * b
  <2>1. a * v \in Int /\ u * b \in Int
      BY Regrouped
  <2> QED
      BY <1>1, <1>3, <2>1, Cancel
<1> QED
    BY <1>1, <1>2, <1>4 DEF Stands

(* What the operations on rational numbers give.                           *)
LEMMA SumTerms ==
    ASSUME NEW a \in Int, NEW b \in Int, NEW c \in Int, NEW d \in Int,
           NEW x \in Int, NEW y \in Int, NEW u \in Int, NEW v \in Int
    PROVE  /\ (a * d + c * b) * (y * v) = (a * y) * (d * v) + (c * v) * (b * y)
           /\ (a * d - c * b) * (y * v) = (a * y) * (d * v) - (c * v) * (b * y)
           /\ (x * b) * (d * v) + (u * d) * (b * y) = (x * v + u * y) * (b * d)
           /\ (x * b) * (d * v) - (u * d) * (b * y) = (x * v - u * y) * (b * d)
           /\ (a * c) * (y * v) = (a * y) * (c * v)
           /\ (x * b) * (u * d) = (x * u) * (b * d)
OBVIOUS

LEMMA Products ==
    ASSUME NEW b \in Nat \ {0}, NEW d \in Nat \ {0}
    PROVE  b * d \in Nat \ {0}
OBVIOUS

LEMMA Operations ==
    ASSUME NEW p, NEW q, NEW x, NEW y, NEW u, NEW v, Stands(p, x, y), Stands(q, u, v)
    PROVE  /\ Stands(p ++ q, x * v + u * y, y * v)
           /\ Stands(p -- q, x * v - u * y, y * v)
           /\ Stands(p ** q, x * u, y * v)
<1>1. PICK a \in Int, b \in Nat \ {0}, c \in Int, d \in Nat \ {0} :
        p[1] = a /\ p[2] = b /\ q[1] = c /\ q[2] = d
    BY DEF Stands
<1>2. x \in Int /\ y \in Nat \ {0} /\ u \in Int /\ v \in Nat \ {0} /\ a * y = x * b /\ c * v = u * d
    BY <1>1 DEF Stands
<1>3. b * d \in Nat \ {0} /\ y * v \in Nat \ {0}
    BY <1>2, Products
<1>4. /\ (a * d + c * b) * (y * v) = (x * v + u * y) * (b * d)
      /\ (a * d - c * b) * (y * v) = (x * v - u * y) * (b * d)
      /\ (a * c) * (y * v) = (x * u) * (b * d)
  <2>1. /\ (a * d + c * b) * (y * v) = (a * y) * (d * v) + (c * v) * (b * y)
        /\ (a * d - c * b) * (y * v) = (a * y) * (d * v) - (c * v) * (b * y)
        /\ (x * b) * (d * v) + (u * d) * (b * y) = (x * v + u * y) * (b * d)
        /\ (x * b) * (d * v) - (u * d) * (b * y) = (x * v - u * y) * (b * d)
        /\ (a * c) * (y * v) = (a * y) * (c * v)
        /\ (x * b) * (u * d) = (x * u) * (b * d)
      BY <1>2, SumTerms
  <2> QED
      BY <1>2, <2>1
<1>5. /\ a * d + c * b \in Int /\ a * d - c * b \in Int /\ a * c \in Int
      /\ x * v + u * y \in Int /\ x * v - u * y \in Int /\ x * u \in Int
    BY <1>2
<1>6. Stands(p ++ q, x * v + u * y, y * v)
  <2>1. Stands(Ratio(a * d + c * b, b * d), a * d + c * b, b * d)
      BY <1>3, <1>5, RatioStands
  <2> QED
      BY <1>1, <1>3, <1>4, <1>5, <2>1, SameNumber DEF ++
<1>7. Stands(p -- q, x * v - u * y, y * v)
  <2>1. Stands(Ratio(a * d - c * b, b * d), a * d - c * b, b * d)
      BY <1>3, <1>5, RatioStands
  <2> QED
      BY <1>1, <1>3, <1>4, <1>5, <2>1, SameNumber DEF --
<1>8. Stands(p ** q, x * u, y * v)
  <2>1. Stands(Ratio(a * c, b * d), a * c, b * d)
      BY <1>3, <1>5, RatioStands
  <2> QED
      BY <1>1, <1>3, <1>4, <1>5, <2>1, SameNumber DEF **
<1> QED
    BY <1>6, <1>7, <1>8

(* Division by what is positive.                                           *)
LEMMA Quotients ==
    ASSUME NEW p, NEW q, NEW x, NEW y, NEW u, NEW v, Stands(p, x, y), Stands(q, u, v), u \in Nat \ {0}
    PROVE  Stands(p // q, x * v, y * u)
<1>1. PICK a \in Int, b \in Nat \ {0}, c \in Int, d \in Nat \ {0} :
        p[1] = a /\ p[2] = b /\ q[1] = c /\ q[2] = d
    BY DEF Stands
<1>2. x \in Int /\ y \in Nat \ {0} /\ u \in Nat \ {0} /\ v \in Nat \ {0} /\ a * y = x * b /\ c * v = u * d
    BY <1>1 DEF Stands
<1>3. c \in Nat \ {0}
  <2>1. u * d \in Nat \ {0}
      BY <1>2, Products
  <2>2. c * v \in Nat \ {0}
      BY <1>2, <2>1
  <2> QED
      BY <1>2, <2>2
<1>4. b * c \in Nat \ {0} /\ y * u \in Nat \ {0} /\ a * d \in Int /\ x * v \in Int
    BY <1>2, <1>3, Products
<1>5. (a * d) * (y * u) = (x * v) * (b * c)
  <2>1. (a * d) * (y * u) = (a * y) * (u * d)
      BY <1>2, SumTerms
  <2>2. (a * y) * (u * d) = (x * b) * (c * v)
      BY <1>2
  <2>3. (x * b) * (c * v) = (x * v) * (b * c)
      BY <1>2, <1>3, SumTerms
  <2> QED
      BY <2>1, <2>2, <2>3
<1>6. Stands(Ratio(a * d, b * c), a * d, b * c)
    BY <1>4, RatioStands
<1> QED
    BY <1>1, <1>4, <1>5, <1>6, SameNumber DEF //

(* Comparing across is comparing the numbers.                              *)
LEMMA Comparison ==
    ASSUME NEW p, NEW q, NEW x, NEW y, NEW u, NEW v, Stands(p, x, y), Stands(q, u, v)
    PROVE  p \preceq q <=> x * v <= u * y
<1>1. PICK a \in Int, b \in Nat \ {0}, c \in Int, d \in Nat \ {0} :
        p[1] = a /\ p[2] = b /\ q[1] = c /\ q[2] = d
    BY DEF Stands
<1>2. x \in Int /\ y \in Nat \ {0} /\ u \in Int /\ v \in Nat \ {0} /\ a * y = x * b /\ c * v = u * d
    BY <1>1 DEF Stands
<1>3. PICK k \in Nat \ {0}, l \in Nat \ {0} : k = y * v /\ l = b * d
    BY <1>2, Products
<1>4. (a * d) * k = (x * v) * l /\ (c * b) * k = (u * y) * l
  <2>1. (a * d) * (y * v) = (a * y) * (d * v) /\ (c * b) * (v * y) = (c * v) * (b * y)
      BY <1>2, SumTerms
  <2>2. (x * b) * (v * d) = (x * v) * (b * d) /\ (u * d) * (y * b) = (u * y) * (d * b)
      BY <1>2, SumTerms
  <2>3. y * v = v * y /\ b * d = d * b /\ d * v = v * d /\ b * y = y * b
      BY <1>2
  <2> QED
      BY <1>2, <1>3, <2>1, <2>2, <2>3
<1>5. PICK e \in Int, f \in Int, g \in Int, h \in Int : e = a * d /\ f = c * b /\ g = x * v /\ h = u * y
    BY <1>2
<1>6. e * k = g * l /\ f * k = h * l
    BY <1>4, <1>5
<1>7. e <= f <=> g <= h
  <2>1. e * k <= f * k <=> e <= f
      BY Cancel
  <2>2. g * l <= h * l <=> g <= h
      BY Cancel
  <2> QED
      BY <1>6, <2>1, <2>2
<1>8. p \preceq q <=> a * d <= c * b
    BY <1>1 DEF \preceq
<1> QED
    BY <1>5, <1>7, <1>8

LEMMA WholeStands ==
    ASSUME NEW i \in Int
    PROVE  Stands(Whole(i), i, 1)
BY DEF Stands, Whole

-----------------------------------------------------------------------------
(* The score test and the interval, multiplied out.  The proportion is a/b,*)
(* the rate s/n.                                                           *)
Miss(n, s, a, b) == a * n - b * s
Gap(n, s, z, a, b) == 2 * (a * (n + z)) - b * (2 * s + z)
Spread(n, s, z) == 4 * (s * (n - s)) + z * n

Multiplied(n, s, z, a, b) ==
    n * (Gap(n, s, z, a, b) * Gap(n, s, z, a, b)) - (z * (b * b)) * Spread(n, s, z)
      = (4 * (n + z)) * (Miss(n, s, a, b) * Miss(n, s, a, b) - (z * n) * (a * (b - a)))

LEMMA WilsonIdentity ==
    ASSUME NEW n \in Int, NEW s \in Int, NEW z \in Int, NEW a \in Int, NEW b \in Int
    PROVE  Multiplied(n, s, z, a, b)
BY DEF Multiplied, Gap, Spread, Miss

SameSide(n, s, z, a, b) ==
    n * (Gap(n, s, z, a, b) * Gap(n, s, z, a, b)) <= (z * (b * b)) * Spread(n, s, z)
      <=> Miss(n, s, a, b) * Miss(n, s, a, b) <= (z * n) * (a * (b - a))

LEMMA WilsonAlgebra ==
    ASSUME NEW n \in Nat \ {0}, NEW s \in Int, NEW z \in Nat \ {0}, NEW a \in Int, NEW b \in Int
    PROVE  SameSide(n, s, z, a, b)
<1>1. PICK l \in Int, r \in Int, x \in Int, y \in Int :
        /\ l = n * (Gap(n, s, z, a, b) * Gap(n, s, z, a, b))
        /\ r = (z * (b * b)) * Spread(n, s, z)
        /\ x = Miss(n, s, a, b) * Miss(n, s, a, b)
        /\ y = (z * n) * (a * (b - a))
  <2>1. Gap(n, s, z, a, b) \in Int /\ Spread(n, s, z) \in Int /\ Miss(n, s, a, b) \in Int
      BY DEF Gap, Spread, Miss
  <2> QED
      BY <2>1
<1>2. PICK k \in Nat \ {0} : k = 4 * (n + z)
    OBVIOUS
<1>3. l - r = k * (x - y)
  <2>1. n * (Gap(n, s, z, a, b) * Gap(n, s, z, a, b)) - (z * (b * b)) * Spread(n, s, z)
          = (4 * (n + z)) * (Miss(n, s, a, b) * Miss(n, s, a, b) - (z * n) * (a * (b - a)))
    <3>1. n \in Int /\ z \in Int
        OBVIOUS
    <3>2. Multiplied(n, s, z, a, b)
        BY <3>1, WilsonIdentity
    <3> QED
        BY <3>2 DEF Multiplied
  <2> QED
      BY <1>1, <1>2, <2>1, Zenon
<1>4. l <= r <=> x <= y
  <2>1. k * (x - y) = k * x - k * y
      OBVIOUS
  <2>2. x * k <= y * k <=> x <= y
      BY Cancel
  <2>3. x * k = k * x /\ y * k = k * y /\ k * x \in Int /\ k * y \in Int
      OBVIOUS
  <2> QED
      BY <1>3, <2>1, <2>2, <2>3
<1> QED
    BY <1>1, <1>4, Zenon DEF SameSide

(* The two sides of the interval's inequality.                             *)
Added(n, s, z, a, b) ==
    /\ (1 * (1 * n) + (z * 1) * 1) * n = (n + z) * (1 * (1 * n))
    /\ (s * (1 * (2 * n)) + (z * 1) * n) * (2 * n) = (2 * s + z) * (n * (1 * (2 * n)))
    /\ ((a * (n + z)) * (2 * n) - (2 * s + z) * (b * n)) * (2 * (b * n))
         = Gap(n, s, z, a, b) * ((b * n) * (2 * n))
    /\ (1 * n - s * 1) * n = (n - s) * (1 * n)
    /\ (z * (((s * (n - s)) * 1) * (1 * (4 * n * n)) + (z * 1) * ((n * n) * n))) * (4 * (n * (n * n)))
         = (z * Spread(n, s, z)) * (1 * (((n * n) * n) * (1 * (4 * n * n))))

LEMMA FractionSums ==
    ASSUME NEW n \in Int, NEW s \in Int, NEW z \in Int, NEW a \in Int, NEW b \in Int
    PROVE  Added(n, s, z, a, b)
BY DEF Added, Gap, Spread

(* The interval of the rate s/n contains a/b just if the score test of a/b *)
(* does not reject that rate.                                              *)
LEMMA IntervalSide ==
    ASSUME NEW n \in Nat \ {0}, NEW s \in Int, NEW p, NEW a \in Int, NEW b \in Nat \ {0}, Stands(p, a, b)
    PROVE  WilsonContains(s, n, p)
             <=> n * (Gap(n, s, ZSquared, a, b) * Gap(n, s, ZSquared, a, b))
                   <= (ZSquared * (b * b)) * Spread(n, s, ZSquared)
<1> DEFINE phat == Ratio(s, n)
           denominator == One ++ (zSquared // Whole(n))
           center == phat ++ (zSquared // Whole(2 * n))
           spread == ((phat ** (One -- phat)) // Whole(n)) ++ (zSquared // Whole(4 * n * n))
           left == Square((p ** denominator) -- center)
           right == zSquared ** spread
<1>1. PICK z \in Nat \ {0} : z = ZSquared
    BY ZAssumption
<1>0. n \in Int /\ z \in Int /\ b \in Int
    BY <1>1
<1>2. PICK e \in Int, t \in Int : e = Gap(n, s, z, a, b) /\ t = Spread(n, s, z)
  <2>1. Gap(n, s, z, a, b) \in Int
      BY <1>0 DEF Gap
  <2>2. Spread(n, s, z) \in Int
      BY <1>0 DEF Spread
  <2> QED
      BY <2>1, <2>2
<1>3. Stands(zSquared, z, 1) /\ Stands(One, 1, 1) /\ Stands(Whole(n), n, 1)
    BY <1>1, WholeStands DEF zSquared, One
<1>4. /\ (1 * (1 * n) + (z * 1) * 1) * n = (n + z) * (1 * (1 * n))
      /\ (s * (1 * (2 * n)) + (z * 1) * n) * (2 * n) = (2 * s + z) * (n * (1 * (2 * n)))
      /\ ((a * (n + z)) * (2 * n) - (2 * s + z) * (b * n)) * (2 * (b * n)) = e * ((b * n) * (2 * n))
      /\ (1 * n - s * 1) * n = (n - s) * (1 * n)
      /\ (z * (((s * (n - s)) * 1) * (1 * (4 * n * n)) + (z * 1) * ((n * n) * n))) * (4 * (n * (n * n)))
           = (z * t) * (1 * (((n * n) * n) * (1 * (4 * n * n))))
  <2>1. /\ (1 * (1 * n) + (z * 1) * 1) * n = (n + z) * (1 * (1 * n))
        /\ (s * (1 * (2 * n)) + (z * 1) * n) * (2 * n) = (2 * s + z) * (n * (1 * (2 * n)))
        /\ ((a * (n + z)) * (2 * n) - (2 * s + z) * (b * n)) * (2 * (b * n))
             = Gap(n, s, z, a, b) * ((b * n) * (2 * n))
        /\ (1 * n - s * 1) * n = (n - s) * (1 * n)
        /\ (z * (((s * (n - s)) * 1) * (1 * (4 * n * n)) + (z * 1) * ((n * n) * n))) * (4 * (n * (n * n)))
             = (z * Spread(n, s, z)) * (1 * (((n * n) * n) * (1 * (4 * n * n))))
    <3>1. Added(n, s, z, a, b)
        BY <1>0, FractionSums
    <3> QED
        BY <3>1, Zenon DEF Added
  <2> QED
      BY <1>2, <2>1, Zenon
<1>5. Stands(phat, s, n)
    BY RatioStands
<1>6. Stands(denominator, n + z, n)
  <2>1. Stands(zSquared // Whole(n), z * 1, 1 * n)
      BY <1>3, Quotients
  <2>2. Stands(denominator, 1 * (1 * n) + (z * 1) * 1, 1 * (1 * n))
      BY <1>3, <2>1, Operations
  <2>3. n + z \in Int
      OBVIOUS
  <2> HIDE DEF denominator
  <2> QED
      BY <1>4, <2>2, <2>3, SameNumber
<1>7. Stands(center, 2 * s + z, 2 * n)
  <2>1. 2 * n \in Nat \ {0} /\ 2 * s + z \in Int
      OBVIOUS
  <2>2. Stands(zSquared // Whole(2 * n), z * 1, 1 * (2 * n))
    <3>1. PICK m \in Nat \ {0} : m = 2 * n /\ Stands(Whole(m), m, 1)
        BY <2>1, WholeStands
    <3> QED
        BY <1>3, <3>1, Quotients
  <2>3. Stands(center, s * (1 * (2 * n)) + (z * 1) * n, n * (1 * (2 * n)))
    <3> HIDE DEF phat
    <3> QED
        BY <1>5, <2>2, Operations
  <2> HIDE DEF center
  <2> QED
      BY <1>4, <2>1, <2>3, SameNumber
<1>8. Stands(left, e * e, (2 * (b * n)) * (2 * (b * n)))
  <2>1. 2 * (b * n) \in Nat \ {0}
      OBVIOUS
  <2> HIDE DEF denominator, center
  <2>2. Stands(p ** denominator, a * (n + z), b * n)
      BY <1>6, Operations
  <2>3. Stands((p ** denominator) -- center, (a * (n + z)) * (2 * n) - (2 * s + z) * (b * n),
               (b * n) * (2 * n))
      BY <1>7, <2>2, Operations
  <2>4. Stands((p ** denominator) -- center, e, 2 * (b * n))
      BY <1>4, <2>1, <2>3, SameNumber
  <2> QED
      BY <2>4, Operations DEF Square
<1>9. Stands(right, z * t, 4 * (n * (n * n)))
  <2>1. 4 * (n * (n * n)) \in Nat \ {0} /\ 4 * n * n \in Nat \ {0} /\ n - s \in Int /\ z * t \in Int
      OBVIOUS
  <2> HIDE DEF phat
  <2>2. Stands(One -- phat, 1 * n - s * 1, 1 * n)
      BY <1>3, <1>5, Operations
  <2>3. Stands(One -- phat, n - s, n)
      BY <1>4, <2>1, <2>2, SameNumber
  <2>4. Stands(phat ** (One -- phat), s * (n - s), n * n)
      BY <1>5, <2>3, Operations
  <2>5. Stands((phat ** (One -- phat)) // Whole(n), (s * (n - s)) * 1, (n * n) * n)
      BY <1>3, <2>4, Quotients
  <2>6. Stands(zSquared // Whole(4 * n * n), z * 1, 1 * (4 * n * n))
    <3>1. PICK m \in Nat \ {0} : m = 4 * n * n /\ Stands(Whole(m), m, 1)
        BY <2>1, WholeStands
    <3> QED
        BY <1>3, <3>1, Quotients
  <2>7. Stands(spread, ((s * (n - s)) * 1) * (1 * (4 * n * n)) + (z * 1) * ((n * n) * n),
               ((n * n) * n) * (1 * (4 * n * n)))
      BY <2>5, <2>6, Operations
  <2> HIDE DEF spread
  <2>8. Stands(right, z * (((s * (n - s)) * 1) * (1 * (4 * n * n)) + (z * 1) * ((n * n) * n)),
               1 * (((n * n) * n) * (1 * (4 * n * n))))
      BY <1>3, <2>7, Operations
  <2> HIDE DEF right
  <2> QED
      BY <1>4, <2>1, <2>8, SameNumber
<1>10. left \preceq right
         <=> (e * e) * (4 * (n * (n * n))) <= (z * t) * ((2 * (b * n)) * (2 * (b * n)))
  <2> HIDE DEF left, right
  <2> QED
      BY <1>8, <1>9, Comparison
<1>11. (e * e) * (4 * (n * (n * n))) <= (z * t) * ((2 * (b * n)) * (2 * (b * n)))
         <=> n * (e * e) <= (z * (b * b)) * t
  <2>1. PICK k \in Nat \ {0} : k = 4 * (n * n)
      OBVIOUS
  <2>2. /\ (e * e) * (4 * (n * (n * n))) = (n * (e * e)) * (4 * (n * n))
        /\ (z * t) * ((2 * (b * n)) * (2 * (b * n))) = ((z * (b * b)) * t) * (4 * (n * n))
      OBVIOUS
  <2>3. n * (e * e) \in Int /\ (z * (b * b)) * t \in Int
      OBVIOUS
  <2> QED
      BY <2>1, <2>2, <2>3, Cancel
<1>12. WilsonContains(s, n, p) <=> left \preceq right
    BY DEF WilsonContains
<1> QED
    BY <1>1, <1>2, <1>10, <1>11, <1>12

(* The two sides of the score test's inequality.                           *)
LEMMA TestSide ==
    ASSUME NEW n \in Nat \ {0}, NEW s \in Int, NEW p, NEW a \in Int, NEW b \in Nat \ {0}, Stands(p, a, b)
    PROVE  (Whole(n) ** Square(Ratio(s, n) -- p)) \preceq (zSquared ** (p ** (One -- p)))
             <=> Miss(n, s, a, b) * Miss(n, s, a, b) <= (ZSquared * n) * (a * (b - a))
<1>1. PICK z \in Nat \ {0} : z = ZSquared
    BY ZAssumption
<1>2. Stands(zSquared, z, 1) /\ Stands(One, 1, 1) /\ Stands(Whole(n), n, 1) /\ Stands(Ratio(s, n), s, n)
    BY <1>1, WholeStands, RatioStands DEF zSquared, One
<1>3. PICK d \in Int : d = s * b - a * n
    OBVIOUS
<1>4. Stands(Ratio(s, n) -- p, d, n * b)
    BY <1>2, <1>3, Operations
<1>5. Stands(Square(Ratio(s, n) -- p), d * d, (n * b) * (n * b))
    BY <1>4, Operations DEF Square
<1>6. Stands(Whole(n) ** Square(Ratio(s, n) -- p), n * (d * d), 1 * ((n * b) * (n * b)))
    BY <1>2, <1>5, Operations
<1>7. Stands(One -- p, 1 * b - a * 1, 1 * b)
    BY <1>2, Operations
<1>8. Stands(p ** (One -- p), a * (1 * b - a * 1), b * (1 * b))
    BY <1>7, Operations
<1>9. Stands(zSquared ** (p ** (One -- p)), z * (a * (1 * b - a * 1)), 1 * (b * (1 * b)))
    BY <1>2, <1>8, Operations
<1>10. (Whole(n) ** Square(Ratio(s, n) -- p)) \preceq (zSquared ** (p ** (One -- p)))
         <=> (n * (d * d)) * (1 * (b * (1 * b)))
               <= (z * (a * (1 * b - a * 1))) * (1 * ((n * b) * (n * b)))
    BY <1>6, <1>9, Comparison
<1>11. PICK k \in Nat \ {0}, m \in Int : k = n * (b * b) /\ m = Miss(n, s, a, b)
    BY DEF Miss
<1>12. /\ (n * (d * d)) * (1 * (b * (1 * b))) = (d * d) * (n * (b * b))
       /\ (z * (a * (1 * b - a * 1))) * (1 * ((n * b) * (n * b)))
            = ((z * n) * (a * (b - a))) * (n * (b * b))
    OBVIOUS
<1>13. d * d = m * m
  <2>1. d = -m
      BY <1>3, <1>11 DEF Miss
  <2> QED
      BY <2>1
<1>14. (d * d) * k <= ((z * n) * (a * (b - a))) * k <=> d * d <= (z * n) * (a * (b - a))
  <2>1. d * d \in Int /\ (z * n) * (a * (b - a)) \in Int
      OBVIOUS
  <2> QED
      BY <2>1, Cancel
<1> QED
    BY <1>1, <1>10, <1>11, <1>12, <1>13, <1>14

InvertsTest(s, n) ==
    /\ WilsonContains(s, n, Ratio(s, n))
    /\ \A a \in Int, b \in Nat \ {0} :
         WilsonContains(s, n, Ratio(a, b))
           <=> (Whole(n) ** Square(Ratio(s, n) -- Ratio(a, b)))
                 \preceq (zSquared ** (Ratio(a, b) ** (One -- Ratio(a, b))))

(* The interval contains the rate itself, and the proportions the test     *)
(* does not reject.                                                        *)
LEMMA IntervalIsTest ==
    ASSUME NEW n \in Nat \ {0}, NEW s \in 0 .. n
    PROVE  InvertsTest(s, n)
<1>1. ASSUME NEW a \in Int, NEW b \in Nat \ {0}
      PROVE  /\ WilsonContains(s, n, Ratio(a, b))
                  <=> Miss(n, s, a, b) * Miss(n, s, a, b) <= (ZSquared * n) * (a * (b - a))
             /\ WilsonContains(s, n, Ratio(a, b))
                  <=> (Whole(n) ** Square(Ratio(s, n) -- Ratio(a, b)))
                        \preceq (zSquared ** (Ratio(a, b) ** (One -- Ratio(a, b))))
  <2>1. PICK p : p = Ratio(a, b) /\ Stands(p, a, b)
      BY RatioStands
  <2>2. n * (Gap(n, s, ZSquared, a, b) * Gap(n, s, ZSquared, a, b))
          <= (ZSquared * (b * b)) * Spread(n, s, ZSquared)
          <=> Miss(n, s, a, b) * Miss(n, s, a, b) <= (ZSquared * n) * (a * (b - a))
    <3>1. PICK z \in Nat \ {0} : z = ZSquared
        BY ZAssumption
    <3>2. s \in Int /\ b \in Int
        OBVIOUS
    <3>3. SameSide(n, s, z, a, b)
        BY <3>2, WilsonAlgebra
    <3> QED
        BY <3>1, <3>3, Zenon DEF SameSide
  <2>3. WilsonContains(s, n, p)
          <=> n * (Gap(n, s, ZSquared, a, b) * Gap(n, s, ZSquared, a, b))
                <= (ZSquared * (b * b)) * Spread(n, s, ZSquared)
      BY <2>1, IntervalSide
  <2>4. (Whole(n) ** Square(Ratio(s, n) -- p)) \preceq (zSquared ** (p ** (One -- p)))
          <=> Miss(n, s, a, b) * Miss(n, s, a, b) <= (ZSquared * n) * (a * (b - a))
      BY <2>1, TestSide
  <2> QED
      BY <2>1, <2>2, <2>3, <2>4, Zenon
<1>2. Miss(n, s, s, n) * Miss(n, s, s, n) <= (ZSquared * n) * (s * (n - s))
  <2>1. Miss(n, s, s, n) = 0
      BY DEF Miss
  <2>2. ZSquared * n \in Nat /\ s * (n - s) \in Nat
    <3>1. n - s \in Nat /\ s \in Nat
        OBVIOUS
    <3> QED
        BY <3>1, ZAssumption
  <2>3. (ZSquared * n) * (s * (n - s)) \in Nat
      BY <2>2
  <2> QED
      BY <2>1, <2>3
<1>3. s \in Int
    OBVIOUS
<1> QED
    BY <1>1, <1>2, <1>3 DEF InvertsTest

-----------------------------------------------------------------------------
(* The calls that returned were good ones.                                 *)
ReturnedOK == \A c \in DOMAIN results : WellFormed(calls[c])

LEMMA ReturnedStep == IInv /\ ReturnedOK /\ [Next]_vars => ReturnedOK'
<1> SUFFICES ASSUME IInv, ReturnedOK, [Next]_vars PROVE ReturnedOK'
    OBVIOUS
<1>1. CASE ValidatePlan
  <2>1. results = << >> /\ results' = << >>
      BY <1>1 DEF ValidatePlan, work, IInv, DataOK, PlaceOK
  <2> QED
      BY <2>1 DEF ReturnedOK
<1>2. CASE EndSweep
  <2>1. /\ results' = Append(results, points) /\ calls' = calls /\ WellFormed(calls[call])
        /\ Len(results) = call - 1 /\ call \in Nat /\ results \in Seq(Seq(Points))
        /\ points \in Seq(Points)
      BY <1>2 DEF EndSweep, IInv, DataOK, PlaceOK
  <2>2. \A c \in DOMAIN results' : c \in DOMAIN results \/ c = call
      BY <2>1
  <2> QED
      BY <2>1, <2>2 DEF ReturnedOK, WellFormed
<1>3. ASSUME UNCHANGED << calls, results >> PROVE ReturnedOK'
    BY <1>3 DEF ReturnedOK, WellFormed
<1>4. CASE UNCHANGED vars
    BY <1>3, <1>4 DEF vars, work
<1>5. CASE StartSweep \/ TrialRaises
    BY <1>3, <1>5 DEF StartSweep, TrialRaises, work
<1>6. CASE EndPoint
    BY <1>3, <1>6 DEF EndPoint
<1>7. ASSUME NEW tick \in 0 .. NumTicks, RunTrial(tick) PROVE ReturnedOK'
    BY <1>3, <1>7 DEF RunTrial
<1> QED
    BY <1>1, <1>2, <1>4, <1>5, <1>6, <1>7 DEF Next

(* The outcomes of the trials of a point are as many as the point counts,  *)
(* and so are the convergences among them: each seed has one trial.        *)
Answers(r, T, n) ==
    [i \in 1 .. n |-> \E t \in T : r[t].seed = SeedBase + i - 1 /\ r[t].tick # 0]

LEMMA CountedOutcomes ==
    ASSUME NEW r, NEW T, NEW value, NEW n \in Nat, NEW successes,
           Counted(r, T, value, n, successes), \A i \in T : r[i].seed \in Nat
    PROVE  /\ Len(Answers(r, T, n)) = n /\ Cardinality(Hits(Answers(r, T, n))) = successes
           /\ successes \in 0 .. n
<1> DEFINE o == Answers(r, T, n)
           seeds == SeedBase .. SeedBase + n - 1
           f == [t \in T |-> r[t].seed]
           H == Successful(r, T)
           g == [t \in H |-> r[t].seed - SeedBase + 1]
<1>0. SeedBase \in Nat
    BY SweepAssumption DEF SweepAssumption
<1>1. /\ IsFiniteSet(T) /\ Cardinality(T) = n
      /\ { r[i].seed : i \in T } = seeds /\ Cardinality(H) = successes
    BY DEF Counted
<1>2. Cardinality(seeds) = n
  <2>1. SeedBase \in Int /\ SeedBase + n - 1 \in Int
      BY <1>0
  <2>2. Cardinality(seeds) = IF SeedBase > SeedBase + n - 1 THEN 0
                             ELSE SeedBase + n - 1 - SeedBase + 1
      BY <2>1, FS_Interval
  <2> QED
      BY <1>0, <2>2
<1>3. f \in Surjection(T, seeds)
    BY <1>1 DEF Surjection
<1>4. f \in Injection(T, seeds)
  <2> HIDE DEF f, seeds
  <2> QED
      BY <1>1, <1>2, <1>3, FS_SurjSameCardinalityImpliesInj
<1>5. \A t, u \in T : r[t].seed = r[u].seed => t = u
  <2>1. \A t, u \in T : f[t] = f[u] => t = u
    <3> HIDE DEF f, seeds
    <3> QED
        BY <1>3, <1>4 DEF Injection, Surjection, IsInjective
  <2> QED
      BY <2>1
<1>6. H \subseteq T /\ IsFiniteSet(H) /\ successes \in Nat /\ successes <= n
  <2>1. H \subseteq T
      BY DEF Successful
  <2> HIDE DEF H
  <2> QED
      BY <1>1, <2>1, FS_Subset, FS_CardinalityType
<1>7. \A t \in T : r[t].seed \in Nat /\ SeedBase <= r[t].seed /\ r[t].seed <= SeedBase + n - 1
  <2>1. \A t \in T : r[t].seed \in seeds
      BY <1>1
  <2> QED
      BY <1>0, <2>1
<1>8. Hits(o) = { i \in 1 .. n : \E t \in H : r[t].seed = SeedBase + i - 1 }
    BY DEF Hits, Successful, Answers
<1>9. \A t \in H : g[t] \in Hits(o)
  <2> SUFFICES ASSUME NEW t \in H PROVE g[t] \in Hits(o)
      OBVIOUS
  <2>1. PICK i \in Int : i = r[t].seed - SeedBase + 1
      BY <1>0, <1>6, <1>7
  <2>2. i \in 1 .. n /\ r[t].seed = SeedBase + i - 1
      BY <1>0, <1>6, <1>7, <2>1
  <2>3. i \in Hits(o)
      BY <1>8, <2>2
  <2> QED
      BY <2>1, <2>3
<1>10. g \in Injection(H, Hits(o))
  <2>1. \A t, u \in H : g[t] = g[u] => t = u
      BY <1>0, <1>5, <1>6, <1>7
  <2>2. g \in [H -> Hits(o)]
      BY <1>9
  <2> HIDE DEF g, H, o
  <2> QED
      BY <2>1, <2>2 DEF Injection, IsInjective
<1>11. g \in Surjection(H, Hits(o))
  <2>1. ASSUME NEW i \in Hits(o) PROVE \E t \in H : g[t] = i
    <3>1. PICK t \in H : i \in 1 .. n /\ r[t].seed = SeedBase + i - 1
        BY <1>8
    <3> QED
        BY <1>0, <3>1
  <2>2. g \in [H -> Hits(o)]
      BY <1>9
  <2> HIDE DEF g, H, o
  <2> QED
      BY <2>1, <2>2 DEF Surjection
<1>12. Cardinality(Hits(o)) = successes
  <2>1. ExistsBijection(H, Hits(o))
      BY <1>10, <1>11 DEF ExistsBijection, Bijection
  <2> HIDE DEF H, o
  <2> QED
      BY <1>1, <1>6, <2>1, FS_Bijection
<1>13. Len(o) = n
    BY DEF Answers
<1> QED
    BY <1>6, <1>12, <1>13

(* So the rate of the trials is the rate of the point.                     *)
LEMMA OutcomesCounted ==
    ASSUME IInv, CountsOK, ReturnedOK, NEW c \in DOMAIN results, NEW k \in DOMAIN results[c]
    PROVE  /\ results[c][k].n \in Nat \ {0} /\ results[c][k].successes \in 0 .. results[c][k].n
           /\ ConvergenceRate(OutcomesOf(c, k)) = Ratio(results[c][k].successes, results[c][k].n)
<1>1. PICK T, n, m : /\ T = TrialsOf(c, k) /\ n = results[c][k].n /\ m = results[c][k].successes
    OBVIOUS
<1>2. /\ CountedPoint(ran, calls[c], c, k, results[c][k])
      /\ TrialsOf(c, k) = TrialsIn(ran, c, calls[c].param_name, k)
    BY DEF CountsOK, TrialsOf, TrialsIn
<1>3. Counted(ran, T, results[c][k].value, n, m) /\ n = calls[c].n_per_value
    BY <1>1, <1>2 DEF CountedPoint
<1>4. n \in Nat \ {0}
  <2>1. results[c][k] \in Points
      BY DEF IInv, DataOK
  <2>2. n \in Int
      BY <1>1, <2>1 DEF Points
  <2> QED
      BY <1>3, <2>2 DEF ReturnedOK, WellFormed
<1>5. \A i \in T : ran[i].seed \in Nat
  <2>1. ran \in Seq(TrialRecords) /\ T \subseteq DOMAIN ran
      BY <1>1 DEF IInv, DataOK, TrialsOf
  <2>2. \A i \in DOMAIN ran : ran[i] \in TrialRecords
      BY <2>1
  <2> QED
      BY <2>1, <2>2 DEF TrialRecords
<1>6. PICK o : o = Answers(ran, T, n)
    OBVIOUS
<1>7. Len(o) = n /\ Cardinality(Hits(o)) = m /\ m \in 0 .. n
    BY <1>3, <1>4, <1>5, <1>6, CountedOutcomes
<1>8. o = OutcomesOf(c, k)
    BY <1>1, <1>3, <1>6 DEF OutcomesOf, Answers
<1>9. ConvergenceRate(o) = Ratio(m, n)
    BY <1>7 DEF ConvergenceRate, Successes, Hits
<1> QED
    BY <1>1, <1>4, <1>7, <1>8, <1>9

(* The interval reported for a point, for any sweep, confidence level and  *)
(* proportion, is the score test turned round.                             *)
THEOREM IntervalsInvertTest == Spec => []WilsonInvertsScoreTest
<1>1. Init => CountsOK /\ ReturnedOK
    BY DEF Init, CountsOK, ReturnedOK
<1>2. IInv /\ CountsOK /\ ReturnedOK => WilsonInvertsScoreTest
  <2> SUFFICES ASSUME IInv, CountsOK, ReturnedOK, NEW c \in DOMAIN results,
                      NEW k \in DOMAIN results[c]
               PROVE  LET point == results[c][k]
                          rate == ConvergenceRate(OutcomesOf(c, k))
                      IN  /\ WilsonContains(point.successes, point.n, rate)
                          /\ \A p \in Proportions :
                               WilsonContains(point.successes, point.n, p)
                                 <=> (Whole(point.n) ** Square(rate -- p))
                                       \preceq (zSquared ** (p ** (One -- p)))
      BY DEF WilsonInvertsScoreTest
  <2>1. PICK n \in Nat \ {0}, s \in Nat :
          /\ s \in 0 .. n /\ n = results[c][k].n /\ s = results[c][k].successes
          /\ ConvergenceRate(OutcomesOf(c, k)) = Ratio(s, n)
      BY OutcomesCounted
  <2>2. /\ WilsonContains(s, n, Ratio(s, n))
        /\ \A a \in Int, b \in Nat \ {0} :
             WilsonContains(s, n, Ratio(a, b))
               <=> (Whole(n) ** Square(Ratio(s, n) -- Ratio(a, b)))
                     \preceq (zSquared ** (Ratio(a, b) ** (One -- Ratio(a, b))))
    <3>1. InvertsTest(s, n)
        BY <2>1, IntervalIsTest
    <3> QED
        BY <3>1 DEF InvertsTest
  <2>3. ASSUME NEW p \in Proportions
        PROVE  WilsonContains(s, n, p)
                 <=> (Whole(n) ** Square(Ratio(s, n) -- p)) \preceq (zSquared ** (p ** (One -- p)))
    <3>1. PICK a \in Int : p = Ratio(a, Grid)
        BY DEF Proportions
    <3>2. Grid \in Nat \ {0}
        BY GridAssumption
    <3> QED
        BY <2>2, <3>1, <3>2, Zenon
  <2> QED
      BY <2>1, <2>2, <2>3, Zenon
<1> QED
    BY <1>1, <1>2, CountsStep, ReturnedStep, Invariant, PTL DEF Spec
=============================================================================
