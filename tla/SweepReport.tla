---------------------------- MODULE SweepReport ----------------------------
(***************************************************************************)
(* What an experiment computes from a sweep with colony/stats.py, compared *)
(* with what the statistics are by definition, over every sweep of the     *)
(* model.                                                                  *)
(***************************************************************************)
EXTENDS Sweep, Statistics

CONSTANT Grid       \* proportions are compared at multiples of 1/Grid

ASSUME GridAssumption == Grid \in Nat \ {0}

Proportions == { Ratio(k, Grid) : k \in 0 .. Grid }

(* The outcomes of a point, in the order of the seeds, from the trials     *)
(* themselves.                                                             *)
OutcomesOf(c, k) ==
    [i \in 1 .. calls[c].n_per_value |->
        \E t \in TrialsOf(c, k) : ran[t].seed = SeedBase + i - 1 /\ ran[t].tick # 0]

(* The interval reported for a point is the score test turned round: it    *)
(* contains exactly the proportions p from which the observed rate is not  *)
(* further than z standard errors of p; the rate itself always among them. *)
WilsonInvertsScoreTest ==
    \A c \in DOMAIN results : \A k \in DOMAIN results[c] :
        LET point == results[c][k]
            rate == ConvergenceRate(OutcomesOf(c, k))
        IN  /\ WilsonContains(point.successes, point.n, rate)
            /\ \A p \in Proportions :
                 WilsonContains(point.successes, point.n, p)
                   <=> (Whole(point.n) ** Square(rate -- p)) \preceq (zSquared ** (p ** (One -- p)))

-----------------------------------------------------------------------------
ConvergedTicks == SelectSeq([i \in DOMAIN ran |-> ran[i].tick], LAMBDA t : t # 0)

(* The summary of the consensus ticks over all converged trials: its       *)
(* percentiles are ordered and lie within the sample, the middle one is    *)
(* the median, and each has its share of the sample on both sides.         *)
SummaryCutsSample ==
    phase = "done" /\ ConvergedTicks # << >> =>
        LET s == ConsensusTickSummary(ConvergedTicks)
            places == DOMAIN ConvergedTicks
            Below(q) == Cardinality({ i \in places : Whole(ConvergedTicks[i]) \preceq q })
            Above(q) == Cardinality({ i \in places : q \preceq Whole(ConvergedTicks[i]) })
            Cuts(q, i, parts) ==
                /\ Below(q) * parts >= i * (s.n - 1) /\ Below(q) > 0
                /\ Above(q) * parts >= (parts - i) * (s.n - 1) /\ Above(q) > 0
        IN  /\ s.p25 \preceq s.p50 /\ s.p50 \preceq s.p75 /\ s.p75 \preceq s.p90
            /\ s.p50 = s.median
            /\ Cuts(s.p25, 1, 4) /\ Cuts(s.p50, 1, 2) /\ Cuts(s.p75, 3, 4) /\ Cuts(s.p90, 9, 10)
            /\ s.variance = Zero <=> \A i, j \in places : ConvergedTicks[i] = ConvergedTicks[j]

-----------------------------------------------------------------------------
(* Fisher's test of two points of one sweep is the randomization test: the *)
(* share of the ways to deal the trials out to two groups of these sizes   *)
(* whose table is no more probable than the one observed.                  *)
FisherIsRandomization ==
    \A c \in DOMAIN results : \A j, k \in DOMAIN results[c] : j < k =>
        LET a == results[c][j]
            b == results[c][k]
            deals == kSubset(a.n, 1 .. a.n + b.n)
            Successful(deal) == Cardinality(deal \cap (1 .. a.successes + b.successes))
            Ways(s) == Cardinality({ d \in deals : Successful(d) = s })
            extreme == { d \in deals : Ways(Successful(d)) <= Ways(a.successes) }
        IN  /\ FisherExactTwoSided(a.successes, a.n, b.successes, b.n)
                 = Ratio(Cardinality(extreme), Cardinality(deals))
            /\ FisherExactTwoSided(b.successes, b.n, a.successes, a.n)
                 = FisherExactTwoSided(a.n - a.successes, a.n, b.n - b.successes, b.n)

(* The trend over the points of a sweep is the correlation over its        *)
(* trials: z has the sign of Pearson's r between score and outcome, and    *)
(* z^2 = N r^2.  A sweep over one repeated value has no trend: the test    *)
(* raises, unless all trials ended alike.                                  *)
TrendIsCorrelation ==
    \A c \in DOMAIN results : Len(results[c]) >= 2 =>
        LET points_ == results[c]
            trials == SelectSeq(ran, LAMBDA t : t.call = c)
            scores == [i \in DOMAIN trials |-> trials[i].value]
            answers == [i \in DOMAIN trials |-> IF trials[i].tick # 0 THEN 1 ELSE 0]
            r == PearsonR(scores, answers)
            z == CochranArmitage([k \in DOMAIN points_ |-> points_[k].n],
                                 [k \in DOMAIN points_ |-> points_[k].successes],
                                 [k \in DOMAIN points_ |-> points_[k].value])
        IN  /\ z.raises <=> Cardinality(Range(scores)) = 1 /\ Cardinality(Range(answers)) > 1
            /\ z.sign = r.sign
            /\ z.square = Whole(Len(trials)) ** r.square
            /\ r.square \preceq One

(* Every statistic of the sweep is what it is by definition.               *)
ReportsExact ==
    /\ WilsonInvertsScoreTest
    /\ SummaryCutsSample
    /\ FisherIsRandomization
    /\ TrendIsCorrelation
=============================================================================
