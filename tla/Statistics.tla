----------------------------- MODULE Statistics -----------------------------
(***************************************************************************)
(* colony/stats.py, exactly: no module state, every function a definition. *)
(*                                                                         *)
(* A float is the rational number the formula denotes.  Where the code     *)
(* takes a square root the value is kept as its square and its sign; the   *)
(* normal quantile z is a constant (zSquared), and the p-value of a z      *)
(* statistic, which only depends on |z|, is left out.                      *)
(***************************************************************************)
EXTENDS Rational, Sequences, FiniteSets, FiniteSetsExt, Combinatorics, TLC

CONSTANT ZSquared       \* z * z for the confidence level, an integer

ASSUME ZAssumption == ZSquared \in Nat \ {0}

zSquared == Whole(ZSquared)

SumOver(S, f(_)) == MapThenSumSet(f, S)
(* The sum of rationals f(i) over the places of a series, in order.        *)
RationalSum(n, f(_)) ==
    LET sum[i \in 0 .. n] == IF i = 0 THEN Zero ELSE sum[i - 1] ++ f(i)
    IN  sum[n]

Successes(outcomes) == Cardinality({ i \in DOMAIN outcomes : outcomes[i] })

(* convergence_rate(), which raises on no outcomes at all.                 *)
ConvergenceRate(outcomes) == Ratio(Successes(outcomes), Len(outcomes))

-----------------------------------------------------------------------------
(* wilson_score_interval(): which p lie between (center - margin) and      *)
(* (center + margin) over denominator.  The clamp to [0, 1] is the range   *)
(* p is taken from.                                                        *)
WilsonContains(successes, n, p) ==
    LET phat == Ratio(successes, n)
        denominator == One ++ (zSquared // Whole(n))
        center == phat ++ (zSquared // Whole(2 * n))
        marginSquared == zSquared ** (((phat ** (One -- phat)) // Whole(n))
                                        ++ (zSquared // Whole(4 * n * n)))
    IN  Square((p ** denominator) -- center) \preceq marginSquared

(* statistics.quantiles(data, n=parts, method="inclusive")[i - 1] of at    *)
(* least two sorted values (external).                                     *)
Quantile(data, i, parts) ==
    LET at == i * (Len(data) - 1)
        j == at \div parts
        delta == at % parts
    IN  Ratio(data[j + 1] * (parts - delta) + data[j + 2] * delta, parts)

(* statistics.median() (external).                                         *)
Median(data) ==
    LET half == Len(data) \div 2
    IN  IF Len(data) % 2 = 1 THEN Whole(data[half + 1])
        ELSE Ratio(data[half] + data[half + 1], 2)

(* consensus_tick_summary() of at least one tick; stdev as its square.     *)
ConsensusTickSummary(ticks) ==
    LET data == SortSeq(ticks, LAMBDA x, y : x < y)
        n == Len(data)
        mean == Ratio(SumOver(1 .. n, LAMBDA i : data[i]), n)
        At(i, parts) == IF n >= 2 THEN Quantile(data, i, parts) ELSE Whole(data[1])
    IN  [n |-> n, mean |-> mean, median |-> Median(data),
         variance |-> IF n < 2 THEN Zero
                      ELSE RationalSum(n, LAMBDA i : Square(Whole(data[i]) -- mean)) // Whole(n - 1),
         p25 |-> At(1, 4), p50 |-> At(2, 4), p75 |-> At(3, 4), p90 |-> At(9, 10)]

-----------------------------------------------------------------------------
(* pearson_r() of two series of one length of at least two: the sign of r, *)
(* and r squared.                                                          *)
PearsonR(xs, ys) ==
    LET n == Len(xs)
        Mean(s) == Ratio(SumOver(1 .. n, LAMBDA i : s[i]), n)
        Deviation(s, i) == Whole(s[i]) -- Mean(s)
        covariance == RationalSum(n, LAMBDA i : Deviation(xs, i) ** Deviation(ys, i))
        varianceX == RationalSum(n, LAMBDA i : Square(Deviation(xs, i)))
        varianceY == RationalSum(n, LAMBDA i : Square(Deviation(ys, i)))
    IN  IF varianceX = Zero \/ varianceY = Zero
        THEN [sign |-> 0, square |-> Zero]
        ELSE [sign |-> Sign(covariance),
              square |-> Square(covariance) // (varianceX ** varianceY)]

(* math.comb (external).                                                   *)
Comb(n, k) == IF k > n THEN 0 ELSE choose(n, k)

(* fisher_exact_test_two_sided(): the tables, given the margins, that are  *)
(* at most as probable as the one observed.  The relative tolerance of the *)
(* code makes equal floats equal; here equal numbers are.                  *)
FisherExactTwoSided(successesA, nA, successesB, nB) ==
    LET total == successesA + successesB
        low == Max({0, total - nB})
        high == Min({nA, total})
        Weight(k) == Comb(total, k) * Comb(nA + nB - total, nA - k)
        extreme == { k \in low .. high : Weight(k) <= Weight(successesA) }
    IN  Ratio(SumOver(extreme, Weight), Comb(nA + nB, nA))

(* A bug: the mean score does not weigh a group by its size, but by its    *)
(* successes.                                                              *)
CochranArmitage_MeanOfSuccesses(ns, successes, scores) ==
    LET groups == DOMAIN ns
        totalN == SumOver(groups, LAMBDA i : ns[i])
        total == SumOver(groups, LAMBDA i : successes[i])
        pbar == Ratio(total, totalN)
        meanScore == Ratio(SumOver(groups, LAMBDA i : successes[i] * scores[i]), Max({1, total}))
        variance == RationalSum(Len(ns), LAMBDA i : Whole(ns[i]) ** Square(Whole(scores[i]) -- meanScore))
        numerator == Whole(SumOver(groups, LAMBDA i : scores[i] * successes[i]))
                       -- (Whole(total) ** meanScore)
    IN  IF total \in {0, totalN} THEN [raises |-> FALSE, sign |-> 0, square |-> Zero]
        ELSE IF variance = Zero THEN [raises |-> TRUE, sign |-> 0, square |-> Zero]
        ELSE [raises |-> FALSE, sign |-> Sign(numerator),
              square |-> Square(numerator) // ((pbar ** (One -- pbar)) ** variance)]

(* cochran_armitage_trend_test() of at least two groups: it raises when    *)
(* all scores are equal, unless the response is constant, which it looks   *)
(* at first; otherwise the sign of z, and z squared.                       *)
CochranArmitage(ns, successes, scores) ==
    LET groups == DOMAIN ns
        totalN == SumOver(groups, LAMBDA i : ns[i])
        total == SumOver(groups, LAMBDA i : successes[i])
        pbar == Ratio(total, totalN)
        meanScore == Ratio(SumOver(groups, LAMBDA i : ns[i] * scores[i]), totalN)
        variance == RationalSum(Len(ns), LAMBDA i : Whole(ns[i]) ** Square(Whole(scores[i]) -- meanScore))
        numerator == Whole(SumOver(groups, LAMBDA i : scores[i] * successes[i]))
                       -- (Whole(total) ** meanScore)
    IN  IF total \in {0, totalN} THEN [raises |-> FALSE, sign |-> 0, square |-> Zero]
        ELSE IF variance = Zero THEN [raises |-> TRUE, sign |-> 0, square |-> Zero]
        ELSE [raises |-> FALSE, sign |-> Sign(numerator),
              square |-> Square(numerator) // ((pbar ** (One -- pbar)) ** variance)]
=============================================================================
