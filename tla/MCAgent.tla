------------------------------ MODULE MCAgent ------------------------------
(* Agent with two Agent objects on one path and a foreign reader.  The     *)
(* observations: a tie after a worse candidate with a NaN between, a NaN   *)
(* that comes first and hides a better one, and a single candidate.        *)
EXTENDS Agent, TLC

CONSTANTS ant, bee, shell, r1, r2, r3, r4

MCWorker == { ant, bee }
MCReader == { shell }
MCRow == { r1, r2, r3, r4 }
MCScores == r1 :> << 2, NaN, 1, 1 >> @@ r2 :> << NaN, 1 >> @@ r3 :> << 1 >>
    @@ r4 :> << 2, 0 >>
MCLevel == [a \in Worker |-> IF a = ant THEN "immediate" ELSE "deferred"]
=============================================================================
