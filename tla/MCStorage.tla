----------------------------- MODULE MCStorage -----------------------------
(***************************************************************************)
(* Storage with two connections, of any isolation levels, to one table     *)
(* made like OBSERVATIONS_TABLE: an INTEGER primary key and a column that  *)
(* is not nullable.  Two of the rows have one key, and one lacks a value.  *)
(***************************************************************************)
EXTENDS TypedStorage, TLC

CONSTANTS c1, c2, h1, h2, h3, id, key, observations

MCConn == { c1, c2 }
MCHandle == { h1, h2, h3 }
MCIdentifier == { id, key, observations }

MCTable ==
    [ name |-> observations,
      columns |-> << [name |-> id, sql_type |-> "INTEGER", primary_key |-> TRUE, nullable |-> TRUE],
                     [name |-> key, sql_type |-> "TEXT", primary_key |-> FALSE, nullable |-> FALSE] >> ]

ARow(i, k) == [name \in {id, key} |-> IF name = id THEN i ELSE k]
MCRow == { ARow(1, 1), ARow(1, 2), ARow(2, 1), ARow(2, Null) }
MCAdmitted(contents, row) == Admits(ToDdl(MCTable), contents, row)

(* Connections and handles are alike; no property is a liveness one.       *)
MCSymmetry == Permutations(MCConn) \cup Permutations(MCHandle)
=============================================================================
