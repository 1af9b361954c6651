---------------------------- MODULE TypedStorage ----------------------------
(***************************************************************************)
(* Storage over a file whose table create_schema() made of a TableSchema:  *)
(* what SQLite admits into it is what the DDL of that table says.          *)
(***************************************************************************)
EXTENDS Storage, Schema

CONSTANT Table

ASSUME TableAssumption == Table \in TableSchema /\ Creates(ToDdl(Table))
ASSUME AdmittedAssumption ==
    \A contents \in SUBSET Row, row \in Row :
        Admitted(contents, row) <=> Admits(ToDdl(Table), contents, row)

(* The committed table is what its columns were declared to be, whatever   *)
(* transactions wrote it and however they were interleaved: no Null in an  *)
(* INTEGER primary key, nor in another column that is not nullable, and    *)
(* get_one() by primary key finds the row, and it alone.  Any other primary*)
(* key may be Null, declared nullable or not: get_one() finds no such row. *)
TableAsDeclared ==
    \A row \in rows : \A i \in DOMAIN Table.columns :
        LET column == Table.columns[i]
        IN  /\ column.primary_key /\ column.sql_type = "INTEGER" => row[column.name] # Null
            /\ ~column.primary_key /\ ~column.nullable => row[column.name] # Null
            /\ column.primary_key /\ row[column.name] # Null =>
                  GetOne(Table, rows, column.name, row[column.name]) = {row}
=============================================================================
