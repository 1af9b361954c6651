------------------------------- MODULE Schema -------------------------------
(***************************************************************************)
(* storage/schema.py: typed columns and tables, the DDL they are rendered  *)
(* to, and what SQLite makes of that DDL; and the lookups of QueryBuilder  *)
(* (storage/db.py).                                                        *)
(*                                                                         *)
(* A name is a member of Identifier: validate_sql_identifier() lets no     *)
(* other become a Column or a TableSchema.  A fragment of DDL is the triple*)
(* of its parts.  A row maps the column names to integers or Null.         *)
(***************************************************************************)
EXTENDS Integers, Sequences

CONSTANTS
    Identifier,     \* the names SQL_IDENTIFIER_PATTERN matches
    Null

SqlType == {"INTEGER", "REAL", "TEXT", "BLOB"}
Column == [name : Identifier, sql_type : SqlType, primary_key : BOOLEAN, nullable : BOOLEAN]
TableSchema == [name : Identifier, columns : Seq(Column)]

ColumnNames(table) == { table.columns[i].name : i \in DOMAIN table.columns }

(* A bug: a column that may be nullable is looked at no further.           *)
ToDdlFragment_NullableFirst(column) ==
    [ name |-> column.name, sql_type |-> column.sql_type,
      constraint |-> CASE column.nullable -> "none"
                       [] ~column.nullable /\ column.primary_key -> "PRIMARY KEY"
                       [] ~column.nullable /\ ~column.primary_key -> "NOT NULL" ]

(* A primary key is not also declared NOT NULL.                            *)
ToDdlFragment(column) ==
    [ name |-> column.name, sql_type |-> column.sql_type,
      constraint |-> CASE column.primary_key -> "PRIMARY KEY"
                       [] ~column.primary_key /\ ~column.nullable -> "NOT NULL"
                       [] ~column.primary_key /\ column.nullable -> "none" ]
ToDdl(table) == [i \in DOMAIN table.columns |-> ToDdlFragment(table.columns[i])]

-----------------------------------------------------------------------------
(* CREATE TABLE takes some columns, of different names, with one primary   *)
(* key at most.                                                            *)
Creates(ddl) ==
    /\ ddl # << >>
    /\ \A i, j \in DOMAIN ddl : i # j =>
         /\ ddl[i].name # ddl[j].name
         /\ "PRIMARY KEY" \notin {ddl[i].constraint} \cap {ddl[j].constraint}

(* The constraints of the DDL let a row into a table.  An INTEGER PRIMARY  *)
(* KEY is the rowid, which is never Null (SQLite puts in a fresh one for   *)
(* it); any other primary key may be, any number of times.                 *)
Admits(ddl, contents, row) ==
    \A i \in DOMAIN ddl :
        LET name == ddl[i].name
        IN  /\ ddl[i].constraint = "NOT NULL" => row[name] # Null
            /\ ddl[i].constraint = "PRIMARY KEY" =>
                 /\ ddl[i].sql_type = "INTEGER" => row[name] # Null
                 /\ \A q \in contents : q[name] # Null => q[name] # row[name]

(* QueryBuilder.select_by(): `column = NULL` is true of no row.            *)
SelectBy(contents, column, value) == { row \in contents : value # Null /\ row[column] = value }

(* QueryBuilder.get_one(): Ok of some row found, or not_found, as for a    *)
(* column the table does not have.                                         *)
GetOne(table, contents, column, value) ==
    IF column \in ColumnNames(table) THEN SelectBy(contents, column, value) ELSE {}
=============================================================================
