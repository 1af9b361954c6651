------------------------------- MODULE Storage -------------------------------
(***************************************************************************)
(* storage/db.py and storage/transaction.py: Database objects on one file, *)
(* the single-use TransactionHandles begun on them, and QueryBuilder.      *)
(*                                                                         *)
(* A Database is the connection it wraps.  The table exists already:       *)
(* create_schema() is then a CREATE TABLE IF NOT EXISTS that finds it,     *)
(* followed by connection.commit().  Calls that raise or return Err and    *)
(* change nothing are stuttering steps: begin_transaction() inside a       *)
(* transaction or on a locked file, an INSERT on a locked file, any use of *)
(* a consumed handle.                                                      *)
(*                                                                         *)
(* current, under, told and upset are history: the handle whose BEGIN      *)
(* opened the transaction a connection is in, the rows inserted in the     *)
(* transaction of a handle, what the handle's one commit() or rollback()   *)
(* returned, and the connections on which create_schema() has ended a      *)
(* transaction that was not its own.                                       *)
(***************************************************************************)
EXTENDS Naturals

CONSTANTS
    Conn, Row,
    Handle,     \* TransactionHandle objects
    Admitted(_, _), \* Admitted(T, r) : do the table's constraints let row r into T?
    None

Isolation == {"deferred", "immediate", "exclusive"}

ASSUME NoneAssumption == None \notin Conn /\ None \notin Handle

VARIABLES
    rows, local, mode, lock,    \* the file, as in Sqlite
    level,      \* level[c]    : isolation_level of the Database on c
    conn,       \* conn[h]     : connection h was begun on, or None
    consumed,   \* consumed[h] : the _consumed flag
    current, under, told, upset

file == << rows, local, mode, lock >>
handles == << level, conn, consumed, current, under, told, upset >>
vars == << file, handles >>

Db == INSTANCE Sqlite

TypeOK ==
    /\ Db!TypeOK
    /\ level \in [Conn -> Isolation]
    /\ conn \in [Handle -> Conn \cup {None}]
    /\ consumed \in [Handle -> BOOLEAN]
    /\ current \in [Conn -> Handle \cup {None}]
    /\ under \in [Handle -> SUBSET Row]
    /\ told \in [Handle -> {"nothing", "committed", "rolledback", "failed"}]
    /\ upset \subseteq Conn

Init ==
    /\ Db!Init
    /\ level \in [Conn -> Isolation]
    /\ conn = [h \in Handle |-> None]
    /\ consumed = [h \in Handle |-> FALSE]
    /\ current = [c \in Conn |-> None]
    /\ under = [h \in Handle |-> {}]
    /\ told = [h \in Handle |-> "nothing"]
    /\ upset = {}

-----------------------------------------------------------------------------
OpenDatabase(c) == Db!Connect(c) /\ UNCHANGED handles

CloseConnection(c) == Db!Disconnect(c) /\ UNCHANGED handles

BeginTransaction(c, h) ==
    /\ conn[h] = None
    /\ Db!BeginTxn(c, level[c])
    /\ conn' = [conn EXCEPT ![h] = c]
    /\ current' = [current EXCEPT ![c] = h]
    /\ UNCHANGED << level, consumed, under, told, upset >>

(* create_schema(database, table): the commit() ends whatever transaction  *)
(* the connection is in, without its handle.  It raises when it is refused.*)
CreateSchema(c) ==
    /\ Db!MayRead(c)
    /\ \/ /\ Db!CommitTxn(c)
          /\ upset' = IF mode[c] = "txn" THEN upset \cup {c} ELSE upset
       \/ Db!CommitBusy(c) /\ UNCHANGED upset
    /\ UNCHANGED << level, conn, consumed, current, under, told >>

(* QueryBuilder.select_all() and select_by().                              *)
Select(c) == Db!ReadTable(c) /\ UNCHANGED handles

(* QueryBuilder.insert(), of a row that is new.  The constraints are tried *)
(* against the rows this connection sees.                                  *)
Insert(c, r) ==
    /\ r \notin rows
    /\ Admitted(rows \cup local[c], r)
    /\ \A h \in Handle : r \notin under[h]
    /\ Db!InsertRow(c, r)
    /\ under' = IF mode[c] = "txn"
                THEN [under EXCEPT ![current[c]] = @ \cup {r}] ELSE under
    /\ UNCHANGED << level, conn, consumed, current, told, upset >>

(* A constraint is violated: Err, and the transaction goes on.             *)
InsertRefused(c) ==
    /\ \E r \in Row : ~Admitted(rows \cup local[c], r)
    /\ Db!InsertRefused(c)
    /\ UNCHANGED handles

(* A bug: a handle whose commit() failed may be used again.                *)
MarkConsumed_RetriesFailed(h) ==
    /\ conn[h] # None
    /\ consumed[h] => told[h] = "failed"
    /\ consumed' = [consumed EXCEPT ![h] = TRUE]

(* _mark_consumed(), before the SQL of commit() and rollback().            *)
MarkConsumed(h) ==
    /\ conn[h] # None
    /\ ~consumed[h]
    /\ consumed' = [consumed EXCEPT ![h] = TRUE]

Told(h, answer) == told' = [told EXCEPT ![h] = answer]

(* A bug: the error is caught and Ok is returned.                          *)
Commit_ReportsOk(h) ==
    /\ MarkConsumed(h)
    /\ \/ Db!CommitTxn(conn[h])
       \/ Db!CommitBusy(conn[h])
       \/ mode[conn[h]] = "closed" /\ UNCHANGED file
    /\ Told(h, "committed")
    /\ UNCHANGED << level, conn, current, under, upset >>

(* TransactionHandle.commit(): Err when the file is locked, the            *)
(* transaction then staying open, and when the connection is closed.       *)
Commit(h) ==
    /\ MarkConsumed(h)
    /\ \/ Db!CommitTxn(conn[h]) /\ Told(h, "committed")
       \/ Db!CommitBusy(conn[h]) /\ Told(h, "failed")
       \/ mode[conn[h]] = "closed" /\ Told(h, "failed") /\ UNCHANGED file
    /\ UNCHANGED << level, conn, current, under, upset >>

(* A bug: the handle is not consumed.                                      *)
Rollback_Reusable(h) ==
    /\ conn[h] # None
    /\ ~consumed[h]
    /\ Db!RollbackTxn(conn[h]) /\ Told(h, "rolledback")
    /\ UNCHANGED << level, conn, consumed, current, under, upset >>

(* TransactionHandle.rollback().                                           *)
Rollback(h) ==
    /\ MarkConsumed(h)
    /\ \/ Db!RollbackTxn(conn[h]) /\ Told(h, "rolledback")
       \/ mode[conn[h]] = "closed" /\ Told(h, "failed") /\ UNCHANGED file
    /\ UNCHANGED << level, conn, current, under, upset >>

Next ==
    \/ \E c \in Conn :
         \/ OpenDatabase(c)
         \/ CloseConnection(c)
         \/ CreateSchema(c)
         \/ Select(c)
         \/ InsertRefused(c)
         \/ \E h \in Handle : BeginTransaction(c, h)
         \/ \E r \in Row : Insert(c, r)
    \/ \E h \in Handle : Commit(h) \/ Rollback(h)

Spec == Init /\ [][Next]_vars

-----------------------------------------------------------------------------
(* The rows of a transaction get into the file together, if they ever do.  *)
Atomic(h) == under[h] \subseteq rows \/ under[h] \cap rows = {}

(* They are in the file exactly if commit() returned Ok: not before, not   *)
(* after a rollback(), and not after a commit() that returned Err, whose   *)
(* transaction stays open with nobody left who could end it.               *)
ToldTruth(h) ==
    IF told[h] = "committed" THEN under[h] \subseteq rows
                             ELSE under[h] \cap rows = {}

(* Transactions are atomic, and handles tell the truth about theirs, unless*)
(* create_schema() was called inside a transaction of the same connection: *)
(* what that breaks it does not break for another connection.              *)
HandleTruth ==
    \A h \in Handle : Atomic(h) /\ (conn[h] \notin upset => ToldTruth(h))

(* A handle that is still unused stands for a transaction that is still    *)
(* open, unless the connection was closed under it, or used for            *)
(* create_schema() in a transaction: handles then outlive transactions.    *)
HandlesLive ==
    \A h \in Handle : conn[h] # None /\ ~consumed[h] =>
        \/ mode[conn[h]] = "closed"
        \/ conn[h] \in upset
        \/ mode[conn[h]] = "txn" /\ current[conn[h]] = h

(* A transaction that is not abandoned by closing its connection is ended  *)
(* by the handle its BEGIN returned, used for the first time.  Only where  *)
(* create_schema() has upset the connection may something else end it:     *)
(* create_schema() itself, which commits all of it and uses up no handle,  *)
(* or an earlier handle of that connection whose transaction create_schema *)
(* ended.  A used handle, or one of another connection, never does.        *)
EndByOwnHandle ==
    \A c \in Conn : mode[c] = "txn" /\ mode'[c] = "auto" =>
        \/ c \in upset' /\ consumed' = consumed /\ rows' = rows \cup local[c]
        \/ \E h \in Handle :
              /\ conn[h] = c /\ ~consumed[h]
              /\ consumed' = [consumed EXCEPT ![h] = TRUE]
              /\ c \notin upset' => h = current[c]
EndedByOwnHandle == [][EndByOwnHandle]_vars
=============================================================================
