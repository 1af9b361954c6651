------------------------------- MODULE Sqlite -------------------------------
(***************************************************************************)
(* The part of SQLite the storage layer rests on (external code, modelled  *)
(* from how storage/ uses the sqlite3 module): one database file in        *)
(* rollback-journal mode and the connections that have it open, each with  *)
(* the transaction it is in and the file lock it holds.                    *)
(*                                                                         *)
(* A call that finds the file locked waits for the busy timeout and then   *)
(* raises OperationalError.  Waiting is the call happening later; what is  *)
(* modelled here are the calls that go through, the condition under which  *)
(* they can, and the traces a refused call leaves.                         *)
(***************************************************************************)
CONSTANTS
    Conn,       \* connections
    Row         \* rows that may be inserted

VARIABLES
    rows,       \* the committed rows
    local,      \* local[c] : rows inserted by the transaction c is in
    mode,       \* mode[c]  : unopened, auto(commit), (in a) txn, closed
    lock        \* lock[c]  : file lock held by c between two calls

Isolation == {"deferred", "immediate", "exclusive"}
Locks == {"none", "shared", "reserved", "pending", "exclusive"}

TypeOK ==
    /\ rows \subseteq Row
    /\ local \in [Conn -> SUBSET Row]
    /\ mode \in [Conn -> {"unopened", "auto", "txn", "closed"}]
    /\ lock \in [Conn -> Locks]

Init ==
    /\ rows = {}
    /\ local = [c \in Conn |-> {}]
    /\ mode = [c \in Conn |-> "unopened"]
    /\ lock = [c \in Conn |-> "none"]

OthersHold(c, locks) == \E d \in Conn \ {c} : lock[d] \in locks
MayRead(c) == ~OthersHold(c, {"pending", "exclusive"})
MayWrite(c) == ~OthersHold(c, {"reserved", "pending", "exclusive"})
MayPublish(c) == ~OthersHold(c, {"shared", "reserved", "pending", "exclusive"})

Opened(c) == mode[c] \in {"auto", "txn"}

(* Leaves the transaction c is in, if any.                                 *)
Leave(c, next) ==
    /\ mode' = [mode EXCEPT ![c] = next]
    /\ lock' = [lock EXCEPT ![c] = "none"]
    /\ local' = [local EXCEPT ![c] = {}]

Connect(c) ==
    /\ mode[c] = "unopened"
    /\ mode' = [mode EXCEPT ![c] = "auto"]
    /\ UNCHANGED << rows, local, lock >>

(* close() rolls an open transaction back; so does the death of the        *)
(* process that owns the connection.                                       *)
Disconnect(c) ==
    /\ Opened(c)
    /\ Leave(c, "closed")
    /\ UNCHANGED rows

(* BEGIN DEFERRED takes no lock, the other two take theirs at once.        *)
(* BEGIN inside a transaction is an error.                                 *)
BeginTxn(c, level) ==
    /\ mode[c] = "auto"
    /\ level = "immediate" => MayWrite(c)
    /\ level = "exclusive" => MayPublish(c)
    /\ mode' = [mode EXCEPT ![c] = "txn"]
    /\ lock' = [lock EXCEPT ![c] =
                  CASE level = "immediate" -> "reserved"
                    [] level = "exclusive" -> "exclusive"
                    [] OTHER -> "none"]
    /\ UNCHANGED << rows, local >>

(* SELECT, with all rows fetched.                                          *)
ReadTable(c) ==
    /\ Opened(c)
    /\ MayRead(c)
    /\ lock' = IF mode[c] = "txn" /\ lock[c] = "none"
               THEN [lock EXCEPT ![c] = "shared"] ELSE lock
    /\ UNCHANGED << rows, local, mode >>

(* The lock an INSERT leaves behind in a transaction.                      *)
Reserve(c) ==
    lock' = IF mode[c] = "txn" /\ lock[c] \in {"none", "shared"}
            THEN [lock EXCEPT ![c] = "reserved"] ELSE lock

(* INSERT: kept with the transaction, or committed on the spot.            *)
InsertRow(c, r) ==
    \/ /\ mode[c] = "txn" /\ MayWrite(c)
       /\ local' = [local EXCEPT ![c] = @ \cup {r}]
       /\ Reserve(c)
       /\ UNCHANGED << rows, mode >>
    \/ /\ mode[c] = "auto" /\ MayPublish(c)
       /\ rows' = rows \cup {r}
       /\ UNCHANGED << local, mode, lock >>

(* An INSERT refused by a constraint leaves the transaction open, and its  *)
(* lock in place.                                                          *)
InsertRefused(c) ==
    /\ Opened(c)
    /\ MayWrite(c)
    /\ Reserve(c)
    /\ UNCHANGED << rows, local, mode >>

(* COMMIT needs the file to itself once the transaction holds a write lock.*)
MayCommit(c) ==
    \/ mode[c] = "auto"
    \/ mode[c] = "txn" /\ (lock[c] \in {"none", "shared"} \/ MayPublish(c))

CommitTxn(c) ==
    /\ MayCommit(c)
    /\ rows' = rows \cup local[c]
    /\ Leave(c, "auto")

(* A COMMIT that finds readers: the transaction stays open, with a lock    *)
(* that lets no new reader in.                                             *)
CommitBusy(c) ==
    /\ mode[c] = "txn"
    /\ ~MayCommit(c)
    /\ lock' = [lock EXCEPT ![c] = "pending"]
    /\ UNCHANGED << rows, local, mode >>

RollbackTxn(c) ==
    /\ Opened(c)
    /\ Leave(c, "auto")
    /\ UNCHANGED rows
=============================================================================
