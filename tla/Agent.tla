------------------------------- MODULE Agent -------------------------------
(***************************************************************************)
(* agent/agent.py: the storage session of Agent objects, over a database   *)
(* file that other processes may have open too: other Agent objects on the *)
(* same path (two runs into one directory) and foreign readers (a shell, a *)
(* backup), which keep a read transaction open for as long as they like.   *)
(*                                                                         *)
(* record_observation() is three SQL statements; between them any other    *)
(* process may run, and the agent's own process may die.  tick() is        *)
(* decide(), which does not touch the file, and then record_observation(). *)
(* An observation is named by a row of its own, and Scores gives the free  *)
(* energies of the candidates its decision was among (of the one candidate *)
(* where record_observation() is called by itself).  Calls that raise, or  *)
(* return an error, before they change anything are stuttering steps: no   *)
(* candidates, the constructor or BEGIN on a locked file, BEGIN in a       *)
(* transaction that an earlier call left open.                             *)
(*                                                                         *)
(* log, refused, counted and raised are history: what the calls returned.  *)
(***************************************************************************)
EXTENDS Integers, Sequences

CONSTANTS
    Worker,     \* Agent objects
    Reader,     \* foreign connections
    Row,        \* observations that may ever be recorded
    Level,      \* Level[a] : isolation_level of a's database
    Scores,     \* Scores[r][i] : the free energy of r's i-th candidate
    NaN,        \* the free energy of a belief whose mean is not a number
    None

ASSUME WorkerAssumption == Worker \cap Reader = {}
ASSUME LevelAssumption == Level \in [Worker -> {"deferred", "immediate", "exclusive"}]
ASSUME NoneAssumption == None \notin Row
ASSUME ScoresAssumption == Scores \in [Row -> Seq(Int \cup {NaN}) \ {<< >>}]

VARIABLES
    rows, local, mode, lock,    \* the file, as in Sqlite
    table,      \* does the observations table exist?
    pc,         \* pc[a]    : where a is in its life, or in record_observation()
    doing,      \* doing[a] : the observation being recorded
    log,        \* log[a]   : observations whose call returned Ok, in order
    refused,    \* observations whose call returned Err
    counted,    \* counted[a] : the rows a's last observation_count() counted
    raised      \* agents whose call raised an exception

file == << rows, local, mode, lock >>
vars == << file, table, pc, doing, log, refused, counted, raised >>

Db == INSTANCE Sqlite WITH Conn <- Worker \cup Reader

Place == {"new", "idle", "begun", "inserted", "refused", "closed"}

TypeOK ==
    /\ Db!TypeOK
    /\ table \in BOOLEAN
    /\ pc \in [Worker -> Place]
    /\ doing \in [Worker -> Row \cup {None}]
    /\ log \in [Worker -> Seq(Row)]
    /\ refused \subseteq Row
    /\ counted \in [Worker -> SUBSET Row]
    /\ raised \subseteq Worker

Init ==
    /\ Db!Init
    /\ table = FALSE
    /\ pc = [a \in Worker |-> "new"]
    /\ doing = [a \in Worker |-> None]
    /\ log = [a \in Worker |-> << >>]
    /\ refused = {}
    /\ counted = [a \in Worker |-> {}]
    /\ raised = {}

(* The order of Python's floats: NaN is neither less nor greater.          *)
Less(x, y) == x # NaN /\ y # NaN /\ x < y

(* A bug: the last of equally good candidates wins.                        *)
Decide_LastOfEquals(scores) ==
    LET best[i \in DOMAIN scores] ==
            IF i > 1 /\ Less(scores[best[i - 1]], scores[i]) THEN best[i - 1]
            ELSE i
    IN  best[Len(scores)]

(* decide(): min() runs through the candidates and keeps the first until   *)
(* one is less than the best so far.                                       *)
Decide(scores) ==
    LET best[i \in DOMAIN scores] ==
            IF i = 1 \/ Less(scores[i], scores[best[i - 1]]) THEN i
            ELSE best[i - 1]
    IN  best[Len(scores)]

(* The value record_observation() stores for the chosen candidate.         *)
Score(r) == Scores[r][Decide(Scores[r])]

Acknowledged(a) == { log[a][i] : i \in DOMAIN log[a] }

(* Rows are named once.                                                    *)
Unused(r) ==
    /\ r \notin refused
    /\ \A a \in Worker : r # doing[a] /\ r \notin Acknowledged(a)

-----------------------------------------------------------------------------
GoTo(a, place) == pc' = [pc EXCEPT ![a] = place]

(* __init__(): open_database() and create_schema() on a path whose file    *)
(* may or may not have the table.                                          *)
Construct(a) ==
    /\ pc[a] = "new"
    /\ Db!MayRead(a)
    /\ table \/ Db!MayPublish(a)
    /\ Db!Connect(a)
    /\ table' = TRUE
    /\ GoTo(a, "idle")
    /\ UNCHANGED << doing, log, refused, counted, raised >>

(* record_observation(): begin_transaction().                              *)
RecordBegin(a, r) ==
    /\ pc[a] = "idle"
    /\ Unused(r)
    /\ Db!BeginTxn(a, Level[a])
    /\ doing' = [doing EXCEPT ![a] = r]
    /\ GoTo(a, "begun")
    /\ UNCHANGED << table, log, refused, counted, raised >>

(* expected_free_energy() raises (OverflowError for a mean far off) after  *)
(* BEGIN, and nothing ends the transaction.  tick() does not come here: it *)
(* has computed the same score before.                                     *)
RecordRaises(a) ==
    /\ pc[a] = "begun"
    /\ raised' = raised \cup {a}
    /\ doing' = [doing EXCEPT ![a] = None]
    /\ GoTo(a, "idle")
    /\ UNCHANGED << file, table, log, refused, counted >>

(* builder.insert(): done, refused by a constraint (NaN is NULL to SQLite, *)
(* and the column is NOT NULL), or refused because of a lock.              *)
RecordInsert(a) ==
    /\ pc[a] = "begun"
    /\ \/ /\ Score(doing[a]) # NaN
          /\ Db!InsertRow(a, doing[a])
          /\ GoTo(a, "inserted")
       \/ /\ Score(doing[a]) = NaN
          /\ Db!InsertRefused(a)
          /\ GoTo(a, "refused")
       \/ ~Db!MayWrite(a) /\ UNCHANGED file /\ GoTo(a, "refused")
    /\ UNCHANGED << table, doing, log, refused, counted, raised >>

(* A bug: the failed insert is reported, its transaction left open.        *)
RecordEnd_NoRollback(a) ==
    /\ \/ /\ pc[a] = "inserted"
          /\ Db!CommitTxn(a) \/ Db!CommitBusy(a)
          /\ log' = [log EXCEPT ![a] = Append(@, doing[a])]
          /\ UNCHANGED refused
       \/ /\ pc[a] = "refused"
          /\ refused' = refused \cup {doing[a]}
          /\ UNCHANGED << file, log >>
    /\ doing' = [doing EXCEPT ![a] = None]
    /\ GoTo(a, "idle")
    /\ UNCHANGED << table, counted, raised >>

(* A bug: the test of the insert's result is inverted.                     *)
RecordEnd_InvertedTest(a) ==
    /\ \/ /\ pc[a] = "inserted"
          /\ Db!RollbackTxn(a)
          /\ log' = [log EXCEPT ![a] = Append(@, doing[a])]
          /\ UNCHANGED refused
       \/ /\ pc[a] = "refused"
          /\ Db!CommitTxn(a) \/ Db!CommitBusy(a)
          /\ refused' = refused \cup {doing[a]}
          /\ UNCHANGED log
    /\ doing' = [doing EXCEPT ![a] = None]
    /\ GoTo(a, "idle")
    /\ UNCHANGED << table, counted, raised >>

(* A bug: commit()'s Result is taken for a failure because it is truthy.   *)
RecordEnd_TruthyResult(a) ==
    /\ \/ /\ pc[a] = "inserted"
          /\ Db!CommitTxn(a)
          /\ refused' = refused \cup {doing[a]}
          /\ UNCHANGED log
       \/ /\ pc[a] = "refused"
          /\ Db!RollbackTxn(a)
          /\ refused' = refused \cup {doing[a]}
          /\ UNCHANGED log
    /\ doing' = [doing EXCEPT ![a] = None]
    /\ GoTo(a, "idle")
    /\ UNCHANGED << table, counted, raised >>

(* The end of record_observation(): txn.rollback() and the Err, or         *)
(* txn.commit(), whose own result is dropped, and Ok.                      *)
RecordEnd(a) ==
    /\ \/ /\ pc[a] = "inserted"
          /\ Db!CommitTxn(a) \/ Db!CommitBusy(a)
          /\ log' = [log EXCEPT ![a] = Append(@, doing[a])]
          /\ UNCHANGED refused
       \/ /\ pc[a] = "refused"
          /\ Db!RollbackTxn(a)
          /\ refused' = refused \cup {doing[a]}
          /\ UNCHANGED log
    /\ doing' = [doing EXCEPT ![a] = None]
    /\ GoTo(a, "idle")
    /\ UNCHANGED << table, counted, raised >>

(* observation_count(): the rows a SELECT sees, the agent's own            *)
(* uncommitted ones included, and zero if the SELECT fails.                *)
ObservationCount(a) ==
    /\ \/ /\ pc[a] = "idle"
          /\ Db!ReadTable(a)
          /\ counted' = [counted EXCEPT ![a] = rows \cup local[a]]
       \/ /\ pc[a] = "closed" \/ (pc[a] = "idle" /\ ~Db!MayRead(a))
          /\ counted' = [counted EXCEPT ![a] = {}]
          /\ UNCHANGED file
    /\ UNCHANGED << table, pc, doing, log, refused, raised >>

(* close(), or the death of the process, which may also come in the middle *)
(* of a call.                                                              *)
Close(a) ==
    /\ pc[a] = "idle"
    /\ Db!Disconnect(a)
    /\ GoTo(a, "closed")
    /\ UNCHANGED << table, doing, log, refused, counted, raised >>

Crash(a) ==
    /\ pc[a] \in {"begun", "inserted", "refused"}
    /\ Db!Disconnect(a)
    /\ GoTo(a, "closed")
    /\ UNCHANGED << table, doing, log, refused, counted, raised >>

-----------------------------------------------------------------------------
(* A foreign program opens the file and keeps reading, or is done with it. *)
StartReading(d) ==
    /\ mode[d] # "txn"
    /\ Db!MayRead(d)
    /\ mode' = [mode EXCEPT ![d] = "txn"]
    /\ lock' = [lock EXCEPT ![d] = "shared"]
    /\ UNCHANGED << rows, local, table, pc, doing, log, refused, counted, raised >>

StopReading(d) ==
    /\ mode[d] = "txn"
    /\ Db!RollbackTxn(d)
    /\ UNCHANGED << table, pc, doing, log, refused, counted, raised >>

Next ==
    \/ \E a \in Worker :
         \/ Construct(a)
         \/ \E r \in Row : RecordBegin(a, r)
         \/ RecordRaises(a)
         \/ RecordInsert(a)
         \/ RecordEnd(a)
         \/ ObservationCount(a)
         \/ Close(a)
         \/ Crash(a)
    \/ \E d \in Reader : StartReading(d) \/ StopReading(d)

Spec == Init /\ [][Next]_vars

-----------------------------------------------------------------------------
(* At most one observation of an agent is reported as recorded and is not: *)
(* the last.  Once a commit has failed unnoticed the agent cannot begin    *)
(* another transaction, so all earlier ones are in the file for good.      *)
OnlyLastAtRisk ==
    \A a \in Worker : \A i \in DOMAIN log[a] :
        i < Len(log[a]) => log[a][i] \in rows

(* An observation reported as not recorded is not in the file, and never   *)
(* gets there; nor does one that nobody reported; and none of these is     *)
(* ever counted.                                                           *)
OnlyReportedRows ==
    /\ refused \cap rows = {}
    /\ rows \subseteq UNION { Acknowledged(a) : a \in Worker }
    /\ \A a \in Worker :
         counted[a] \subseteq (UNION { Acknowledged(b) : b \in Worker }) \ refused

(* Every observation in the file is of a best candidate, and of the first  *)
(* of the best, NaN among the scores or not: where min() returns a NaN,    *)
(* which may hide better candidates, the file refuses it.                  *)
BestRecorded ==
    \A r \in rows : \A i \in DOMAIN Scores[r] :
        /\ Score(r) # NaN /\ ~Less(Scores[r][i], Score(r))
        /\ i < Decide(Scores[r]) => Scores[r][i] # Score(r)

(* Between two calls an agent is in no transaction, and no error that is   *)
(* returned leaves one open; unless its last commit failed, or a call      *)
(* raised, which leaves an empty one.                                      *)
IdleInAutocommit ==
    \A a \in Worker :
        pc[a] = "idle" /\ mode[a] = "txn" =>
            \/ log[a] # << >> /\ log[a][Len(log[a])] \in local[a]
            \/ a \in raised /\ local[a] = {}

(* The agents, crashes, contention and foreign readers included, implement *)
(* the shared log: a report of success is premature for at most the last   *)
(* observation, and nothing is ever taken back.                            *)
LogOf == INSTANCE ObservationLog WITH
    durable <- rows,
    stuck <- { a \in Worker : log[a] # << >> /\ log[a][Len(log[a])] \notin rows }
LogSpec == LogOf!Spec

-----------------------------------------------------------------------------
(* tick()'s docstring: a storage failure while recording is folded into an *)
(* error "rather than silently discarded"; so what is reported is in the   *)
(* file.  The code drops the result of commit().                           *)
AcknowledgedDurable == \A a \in Worker : Acknowledged(a) \subseteq rows
=============================================================================
