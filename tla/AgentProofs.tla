----------------------------- MODULE AgentProofs -----------------------------
(***************************************************************************)
(* Proofs about Agent, for any agents, foreign readers, observations and   *)
(* isolation levels.  What decide() finds is computed candidate by         *)
(* candidate: a property of all prefixes that failed would fail at a       *)
(* smallest one.                                                           *)
(***************************************************************************)
EXTENDS Agent, WellFoundedInduction, TLAPS

Last(a) == log[a][Len(log[a])]
LogKept(a) == \A i \in DOMAIN log[a] : log[a][i] \in rows
AllButLast(a) == \A i \in DOMAIN log[a] : i < Len(log[a]) => log[a][i] \in rows

(* What an agent has in its transaction, by where it is: the observation   *)
(* it is recording, the last one if its commit failed, or nothing.         *)
WorkerInv(a) ==
    /\ AllButLast(a)
    /\ pc[a] = "new" => local[a] = {} /\ log[a] = << >>
    /\ pc[a] = "idle" =>
         \/ mode[a] = "auto" /\ local[a] = {} /\ LogKept(a)
         \/ mode[a] = "txn" /\ log[a] # << >> /\ local[a] = {Last(a)}
         \/ mode[a] = "txn" /\ a \in raised /\ local[a] = {} /\ LogKept(a)
    /\ pc[a] \in {"begun", "refused", "inserted"} =>
         /\ mode[a] = "txn" /\ doing[a] \in Row /\ LogKept(a)
         /\ local[a] = IF pc[a] = "inserted" THEN {doing[a]} ELSE {}

(* The observation being recorded is a new one.                            *)
NameInv(a) ==
    doing[a] \in Row =>
        /\ doing[a] \notin rows /\ doing[a] \notin refused
        /\ \A b \in Worker :
             doing[a] \notin Acknowledged(b) /\ (b # a => doing[b] # doing[a])

(* No observation was reported both ways.                                  *)
ReportedOnce == \A a \in Worker : Acknowledged(a) \cap refused = {}

IInv ==
    /\ TypeOK
    /\ OnlyReportedRows
    /\ ReportedOnce
    /\ \A a \in Worker : WorkerInv(a) /\ NameInv(a)

-----------------------------------------------------------------------------
(* What a worker does to itself leaves the others' invariant alone, as     *)
(* long as rows only grow, by observations the others are not recording.   *)
LEMMA OthersStable ==
    ASSUME IInv, NEW a \in Worker,
           rows \subseteq rows', raised \subseteq raised',
           \A b \in Worker \ {a} :
              /\ pc'[b] = pc[b] /\ mode'[b] = mode[b] /\ local'[b] = local[b]
              /\ log'[b] = log[b] /\ doing'[b] = doing[b]
    PROVE  \A b \in Worker \ {a} : WorkerInv(b)'
<1> SUFFICES ASSUME NEW b \in Worker \ {a} PROVE WorkerInv(b)'
    OBVIOUS
<1>1. WorkerInv(b)
    BY DEF IInv
<1> QED
    BY <1>1 DEF WorkerInv, AllButLast, LogKept, Last

(* Names stay new when nothing is recorded, reported or begun.             *)
LEMMA NamesStable ==
    ASSUME IInv, UNCHANGED << rows, refused, log, doing >>
    PROVE  /\ UNCHANGED counted => OnlyReportedRows'
           /\ ReportedOnce'
           /\ \A a \in Worker : NameInv(a)'
<1>1. \A a \in Worker : Acknowledged(a)' = Acknowledged(a)
    BY DEF Acknowledged
<1>2. UNCHANGED counted => OnlyReportedRows'
    BY <1>1 DEF IInv, OnlyReportedRows
<1>3. ReportedOnce'
    BY <1>1 DEF IInv, ReportedOnce
<1>4. \A a \in Worker : NameInv(a)'
    BY <1>1 DEF IInv, NameInv
<1> QED
    BY <1>2, <1>3, <1>4

(* The first state.                                                        *)
LEMMA InitInvariant == Init => IInv
<1> SUFFICES ASSUME Init PROVE IInv
    OBVIOUS
<1>1. TypeOK
  <2>1. Db!TypeOK
      BY DEF Init, Db!Init, Db!TypeOK, Db!Locks
  <2>2. log \in [Worker -> Seq(Row)]
      BY DEF Init
  <2> QED
      BY <2>1, <2>2 DEF Init, TypeOK, Place
<1>2. OnlyReportedRows /\ ReportedOnce
    BY DEF Init, Db!Init, OnlyReportedRows, ReportedOnce
<1>3. \A a \in Worker : WorkerInv(a) /\ NameInv(a)
  <2> SUFFICES ASSUME NEW a \in Worker PROVE WorkerInv(a) /\ NameInv(a)
      OBVIOUS
  <2>1. /\ pc[a] = "new" /\ doing[a] = None /\ log[a] = << >>
        /\ local[a] = {} /\ DOMAIN log[a] = {}
      BY DEF Init, Db!Init
  <2> QED
      BY <2>1, NoneAssumption DEF WorkerInv, NameInv, AllButLast
<1> QED
    BY <1>1, <1>2, <1>3 DEF IInv

(* The constructor opens a connection that is in no transaction.           *)
LEMMA ConstructStep ==
    ASSUME IInv, NEW a \in Worker, Construct(a)
    PROVE  IInv'
<1>1. /\ pc[a] = "new"
      /\ pc' = [pc EXCEPT ![a] = "idle"] /\ mode' = [mode EXCEPT ![a] = "auto"]
      /\ table' = TRUE
      /\ UNCHANGED << rows, local, lock, doing, log, refused, counted, raised >>
    BY DEF Construct, GoTo, Db!Connect
<1>2. TypeOK'
    BY <1>1 DEF IInv, TypeOK, Db!TypeOK, Place
<1>3. WorkerInv(a) /\ pc'[a] = "idle" /\ mode'[a] = "auto"
    BY <1>1 DEF IInv, TypeOK, Db!TypeOK
<1>4. WorkerInv(a)'
    BY <1>1, <1>3 DEF WorkerInv, AllButLast, LogKept
<1>5. \A b \in Worker \ {a} : WorkerInv(b)'
    BY <1>1, OthersStable DEF IInv, TypeOK, Db!TypeOK
<1> QED
    BY <1>1, <1>2, <1>4, <1>5, NamesStable DEF IInv

(* record_observation() begins only where nothing is held back.            *)
LEMMA RecordBeginStep ==
    ASSUME IInv, NEW a \in Worker, NEW r \in Row, RecordBegin(a, r)
    PROVE  IInv'
<1>1. /\ pc[a] = "idle" /\ mode[a] = "auto" /\ Unused(r)
      /\ pc' = [pc EXCEPT ![a] = "begun"] /\ mode' = [mode EXCEPT ![a] = "txn"]
      /\ doing' = [doing EXCEPT ![a] = r]
      /\ UNCHANGED << rows, local, table, log, refused, counted, raised >>
    BY DEF RecordBegin, GoTo, Db!BeginTxn
<1>2. lock' \in [Worker \cup Reader -> Db!Locks]
    BY DEF IInv, TypeOK, Db!TypeOK, Db!Locks, RecordBegin, Db!BeginTxn
<1>3. TypeOK'
    BY <1>1, <1>2 DEF IInv, TypeOK, Db!TypeOK, Place
<1>4. /\ WorkerInv(a)
      /\ pc'[a] = "begun" /\ mode'[a] = "txn" /\ doing'[a] = r
    BY <1>1 DEF IInv, TypeOK, Db!TypeOK
<1>5. WorkerInv(a)'
    BY <1>1, <1>4 DEF WorkerInv, AllButLast, LogKept
<1>6. \A b \in Worker \ {a} : WorkerInv(b)'
    BY <1>1, OthersStable DEF IInv, TypeOK, Db!TypeOK
<1>7. r \notin rows
    BY <1>1 DEF IInv, OnlyReportedRows, Unused
<1>8. \A b \in Worker : NameInv(b)'
  <2> SUFFICES ASSUME NEW b \in Worker PROVE NameInv(b)'
      OBVIOUS
  <2>1. NameInv(b)
      BY DEF IInv
  <2>2. \A c \in Worker : doing'[c] = IF c = a THEN r ELSE doing[c]
      BY <1>1 DEF IInv, TypeOK
  <2>3. \A c \in Worker : Acknowledged(c)' = Acknowledged(c)
      BY <1>1 DEF Acknowledged
  <2> QED
      BY <1>1, <1>7, <2>1, <2>2, <2>3 DEF NameInv, Unused
<1>9. OnlyReportedRows' /\ ReportedOnce'
  <2>1. \A c \in Worker : Acknowledged(c)' = Acknowledged(c)
      BY <1>1 DEF Acknowledged
  <2> QED
      BY <1>1, <2>1 DEF IInv, OnlyReportedRows, ReportedOnce
<1> QED
    BY <1>3, <1>5, <1>6, <1>8, <1>9 DEF IInv

(* The insert goes to the transaction, or leaves it as it is.              *)
LEMMA RecordInsertStep ==
    ASSUME IInv, NEW a \in Worker, RecordInsert(a)
    PROVE  IInv'
<1>1. /\ pc[a] = "begun" /\ WorkerInv(a) /\ mode[a] = "txn" /\ doing[a] \in Row
      /\ UNCHANGED << table, doing, log, refused, counted, raised >>
    BY DEF RecordInsert, IInv, WorkerInv
<1>2. /\ UNCHANGED << rows, mode >>
      /\ \/ /\ local' = [local EXCEPT ![a] = @ \cup {doing[a]}]
            /\ pc' = [pc EXCEPT ![a] = "inserted"]
         \/ /\ local' = local
            /\ pc' = [pc EXCEPT ![a] = "refused"]
    BY <1>1 DEF RecordInsert, GoTo, Db!InsertRow, Db!InsertRefused, file
<1>3. lock' \in [Worker \cup Reader -> Db!Locks]
    BY <1>1 DEF IInv, TypeOK, Db!TypeOK, Db!Locks, RecordInsert, Db!InsertRow,
           Db!InsertRefused, Db!Reserve, file
<1>4. TypeOK'
  <2>1. local' \in [Worker \cup Reader -> SUBSET Row]
    <3>1. local \in [Worker \cup Reader -> SUBSET Row] /\ local[a] \cup {doing[a]} \in SUBSET Row
        BY <1>1 DEF IInv, TypeOK, Db!TypeOK
    <3> QED
        BY <1>2, <3>1
  <2>2. pc' \in [Worker -> Place]
      BY <1>2 DEF IInv, TypeOK, Place
  <2> QED
      BY <1>1, <1>2, <1>3, <2>1, <2>2 DEF IInv, TypeOK, Db!TypeOK
<1>5. \/ pc'[a] = "inserted" /\ local'[a] = {doing[a]}
      \/ pc'[a] = "refused" /\ local'[a] = {}
    BY <1>1, <1>2 DEF WorkerInv, IInv, TypeOK, Db!TypeOK
<1>6. WorkerInv(a)'
    BY <1>1, <1>2, <1>5 DEF WorkerInv, AllButLast, LogKept
<1>7. \A b \in Worker \ {a} : WorkerInv(b)'
    BY <1>1, <1>2, OthersStable DEF IInv, TypeOK, Db!TypeOK
<1> QED
    BY <1>1, <1>2, <1>4, <1>6, <1>7, NamesStable DEF IInv

(* A call that raises leaves an empty transaction open.                    *)
LEMMA RecordRaisesStep ==
    ASSUME IInv, NEW a \in Worker, RecordRaises(a)
    PROVE  IInv'
<1>1. /\ pc[a] = "begun" /\ WorkerInv(a)
      /\ raised' = raised \cup {a}
      /\ doing' = [doing EXCEPT ![a] = None] /\ pc' = [pc EXCEPT ![a] = "idle"]
      /\ UNCHANGED << rows, local, mode, lock, table, log, refused, counted >>
    BY DEF RecordRaises, GoTo, file, IInv
<1>2. TypeOK'
    BY <1>1 DEF IInv, TypeOK, Db!TypeOK, Place
<1>3. pc'[a] = "idle" /\ a \in raised' /\ mode[a] = "txn" /\ local[a] = {} /\ LogKept(a)
    BY <1>1 DEF IInv, TypeOK, WorkerInv
<1>4. WorkerInv(a)'
    BY <1>1, <1>3 DEF WorkerInv, AllButLast, LogKept
<1>5. \A b \in Worker \ {a} : WorkerInv(b)'
    BY <1>1, OthersStable DEF IInv, TypeOK
<1>6. \A b \in Worker : NameInv(b)'
  <2> SUFFICES ASSUME NEW b \in Worker, doing'[b] \in Row PROVE NameInv(b)'
      BY DEF NameInv
  <2>1. \A c \in Worker : doing'[c] = IF c = a THEN None ELSE doing[c]
      BY <1>1 DEF IInv, TypeOK
  <2>2. b # a /\ doing'[b] = doing[b] /\ NameInv(b)
      BY <2>1, NoneAssumption DEF IInv
  <2>3. \A c \in Worker : Acknowledged(c)' = Acknowledged(c)
      BY <1>1 DEF Acknowledged
  <2> QED
      BY <1>1, <2>1, <2>2, <2>3, NoneAssumption DEF NameInv
<1>7. OnlyReportedRows' /\ ReportedOnce'
  <2>1. \A c \in Worker : Acknowledged(c)' = Acknowledged(c)
      BY <1>1 DEF Acknowledged
  <2> QED
      BY <1>1, <2>1 DEF IInv, OnlyReportedRows, ReportedOnce
<1> QED
    BY <1>2, <1>4, <1>5, <1>6, <1>7 DEF IInv

(* The three ways a call of record_observation() ends.                     *)
LEMMA RecordEndCases ==
    ASSUME IInv, NEW a \in Worker, RecordEnd(a)
    PROVE  /\ doing[a] \in Row /\ LogKept(a)
           /\ doing' = [doing EXCEPT ![a] = None] /\ pc' = [pc EXCEPT ![a] = "idle"]
           /\ UNCHANGED << table, counted, raised >>
           /\ lock' \in [Worker \cup Reader -> Db!Locks]
           /\ \/ /\ log' = [log EXCEPT ![a] = Append(@, doing[a])] /\ refused' = refused
                 /\ \/ /\ rows' = rows \cup {doing[a]}
                       /\ mode' = [mode EXCEPT ![a] = "auto"]
                       /\ local' = [local EXCEPT ![a] = {}]
                    \/ /\ UNCHANGED << rows, mode, local >>
                       /\ mode[a] = "txn" /\ local[a] = {doing[a]}
              \/ /\ refused' = refused \cup {doing[a]} /\ UNCHANGED << log, rows >>
                 /\ mode' = [mode EXCEPT ![a] = "auto"]
                 /\ local' = [local EXCEPT ![a] = {}]
<1>1. WorkerInv(a) /\ pc[a] \in {"inserted", "refused"}
    BY DEF IInv, RecordEnd
<1>2. /\ doing[a] \in Row /\ LogKept(a) /\ mode[a] = "txn"
      /\ local[a] = IF pc[a] = "inserted" THEN {doing[a]} ELSE {}
    BY <1>1 DEF WorkerInv
<1>3. doing' = [doing EXCEPT ![a] = None] /\ pc' = [pc EXCEPT ![a] = "idle"]
      /\ UNCHANGED << table, counted, raised >>
    BY DEF RecordEnd, GoTo
<1>4. lock' \in [Worker \cup Reader -> Db!Locks]
    BY DEF IInv, TypeOK, Db!TypeOK, Db!Locks, RecordEnd, Db!CommitTxn, Db!CommitBusy,
           Db!RollbackTxn, Db!Leave
<1>5. CASE pc[a] = "inserted"
    BY <1>2, <1>3, <1>4, <1>5 DEF RecordEnd, Db!CommitTxn, Db!CommitBusy, Db!Leave
<1>6. CASE pc[a] = "refused"
    BY <1>2, <1>3, <1>4, <1>6 DEF RecordEnd, Db!RollbackTxn, Db!Leave
<1> QED
    BY <1>1, <1>5, <1>6

(* What Append() does to a log of observations.                            *)
LEMMA AppendFacts ==
    ASSUME NEW s \in Seq(Row), NEW r \in Row
    PROVE  /\ Append(s, r) \in Seq(Row) /\ Append(s, r) # << >>
           /\ Len(Append(s, r)) = Len(s) + 1 /\ Len(s) \in Nat
           /\ DOMAIN Append(s, r) = 1 .. Len(s) + 1 /\ DOMAIN s = 1 .. Len(s)
           /\ \A i \in 1 .. Len(s) : Append(s, r)[i] = s[i]
           /\ Append(s, r)[Len(s) + 1] = r
    OBVIOUS

(* An Ok is the last report of an agent whose commit failed; an Err leaves *)
(* nothing in the transaction.                                             *)
LEMMA RecordEndStep ==
    ASSUME IInv, NEW a \in Worker, RecordEnd(a)
    PROVE  IInv'
<1> DEFINE r == doing[a]
<1>1. r \in Row /\ LogKept(a) /\ NameInv(a)
    BY RecordEndCases DEF IInv
<1>2. /\ log \in [Worker -> Seq(Row)] /\ doing \in [Worker -> Row \cup {None}]
      /\ pc \in [Worker -> Place] /\ refused \subseteq Row /\ rows \subseteq Row
      /\ mode \in [Worker \cup Reader -> {"unopened", "auto", "txn", "closed"}]
      /\ local \in [Worker \cup Reader -> SUBSET Row]
    BY DEF IInv, TypeOK, Db!TypeOK
<1>3. rows' = rows \/ rows' = rows \cup {r}
    BY RecordEndCases
<1>4. refused' = refused \/ refused' = refused \cup {r}
    BY RecordEndCases
<1>5. mode' = mode \/ mode' = [mode EXCEPT ![a] = "auto"]
    BY RecordEndCases
<1>6. local' = local \/ local' = [local EXCEPT ![a] = {}]
    BY RecordEndCases
<1>7. raised' = raised
    BY RecordEndCases
<1>8. /\ Append(log[a], r) \in Seq(Row) /\ Append(log[a], r) # << >>
      /\ Len(Append(log[a], r)) = Len(log[a]) + 1 /\ Len(log[a]) \in Nat
      /\ DOMAIN Append(log[a], r) = 1 .. Len(log[a]) + 1 /\ DOMAIN log[a] = 1 .. Len(log[a])
      /\ \A i \in 1 .. Len(log[a]) : Append(log[a], r)[i] = log[a][i]
      /\ Append(log[a], r)[Len(log[a]) + 1] = r
    BY <1>1, <1>2, AppendFacts
<1>9. TypeOK'
  <2>1. log' \in [Worker -> Seq(Row)]
      BY RecordEndCases, <1>2, <1>8
  <2>2. rows' \subseteq Row /\ refused' \subseteq Row
      BY <1>3, <1>4, <1>1, <1>2
  <2>3. /\ mode' \in [Worker \cup Reader -> {"unopened", "auto", "txn", "closed"}]
        /\ local' \in [Worker \cup Reader -> SUBSET Row]
      BY <1>5, <1>6, <1>2
  <2>4. doing' \in [Worker -> Row \cup {None}] /\ pc' \in [Worker -> Place]
      BY RecordEndCases, <1>2 DEF Place
  <2> QED
      BY RecordEndCases, <2>1, <2>2, <2>3, <2>4 DEF IInv, TypeOK, Db!TypeOK
<1>10. pc'[a] = "idle" /\ doing'[a] = None
    BY RecordEndCases, <1>2
<1>11. WorkerInv(a)'
  <2>1. CASE log' = [log EXCEPT ![a] = Append(@, r)] /\ rows' = rows \cup {r}
             /\ mode' = [mode EXCEPT ![a] = "auto"] /\ local' = [local EXCEPT ![a] = {}]
    <3>1. log'[a] = Append(log[a], r) /\ mode'[a] = "auto" /\ local'[a] = {}
        BY <2>1, <1>2
    <3>2. LogKept(a)'
        BY <2>1, <3>1, <1>1, <1>8 DEF LogKept
    <3> QED
        BY <3>1, <3>2, <1>10 DEF WorkerInv, AllButLast, LogKept
  <2>2. CASE log' = [log EXCEPT ![a] = Append(@, r)] /\ UNCHANGED << rows, mode, local >>
             /\ mode[a] = "txn" /\ local[a] = {r}
    <3>1. log'[a] = Append(log[a], r) /\ mode'[a] = "txn" /\ local'[a] = {r}
        BY <2>2, <1>2
    <3>2. AllButLast(a)'
        BY <2>2, <3>1, <1>1, <1>8 DEF LogKept, AllButLast
    <3>3. Last(a)' = r /\ log'[a] # << >>
        BY <3>1, <1>8 DEF Last
    <3> QED
        BY <3>1, <3>2, <3>3, <1>10 DEF WorkerInv
  <2>3. CASE UNCHANGED << log, rows >> /\ mode' = [mode EXCEPT ![a] = "auto"]
             /\ local' = [local EXCEPT ![a] = {}]
    <3>1. mode'[a] = "auto" /\ local'[a] = {}
        BY <2>3, <1>2
    <3> QED
        BY <2>3, <3>1, <1>1, <1>10 DEF WorkerInv, AllButLast, LogKept
  <2> QED
      BY RecordEndCases, <2>1, <2>2, <2>3
<1>12. \A b \in Worker \ {a} :
        /\ pc'[b] = pc[b] /\ mode'[b] = mode[b] /\ local'[b] = local[b]
        /\ log'[b] = log[b] /\ doing'[b] = doing[b]
  <2> SUFFICES ASSUME NEW b \in Worker, b # a
               PROVE  /\ pc'[b] = pc[b] /\ mode'[b] = mode[b] /\ local'[b] = local[b]
                      /\ log'[b] = log[b] /\ doing'[b] = doing[b]
      OBVIOUS
  <2>1. pc'[b] = pc[b] /\ doing'[b] = doing[b]
      BY RecordEndCases, <1>2
  <2>2. log'[b] = log[b]
      BY RecordEndCases, <1>2
  <2>3. mode'[b] = mode[b]
      BY <1>5, <1>2
  <2>4. local'[b] = local[b]
      BY <1>6, <1>2
  <2> QED
      BY <2>1, <2>2, <2>3, <2>4
<1>13. \A b \in Worker \ {a} : WorkerInv(b)'
  <2>1. rows \subseteq rows' /\ raised \subseteq raised'
      BY <1>3, <1>7
  <2> QED
      BY <1>12, <2>1, OthersStable
<1>14. Acknowledged(a)' \subseteq Acknowledged(a) \cup {r}
  <2>1. log'[a] = log[a] \/ log'[a] = Append(log[a], r)
      BY RecordEndCases, <1>2
  <2> QED
      BY <2>1, <1>8 DEF Acknowledged
<1>15. \A b \in Worker : NameInv(b)'
  <2> SUFFICES ASSUME NEW b \in Worker, b # a, doing[b] \in Row PROVE NameInv(b)'
      BY <1>10, <1>12, NoneAssumption DEF NameInv
  <2>1. NameInv(b)
      BY DEF IInv
  <2>2. doing'[b] = doing[b] /\ doing[b] # r
      BY <1>12, <2>1 DEF NameInv
  <2>3. doing'[b] \notin rows' /\ doing'[b] \notin refused'
      BY <2>1, <2>2, RecordEndCases DEF NameInv
  <2>4. \A c \in Worker : doing'[b] \notin Acknowledged(c)'
    <3>1. \A c \in Worker \ {a} : Acknowledged(c)' = Acknowledged(c)
        BY <1>12 DEF Acknowledged
    <3> QED
        BY <2>1, <2>2, <1>14, <3>1 DEF NameInv
  <2>5. \A c \in Worker : c # b => doing'[c] # doing'[b]
      BY <2>1, <2>2, <1>10, <1>12, NoneAssumption DEF NameInv
  <2> QED
      BY <2>3, <2>4, <2>5 DEF NameInv
<1>16. OnlyReportedRows'
  <2>1. refused' \cap rows' = {}
      BY RecordEndCases, <1>1 DEF IInv, OnlyReportedRows, NameInv
  <2>2. \A b \in Worker : Acknowledged(b) \subseteq Acknowledged(b)'
    <3>1. \A b \in Worker \ {a} : Acknowledged(b)' = Acknowledged(b)
        BY <1>12 DEF Acknowledged
    <3>2. log'[a] = log[a] \/ log'[a] = Append(log[a], r)
        BY RecordEndCases, <1>2
    <3>3. Acknowledged(a) \subseteq Acknowledged(a)'
        BY <3>2, <1>8 DEF Acknowledged
    <3> QED
        BY <3>1, <3>3
  <2>3. rows' = rows \/ (rows' = rows \cup {r} /\ r \in Acknowledged(a)')
    <3>1. log'[a] = Append(log[a], r) => r \in Acknowledged(a)'
        BY <1>8 DEF Acknowledged
    <3> QED
        BY <3>1, RecordEndCases, <1>2
  <2>4. \A b \in Worker : counted'[b] = counted[b] /\ r \notin counted[b]
    <3>1. \A b \in Worker : r \notin Acknowledged(b)
        BY <1>1 DEF NameInv
    <3> QED
        BY <3>1, RecordEndCases DEF IInv, OnlyReportedRows
  <2>5. refused' \subseteq refused \cup {r}
      BY RecordEndCases
  <2> QED
      BY <2>1, <2>2, <2>3, <2>4, <2>5 DEF IInv, OnlyReportedRows
<1>17. ReportedOnce'
  <2>1. \A b \in Worker : r \notin Acknowledged(b) /\ Acknowledged(b) \cap refused = {}
      BY <1>1 DEF NameInv, IInv, ReportedOnce
  <2>2. \A b \in Worker \ {a} : Acknowledged(b)' = Acknowledged(b)
      BY <1>12 DEF Acknowledged
  <2>3. r \notin refused
      BY <1>1 DEF NameInv
  <2>4. \/ refused' = refused
        \/ refused' = refused \cup {r} /\ Acknowledged(a)' = Acknowledged(a)
      BY RecordEndCases DEF Acknowledged
  <2> QED
      BY <1>14, <2>1, <2>2, <2>3, <2>4 DEF ReportedOnce
<1> QED
    BY <1>9, <1>11, <1>13, <1>15, <1>16, <1>17 DEF IInv

(* Counting reads.                                                         *)
LEMMA ObservationCountStep ==
    ASSUME IInv, NEW a \in Worker, ObservationCount(a)
    PROVE  IInv'
<1>1. UNCHANGED << rows, local, mode, table, pc, doing, log, refused, raised >>
    BY DEF ObservationCount, Db!ReadTable, file
<1>2. lock' \in [Worker \cup Reader -> Db!Locks]
    BY DEF IInv, TypeOK, Db!TypeOK, Db!Locks, ObservationCount, Db!ReadTable, file
<1>3. counted' \in [Worker -> SUBSET Row]
  <2>1. rows \cup local[a] \subseteq Row
      BY DEF IInv, TypeOK, Db!TypeOK
  <2> QED
      BY <2>1 DEF IInv, TypeOK, ObservationCount
<1>4. TypeOK'
    BY <1>1, <1>2, <1>3 DEF IInv, TypeOK, Db!TypeOK
<1>5. \A b \in Worker : WorkerInv(b)'
    BY <1>1 DEF IInv, WorkerInv, AllButLast, LogKept, Last
<1>6. \/ pc[a] = "idle" /\ counted' = [counted EXCEPT ![a] = rows \cup local[a]]
      \/ counted' = [counted EXCEPT ![a] = {}]
    BY DEF ObservationCount
<1>7. pc[a] = "idle" => local[a] \subseteq Acknowledged(a)
  <2> SUFFICES ASSUME pc[a] = "idle", local[a] = {Last(a)}, log[a] # << >>
               PROVE  Last(a) \in Acknowledged(a)
      BY DEF IInv, WorkerInv
  <2>1. log[a] \in Seq(Row)
      BY DEF IInv, TypeOK
  <2>2. Len(log[a]) \in DOMAIN log[a]
      BY <2>1
  <2> QED
      BY <2>2 DEF Last, Acknowledged
<1>8. \A b \in Worker : Acknowledged(b)' = Acknowledged(b)
    BY <1>1 DEF Acknowledged
<1>9. OnlyReportedRows'
  <2>1. rows \cup local[a] \subseteq (UNION { Acknowledged(b) : b \in Worker }) \ refused
        \/ pc[a] # "idle"
      BY <1>7 DEF IInv, OnlyReportedRows, ReportedOnce
  <2>2. \A b \in Worker : counted'[b] \subseteq (UNION { Acknowledged(c) : c \in Worker }) \ refused
      BY <1>6, <2>1 DEF IInv, OnlyReportedRows, TypeOK
  <2> QED
      BY <1>1, <1>8, <2>2 DEF IInv, OnlyReportedRows
<1> QED
    BY <1>1, <1>4, <1>5, <1>9, NamesStable DEF IInv

(* Closing, or dying, drops the transaction.                               *)
LEMMA LeaveStep ==
    ASSUME IInv, NEW a \in Worker, Close(a) \/ Crash(a)
    PROVE  IInv'
<1>1. /\ pc' = [pc EXCEPT ![a] = "closed"]
      /\ mode' = [mode EXCEPT ![a] = "closed"] /\ lock' = [lock EXCEPT ![a] = "none"]
      /\ local' = [local EXCEPT ![a] = {}]
      /\ UNCHANGED << rows, table, doing, log, refused, counted, raised >>
    BY DEF Close, Crash, GoTo, Db!Disconnect, Db!Leave
<1>2. TypeOK'
    BY <1>1 DEF IInv, TypeOK, Db!TypeOK, Db!Locks, Place
<1>3. pc'[a] = "closed" /\ WorkerInv(a)
    BY <1>1 DEF IInv, TypeOK
<1>4. WorkerInv(a)'
    BY <1>1, <1>3 DEF WorkerInv, AllButLast
<1>5. \A b \in Worker \ {a} : WorkerInv(b)'
    BY <1>1, OthersStable DEF IInv, TypeOK, Db!TypeOK
<1> QED
    BY <1>1, <1>2, <1>4, <1>5, NamesStable DEF IInv

(* A foreign reader comes and goes.                                        *)
LEMMA ReaderStep ==
    ASSUME IInv, NEW d \in Reader, StartReading(d) \/ StopReading(d)
    PROVE  IInv'
<1>1. UNCHANGED << rows, table, pc, doing, log, refused, counted, raised >>
    BY DEF StartReading, StopReading, Db!RollbackTxn
<1>2. TypeOK'
    BY <1>1 DEF IInv, TypeOK, Db!TypeOK, Db!Locks, StartReading, StopReading,
           Db!RollbackTxn, Db!Leave
<1>3. \A b \in Worker : mode'[b] = mode[b] /\ local'[b] = local[b]
  <2>1. \A b \in Worker : b # d
      BY WorkerAssumption
  <2> QED
      BY <2>1 DEF IInv, TypeOK, Db!TypeOK, StartReading, StopReading, Db!RollbackTxn, Db!Leave
<1>4. \A b \in Worker : WorkerInv(b)'
    BY <1>1, <1>3 DEF IInv, WorkerInv, AllButLast, LogKept, Last
<1> QED
    BY <1>1, <1>2, <1>4, NamesStable DEF IInv

(* Every step keeps the invariant.                                         *)
LEMMA NextInvariant == IInv /\ [Next]_vars => IInv'
<1> SUFFICES ASSUME IInv, [Next]_vars PROVE IInv'
    OBVIOUS
<1>1. ASSUME NEW a \in Worker, Construct(a) PROVE IInv'
    BY <1>1, ConstructStep
<1>2. ASSUME NEW a \in Worker, NEW r \in Row, RecordBegin(a, r) PROVE IInv'
    BY <1>2, RecordBeginStep
<1>3. ASSUME NEW a \in Worker, RecordInsert(a) PROVE IInv'
    BY <1>3, RecordInsertStep
<1>4. ASSUME NEW a \in Worker, RecordEnd(a) PROVE IInv'
    BY <1>4, RecordEndStep
<1>5. ASSUME NEW a \in Worker, ObservationCount(a) PROVE IInv'
    BY <1>5, ObservationCountStep
<1>6. ASSUME NEW a \in Worker, Close(a) \/ Crash(a) PROVE IInv'
    BY <1>6, LeaveStep
<1>7. ASSUME NEW d \in Reader, StartReading(d) \/ StopReading(d) PROVE IInv'
    BY <1>7, ReaderStep
<1>8. ASSUME NEW a \in Worker, RecordRaises(a) PROVE IInv'
    BY <1>8, RecordRaisesStep
<1>9. CASE UNCHANGED vars
  <2>1. UNCHANGED << rows, local, mode, lock, table, pc, doing, log, refused, counted, raised >>
      BY <1>9 DEF vars, file
  <2> QED
      BY <2>1, NamesStable
         DEF IInv, TypeOK, Db!TypeOK, WorkerInv, AllButLast, LogKept, Last
<1> QED
    BY <1>1, <1>2, <1>3, <1>4, <1>5, <1>6, <1>7, <1>9, <1>8 DEF Next

(* The inductive invariant holds in every state the agents reach.          *)
THEOREM Invariant == Spec => []IInv
    BY InitInvariant, NextInvariant, PTL DEF Spec

(* The file, the agents and what they report stay within their types.      *)
THEOREM TypeCorrect == Spec => []TypeOK
<1>1. IInv => TypeOK
    BY DEF IInv
<1> QED
    BY <1>1, Invariant, PTL

(* Only the last observation an agent was told is recorded may be missing. *)
THEOREM LastAtRisk == Spec => []OnlyLastAtRisk
<1>1. IInv => OnlyLastAtRisk
    BY DEF IInv, WorkerInv, AllButLast, OnlyLastAtRisk
<1> QED
    BY <1>1, Invariant, PTL

(* Nothing is in the file that was reported as refused, or not reported.   *)
THEOREM ReportedRows == Spec => []OnlyReportedRows
<1>1. IInv => OnlyReportedRows
    BY DEF IInv
<1> QED
    BY <1>1, Invariant, PTL

(* No error path leaves a transaction open.                                *)
THEOREM AutocommitWhenIdle == Spec => []IdleInAutocommit
<1>1. IInv => IdleInAutocommit
    BY DEF IInv, WorkerInv, Last, IdleInAutocommit
<1> QED
    BY <1>1, Invariant, PTL
-----------------------------------------------------------------------------
(* Every inhabited set of naturals has a least element.                    *)
LEMMA Smallest ==
    ASSUME NEW T \in SUBSET Nat, T # {}
    PROVE  \E n \in T : \A m \in T : n <= m
<1> DEFINE R == { ss \in Nat \X Nat : ss[1] < ss[2] }
<1>1. IsWellFoundedOn(R, Nat)
    BY NatLessThanWellFounded DEF OpToRel
<1>2. \A m, n \in Nat : m < n => << m, n >> \in R
    OBVIOUS
<1> HIDE DEF R
<1>3. \E n \in T : \A m \in T : << m, n >> \notin R
    BY <1>1, WFMin, Zenon
<1>4. PICK n \in T : \A m \in T : << m, n >> \notin R
    BY <1>3
<1>5. ASSUME NEW m \in T
      PROVE  n <= m
    <2>1. m \in Nat /\ n \in Nat /\ << m, n >> \notin R
        BY <1>4
    <2>2. ~ (m < n)
        BY <1>2, <2>1
    <2> QED
        BY <2>1, <2>2
<1> QED
    BY <1>5

(* f holds what n steps make of a base, one after the other.               *)
Computes(f, base, n, step) ==
    f[0] = base /\ \A i \in 1 .. n : f[i] = step[i][f[i - 1]]

(* A value computed step by step from a base exists.                       *)
LEMMA Recursion ==
    ASSUME NEW S, NEW base \in S, NEW n \in Nat, NEW step \in [1 .. n -> [S -> S]]
    PROVE  \E f \in [0 .. n -> S] : Computes(f, base, n, step)
<1> DEFINE T == { m \in 0 .. n : ~ \E f \in [0 .. m -> S] : Computes(f, base, m, step) }
<1>1. ASSUME T # {}
      PROVE  FALSE
    <2>1. T \in SUBSET Nat
        OBVIOUS
    <2>2. PICK m \in T : \A k \in T : m <= k
        <3> HIDE DEF T
        <3> QED
            BY <1>1, <2>1, Smallest
    <2>3. m # 0
        <3>1. [i \in 0 .. 0 |-> base] \in [0 .. 0 -> S] /\ Computes([i \in 0 .. 0 |-> base], base, 0, step)
            BY DEF Computes
        <3> QED
            BY <3>1
    <2>4. m \in 1 .. n /\ m - 1 \in 0 .. n /\ m - 1 \notin T
        BY <2>2, <2>3
    <2>5. PICK f \in [0 .. m - 1 -> S] : Computes(f, base, m - 1, step)
        BY <2>4
    <2> DEFINE g == [i \in 0 .. m |-> IF i = m THEN step[m][f[m - 1]] ELSE f[i]]
    <2>6. g \in [0 .. m -> S]
        BY <2>4
    <2>7. Computes(g, base, m, step)
        BY <2>4, <2>5 DEF Computes
    <2> QED
        BY <2>2, <2>6, <2>7
<1>2. n \notin T
    <2> HIDE DEF T
    <2> QED
        BY <1>1
<1>3. \E f \in [0 .. n -> S] : Computes(f, base, n, step)
    BY <1>2
<1> QED
    BY <1>3

(* What decide() knows after each candidate: the best so far.              *)
Searches(scores, best) ==
    \A i \in 1 .. Len(scores) :
        best[i] = IF i = 1 \/ Less(scores[i], scores[best[i - 1]]) THEN i ELSE best[i - 1]

(* b is the first of the best of the first n candidates.                   *)
FirstBest(scores, n, b) ==
    /\ b \in 1 .. n
    /\ scores[b] # NaN =>
         \A j \in 1 .. n :
            /\ ~Less(scores[j], scores[b])
            /\ j < b => scores[j] # scores[b]

(* decide() ends with the last value of such a search.                     *)
LEMMA DecideSearches ==
    ASSUME NEW scores \in Seq(Int \cup {NaN}), scores # << >>
    PROVE  \E best : Searches(scores, best) /\ Decide(scores) = best[Len(scores)]
<1>1. PICK n \in Nat : n = Len(scores) /\ DOMAIN scores = 1 .. n
    OBVIOUS
<1> DEFINE step == [i \in 1 .. n |-> [b \in Nat |->
                      IF i = 1 \/ Less(scores[i], scores[b]) THEN i ELSE b]]
<1>2. step \in [1 .. n -> [Nat -> Nat]]
    OBVIOUS
<1>3. \A i \in 1 .. n : \A b \in Nat :
        step[i][b] = IF i = 1 \/ Less(scores[i], scores[b]) THEN i ELSE b
    OBVIOUS
<1> HIDE DEF step
<1>4. PICK f \in [0 .. n -> Nat] : f[0] = 0 /\ \A i \in 1 .. n : f[i] = step[i][f[i - 1]]
  <2>1. 0 \in Nat
      OBVIOUS
  <2>2. \E f \in [0 .. n -> Nat] : Computes(f, 0, n, step)
      BY <1>1, <1>2, <2>1, Recursion
  <2> QED
      BY <2>2 DEF Computes
<1> DEFINE Eq(g) == g = [i \in DOMAIN scores |->
                           IF i = 1 \/ Less(scores[i], scores[g[i - 1]]) THEN i ELSE g[i - 1]]
           g0 == [i \in DOMAIN scores |-> f[i]]
<1>5. Eq(g0)
  <2>1. \A i \in 1 .. n : i - 1 \in 0 .. n /\ f[i - 1] \in Nat /\ (i # 1 => i - 1 \in 1 .. n)
    <3>1. \A i \in 1 .. n : i - 1 \in 0 .. n /\ (i # 1 => i - 1 \in 1 .. n)
        BY <1>1
    <3>2. \A k \in 0 .. n : f[k] \in Nat
        BY <1>4
    <3> QED
        BY <3>1, <3>2
  <2>2. \A i \in 1 .. n : f[i] = IF i = 1 \/ Less(scores[i], scores[f[i - 1]]) THEN i ELSE f[i - 1]
      BY <1>3, <1>4, <2>1
  <2>3. ASSUME NEW i \in 1 .. n
        PROVE  f[i] = IF i = 1 \/ Less(scores[i], scores[g0[i - 1]]) THEN i ELSE g0[i - 1]
    <3>1. i # 1 => g0[i - 1] = f[i - 1]
        BY <1>1, <2>1
    <3> HIDE DEF g0
    <3> QED
        BY <3>1, <2>2
  <2> QED
      BY <1>1, <2>3
<1> DEFINE best == CHOOSE g : Eq(g)
<1>6. Eq(best)
    BY <1>5
<1>7. Decide(scores) = best[Len(scores)]
    BY DEF Decide
<1> HIDE DEF best
<1>8. Searches(scores, best)
    BY <1>1, <1>6 DEF Searches
<1> QED
    BY <1>7, <1>8

(* What min() returns, for scores that may be NaN.                         *)
LEMMA DecideFirstBest ==
    ASSUME NEW scores \in Seq(Int \cup {NaN}), scores # << >>
    PROVE  FirstBest(scores, Len(scores), Decide(scores))
<1>1. PICK best : Searches(scores, best) /\ Decide(scores) = best[Len(scores)]
    BY DecideSearches
<1>2. PICK n \in Nat : n = Len(scores) /\ n >= 1
    OBVIOUS
<1>3. \A i \in 1 .. n : scores[i] \in Int \cup {NaN}
    BY <1>2
<1> DEFINE T == { i \in 1 .. n : ~ FirstBest(scores, i, best[i]) }
<1>4. ASSUME T # {}
      PROVE  FALSE
  <2>1. T \in SUBSET Nat
      OBVIOUS
  <2>2. PICK i \in T : \A k \in T : i <= k
    <3> HIDE DEF T
    <3> QED
        BY <1>4, <2>1, Smallest
  <2>3. i \in 1 .. n /\ ~ FirstBest(scores, i, best[i])
      BY <2>2
  <2>4. best[i] = IF i = 1 \/ Less(scores[i], scores[best[i - 1]]) THEN i ELSE best[i - 1]
      BY <1>1, <1>2, <2>3 DEF Searches
  <2>5. CASE i = 1
      BY <2>3, <2>4, <2>5 DEF FirstBest, Less
  <2>6. CASE i # 1
    <3>1. PICK k : k = i - 1
        OBVIOUS
    <3>2. k \in 1 .. n /\ k \notin T /\ i = k + 1
        BY <2>2, <2>3, <2>6, <3>1
    <3>3. PICK b : b = best[k]
        OBVIOUS
    <3>4. FirstBest(scores, k, b)
        BY <3>2, <3>3
    <3>5. b \in 1 .. k /\ b \in 1 .. n
        BY <3>2, <3>4 DEF FirstBest
    <3>6. CASE Less(scores[i], scores[b])
      <4>1. best[i] = i
          BY <2>4, <3>1, <3>3, <3>6
      <4>2. scores[i] \in Int /\ scores[b] \in Int /\ scores[b] # NaN /\ scores[i] # NaN
            /\ scores[i] < scores[b]
          BY <1>3, <2>3, <3>5, <3>6 DEF Less
      <4>3. ASSUME NEW j \in 1 .. k
            PROVE  ~Less(scores[j], scores[i]) /\ scores[j] # scores[i]
        <5>1. ~Less(scores[j], scores[b])
            BY <3>4, <4>2 DEF FirstBest
        <5>2. scores[j] \in Int \cup {NaN}
            BY <1>3, <3>2
        <5> QED
            BY <4>2, <5>1, <5>2 DEF Less
      <4>4. \A j \in 1 .. i : j # i => j \in 1 .. k
          BY <3>2
      <4>5. ~Less(scores[i], scores[i])
          BY <4>2 DEF Less
      <4>6. FirstBest(scores, i, i)
          BY <2>3, <4>3, <4>4, <4>5 DEF FirstBest
      <4> QED
          BY <2>3, <4>1, <4>6
    <3>7. CASE ~Less(scores[i], scores[b])
      <4>1. best[i] = b
          BY <2>4, <2>6, <3>1, <3>3, <3>7
      <4>2. \A j \in 1 .. i : j # i => j \in 1 .. k
          BY <3>2
      <4>3. b \in 1 .. i /\ ~ (i < b)
          BY <3>2, <3>5
      <4>4. FirstBest(scores, i, b)
          BY <3>4, <3>7, <4>2, <4>3 DEF FirstBest
      <4> QED
          BY <2>3, <4>1, <4>4
    <3> QED
        BY <3>6, <3>7
  <2> QED
      BY <2>5, <2>6
<1>5. n \notin T
  <2> HIDE DEF T
  <2> QED
      BY <1>4
<1> QED
    BY <1>1, <1>2, <1>5

-----------------------------------------------------------------------------
(* Only an observation whose stored value is a number is in a transaction  *)
(* or in the file.                                                         *)
Scored(S) == \A r \in S : Score(r) # NaN
ScoredEverywhere == Scored(rows) /\ \A c \in Worker \cup Reader : Scored(local[c])

LEMMA ScoredStep == IInv /\ ScoredEverywhere /\ [Next]_vars => ScoredEverywhere'
<1> SUFFICES ASSUME IInv, ScoredEverywhere, [Next]_vars PROVE ScoredEverywhere'
    OBVIOUS
<1>1. local \in [Worker \cup Reader -> SUBSET Row]
    BY DEF IInv, TypeOK, Db!TypeOK
<1>2. ASSUME NEW a \in Worker, RecordInsert(a) PROVE ScoredEverywhere'
  <2>1. mode[a] = "txn"
      BY <1>2 DEF IInv, WorkerInv, RecordInsert
  <2>2. rows' = rows
      BY <1>2, <2>1 DEF RecordInsert, Db!InsertRow, Db!InsertRefused, file
  <2>3. \/ local' = local
        \/ local' = [local EXCEPT ![a] = @ \cup {doing[a]}] /\ Score(doing[a]) # NaN
      BY <1>2, <2>1 DEF RecordInsert, Db!InsertRow, Db!InsertRefused, file
  <2>4. \A c \in Worker \cup Reader :
          \/ local'[c] = local[c]
          \/ local'[c] = local[c] \cup {doing[a]} /\ Score(doing[a]) # NaN
      BY <1>1, <2>3
  <2> QED
      BY <2>2, <2>4 DEF ScoredEverywhere, Scored, Score
<1>3. ASSUME NEW a \in Worker, RecordEnd(a) PROVE ScoredEverywhere'
  <2>1. rows' = rows \/ rows' = rows \cup local[a]
      BY <1>3 DEF RecordEnd, Db!CommitTxn, Db!CommitBusy, Db!RollbackTxn
  <2>2. local' = local \/ local' = [local EXCEPT ![a] = {}]
      BY <1>3 DEF RecordEnd, Db!CommitTxn, Db!CommitBusy, Db!RollbackTxn, Db!Leave
  <2>3. \A c \in Worker \cup Reader : local'[c] = local[c] \/ local'[c] = {}
      BY <1>1, <2>2
  <2>4. Scored(rows')
      BY <2>1 DEF ScoredEverywhere, Scored
  <2> QED
      BY <2>3, <2>4 DEF ScoredEverywhere, Scored, Score
<1>4. ASSUME NEW a \in Worker,
             Construct(a) \/ RecordRaises(a) \/ (\E r \in Row : RecordBegin(a, r)) \/ ObservationCount(a)
               \/ Close(a) \/ Crash(a)
      PROVE  ScoredEverywhere'
  <2>1. rows' = rows /\ (local' = local \/ local' = [local EXCEPT ![a] = {}])
      BY <1>4 DEF Construct, RecordRaises, RecordBegin, ObservationCount, Close, Crash, Db!Connect,
             Db!BeginTxn, Db!ReadTable, Db!Disconnect, Db!Leave, file
  <2>2. \A c \in Worker \cup Reader : local'[c] = local[c] \/ local'[c] = {}
      BY <1>1, <2>1
  <2> QED
      BY <2>1, <2>2 DEF ScoredEverywhere, Scored, Score
<1>5. ASSUME NEW d \in Reader, StartReading(d) \/ StopReading(d)
      PROVE  ScoredEverywhere'
  <2>1. rows' = rows /\ (local' = local \/ local' = [local EXCEPT ![d] = {}])
      BY <1>5 DEF StartReading, StopReading, Db!RollbackTxn, Db!Leave
  <2>2. \A c \in Worker \cup Reader : local'[c] = local[c] \/ local'[c] = {}
      BY <1>1, <2>1
  <2> QED
      BY <2>1, <2>2 DEF ScoredEverywhere, Scored, Score
<1>6. CASE UNCHANGED vars
    BY <1>6 DEF vars, file, ScoredEverywhere, Scored, Score
<1> QED
    BY <1>2, <1>3, <1>4, <1>5, <1>6 DEF Next

(* Whatever the scores, NaN among them, the file holds first of the best   *)
(* candidates only: decide() is the search above, and the column's NOT     *)
(* NULL constraint refuses what it may get wrong.                          *)
THEOREM RecordsBest == Spec => []BestRecorded
<1>1. Init => ScoredEverywhere
    BY DEF Init, Db!Init, ScoredEverywhere, Scored
<1>2. IInv /\ ScoredEverywhere => BestRecorded
  <2> SUFFICES ASSUME IInv, ScoredEverywhere, NEW r \in rows, NEW i \in DOMAIN Scores[r]
               PROVE  /\ Score(r) # NaN /\ ~Less(Scores[r][i], Score(r))
                      /\ i < Decide(Scores[r]) => Scores[r][i] # Score(r)
      BY DEF BestRecorded
  <2>1. r \in Row /\ Score(r) # NaN
      BY DEF IInv, TypeOK, Db!TypeOK, ScoredEverywhere, Scored
  <2>2. PICK s : s = Scores[r]
      OBVIOUS
  <2>3. s \in Seq(Int \cup {NaN}) /\ s # << >>
      BY <2>1, <2>2, ScoresAssumption
  <2>4. FirstBest(s, Len(s), Decide(s)) /\ i \in 1 .. Len(s)
      BY <2>2, <2>3, DecideFirstBest
  <2> QED
      BY <2>1, <2>2, <2>4 DEF FirstBest, Score
<1> QED
    BY <1>1, <1>2, ScoredStep, Invariant, PTL DEF Spec
-----------------------------------------------------------------------------
(* A record that ends is a record of the shared log, or leaves no trace.   *)
Stuck == { a \in Worker : log[a] # << >> /\ log[a][Len(log[a])] \notin rows }

LEMMA RecordEndImplements ==
    ASSUME IInv, NEW a \in Worker, RecordEnd(a)
    PROVE  LogOf!Record(a, doing[a]) \/ UNCHANGED << rows, log, Stuck >>
<1> DEFINE r == doing[a]
<1>1. r \in Row /\ LogKept(a) /\ NameInv(a)
    BY RecordEndCases DEF IInv
<1>2. log \in [Worker -> Seq(Row)]
    BY DEF IInv, TypeOK
<1>3. /\ Append(log[a], r) # << >>
      /\ Append(log[a], r)[Len(Append(log[a], r))] = r
      /\ DOMAIN log[a] = 1 .. Len(log[a]) /\ Len(log[a]) \in Nat
    BY <1>1, <1>2, AppendFacts
<1>4. a \notin Stuck
  <2>1. log[a] # << >> => Len(log[a]) \in DOMAIN log[a]
      BY <1>2
  <2> QED
      BY <2>1, <1>1 DEF LogKept, Stuck
<1>5. LogOf!New(r)
    BY <1>1 DEF LogOf!New, NameInv, Acknowledged
<1>6. \A b \in Worker : log[b] # << >> => log[b][Len(log[b])] # r
  <2> SUFFICES ASSUME NEW b \in Worker, log[b] # << >>
               PROVE  log[b][Len(log[b])] \in Acknowledged(b)
      BY <1>1 DEF NameInv
  <2>1. Len(log[b]) \in DOMAIN log[b]
      BY <1>2
  <2> QED
      BY <2>1 DEF Acknowledged
<1>7. CASE log' = [log EXCEPT ![a] = Append(@, r)] /\ rows' = rows \cup {r}
  <2>1. log'[a] = Append(log[a], r) /\ \A b \in Worker \ {a} : log'[b] = log[b]
      BY <1>2, <1>7
  <2>2. Stuck' = Stuck
      BY <2>1, <1>3, <1>4, <1>6, <1>7 DEF Stuck
  <2> QED
      BY <2>2, <1>4, <1>5, <1>7 DEF LogOf!Record, Stuck
<1>8. CASE log' = [log EXCEPT ![a] = Append(@, r)] /\ rows' = rows
  <2>1. log'[a] = Append(log[a], r) /\ \A b \in Worker \ {a} : log'[b] = log[b]
      BY <1>2, <1>8
  <2>2. r \notin rows
      BY <1>1 DEF NameInv
  <2>3. Stuck' = Stuck \cup {a}
      BY <2>1, <2>2, <1>3, <1>8 DEF Stuck
  <2> QED
      BY <2>3, <1>4, <1>5, <1>8 DEF LogOf!Record, Stuck
<1>9. CASE UNCHANGED << log, rows >>
    BY <1>9 DEF Stuck
<1> QED
    BY RecordEndCases, <1>7, <1>8, <1>9

(* Every other step leaves the shared log as it is.                        *)
LEMMA OtherStepsStutter ==
    ASSUME IInv, [Next]_vars
    PROVE  \/ \E a \in Worker : RecordEnd(a)
           \/ UNCHANGED << rows, log >>
<1>1. ASSUME NEW a \in Worker, RecordInsert(a) PROVE UNCHANGED << rows, log >>
  <2>1. mode[a] = "txn"
      BY <1>1 DEF IInv, WorkerInv, RecordInsert
  <2> QED
      BY <1>1, <2>1 DEF RecordInsert, Db!InsertRow, Db!InsertRefused, file
<1>2. ASSUME NEW a \in Worker,
             Construct(a) \/ RecordRaises(a) \/ (\E r \in Row : RecordBegin(a, r)) \/ ObservationCount(a)
               \/ Close(a) \/ Crash(a)
      PROVE  UNCHANGED << rows, log >>
    BY <1>2 DEF Construct, RecordRaises, RecordBegin, ObservationCount, Close, Crash, Db!Connect,
           Db!BeginTxn, Db!ReadTable, Db!Disconnect, file
<1>3. ASSUME NEW d \in Reader, StartReading(d) \/ StopReading(d)
      PROVE  UNCHANGED << rows, log >>
    BY <1>3 DEF StartReading, StopReading, Db!RollbackTxn
<1>4. CASE UNCHANGED vars
    BY <1>4 DEF vars, file
<1> QED
    BY <1>1, <1>2, <1>3, <1>4 DEF Next

(* The agents implement the shared log.                                    *)
THEOREM AgentsImplementLog == Spec => LogSpec
<1>1. Init => LogOf!Init
    BY DEF Init, Db!Init, LogOf!Init
<1>2. IInv /\ [Next]_vars => [LogOf!Next]_LogOf!vars
  <2> SUFFICES ASSUME IInv, [Next]_vars PROVE [LogOf!Next]_LogOf!vars
      OBVIOUS
  <2>1. ASSUME NEW a \in Worker, RecordEnd(a) PROVE [LogOf!Next]_LogOf!vars
    <3>1. doing[a] \in Row
        BY <2>1, RecordEndCases
    <3>2. LogOf!Record(a, doing[a]) \/ UNCHANGED << rows, log, Stuck >>
        BY <2>1, RecordEndImplements
    <3>3. CASE LogOf!Record(a, doing[a])
        BY <3>1, <3>3 DEF LogOf!Next, LogOf!Record
    <3>4. CASE UNCHANGED << rows, log, Stuck >>
        BY <3>4 DEF LogOf!vars, Stuck
    <3> QED
        BY <3>2, <3>3, <3>4
  <2>2. CASE UNCHANGED << rows, log >>
    <3>1. Stuck' = Stuck
        BY <2>2 DEF Stuck
    <3> QED
        BY <2>2, <3>1 DEF LogOf!vars, Stuck
  <2> QED
      BY <2>1, <2>2, OtherStepsStutter
<1> QED
    BY <1>1, <1>2, Invariant, PTL DEF Spec, LogSpec, LogOf!Spec
=============================================================================
