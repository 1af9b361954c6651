--------------------------- MODULE StorageProofs ---------------------------
(***************************************************************************)
(* Transactions are atomic and a TransactionHandle tells the truth, for any*)
(* number of connections, handles and rows and any isolation levels, on    *)
(* every connection where create_schema() is not called inside a           *)
(* transaction, whatever happens on the others.                            *)
(*                                                                         *)
(* HandleTruth is not inductive: that a failed commit() never lands later  *)
(* rests on who may still end the transaction (HandlesLive) and on what    *)
(* the open transactions hold (TxnFacts, RowsApart).                       *)
(***************************************************************************)
EXTENDS TypedStorage, TLAPS

TxnFact(c) ==
    LET h == current[c]
    IN  /\ mode[c] = "txn" =>
             /\ h \in Handle /\ conn[h] = c
             /\ local[c] = under[h]
             /\ under[h] \cap rows = {}
             /\ told[h] \in {"nothing", "failed"}
        /\ mode[c] # "txn" => local[c] = {}
TxnFacts == \A c \in Conn : TxnFact(c)

HandleFact(h) ==
    /\ ~consumed[h] => told[h] = "nothing"
    /\ conn[h] = None => ~consumed[h] /\ under[h] = {}
    /\ conn[h] # None => mode[conn[h]] # "unopened"
HandleFacts == \A h \in Handle : HandleFact(h)

RowsApart == \A h, g \in Handle : h # g => under[h] \cap under[g] = {}

IInv == TypeOK /\ HandleTruth /\ HandlesLive /\ TxnFacts /\ HandleFacts /\ RowsApart

-----------------------------------------------------------------------------
(* Before a file is opened, the invariant holds.                           *)
LEMMA InitInvariant == Init => IInv
BY DEF Init, Db!Init, IInv, TypeOK, Db!TypeOK, Db!Locks, HandleTruth, Atomic, ToldTruth, HandlesLive,
       TxnFacts, TxnFact, HandleFacts, HandleFact, RowsApart

(* begin_transaction(): the fresh handle is the handle of the transaction  *)
(* it opens, which is empty.                                               *)
LEMMA BeginStep ==
    ASSUME IInv, NEW c \in Conn, NEW h \in Handle, BeginTransaction(c, h)
    PROVE  IInv'
<1> USE DEF IInv
<1>1. /\ conn[h] = None /\ mode[c] = "auto"
      /\ mode' = [mode EXCEPT ![c] = "txn"] /\ rows' = rows /\ local' = local
      /\ conn' = [conn EXCEPT ![h] = c] /\ current' = [current EXCEPT ![c] = h]
      /\ consumed' = consumed /\ under' = under /\ told' = told
      /\ level' = level /\ upset' = upset
    BY DEF BeginTransaction, Db!BeginTxn
<1>2. lock' \in [Conn -> Db!Locks]
    BY DEF TypeOK, Db!TypeOK, BeginTransaction, Db!BeginTxn, Db!Locks
<1>3. TypeOK'
    BY <1>1, <1>2 DEF TypeOK, Db!TypeOK
<1>4. under[h] = {} /\ told[h] = "nothing" /\ local[c] = {}
    BY <1>1 DEF HandleFacts, HandleFact, TxnFacts, TxnFact
<1>5. HandleTruth'
    <2>1. \A k \in Handle : Atomic(k)' /\ (k # h => conn'[k] = conn[k])
        BY <1>1 DEF HandleTruth, Atomic, TypeOK
    <2>2. ToldTruth(h)'
        BY <1>1, <1>4 DEF ToldTruth
    <2> QED
        BY <1>1, <2>1, <2>2 DEF HandleTruth, ToldTruth
<1>6. HandlesLive'
    BY <1>1, NoneAssumption DEF HandlesLive, TypeOK, Db!TypeOK, NoneAssumption
<1>7. TxnFacts'
    <2>1. TxnFact(c)'
        BY <1>1, <1>4 DEF TxnFact, TypeOK, Db!TypeOK
    <2>2. ASSUME NEW d \in Conn, d # c
          PROVE  TxnFact(d)'
        <3>1. TxnFact(d)
            BY DEF TxnFacts
        <3>2. mode'[d] = mode[d] /\ current'[d] = current[d]
            BY <1>1, <2>2 DEF TypeOK, Db!TypeOK
        <3>3. mode[d] = "txn" => current[d] # h
            BY <1>1, <3>1, NoneAssumption DEF TxnFact, NoneAssumption
        <3> QED
            BY <1>1, <3>1, <3>2, <3>3 DEF TxnFact, TypeOK
    <2> QED
        BY <2>1, <2>2 DEF TxnFacts
<1>8. HandleFacts' /\ RowsApart'
    BY <1>1, <1>5, NoneAssumption DEF HandleFacts, HandleFact, RowsApart, TypeOK, Db!TypeOK, NoneAssumption
<1> QED
    BY <1>3, <1>5, <1>6, <1>7, <1>8

(* insert(): a new row joins the open transaction, or the file.            *)
LEMMA InsertStep ==
    ASSUME IInv, NEW c \in Conn, NEW r \in Row, Insert(c, r)
    PROVE  IInv'
<1> USE DEF IInv
<1>1. /\ r \notin rows /\ (\A h \in Handle : r \notin under[h])
      /\ mode' = mode
      /\ conn' = conn /\ current' = current /\ consumed' = consumed /\ told' = told
      /\ level' = level /\ upset' = upset
    BY DEF Insert, Db!InsertRow
<1>2. lock' \in [Conn -> Db!Locks]
    BY DEF TypeOK, Db!TypeOK, Insert, Db!InsertRow, Db!Reserve, Db!Locks
<1>3. CASE mode[c] = "txn"
    <2> DEFINE h == current[c]
    <2>1. /\ local' = [local EXCEPT ![c] = @ \cup {r}] /\ rows' = rows
          /\ under' = [under EXCEPT ![h] = @ \cup {r}]
        BY <1>3 DEF Insert, Db!InsertRow
    <2>2. h \in Handle /\ conn[h] = c /\ local[c] = under[h]
          /\ under[h] \cap rows = {} /\ told[h] \in {"nothing", "failed"}
        BY <1>3 DEF TxnFacts, TxnFact
    <2> HIDE DEF h
    <2>3. TypeOK'
        BY <1>1, <1>2, <2>1, <2>2 DEF TypeOK, Db!TypeOK
    <2>4. HandleTruth'
        BY <1>1, <2>1, <2>2 DEF HandleTruth, Atomic, ToldTruth, TypeOK
    <2>5. HandlesLive' /\ HandleFacts'
        BY <1>1, <2>1, <2>2, NoneAssumption DEF HandlesLive, HandleFacts, HandleFact, TypeOK, NoneAssumption
    <2>6. \A d \in Conn : d # c /\ mode[d] = "txn" => current[d] # h
        BY <2>2 DEF TxnFacts, TxnFact
    <2>7. TxnFacts'
        BY <1>1, <1>3, <2>1, <2>2, <2>6 DEF TxnFacts, TxnFact, TypeOK, Db!TypeOK, h
    <2>8. RowsApart'
        BY <1>1, <2>1, <2>2 DEF RowsApart, TypeOK
    <2> QED
        BY <2>3, <2>4, <2>5, <2>7, <2>8
<1>4. CASE mode[c] # "txn"
    <2>1. rows' = rows \cup {r} /\ local' = local /\ under' = under
        BY <1>4 DEF Insert, Db!InsertRow
    <2>2. TypeOK'
        BY <1>1, <1>2, <2>1 DEF TypeOK, Db!TypeOK
    <2>3. HandleTruth'
        BY <1>1, <2>1 DEF HandleTruth, Atomic, ToldTruth
    <2>4. HandlesLive' /\ HandleFacts' /\ TxnFacts' /\ RowsApart'
        BY <1>1, <2>1 DEF HandlesLive, HandleFacts, HandleFact, TxnFacts, TxnFact, RowsApart
    <2> QED
        BY <2>2, <2>3, <2>4
<1> QED
    BY <1>3, <1>4

(* The steps that move nothing but a lock, or open a connection.           *)
LEMMA LockStep ==
    ASSUME IInv, NEW c \in Conn,
           UNCHANGED << rows, local, handles >>,
           lock' \in [Conn -> Db!Locks],
           mode' = mode \/ (mode[c] = "unopened" /\ mode' = [mode EXCEPT ![c] = "auto"])
    PROVE  IInv'
<1> USE DEF IInv, handles
<1>1. TypeOK'
    BY DEF TypeOK, Db!TypeOK
<1>2. HandleTruth' /\ RowsApart'
    BY DEF HandleTruth, Atomic, ToldTruth, RowsApart
<1>3. HandlesLive' /\ HandleFacts' /\ TxnFacts'
    BY DEF HandlesLive, HandleFacts, HandleFact, TxnFacts, TxnFact, TypeOK, Db!TypeOK
<1> QED
    BY <1>1, <1>2, <1>3

(* The transaction a connection is in ends with nothing published, and its *)
(* handle is consumed or the connection closed.                            *)
LEMMA AbandonStep ==
    ASSUME IInv, NEW c \in Conn, NEW next \in {"auto", "closed"}, Db!Opened(c),
           Db!Leave(c, next), rows' = rows,
           UNCHANGED << level, conn, current, under, upset >>,
           \/ next = "closed" /\ UNCHANGED << consumed, told >>
           \/ \E h \in Handle :
                /\ conn[h] = c /\ ~consumed[h]
                /\ consumed' = [consumed EXCEPT ![h] = TRUE]
                /\ told' = [told EXCEPT ![h] = "rolledback"]
    PROVE  IInv'
<1> USE DEF IInv
<1>1. /\ mode[c] \in {"auto", "txn"}
      /\ mode' = [mode EXCEPT ![c] = next] /\ lock' = [lock EXCEPT ![c] = "none"]
      /\ local' = [local EXCEPT ![c] = {}]
    BY DEF Db!Leave, Db!Opened
<1>2. CASE next = "closed" /\ UNCHANGED << consumed, told >>
    <2>1. TypeOK'
        BY <1>1, <1>2 DEF TypeOK, Db!TypeOK, Db!Locks
    <2>2. HandleTruth' /\ RowsApart'
        BY <1>2 DEF HandleTruth, Atomic, ToldTruth, RowsApart
    <2>3. HandlesLive' /\ HandleFacts' /\ TxnFacts'
        BY <1>1, <1>2 DEF HandlesLive, HandleFacts, HandleFact, TxnFacts, TxnFact, TypeOK, Db!TypeOK
    <2> QED
        BY <2>1, <2>2, <2>3
<1>3. ASSUME NEW h \in Handle, conn[h] = c, ~consumed[h],
             consumed' = [consumed EXCEPT ![h] = TRUE],
             told' = [told EXCEPT ![h] = "rolledback"]
      PROVE  IInv'
    <2>1. TypeOK'
        BY <1>1, <1>3 DEF TypeOK, Db!TypeOK, Db!Locks
    <2>2. HandleTruth' /\ RowsApart'
        BY <1>3 DEF HandleTruth, Atomic, ToldTruth, RowsApart, HandleFacts, HandleFact, TypeOK
    <2>3. c \in upset \/ (mode[c] = "txn" /\ current[c] = h)
        BY <1>1, <1>3, NoneAssumption DEF HandlesLive, NoneAssumption
    <2>4. \A g \in Handle : g # h /\ conn[g] = c => consumed[g] \/ c \in upset
        BY <2>3, NoneAssumption DEF HandlesLive, NoneAssumption
    <2>5. HandlesLive'
        BY <1>1, <1>3, <2>4 DEF HandlesLive, TypeOK, Db!TypeOK
    <2>6. HandleFacts'
        BY <1>1, <1>3, NoneAssumption DEF HandleFacts, HandleFact, TypeOK, Db!TypeOK, NoneAssumption
    <2>7. TxnFacts'
        BY <1>1, <1>3, <2>3 DEF TxnFacts, TxnFact, TypeOK, Db!TypeOK
    <2> QED
        BY <2>1, <2>2, <2>5, <2>6, <2>7
<1> QED
    BY <1>2, <1>3

(* The transaction a connection is in ends with its rows published: those  *)
(* of one handle, of that connection, and of no other.                     *)
LEMMA Published ==
    ASSUME IInv, NEW c \in Conn, Db!CommitTxn(c), UNCHANGED << conn, current, under >>
    PROVE  /\ mode[c] \in {"auto", "txn"}
           /\ mode' = [mode EXCEPT ![c] = "auto"]
           /\ lock' \in [Conn -> Db!Locks] /\ local' = [local EXCEPT ![c] = {}]
           /\ rows' \subseteq Row /\ rows \subseteq rows'
           /\ \A h \in Handle : Atomic(h)'
           /\ \A h \in Handle : mode[c] = "txn" /\ current[c] = h => under[h] \subseteq rows'
           /\ \A h \in Handle : mode[c] # "txn" \/ current[c] # h => under[h] \cap rows' = under[h] \cap rows
           /\ \A h \in Handle : conn[h] # c => under[h] \cap rows' = under[h] \cap rows
<1> USE DEF IInv
<1>1. /\ mode[c] \in {"auto", "txn"} /\ rows' = rows \cup local[c]
      /\ mode' = [mode EXCEPT ![c] = "auto"] /\ lock' = [lock EXCEPT ![c] = "none"]
      /\ local' = [local EXCEPT ![c] = {}]
    BY DEF Db!CommitTxn, Db!MayCommit, Db!Leave
<1>2. lock' \in [Conn -> Db!Locks] /\ rows' \subseteq Row
    BY <1>1 DEF TypeOK, Db!TypeOK, Db!Locks
<1>3. CASE mode[c] # "txn"
    <2>1. rows' = rows
        BY <1>1, <1>3 DEF TxnFacts, TxnFact
    <2>2. \A h \in Handle : Atomic(h)'
        BY <2>1 DEF HandleTruth, Atomic
    <2> QED
        BY <1>1, <1>2, <1>3, <2>1, <2>2
<1>4. CASE mode[c] = "txn"
    <2>1. PICK g \in Handle : g = current[c] /\ conn[g] = c /\ local[c] = under[g]
        BY <1>4 DEF TxnFacts, TxnFact
    <2>2. \A h \in Handle : h # g => under[h] \cap rows' = under[h] \cap rows
        BY <1>1, <2>1 DEF RowsApart
    <2>3. \A h \in Handle : Atomic(h)'
        BY <1>1, <2>1, <2>2 DEF HandleTruth, Atomic
    <2> QED
        BY <1>1, <1>2, <1>4, <2>1, <2>2, <2>3
<1> QED
    BY <1>3, <1>4

(* commit(): all rows of the transaction are published and Ok is told, or  *)
(* none and Err.                                                           *)
LEMMA CommitStep ==
    ASSUME IInv, NEW h \in Handle, Commit(h)
    PROVE  IInv'
<1> USE DEF IInv
<1> DEFINE c == conn[h]
<1>1. /\ c # None /\ c \in Conn /\ ~consumed[h] /\ consumed' = [consumed EXCEPT ![h] = TRUE]
      /\ level' = level /\ conn' = conn /\ current' = current /\ under' = under /\ upset' = upset
    BY DEF Commit, MarkConsumed, TypeOK
<1>2. \/ mode[c] = "closed"
      \/ c \in upset
      \/ mode[c] = "txn" /\ current[c] = h
    BY <1>1 DEF HandlesLive
<1>3. \A g \in Handle : g # h /\ conn[g] = c => consumed[g] \/ c \in upset \/ mode[c] = "closed"
    BY <1>1, <1>2 DEF HandlesLive
<1>4. CASE Db!CommitTxn(conn[h]) /\ Told(h, "committed")
    <2>1. /\ mode[c] \in {"auto", "txn"}
          /\ mode' = [mode EXCEPT ![c] = "auto"]
          /\ lock' \in [Conn -> Db!Locks] /\ local' = [local EXCEPT ![c] = {}]
          /\ rows' \subseteq Row /\ rows \subseteq rows'
        BY <1>1, <1>4, Published
    <2>2. /\ \A k \in Handle : Atomic(k)'
          /\ mode[c] = "txn" /\ current[c] = h => under[h] \subseteq rows'
          /\ \A k \in Handle : mode[c] # "txn" \/ current[c] # k => under[k] \cap rows' = under[k] \cap rows
          /\ \A k \in Handle : conn[k] # c => under[k] \cap rows' = under[k] \cap rows
        BY <1>1, <1>4, Published
    <2>3. told' = [told EXCEPT ![h] = "committed"]
        BY <1>4 DEF Told
    <2>4. TypeOK'
        BY <1>1, <2>1, <2>3 DEF TypeOK, Db!TypeOK
    <2>5. ASSUME NEW k \in Handle, conn[k] \notin upset PROVE ToldTruth(k)'
        <3>1. conn[k] = c => mode[c] = "txn" /\ current[c] = h
            BY <1>2, <2>1, <2>5
        <3>2. ToldTruth(k)
            BY <2>5 DEF HandleTruth
        <3>3. CASE k = h
            BY <1>1, <2>2, <2>3, <3>1, <3>3 DEF ToldTruth, TypeOK
        <3>4. CASE k # h
            <4>1. under[k] \cap rows' = under[k] \cap rows
                BY <2>2, <3>1, <3>4
            <4> QED
                BY <1>1, <2>1, <2>3, <3>2, <3>4, <4>1 DEF ToldTruth, TypeOK
        <3> QED
            BY <3>3, <3>4
    <2>6. HandleTruth'
        BY <1>1, <2>2, <2>5 DEF HandleTruth
    <2>7. RowsApart'
        BY <1>1 DEF RowsApart
    <2>8. HandlesLive'
        BY <1>1, <1>3, <2>1 DEF HandlesLive, TypeOK, Db!TypeOK
    <2>9. HandleFacts'
        BY <1>1, <2>1, <2>3 DEF HandleFacts, HandleFact, TypeOK, Db!TypeOK
    <2>10. TxnFacts'
        BY <1>1, <2>1, <2>2, <2>3 DEF TxnFacts, TxnFact, TypeOK, Db!TypeOK
    <2> QED
        BY <2>4, <2>6, <2>7, <2>8, <2>9, <2>10
<1>5. ASSUME rows' = rows, mode' = mode, local' = local,
             lock' \in [Conn -> Db!Locks], Told(h, "failed")
      PROVE  IInv'
    <2>1. told' = [told EXCEPT ![h] = "failed"]
        BY <1>5 DEF Told
    <2>2. TypeOK'
        BY <1>1, <1>5, <2>1 DEF TypeOK, Db!TypeOK
    <2>3. HandleTruth' /\ RowsApart'
        BY <1>1, <1>5, <2>1 DEF HandleTruth, Atomic, ToldTruth, RowsApart, HandleFacts, HandleFact, TypeOK
    <2>4. HandlesLive' /\ HandleFacts' /\ TxnFacts'
        BY <1>1, <1>5, <2>1 DEF HandlesLive, HandleFacts, HandleFact, TxnFacts, TxnFact, TypeOK
    <2> QED
        BY <2>2, <2>3, <2>4
<1>6. CASE Db!CommitBusy(conn[h]) /\ Told(h, "failed")
    <2>1. rows' = rows /\ mode' = mode /\ local' = local /\ lock' \in [Conn -> Db!Locks]
        BY <1>1, <1>6 DEF Db!CommitBusy, TypeOK, Db!TypeOK, Db!Locks
    <2> QED
        BY <1>5, <1>6, <2>1
<1>7. CASE mode[conn[h]] = "closed" /\ Told(h, "failed") /\ UNCHANGED file
    <2>1. rows' = rows /\ mode' = mode /\ local' = local /\ lock' \in [Conn -> Db!Locks]
        BY <1>7 DEF file, TypeOK, Db!TypeOK
    <2> QED
        BY <1>5, <1>7, <2>1
<1> QED
    BY <1>4, <1>6, <1>7 DEF Commit

(* rollback(): none is published.                                          *)
LEMMA RollbackStep ==
    ASSUME IInv, NEW h \in Handle, Rollback(h)
    PROVE  IInv'
<1> USE DEF IInv
<1>1. /\ conn[h] \in Conn /\ conn[h] # None /\ ~consumed[h]
      /\ consumed' = [consumed EXCEPT ![h] = TRUE]
      /\ level' = level /\ conn' = conn /\ current' = current /\ under' = under /\ upset' = upset
    BY DEF Rollback, MarkConsumed, TypeOK
<1>2. CASE Db!RollbackTxn(conn[h]) /\ Told(h, "rolledback")
    <2>1. PICK c \in Conn : c = conn[h]
        BY <1>1
    <2>2. Db!Opened(c) /\ Db!Leave(c, "auto") /\ rows' = rows /\ told' = [told EXCEPT ![h] = "rolledback"]
        BY <1>2, <2>1 DEF Db!RollbackTxn, Told
    <2> QED
        BY <1>1, <2>1, <2>2, AbandonStep
<1>3. CASE mode[conn[h]] = "closed" /\ Told(h, "failed") /\ UNCHANGED file
    <2>1. /\ rows' = rows /\ mode' = mode /\ local' = local /\ lock' = lock
          /\ told' = [told EXCEPT ![h] = "failed"]
        BY <1>3 DEF file, Told
    <2>2. TypeOK'
        BY <1>1, <2>1 DEF TypeOK, Db!TypeOK
    <2>3. HandleTruth' /\ RowsApart'
        BY <1>1, <2>1 DEF HandleTruth, Atomic, ToldTruth, RowsApart, HandleFacts, HandleFact, TypeOK
    <2>4. HandlesLive' /\ HandleFacts' /\ TxnFacts'
        BY <1>1, <2>1 DEF HandlesLive, HandleFacts, HandleFact, TxnFacts, TxnFact, TypeOK
    <2> QED
        BY <2>2, <2>3, <2>4
<1> QED
    BY <1>2, <1>3 DEF Rollback

(* create_schema(): outside a transaction it commits nothing; inside one   *)
(* nothing is promised of the connection any more but that its             *)
(* transactions are atomic.                                                *)
LEMMA CreateSchemaStep ==
    ASSUME IInv, NEW c \in Conn, CreateSchema(c)
    PROVE  IInv'
<1> USE DEF IInv
<1>1. UNCHANGED << level, conn, consumed, current, under, told >>
    BY DEF CreateSchema
<1>2. CASE Db!CommitBusy(c) /\ UNCHANGED upset
    <2>1. UNCHANGED << rows, local, handles >> /\ mode' = mode /\ lock' \in [Conn -> Db!Locks]
        BY <1>1, <1>2 DEF Db!CommitBusy, handles, TypeOK, Db!TypeOK, Db!Locks
    <2> QED
        BY <2>1, LockStep
<1>3. CASE /\ Db!CommitTxn(c)
           /\ upset' = IF mode[c] = "txn" THEN upset \cup {c} ELSE upset
    <2>1. /\ mode[c] \in {"auto", "txn"}
          /\ mode' = [mode EXCEPT ![c] = "auto"]
          /\ lock' \in [Conn -> Db!Locks] /\ local' = [local EXCEPT ![c] = {}]
          /\ rows' \subseteq Row /\ rows \subseteq rows'
        BY <1>1, <1>3, Published
    <2>2. /\ \A h \in Handle : Atomic(h)'
          /\ \A h \in Handle : mode[c] # "txn" \/ current[c] # h => under[h] \cap rows' = under[h] \cap rows
          /\ \A h \in Handle : conn[h] # c => under[h] \cap rows' = under[h] \cap rows
        BY <1>1, <1>3, Published
    <2>3. TypeOK'
        BY <1>1, <1>3, <2>1 DEF TypeOK, Db!TypeOK
    <2>4. ASSUME NEW h \in Handle, conn[h] \notin upset' PROVE ToldTruth(h)'
        <3>1. under[h] \cap rows' = under[h] \cap rows
            BY <1>3, <2>2, <2>4
        <3>2. ToldTruth(h)
            BY <1>3, <2>4 DEF HandleTruth
        <3> QED
            BY <1>1, <2>1, <3>1, <3>2 DEF ToldTruth
    <2>5. HandleTruth'
        BY <1>1, <2>2, <2>4 DEF HandleTruth
    <2>6. RowsApart' /\ HandleFacts'
        BY <1>1, <2>1 DEF RowsApart, HandleFacts, HandleFact, TypeOK, Db!TypeOK
    <2>7. HandlesLive'
        BY <1>1, <1>3, <2>1, NoneAssumption DEF HandlesLive, TypeOK, Db!TypeOK, NoneAssumption
    <2>8. TxnFacts'
        BY <1>1, <2>1, <2>2 DEF TxnFacts, TxnFact, TypeOK, Db!TypeOK
    <2> QED
        BY <2>3, <2>5, <2>6, <2>7, <2>8
<1> QED
    BY <1>2, <1>3 DEF CreateSchema

(* No step breaks the invariant.                                           *)
LEMMA NextInvariant == IInv /\ [Next]_vars => IInv'
<1> SUFFICES ASSUME IInv, [Next]_vars PROVE IInv'
    OBVIOUS
<1>1. ASSUME NEW c \in Conn, OpenDatabase(c) PROVE IInv'
    <2>1. /\ UNCHANGED << rows, local, handles >> /\ lock' \in [Conn -> Db!Locks]
          /\ mode[c] = "unopened" /\ mode' = [mode EXCEPT ![c] = "auto"]
        BY <1>1 DEF OpenDatabase, Db!Connect, IInv, TypeOK, Db!TypeOK
    <2> QED
        BY <2>1, LockStep
<1>2. ASSUME NEW c \in Conn, CloseConnection(c) PROVE IInv'
    <2>1. Db!Opened(c) /\ Db!Leave(c, "closed") /\ rows' = rows
        BY <1>2 DEF CloseConnection, Db!Disconnect
    <2>2. UNCHANGED << level, conn, current, under, upset >> /\ UNCHANGED << consumed, told >>
        BY <1>2 DEF CloseConnection, handles
    <2> QED
        BY <2>1, <2>2, AbandonStep
<1>3. ASSUME NEW c \in Conn, CreateSchema(c) PROVE IInv'
    BY <1>3, CreateSchemaStep
<1>4. ASSUME NEW c \in Conn, Select(c) \/ InsertRefused(c) PROVE IInv'
    <2>1. /\ UNCHANGED << rows, local, handles >> /\ mode' = mode
          /\ lock' \in [Conn -> Db!Locks]
        BY <1>4 DEF Select, InsertRefused, Db!ReadTable, Db!InsertRefused, Db!Reserve,
                    IInv, TypeOK, Db!TypeOK, Db!Locks
    <2> QED
        BY <2>1, LockStep
<1>5. ASSUME UNCHANGED vars PROVE IInv'
    BY <1>5 DEF vars, file, handles, IInv, TypeOK, Db!TypeOK, HandleTruth, Atomic, ToldTruth, HandlesLive,
                TxnFacts, TxnFact, HandleFacts, HandleFact, RowsApart
<1> QED
    BY <1>1, <1>2, <1>3, <1>4, <1>5, BeginStep, InsertStep, CommitStep, RollbackStep DEF Next

-----------------------------------------------------------------------------
(* The file, the handles and what they were told stay within their types.  *)
THEOREM TypeCorrect == Spec => []TypeOK
<1>1. Init => IInv
    BY InitInvariant
<1>2. IInv /\ [Next]_vars => IInv'
    BY NextInvariant
<1>3. IInv => TypeOK
    BY DEF IInv
<1> QED
    BY <1>1, <1>2, <1>3, PTL DEF Spec

(* Transactions are atomic, and the rows of a handle are in the file       *)
(* exactly if its commit() said so, on the connections that                *)
(* create_schema() has not upset.                                          *)
THEOREM HandlesTellTruth == Spec => []HandleTruth
<1>1. Init => IInv
    BY InitInvariant
<1>2. IInv /\ [Next]_vars => IInv'
    BY NextInvariant
<1>3. IInv => HandleTruth
    BY DEF IInv
<1> QED
    BY <1>1, <1>2, <1>3, PTL DEF Spec

(* An unused handle is the handle of an open transaction, unless the       *)
(* connection was closed or upset.                                         *)
THEOREM HandlesStayLive == Spec => []HandlesLive
<1>1. Init => IInv
    BY InitInvariant
<1>2. IInv /\ [Next]_vars => IInv'
    BY NextInvariant
<1>3. IInv => HandlesLive
    BY DEF IInv
<1> QED
    BY <1>1, <1>2, <1>3, PTL DEF Spec

(* A transaction is ended by an unused handle of its own connection, and   *)
(* by the one of its own BEGIN unless the connection is upset; or by       *)
(* create_schema(), which then has upset it.                               *)
ByCreateSchema(c) == c \in upset' /\ consumed' = consumed /\ rows' = rows \cup local[c]

ByHandle(c) ==
    \E h \in Handle : /\ conn[h] = c /\ ~consumed[h]
                      /\ consumed' = [consumed EXCEPT ![h] = TRUE]
                      /\ c \notin upset' => h = current[c]

LEMMA OwnHandleEnds ==
    ASSUME IInv, [Next]_vars
    PROVE  EndByOwnHandle
<1> SUFFICES ASSUME NEW c \in Conn, mode[c] = "txn", mode'[c] = "auto"
             PROVE  ByCreateSchema(c) \/ ByHandle(c)
    BY DEF EndByOwnHandle, ByCreateSchema, ByHandle
<1>1. mode \in [Conn -> {"unopened", "auto", "txn", "closed"}]
    BY DEF IInv, TypeOK, Db!TypeOK
<1>2. ASSUME NEW h \in Handle, Commit(h) \/ Rollback(h)
      PROVE  ByHandle(c)
  <2>1. /\ conn[h] # None /\ ~consumed[h]
        /\ consumed' = [consumed EXCEPT ![h] = TRUE]
      BY <1>2 DEF Commit, Rollback, MarkConsumed
  <2>2. mode' = mode \/ mode' = [mode EXCEPT ![conn[h]] = "auto"]
      BY <1>2 DEF Commit, Rollback, Db!CommitTxn, Db!CommitBusy, Db!RollbackTxn, Db!Leave, file
  <2>3. conn[h] = c
      BY <1>1, <2>2
  <2>4. c \notin upset' => h = current[c]
    <3>1. upset' = upset
        BY <1>2 DEF Commit, Rollback
    <3> QED
        BY <2>1, <2>3, <3>1 DEF IInv, HandlesLive
  <2> QED
      BY <2>1, <2>3, <2>4 DEF ByHandle
<1>3. ASSUME NEW d \in Conn, OpenDatabase(d) PROVE FALSE
    BY <1>1, <1>3 DEF OpenDatabase, Db!Connect
<1>4. ASSUME NEW d \in Conn, CloseConnection(d) PROVE FALSE
    BY <1>1, <1>4 DEF CloseConnection, Db!Disconnect, Db!Leave
<1>5. ASSUME NEW d \in Conn, CreateSchema(d) PROVE ByCreateSchema(c)
  <2>1. Db!CommitTxn(d) /\ upset' = IF mode[d] = "txn" THEN upset \cup {d} ELSE upset
      BY <1>1, <1>5 DEF CreateSchema, Db!CommitBusy
  <2>2. d = c
      BY <1>1, <2>1 DEF Db!CommitTxn, Db!Leave
  <2>3. consumed' = consumed
      BY <1>5 DEF CreateSchema
  <2> QED
      BY <2>1, <2>2, <2>3 DEF ByCreateSchema, Db!CommitTxn
<1>6. ASSUME NEW d \in Conn, Select(d) \/ InsertRefused(d) PROVE FALSE
    BY <1>1, <1>6 DEF Select, InsertRefused, Db!ReadTable, Db!InsertRefused
<1>7. ASSUME NEW d \in Conn, NEW h \in Handle, BeginTransaction(d, h) PROVE FALSE
    BY <1>1, <1>7 DEF BeginTransaction, Db!BeginTxn
<1>8. ASSUME NEW d \in Conn, NEW r \in Row, Insert(d, r) PROVE FALSE
    BY <1>1, <1>8 DEF Insert, Db!InsertRow
<1>9. ASSUME UNCHANGED vars PROVE FALSE
    BY <1>9 DEF vars, file
<1> QED
    BY <1>2, <1>3, <1>4, <1>5, <1>6, <1>7, <1>8, <1>9 DEF Next

(* So no used handle, and none of another connection, ends a transaction;  *)
(* and nothing but its own does where create_schema() has not upset it.    *)
THEOREM TransactionsEndByOwnHandle == Spec => EndedByOwnHandle
<1>1. Init => IInv
    BY InitInvariant
<1>2. IInv /\ [Next]_vars => IInv'
    BY NextInvariant
<1>3. IInv /\ [Next]_vars => [EndByOwnHandle]_vars
    BY OwnHandleEnds
<1> QED
    BY <1>1, <1>2, <1>3, PTL DEF Spec, EndedByOwnHandle
-----------------------------------------------------------------------------
(* That the table keeps to its declaration is not inductive either: the    *)
(* constraints are tried against the rows a connection sees, and what it   *)
(* then inserts is committed later.  Nothing comes in between, because a   *)
(* transaction that has inserted anything holds a lock that no two have.   *)
WriteLocks == {"reserved", "pending", "exclusive"}
LockFacts ==
    /\ \A c, d \in Conn : lock[c] \in WriteLocks /\ lock[d] \in WriteLocks => c = d
    /\ \A c \in Conn : local[c] # {} => lock[c] \in WriteLocks

Constrained(S) ==
    \A i \in DOMAIN Table.columns :
        LET column == Table.columns[i]
        IN  /\ \A row \in S :
                 /\ column.primary_key /\ column.sql_type = "INTEGER" => row[column.name] # Null
                 /\ ~column.primary_key /\ ~column.nullable => row[column.name] # Null
            /\ column.primary_key =>
                 \A q, row \in S : q[column.name] # Null /\ q[column.name] = row[column.name] => q = row

TableFacts ==
    /\ LockFacts
    /\ Constrained(rows)
    /\ \A c \in Conn : Constrained(rows \cup local[c])

(* A row the constraints admit breaks none of them.                        *)
LEMMA AdmittedConstrained ==
    ASSUME NEW S \in SUBSET Row, NEW r \in Row, Constrained(S), Admitted(S, r)
    PROVE  Constrained(S \cup {r})
<1>1. Admits(ToDdl(Table), S, r)
    BY AdmittedAssumption
<1> SUFFICES ASSUME NEW i \in DOMAIN Table.columns, NEW column, column = Table.columns[i]
             PROVE  /\ \A row \in S \cup {r} :
                         /\ column.primary_key /\ column.sql_type = "INTEGER" => row[column.name] # Null
                         /\ ~column.primary_key /\ ~column.nullable => row[column.name] # Null
                    /\ column.primary_key =>
                         \A q, row \in S \cup {r} :
                            q[column.name] # Null /\ q[column.name] = row[column.name] => q = row
    BY DEF Constrained
<1>2. column \in Column
    BY TableAssumption DEF TableAssumption, TableSchema
<1>3. i \in DOMAIN ToDdl(Table) /\ ToDdl(Table)[i] = ToDdlFragment(column)
    BY DEF ToDdl
<1>4. PICK fragment : fragment = ToDdlFragment(column)
    OBVIOUS
<1>5. /\ fragment.name = column.name /\ fragment.sql_type = column.sql_type
      /\ column.primary_key => fragment.constraint = "PRIMARY KEY"
      /\ ~column.primary_key /\ ~column.nullable => fragment.constraint = "NOT NULL"
    BY <1>2, <1>4 DEF ToDdlFragment, Column
<1>6. /\ fragment.constraint = "NOT NULL" => r[fragment.name] # Null
      /\ fragment.constraint = "PRIMARY KEY" =>
           /\ fragment.sql_type = "INTEGER" => r[fragment.name] # Null
           /\ \A q \in S : q[fragment.name] # Null => q[fragment.name] # r[fragment.name]
    BY <1>1, <1>3, <1>4 DEF Admits
<1>7. /\ \A row \in S :
           /\ column.primary_key /\ column.sql_type = "INTEGER" => row[column.name] # Null
           /\ ~column.primary_key /\ ~column.nullable => row[column.name] # Null
      /\ column.primary_key =>
           \A q, row \in S : q[column.name] # Null /\ q[column.name] = row[column.name] => q = row
    BY DEF Constrained
<1> QED
    BY <1>5, <1>6, <1>7

(* A call that at most changes the lock of one connection.                 *)
LEMMA LockTaken ==
    ASSUME IInv, TableFacts, NEW c \in Conn, UNCHANGED << rows, local >>,
           \/ lock' = lock
           \/ \E new : /\ lock' = [lock EXCEPT ![c] = new]
                       /\ new \in WriteLocks => Db!MayWrite(c) \/ lock[c] \in WriteLocks
                       /\ new \notin WriteLocks => local[c] = {}
    PROVE  TableFacts'
<1>1. LockFacts'
  <2>1. CASE lock' = lock
      BY <2>1 DEF TableFacts, LockFacts
  <2>2. CASE lock' # lock
    <3>1. PICK new : /\ lock' = [lock EXCEPT ![c] = new]
                     /\ new \in WriteLocks => Db!MayWrite(c) \/ lock[c] \in WriteLocks
                     /\ new \notin WriteLocks => local[c] = {}
        BY <2>2
    <3>2. lock'[c] = new /\ \A d \in Conn : d # c => lock'[d] = lock[d]
        BY <3>1 DEF IInv, TypeOK, Db!TypeOK
    <3>3. new \in WriteLocks => \A d \in Conn : d # c => lock[d] \notin WriteLocks
        BY <3>1 DEF TableFacts, LockFacts, Db!MayWrite, Db!OthersHold, WriteLocks
    <3> QED
        BY <3>1, <3>2, <3>3 DEF TableFacts, LockFacts
  <2> QED
      BY <2>1, <2>2
<1> QED
    BY <1>1 DEF TableFacts

(* The end of a transaction, whose rows are published or dropped.          *)
LEMMA TransactionEnds ==
    ASSUME IInv, TableFacts, NEW c \in Conn, NEW next, Db!Leave(c, next),
           rows' = rows \/ rows' = rows \cup local[c]
    PROVE  TableFacts'
<1>1. /\ lock'[c] = "none" /\ local'[c] = {}
      /\ \A d \in Conn : d # c => lock'[d] = lock[d] /\ local'[d] = local[d]
    BY DEF Db!Leave, IInv, TypeOK, Db!TypeOK
<1>2. LockFacts'
    BY <1>1 DEF TableFacts, LockFacts, WriteLocks
<1>3. Constrained(rows')
    BY DEF TableFacts
<1>4. ASSUME NEW d \in Conn
      PROVE  Constrained(rows' \cup local'[d])
  <2>1. CASE d = c
    <3>1. rows' \cup local'[d] = rows'
        BY <1>1, <2>1
    <3> QED
        BY <1>3, <3>1
  <2>2. CASE d # c
    <3>1. local[c] = {} \/ local[d] = {}
        BY <2>2 DEF TableFacts, LockFacts
    <3>2. \/ rows' \cup local'[d] = rows \cup local[d]
          \/ rows' \cup local'[d] = rows \cup local[c]
        BY <1>1, <2>2, <3>1
    <3> QED
        BY <3>2 DEF TableFacts
  <2> QED
      BY <2>1, <2>2
<1> QED
    BY <1>2, <1>3, <1>4 DEF TableFacts, Constrained

(* insert(): a row the constraints admit, in a transaction or by itself.   *)
LEMMA InsertConstrained ==
    ASSUME IInv, TableFacts, NEW c \in Conn, NEW r \in Row, Insert(c, r)
    PROVE  TableFacts'
<1>1. PICK seen : seen = rows \cup local[c]
    OBVIOUS
<1>2. Constrained(seen \cup {r})
  <2>1. seen \in SUBSET Row
      BY <1>1 DEF IInv, TypeOK, Db!TypeOK
  <2>2. Constrained(seen) /\ Admitted(seen, r)
      BY <1>1 DEF TableFacts, Insert
  <2> QED
      BY <2>1, <2>2, AdmittedConstrained
<1>3. CASE mode[c] = "txn"
  <2>1. /\ Db!MayWrite(c) /\ rows' = rows /\ Db!Reserve(c)
        /\ local' = [local EXCEPT ![c] = @ \cup {r}]
      BY <1>3 DEF Insert, Db!InsertRow
  <2>2. /\ local'[c] = local[c] \cup {r}
        /\ \A d \in Conn : d # c => local'[d] = local[d]
      BY <2>1 DEF IInv, TypeOK, Db!TypeOK
  <2>3. /\ lock'[c] \in WriteLocks
        /\ \A d \in Conn : d # c => lock'[d] = lock[d]
      BY <1>3, <2>1 DEF Db!Reserve, Db!Locks, WriteLocks, IInv, TypeOK, Db!TypeOK
  <2>4. \A d \in Conn : d # c => lock[d] \notin WriteLocks
      BY <2>1 DEF Db!MayWrite, Db!OthersHold, WriteLocks
  <2>5. LockFacts'
      BY <2>2, <2>3, <2>4 DEF TableFacts, LockFacts
  <2>6. rows' \cup local'[c] = seen \cup {r}
      BY <1>1, <2>1, <2>2
  <2>7. \A d \in Conn : Constrained(rows' \cup local'[d])
      BY <1>2, <2>1, <2>2, <2>6 DEF TableFacts
  <2> QED
      BY <2>1, <2>5, <2>7 DEF TableFacts, Constrained
<1>4. CASE mode[c] # "txn"
  <2>1. Db!MayPublish(c) /\ rows' = rows \cup {r} /\ UNCHANGED << local, lock >>
      BY <1>4 DEF Insert, Db!InsertRow
  <2>2. \A d \in Conn : local[d] = {}
    <3>1. local[c] = {}
        BY <1>4 DEF IInv, TxnFacts, TxnFact
    <3>2. \A d \in Conn : d # c => lock[d] \notin WriteLocks
        BY <2>1 DEF Db!MayPublish, Db!OthersHold, WriteLocks
    <3> QED
        BY <3>1, <3>2 DEF TableFacts, LockFacts
  <2>3. rows' = seen \cup {r} /\ \A d \in Conn : rows' \cup local'[d] = rows'
      BY <1>1, <2>1, <2>2
  <2>4. LockFacts'
      BY <2>1 DEF TableFacts, LockFacts
  <2>5. \A d \in Conn : Constrained(rows' \cup local'[d])
      BY <1>2, <2>3
  <2> QED
      BY <1>2, <2>3, <2>4, <2>5 DEF TableFacts, Constrained
<1> QED
    BY <1>3, <1>4

LEMMA TableStep == IInv /\ TableFacts /\ [Next]_vars => TableFacts'
<1> SUFFICES ASSUME IInv, TableFacts, [Next]_vars PROVE TableFacts'
    OBVIOUS
<1>1. ASSUME NEW c \in Conn, OpenDatabase(c) PROVE TableFacts'
  <2>1. UNCHANGED << rows, local, lock >>
      BY <1>1 DEF OpenDatabase, Db!Connect
  <2> QED
      BY <2>1, LockTaken
<1>2. ASSUME NEW c \in Conn, CloseConnection(c) PROVE TableFacts'
  <2>1. Db!Leave(c, "closed") /\ rows' = rows
      BY <1>2 DEF CloseConnection, Db!Disconnect
  <2> QED
      BY <2>1, TransactionEnds
<1>3. ASSUME NEW c \in Conn, NEW h \in Handle, BeginTransaction(c, h) PROVE TableFacts'
  <2>1. /\ UNCHANGED << rows, local >> /\ mode[c] = "auto" /\ level[c] \in Isolation
        /\ level[c] \in {"immediate", "exclusive"} => Db!MayWrite(c)
      BY <1>3 DEF BeginTransaction, Db!BeginTxn, Db!MayPublish, Db!MayWrite, Db!OthersHold, IInv, TypeOK
  <2>2. PICK new : /\ lock' = [lock EXCEPT ![c] = new]
                   /\ level[c] \notin {"immediate", "exclusive"} => new = "none"
      BY <1>3 DEF BeginTransaction, Db!BeginTxn
  <2>3. local[c] = {}
      BY <2>1 DEF IInv, TxnFacts, TxnFact
  <2>4. new \in WriteLocks => Db!MayWrite(c) \/ lock[c] \in WriteLocks
      BY <2>1, <2>2 DEF WriteLocks
  <2> QED
      BY <2>1, <2>2, <2>3, <2>4, LockTaken
<1>4. ASSUME NEW c \in Conn, Db!CommitTxn(c) PROVE TableFacts'
  <2>1. Db!Leave(c, "auto") /\ rows' = rows \cup local[c]
      BY <1>4 DEF Db!CommitTxn
  <2> QED
      BY <2>1, TransactionEnds
<1>5. ASSUME NEW c \in Conn, Db!CommitBusy(c) PROVE TableFacts'
  <2>1. /\ UNCHANGED << rows, local >> /\ lock' = [lock EXCEPT ![c] = "pending"]
        /\ mode[c] = "txn" /\ lock[c] \notin {"none", "shared"}
      BY <1>5 DEF Db!CommitBusy, Db!MayCommit
  <2>2. lock[c] \in WriteLocks /\ "pending" \in WriteLocks
      BY <2>1 DEF IInv, TypeOK, Db!TypeOK, Db!Locks, WriteLocks
  <2> QED
      BY <2>1, <2>2, LockTaken
<1>6. ASSUME NEW c \in Conn, Db!RollbackTxn(c) PROVE TableFacts'
  <2>1. Db!Leave(c, "auto") /\ rows' = rows
      BY <1>6 DEF Db!RollbackTxn
  <2> QED
      BY <2>1, TransactionEnds
<1>7. ASSUME NEW c \in Conn, Select(c) PROVE TableFacts'
  <2>1. /\ UNCHANGED << rows, local >>
        /\ lock' = lock \/ (lock[c] = "none" /\ lock' = [lock EXCEPT ![c] = "shared"])
      BY <1>7 DEF Select, Db!ReadTable
  <2>2. "shared" \notin WriteLocks /\ "none" \notin WriteLocks
      BY DEF WriteLocks
  <2>3. lock[c] = "none" => local[c] = {}
      BY <2>2 DEF TableFacts, LockFacts
  <2> QED
      BY <2>1, <2>2, <2>3, LockTaken
<1>8. ASSUME NEW c \in Conn, InsertRefused(c) PROVE TableFacts'
  <2>1. /\ UNCHANGED << rows, local >> /\ Db!MayWrite(c)
        /\ lock' = lock \/ lock' = [lock EXCEPT ![c] = "reserved"]
      BY <1>8 DEF InsertRefused, Db!InsertRefused, Db!Reserve
  <2>2. "reserved" \in WriteLocks
      BY DEF WriteLocks
  <2> QED
      BY <2>1, <2>2, LockTaken
<1>9. ASSUME NEW c \in Conn, CreateSchema(c) PROVE TableFacts'
    BY <1>4, <1>5, <1>9 DEF CreateSchema
<1>10. ASSUME NEW h \in Handle, Commit(h) \/ Rollback(h) PROVE TableFacts'
  <2>1. conn[h] \in Conn
      BY <1>10 DEF Commit, Rollback, MarkConsumed, IInv, TypeOK
  <2>2. \/ Db!CommitTxn(conn[h]) \/ Db!CommitBusy(conn[h]) \/ Db!RollbackTxn(conn[h])
        \/ UNCHANGED file
      BY <1>10 DEF Commit, Rollback
  <2>3. CASE UNCHANGED file
      BY <2>3 DEF file, TableFacts, LockFacts, Constrained
  <2> QED
      BY <1>4, <1>5, <1>6, <2>1, <2>2, <2>3
<1>11. ASSUME NEW c \in Conn, NEW r \in Row, Insert(c, r) PROVE TableFacts'
    BY <1>11, InsertConstrained
<1>12. CASE UNCHANGED vars
    BY <1>12 DEF vars, file, TableFacts, LockFacts, Constrained
<1> QED
    BY <1>1, <1>2, <1>3, <1>7, <1>8, <1>9, <1>10, <1>11, <1>12 DEF Next

(* The committed table is what its columns were declared to be, for any    *)
(* table, any number of connections and any isolation levels.              *)
THEOREM TableKeepsDeclaration == Spec => []TableAsDeclared
<1>1. Init => IInv /\ TableFacts
  <2> SUFFICES ASSUME Init PROVE IInv /\ TableFacts
      OBVIOUS
  <2>1. rows = {} /\ \A c \in Conn : local[c] = {} /\ lock[c] = "none"
      BY DEF Init, Db!Init
  <2>2. LockFacts
      BY <2>1 DEF LockFacts, WriteLocks
  <2>3. \A c \in Conn : Constrained(rows \cup local[c])
      BY <2>1 DEF Constrained
  <2>4. Constrained(rows)
      BY <2>1 DEF Constrained
  <2> QED
      BY <2>2, <2>3, <2>4, InitInvariant DEF TableFacts
<1>2. IInv /\ TableFacts /\ [Next]_vars => (IInv /\ TableFacts)'
    BY NextInvariant, TableStep
<1>3. TableFacts => TableAsDeclared
  <2> SUFFICES ASSUME TableFacts, NEW row \in rows, NEW i \in DOMAIN Table.columns,
                      NEW column, column = Table.columns[i]
               PROVE  /\ column.primary_key /\ column.sql_type = "INTEGER" => row[column.name] # Null
                      /\ ~column.primary_key /\ ~column.nullable => row[column.name] # Null
                      /\ column.primary_key /\ row[column.name] # Null =>
                           GetOne(Table, rows, column.name, row[column.name]) = {row}
      BY DEF TableAsDeclared
  <2>1. column.name \in ColumnNames(Table)
      BY DEF ColumnNames
  <2>2. Constrained(rows)
      BY DEF TableFacts
  <2> QED
      BY <2>1, <2>2 DEF Constrained, GetOne, SelectBy
<1> QED
    BY <1>1, <1>2, <1>3, PTL DEF Spec
=============================================================================
