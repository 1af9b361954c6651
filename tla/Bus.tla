-------------------------------- MODULE Bus --------------------------------
(***************************************************************************)
(* network/bus.py: InProcessBus with its optional FaultInjector.           *)
(*                                                                         *)
(* The state of the code is `inboxes` (a dict from registered endpoints to *)
(* lists of frames) and `pending` (one list of (recipient, frame) pairs    *)
(* shared by all recipients).  The n-th send carries message n; its wire   *)
(* encoding is the frame record of FaultInjector.  Calls that raise        *)
(* UnknownEndpointError and polls of an empty inbox change nothing and are *)
(* stuttering steps: send() and try_recv() are enabled for registered      *)
(* endpoints only.                                                         *)
(*                                                                         *)
(* `sends`, `flushes` and `received` are history: what was sent to whom    *)
(* and during which batch, and what try_recv returned.                     *)
(***************************************************************************)
EXTENDS FaultInjector, Functions, FiniteSets

CONSTANTS
    Endpoint,   \* agent ids, registered or not
    MaxSends,   \* bound: number of send() calls explored
    MaxBatch    \* bound: no send() that could make the batch longer

ASSUME BoundAssumption == MaxSends \in Nat /\ MaxBatch \in Nat

VARIABLES inboxes, pending, sends, flushes, received

vars == << inboxes, pending, sends, flushes, received >>

MsgId == 1 .. MaxSends
Sent == DOMAIN sends

(* inbox_count() and the properties read an absent inbox as an empty one.  *)
InboxOf(e) == IF e \in DOMAIN inboxes THEN inboxes[e] ELSE << >>

(* The frames of a batch that belong to one recipient: flush() goes through*)
(* the batch once and appends each entry's frame to its recipient's inbox. *)
FramesFor(batch, e) ==
    LET upTo[n \in 0 .. Len(batch)] ==
            IF n = 0 THEN << >>
            ELSE IF batch[n].to = e THEN Append(upTo[n - 1], batch[n].frame)
            ELSE upTo[n - 1]
    IN  upTo[Len(batch)]

TypeOK ==
    /\ DOMAIN inboxes \subseteq Endpoint
    /\ \A e \in DOMAIN inboxes : inboxes[e] \in Seq(Frames(MsgId))
    /\ pending \in Seq([to : DOMAIN inboxes, frame : Frames(MsgId)])
    /\ sends \in Seq([to : DOMAIN inboxes, batch : Nat])
    /\ flushes \in Nat
    /\ received \in [Endpoint -> Seq(Frames(MsgId))]

Init ==
    /\ inboxes = << >>
    /\ pending = << >>
    /\ sends = << >>
    /\ flushes = 0
    /\ received = [e \in Endpoint |-> << >>]

(* A bug: registering again clears the inbox.                              *)
Register_Clears(e) ==
    /\ inboxes' = [d \in DOMAIN inboxes \cup {e} |->
                     IF d = e THEN << >> ELSE InboxOf(d)]
    /\ UNCHANGED << pending, sends, flushes, received >>

(* register() is a setdefault: a second registration keeps the inbox.      *)
Register(e) ==
    /\ inboxes' = [d \in DOMAIN inboxes \cup {e} |-> InboxOf(d)]
    /\ UNCHANGED << pending, sends, flushes, received >>

Bounded == Len(sends) < MaxSends /\ Len(pending) + 2 <= MaxBatch

(* A bug: the recipient is not looked up.                                  *)
Send_Unchecked(e) ==
    /\ Bounded
    /\ \E frames \in Transmissions(Len(sends) + 1) :
         pending' = pending \o
              [i \in DOMAIN frames |-> [to |-> e, frame |-> frames[i]]]
    /\ sends' = Append(sends, [to |-> e, batch |-> flushes])
    /\ UNCHANGED << inboxes, flushes, received >>

(* A bug: a frame goes straight into the inbox, ahead of the batch.        *)
Send_SkipsBatch(e) ==
    /\ e \in DOMAIN inboxes
    /\ Bounded
    /\ \E frames \in Transmissions(Len(sends) + 1) :
         inboxes' = [inboxes EXCEPT ![e] = @ \o frames]
    /\ sends' = Append(sends, [to |-> e, batch |-> flushes])
    /\ UNCHANGED << pending, flushes, received >>

Send(e) ==
    /\ e \in DOMAIN inboxes
    /\ Bounded
    /\ LET id == Len(sends) + 1
       IN  \E frames \in Transmissions(id) :
             pending' = pending \o
                  [i \in DOMAIN frames |-> [to |-> e, frame |-> frames[i]]]
    /\ sends' = Append(sends, [to |-> e, batch |-> flushes])
    /\ UNCHANGED << inboxes, flushes, received >>

(* A bug: a batch is put in front of what is already in the inbox.         *)
Flush_Prepends ==
    /\ pending # << >>
    /\ \E batch \in ReorderBatch(pending) :
         inboxes' = [e \in DOMAIN inboxes |-> FramesFor(batch, e) \o inboxes[e]]
    /\ pending' = << >>
    /\ flushes' = flushes + 1
    /\ UNCHANGED << sends, received >>

Flush ==
    /\ pending # << >>
    /\ \E batch \in ReorderBatch(pending) :
         inboxes' = [e \in DOMAIN inboxes |-> inboxes[e] \o FramesFor(batch, e)]
    /\ pending' = << >>
    /\ flushes' = flushes + 1
    /\ UNCHANGED << sends, received >>

TryRecv(e) ==
    /\ e \in DOMAIN inboxes
    /\ inboxes[e] # << >>
    /\ received' = [received EXCEPT ![e] = Append(@, Head(inboxes[e]))]
    /\ inboxes' = [inboxes EXCEPT ![e] = Tail(@)]
    /\ UNCHANGED << pending, sends, flushes >>

Next ==
    \/ \E e \in Endpoint : Register(e) \/ Send(e) \/ TryRecv(e)
    \/ Flush

Spec == Init /\ [][Next]_vars
-----------------------------------------------------------------------------
(* Every frame still known to belong to e: first what try_recv returned,   *)
(* then the inbox, then the pending batch.                                 *)
Line(e) == received[e] \o InboxOf(e) \o FramesFor(pending, e)

CopiesAt(e, id) == { i \in DOMAIN Line(e) : Line(e)[i].msg = id }
CopiesOf(id) == UNION { { << e, i >> : i \in CopiesAt(e, id) } : e \in Endpoint }

(* With or without a reorder mode, a flush() is a barrier: a frame sent    *)
(* before a flush is never taken after one sent behind that flush.         *)
FlushIsBarrier ==
    \A e \in Endpoint : \A i, j \in DOMAIN Line(e) :
        i < j => sends[Line(e)[i].msg].batch <= sends[Line(e)[j].msg].batch

(* Nothing is lost, multiplied or misrouted beyond the faults configured:  *)
(* every message sent has all its copies at its addressee, at least one    *)
(* unless drops may happen, at most one unless duplicates may, and the     *)
(* copies are the same bytes: a duplicate of a corrupted frame is corrupt  *)
(* too.                                                                    *)
CopiesAccounted ==
    \A id \in Sent :
        /\ \A c \in CopiesOf(id) : c[1] = sends[id].to
        /\ Cardinality(CopiesOf(id)) \in 0 .. 2
        /\ Cardinality(CopiesOf(id)) = 0 => TRUE \in DropRoll
        /\ Cardinality(CopiesOf(id)) = 1 => FALSE \in DropRoll /\ FALSE \in DuplicateRoll
        /\ Cardinality(CopiesOf(id)) = 2 => FALSE \in DropRoll /\ TRUE \in DuplicateRoll
        /\ \A c, d \in CopiesOf(id) :
             Line(c[1])[c[2]].clean = Line(d[1])[d[2]].clean

(* Once send() has returned, no later call makes a copy of that message    *)
(* appear or vanish: registering, flushing and polling only move frames.   *)
CopiesConserved ==
    [][ \A id \in Sent : Cardinality(CopiesOf(id))' = Cardinality(CopiesOf(id)) ]_vars

(* The bus implements the mailbox its clients are written against.         *)
MailboxOf == INSTANCE Mailbox WITH
    Message <- MsgId,
    lane <- [e \in Endpoint |-> FramesFor(pending, e)],
    box <- [e \in Endpoint |-> InboxOf(e)]
MailboxSpec == MailboxOf!Spec
=============================================================================
