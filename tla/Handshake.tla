----------------------------- MODULE Handshake -----------------------------
(***************************************************************************)
(* protocol/session.py over network/bus.py: the phase-typed sessions, the  *)
(* frames they exchange, and the program that drives them.                 *)
(*                                                                         *)
(* A slot is the lineage of one IdleSession object: the object itself and  *)
(* the HandshakingSession, EstablishedSession and ClosedSession objects    *)
(* made from it.  phase[s] is the phase of the newest object.  Older       *)
(* objects are consumed: their transition methods raise                    *)
(* SessionConsumedError and change nothing (a stuttering step).  "Spent"   *)
(* is a lineage whose last transition method was consumed and returned a   *)
(* ProtocolViolation, so that no usable object is left.                    *)
(*                                                                         *)
(* A WireMessage's msg_id is modelled by <<maker, seq>>, the lineage that  *)
(* made it and how many it had made: as unique as the UUID of the code,    *)
(* and as little looked at by the receiving sessions.                      *)
(*                                                                         *)
(* The driver is any program that sends a frame to whom the docstrings     *)
(* say, polls the bus, and hands a decoded frame to some session of the    *)
(* polled agent that has a method for it.  It may keep using an            *)
(* EstablishedSession after close(): send() and receive() do not look at   *)
(* the consumed flag.                                                      *)
(***************************************************************************)
EXTENDS FaultInjector, FiniteSets

CONSTANTS
    Agent, Slot, Owner, None,
    Dial,       \* the pairs <<s, p>> for which the driver may call s.open(p)
    MaxData     \* bound: data frames made per session

ASSUME OwnerAssumption ==
    /\ Owner \in [Slot -> Agent]
    /\ None \notin Agent
ASSUME DialAssumption == Dial \subseteq Slot \X Agent
ASSUME MaxDataAssumption == MaxData \in Nat

Phase == {"Idle", "Handshaking", "Established", "Closed", "Spent"}
Kind == {"hello", "hello_ack", "data"}
WireMessage == [maker : Slot, seq : 0 .. MaxData, sender : Agent, kind : Kind]

ASSUME NoneAssumption == None \notin WireMessage

VARIABLES
    phase, peer,
    cause,      \* history: the frame that established the session
    made,       \* made[s] : data frames s has made
    accepted,   \* history: the << session, data frame >> pairs receive() let through
    lane, box   \* the bus, as in Mailbox

sessions == << phase, peer, cause, made, accepted >>
vars == << sessions, lane, box >>

Net == INSTANCE Mailbox WITH Endpoint <- Agent, Message <- WireMessage

Hello(s) == [maker |-> s, seq |-> 0, sender |-> Owner[s], kind |-> "hello"]
HelloAck(s) == [maker |-> s, seq |-> 0, sender |-> Owner[s], kind |-> "hello_ack"]
Data(s, n) == [maker |-> s, seq |-> n, sender |-> Owner[s], kind |-> "data"]

SessionTypeOK ==
    /\ phase \in [Slot -> Phase]
    /\ peer \in [Slot -> Agent \cup {None}]
    /\ cause \in [Slot -> WireMessage \cup {None}]
    /\ made \in [Slot -> 0 .. MaxData]
    /\ accepted \subseteq Slot \X WireMessage

TypeOK == SessionTypeOK /\ Net!TypeOK

Init ==
    /\ phase = [s \in Slot |-> "Idle"]
    /\ peer = [s \in Slot |-> None]
    /\ cause = [s \in Slot |-> None]
    /\ made = [s \in Slot |-> 0]
    /\ accepted = {}
    /\ Net!Init

-----------------------------------------------------------------------------
(* A bug: the hello is made and not sent.                                  *)
Open_SendsNothing(s, p) ==
    /\ phase[s] = "Idle"
    /\ << s, p >> \in Dial
    /\ phase' = [phase EXCEPT ![s] = "Handshaking"]
    /\ peer' = [peer EXCEPT ![s] = p]
    /\ UNCHANGED << cause, made, accepted, lane, box >>

(* IdleSession.open(p), and the hello sent to p.                           *)
Open(s, p) ==
    /\ phase[s] = "Idle"
    /\ << s, p >> \in Dial
    /\ phase' = [phase EXCEPT ![s] = "Handshaking"]
    /\ peer' = [peer EXCEPT ![s] = p]
    /\ Net!Post(p, Hello(s))
    /\ UNCHANGED << cause, made, accepted >>

(* A bug: the ack is sent to the accepting agent itself.                   *)
AcceptHello_AcksSelf(s, m) ==
    /\ phase[s] = "Idle"
    /\ m.kind = "hello"
    /\ phase' = [phase EXCEPT ![s] = "Established"]
    /\ peer' = [peer EXCEPT ![s] = m.sender]
    /\ cause' = [cause EXCEPT ![s] = m]
    /\ Net!Enqueue(Owner[s], HelloAck(s))
    /\ UNCHANGED << made, accepted >>

(* IdleSession.accept_hello(m), and the ack sent back.  The object is      *)
(* consumed before the kind of m is looked at.                             *)
AcceptHello(s, m) ==
    /\ phase[s] = "Idle"
    /\ \/ /\ m.kind = "hello"
          /\ phase' = [phase EXCEPT ![s] = "Established"]
          /\ peer' = [peer EXCEPT ![s] = m.sender]
          /\ cause' = [cause EXCEPT ![s] = m]
          /\ Net!Enqueue(m.sender, HelloAck(s))
       \/ /\ m.kind # "hello"
          /\ phase' = [phase EXCEPT ![s] = "Spent"]
          /\ UNCHANGED << peer, cause, lane >>
    /\ UNCHANGED << made, accepted >>

(* A bug: any ack will do.                                                 *)
Complete_AnySender(s, m) ==
    /\ phase[s] = "Handshaking"
    /\ m.kind = "hello_ack"
    /\ phase' = [phase EXCEPT ![s] = "Established"]
    /\ cause' = [cause EXCEPT ![s] = m]
    /\ UNCHANGED << peer, made, accepted, lane >>

(* A bug: any frame of the peer will do.                                   *)
Complete_AnyKind(s, m) ==
    /\ phase[s] = "Handshaking"
    /\ m.sender = peer[s]
    /\ phase' = [phase EXCEPT ![s] = "Established"]
    /\ cause' = [cause EXCEPT ![s] = m]
    /\ UNCHANGED << peer, made, accepted, lane >>

(* HandshakingSession.complete(m), consumed before m is looked at as well. *)
Complete(s, m) ==
    /\ phase[s] = "Handshaking"
    /\ \/ /\ m.kind = "hello_ack" /\ m.sender = peer[s]
          /\ phase' = [phase EXCEPT ![s] = "Established"]
          /\ cause' = [cause EXCEPT ![s] = m]
       \/ /\ m.kind # "hello_ack" \/ m.sender # peer[s]
          /\ phase' = [phase EXCEPT ![s] = "Spent"]
          /\ UNCHANGED cause
    /\ UNCHANGED << peer, made, accepted, lane >>

(* A bug: the sender of a data frame is not compared with the peer.        *)
ReceiveData_AnySender(s, m) ==
    /\ phase[s] \in {"Established", "Closed"}
    /\ accepted' = IF m.kind = "data" THEN accepted \cup { << s, m >> } ELSE accepted
    /\ UNCHANGED << phase, peer, cause, made, lane >>

(* EstablishedSession.receive(m), which a closed session still answers.    *)
ReceiveData(s, m) ==
    /\ phase[s] \in {"Established", "Closed"}
    /\ accepted' = IF m.kind = "data" /\ m.sender = peer[s]
                   THEN accepted \cup { << s, m >> } ELSE accepted
    /\ UNCHANGED << phase, peer, cause, made, lane >>

(* EstablishedSession.send(), and the frame sent to the peer.              *)
SendData(s) ==
    /\ phase[s] \in {"Established", "Closed"}
    /\ made[s] < MaxData
    /\ made' = [made EXCEPT ![s] = @ + 1]
    /\ Net!Post(peer[s], Data(s, made[s] + 1))
    /\ UNCHANGED << phase, peer, cause, accepted >>

(* EstablishedSession.close().                                             *)
Close(s) ==
    /\ phase[s] = "Established"
    /\ phase' = [phase EXCEPT ![s] = "Closed"]
    /\ UNCHANGED << peer, cause, made, accepted, lane, box >>

-----------------------------------------------------------------------------
Flush == Net!Deliver /\ UNCHANGED sessions

(* try_recv(a) returned Ok(m): some session of a that can still do         *)
(* anything with a frame is handed m.                                      *)
Dispatch(a, s) ==
    /\ Owner[s] = a
    /\ Net!Pop(a)
    /\ Head(box[a]).clean
    /\ LET m == Head(box[a]).msg
       IN  AcceptHello(s, m) \/ Complete(s, m) \/ ReceiveData(s, m)

(* try_recv(a) returned Err(MalformedMessage), or every session of a is    *)
(* spent: the frame is gone and nothing else happens.                      *)
Discard(a) ==
    /\ Net!Pop(a)
    /\ \/ ~Head(box[a]).clean
       \/ \A s \in Slot : Owner[s] = a => phase[s] = "Spent"
    /\ UNCHANGED << sessions, lane >>

Poll(a) == Discard(a) \/ \E s \in Slot : Dispatch(a, s)

Next ==
    \/ \E s \in Slot :
         \/ \E p \in Agent : Open(s, p)
         \/ SendData(s)
         \/ Close(s)
    \/ Flush
    \/ \E a \in Agent : Poll(a)

Spec == Init /\ [][Next]_vars

(* The drive loops flush after every send and poll until a frame arrives.  *)
Fairness == WF_vars(Flush) /\ \A a \in Agent : WF_vars(Poll(a))
FairSpec == Spec /\ Fairness

-----------------------------------------------------------------------------
Opened(s) == phase[s] \in {"Established", "Closed"}
Initiated(s) == cause[s] # None /\ cause[s].kind = "hello_ack"
Responded(s) == cause[s] # None /\ cause[s].kind = "hello"

(* Whatever is dropped, duplicated, corrupted or reordered: an initiator   *)
(* is established only through an ack made by a session of the agent it    *)
(* dialled, and that session is established with the initiator's agent;    *)
(* a responder only through a hello made by a session of the agent it now  *)
(* calls its peer, which did dial the responder's agent.                   *)
Agreement ==
    \A s \in Slot :
        LET t == cause[s].maker
        IN  /\ Opened(s) <=> (Initiated(s) \/ Responded(s))
            /\ Opened(s) => Owner[t] = peer[s] /\ peer[t] = Owner[s]
            /\ Initiated(s) => Responded(t)
            /\ Responded(s) => ~Responded(t) /\ phase[t] # "Idle"

(* A frame on its way to agent a is what it says it is: it names its true  *)
(* sender, and the session that made it is, still, in the state that made  *)
(* it, bound to a.  Nobody forges a frame and no fault produces one.       *)
Authentic(a, m) ==
    LET t == m.maker
    IN  /\ m.sender = Owner[t]
        /\ peer[t] = a
        /\ m.kind = "hello" => phase[t] # "Idle" /\ ~Responded(t) /\ << t, a >> \in Dial
        /\ m.kind = "hello_ack" => Responded(t)
        /\ m.kind = "data" => Opened(t) /\ m.seq \in 1 .. made[t]
FramesAuthentic ==
    \A a \in Agent :
        /\ \A i \in DOMAIN lane[a] : Authentic(a, lane[a][i].msg)
        /\ \A i \in DOMAIN box[a] : Authentic(a, box[a][i].msg)

(* When no agent dials the same peer twice, an initiator is established by *)
(* the answer to its own hello, even if several sessions of both agents    *)
(* are being opened at once.  The ack carries no reference to the hello,   *)
(* which is why the hypothesis is needed.                                  *)
UniqueDial ==
    \A d, e \in Dial : d[2] = e[2] /\ Owner[d[1]] = Owner[e[1]] => d = e
PairedSessions ==
    UniqueDial =>
        \A s \in Slot : Initiated(s) => cause[cause[s].maker].maker = s

(* Data reaches a session only from a session of its peer that is itself   *)
(* established with this side, and only frames that one really sent.       *)
DataFromPeer ==
    \A d \in accepted :
        LET t == d[2].maker
        IN  /\ Opened(d[1]) /\ Opened(t)
            /\ Owner[t] = peer[d[1]] /\ peer[t] = Owner[d[1]]
            /\ d[2].seq \in 1 .. made[t]

(* Every session a frame establishes uses up a copy of it: the sessions    *)
(* and the copies still on their way are never more than the bus makes.    *)
(* So a hello that was duplicated, which nothing in the receiver would     *)
(* recognise, takes one session more than it was sent for, and one that    *)
(* cannot be duplicated none, however many sessions wait for a hello.      *)
MostCopies == IF TRUE \in DuplicateRoll THEN 2 ELSE 1
CopiesIn(queue, m) == Cardinality({ i \in DOMAIN queue : queue[i].msg = m })
OneSessionPerCopy ==
    \A s \in Slot :
        LET m == cause[s]
            a == Owner[s]
        IN  m # None =>
              Cardinality({ t \in Slot : cause[t] = m })
                + CopiesIn(lane[a], m) + CopiesIn(box[a], m) <= MostCopies

(* Both agents have dialled the other with the session at hand.            *)
Crossing == \E s, t \in Slot :
    /\ phase[s] # "Idle" /\ ~Responded(s) /\ phase[t] # "Idle" /\ ~Responded(t)
    /\ peer[s] = Owner[t] /\ peer[t] = Owner[s]

(* No session is wasted: a frame is handed to a session that cannot use it,*)
(* and dies of it, only if both sides have dialled: open() has no way back *)
(* to Idle.  Holds while frames keep their order and none is lost, for     *)
(* agents of one session each that dial at most who dials them.            *)
SpentOnlyByCrossing == (\E s \in Slot : phase[s] = "Spent") => Crossing

(* Nobody waits for ever: a handshake that was started ends with both      *)
(* sides established, or, when the other side dialled before the hello got *)
(* to it, with the session spent.                                          *)
HandshakeEnds ==
    \A s \in Slot :
        phase[s] = "Handshaking" ~>
          \/ Opened(s) /\ \E t \in Slot : Owner[t] = peer[s] /\ Responded(t)
          \/ phase[s] = "Spent" /\ Crossing

-----------------------------------------------------------------------------
(* The handshake implements the networkless connection.                    *)
ConnectionOf == INSTANCE Connection WITH
    cause <- [s \in Slot |-> IF cause[s] = None THEN None ELSE cause[s].maker]
ConnectionSpec == ConnectionOf!Spec
=============================================================================
