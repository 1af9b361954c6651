-------------------------- MODULE HandshakeProofs --------------------------
(***************************************************************************)
(* Theorems about Handshake, for every set of agents, every program that   *)
(* drives the sessions, and every fault configuration.                     *)
(*                                                                         *)
(* Agreement is not inductive: that the session behind an ack is an        *)
(* established responder follows from what was true when the ack was made, *)
(* which is what FramesAuthentic says of every frame still in the network. *)
(* SessionFacts adds what each session knows of its own past.              *)
(***************************************************************************)
EXTENDS Handshake, FiniteSetTheorems, TLAPS

SessionFact(s) ==
    LET t == cause[s].maker
    IN  /\ Opened(s) <=> cause[s] # None
        /\ cause[s] # None => cause[s].kind \in {"hello", "hello_ack"}
        /\ phase[s] = "Idle" => peer[s] = None
        /\ phase[s] = "Handshaking" => peer[s] \in Agent /\ << s, peer[s] >> \in Dial
        /\ Opened(s) => Owner[t] = peer[s] /\ peer[t] = Owner[s]
        /\ Initiated(s) => Responded(t) /\ << s, peer[s] >> \in Dial
        /\ Responded(s) => phase[t] # "Idle" /\ ~Responded(t) /\ << t, Owner[s] >> \in Dial
SessionFacts == \A s \in Slot : SessionFact(s)

IInv == TypeOK /\ FramesAuthentic /\ SessionFacts /\ DataFromPeer

-----------------------------------------------------------------------------
(* Whatever is rolled for one send, the frames it enqueues are frames of   *)
(* that very message.                                                      *)
LEMMA TransmissionsOfMessage ==
    ASSUME NEW M, NEW m \in M, NEW frames \in Transmissions(m)
    PROVE  /\ frames \in Seq(Frames(M))
           /\ \A i \in DOMAIN frames : frames[i].msg = m
<1>1. ASSUME NEW corrupt \in BOOLEAN, NEW twice \in BOOLEAN,
             frames = Copies(m, corrupt, twice)
      PROVE  /\ frames \in Seq(Frames(M))
             /\ \A i \in DOMAIN frames : frames[i].msg = m
    <2> DEFINE frame == [msg |-> m, clean |-> ~corrupt]
    <2>1. frame \in Frames(M) /\ frame.msg = m
        BY DEF Frames
    <2>2. frames = << frame, frame >> \/ frames = << frame >>
        BY <1>1 DEF Copies
    <2> HIDE DEF frame
    <2>3. CASE frames = << frame, frame >>
        BY <2>1, <2>3
    <2>4. CASE frames = << frame >>
        BY <2>1, <2>4
    <2> QED
        BY <2>2, <2>3, <2>4
<1>2. CASE frames = << >>
    BY <1>2
<1>3. \/ frames = << >>
      \/ \E roll \in (DropRoll \cap {FALSE}) \X CorruptRoll \X DuplicateRoll :
           frames = Copies(m, roll[2], roll[3])
    BY DEF Transmissions
<1>4. ASSUME NEW roll \in (DropRoll \cap {FALSE}) \X CorruptRoll \X DuplicateRoll
      PROVE  roll[2] \in BOOLEAN /\ roll[3] \in BOOLEAN
    BY RollAssumption DEF RollAssumption
<1> QED
    BY <1>1, <1>2, <1>3, <1>4

(* A delivery batch is reordered, not altered: each of its frames was in   *)
(* the batch before.                                                       *)
LEMMA ReorderBatchKeepsFrames ==
    ASSUME NEW S, NEW batch \in Seq(S), NEW order \in ReorderBatch(batch)
    PROVE  /\ order \in Seq(S)
           /\ \A i \in DOMAIN order : \E j \in DOMAIN batch : order[i] = batch[j]
<1>1. CASE order = batch
    BY <1>1
<1>2. ASSUME NEW p \in Orders(Len(batch)),
             order = [i \in DOMAIN batch |-> batch[p[i]]]
      PROVE  /\ order \in Seq(S)
             /\ \A i \in DOMAIN order : \E j \in DOMAIN batch : order[i] = batch[j]
    <2>1. p \in [DOMAIN batch -> DOMAIN batch]
        BY DEF Orders
    <2>2. \A i \in DOMAIN batch : batch[p[i]] \in S
        BY <2>1
    <2>3. DOMAIN batch = 1 .. Len(batch) /\ Len(batch) \in Nat
        OBVIOUS
    <2>4. order \in [1 .. Len(batch) -> S]
        BY <1>2, <2>2, <2>3
    <2> QED
        BY <1>2, <2>1, <2>3, <2>4
<1> QED
    BY <1>1, <1>2 DEF ReorderBatch

-----------------------------------------------------------------------------
(* The three kinds of frame are wire messages.                             *)
LEMMA FrameTypes ==
    ASSUME NEW s \in Slot
    PROVE  /\ Hello(s) \in WireMessage
           /\ HelloAck(s) \in WireMessage
           /\ \A n \in 0 .. MaxData : Data(s, n) \in WireMessage
BY OwnerAssumption, MaxDataAssumption
   DEF OwnerAssumption, MaxDataAssumption, Hello, HelloAck, Data, WireMessage, Kind

(* Sending m to a adds nothing but copies of m, to the lane of a.          *)
LEMMA EnqueueEffect ==
    ASSUME Net!TypeOK, NEW a \in Agent, NEW m \in WireMessage, Net!Enqueue(a, m)
    PROVE  /\ lane' \in [Agent -> Seq(Frames(WireMessage))]
           /\ \A b \in Agent : \A i \in DOMAIN lane'[b] :
                \/ \E j \in DOMAIN lane[b] : lane'[b][i] = lane[b][j]
                \/ b = a /\ lane'[b][i].msg = m
<1>1. PICK frames \in Transmissions(m) : lane' = [lane EXCEPT ![a] = @ \o frames]
    BY DEF Net!Enqueue, Net!Transmissions, Transmissions, Net!Copies, Copies
<1>2. frames \in Seq(Frames(WireMessage)) /\ \A i \in DOMAIN frames : frames[i].msg = m
    BY TransmissionsOfMessage
<1>3. lane \in [Agent -> Seq(Frames(WireMessage))]
    BY DEF Net!TypeOK, Net!Frames, Frames
<1>4. lane'[a] = lane[a] \o frames /\ lane'[a] \in Seq(Frames(WireMessage))
    BY <1>1, <1>2, <1>3
<1>5. \A b \in Agent : b # a => lane'[b] = lane[b]
    BY <1>1, <1>3
<1>6. \A i \in DOMAIN lane'[a] :
        (\E j \in DOMAIN lane[a] : lane'[a][i] = lane[a][j]) \/ lane'[a][i].msg = m
    BY <1>2, <1>3, <1>4
<1> QED
    BY <1>1, <1>3, <1>4, <1>5, <1>6

(* Taking a frame from the box of a leaves nothing new in any box.         *)
LEMMA PopEffect ==
    ASSUME Net!TypeOK, NEW a \in Agent, Net!Pop(a)
    PROVE  /\ box' \in [Agent -> Seq(Frames(WireMessage))]
           /\ Head(box[a]) \in Frames(WireMessage) /\ 1 \in DOMAIN box[a]
           /\ Head(box[a]) = box[a][1]
           /\ \A b \in Agent : \A i \in DOMAIN box'[b] :
                \E j \in DOMAIN box[b] : box'[b][i] = box[b][j]
<1>1. box \in [Agent -> Seq(Frames(WireMessage))]
    BY DEF Net!TypeOK, Net!Frames, Frames
<1>2. box[a] # << >> /\ box' = [box EXCEPT ![a] = Tail(@)]
    BY DEF Net!Pop
<1>3. \A i \in DOMAIN box'[a] : i + 1 \in DOMAIN box[a] /\ box'[a][i] = box[a][i + 1]
    BY <1>1, <1>2
<1>4. \A b \in Agent : b # a => box'[b] = box[b]
    BY <1>1, <1>2
<1> QED
    BY <1>1, <1>2, <1>3, <1>4

(* Every place of a concatenation is a place of one of the two sequences.  *)
LEMMA ConcatPlaces ==
    ASSUME NEW S, NEW left \in Seq(S), NEW right \in Seq(S)
    PROVE  /\ left \o right \in Seq(S)
           /\ \A i \in DOMAIN (left \o right) :
                \/ \E j \in DOMAIN left : (left \o right)[i] = left[j]
                \/ \E j \in DOMAIN right : (left \o right)[i] = right[j]
<1>1. ASSUME NEW i \in DOMAIN (left \o right), i > Len(left)
      PROVE  i - Len(left) \in DOMAIN right /\ (left \o right)[i] = right[i - Len(left)]
    BY <1>1
<1>2. ASSUME NEW i \in DOMAIN (left \o right), ~ i > Len(left)
      PROVE  i \in DOMAIN left /\ (left \o right)[i] = left[i]
    BY <1>2
<1> QED
    BY <1>1, <1>2

(* A delivery leaves in the boxes only what was in a box or a lane of the  *)
(* same agent, and nothing in the lanes.                                   *)
LEMMA DeliverEffect ==
    ASSUME Net!TypeOK, Net!Deliver
    PROVE  /\ box' \in [Agent -> Seq(Frames(WireMessage))]
           /\ lane' = [a \in Agent |-> << >>]
           /\ \A a \in Agent : \A i \in DOMAIN box'[a] :
                \/ \E j \in DOMAIN box[a] : box'[a][i] = box[a][j]
                \/ \E j \in DOMAIN lane[a] : box'[a][i] = lane[a][j]
<1>1. /\ box \in [Agent -> Seq(Frames(WireMessage))]
      /\ lane \in [Agent -> Seq(Frames(WireMessage))]
    BY DEF Net!TypeOK, Net!Frames, Frames
<1>2. PICK order :
        /\ \A a \in Agent : order[a] \in ReorderBatch(lane[a])
        /\ box' = [a \in Agent |-> box[a] \o order[a]]
    BY DEF Net!Deliver, Net!ReorderBatch, ReorderBatch, Net!Orders, Orders
<1>3. ASSUME NEW a \in Agent
      PROVE  /\ order[a] \in Seq(Frames(WireMessage))
             /\ \A i \in DOMAIN order[a] : \E j \in DOMAIN lane[a] : order[a][i] = lane[a][j]
    BY <1>1, <1>2, ReorderBatchKeepsFrames
<1>4. ASSUME NEW a \in Agent
      PROVE  /\ box'[a] \in Seq(Frames(WireMessage))
             /\ \A i \in DOMAIN box'[a] :
                  \/ \E j \in DOMAIN box[a] : box'[a][i] = box[a][j]
                  \/ \E j \in DOMAIN lane[a] : box'[a][i] = lane[a][j]
    <2> DEFINE old == box[a]
               new == order[a]
    <2>1. old \in Seq(Frames(WireMessage)) /\ new \in Seq(Frames(WireMessage))
        BY <1>1, <1>3
    <2>2. \A i \in DOMAIN new : \E j \in DOMAIN lane[a] : new[i] = lane[a][j]
        BY <1>3
    <2>3. box'[a] = old \o new
        BY <1>2
    <2> HIDE DEF old, new
    <2>4. /\ old \o new \in Seq(Frames(WireMessage))
          /\ \A i \in DOMAIN (old \o new) :
                \/ \E j \in DOMAIN old : (old \o new)[i] = old[j]
                \/ \E j \in DOMAIN new : (old \o new)[i] = new[j]
        BY <2>1, ConcatPlaces
    <2>5. \A i \in DOMAIN box'[a] :
            \/ \E j \in DOMAIN old : box'[a][i] = old[j]
            \/ \E j \in DOMAIN lane[a] : box'[a][i] = lane[a][j]
        BY <2>2, <2>3, <2>4
    <2> QED
        BY <2>3, <2>4, <2>5 DEF old
<1> QED
    BY <1>2, <1>4 DEF Net!Deliver

-----------------------------------------------------------------------------
(* What no step undoes: once a lineage has left Idle its peer is fixed,    *)
(* once it is established it stays so, and a dialler never becomes a       *)
(* responder.                                                              *)
Stable(t) ==
    /\ phase[t] # "Idle" => phase'[t] # "Idle" /\ peer'[t] = peer[t]
    /\ phase[t] # "Idle" /\ ~Responded(t) => ~Responded(t)'
    /\ cause[t] # None => cause'[t] = cause[t]
    /\ Opened(t) => Opened(t)'
    /\ made'[t] \in Nat /\ made[t] <= made'[t]

(* A frame that is authentic stays authentic.                              *)
LEMMA AuthenticStable ==
    ASSUME TypeOK, SessionFacts, \A t \in Slot : Stable(t),
           NEW a \in Agent, NEW m \in WireMessage, Authentic(a, m)
    PROVE  Authentic(a, m)'
<1> DEFINE t == m.maker
<1>1. t \in Slot /\ m.seq \in 0 .. MaxData
    BY DEF WireMessage
<1>2. phase[t] # "Idle"
    BY <1>1, OwnerAssumption DEF Authentic, SessionFacts, SessionFact, OwnerAssumption
<1>3. Stable(t)
    BY <1>1
<1>4. peer'[t] = a /\ phase'[t] # "Idle"
    BY <1>2, <1>3 DEF Stable, Authentic
<1>5. m.kind = "hello" => ~Responded(t)'
    BY <1>2, <1>3 DEF Stable, Authentic
<1>6. m.kind = "hello_ack" => Responded(t)'
    BY <1>3 DEF Stable, Authentic, Responded
<1>7. m.kind = "data" => Opened(t)' /\ m.seq \in 1 .. made'[t]
    BY <1>1, <1>3, MaxDataAssumption DEF Stable, Authentic, MaxDataAssumption, TypeOK, SessionTypeOK
<1> QED
    BY <1>4, <1>5, <1>6, <1>7 DEF Authentic

(* The network stays authentic if every frame in it was there before, for  *)
(* the same agent, or is authentic by itself.                              *)
InNetwork(a, f) ==
    \/ \E j \in DOMAIN lane[a] : f = lane[a][j]
    \/ \E j \in DOMAIN box[a] : f = box[a][j]
LEMMA NetworkStep ==
    ASSUME TypeOK, SessionFacts, FramesAuthentic, \A t \in Slot : Stable(t),
           \A a \in Agent : \A i \in DOMAIN lane'[a] :
               InNetwork(a, lane'[a][i]) \/ Authentic(a, lane[a][i].msg)',
           \A a \in Agent : \A i \in DOMAIN box'[a] : InNetwork(a, box'[a][i])
    PROVE  FramesAuthentic'
<1>1. ASSUME NEW a \in Agent, NEW f, InNetwork(a, f)
      PROVE  f.msg \in WireMessage /\ Authentic(a, f.msg)
    <2>1. lane[a] \in Seq(Net!Frames(WireMessage)) /\ box[a] \in Seq(Net!Frames(WireMessage))
        BY DEF TypeOK, Net!TypeOK
    <2>2. \A g \in Net!Frames(WireMessage) : g.msg \in WireMessage
        BY DEF Net!Frames
    <2> HIDE DEF TypeOK
    <2>3. f \in Net!Frames(WireMessage)
        BY <1>1, <2>1 DEF InNetwork
    <2> QED
        BY <1>1, <2>2, <2>3 DEF InNetwork, FramesAuthentic
<1>2. ASSUME NEW a \in Agent, NEW i \in DOMAIN lane'[a]
      PROVE  Authentic(a, lane[a][i].msg)'
    <2>1. CASE InNetwork(a, lane'[a][i])
        <3> DEFINE m == lane'[a][i].msg
        <3>1. m \in WireMessage /\ Authentic(a, m)
            BY <1>1, <2>1
        <3> QED
            BY <3>1, AuthenticStable DEF Authentic
    <2> QED
        BY <2>1
<1> QED
    BY <1>1, <1>2, AuthenticStable DEF FramesAuthentic

(* A session that does not take part in a step keeps its facts.            *)
LEMMA SessionFactStable ==
    ASSUME TypeOK, SessionFacts, \A t \in Slot : Stable(t), NEW s \in Slot,
           phase'[s] = phase[s] \/ (phase[s] = "Established" /\ phase'[s] = "Closed"),
           peer'[s] = peer[s], cause'[s] = cause[s]
    PROVE  SessionFact(s)'
<1> DEFINE t == cause[s].maker
<1>1. SessionFact(s)
    BY DEF SessionFacts
<1>2. Opened(s)' = Opened(s) /\ Initiated(s)' = Initiated(s) /\ Responded(s)' = Responded(s)
    BY DEF Opened, Initiated, Responded
<1>3. CASE cause[s] = None
    BY <1>1, <1>2, <1>3 DEF SessionFact, Opened, Initiated, Responded
<1>4. CASE cause[s] # None
    <2>1. t \in Slot
        BY <1>4 DEF TypeOK, SessionTypeOK, WireMessage
    <2>2. Opened(s) /\ Owner[t] = peer[s] /\ peer[t] = Owner[s] /\ Owner[s] \in Agent
        BY <1>1, <1>4, OwnerAssumption DEF SessionFact, OwnerAssumption
    <2>3. phase[t] # "Idle"
        <3>1. SessionFact(t)
            BY <2>1 DEF SessionFacts
        <3> HIDE DEF t
        <3> QED
            BY <2>2, <3>1, OwnerAssumption DEF SessionFact, OwnerAssumption
    <2>4. peer'[t] = peer[t] /\ phase'[t] # "Idle"
        BY <2>1, <2>3 DEF Stable
    <2>5. Initiated(s) => Responded(t)'
        BY <1>1, <2>1 DEF SessionFact, Stable, Responded
    <2>6. Responded(s) => ~Responded(t)'
        BY <1>1, <2>1, <2>3 DEF SessionFact, Stable
    <2> QED
        BY <1>1, <1>2, <1>4, <2>2, <2>4, <2>5, <2>6 DEF SessionFact, Opened
<1> QED
    BY <1>3, <1>4

(* Data accepted in the past stays accounted for.                          *)
LEMMA DataStable ==
    ASSUME TypeOK, SessionFacts, DataFromPeer, \A t \in Slot : Stable(t), accepted' = accepted
    PROVE  DataFromPeer'
<1> SUFFICES ASSUME NEW d \in accepted
             PROVE  LET t == d[2].maker
                    IN  /\ Opened(d[1])' /\ Opened(t)'
                        /\ Owner[t] = peer'[d[1]] /\ peer'[t] = Owner[d[1]]
                        /\ d[2].seq \in 1 .. made'[t]
    BY DEF DataFromPeer
<1> DEFINE t == d[2].maker
<1>1. d[1] \in Slot /\ t \in Slot /\ d[2].seq \in 0 .. MaxData /\ made[t] \in Nat
    BY MaxDataAssumption DEF TypeOK, SessionTypeOK, WireMessage, MaxDataAssumption
<1>2. /\ Opened(d[1]) /\ Opened(t)
      /\ Owner[t] = peer[d[1]] /\ peer[t] = Owner[d[1]] /\ d[2].seq \in 1 .. made[t]
    BY DEF DataFromPeer
<1>3. Stable(d[1]) /\ Stable(t)
    BY <1>1
<1>4. /\ Opened(d[1])' /\ Opened(t)' /\ peer'[d[1]] = peer[d[1]] /\ peer'[t] = peer[t]
      /\ made'[t] \in Nat /\ made[t] <= made'[t]
    BY <1>2, <1>3 DEF Stable, Opened
<1>5. d[2].seq \in 1 .. made'[t]
    BY <1>1, <1>2, <1>4, MaxDataAssumption DEF MaxDataAssumption
<1> QED
    BY <1>2, <1>4, <1>5

-----------------------------------------------------------------------------
(* One lemma per step of the program: each preserves the invariant.        *)

(* open() sends a hello that is what it says it is.                        *)
LEMMA OpenStep ==
    ASSUME IInv, NEW s \in Slot, NEW p \in Agent, Open(s, p)
    PROVE  IInv'
<1> USE DEF IInv
<1>1. /\ phase[s] = "Idle" /\ << s, p >> \in Dial
      /\ phase' = [phase EXCEPT ![s] = "Handshaking"]
      /\ peer' = [peer EXCEPT ![s] = p]
      /\ cause' = cause /\ made' = made /\ accepted' = accepted /\ box' = box
      /\ Net!Enqueue(p, Hello(s))
    BY DEF Open, Net!Post
<1>2. SessionTypeOK /\ Net!TypeOK
    BY DEF TypeOK
<1>3. cause[s] = None /\ ~Responded(s)
    BY <1>1 DEF SessionFacts, SessionFact, Opened, Responded
<1>4. SessionTypeOK'
    BY <1>1, <1>2 DEF SessionTypeOK, Phase
<1>5. /\ lane' \in [Agent -> Seq(Frames(WireMessage))]
      /\ \A b \in Agent : \A i \in DOMAIN lane'[b] :
           \/ \E j \in DOMAIN lane[b] : lane'[b][i] = lane[b][j]
           \/ b = p /\ lane'[b][i].msg = Hello(s)
    BY <1>1, <1>2, FrameTypes, EnqueueEffect
<1>6. TypeOK'
    BY <1>1, <1>2, <1>4, <1>5 DEF TypeOK, Net!TypeOK, Net!Frames, Frames
<1>7. \A t \in Slot : Stable(t)
    BY <1>1, <1>2, MaxDataAssumption
       DEF Stable, Opened, Responded, SessionTypeOK, MaxDataAssumption
<1>8. Authentic(p, Hello(s))'
    BY <1>1, <1>2, <1>3 DEF Authentic, Hello, Responded, SessionTypeOK
<1>9. FramesAuthentic'
    BY <1>1, <1>5, <1>7, <1>8, NetworkStep DEF InNetwork
<1>10. SessionFact(s)'
    BY <1>1, <1>2, <1>3 DEF SessionFact, Opened, Initiated, Responded, SessionTypeOK
<1>11. SessionFacts'
    BY <1>1, <1>2, <1>7, <1>10, SessionFactStable DEF SessionFacts, SessionTypeOK
<1> QED
    BY <1>1, <1>6, <1>7, <1>9, <1>11, DataStable

(* The frame that is handed to a session is authentic.                     *)
LEMMA HeadAuthentic ==
    ASSUME IInv, NEW a \in Agent, Net!Pop(a)
    PROVE  Head(box[a]).msg \in WireMessage /\ Authentic(a, Head(box[a]).msg)
<1>1. /\ Head(box[a]) \in Frames(WireMessage)
      /\ 1 \in DOMAIN box[a] /\ Head(box[a]) = box[a][1]
    BY PopEffect DEF IInv, TypeOK
<1> QED
    BY <1>1 DEF IInv, FramesAuthentic, Frames

(* accept_hello() establishes the session on the word of an authentic hello*)
(* and sends an authentic ack, or spends the session.                      *)
LEMMA AcceptHelloStep ==
    ASSUME IInv, NEW s \in Slot, NEW m \in WireMessage, Authentic(Owner[s], m),
           Net!Pop(Owner[s]), AcceptHello(s, m)
    PROVE  IInv'
<1> USE DEF IInv
<1> DEFINE t == m.maker
<1>1. /\ phase[s] = "Idle" /\ made' = made /\ accepted' = accepted
      /\ Owner[s] \in Agent /\ t \in Slot /\ m.sender \in Agent
    BY OwnerAssumption DEF AcceptHello, WireMessage, OwnerAssumption
<1>2. SessionTypeOK /\ Net!TypeOK
    BY DEF TypeOK
<1>3. cause[s] = None /\ ~Responded(s) /\ ~Initiated(s) /\ peer[s] = None
    BY <1>1 DEF SessionFacts, SessionFact, Opened, Responded, Initiated
<1>4. /\ box' \in [Agent -> Seq(Frames(WireMessage))]
      /\ \A b \in Agent : \A i \in DOMAIN box'[b] :
           \E j \in DOMAIN box[b] : box'[b][i] = box[b][j]
    BY <1>1, <1>2, PopEffect
<1>5. CASE m.kind = "hello"
    <2>1. /\ phase' = [phase EXCEPT ![s] = "Established"]
          /\ peer' = [peer EXCEPT ![s] = m.sender]
          /\ cause' = [cause EXCEPT ![s] = m]
          /\ Net!Enqueue(m.sender, HelloAck(s))
        BY <1>5 DEF AcceptHello
    <2>2. /\ lane' \in [Agent -> Seq(Frames(WireMessage))]
          /\ \A b \in Agent : \A i \in DOMAIN lane'[b] :
               \/ \E j \in DOMAIN lane[b] : lane'[b][i] = lane[b][j]
               \/ b = m.sender /\ lane'[b][i].msg = HelloAck(s)
        BY <1>1, <1>2, <2>1, FrameTypes, EnqueueEffect
    <2>3. SessionTypeOK'
        BY <1>1, <1>2, <2>1 DEF SessionTypeOK, Phase
    <2>4. TypeOK'
        BY <1>4, <2>2, <2>3 DEF TypeOK, Net!TypeOK, Net!Frames, Frames
    <2>5. \A u \in Slot : Stable(u)
        BY <1>1, <1>2, <1>3, <2>1, MaxDataAssumption
           DEF Stable, Opened, Responded, SessionTypeOK, MaxDataAssumption
    <2>6. cause'[s] = m /\ peer'[s] = m.sender /\ phase'[s] = "Established"
        BY <1>2, <2>1 DEF SessionTypeOK
    <2>7. Responded(s)' /\ ~Initiated(s)' /\ Opened(s)'
        BY <1>5, <2>6, NoneAssumption DEF Responded, Initiated, Opened, NoneAssumption
    <2>8. Authentic(m.sender, HelloAck(s))'
        BY <2>6, <2>7 DEF Authentic, HelloAck
    <2>9. FramesAuthentic'
        BY <1>4, <2>2, <2>5, <2>8, NetworkStep DEF InNetwork
    <2>10. /\ m.sender = Owner[t] /\ peer[t] = Owner[s] /\ phase[t] # "Idle"
           /\ ~Responded(t) /\ << t, Owner[s] >> \in Dial
        BY <1>5 DEF Authentic
    <2>11. peer'[t] = Owner[s] /\ phase'[t] # "Idle" /\ ~Responded(t)'
        BY <1>1, <2>5, <2>10 DEF Stable
    <2>12. SessionFact(s)'
        BY <1>5, <2>6, <2>7, <2>10, <2>11, NoneAssumption DEF SessionFact, NoneAssumption
    <2>13. SessionFacts'
        BY <1>2, <2>1, <2>5, <2>12, SessionFactStable DEF SessionFacts, SessionTypeOK
    <2> QED
        BY <1>1, <2>4, <2>5, <2>9, <2>13, DataStable
<1>6. CASE m.kind # "hello"
    <2>1. /\ phase' = [phase EXCEPT ![s] = "Spent"]
          /\ peer' = peer /\ cause' = cause /\ lane' = lane
        BY <1>6 DEF AcceptHello
    <2>2. SessionTypeOK' /\ TypeOK'
        BY <1>1, <1>2, <1>4, <2>1 DEF TypeOK, SessionTypeOK, Phase, Net!TypeOK, Net!Frames, Frames
    <2>3. \A u \in Slot : Stable(u)
        BY <1>1, <1>2, <1>3, <2>1, MaxDataAssumption
           DEF Stable, Opened, Responded, SessionTypeOK, MaxDataAssumption
    <2>4. FramesAuthentic'
        BY <1>4, <2>1, <2>3, NetworkStep DEF InNetwork
    <2>5. SessionFact(s)'
        BY <1>2, <1>3, <2>1 DEF SessionFact, Opened, Initiated, Responded, SessionTypeOK
    <2>6. SessionFacts'
        BY <1>2, <2>1, <2>3, <2>5, SessionFactStable DEF SessionFacts, SessionTypeOK
    <2> QED
        BY <1>1, <2>2, <2>3, <2>4, <2>6, DataStable
<1> QED
    BY <1>5, <1>6

(* complete() establishes the session on the word of an authentic ack, or  *)
(* spends it.                                                              *)
LEMMA CompleteStep ==
    ASSUME IInv, NEW s \in Slot, NEW m \in WireMessage, Authentic(Owner[s], m),
           Net!Pop(Owner[s]), Complete(s, m)
    PROVE  IInv'
<1> USE DEF IInv
<1> DEFINE t == m.maker
<1>1. /\ phase[s] = "Handshaking" /\ made' = made /\ accepted' = accepted
      /\ peer' = peer /\ lane' = lane
      /\ Owner[s] \in Agent /\ t \in Slot
    BY OwnerAssumption DEF Complete, WireMessage, OwnerAssumption
<1>2. SessionTypeOK /\ Net!TypeOK
    BY DEF TypeOK
<1>3. /\ cause[s] = None /\ ~Responded(s) /\ ~Initiated(s)
      /\ peer[s] \in Agent /\ << s, peer[s] >> \in Dial
    BY <1>1 DEF SessionFacts, SessionFact, Opened, Responded, Initiated
<1>4. /\ box' \in [Agent -> Seq(Frames(WireMessage))]
      /\ \A b \in Agent : \A i \in DOMAIN box'[b] :
           \E j \in DOMAIN box[b] : box'[b][i] = box[b][j]
    BY <1>1, <1>2, PopEffect
<1>5. CASE m.kind = "hello_ack" /\ m.sender = peer[s]
    <2>1. /\ phase' = [phase EXCEPT ![s] = "Established"]
          /\ cause' = [cause EXCEPT ![s] = m]
        BY <1>5 DEF Complete
    <2>2. SessionTypeOK' /\ TypeOK'
        BY <1>1, <1>2, <1>4, <2>1 DEF TypeOK, SessionTypeOK, Phase, Net!TypeOK, Net!Frames, Frames
    <2>3. cause'[s] = m /\ phase'[s] = "Established"
        BY <1>2, <2>1 DEF SessionTypeOK
    <2>4. Initiated(s)' /\ ~Responded(s)' /\ Opened(s)'
        BY <1>5, <2>3, NoneAssumption DEF Responded, Initiated, Opened, NoneAssumption
    <2>5. \A u \in Slot : Stable(u)
        BY <1>1, <1>2, <1>3, <2>1, <2>4, MaxDataAssumption
           DEF Stable, Opened, Responded, SessionTypeOK, MaxDataAssumption
    <2>6. FramesAuthentic'
        BY <1>1, <1>4, <2>5, NetworkStep DEF InNetwork
    <2>7. m.sender = Owner[t] /\ peer[t] = Owner[s] /\ Responded(t)
        BY <1>5 DEF Authentic
    <2>8. Responded(t)'
        BY <1>1, <2>5, <2>7 DEF Stable, Responded
    <2>9. SessionFact(s)'
        BY <1>1, <1>3, <1>5, <2>3, <2>4, <2>7, <2>8, NoneAssumption
           DEF SessionFact, NoneAssumption
    <2>10. SessionFacts'
        BY <1>1, <1>2, <2>1, <2>5, <2>9, SessionFactStable DEF SessionFacts, SessionTypeOK
    <2> QED
        BY <1>1, <2>2, <2>5, <2>6, <2>10, DataStable
<1>6. CASE ~(m.kind = "hello_ack" /\ m.sender = peer[s])
    <2>1. phase' = [phase EXCEPT ![s] = "Spent"] /\ cause' = cause
        BY <1>6 DEF Complete
    <2>2. SessionTypeOK' /\ TypeOK'
        BY <1>1, <1>2, <1>4, <2>1 DEF TypeOK, SessionTypeOK, Phase, Net!TypeOK, Net!Frames, Frames
    <2>3. \A u \in Slot : Stable(u)
        BY <1>1, <1>2, <1>3, <2>1, MaxDataAssumption
           DEF Stable, Opened, Responded, SessionTypeOK, MaxDataAssumption
    <2>4. FramesAuthentic'
        BY <1>1, <1>4, <2>3, NetworkStep DEF InNetwork
    <2>5. SessionFact(s)'
        BY <1>1, <1>2, <1>3, <2>1 DEF SessionFact, Opened, Initiated, Responded, SessionTypeOK
    <2>6. SessionFacts'
        BY <1>1, <1>2, <2>1, <2>3, <2>5, SessionFactStable DEF SessionFacts, SessionTypeOK
    <2> QED
        BY <1>1, <2>2, <2>3, <2>4, <2>6, DataStable
<1> QED
    BY <1>5, <1>6

(* receive() lets through only what the peer, itself established, sent.    *)
LEMMA ReceiveDataStep ==
    ASSUME IInv, NEW s \in Slot, NEW m \in WireMessage, Authentic(Owner[s], m),
           Net!Pop(Owner[s]), ReceiveData(s, m)
    PROVE  IInv'
<1> USE DEF IInv
<1>1. /\ Opened(s) /\ phase' = phase /\ peer' = peer /\ cause' = cause /\ made' = made
      /\ lane' = lane /\ Owner[s] \in Agent /\ m.maker \in Slot
      /\ accepted' \subseteq accepted \cup {<< s, m >>}
      /\ ~(m.kind = "data" /\ m.sender = peer[s]) => accepted' = accepted
    BY OwnerAssumption DEF ReceiveData, Opened, WireMessage, OwnerAssumption
<1>2. SessionTypeOK /\ Net!TypeOK
    BY DEF TypeOK
<1>3. /\ box' \in [Agent -> Seq(Frames(WireMessage))]
      /\ \A b \in Agent : \A i \in DOMAIN box'[b] :
           \E j \in DOMAIN box[b] : box'[b][i] = box[b][j]
    BY <1>1, <1>2, PopEffect
<1>4. SessionTypeOK'
    BY <1>1, <1>2 DEF SessionTypeOK
<1>5. TypeOK'
    BY <1>1, <1>2, <1>3, <1>4 DEF TypeOK, Net!TypeOK, Net!Frames, Frames
<1>6. \A u \in Slot : Stable(u)
    BY <1>1, <1>2, MaxDataAssumption
       DEF Stable, Opened, Responded, SessionTypeOK, MaxDataAssumption
<1>7. FramesAuthentic'
    BY <1>1, <1>3, <1>6, NetworkStep DEF InNetwork
<1>8. SessionFacts'
    BY <1>1, <1>6, SessionFactStable DEF SessionFacts
<1>9. ASSUME NEW d \in accepted'
      PROVE  LET t == d[2].maker
             IN  /\ Opened(d[1]) /\ Opened(t)
                 /\ Owner[t] = peer[d[1]] /\ peer[t] = Owner[d[1]]
                 /\ d[2].seq \in 1 .. made[t]
    <2>1. CASE d \in accepted
        BY <2>1 DEF DataFromPeer
    <2>2. CASE d \notin accepted
        <3>1. d = << s, m >> /\ m.kind = "data" /\ m.sender = peer[s]
            BY <1>1, <2>2
        <3> QED
            BY <1>1, <3>1 DEF Authentic
    <2> QED
        BY <2>1, <2>2
<1>10. DataFromPeer'
    BY <1>1, <1>9 DEF DataFromPeer, Opened
<1> QED
    BY <1>5, <1>7, <1>8, <1>10

(* send() makes a frame that is what it says it is.                        *)
LEMMA SendDataStep ==
    ASSUME IInv, NEW s \in Slot, SendData(s)
    PROVE  IInv'
<1> USE DEF IInv
<1>1. /\ Opened(s) /\ made[s] < MaxData
      /\ phase' = phase /\ peer' = peer /\ cause' = cause /\ accepted' = accepted
      /\ made' = [made EXCEPT ![s] = @ + 1] /\ box' = box
      /\ Net!Enqueue(peer[s], Data(s, made[s] + 1))
    BY DEF SendData, Opened, Net!Post
<1>2. SessionTypeOK /\ Net!TypeOK
    BY DEF TypeOK
<1>3. cause[s].maker \in Slot /\ peer[s] = Owner[cause[s].maker] /\ peer[s] \in Agent
    <2>1. cause[s] # None /\ peer[s] = Owner[cause[s].maker]
        BY <1>1 DEF SessionFacts, SessionFact
    <2>2. cause[s].maker \in Slot
        BY <1>2, <2>1 DEF SessionTypeOK, WireMessage
    <2> QED
        BY <2>1, <2>2, OwnerAssumption DEF OwnerAssumption
<1>4. made[s] + 1 \in 0 .. MaxData /\ made'[s] = made[s] + 1
    BY <1>1, <1>2, MaxDataAssumption DEF SessionTypeOK, MaxDataAssumption
<1>5. SessionTypeOK'
    BY <1>1, <1>2, <1>4 DEF SessionTypeOK
<1>6. PICK p \in Agent, m \in WireMessage : p = peer[s] /\ m = Data(s, made[s] + 1)
    BY <1>3, <1>4, FrameTypes
<1>7. /\ lane' \in [Agent -> Seq(Frames(WireMessage))]
      /\ \A b \in Agent : \A i \in DOMAIN lane'[b] :
           \/ \E j \in DOMAIN lane[b] : lane'[b][i] = lane[b][j]
           \/ b = p /\ lane'[b][i].msg = m
    BY <1>1, <1>2, <1>6, EnqueueEffect
<1>8. TypeOK'
    BY <1>1, <1>2, <1>5, <1>7 DEF TypeOK, Net!TypeOK, Net!Frames, Frames
<1>9. \A u \in Slot : Stable(u)
    BY <1>1, <1>2, MaxDataAssumption
       DEF Stable, Opened, Responded, SessionTypeOK, MaxDataAssumption
<1>10. made[s] \in Nat
    BY <1>2, MaxDataAssumption DEF SessionTypeOK, MaxDataAssumption
<1>11. Authentic(p, m)'
    BY <1>1, <1>4, <1>6, <1>10 DEF Authentic, Data, Opened
<1>12. FramesAuthentic'
    BY <1>1, <1>7, <1>9, <1>11, NetworkStep DEF InNetwork
<1>13. SessionFacts'
    BY <1>1, <1>9, SessionFactStable DEF SessionFacts
<1> QED
    BY <1>1, <1>8, <1>9, <1>12, <1>13, DataStable

(* close() changes nothing but the phase.                                  *)
LEMMA CloseStep ==
    ASSUME IInv, NEW s \in Slot, Close(s)
    PROVE  IInv'
<1> USE DEF IInv
<1>1. /\ phase[s] = "Established" /\ phase' = [phase EXCEPT ![s] = "Closed"]
      /\ peer' = peer /\ cause' = cause /\ made' = made /\ accepted' = accepted
      /\ lane' = lane /\ box' = box
    BY DEF Close
<1>2. SessionTypeOK /\ Net!TypeOK
    BY DEF TypeOK
<1>3. TypeOK'
    BY <1>1, <1>2 DEF TypeOK, SessionTypeOK, Phase, Net!TypeOK
<1>4. \A u \in Slot : Stable(u)
    BY <1>1, <1>2, MaxDataAssumption
       DEF Stable, Opened, Responded, SessionTypeOK, MaxDataAssumption
<1>5. FramesAuthentic'
    BY <1>1, <1>4, NetworkStep DEF InNetwork
<1>6. \A u \in Slot : phase'[u] = phase[u] \/ (phase[u] = "Established" /\ phase'[u] = "Closed")
    BY <1>1, <1>2 DEF SessionTypeOK
<1>7. SessionFacts'
    BY <1>1, <1>4, <1>6, SessionFactStable DEF SessionFacts
<1> QED
    BY <1>1, <1>3, <1>4, <1>5, <1>7, DataStable

(* A step of the network alone leaves the sessions as they are.            *)
LEMMA NetworkOnlyStep ==
    ASSUME IInv, UNCHANGED sessions, Net!TypeOK',
           \A a \in Agent : \A i \in DOMAIN lane'[a] : InNetwork(a, lane'[a][i]),
           \A a \in Agent : \A i \in DOMAIN box'[a] : InNetwork(a, box'[a][i])
    PROVE  IInv'
<1> USE DEF IInv
<1>1. phase' = phase /\ peer' = peer /\ cause' = cause /\ made' = made /\ accepted' = accepted
    BY DEF sessions
<1>2. TypeOK'
    BY <1>1 DEF TypeOK, SessionTypeOK
<1>3. \A u \in Slot : Stable(u)
    BY <1>1, MaxDataAssumption DEF Stable, Opened, Responded, TypeOK, SessionTypeOK, MaxDataAssumption
<1>4. FramesAuthentic'
    BY <1>3, NetworkStep
<1>5. SessionFacts'
    BY <1>1, <1>3, SessionFactStable DEF SessionFacts
<1> QED
    BY <1>1, <1>2, <1>3, <1>4, <1>5, DataStable

(* flush() moves frames from the lanes to the boxes of the same agents.    *)
LEMMA FlushStep ==
    ASSUME IInv, Flush
    PROVE  IInv'
<1>1. Net!TypeOK /\ Net!Deliver /\ UNCHANGED sessions
    BY DEF IInv, TypeOK, Flush
<1>2. /\ box' \in [Agent -> Seq(Frames(WireMessage))]
      /\ lane' = [a \in Agent |-> << >>]
      /\ \A a \in Agent : \A i \in DOMAIN box'[a] : InNetwork(a, box'[a][i])
    BY <1>1, DeliverEffect DEF InNetwork
<1>3. \A a \in Agent : lane'[a] \in Seq(Frames(WireMessage)) /\ DOMAIN lane'[a] = {}
    BY <1>2
<1>4. Net!TypeOK'
    BY <1>2, <1>3 DEF Net!TypeOK, Net!Frames, Frames
<1> QED
    BY <1>1, <1>2, <1>3, <1>4, NetworkOnlyStep

(* A frame nobody can use only leaves its box.                             *)
LEMMA DiscardStep ==
    ASSUME IInv, NEW a \in Agent, Discard(a)
    PROVE  IInv'
<1>1. Net!TypeOK /\ Net!Pop(a) /\ UNCHANGED sessions /\ lane' = lane
    BY DEF IInv, TypeOK, Discard
<1>2. /\ box' \in [Agent -> Seq(Frames(WireMessage))]
      /\ \A b \in Agent : \A i \in DOMAIN box'[b] : InNetwork(b, box'[b][i])
    BY <1>1, PopEffect DEF InNetwork
<1>3. Net!TypeOK'
    BY <1>1, <1>2 DEF Net!TypeOK, Net!Frames, Frames
<1> QED
    BY <1>1, <1>2, <1>3, NetworkOnlyStep DEF InNetwork

-----------------------------------------------------------------------------
(* Before anything happened, the invariant holds.                          *)
LEMMA InitInvariant == Init => IInv
<1> SUFFICES ASSUME Init PROVE IInv
    OBVIOUS
<1>1. /\ phase = [s \in Slot |-> "Idle"] /\ peer = [s \in Slot |-> None]
      /\ cause = [s \in Slot |-> None] /\ made = [s \in Slot |-> 0] /\ accepted = {}
      /\ lane = [a \in Agent |-> << >>] /\ box = [a \in Agent |-> << >>]
    BY DEF Init, Net!Init
<1>2. SessionTypeOK
    BY <1>1, MaxDataAssumption DEF SessionTypeOK, Phase, MaxDataAssumption
<1>3. Net!TypeOK
    BY <1>1 DEF Net!TypeOK
<1>4. FramesAuthentic
    BY <1>1 DEF FramesAuthentic
<1>5. SessionFacts
    BY <1>1 DEF SessionFacts, SessionFact, Opened, Initiated, Responded
<1>6. DataFromPeer
    BY <1>1 DEF DataFromPeer
<1> QED
    BY <1>2, <1>3, <1>4, <1>5, <1>6 DEF IInv, TypeOK

(* No step of the program breaks it.                                       *)
LEMMA NextInvariant == IInv /\ [Next]_vars => IInv'
<1> SUFFICES ASSUME IInv, [Next]_vars PROVE IInv'
    OBVIOUS
<1>1. ASSUME NEW s \in Slot, NEW p \in Agent, Open(s, p) PROVE IInv'
    BY <1>1, OpenStep
<1>2. ASSUME NEW s \in Slot, SendData(s) PROVE IInv'
    BY <1>2, SendDataStep
<1>3. ASSUME NEW s \in Slot, Close(s) PROVE IInv'
    BY <1>3, CloseStep
<1>4. ASSUME Flush PROVE IInv'
    BY <1>4, FlushStep
<1>5. ASSUME NEW a \in Agent, Discard(a) PROVE IInv'
    BY <1>5, DiscardStep
<1>6. ASSUME NEW a \in Agent, NEW s \in Slot, Dispatch(a, s) PROVE IInv'
    <2> DEFINE m == Head(box[a]).msg
    <2>1. Owner[s] = a /\ Net!Pop(a) /\ (AcceptHello(s, m) \/ Complete(s, m) \/ ReceiveData(s, m))
        BY <1>6 DEF Dispatch
    <2>2. m \in WireMessage /\ Authentic(a, m)
        BY <2>1, HeadAuthentic
    <2> HIDE DEF m
    <2> QED
        BY <2>1, <2>2, AcceptHelloStep, CompleteStep, ReceiveDataStep
<1>7. ASSUME UNCHANGED vars PROVE IInv'
    <2>1. UNCHANGED sessions /\ lane' = lane /\ box' = box
        BY <1>7 DEF vars
    <2>2. Net!TypeOK'
        BY <2>1 DEF IInv, TypeOK, Net!TypeOK
    <2> QED
        BY <2>1, <2>2, NetworkOnlyStep DEF InNetwork
<1> QED
    BY <1>1, <1>2, <1>3, <1>4, <1>5, <1>6, <1>7 DEF Next, Poll

(* The invariant holds in every state of every execution.                  *)
THEOREM Invariant == Spec => []IInv
BY InitInvariant, NextInvariant, PTL DEF Spec

(* Every session, counter and frame stays within its type.                 *)
THEOREM TypeCorrect == Spec => []TypeOK
<1>1. IInv => TypeOK
    BY DEF IInv
<1> QED
    BY <1>1, Invariant, PTL

(* Nobody forges a frame, and no fault produces one.                       *)
THEOREM FramesStayAuthentic == Spec => []FramesAuthentic
<1>1. IInv => FramesAuthentic
    BY DEF IInv
<1> QED
    BY <1>1, Invariant, PTL

(* Data is accepted only from an established session of the peer.          *)
THEOREM DataProvenance == Spec => []DataFromPeer
<1>1. IInv => DataFromPeer
    BY DEF IInv
<1> QED
    BY <1>1, Invariant, PTL

(* Whoever is established is established with somebody who took part.      *)
THEOREM AgreementHolds == Spec => []Agreement
<1>1. IInv => Agreement
    <2> SUFFICES ASSUME IInv, NEW s \in Slot
                 PROVE  LET t == cause[s].maker
                        IN  /\ Opened(s) <=> (Initiated(s) \/ Responded(s))
                            /\ Opened(s) => Owner[t] = peer[s] /\ peer[t] = Owner[s]
                            /\ Initiated(s) => Responded(t)
                            /\ Responded(s) => ~Responded(t) /\ phase[t] # "Idle"
        BY DEF Agreement
    <2>1. SessionFact(s)
        BY DEF IInv, SessionFacts
    <2> QED
        BY <2>1 DEF SessionFact, Initiated, Responded
<1> QED
    BY <1>1, Invariant, PTL

(* Unless an agent dials a peer twice, an initiator is established by the  *)
(* answer to its own hello.                                                *)
THEOREM PairedSessionsHold == Spec => []PairedSessions
<1>1. IInv => PairedSessions
    <2> SUFFICES ASSUME IInv, UniqueDial, NEW s \in Slot, Initiated(s)
                 PROVE  cause[cause[s].maker].maker = s
        BY DEF PairedSessions
    <2> DEFINE t == cause[s].maker
               u == cause[t].maker
    <2>1. t \in Slot
        BY DEF Initiated, IInv, TypeOK, SessionTypeOK, WireMessage
    <2>2. Opened(s) /\ Owner[t] = peer[s] /\ peer[t] = Owner[s]
        BY DEF IInv, SessionFacts, SessionFact, Initiated
    <2>3. Responded(t) /\ << s, Owner[t] >> \in Dial
        BY <2>2 DEF IInv, SessionFacts, SessionFact
    <2>4. u \in Slot
        BY <2>1, <2>3 DEF Responded, IInv, TypeOK, SessionTypeOK, WireMessage
    <2>5. SessionFact(t)
        BY <2>1 DEF IInv, SessionFacts
    <2> HIDE DEF t
    <2>6. Owner[u] = peer[t] /\ << u, Owner[t] >> \in Dial
        BY <2>3, <2>5 DEF SessionFact, Responded
    <2>7. << s, Owner[t] >> = << u, Owner[t] >>
        BY <2>2, <2>3, <2>6 DEF UniqueDial
    <2> QED
        BY <2>7 DEF t
<1> QED
    BY <1>1, Invariant, PTL

-----------------------------------------------------------------------------
(* A step of the handshake is a step of the connection it implements, or   *)
(* none at all: frames, counters and the bus are invisible there.          *)
Abs == [s \in Slot |-> IF cause[s] = None THEN None ELSE cause[s].maker]
LEMMA ConnectionStep ==
    ASSUME IInv, [Next]_vars
    PROVE  [ConnectionOf!Next]_ConnectionOf!vars
<1> USE DEF IInv
<1>1. SessionTypeOK
    BY DEF TypeOK
<1>2. ASSUME phase' = phase, peer' = peer, cause' = cause
      PROVE  UNCHANGED ConnectionOf!vars
    BY <1>2 DEF ConnectionOf!vars
<1>3. ASSUME NEW s \in Slot, NEW p \in Agent, Open(s, p)
      PROVE  ConnectionOf!Dialled(s, p)
    BY <1>3 DEF Open, ConnectionOf!Dialled
<1>4. ASSUME NEW s \in Slot, Close(s)
      PROVE  ConnectionOf!Finished(s)
    BY <1>4 DEF Close, ConnectionOf!Finished
<1>5. ASSUME NEW s \in Slot, NEW m \in WireMessage, Authentic(Owner[s], m), AcceptHello(s, m)
      PROVE  ConnectionOf!Joined(s, m.maker) \/ ConnectionOf!GaveUp(s)
    <2>1. CASE m.kind = "hello"
        <3>1. Abs' = [Abs EXCEPT ![s] = m.maker]
            BY <1>1, <1>5, <2>1, NoneAssumption DEF Abs, AcceptHello, SessionTypeOK, NoneAssumption
        <3>2. m.sender = Owner[m.maker] /\ peer[m.maker] = Owner[s] /\ phase[m.maker] # "Idle"
            BY <1>5, <2>1 DEF Authentic
        <3>3. /\ phase[s] = "Idle" /\ phase' = [phase EXCEPT ![s] = "Established"]
              /\ peer' = [peer EXCEPT ![s] = m.sender]
            BY <1>5, <2>1 DEF AcceptHello
        <3> QED
            BY <3>1, <3>2, <3>3 DEF Abs, ConnectionOf!Joined
    <2>2. CASE m.kind # "hello"
        BY <1>5, <2>2 DEF AcceptHello, ConnectionOf!GaveUp
    <2> QED
        BY <2>1, <2>2
<1>6. ASSUME NEW s \in Slot, NEW m \in WireMessage, Authentic(Owner[s], m), Complete(s, m)
      PROVE  ConnectionOf!Confirmed(s, m.maker) \/ ConnectionOf!GaveUp(s)
    <2>1. CASE m.kind = "hello_ack" /\ m.sender = peer[s]
        <3>1. /\ phase[s] = "Handshaking" /\ phase' = [phase EXCEPT ![s] = "Established"]
              /\ cause' = [cause EXCEPT ![s] = m] /\ peer' = peer
            BY <1>6, <2>1 DEF Complete
        <3>2. Abs' = [Abs EXCEPT ![s] = m.maker]
            BY <1>1, <3>1, NoneAssumption DEF Abs, SessionTypeOK, NoneAssumption
        <3>3. m.sender = Owner[m.maker] /\ peer[m.maker] = Owner[s] /\ Responded(m.maker)
            BY <1>6, <2>1 DEF Authentic
        <3>4. Opened(m.maker)
            BY <3>3 DEF SessionFacts, SessionFact, Responded, WireMessage
        <3> QED
            BY <2>1, <3>1, <3>2, <3>3, <3>4
               DEF Abs, Opened, ConnectionOf!Opened, ConnectionOf!Confirmed
    <2>2. CASE ~(m.kind = "hello_ack" /\ m.sender = peer[s])
        BY <1>6, <2>2 DEF Complete, ConnectionOf!GaveUp
    <2> QED
        BY <2>1, <2>2
<1>7. ASSUME NEW a \in Agent, NEW s \in Slot, Dispatch(a, s)
      PROVE  [ConnectionOf!Next]_ConnectionOf!vars
    <2> DEFINE m == Head(box[a]).msg
    <2>1. Owner[s] = a /\ Net!Pop(a) /\ (AcceptHello(s, m) \/ Complete(s, m) \/ ReceiveData(s, m))
        BY <1>7 DEF Dispatch
    <2>2. m \in WireMessage /\ Authentic(a, m) /\ m.maker \in Slot
        BY <2>1, HeadAuthentic DEF WireMessage
    <2> HIDE DEF m
    <2>3. CASE ReceiveData(s, m)
        BY <1>2, <2>3 DEF ReceiveData
    <2>4. CASE AcceptHello(s, m)
        BY <1>5, <2>1, <2>2, <2>4 DEF ConnectionOf!Next
    <2>5. CASE Complete(s, m)
        BY <1>6, <2>1, <2>2, <2>5 DEF ConnectionOf!Next
    <2> QED
        BY <2>1, <2>3, <2>4, <2>5
<1>8. ASSUME (\E s \in Slot : SendData(s)) \/ Flush \/ (\E a \in Agent : Discard(a)) \/ UNCHANGED vars
      PROVE  UNCHANGED ConnectionOf!vars
    BY <1>2, <1>8 DEF SendData, Flush, Discard, vars, sessions
<1> QED
    BY <1>3, <1>4, <1>7, <1>8 DEF Next, Poll, ConnectionOf!Next

(* The handshake over the faulty bus implements the networkless            *)
(* connection, whatever the bus does to the frames.                        *)
THEOREM HandshakeImplementsConnection == Spec => ConnectionSpec
<1>1. Init => ConnectionOf!Init
    BY DEF Init, ConnectionOf!Init
<1>2. IInv /\ [Next]_vars => [ConnectionOf!Next]_ConnectionOf!vars
    BY ConnectionStep
<1> QED
    BY <1>1, <1>2, Invariant, PTL DEF Spec, ConnectionSpec, ConnectionOf!Spec
-----------------------------------------------------------------------------
(* A frame is used once, on a bus that does not duplicate: no message is   *)
(* in the network twice, and none that has established a session is there  *)
(* any more.                                                               *)
Messages(q) == { q[i].msg : i \in DOMAIN q }
Solo(l, b) ==
    /\ \A i, j \in DOMAIN l : l[i].msg = l[j].msg => i = j
    /\ \A i, j \in DOMAIN b : b[i].msg = b[j].msg => i = j
    /\ Messages(l) \cap Messages(b) = {}

OneSessionPerFrame ==
    \A s, t \in Slot : s # t /\ cause[s] # None => cause[s] # cause[t]

UsedOnce ==
    /\ \A a \in Agent : Solo(lane[a], box[a])
    /\ \A a \in Agent : \A u \in Slot : cause[u] \notin Messages(lane[a]) \cup Messages(box[a])
    /\ OneSessionPerFrame

LEMMA SoloSend ==
    ASSUME TRUE \notin DuplicateRoll, NEW M, NEW l \in Seq(Frames(M)), NEW b, NEW m \in M,
           NEW frames \in Transmissions(m),
           Solo(l, b), m \notin Messages(l) \cup Messages(b)
    PROVE  Solo(l \o frames, b) /\ Messages(l \o frames) \subseteq Messages(l) \cup {m}
<1>1. frames = << >> \/ \E f : frames = << f >> /\ f.msg = m /\ f \in Frames(M)
  <2>1. CASE frames # << >>
    <3>1. PICK roll \in (DropRoll \cap {FALSE}) \X CorruptRoll \X DuplicateRoll :
             frames = Copies(m, roll[2], roll[3])
        BY <2>1 DEF Transmissions
    <3>2. roll[3] = FALSE /\ roll[2] \in BOOLEAN
        BY RollAssumption DEF RollAssumption
    <3>3. frames = << [msg |-> m, clean |-> ~roll[2]] >>
        BY <3>1, <3>2 DEF Copies
    <3>4. PICK f : f = [msg |-> m, clean |-> ~roll[2]]
        OBVIOUS
    <3>5. frames = << f >> /\ f.msg = m /\ f \in Frames(M)
        BY <3>3, <3>4 DEF Frames
    <3> QED
        BY <3>5
  <2> QED
      BY <2>1
<1>2. CASE frames = << >>
  <2>1. l \o frames = l
      BY <1>2
  <2> QED
      BY <2>1
<1>3. ASSUME NEW f \in Frames(M), frames = << f >>, f.msg = m
      PROVE  Solo(l \o frames, b) /\ Messages(l \o frames) \subseteq Messages(l) \cup {m}
  <2>1. PICK n \in Nat : n = Len(l) /\ DOMAIN l = 1 .. n
      OBVIOUS
  <2>2. PICK q : q = l \o frames
      OBVIOUS
  <2>3. DOMAIN q = 1 .. n + 1 /\ q[n + 1] = f /\ \A i \in 1 .. n : q[i] = l[i]
      BY <1>3, <2>1, <2>2
  <2>4. \A i \in 1 .. n + 1 : i \in 1 .. n \/ i = n + 1
      BY <2>1
  <2>5. \A i \in 1 .. n : l[i].msg # m
      BY <2>1 DEF Messages
  <2>6. \A i, j \in DOMAIN q : q[i].msg = q[j].msg => i = j
      BY <1>3, <2>1, <2>3, <2>4, <2>5 DEF Solo
  <2>7. Messages(q) = Messages(l) \cup {m}
    <3>1. \A i \in 1 .. n : i \in 1 .. n + 1
        BY <2>1
    <3>2. n + 1 \in 1 .. n + 1
        BY <2>1
    <3> QED
        BY <1>3, <2>1, <2>3, <2>4, <3>1, <3>2 DEF Messages
  <2> QED
      BY <2>2, <2>6, <2>7 DEF Solo
<1> QED
    BY <1>1, <1>2, <1>3

LEMMA SoloPop ==
    ASSUME NEW S, NEW l, NEW b \in Seq(S), b # << >>, Solo(l, b)
    PROVE  /\ Solo(l, Tail(b)) /\ Messages(Tail(b)) \subseteq Messages(b)
           /\ Head(b).msg \in Messages(b)
           /\ Head(b).msg \notin Messages(l) \cup Messages(Tail(b))
<1>1. PICK n \in Nat : n + 1 = Len(b) /\ DOMAIN b = 1 .. n + 1
  <2>1. Len(b) \in Nat /\ Len(b) # 0 /\ DOMAIN b = 1 .. Len(b)
      OBVIOUS
  <2>2. Len(b) - 1 \in Nat /\ (Len(b) - 1) + 1 = Len(b)
      BY <2>1
  <2> QED
      BY <2>1, <2>2
<1>2. PICK r : r = Tail(b)
    OBVIOUS
<1>3. DOMAIN r = 1 .. n /\ \A i \in 1 .. n : i + 1 \in DOMAIN b /\ r[i] = b[i + 1]
    BY <1>1, <1>2
<1>4. Head(b) = b[1] /\ 1 \in DOMAIN b /\ \A i \in 1 .. n : i + 1 # 1
    BY <1>1
<1>5. Messages(r) \subseteq Messages(b)
    BY <1>3 DEF Messages
<1>6. \A i, j \in DOMAIN r : r[i].msg = r[j].msg => i = j
  <2> SUFFICES ASSUME NEW i \in DOMAIN r, NEW j \in DOMAIN r, r[i].msg = r[j].msg PROVE i = j
      OBVIOUS
  <2>1. i + 1 = j + 1
      BY <1>3 DEF Solo
  <2> QED
      BY <1>3, <2>1
<1>7. Head(b).msg \in Messages(b)
    BY <1>4 DEF Messages
<1>8. Head(b).msg \notin Messages(r)
    BY <1>3, <1>4 DEF Messages, Solo
<1> QED
    BY <1>2, <1>5, <1>6, <1>7, <1>8 DEF Solo

LEMMA SoloDeliver ==
    ASSUME NEW S, NEW l \in Seq(S), NEW b \in Seq(S), NEW o, o \in ReorderBatch(l), Solo(l, b)
    PROVE  Solo(<< >>, b \o o) /\ Messages(b \o o) \subseteq Messages(b) \cup Messages(l)
<1>1. /\ o \in Seq(S)
      /\ \A i \in DOMAIN o : \E j \in DOMAIN l : o[i] = l[j]
    BY ReorderBatchKeepsFrames
<1>2. \A i, j \in DOMAIN o : o[i].msg = o[j].msg => i = j
  <2>1. CASE o = l
      BY <2>1 DEF Solo
  <2>2. ASSUME NEW p \in Orders(Len(l)), o = [i \in DOMAIN l |-> l[p[i]]]
        PROVE  \A i, j \in DOMAIN o : o[i].msg = o[j].msg => i = j
    <3>1. DOMAIN l = 1 .. Len(l) /\ DOMAIN o = DOMAIN l
        BY <2>2
    <3>2. \A i \in DOMAIN o : p[i] \in DOMAIN l /\ o[i] = l[p[i]]
        BY <2>2, <3>1 DEF Orders
    <3>3. \A i, j \in DOMAIN o : p[i] = p[j] => i = j
        BY <3>1 DEF Orders
    <3> QED
        BY <3>2, <3>3 DEF Solo
  <2> QED
      BY <2>1, <2>2 DEF ReorderBatch
<1>3. Messages(o) \subseteq Messages(l)
    BY <1>1 DEF Messages
<1>4. PICK m \in Nat, n \in Nat : m = Len(b) /\ n = Len(o)
    BY <1>1
<1>5. DOMAIN b = 1 .. m /\ DOMAIN o = 1 .. n
    BY <1>1, <1>4
<1>6. PICK q : q = b \o o
    OBVIOUS
<1>7. /\ DOMAIN q = 1 .. m + n
      /\ \A i \in DOMAIN q : \/ i \in DOMAIN b /\ q[i] = b[i]
                             \/ i > m /\ i - m \in DOMAIN o /\ q[i] = o[i - m]
    BY <1>1, <1>4, <1>5, <1>6
<1>8. Messages(q) \subseteq Messages(b) \cup Messages(o)
    BY <1>7 DEF Messages
<1>9. \A i, j \in DOMAIN q : q[i].msg = q[j].msg => i = j
  <2> SUFFICES ASSUME NEW i \in DOMAIN q, NEW j \in DOMAIN q, q[i].msg = q[j].msg PROVE i = j
      OBVIOUS
  <2>1. \A x \in DOMAIN b, y \in DOMAIN o : b[x].msg # o[y].msg
    <3>1. \A x \in DOMAIN b : b[x].msg \in Messages(b) /\ b[x].msg \notin Messages(l)
      <4> SUFFICES ASSUME NEW x \in DOMAIN b
                   PROVE  b[x].msg \in Messages(b) /\ b[x].msg \notin Messages(l)
          OBVIOUS
      <4>1. b[x].msg \in Messages(b)
          BY DEF Messages
      <4>2. Messages(l) \cap Messages(b) = {}
          BY DEF Solo
      <4> QED
          BY <4>1, <4>2
    <3>2. \A y \in DOMAIN o : o[y].msg \in Messages(l)
        BY <1>3 DEF Messages
    <3> QED
        BY <3>1, <3>2
  <2>2. CASE q[i] = b[i] /\ i \in DOMAIN b /\ q[j] = b[j] /\ j \in DOMAIN b
      BY <2>2 DEF Solo
  <2>3. CASE i > m /\ i - m \in DOMAIN o /\ q[i] = o[i - m] /\ j > m /\ j - m \in DOMAIN o /\ q[j] = o[j - m]
    <3>1. i - m = j - m
        BY <1>2, <2>3
    <3> QED
        BY <1>4, <1>7, <3>1
  <2> QED
      BY <1>7, <2>1, <2>2, <2>3
<1>10. Messages(<< >>) = {} /\ DOMAIN << >> = {}
    BY DEF Messages
<1> QED
    BY <1>3, <1>6, <1>8, <1>9, <1>10 DEF Solo

(* What is on its way to an agent is authentic; in particular it is on its *)
(* way to no other agent.                                                  *)
LEMMA TrafficAuthentic ==
    ASSUME IInv, NEW a \in Agent, NEW m \in Messages(lane[a]) \cup Messages(box[a])
    PROVE  m \in WireMessage /\ Authentic(a, m)
<1>1. lane[a] \in Seq(Frames(WireMessage)) /\ box[a] \in Seq(Frames(WireMessage))
    BY DEF IInv, TypeOK, Net!TypeOK, Net!Frames, Frames
<1>2. \/ \E i \in DOMAIN lane[a] : m = lane[a][i].msg
      \/ \E i \in DOMAIN box[a] : m = box[a][i].msg
    BY DEF Messages
<1>3. \A f \in Frames(WireMessage) : f.msg \in WireMessage
    BY DEF Frames
<1> QED
    BY <1>1, <1>2, <1>3 DEF IInv, FramesAuthentic

(* A message that is yet to be made is nowhere.                            *)
LEMMA NotYetMade ==
    ASSUME IInv, NEW s \in Slot
    PROVE  /\ phase[s] = "Idle" =>
                /\ \A a \in Agent : {Hello(s), HelloAck(s)} \cap (Messages(lane[a]) \cup Messages(box[a])) = {}
                /\ \A u \in Slot : cause[u] \notin {Hello(s), HelloAck(s)}
           /\ made[s] < MaxData =>
                /\ \A a \in Agent : Data(s, made[s] + 1) \notin Messages(lane[a]) \cup Messages(box[a])
                /\ \A u \in Slot : cause[u] # Data(s, made[s] + 1)
<1>1. SessionFact(s) /\ made[s] \in 0 .. MaxData
    BY DEF IInv, SessionFacts, TypeOK, SessionTypeOK
<1>2. ASSUME phase[s] = "Idle", NEW a \in Agent
      PROVE  {Hello(s), HelloAck(s)} \cap (Messages(lane[a]) \cup Messages(box[a])) = {}
  <2>1. ~Authentic(a, Hello(s))
      BY <1>2 DEF Authentic, Hello
  <2>2. ~Responded(s)
      BY <1>1, <1>2 DEF SessionFact, Opened, Responded
  <2>3. ~Authentic(a, HelloAck(s))
      BY <2>2 DEF Authentic, HelloAck
  <2> QED
      BY <2>1, <2>3, TrafficAuthentic
<1>3. ASSUME phase[s] = "Idle", NEW u \in Slot, cause[u] \in {Hello(s), HelloAck(s)}
      PROVE  FALSE
  <2>0. Hello(s).maker = s /\ HelloAck(s).maker = s /\ Hello(s) # None /\ HelloAck(s) # None
      BY FrameTypes, NoneAssumption DEF Hello, HelloAck
  <2>1. cause[u] # None /\ cause[u].maker = s
      BY <1>3, <2>0
  <2>2. SessionFact(u)
      BY DEF IInv, SessionFacts
  <2>3. ~Responded(s)
      BY <1>1, <1>3 DEF SessionFact, Opened, Responded
  <2>4. Responded(u) => phase[s] # "Idle"
      BY <2>1, <2>2 DEF SessionFact
  <2>5. Initiated(u) => Responded(s)
      BY <2>1, <2>2 DEF SessionFact
  <2>6. cause[u].kind \in {"hello", "hello_ack"}
      BY <1>3 DEF Hello, HelloAck
  <2> QED
      BY <1>3, <2>1, <2>3, <2>4, <2>5, <2>6 DEF Responded, Initiated
<1>4. ASSUME made[s] < MaxData, NEW a \in Agent
      PROVE  Data(s, made[s] + 1) \notin Messages(lane[a]) \cup Messages(box[a])
  <2>1. ~Authentic(a, Data(s, made[s] + 1))
      BY <1>1, MaxDataAssumption DEF Authentic, Data, MaxDataAssumption
  <2> QED
      BY <2>1, TrafficAuthentic
<1>5. ASSUME made[s] < MaxData, NEW u \in Slot, cause[u] = Data(s, made[s] + 1)
      PROVE  FALSE
  <2>1. made[s] + 1 \in 0 .. MaxData
      BY <1>1, <1>5, MaxDataAssumption DEF MaxDataAssumption
  <2>2. cause[u] # None /\ cause[u].kind = "data"
      BY <1>5, <2>1, FrameTypes, NoneAssumption DEF Data
  <2> QED
      BY <2>2 DEF IInv, SessionFacts, SessionFact
<1> QED
    BY <1>2, <1>3, <1>4, <1>5

(* Sending a message that is nowhere yet, after a frame may have been      *)
(* taken, keeps every message solo.                                        *)
LEMMA SendSolo ==
    ASSUME TRUE \notin DuplicateRoll, IInv, NEW a \in Agent, NEW m \in WireMessage, Net!Enqueue(a, m),
           \A b \in Agent : /\ Solo(lane[b], box'[b]) /\ m \notin Messages(lane[b])
                            /\ m \notin Messages(box'[b])
    PROVE  \A b \in Agent : /\ Solo(lane'[b], box'[b])
                            /\ Messages(lane'[b]) \subseteq Messages(lane[b]) \cup {m}
<1>1. PICK frames \in Transmissions(m) : lane' = [lane EXCEPT ![a] = @ \o frames]
    BY DEF Net!Enqueue, Net!Transmissions, Transmissions, Net!Copies, Copies
<1>2. lane \in [Agent -> Seq(Frames(WireMessage))]
    BY DEF IInv, TypeOK, Net!TypeOK, Net!Frames, Frames
<1>3. lane'[a] = lane[a] \o frames /\ \A b \in Agent : b # a => lane'[b] = lane[b]
    BY <1>1, <1>2
<1>4. Solo(lane[a] \o frames, box'[a]) /\ Messages(lane[a] \o frames) \subseteq Messages(lane[a]) \cup {m}
  <2>1. PICK l \in Seq(Frames(WireMessage)) : l = lane[a]
      BY <1>2
  <2>2. PICK b : b = box'[a]
      OBVIOUS
  <2>3. Solo(l, b) /\ m \notin Messages(l) \cup Messages(b)
      BY <2>1, <2>2
  <2>4. Solo(l \o frames, b) /\ Messages(l \o frames) \subseteq Messages(l) \cup {m}
      BY <2>3, SoloSend
  <2> QED
      BY <2>1, <2>2, <2>4
<1> QED
    BY <1>3, <1>4

(* A frame that is taken is then nowhere in the network.                   *)
LEMMA PopSolo ==
    ASSUME IInv, UsedOnce, NEW a \in Agent, Net!Pop(a)
    PROVE  /\ \A b \in Agent : /\ Solo(lane[b], box'[b]) /\ Messages(box'[b]) \subseteq Messages(box[b])
                               /\ Head(box[a]).msg \notin Messages(lane[b]) \cup Messages(box'[b])
           /\ Head(box[a]).msg \in Messages(box[a])
<1>1. box \in [Agent -> Seq(Frames(WireMessage))]
    BY DEF IInv, TypeOK, Net!TypeOK, Net!Frames, Frames
<1>2. box'[a] = Tail(box[a]) /\ \A b \in Agent : b # a => box'[b] = box[b]
    BY <1>1 DEF Net!Pop
<1>3. PICK q, l : q = box[a] /\ l = lane[a] /\ q \in Seq(Frames(WireMessage))
    BY <1>1
<1>4. Solo(l, q) /\ q # << >>
    BY <1>3 DEF UsedOnce, Net!Pop
<1>5. /\ Solo(l, Tail(q)) /\ Messages(Tail(q)) \subseteq Messages(q)
      /\ Head(q).msg \in Messages(q)
      /\ Head(q).msg \notin Messages(l) \cup Messages(Tail(q))
    BY <1>3, <1>4, SoloPop
<1>6. ASSUME NEW b \in Agent, b # a
      PROVE  Head(q).msg \notin Messages(lane[b]) \cup Messages(box[b])
  <2>1. Authentic(a, Head(q).msg)
      BY <1>3, <1>5, TrafficAuthentic
  <2>2. ~Authentic(b, Head(q).msg)
      BY <1>6, <2>1 DEF Authentic
  <2> QED
      BY <2>2, TrafficAuthentic
<1> QED
    BY <1>2, <1>3, <1>5, <1>6 DEF UsedOnce

(* The steps that establish nothing.                                       *)
LEMMA MovesUsedOnce ==
    ASSUME IInv, UsedOnce, cause' = cause,
           \/ UNCHANGED << lane, box >>
           \/ lane' = lane /\ \E a \in Agent : Net!Pop(a)
           \/ Net!Deliver
    PROVE  UsedOnce'
<1>1. OneSessionPerFrame'
    BY DEF UsedOnce, OneSessionPerFrame
<1>2. ASSUME NEW b \in Agent
      PROVE  /\ Solo(lane'[b], box'[b])
             /\ Messages(lane'[b]) \cup Messages(box'[b]) \subseteq Messages(lane[b]) \cup Messages(box[b])
  <2>1. CASE UNCHANGED << lane, box >>
      BY <2>1 DEF UsedOnce
  <2>2. ASSUME lane' = lane, NEW a \in Agent, Net!Pop(a)
        PROVE  /\ Solo(lane'[b], box'[b])
               /\ Messages(lane'[b]) \cup Messages(box'[b]) \subseteq Messages(lane[b]) \cup Messages(box[b])
      BY <2>2, PopSolo
  <2>3. CASE Net!Deliver
    <3>1. PICK order :
            /\ \A a \in Agent : order[a] \in ReorderBatch(lane[a])
            /\ box' = [a \in Agent |-> box[a] \o order[a]]
            /\ lane' = [a \in Agent |-> << >>]
        BY <2>3 DEF Net!Deliver, Net!ReorderBatch, ReorderBatch, Net!Orders, Orders
    <3>2. PICK l \in Seq(Frames(WireMessage)), q \in Seq(Frames(WireMessage)) :
            l = lane[b] /\ q = box[b]
        BY DEF IInv, TypeOK, Net!TypeOK, Net!Frames, Frames
    <3>7. PICK o \in ReorderBatch(l) : o = order[b]
        BY <3>1, <3>2
    <3>3. Solo(l, q)
        BY <3>2 DEF UsedOnce
    <3>4. Solo(<< >>, q \o o) /\ Messages(q \o o) \subseteq Messages(q) \cup Messages(l)
        BY <3>2, <3>3, <3>7, SoloDeliver
    <3>5. lane'[b] = << >> /\ box'[b] = q \o o
        BY <3>1, <3>2, <3>7
    <3>6. Messages(<< >>) = {}
        BY DEF Messages
    <3> QED
        BY <3>2, <3>4, <3>5, <3>6
  <2> QED
      BY <2>1, <2>2, <2>3
<1>3. \A b \in Agent : \A u \in Slot : cause'[u] \notin Messages(lane'[b]) \cup Messages(box'[b])
    BY <1>2 DEF UsedOnce
<1> QED
    BY <1>1, <1>2, <1>3 DEF UsedOnce, Messages, Solo

(* The steps that make a message, and establish nothing.                   *)
LEMMA SendUsedOnce ==
    ASSUME TRUE \notin DuplicateRoll, IInv, UsedOnce, cause' = cause, box' = box,
           NEW a \in Agent, NEW m \in WireMessage, Net!Enqueue(a, m),
           \A b \in Agent : m \notin Messages(lane[b]) \cup Messages(box[b]),
           \A u \in Slot : cause[u] # m
    PROVE  UsedOnce'
<1>1. OneSessionPerFrame'
    BY DEF UsedOnce, OneSessionPerFrame
<1>2. \A b \in Agent : /\ Solo(lane'[b], box'[b])
                       /\ Messages(lane'[b]) \subseteq Messages(lane[b]) \cup {m}
    BY SendSolo DEF UsedOnce
<1>3. \A b \in Agent : \A u \in Slot : cause'[u] \notin Messages(lane'[b]) \cup Messages(box'[b])
    BY <1>2 DEF UsedOnce
<1> QED
    BY <1>1, <1>2, <1>3 DEF UsedOnce, Messages, Solo

(* A frame that establishes a session is gone, and has established no other*)
LEMMA DispatchUsedOnce ==
    ASSUME TRUE \notin DuplicateRoll, IInv, UsedOnce, NEW s \in Slot, Net!Pop(Owner[s]),
           NEW m, m = Head(box[Owner[s]]).msg, AcceptHello(s, m) \/ Complete(s, m) \/ ReceiveData(s, m)
    PROVE  UsedOnce'
<1>1. PICK a \in Agent : a = Owner[s] /\ Net!Pop(a)
    BY OwnerAssumption DEF OwnerAssumption
<1>2. /\ m \in WireMessage /\ Authentic(a, m) /\ m \in Messages(box[a])
      /\ \A b \in Agent : /\ Solo(lane[b], box'[b]) /\ Messages(box'[b]) \subseteq Messages(box[b])
                          /\ m \notin Messages(lane[b]) \cup Messages(box'[b])
    BY <1>1, PopSolo, HeadAuthentic
<1>3. CASE lane' = lane /\ cause' = cause
    BY <1>1, <1>3, MovesUsedOnce
<1>4. ASSUME cause' = [cause EXCEPT ![s] = m],
             \A b \in Agent : /\ Solo(lane'[b], box'[b])
                              /\ m \notin Messages(lane'[b])
                              /\ \A u \in Slot : cause[u] \notin Messages(lane'[b])
      PROVE  UsedOnce'
  <2>1. cause'[s] = m /\ \A u \in Slot : u # s => cause'[u] = cause[u]
      BY <1>4 DEF IInv, TypeOK, SessionTypeOK
  <2>2. \A u \in Slot : cause[u] # m
      BY <1>2 DEF UsedOnce
  <2>3. OneSessionPerFrame'
      BY <2>1, <2>2 DEF UsedOnce, OneSessionPerFrame
  <2>4. \A b \in Agent : \A u \in Slot : cause'[u] \notin Messages(lane'[b]) \cup Messages(box'[b])
      BY <1>2, <1>4, <2>1 DEF UsedOnce
  <2> QED
      BY <1>4, <2>3, <2>4 DEF UsedOnce, Messages, Solo
<1>5. CASE lane' = lane /\ cause' = [cause EXCEPT ![s] = m]
    BY <1>2, <1>4, <1>5 DEF UsedOnce
<1>6. CASE /\ phase[s] = "Idle" /\ m.kind = "hello" /\ cause' = [cause EXCEPT ![s] = m]
           /\ Net!Enqueue(m.sender, HelloAck(s))
  <2>1. PICK ack \in WireMessage : ack = HelloAck(s) /\ ack # m
      BY <1>6, FrameTypes DEF HelloAck
  <2>2. /\ \A b \in Agent : ack \notin Messages(lane[b]) /\ ack \notin Messages(box[b])
        /\ \A u \in Slot : cause[u] # ack
      BY <1>6, <2>1, NotYetMade
  <2>3. PICK d \in Agent : d = m.sender /\ Net!Enqueue(d, ack)
      BY <1>2, <1>6, <2>1 DEF WireMessage
  <2>4. \A b \in Agent : /\ Solo(lane'[b], box'[b])
                         /\ Messages(lane'[b]) \subseteq Messages(lane[b]) \cup {ack}
      BY <1>2, <2>2, <2>3, SendSolo
  <2> QED
      BY <1>2, <1>4, <1>6, <2>1, <2>2, <2>4 DEF UsedOnce
<1> QED
    BY <1>3, <1>5, <1>6 DEF AcceptHello, Complete, ReceiveData

LEMMA UsedOnceStep ==
    ASSUME TRUE \notin DuplicateRoll
    PROVE  IInv /\ UsedOnce /\ [Next]_vars => UsedOnce'
<1> SUFFICES ASSUME IInv, UsedOnce, [Next]_vars PROVE UsedOnce'
    OBVIOUS
<1>1. ASSUME NEW s \in Slot, NEW p \in Agent, Open(s, p) PROVE UsedOnce'
  <2>1. phase[s] = "Idle" /\ Net!Enqueue(p, Hello(s)) /\ UNCHANGED << cause, box >>
      BY <1>1 DEF Open, Net!Post
  <2>2. PICK m \in WireMessage : m = Hello(s)
      BY FrameTypes
  <2>3. /\ \A b \in Agent : m \notin Messages(lane[b]) \cup Messages(box[b])
        /\ \A u \in Slot : cause[u] # m
      BY <2>1, <2>2, NotYetMade
  <2> QED
      BY <2>1, <2>2, <2>3, SendUsedOnce
<1>2. ASSUME NEW s \in Slot, SendData(s) PROVE UsedOnce'
  <2>1. /\ made[s] < MaxData /\ Net!Enqueue(peer[s], Data(s, made[s] + 1)) /\ UNCHANGED << cause, box >>
        /\ made[s] + 1 \in 0 .. MaxData /\ Opened(s)
      BY <1>2, MaxDataAssumption
         DEF SendData, Net!Post, Opened, IInv, TypeOK, SessionTypeOK, MaxDataAssumption
  <2>2. PICK m \in WireMessage : m = Data(s, made[s] + 1)
      BY <2>1, FrameTypes
  <2>3. /\ \A b \in Agent : m \notin Messages(lane[b]) \cup Messages(box[b])
        /\ \A u \in Slot : cause[u] # m
      BY <2>1, <2>2, NotYetMade
  <2>4. PICK p \in Agent : p = peer[s]
    <3>1. SessionFact(s) /\ cause[s] \in WireMessage \cup {None}
        BY DEF IInv, SessionFacts, TypeOK, SessionTypeOK
    <3>2. cause[s].maker \in Slot /\ Owner[cause[s].maker] = peer[s]
        BY <2>1, <3>1 DEF SessionFact, WireMessage
    <3> QED
        BY <3>2, OwnerAssumption DEF OwnerAssumption
  <2> QED
      BY <2>1, <2>2, <2>3, <2>4, SendUsedOnce
<1>3. ASSUME NEW s \in Slot, Close(s) PROVE UsedOnce'
    BY <1>3, MovesUsedOnce DEF Close
<1>4. ASSUME Flush PROVE UsedOnce'
    BY <1>4, MovesUsedOnce DEF Flush, sessions
<1>5. ASSUME NEW a \in Agent, Discard(a) PROVE UsedOnce'
    BY <1>5, MovesUsedOnce DEF Discard, sessions
<1>6. ASSUME NEW a \in Agent, NEW s \in Slot, Dispatch(a, s) PROVE UsedOnce'
  <2>1. PICK m : m = Head(box[a]).msg
      OBVIOUS
  <2>2. Owner[s] = a /\ Net!Pop(a) /\ (AcceptHello(s, m) \/ Complete(s, m) \/ ReceiveData(s, m))
      BY <1>6, <2>1 DEF Dispatch
  <2> QED
      BY <2>1, <2>2, DispatchUsedOnce
<1>7. ASSUME UNCHANGED vars PROVE UsedOnce'
    BY <1>7, MovesUsedOnce DEF vars, sessions
<1> QED
    BY <1>1, <1>2, <1>3, <1>4, <1>5, <1>6, <1>7 DEF Next, Poll

(* Without duplication, whatever else the bus does, the session a frame    *)
(* establishes has used up its one copy: there is no other session by that *)
(* frame and never will be.                                                *)
THEOREM FramesUsedOnce ==
    ASSUME TRUE \notin DuplicateRoll
    PROVE  Spec => []OneSessionPerCopy
<1>1. Init => UsedOnce
  <2> SUFFICES ASSUME Init PROVE UsedOnce
      OBVIOUS
  <2>1. /\ \A u \in Slot : cause[u] = None
        /\ \A a \in Agent : lane[a] = << >> /\ box[a] = << >>
      BY DEF Init, Net!Init
  <2>2. Messages(<< >>) = {} /\ Solo(<< >>, << >>)
      BY DEF Messages, Solo
  <2>3. OneSessionPerFrame
      BY <2>1 DEF OneSessionPerFrame
  <2> QED
      BY <2>1, <2>2, <2>3 DEF UsedOnce
<1>2. IInv /\ UsedOnce /\ [Next]_vars => UsedOnce'
    BY UsedOnceStep
<1>3. UsedOnce => OneSessionPerCopy
  <2> SUFFICES ASSUME UsedOnce, NEW s \in Slot, cause[s] # None
               PROVE  Cardinality({ t \in Slot : cause[t] = cause[s] })
                        + CopiesIn(lane[Owner[s]], cause[s]) + CopiesIn(box[Owner[s]], cause[s])
                      <= MostCopies
      BY DEF OneSessionPerCopy
  <2>1. { t \in Slot : cause[t] = cause[s] } = {s}
      BY DEF UsedOnce, OneSessionPerFrame
  <2>2. Owner[s] \in Agent
      BY OwnerAssumption
  <2>3. /\ { i \in DOMAIN lane[Owner[s]] : lane[Owner[s]][i].msg = cause[s] } = {}
        /\ { i \in DOMAIN box[Owner[s]] : box[Owner[s]][i].msg = cause[s] } = {}
      BY <2>2 DEF UsedOnce, Messages
  <2>4. Cardinality({s}) = 1 /\ Cardinality({}) = 0
      BY FS_Singleton, FS_EmptySet
  <2>5. MostCopies = 1
      BY DEF MostCopies
  <2>6. /\ Cardinality({ t \in Slot : cause[t] = cause[s] }) = 1
        /\ CopiesIn(lane[Owner[s]], cause[s]) = 0 /\ CopiesIn(box[Owner[s]], cause[s]) = 0
      BY <2>1, <2>3, <2>4 DEF CopiesIn
  <2> QED
      BY <2>5, <2>6
<1> QED
    BY <1>1, <1>2, <1>3, Invariant, PTL DEF Spec
-----------------------------------------------------------------------------
(* No session dies but of a crossing, if every agent has one session, an   *)
(* agent that is dialled dials at most its dialler (one server and its     *)
(* clients, or pairs that may dial each other), and the bus loses, damages *)
(* and reorders nothing.  It may duplicate.                                *)
SoundNet == TRUE \notin DropRoll /\ TRUE \notin CorruptRoll /\ ~Reorder
SingleSessions == \A s, t \in Slot : Owner[s] = Owner[t] => s = t
MutualDial == \A d, e \in Dial : e[2] = Owner[d[1]] => d[2] = Owner[e[1]]

(* The oldest frame of an agent on whose hello somebody is established is  *)
(* the ack, until its session completes.                                   *)
FirstIsAck(b, l) ==
    IF b # << >> THEN b[1].msg.kind = "hello_ack"
                 ELSE l # << >> /\ l[1].msg.kind = "hello_ack"
AckFirst ==
    \A s, t \in Slot :
        phase[s] = "Handshaking" /\ Responded(t) /\ cause[t].maker = s =>
            FirstIsAck(box[Owner[s]], lane[Owner[s]])
AllClean(q) == \A i \in DOMAIN q : q[i].clean
NothingDamaged == \A a \in Agent : AllClean(lane[a]) /\ AllClean(box[a])

LEMMA SoundTransmissions ==
    ASSUME SoundNet, NEW M, NEW m \in M, NEW frames \in Transmissions(m)
    PROVE  /\ frames \in Seq(Frames(M)) /\ frames # << >>
           /\ \A i \in DOMAIN frames : frames[i].msg = m /\ frames[i].clean
<1>1. PICK roll \in (DropRoll \cap {FALSE}) \X CorruptRoll \X DuplicateRoll :
         frames = Copies(m, roll[2], roll[3])
    BY DEF SoundNet, Transmissions
<1>2. roll[2] = FALSE /\ roll[3] \in BOOLEAN
    BY RollAssumption DEF RollAssumption, SoundNet
<1>3. PICK f : f = [msg |-> m, clean |-> TRUE]
    OBVIOUS
<1>4. f \in Frames(M) /\ f.msg = m /\ f.clean
    BY <1>3 DEF Frames
<1>5. frames = << f, f >> \/ frames = << f >>
    BY <1>1, <1>2, <1>3 DEF Copies
<1>6. CASE frames = << f, f >>
    BY <1>4, <1>6
<1>7. CASE frames = << f >>
    BY <1>4, <1>7
<1> QED
    BY <1>5, <1>6, <1>7

(* What one send and one delivery do to the two queues of an agent.        *)
LEMMA SoundSend ==
    ASSUME SoundNet, IInv, NothingDamaged, NEW a \in Agent, NEW m \in WireMessage, Net!Enqueue(a, m)
    PROVE  /\ \A b \in Agent : AllClean(lane'[b])
           /\ \A b \in Agent : \A q : FirstIsAck(q, lane[b]) => FirstIsAck(q, lane'[b])
           /\ m.kind = "hello_ack" /\ lane[a] = << >> => FirstIsAck(<< >>, lane'[a])
<1>1. PICK frames \in Transmissions(m) : lane' = [lane EXCEPT ![a] = @ \o frames]
    BY DEF Net!Enqueue, Net!Transmissions, Transmissions, Net!Copies, Copies
<1>2. lane \in [Agent -> Seq(Frames(WireMessage))]
    BY DEF IInv, TypeOK, Net!TypeOK, Net!Frames, Frames
<1>3. /\ frames \in Seq(Frames(WireMessage)) /\ frames # << >>
      /\ \A i \in DOMAIN frames : frames[i].msg = m /\ frames[i].clean
    BY SoundTransmissions
<1>4. PICK l : l = lane[a] /\ l \in Seq(Frames(WireMessage)) /\ AllClean(l)
    BY <1>2 DEF NothingDamaged
<1>5. lane'[a] = l \o frames /\ \A b \in Agent : b # a => lane'[b] = lane[b]
    BY <1>1, <1>2, <1>4
<1>6. PICK r : r = l \o frames
    OBVIOUS
<1>7. \A i \in DOMAIN r : \/ i \in DOMAIN l /\ r[i] = l[i]
                          \/ i - Len(l) \in DOMAIN frames /\ r[i] = frames[i - Len(l)]
    BY <1>3, <1>4, <1>6
<1>8. AllClean(r)
    BY <1>3, <1>4, <1>7 DEF AllClean
<1>9. l # << >> => r # << >> /\ r[1] = l[1]
    BY <1>3, <1>4, <1>6
<1>10. l = << >> => r # << >> /\ r[1].msg = m
    BY <1>3, <1>6
<1> QED
    BY <1>4, <1>5, <1>6, <1>8, <1>9, <1>10 DEF FirstIsAck, NothingDamaged

Joined(left, right, r) ==
    /\ \A i \in DOMAIN r : \/ i \in DOMAIN left /\ r[i] = left[i]
                           \/ i - Len(left) \in DOMAIN right /\ r[i] = right[i - Len(left)]
    /\ left # << >> => r # << >> /\ r[1] = left[1]
LEMMA JoinedPlaces ==
    ASSUME NEW S, NEW left \in Seq(S), NEW right \in Seq(S), NEW r, r = left \o right
    PROVE  Joined(left, right, r)
<1>1. \A i \in DOMAIN r : \/ i \in DOMAIN left /\ r[i] = left[i]
                          \/ i - Len(left) \in DOMAIN right /\ r[i] = right[i - Len(left)]
    OBVIOUS
<1>2. left # << >> => r # << >> /\ r[1] = left[1]
    OBVIOUS
<1> QED
    BY <1>1, <1>2 DEF Joined

LEMMA SoundDeliver ==
    ASSUME SoundNet, IInv, NothingDamaged, Net!Deliver
    PROVE  \A a \in Agent : /\ AllClean(lane'[a]) /\ AllClean(box'[a])
                            /\ FirstIsAck(box[a], lane[a]) => FirstIsAck(box'[a], lane'[a])
<1>1. PICK order :
        /\ \A a \in Agent : order[a] \in ReorderBatch(lane[a])
        /\ box' = [a \in Agent |-> box[a] \o order[a]]
        /\ lane' = [a \in Agent |-> << >>]
    BY DEF Net!Deliver, Net!ReorderBatch, ReorderBatch, Net!Orders, Orders
<1> SUFFICES ASSUME NEW a \in Agent
             PROVE  /\ AllClean(lane'[a]) /\ AllClean(box'[a])
                    /\ FirstIsAck(box[a], lane[a]) => FirstIsAck(box'[a], lane'[a])
    OBVIOUS
<1>2. PICK l, b : /\ l = lane[a] /\ l \in Seq(Frames(WireMessage)) /\ AllClean(l)
                  /\ b = box[a] /\ b \in Seq(Frames(WireMessage)) /\ AllClean(b)
    BY DEF IInv, TypeOK, Net!TypeOK, Net!Frames, Frames, NothingDamaged
<1>3. order[a] = l
    BY <1>1, <1>2 DEF ReorderBatch, SoundNet
<1>4. box'[a] = b \o l /\ lane'[a] = << >>
    BY <1>1, <1>2, <1>3
<1>5. PICK r : r = b \o l
    OBVIOUS
<1>6. Joined(b, l, r)
    BY <1>2, <1>5, JoinedPlaces
<1>7. AllClean(r) /\ AllClean(<< >>)
    BY <1>2, <1>6 DEF AllClean, Joined
<1>8. b # << >> => r # << >> /\ r[1] = b[1]
    BY <1>6 DEF Joined
<1>9. b = << >> => r = l
    BY <1>2, <1>5
<1> QED
    BY <1>2, <1>4, <1>5, <1>7, <1>8, <1>9 DEF FirstIsAck

LEMMA SoundPop ==
    ASSUME IInv, NothingDamaged, NEW a \in Agent, Net!Pop(a)
    PROVE  /\ \A b \in Agent : AllClean(box'[b]) /\ (b # a => box'[b] = box[b])
           /\ Head(box[a]).clean
<1>1. box \in [Agent -> Seq(Frames(WireMessage))]
    BY DEF IInv, TypeOK, Net!TypeOK, Net!Frames, Frames
<1>2. PICK q : q = box[a] /\ q \in Seq(Frames(WireMessage)) /\ q # << >> /\ AllClean(q)
    BY <1>1 DEF NothingDamaged, Net!Pop
<1>3. box'[a] = Tail(q) /\ \A b \in Agent : b # a => box'[b] = box[b]
    BY <1>1, <1>2 DEF Net!Pop
<1>4. \A i \in DOMAIN Tail(q) : i + 1 \in DOMAIN q /\ Tail(q)[i] = q[i + 1]
    BY <1>2
<1>5. AllClean(Tail(q))
    BY <1>2, <1>4 DEF AllClean
<1>6. 1 \in DOMAIN q /\ Head(q) = q[1]
    BY <1>2
<1> QED
    BY <1>2, <1>3, <1>5, <1>6 DEF AllClean, NothingDamaged

-----------------------------------------------------------------------------
(* Who can have sent what is on its way to a dialler: only the peer, and   *)
(* a hello only if that has dialled too.                                   *)
LEMMA OnlyThePeer ==
    ASSUME SingleSessions, MutualDial, IInv, NEW s \in Slot, phase[s] = "Handshaking",
           NEW m \in WireMessage, Authentic(Owner[s], m)
    PROVE  /\ m.maker \in Slot /\ Owner[m.maker] = peer[s] /\ m.sender = peer[s]
           /\ m.kind = "hello" => /\ phase[m.maker] # "Idle" /\ ~Responded(m.maker)
                                  /\ peer[m.maker] = Owner[s]
           /\ m.kind # "hello" => Responded(m.maker) /\ cause[m.maker].maker = s
<1>1. PICK t \in Slot : t = m.maker
    BY DEF WireMessage
<1>2. /\ SessionFact(s) /\ SessionFact(t) /\ cause[t] \in WireMessage \cup {None}
      /\ m.kind \in Kind
    BY DEF IInv, SessionFacts, TypeOK, SessionTypeOK, WireMessage
<1>3. cause[s] = None /\ << s, peer[s] >> \in Dial
    BY <1>2 DEF SessionFact, Opened
<1>4. m.sender = Owner[t] /\ peer[t] = Owner[s]
    BY <1>1 DEF Authentic
<1>5. CASE m.kind = "hello"
  <2>1. phase[t] # "Idle" /\ ~Responded(t) /\ << t, Owner[s] >> \in Dial
      BY <1>1, <1>5 DEF Authentic
  <2>2. peer[s] = Owner[t]
    <3>1. PICK d, e : d = << s, peer[s] >> /\ e = << t, Owner[s] >>
        OBVIOUS
    <3>2. d \in Dial /\ e \in Dial /\ d[1] = s /\ d[2] = peer[s] /\ e[1] = t /\ e[2] = Owner[s]
        BY <1>3, <2>1, <3>1
    <3> QED
        BY <3>2 DEF MutualDial
  <2> QED
      BY <1>1, <1>4, <1>5, <2>1, <2>2
<1>6. CASE m.kind # "hello"
  <2>1. Opened(t)
      BY <1>1, <1>2, <1>6 DEF Authentic, Kind, SessionFact, Responded
  <2>2. PICK u \in Slot : u = cause[t].maker
      BY <1>2, <2>1 DEF SessionFact, WireMessage
  <2>3. Owner[u] = peer[t] /\ peer[u] = Owner[t]
      BY <1>2, <2>1, <2>2 DEF SessionFact
  <2>4. u = s
      BY <1>4, <2>3 DEF SingleSessions
  <2>5. Initiated(t) => Responded(s)
      BY <1>2, <2>2, <2>4 DEF SessionFact
  <2>6. ~Responded(s)
      BY <1>3 DEF Responded
  <2>7. Responded(t)
      BY <1>2, <2>1, <2>5, <2>6 DEF SessionFact, Initiated, Responded
  <2> QED
      BY <1>1, <1>4, <1>6, <2>2, <2>3, <2>4, <2>7
<1> QED
    BY <1>5, <1>6

(* Nothing but hellos is on its way to an agent that has not moved yet.    *)
LEMMA OnlyHellos ==
    ASSUME SingleSessions, IInv, NEW s \in Slot, phase[s] = "Idle",
           NEW m \in WireMessage, Authentic(Owner[s], m)
    PROVE  m.kind = "hello"
<1> SUFFICES ASSUME m.kind # "hello" PROVE FALSE
    OBVIOUS
<1>1. PICK t \in Slot : t = m.maker
    BY DEF WireMessage
<1>2. /\ SessionFact(s) /\ SessionFact(t) /\ cause[t] \in WireMessage \cup {None}
      /\ m.kind \in Kind
    BY DEF IInv, SessionFacts, TypeOK, SessionTypeOK, WireMessage
<1>3. Opened(t) /\ peer[t] = Owner[s]
    BY <1>1, <1>2 DEF Authentic, Kind, SessionFact, Responded
<1>4. PICK u \in Slot : u = cause[t].maker
    BY <1>2, <1>3 DEF SessionFact, WireMessage
<1>5. Owner[u] = peer[t]
    BY <1>2, <1>3, <1>4 DEF SessionFact
<1>6. u = s
    BY <1>3, <1>5 DEF SingleSessions
<1>7. cause[s] = None
    BY <1>2 DEF SessionFact, Opened
<1>8. ~Responded(s) /\ (Initiated(t) \/ Responded(t))
    BY <1>2, <1>3, <1>7 DEF SessionFact, Initiated, Responded
<1> QED
    BY <1>2, <1>4, <1>6, <1>8 DEF SessionFact

(* A session that has dialled stays one that has, and keeps its peer.      *)
Dialled(s) == phase[s] # "Idle" /\ ~Responded(s)
LEMMA DialledStable ==
    ASSUME IInv, [Next]_vars, NEW s \in Slot, Dialled(s)
    PROVE  Dialled(s)' /\ peer'[s] = peer[s]
<1>1. SessionTypeOK
    BY DEF IInv, TypeOK
<1>2. ASSUME phase'[s] = phase[s], peer'[s] = peer[s], cause'[s] = cause[s]
      PROVE  Dialled(s)' /\ peer'[s] = peer[s]
    BY <1>2 DEF Dialled, Responded
<1>3. ASSUME NEW u \in Slot, NEW p \in Agent, Open(u, p)
      PROVE  Dialled(s)' /\ peer'[s] = peer[s]
    BY <1>1, <1>2, <1>3 DEF Open, Dialled, SessionTypeOK
<1>4. ASSUME NEW u \in Slot, SendData(u) \/ Close(u)
      PROVE  Dialled(s)' /\ peer'[s] = peer[s]
    BY <1>1, <1>4 DEF SendData, Close, Dialled, Responded, SessionTypeOK
<1>5. ASSUME NEW u \in Slot, NEW m, AcceptHello(u, m) \/ ReceiveData(u, m)
      PROVE  Dialled(s)' /\ peer'[s] = peer[s]
  <2>1. CASE ReceiveData(u, m)
      BY <1>2, <2>1 DEF ReceiveData
  <2>2. CASE AcceptHello(u, m)
    <3>1. u # s
        BY <2>2 DEF AcceptHello, Dialled
    <3>2. phase'[s] = phase[s] /\ peer'[s] = peer[s] /\ cause'[s] = cause[s]
        BY <1>1, <2>2, <3>1 DEF AcceptHello, SessionTypeOK
    <3> QED
        BY <1>2, <3>2
  <2> QED
      BY <1>5, <2>1, <2>2
<1>6. ASSUME NEW u \in Slot, NEW m, Complete(u, m)
      PROVE  Dialled(s)' /\ peer'[s] = peer[s]
  <2>1. CASE u # s
    <3>1. phase'[s] = phase[s] /\ peer'[s] = peer[s] /\ cause'[s] = cause[s]
        BY <1>1, <1>6, <2>1 DEF Complete, SessionTypeOK
    <3> QED
        BY <1>2, <3>1
  <2>2. CASE u = s
    <3>1. peer'[s] = peer[s] /\ phase'[s] \in {"Established", "Spent"}
        BY <1>1, <1>6, <2>2 DEF Complete, SessionTypeOK
    <3>2. cause'[s] = cause[s] \/ (cause'[s] = m /\ m.kind = "hello_ack")
        BY <1>1, <1>6, <2>2 DEF Complete, SessionTypeOK
    <3> QED
        BY <3>1, <3>2 DEF Dialled, Responded
  <2> QED
      BY <2>1, <2>2
<1>7. ASSUME Flush \/ (\E a \in Agent : Discard(a)) \/ UNCHANGED vars
      PROVE  Dialled(s)' /\ peer'[s] = peer[s]
    BY <1>2, <1>7 DEF Flush, Discard, vars, sessions
<1>8. ASSUME NEW a \in Agent, NEW u \in Slot, Dispatch(a, u)
      PROVE  Dialled(s)' /\ peer'[s] = peer[s]
    BY <1>5, <1>6, <1>8 DEF Dispatch
<1> QED
    BY <1>3, <1>4, <1>7, <1>8 DEF Next, Poll

LEMMA CrossingStable ==
    IInv /\ [Next]_vars /\ Crossing => Crossing'
<1> SUFFICES ASSUME IInv, [Next]_vars, NEW s \in Slot, NEW t \in Slot, Dialled(s), Dialled(t),
                    peer[s] = Owner[t], peer[t] = Owner[s]
             PROVE  Crossing'
    BY DEF Crossing, Dialled
<1>1. Dialled(s)' /\ peer'[s] = peer[s] /\ Dialled(t)' /\ peer'[t] = peer[t]
    BY DialledStable
<1> QED
    BY <1>1 DEF Crossing, Dialled

-----------------------------------------------------------------------------
(* The ack that answers a hello finds nothing before it.                   *)
LEMMA AckFindsNothing ==
    ASSUME SingleSessions, MutualDial, IInv, NEW s \in Slot, phase[s] = "Handshaking",
           NEW u \in Slot, phase[u] = "Idle",
           NEW m \in WireMessage, m.kind = "hello", m.maker = s, Authentic(Owner[u], m)
    PROVE  box[Owner[s]] = << >> /\ lane[Owner[s]] = << >> /\ m.sender = Owner[s]
<1>1. m.sender = Owner[s] /\ peer[s] = Owner[u]
    BY DEF Authentic
<1>2. PICK a \in Agent : a = Owner[s]
    BY OwnerAssumption DEF OwnerAssumption
<1>3. ASSUME NEW f \in Messages(lane[a]) \cup Messages(box[a]) PROVE FALSE
  <2>1. f \in WireMessage /\ Authentic(Owner[s], f)
      BY <1>2, TrafficAuthentic
  <2>2. /\ f.maker \in Slot /\ Owner[f.maker] = peer[s]
        /\ f.kind = "hello" => phase[f.maker] # "Idle"
        /\ f.kind # "hello" => Responded(f.maker)
      BY <2>1, OnlyThePeer
  <2>3. f.maker = u
      BY <1>1, <2>2 DEF SingleSessions
  <2>4. ~Responded(u)
      BY DEF IInv, SessionFacts, SessionFact, Opened, Responded
  <2> QED
      BY <2>2, <2>3, <2>4
<1>4. PICK l, b : /\ l = lane[a] /\ l \in Seq(Frames(WireMessage))
                  /\ b = box[a] /\ b \in Seq(Frames(WireMessage))
    BY DEF IInv, TypeOK, Net!TypeOK, Net!Frames, Frames
<1>5. DOMAIN l = {} /\ DOMAIN b = {}
    BY <1>3, <1>4 DEF Messages
<1>6. l = << >> /\ b = << >>
  <2>1. \A q \in Seq(Frames(WireMessage)) : q # << >> => 1 \in DOMAIN q
      OBVIOUS
  <2> QED
      BY <1>4, <1>5, <2>1
<1> QED
    BY <1>1, <1>2, <1>4, <1>6

(* What holds of all who wait.                                             *)
Waits == AckFirst /\ NothingDamaged /\ SpentOnlyByCrossing

(* A step after which nobody is newly dialling, spent or established.      *)
LEMMA WaitsUndisturbed ==
    ASSUME IInv, [Next]_vars, Waits, cause' = cause, NothingDamaged',
           \A s \in Slot : phase'[s] = "Handshaking" => phase[s] = "Handshaking",
           \A s \in Slot : phase'[s] = "Spent" => phase[s] = "Spent",
           \A s \in Slot : phase'[s] = "Handshaking" /\ FirstIsAck(box[Owner[s]], lane[Owner[s]])
                               => FirstIsAck(box'[Owner[s]], lane'[Owner[s]])
    PROVE  Waits'
<1>1. AckFirst'
  <2> SUFFICES ASSUME NEW s \in Slot, NEW t \in Slot,
                      (phase[s] = "Handshaking")', (Responded(t) /\ cause[t].maker = s)'
               PROVE  FirstIsAck(box'[Owner[s]], lane'[Owner[s]])
      BY DEF AckFirst, FirstIsAck
  <2>1. phase[s] = "Handshaking" /\ Responded(t) /\ cause[t].maker = s
      BY DEF Responded
  <2>2. FirstIsAck(box[Owner[s]], lane[Owner[s]])
      BY <2>1 DEF Waits, AckFirst
  <2> QED
      BY <2>2
<1>2. SpentOnlyByCrossing'
  <2>1. (\E s \in Slot : phase'[s] = "Spent") => Crossing
      BY DEF Waits, SpentOnlyByCrossing
  <2>2. Crossing => Crossing'
      BY CrossingStable
  <2> QED
      BY <2>1, <2>2 DEF SpentOnlyByCrossing
<1> QED
    BY <1>1, <1>2 DEF Waits

LEMMA OpenWaits ==
    ASSUME SoundNet, IInv, [Next]_vars, Waits, NEW s \in Slot, NEW p \in Agent, Open(s, p)
    PROVE  Waits'
<1>1. /\ phase[s] = "Idle" /\ Net!Enqueue(p, Hello(s))
      /\ cause' = cause /\ box' = box /\ phase' = [phase EXCEPT ![s] = "Handshaking"]
    BY DEF Open, Net!Post
<1>2. /\ \A b \in Agent : AllClean(lane'[b])
      /\ \A b \in Agent : \A q : FirstIsAck(q, lane[b]) => FirstIsAck(q, lane'[b])
    BY <1>1, FrameTypes, SoundSend DEF Waits
<1>3. NothingDamaged'
    BY <1>1, <1>2 DEF Waits, NothingDamaged, AllClean
<1>4. \A u \in Slot : u # s => phase'[u] = phase[u]
    BY <1>1 DEF IInv, TypeOK, SessionTypeOK
<1>5. phase'[s] = "Handshaking"
    BY <1>1 DEF IInv, TypeOK, SessionTypeOK
<1>6. AckFirst'
  <2> SUFFICES ASSUME NEW u \in Slot, NEW t \in Slot,
                      (phase[u] = "Handshaking")', (Responded(t) /\ cause[t].maker = u)'
               PROVE  FirstIsAck(box'[Owner[u]], lane'[Owner[u]])
      BY DEF AckFirst, FirstIsAck
  <2>1. Responded(t) /\ cause[t].maker = u
      BY <1>1 DEF Responded
  <2>2. u # s
    <3>1. SessionFact(t)
        BY DEF IInv, SessionFacts
    <3> QED
        BY <1>1, <2>1, <3>1 DEF SessionFact
  <2>3. FirstIsAck(box[Owner[u]], lane[Owner[u]])
      BY <1>4, <2>1, <2>2 DEF Waits, AckFirst
  <2>4. Owner[u] \in Agent
      BY OwnerAssumption DEF OwnerAssumption
  <2> QED
      BY <1>1, <1>2, <2>3, <2>4
<1>7. SpentOnlyByCrossing'
  <2>1. (\E u \in Slot : phase'[u] = "Spent") => Crossing
      BY <1>4, <1>5 DEF Waits, SpentOnlyByCrossing
  <2>2. Crossing => Crossing'
      BY CrossingStable
  <2> QED
      BY <2>1, <2>2 DEF SpentOnlyByCrossing
<1> QED
    BY <1>3, <1>6, <1>7 DEF Waits

LEMMA SendDataWaits ==
    ASSUME SoundNet, IInv, [Next]_vars, Waits, NEW s \in Slot, SendData(s)
    PROVE  Waits'
<1>1. /\ Opened(s) /\ Net!Enqueue(peer[s], Data(s, made[s] + 1))
      /\ cause' = cause /\ box' = box /\ phase' = phase /\ made[s] + 1 \in 0 .. MaxData
    BY MaxDataAssumption
       DEF SendData, Net!Post, Opened, IInv, TypeOK, SessionTypeOK, MaxDataAssumption
<1>2. PICK p \in Agent, m \in WireMessage : Net!Enqueue(p, m)
  <2>1. SessionFact(s) /\ cause[s] \in WireMessage \cup {None}
      BY DEF IInv, SessionFacts, TypeOK, SessionTypeOK
  <2>2. cause[s].maker \in Slot /\ Owner[cause[s].maker] = peer[s]
      BY <1>1, <2>1 DEF SessionFact, WireMessage
  <2>3. PICK p \in Agent, m \in WireMessage : p = peer[s] /\ m = Data(s, made[s] + 1)
      BY <1>1, <2>2, FrameTypes, OwnerAssumption DEF OwnerAssumption
  <2> QED
      BY <1>1, <2>3
<1>3. /\ \A b \in Agent : AllClean(lane'[b])
      /\ \A b \in Agent : \A q : FirstIsAck(q, lane[b]) => FirstIsAck(q, lane'[b])
    BY <1>2, SoundSend DEF Waits
<1>4. NothingDamaged'
    BY <1>1, <1>3 DEF Waits, NothingDamaged, AllClean
<1>5. \A u \in Slot : Owner[u] \in Agent
    BY OwnerAssumption DEF OwnerAssumption
<1> QED
    BY <1>1, <1>3, <1>4, <1>5, WaitsUndisturbed

LEMMA NetworkWaits ==
    ASSUME SoundNet, IInv, [Next]_vars, Waits,
           Flush \/ (\E s \in Slot : Close(s)) \/ (\E a \in Agent : Discard(a)) \/ UNCHANGED vars
    PROVE  Waits'
<1>1. CASE Flush
  <2>1. Net!Deliver /\ phase' = phase /\ cause' = cause
      BY <1>1 DEF Flush, sessions
  <2>2. \A a \in Agent : /\ AllClean(lane'[a]) /\ AllClean(box'[a])
                         /\ FirstIsAck(box[a], lane[a]) => FirstIsAck(box'[a], lane'[a])
      BY <2>1, SoundDeliver DEF Waits
  <2>3. NothingDamaged'
      BY <2>2 DEF NothingDamaged, AllClean
  <2>4. \A u \in Slot : Owner[u] \in Agent
      BY OwnerAssumption DEF OwnerAssumption
  <2> QED
      BY <2>1, <2>2, <2>3, <2>4, WaitsUndisturbed
<1>2. ASSUME NEW s \in Slot, Close(s) PROVE Waits'
  <2>1. /\ phase[s] = "Established" /\ phase' = [phase EXCEPT ![s] = "Closed"]
        /\ cause' = cause /\ lane' = lane /\ box' = box
      BY <1>2 DEF Close
  <2>2. /\ \A u \in Slot : phase'[u] = "Handshaking" => phase[u] = "Handshaking"
        /\ \A u \in Slot : phase'[u] = "Spent" => phase[u] = "Spent"
      BY <2>1 DEF IInv, TypeOK, SessionTypeOK
  <2>3. NothingDamaged'
      BY <2>1 DEF Waits, NothingDamaged, AllClean
  <2> QED
      BY <2>1, <2>2, <2>3, WaitsUndisturbed
<1>3. ASSUME NEW a \in Agent, Discard(a) PROVE Waits'
  <2>1. Net!Pop(a) /\ phase' = phase /\ cause' = cause /\ lane' = lane
      BY <1>3 DEF Discard, sessions
  <2>2. /\ \A b \in Agent : AllClean(box'[b]) /\ (b # a => box'[b] = box[b])
        /\ Head(box[a]).clean
      BY <2>1, SoundPop DEF Waits
  <2>3. NothingDamaged'
      BY <2>1, <2>2 DEF Waits, NothingDamaged, AllClean
  <2>4. \A s \in Slot : Owner[s] = a => phase[s] = "Spent"
      BY <1>3, <2>2 DEF Discard
  <2>5. \A s \in Slot : phase'[s] = "Handshaking" => Owner[s] \in Agent /\ Owner[s] # a
      BY <2>1, <2>4, OwnerAssumption DEF OwnerAssumption
  <2> QED
      BY <2>1, <2>2, <2>3, <2>5, WaitsUndisturbed
<1>4. CASE UNCHANGED vars
  <2>1. phase' = phase /\ cause' = cause /\ lane' = lane /\ box' = box
      BY <1>4 DEF vars, sessions
  <2>2. NothingDamaged'
      BY <2>1 DEF Waits, NothingDamaged, AllClean
  <2> QED
      BY <2>1, <2>2, WaitsUndisturbed
<1> QED
    BY <1>1, <1>2, <1>3, <1>4

(* A frame handed to a session that waits for one.                         *)
LEMMA DispatchWaits ==
    ASSUME SoundNet, SingleSessions, MutualDial, IInv, [Next]_vars, Waits,
           NEW s \in Slot, NEW m, m = Head(box[Owner[s]]).msg, Net!Pop(Owner[s]),
           AcceptHello(s, m) \/ Complete(s, m) \/ ReceiveData(s, m)
    PROVE  Waits'
<1>1. PICK a \in Agent : a = Owner[s] /\ Net!Pop(a)
    BY OwnerAssumption DEF OwnerAssumption
<1>2. m \in WireMessage /\ Authentic(a, m)
    BY <1>1, HeadAuthentic
<1>3. \A b \in Agent : AllClean(box'[b]) /\ (b # a => box'[b] = box[b])
    BY <1>1, SoundPop DEF Waits
<1>4. \A u \in Slot : Owner[u] \in Agent /\ (u # s => Owner[u] # a)
    BY <1>1, OwnerAssumption DEF OwnerAssumption, SingleSessions
<1>5. SessionTypeOK
    BY DEF IInv, TypeOK
<1>6. CASE ReceiveData(s, m)
  <2>1. /\ phase' = phase /\ cause' = cause /\ lane' = lane
        /\ phase[s] \in {"Established", "Closed"}
      BY <1>6 DEF ReceiveData
  <2>2. NothingDamaged'
      BY <1>3, <2>1 DEF Waits, NothingDamaged, AllClean
  <2> QED
      BY <1>3, <1>4, <2>1, <2>2, WaitsUndisturbed
<1>7. CASE Complete(s, m)
  <2>1. phase[s] = "Handshaking" /\ lane' = lane /\ \A u \in Slot : u # s => phase'[u] = phase[u]
      BY <1>5, <1>7 DEF Complete, SessionTypeOK
  <2>2. /\ m.maker \in Slot /\ m.sender = peer[s] /\ Owner[m.maker] = peer[s]
        /\ m.kind = "hello" => Dialled(m.maker) /\ peer[m.maker] = Owner[s]
        /\ m.kind # "hello" => Responded(m.maker) /\ cause[m.maker].maker = s
      BY <1>1, <1>2, <2>1, OnlyThePeer DEF Dialled
  <2>3. NothingDamaged'
      BY <1>3, <2>1 DEF Waits, NothingDamaged, AllClean
  <2>4. phase'[s] \in {"Established", "Spent"}
      BY <1>5, <1>7 DEF Complete, SessionTypeOK
  <2>5. \A t \in Slot : Responded(t)' => Responded(t) /\ cause'[t] = cause[t]
    <3>1. \A t \in Slot : t # s => cause'[t] = cause[t]
        BY <1>5, <1>7 DEF Complete, SessionTypeOK
    <3>2. cause'[s] = cause[s] \/ (cause'[s] = m /\ m.kind = "hello_ack")
        BY <1>5, <1>7 DEF Complete, SessionTypeOK
    <3> QED
        BY <3>1, <3>2 DEF Responded
  <2>6. AckFirst'
    <3> SUFFICES ASSUME NEW u \in Slot, NEW t \in Slot,
                        (phase[u] = "Handshaking")', (Responded(t) /\ cause[t].maker = u)'
                 PROVE  FirstIsAck(box'[Owner[u]], lane'[Owner[u]])
        BY DEF AckFirst, FirstIsAck
    <3>1. u # s /\ phase[u] = "Handshaking" /\ Responded(t) /\ cause[t].maker = u
        BY <2>1, <2>4, <2>5
    <3>2. box'[Owner[u]] = box[Owner[u]]
        BY <1>3, <1>4, <3>1
    <3> QED
        BY <2>1, <3>1, <3>2 DEF Waits, AckFirst
  <2>7. phase'[s] = "Spent" => Crossing
    <3>1. CASE m.kind = "hello"
      <4>1. ~Responded(s)
          BY <2>1 DEF IInv, SessionFacts, SessionFact, Opened, Responded
      <4> QED
          BY <2>1, <2>2, <3>1, <4>1 DEF Crossing, Dialled
    <3>2. CASE m.kind # "hello"
      <4>1. PICK q : q = box[a] /\ q \in Seq(Frames(WireMessage)) /\ q # << >>
          BY <1>1 DEF Net!Pop, IInv, TypeOK, Net!TypeOK, Net!Frames, Frames
      <4>2. FirstIsAck(q, lane[a])
          BY <1>1, <2>1, <2>2, <3>2, <4>1 DEF Waits, AckFirst
      <4>3. Head(q) = q[1]
          BY <4>1
      <4>4. m.kind = "hello_ack"
          BY <1>1, <4>1, <4>2, <4>3 DEF FirstIsAck
      <4>5. phase'[s] = "Established"
          BY <1>5, <1>7, <2>2, <4>4 DEF Complete, SessionTypeOK
      <4> QED
          BY <4>5
    <3> QED
        BY <3>1, <3>2
  <2>8. SpentOnlyByCrossing'
    <3>1. (\E u \in Slot : phase'[u] = "Spent") => Crossing
        BY <2>1, <2>7 DEF Waits, SpentOnlyByCrossing
    <3>2. Crossing => Crossing'
        BY CrossingStable
    <3> QED
        BY <3>1, <3>2 DEF SpentOnlyByCrossing
  <2> QED
      BY <2>3, <2>6, <2>8 DEF Waits
<1>8. CASE AcceptHello(s, m)
  <2>1. phase[s] = "Idle" /\ m.kind = "hello"
      BY <1>1, <1>2, <1>8, OnlyHellos DEF AcceptHello
  <2>2. /\ phase' = [phase EXCEPT ![s] = "Established"]
        /\ cause' = [cause EXCEPT ![s] = m]
        /\ Net!Enqueue(m.sender, HelloAck(s))
      BY <1>8, <2>1 DEF AcceptHello
  <2>3. PICK d \in Agent, ack \in WireMessage :
           d = m.sender /\ ack = HelloAck(s) /\ ack.kind = "hello_ack" /\ Net!Enqueue(d, ack)
      BY <1>2, <2>2, FrameTypes DEF WireMessage, HelloAck
  <2>4. /\ \A b \in Agent : AllClean(lane'[b])
        /\ \A b \in Agent : \A q : FirstIsAck(q, lane[b]) => FirstIsAck(q, lane'[b])
        /\ lane[d] = << >> => FirstIsAck(<< >>, lane'[d])
      BY <2>3, SoundSend DEF Waits
  <2>5. NothingDamaged'
      BY <1>3, <2>4 DEF NothingDamaged, AllClean
  <2>6. /\ phase'[s] = "Established" /\ \A u \in Slot : u # s => phase'[u] = phase[u]
        /\ cause'[s] = m /\ \A u \in Slot : u # s => cause'[u] = cause[u]
      BY <1>5, <2>2 DEF SessionTypeOK
  <2>7. AckFirst'
    <3> SUFFICES ASSUME NEW u \in Slot, NEW t \in Slot,
                        (phase[u] = "Handshaking")', (Responded(t) /\ cause[t].maker = u)'
                 PROVE  FirstIsAck(box'[Owner[u]], lane'[Owner[u]])
        BY DEF AckFirst, FirstIsAck
    <3>1. u # s /\ phase[u] = "Handshaking" /\ box'[Owner[u]] = box[Owner[u]] /\ Owner[u] \in Agent
        BY <1>3, <1>4, <2>6
    <3>2. CASE t # s
      <4>1. Responded(t) /\ cause[t].maker = u
          BY <2>6, <3>2 DEF Responded
      <4>2. FirstIsAck(box[Owner[u]], lane[Owner[u]])
          BY <3>1, <4>1 DEF Waits, AckFirst
      <4> QED
          BY <2>4, <3>1, <4>2
    <3>3. CASE t = s
      <4>1. m.maker = u
          BY <2>6, <3>3
      <4>2. box[Owner[u]] = << >> /\ lane[Owner[u]] = << >> /\ m.sender = Owner[u]
          BY <1>1, <1>2, <2>1, <3>1, <4>1, AckFindsNothing
      <4> QED
          BY <2>3, <2>4, <3>1, <4>2
    <3> QED
        BY <3>2, <3>3
  <2>8. SpentOnlyByCrossing'
    <3>1. (\E u \in Slot : phase'[u] = "Spent") => Crossing
        BY <2>6 DEF Waits, SpentOnlyByCrossing
    <3>2. Crossing => Crossing'
        BY CrossingStable
    <3> QED
        BY <3>1, <3>2 DEF SpentOnlyByCrossing
  <2> QED
      BY <2>5, <2>7, <2>8 DEF Waits
<1> QED
    BY <1>6, <1>7, <1>8

LEMMA WaitsStep ==
    ASSUME SoundNet, SingleSessions, MutualDial
    PROVE  IInv /\ Waits /\ [Next]_vars => Waits'
<1> SUFFICES ASSUME IInv, Waits, [Next]_vars PROVE Waits'
    OBVIOUS
<1>1. ASSUME NEW s \in Slot, NEW p \in Agent, Open(s, p) PROVE Waits'
    BY <1>1, OpenWaits
<1>2. ASSUME NEW s \in Slot, SendData(s) PROVE Waits'
    BY <1>2, SendDataWaits
<1>3. CASE Flush \/ (\E s \in Slot : Close(s)) \/ (\E a \in Agent : Discard(a)) \/ UNCHANGED vars
    BY <1>3, NetworkWaits
<1>4. ASSUME NEW a \in Agent, NEW s \in Slot, Dispatch(a, s) PROVE Waits'
  <2>1. PICK m : m = Head(box[a]).msg
      OBVIOUS
  <2>2. Owner[s] = a /\ Net!Pop(a) /\ (AcceptHello(s, m) \/ Complete(s, m) \/ ReceiveData(s, m))
      BY <1>4, <2>1 DEF Dispatch
  <2> QED
      BY <2>1, <2>2, DispatchWaits
<1> QED
    BY <1>1, <1>2, <1>3, <1>4 DEF Next, Poll

(* On such a bus, and with such dialling, a session dies without being     *)
(* used only if both sides have dialled.                                   *)
THEOREM NoSessionWasted ==
    ASSUME SoundNet, SingleSessions, MutualDial
    PROVE  Spec => []SpentOnlyByCrossing
<1>1. Init => Waits
  <2> SUFFICES ASSUME Init PROVE Waits
      OBVIOUS
  <2>1. /\ \A u \in Slot : phase[u] = "Idle"
        /\ \A a \in Agent : lane[a] = << >> /\ box[a] = << >>
      BY DEF Init, Net!Init
  <2> QED
      BY <2>1 DEF Waits, AckFirst, NothingDamaged, AllClean, SpentOnlyByCrossing
<1>2. IInv /\ Waits /\ [Next]_vars => Waits'
    BY WaitsStep
<1>3. Waits => SpentOnlyByCrossing
    BY DEF Waits
<1> QED
    BY <1>1, <1>2, <1>3, Invariant, PTL DEF Spec
=============================================================================
