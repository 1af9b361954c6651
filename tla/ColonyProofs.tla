---------------------------- MODULE ColonyProofs ----------------------------
(***************************************************************************)
(* Theorems about Colony, for every number of agents, ticks and runs, and  *)
(* every set of locations.                                                 *)
(*                                                                         *)
(* The properties speak of a run that is over, or of the histories it has  *)
(* written; what they follow from is what is true while the loop is in the *)
(* middle of a tick: what the field holds (FieldNow), where a transaction  *)
(* may be open (HeldChosen), how far each history has got (InStep), and    *)
(* that a run being built has done nothing yet (NothingYet).               *)
(***************************************************************************)
EXTENDS Colony, FiniteSetTheorems, SequenceTheorems, WellFoundedInduction, TLAPS

(* A run whose agents are still being built has recorded nothing.          *)
NothingYet ==
    phase \in {"idle", "building"} =>
        /\ tick_choices = << >> /\ choice_history = << >> /\ concentration_history = << >>
        /\ file = before

BuiltInOrder == phase = "building" => \E n \in 0 .. NumAgents - 1 : open = 1 .. n

InStep ==
    /\ Len(concentration_history) = Len(choice_history)
    /\ Len(choice_history) = NumTicks => tick_choices = << >>
    /\ phase \in {"idle", "building", "ticking"} => consensus_tick = 0
    /\ deposit_amount = "negative" => tick_choices = << >> /\ choice_history = << >>

(* Only an observation of the run in progress can be held back.            *)
HeldChosen ==
    \A i \in Agents : held[i] # << >> => phase = "ticking" /\ Chosen(i) # << >>

(* What the field holds: of age 0, the choices of this tick so far, of age *)
(* k, those of the k-th tick before this one.                              *)
Choosing(choices, l) == { i \in DOMAIN choices : choices[i] = l }

FieldNow ==
    \A l \in Location, k \in Ages :
        conc[l][k] =
            IF k = 0 THEN Cardinality(Choosing(tick_choices, l))
            ELSE IF k <= Len(choice_history)
                 THEN Cardinality(Choosing(choice_history[Len(choice_history) - k + 1], l))
                 ELSE 0

IInv ==
    /\ TypeOK /\ NothingYet /\ BuiltInOrder /\ InStep /\ HeldChosen /\ FieldNow
    /\ RowsFollowChoices /\ FieldFollowsHistory /\ ConsensusOnDisk /\ LeftOpenByBuildingOnly

-----------------------------------------------------------------------------
(* Files and choices as sequences.                                         *)
Grown(f, b, c, x) ==
    /\ Append(f, x) \o << >> = b \o Append(c, x)
    /\ f \o Append(<< >>, x) = b \o Append(c, x)

LEMMA AppendBoth ==
    ASSUME NEW S, NEW f \in Seq(S), NEW b \in Seq(S), NEW c \in Seq(S), NEW x \in S,
           f \o << >> = b \o c
    PROVE  Grown(f, b, c, x)
<1>1. f = b \o c
    OBVIOUS
<1>2. Append(b \o c, x) = b \o Append(c, x)
    OBVIOUS
<1>3. Append(f, x) \o << >> = Append(f, x)
    OBVIOUS
<1>4. f \o Append(<< >>, x) = Append(f, x)
    OBVIOUS
<1> QED
    BY <1>1, <1>2, <1>3, <1>4 DEF Grown

(* A file behind which at most one row is held back has all rows but one.  *)
Trails(f, h, all) ==
    \/ h = << >> /\ f = all
    \/ h # << >> /\ f = SubSeq(all, 1, Len(all) - 1) /\ Len(f) = Len(all) - 1

LEMMA FileTrails ==
    ASSUME NEW S, NEW f \in Seq(S), NEW h \in Seq(S), Len(h) <= 1
    PROVE  Trails(f, h, f \o h)
<1>1. CASE h = << >>
    <2>1. f \o h = f
        BY <1>1
    <2> QED
        BY <1>1, <2>1 DEF Trails
<1>2. CASE h # << >>
    <2>1. Len(h) = 1
        <3>1. Len(h) \in Nat
            OBVIOUS
        <3>2. Len(h) # 0
            BY <1>2, EmptySeq
        <3> QED
            BY <3>1, <3>2
    <2>2. /\ Len(f \o h) = Len(f) + 1 /\ Len(f) \in Nat
          /\ Len(f \o h) - 1 = Len(f)
        <3>1. Len(f \o h) = Len(f) + Len(h) /\ Len(f) \in Nat
            BY ConcatProperties, LenProperties
        <3> QED
            BY <2>1, <3>1
    <2>3. SubSeq(f \o h, 1, Len(f)) = f
        <3>1. f \o h \in Seq(S) /\ \A i \in 1 .. Len(f) : (f \o h)[i] = f[i]
            OBVIOUS
        <3>2. SubSeq(f \o h, 1, Len(f)) = [i \in 1 .. Len(f) |-> (f \o h)[i]]
            BY <2>2, <3>1
        <3>3. f = [i \in 1 .. Len(f) |-> f[i]]
            OBVIOUS
        <3> QED
            BY <3>1, <3>2, <3>3
    <2> QED
        BY <1>2, <2>2, <2>3 DEF Trails
<1> QED
    BY <1>1, <1>2

LEMMA OneMore ==
    ASSUME NEW S, NEW b \in Seq(S), NEW x \in S
    PROVE  /\ Append(b, x) \in Seq(S) /\ Len(Append(b, x)) = Len(b) + 1
           /\ SubSeq(Append(b, x), 1, Len(b)) = b
<1>1. Append(b, x) \in Seq(S) /\ Len(Append(b, x)) = Len(b) + 1 /\ Len(b) \in Nat
      /\ \A i \in 1 .. Len(b) : Append(b, x)[i] = b[i]
    OBVIOUS
<1>2. SubSeq(Append(b, x), 1, Len(b)) = [i \in 1 .. Len(b) |-> Append(b, x)[i]]
    BY <1>1
<1>3. b = [i \in 1 .. Len(b) |-> b[i]]
    OBVIOUS
<1> QED
    BY <1>1, <1>2, <1>3

-----------------------------------------------------------------------------
(* The choices of one agent: those of the finished ticks, and the present  *)
(* one if its turn has come.                                               *)
Tick == [Agents -> Location]
Column(history, i) == [t \in DOMAIN history |-> history[t][i]]
Latest(choices, i) == IF i \in DOMAIN choices THEN << choices[i] >> ELSE << >>

LEMMA ChosenParts ==
    \A i : Chosen(i) = Column(choice_history, i) \o Latest(tick_choices, i)
BY DEF Chosen, Column, Latest

LEMMA ColumnType ==
    ASSUME NEW h \in Seq(Tick), NEW i \in Agents
    PROVE  /\ Column(h, i) \in Seq(Location) /\ Len(Column(h, i)) = Len(h)
           /\ \A t \in 1 .. Len(h) : Column(h, i)[t] = h[t][i]
<1>1. Len(h) \in Nat /\ DOMAIN h = 1 .. Len(h) /\ \A t \in 1 .. Len(h) : h[t] \in Tick
    OBVIOUS
<1>2. Column(h, i) \in [1 .. Len(h) -> Location]
    BY <1>1 DEF Column, Tick
<1> QED
    BY <1>1, <1>2 DEF Column

LEMMA LatestType ==
    ASSUME NEW c \in Seq(Location), NEW i
    PROVE  Latest(c, i) \in Seq(Location) /\ Len(Latest(c, i)) <= 1
<1>1. CASE i \in DOMAIN c
    BY <1>1 DEF Latest
<1>2. CASE i \notin DOMAIN c
    BY <1>2 DEF Latest
<1> QED
    BY <1>1, <1>2

(* The turn of an agent adds its choice to its own column only.            *)
LEMMA ChosenAfterTurn ==
    ASSUME NEW h \in Seq(Tick), NEW c \in Seq(Location), NEW l \in Location, NEW i \in Agents
    PROVE  Column(h, i) \o Latest(Append(c, l), i)
           = IF i = Len(c) + 1 THEN Append(Column(h, i) \o Latest(c, i), l)
             ELSE Column(h, i) \o Latest(c, i)
<1>1. /\ Len(c) \in Nat /\ DOMAIN c = 1 .. Len(c)
      /\ DOMAIN Append(c, l) = 1 .. Len(c) + 1 /\ Append(c, l)[Len(c) + 1] = l
      /\ \A j \in 1 .. Len(c) : Append(c, l)[j] = c[j]
    OBVIOUS
<1>2. Column(h, i) \in Seq(Location) /\ i \in Nat
    BY ColumnType, ConfigAssumption DEF Agents, ConfigAssumption
<1>3. CASE i = Len(c) + 1
    <2>1. Latest(c, i) = << >> /\ Latest(Append(c, l), i) = << l >>
        BY <1>1, <1>3 DEF Latest
    <2>2. \A r \in Seq(Location) : r \o << l >> = Append(r \o << >>, l)
        OBVIOUS
    <2> QED
        BY <1>2, <1>3, <2>1, <2>2
<1>4. CASE i # Len(c) + 1
    <2>1. Latest(Append(c, l), i) = Latest(c, i)
        BY <1>1, <1>2, <1>4 DEF Latest
    <2> QED
        BY <1>4, <2>1
<1> QED
    BY <1>3, <1>4

(* The end of a tick moves the choices to the columns.                     *)
LEMMA ChosenAfterTick ==
    ASSUME NEW h \in Seq(Tick), NEW c \in Tick, NEW i \in Agents
    PROVE  Column(Append(h, c), i) \o Latest(<< >>, i) = Column(h, i) \o Latest(c, i)
<1>1. Append(h, c) \in Seq(Tick) /\ DOMAIN c = Agents /\ c[i] \in Location
    BY DEF Tick
<1>2. Latest(<< >>, i) = << >> /\ Latest(c, i) = << c[i] >>
    BY <1>1 DEF Latest
<1>3. Column(h, i) \in Seq(Location) /\ Column(Append(h, c), i) \in Seq(Location)
    BY <1>1, ColumnType
<1>4. Column(Append(h, c), i) = Append(Column(h, i), c[i])
    <2>1. /\ Len(h) \in Nat /\ DOMAIN h = 1 .. Len(h) /\ DOMAIN Append(h, c) = 1 .. Len(h) + 1
          /\ Append(h, c)[Len(h) + 1] = c
          /\ \A t \in 1 .. Len(h) : Append(h, c)[t] = h[t]
        OBVIOUS
    <2>2. Column(Append(h, c), i) = [t \in 1 .. Len(h) + 1 |-> IF t <= Len(h) THEN h[t][i] ELSE c[i]]
        BY <2>1 DEF Column
    <2>3. Len(Column(h, i)) = Len(h)
        BY ColumnType
    <2>4. Append(Column(h, i), c[i])
          = [t \in 1 .. Len(h) + 1 |-> IF t <= Len(h) THEN Column(h, i)[t] ELSE c[i]]
        BY <1>1, <1>3, <2>1, <2>3
    <2>5. \A t \in 1 .. Len(h) + 1 : t <= Len(h) => Column(h, i)[t] = h[t][i]
        BY <2>1, ColumnType
    <2> QED
        BY <2>2, <2>4, <2>5
<1>5. \A r \in Seq(Location) : Append(r, c[i]) \o << >> = r \o << c[i] >>
    BY <1>1
<1> QED
    BY <1>2, <1>3, <1>4, <1>5

-----------------------------------------------------------------------------
(* Every inhabited set of naturals has a least element.                    *)
LEMMA Smallest ==
    ASSUME NEW T \in SUBSET Nat, T # {}
    PROVE  \E n \in T : \A m \in T : n <= m
<1> DEFINE R == { ss \in Nat \X Nat : ss[1] < ss[2] }
<1>1. IsWellFoundedOn(R, Nat)
    BY NatLessThanWellFounded DEF OpToRel
<1>2. \A m, n \in Nat : m < n => << m, n >> \in R
    OBVIOUS
<1> HIDE DEF R
<1>3. \E n \in T : \A m \in T : << m, n >> \notin R
    BY <1>1, WFMin, Zenon
<1>4. PICK n \in T : \A m \in T : << m, n >> \notin R
    BY <1>3
<1>5. ASSUME NEW m \in T
      PROVE  n <= m
    <2>1. m \in Nat /\ n \in Nat /\ << m, n >> \notin R
        BY <1>4
    <2>2. ~ (m < n)
        BY <1>2, <2>1
    <2> QED
        BY <2>1, <2>2
<1> QED
    BY <1>5

(* The search for consensus finds the first start, if there is one.        *)
LEMMA Found ==
    ASSUME NEW h \in Seq(Tick)
    PROVE  LET s == FindSustainedConsensusTick(h)
           IN  \/ s = 0
               \/ s \in Starts(h) /\ \A t \in Starts(h) : s <= t
<1>1. CASE Starts(h) = {}
    BY <1>1 DEF FindSustainedConsensusTick
<1>2. CASE Starts(h) # {}
    <2>1. Starts(h) \in SUBSET Nat
        BY DEF Starts
    <2>2. \E n \in Starts(h) : \A m \in Starts(h) : n <= m
        BY <1>2, <2>1, Smallest
    <2> QED
        BY <1>2, <2>2 DEF FindSustainedConsensusTick
<1> QED
    BY <1>1, <1>2

(* From the tick found on, every agent chose one location, and in the tick *)
(* before it some agent did not.                                           *)
LEMMA FoundMeaning ==
    ASSUME NEW h \in Seq(Tick), NEW s, s = FindSustainedConsensusTick(h), s # 0
    PROVE  /\ s \in 1 .. Len(h)
           /\ \E l \in Location :
                /\ \A t \in s .. Len(h), i \in Agents : h[t][i] = l
                /\ s = 1 \/ \E i \in Agents : h[s - 1][i] # l
<1>1. s \in Starts(h) /\ \A t \in Starts(h) : s <= t
    BY Found
<1>2. s \in 1 .. Len(h) /\ Sustained(h, s) /\ Len(h) \in Nat
    BY <1>1 DEF Starts
<1>3. \A t \in 1 .. Len(h) : h[t] \in Tick /\ DOMAIN h[t] = Agents
    BY DEF Tick
<1>4. 1 \in Agents
    BY ConfigAssumption DEF Agents, ConfigAssumption
<1> DEFINE l == h[s][1]
<1>5. l \in Location
    BY <1>2, <1>3, <1>4 DEF Tick
<1>6. \A t \in s .. Len(h) : Unanimous(h[t], l)
    BY <1>2 DEF Sustained
<1>7. \A t \in s .. Len(h), i \in Agents : h[t][i] = l
    BY <1>2, <1>3, <1>6 DEF Unanimous
<1>8. ASSUME s # 1, \A i \in Agents : h[s - 1][i] = l
      PROVE  FALSE
    <2>1. s - 1 \in 1 .. Len(h) /\ DOMAIN h[s - 1] = Agents
        BY <1>2, <1>3, <1>8
    <2>2. h[s - 1] # << >>
        <3>1. DOMAIN << >> = {}
            OBVIOUS
        <3> QED
            BY <1>4, <2>1, <3>1
    <2>3. h[s - 1][1] = l /\ Unanimous(h[s - 1], l)
        BY <1>4, <1>8, <2>1, <2>2 DEF Unanimous
    <2>4. \A t \in s - 1 .. Len(h) : t = s - 1 \/ t \in s .. Len(h)
        BY <1>2
    <2>5. Sustained(h, s - 1)
        BY <1>6, <2>2, <2>3, <2>4 DEF Sustained
    <2>6. s - 1 \in Starts(h)
        BY <2>1, <2>5 DEF Starts
    <2>7. s <= s - 1
        BY <1>1, <2>6
    <2> QED
        BY <1>2, <2>7
<1> QED
    BY <1>2, <1>5, <1>7, <1>8

-----------------------------------------------------------------------------
(* Counting the choices of a location.                                     *)
LEMMA ChoosingFinite ==
    ASSUME NEW c \in Seq(Location), NEW l
    PROVE  /\ IsFiniteSet(Choosing(c, l)) /\ Cardinality(Choosing(c, l)) \in Nat
           /\ Choosing(c, l) \subseteq 1 .. Len(c)
<1>1. Choosing(c, l) \in SUBSET (1 .. Len(c)) /\ Len(c) \in Nat
    BY DEF Choosing
<1>2. IsFiniteSet(1 .. Len(c))
    BY <1>1, FS_Interval
<1> QED
    BY <1>1, <1>2, FS_Subset, FS_CardinalityType

LEMMA ChoosingAppend ==
    ASSUME NEW c \in Seq(Location), NEW x \in Location, NEW l
    PROVE  Cardinality(Choosing(Append(c, x), l))
           = IF x = l THEN Cardinality(Choosing(c, l)) + 1 ELSE Cardinality(Choosing(c, l))
<1>1. /\ Len(c) \in Nat /\ DOMAIN c = 1 .. Len(c) /\ DOMAIN Append(c, x) = 1 .. Len(c) + 1
      /\ Append(c, x)[Len(c) + 1] = x /\ \A j \in 1 .. Len(c) : Append(c, x)[j] = c[j]
    OBVIOUS
<1>2. CASE x = l
    <2>1. Choosing(Append(c, x), l) = Choosing(c, l) \cup {Len(c) + 1}
        BY <1>1, <1>2 DEF Choosing
    <2>2. Len(c) + 1 \notin Choosing(c, l)
        BY <1>1 DEF Choosing
    <2> QED
        BY <1>2, <2>1, <2>2, ChoosingFinite, FS_AddElement
<1>3. CASE x # l
    <2>1. Choosing(Append(c, x), l) = Choosing(c, l)
        BY <1>1, <1>3 DEF Choosing
    <2> QED
        BY <1>3, <2>1
<1> QED
    BY <1>2, <1>3

-----------------------------------------------------------------------------
(* RowsFollowChoices, agent by agent.                                      *)
All(i) == before[i] \o Chosen(i)

Over(i) ==
    \/ file[i] = All(i)
    \/ Chosen(i) # << >> /\ file[i] = SubSeq(All(i), 1, Len(All(i)) - 1)
    \/ /\ deposit_amount = "negative" /\ i = 1 /\ Chosen(i) = << >>
       /\ Len(file[i]) = Len(All(i)) + 1 /\ SubSeq(file[i], 1, Len(All(i))) = All(i)

Rows(i) ==
    /\ IF phase = "ticking" THEN file[i] \o held[i] = All(i) ELSE Over(i)
    /\ phase = "returned" /\ program = "demo" => counts[i] \in {0, Len(All(i))}

LEMMA RowsEach == RowsFollowChoices <=> \A i \in Agents : Rows(i)
BY DEF RowsFollowChoices, Rows, Over, All

LEMMA Sequences ==
    ASSUME TypeOK, NEW i \in Agents
    PROVE  /\ file[i] \in Seq(Location) /\ before[i] \in Seq(Location)
           /\ held[i] \in Seq(Location) /\ Len(held[i]) <= 1
           /\ Chosen(i) \in Seq(Location) /\ All(i) \in Seq(Location)
<1>1. choice_history \in Seq(Tick) /\ tick_choices \in Seq(Location)
    BY DEF TypeOK, Tick
<1>2. Column(choice_history, i) \in Seq(Location) /\ Latest(tick_choices, i) \in Seq(Location)
    BY <1>1, ColumnType, LatestType
<1>3. Chosen(i) \in Seq(Location)
    BY <1>2, ChosenParts, ConcatProperties
<1>4. file[i] \in Seq(Location) /\ before[i] \in Seq(Location)
      /\ held[i] \in Seq(Location) /\ Len(held[i]) <= 1
    BY DEF TypeOK
<1>5. All(i) \in Seq(Location)
    BY <1>3, <1>4, ConcatProperties DEF All
<1> QED
    BY <1>3, <1>4, <1>5

LEMMA NothingChosen ==
    ASSUME choice_history = << >>, tick_choices = << >>
    PROVE  \A i : Chosen(i) = << >>
BY DEF Chosen

LEMMA FieldEmpty ==
    ASSUME conc = NoDeposits, choice_history = << >>, tick_choices = << >>
    PROVE  FieldNow
<1>1. \A l : Choosing(<< >>, l) = {}
    BY DEF Choosing
<1>2. \A l \in Location, k \in Ages : conc[l][k] = 0
    BY DEF NoDeposits
<1>3. \A k \in Ages : k <= 0 => k = 0
    BY ConfigAssumption DEF Ages, ConfigAssumption
<1>4. Cardinality({}) = 0 /\ Len(<< >>) = 0
    BY FS_EmptySet
<1> QED
    BY <1>1, <1>2, <1>3, <1>4 DEF FieldNow

LEMMA EmptyField == NoDeposits \in Field
BY DEF NoDeposits, Field

(* A step that leaves the histories and the field alone keeps what is said *)
(* of them.                                                                *)
LEMMA TraceKept ==
    ASSUME IInv, UNCHANGED << trace, conc, tick_choices >>
    PROVE  FieldNow' /\ FieldFollowsHistory'
BY DEF IInv, FieldNow, FieldFollowsHistory, trace

-----------------------------------------------------------------------------
LEMMA InitIInv == Init => IInv
<1> SUFFICES ASSUME Init PROVE IInv
    OBVIOUS
<1>1. /\ runs = 0 /\ phase = "idle" /\ open = {}
      /\ Configured(program, deposit_amount)
      /\ file = [i \in Agents |-> << >>] /\ held = file /\ before = file
      /\ conc = NoDeposits
      /\ tick_choices = << >> /\ choice_history = << >> /\ concentration_history = << >>
      /\ consensus_tick = 0
      /\ counts = [i \in Agents |-> 0]
    BY DEF Init
<1>2. \A i : Chosen(i) = << >>
    BY <1>1, NothingChosen
<1>3. TypeOK
    <2>1. \A S : << >> \in Seq(S) /\ Len(<< >>) = 0
        OBVIOUS
    <2>2. file \in [Agents -> Seq(Location)] /\ \A i \in Agents : held[i] = << >>
        BY <1>1, <2>1
    <2>3. 0 \in 0 .. MaxRuns /\ 0 \in 0 .. NumTicks /\ 0 <= NumTicks /\ 0 <= NumAgents /\ 0 <= 1
        BY RunsAssumption, ConfigAssumption DEF RunsAssumption, ConfigAssumption
    <2>4. program \in Programs /\ deposit_amount \in Amounts
        BY <1>1 DEF Configured
    <2> QED
        BY <1>1, <2>1, <2>2, <2>3, <2>4, EmptyField DEF TypeOK
<1>4. RowsFollowChoices
    <2>1. \A i \in Agents : file[i] = << >> /\ All(i) = << >>
        BY <1>1, <1>2 DEF All
    <2> QED
        BY <1>1, <2>1, RowsEach DEF Rows, Over
<1>5. FieldNow /\ FieldFollowsHistory
    BY <1>1, FieldEmpty DEF FieldFollowsHistory
<1>6. NothingYet /\ BuiltInOrder /\ HeldChosen
    BY <1>1 DEF NothingYet, BuiltInOrder, HeldChosen
<1>7. InStep
    BY <1>1 DEF InStep
<1>8. ConsensusOnDisk /\ LeftOpenByBuildingOnly
    BY <1>1 DEF ConsensusOnDisk, LeftOpenByBuildingOnly
<1> QED
    BY <1>3, <1>4, <1>5, <1>6, <1>7, <1>8 DEF IInv

LEMMA StartRunIInv ==
    ASSUME IInv, StartRun
    PROVE  IInv'
<1>1. /\ phase \in {"idle", "returned", "raised"} /\ runs < MaxRuns /\ runs' = runs + 1
      /\ phase' = "building" /\ open' = {}
      /\ Configured(program', deposit_amount')
      /\ conc' = NoDeposits
      /\ tick_choices' = << >> /\ choice_history' = << >> /\ concentration_history' = << >>
      /\ consensus_tick' = 0
      /\ counts' = [i \in Agents |-> 0]
      /\ before' = file
      /\ file' = file /\ held' = held
    BY DEF StartRun, disk
<1>2. \A i \in Agents : Chosen(i)' = << >>
    BY <1>1 DEF Chosen
<1>3. TypeOK'
    <2>1. \A S : << >> \in Seq(S) /\ Len(<< >>) = 0
        OBVIOUS
    <2>2. runs + 1 \in 0 .. MaxRuns /\ 0 \in 0 .. NumTicks /\ 0 <= NumTicks /\ 0 <= NumAgents
        BY <1>1, RunsAssumption, ConfigAssumption
           DEF IInv, TypeOK, RunsAssumption, ConfigAssumption
    <2>3. program' \in Programs /\ deposit_amount' \in Amounts
        BY <1>1 DEF Configured
    <2> QED
        BY <1>1, <2>1, <2>2, <2>3, EmptyField DEF IInv, TypeOK
<1>4. RowsFollowChoices'
    <2>1. ASSUME NEW i \in Agents
          PROVE  file'[i] = before'[i] \o Chosen(i)'
        <3>1. file[i] \in Seq(Location)
            BY Sequences DEF IInv
        <3> QED
            BY <1>1, <1>2, <3>1
    <2>2. \A i \in Agents : Rows(i)'
        BY <1>1, <2>1 DEF Rows, Over, All
    <2> QED
        BY <2>2, RowsEach DEF RowsFollowChoices, Rows, Over, All
<1>5. FieldNow'
    <2>1. \A l : Choosing(<< >>, l) = {}
        BY DEF Choosing
    <2>2. \A l \in Location, k \in Ages : conc'[l][k] = 0
        BY <1>1 DEF NoDeposits
    <2>3. \A k \in Ages : k <= 0 => k = 0
        BY ConfigAssumption DEF Ages, ConfigAssumption
    <2>4. Cardinality({}) = 0 /\ Len(<< >>) = 0
        BY FS_EmptySet
    <2> QED
        BY <1>1, <2>1, <2>2, <2>3, <2>4 DEF FieldNow
<1>6. FieldFollowsHistory'
    BY <1>1 DEF FieldFollowsHistory
<1>7. BuiltInOrder'
    <2>1. 0 \in 0 .. NumAgents - 1 /\ {} = 1 .. 0
        BY ConfigAssumption DEF ConfigAssumption
    <2> QED
        BY <1>1, <2>1 DEF BuiltInOrder
<1>8. NothingYet' /\ InStep'
    BY <1>1, ConfigAssumption DEF NothingYet, InStep, ConfigAssumption
<1>9. HeldChosen'
    BY <1>1 DEF IInv, HeldChosen
<1>10. ConsensusOnDisk' /\ LeftOpenByBuildingOnly'
    BY <1>1 DEF ConsensusOnDisk, LeftOpenByBuildingOnly
<1> QED
    BY <1>3, <1>4, <1>5, <1>6, <1>7, <1>8, <1>9, <1>10 DEF IInv

LEMMA BuildAgentIInv ==
    ASSUME IInv, BuildAgent
    PROVE  IInv'
<1>1. /\ phase = "building" /\ open' = open \cup {Cardinality(open) + 1}
      /\ phase' = IF open' = Agents THEN "ticking" ELSE "building"
      /\ UNCHANGED << runs, program, deposit_amount, file, held, conc, tick_choices, trace,
                      consensus_tick, counts, before >>
    BY DEF BuildAgent, setup, disk
<1>2. choice_history' = choice_history /\ concentration_history' = concentration_history
    BY <1>1 DEF trace
<1>3. PICK n \in 0 .. NumAgents - 1 : open = 1 .. n
    BY <1>1 DEF IInv, BuiltInOrder
<1>4. open' = 1 .. n + 1 /\ n + 1 \in 1 .. NumAgents /\ n \in Nat
    <2>1. n \in Nat /\ n + 1 \in 1 .. NumAgents
        BY ConfigAssumption DEF ConfigAssumption
    <2>2. Cardinality(1 .. n) = n
        BY <2>1, FS_Interval
    <2>3. (1 .. n) \cup {n + 1} = 1 .. n + 1
        BY <2>1
    <2> QED
        BY <1>1, <1>3, <2>1, <2>2, <2>3
<1>5. TypeOK'
    <2>1. open' \subseteq Agents
        BY <1>4, ConfigAssumption DEF Agents, ConfigAssumption
    <2> QED
        BY <1>1, <1>2, <2>1 DEF IInv, TypeOK
<1>6. /\ tick_choices = << >> /\ choice_history = << >> /\ concentration_history = << >>
      /\ file = before
    BY <1>1 DEF IInv, NothingYet
<1>7. \A i \in Agents : Chosen(i) = << >> /\ Chosen(i)' = << >> /\ held[i] = << >>
    BY <1>1, <1>2, <1>6 DEF Chosen, IInv, HeldChosen
<1>8. RowsFollowChoices'
    <2>1. \A i \in Agents : file[i] = before[i] \o << >>
        BY <1>6, Sequences DEF IInv
    <2>2. \A i \in Agents : Rows(i)'
        BY <1>1, <1>6, <1>7, <2>1 DEF Rows, Over, All
    <2> QED
        BY <2>2 DEF RowsFollowChoices, Rows, Over, All
<1>9. FieldNow' /\ FieldFollowsHistory'
    BY <1>1, TraceKept
<1>10. BuiltInOrder'
    <2>1. ASSUME phase' = "building"
          PROVE  n + 1 \in 0 .. NumAgents - 1
        <3>1. n + 1 # NumAgents
            BY <1>1, <1>4, <2>1 DEF Agents
        <3> QED
            BY <1>4, <3>1, ConfigAssumption DEF ConfigAssumption
    <2> QED
        BY <1>4, <2>1 DEF BuiltInOrder
<1>11. NothingYet' /\ InStep' /\ HeldChosen'
    BY <1>1, <1>2, <1>6, <1>7 DEF NothingYet, InStep, HeldChosen, IInv
<1>12. ConsensusOnDisk' /\ LeftOpenByBuildingOnly'
    BY <1>1 DEF ConsensusOnDisk, LeftOpenByBuildingOnly
<1> QED
    BY <1>5, <1>8, <1>9, <1>10, <1>11, <1>12 DEF IInv

LEMMA BuildFailsIInv ==
    ASSUME IInv, BuildFails
    PROVE  IInv'
<1>1. /\ phase = "building" /\ phase' = "raised"
      /\ UNCHANGED << runs, program, deposit_amount, open, file, held, conc, tick_choices,
                      trace, consensus_tick, counts, before >>
    BY DEF BuildFails, setup, disk
<1>2. choice_history' = choice_history /\ concentration_history' = concentration_history
    BY <1>1 DEF trace
<1>3. TypeOK'
    BY <1>1, <1>2 DEF IInv, TypeOK
<1>4. tick_choices = << >> /\ choice_history = << >> /\ file = before
    BY <1>1 DEF IInv, NothingYet
<1>5. \A i \in Agents : Chosen(i) = << >> /\ Chosen(i)' = << >> /\ held[i] = << >>
    BY <1>1, <1>2, <1>4 DEF Chosen, IInv, HeldChosen
<1>6. RowsFollowChoices'
    <2>1. \A i \in Agents : file[i] = before[i] \o << >>
        BY <1>4, Sequences DEF IInv
    <2>2. \A i \in Agents : Rows(i)'
        BY <1>1, <1>4, <1>5, <2>1 DEF Rows, Over, All
    <2> QED
        BY <2>2 DEF RowsFollowChoices, Rows, Over, All
<1>7. FieldNow' /\ FieldFollowsHistory'
    BY <1>1, TraceKept
<1>8. NothingYet' /\ BuiltInOrder' /\ InStep' /\ HeldChosen'
    BY <1>1, <1>2, <1>5 DEF NothingYet, BuiltInOrder, InStep, HeldChosen, IInv
<1>9. open # Agents
    <2>1. PICK n \in 0 .. NumAgents - 1 : open = 1 .. n
        BY <1>1 DEF IInv, BuiltInOrder
    <2>2. NumAgents \in Agents /\ NumAgents \notin open
        BY <2>1, ConfigAssumption DEF Agents, ConfigAssumption
    <2> QED
        BY <2>2
<1>10. ConsensusOnDisk' /\ LeftOpenByBuildingOnly'
    BY <1>1, <1>4, <1>5, <1>9 DEF ConsensusOnDisk, LeftOpenByBuildingOnly
<1> QED
    BY <1>3, <1>6, <1>7, <1>8, <1>10 DEF IInv

LEMMA FieldCell ==
    ASSUME conc \in Field, NEW x \in Location, NEW l \in Location, NEW k \in Ages,
           Deposit(x)
    PROVE  conc'[l][k] = IF l = x /\ k = 0 THEN conc[l][k] + 1 ELSE conc[l][k]
BY DEF Deposit, Field

LEMMA AgesFacts == 0 \in Ages /\ Ages \subseteq Nat
BY ConfigAssumption DEF Ages, ConfigAssumption

LEMMA DepositType ==
    ASSUME conc \in Field, NEW x \in Location, Deposit(x)
    PROVE  conc' \in Field
<1>1. conc[x] \in [Ages -> Nat] /\ conc[x][0] \in Nat
    BY AgesFacts DEF Field
<1>2. [conc[x] EXCEPT ![0] = conc[x][0] + 1] \in [Ages -> Nat]
    <2>1. PICK f \in [Ages -> Nat] : f = conc[x]
        BY <1>1
    <2>2. f[0] + 1 \in Nat
        BY <2>1, AgesFacts
    <2> QED
        BY <2>1, <2>2
<1>3. conc' = [conc EXCEPT ![x] = [conc[x] EXCEPT ![0] = conc[x][0] + 1]]
    BY DEF Deposit, Field
<1> QED
    BY <1>2, <1>3 DEF Field

LEMMA AgentTurnIInv ==
    ASSUME IInv, NEW l \in Location, AgentTurn(l)
    PROVE  IInv'
<1>1. /\ phase = "ticking" /\ phase' = "ticking"
      /\ Len(choice_history) < NumTicks /\ Len(tick_choices) + 1 \in Agents
      /\ held[Len(tick_choices) + 1] = << >> /\ deposit_amount # "negative"
      /\ Committed(Len(tick_choices) + 1, l) \/ HeldBack(Len(tick_choices) + 1, l)
      /\ Deposit(l)
      /\ tick_choices' = Append(tick_choices, l)
      /\ UNCHANGED << runs, program, deposit_amount, open, choice_history,
                      concentration_history, consensus_tick, counts, before >>
    BY DEF AgentTurn, InTick, Turn, setup, trace
<1>2. PICK me \in Agents : me = Len(tick_choices) + 1
    BY <1>1
<1>3. /\ choice_history \in Seq(Tick) /\ tick_choices \in Seq(Location)
      /\ file \in [Agents -> Seq(Location)] /\ held \in [Agents -> Seq(Location)]
      /\ conc \in Field /\ Len(tick_choices) \in Nat
    BY DEF IInv, TypeOK, Tick
<1>4. \A i \in Agents : Chosen(i)' = IF i = me THEN Append(Chosen(i), l) ELSE Chosen(i)
    <2>1. ASSUME NEW i \in Agents
          PROVE  Chosen(i)' = IF i = me THEN Append(Chosen(i), l) ELSE Chosen(i)
        <3>1. Chosen(i)' = Column(choice_history, i) \o Latest(Append(tick_choices, l), i)
            BY <1>1 DEF Chosen, Column, Latest
        <3> QED
            BY <1>2, <1>3, <3>1, ChosenParts, ChosenAfterTurn
    <2> QED
        BY <2>1
<1>5. held[me] = << >>
    BY <1>1, <1>2
<1>6. \/ /\ file' = [file EXCEPT ![me] = Append(@, l)] /\ held' = held
      \/ /\ held' = [held EXCEPT ![me] = Append(@, l)] /\ file' = file
    BY <1>1, <1>2 DEF Committed, HeldBack
<1>7. /\ file' \in [Agents -> Seq(Location)] /\ held' \in [Agents -> Seq(Location)]
      /\ \A i \in Agents : i # me => file'[i] = file[i] /\ held'[i] = held[i]
      /\ \/ file'[me] = Append(file[me], l) /\ held'[me] = << >>
         \/ file'[me] = file[me] /\ held'[me] = Append(<< >>, l)
    <2>1. ASSUME NEW f \in [Agents -> Seq(Location)]
          PROVE  LET g == [f EXCEPT ![me] = Append(@, l)]
                 IN  /\ g \in [Agents -> Seq(Location)] /\ g[me] = Append(f[me], l)
                     /\ \A i \in Agents : i # me => g[i] = f[i]
        <3>1. Append(f[me], l) \in Seq(Location)
            OBVIOUS
        <3> QED
            BY <3>1
    <2>2. CASE file' = [file EXCEPT ![me] = Append(@, l)] /\ held' = held
        BY <1>3, <1>5, <2>1, <2>2
    <2>3. CASE held' = [held EXCEPT ![me] = Append(@, l)] /\ file' = file
        BY <1>3, <1>5, <2>1, <2>3
    <2> QED
        BY <1>6, <2>2, <2>3
<1>8. \A i \in Agents : Len(held'[i]) <= 1
    <2>1. Len(<< >>) <= 1 /\ Len(Append(<< >>, l)) <= 1
        OBVIOUS
    <2>2. \A i \in Agents : Len(held[i]) <= 1
        BY DEF IInv, TypeOK
    <2>3. Len(held'[me]) <= 1
        BY <1>7, <2>1
    <2> QED
        BY <1>7, <2>2, <2>3
<1>9. TypeOK'
    <2>1. tick_choices' \in Seq(Location) /\ Len(tick_choices') <= NumAgents
        BY <1>1, <1>3 DEF Agents
    <2>2. conc' \in Field
        BY <1>1, <1>3, DepositType
    <2> QED
        BY <1>1, <1>7, <1>8, <2>1, <2>2 DEF IInv, TypeOK
<1>10. \A i \in Agents : file'[i] \o held'[i] = All(i)'
    <2>1. ASSUME NEW i \in Agents
          PROVE  /\ file[i] \o held[i] = before[i] \o Chosen(i)
                 /\ file[i] \in Seq(Location) /\ before[i] \in Seq(Location)
                 /\ Chosen(i) \in Seq(Location)
        BY <1>1, Sequences, RowsEach DEF IInv, Rows, All
    <2>2. /\ Append(file[me], l) \o << >> = before[me] \o Append(Chosen(me), l)
          /\ file[me] \o Append(<< >>, l) = before[me] \o Append(Chosen(me), l)
        <3>1. PICK f \in Seq(Location) : f = file[me]
            BY <2>1
        <3>2. PICK b \in Seq(Location) : b = before[me]
            BY <2>1
        <3>3. PICK c \in Seq(Location) : c = Chosen(me)
            BY <2>1
        <3>4. f \o << >> = b \o c
            BY <1>5, <2>1, <3>1, <3>2, <3>3
        <3>5. Grown(f, b, c, l)
            BY <3>4, AppendBoth
        <3> QED
            BY <3>1, <3>2, <3>3, <3>5 DEF Grown
    <2>3. file'[me] \o held'[me] = before[me] \o Append(Chosen(me), l)
        BY <1>7, <2>2
    <2>4. \A i \in Agents : All(i)' = before[i] \o (IF i = me THEN Append(Chosen(i), l) ELSE Chosen(i))
        BY <1>1, <1>4 DEF All
    <2> QED
        BY <1>7, <2>1, <2>3, <2>4
<1>11. RowsFollowChoices'
    <2>1. \A i \in Agents : Rows(i)'
        BY <1>1, <1>10 DEF Rows
    <2> QED
        BY <2>1 DEF RowsFollowChoices, Rows, Over, All
<1>12. HeldChosen'
    <2>1. \A r \in Seq(Location) : Append(r, l) # << >>
        BY AppendProperties
    <2>2. Chosen(me)' # << >>
        BY <1>4, <2>1, Sequences DEF IInv
    <2> QED
        BY <1>1, <1>4, <1>7, <2>2 DEF IInv, HeldChosen
<1>13. FieldNow'
    <2>1. ASSUME NEW x \in Location, NEW k \in Ages
          PROVE  conc'[x][k] =
                   IF k = 0 THEN Cardinality(Choosing(tick_choices', x))
                   ELSE IF k <= Len(choice_history)
                        THEN Cardinality(Choosing(choice_history[Len(choice_history) - k + 1], x))
                        ELSE 0
        <3>1. conc'[x][k] = IF x = l /\ k = 0 THEN conc[x][k] + 1 ELSE conc[x][k]
            BY <1>1, <1>3, FieldCell
        <3>2. conc[x][k] = IF k = 0 THEN Cardinality(Choosing(tick_choices, x))
                           ELSE IF k <= Len(choice_history)
                           THEN Cardinality(Choosing(choice_history[Len(choice_history) - k + 1], x))
                           ELSE 0
            BY DEF IInv, FieldNow
        <3>3. Cardinality(Choosing(tick_choices', x))
              = IF l = x THEN Cardinality(Choosing(tick_choices, x)) + 1
                ELSE Cardinality(Choosing(tick_choices, x))
            BY <1>1, <1>3, ChoosingAppend
        <3> QED
            BY <3>1, <3>2, <3>3
    <2> QED
        BY <1>1, <2>1 DEF FieldNow
<1>14. FieldFollowsHistory'
    <2>1. choice_history' = choice_history /\ concentration_history' = concentration_history
        BY <1>1
    <2>2. FieldFollowsHistory
        BY DEF IInv
    <2> QED
        BY <2>1, <2>2 DEF FieldFollowsHistory
<1>15. NothingYet' /\ BuiltInOrder' /\ ConsensusOnDisk' /\ LeftOpenByBuildingOnly'
    BY <1>1 DEF NothingYet, BuiltInOrder, ConsensusOnDisk, LeftOpenByBuildingOnly
<1>16. InStep'
    <2>1. Len(choice_history) # NumTicks
        BY <1>1, <1>3, ConfigAssumption DEF ConfigAssumption
    <2> QED
        BY <1>1, <2>1 DEF IInv, InStep
<1> QED
    BY <1>9, <1>11, <1>12, <1>13, <1>14, <1>15, <1>16 DEF IInv

LEMMA RecordFailsIInv ==
    ASSUME IInv, RecordFails
    PROVE  IInv'
<1>1. /\ phase = "ticking" /\ phase' = "raised" /\ open' = {}
      /\ held' = [i \in Agents |-> << >>]
      /\ UNCHANGED << runs, program, deposit_amount, file, conc, tick_choices, trace,
                      choice_history, concentration_history, consensus_tick, counts, before >>
    BY DEF RecordFails, InTick, Leave, setup, trace
<1>2. TypeOK'
    <2>1. << >> \in Seq(Location) /\ Len(<< >>) <= 1
        OBVIOUS
    <2> QED
        BY <1>1, <2>1 DEF IInv, TypeOK
<1>3. \A i \in Agents : Chosen(i)' = Chosen(i)
    BY <1>1 DEF Chosen
<1>4. RowsFollowChoices'
    <2>1. ASSUME NEW i \in Agents
          PROVE  Over(i)'
        <3>1. file[i] \o held[i] = All(i)
            BY <1>1, RowsEach DEF IInv, Rows
        <3>2. Trails(file[i], held[i], All(i))
            BY <3>1, FileTrails, Sequences DEF IInv
        <3>3. held[i] # << >> => Chosen(i) # << >>
            BY DEF IInv, HeldChosen
        <3>4. All(i)' = All(i) /\ file' = file
            BY <1>1, <1>3 DEF All
        <3> QED
            BY <1>3, <3>2, <3>3, <3>4 DEF Over, Trails
    <2>2. \A i \in Agents : Rows(i)'
        BY <1>1, <2>1 DEF Rows
    <2> QED
        BY <2>2 DEF RowsFollowChoices, Rows, Over, All
<1>5. FieldNow' /\ FieldFollowsHistory'
    BY <1>1, TraceKept
<1>6. NothingYet' /\ BuiltInOrder' /\ InStep' /\ HeldChosen'
    BY <1>1 DEF NothingYet, BuiltInOrder, InStep, HeldChosen, IInv
<1>7. ConsensusOnDisk' /\ LeftOpenByBuildingOnly'
    BY <1>1 DEF ConsensusOnDisk, LeftOpenByBuildingOnly
<1> QED
    BY <1>2, <1>4, <1>5, <1>6, <1>7 DEF IInv

LEMMA DepositFailsIInv ==
    ASSUME IInv, NEW l \in Location, DepositFails(l)
    PROVE  IInv'
<1>1. /\ phase = "ticking" /\ phase' = "raised" /\ open' = {}
      /\ deposit_amount = "negative"
      /\ held' = [i \in Agents |-> << >>]
      /\ \/ file' = [file EXCEPT ![Len(tick_choices) + 1] = Append(@, l)]
         \/ file' = file
      /\ UNCHANGED << runs, program, deposit_amount, conc, tick_choices, trace,
                      choice_history, concentration_history, consensus_tick, counts, before >>
    BY DEF DepositFails, InTick, Turn, Leave, setup, trace
<1>2. tick_choices = << >> /\ choice_history = << >>
    BY <1>1 DEF IInv, InStep
<1>3. /\ file \in [Agents -> Seq(Location)]
      /\ file' = [file EXCEPT ![1] = Append(@, l)] \/ file' = file
    <2>1. Len(<< >>) + 1 = 1
        OBVIOUS
    <2> QED
        BY <1>1, <1>2, <2>1 DEF IInv, TypeOK
<1>4. \A i \in Agents : Chosen(i) = << >> /\ Chosen(i)' = << >> /\ held[i] = << >>
    BY <1>1, <1>2 DEF Chosen, IInv, HeldChosen
<1>5. 1 \in Agents
    BY ConfigAssumption DEF Agents, ConfigAssumption
<1>6. TypeOK'
    <2>1. << >> \in Seq(Location) /\ Len(<< >>) <= 1
        OBVIOUS
    <2>2. file' \in [Agents -> Seq(Location)]
        <3>1. Append(file[1], l) \in Seq(Location)
            BY <1>3, <1>5
        <3> QED
            BY <1>3, <3>1
    <2> QED
        BY <1>1, <2>1, <2>2 DEF IInv, TypeOK
<1>7. RowsFollowChoices'
    <2>1. ASSUME NEW i \in Agents
          PROVE  Over(i)'
        <3>1. /\ file[i] \in Seq(Location) /\ before[i] \in Seq(Location)
              /\ file[i] \o held[i] = before[i] \o Chosen(i)
            BY <1>1, Sequences, RowsEach DEF IInv, Rows, All
        <3>2. file[i] = before[i] /\ All(i)' = before[i]
            <4>1. \A r \in Seq(Location) : r \o << >> = r
                OBVIOUS
            <4>2. file[i] \o << >> = before[i] \o << >>
                BY <1>4, <3>1
            <4>3. All(i)' = before[i] \o << >>
                BY <1>1, <1>4 DEF All
            <4> QED
                BY <3>1, <4>1, <4>2, <4>3
        <3>3. \/ file'[i] = file[i]
              \/ i = 1 /\ file'[i] = Append(file[i], l)
            BY <1>3
        <3>4. /\ Len(Append(before[i], l)) = Len(before[i]) + 1
              /\ SubSeq(Append(before[i], l), 1, Len(before[i])) = before[i]
            BY <3>1, OneMore
        <3> QED
            BY <1>1, <1>4, <3>2, <3>3, <3>4 DEF Over
    <2>2. \A i \in Agents : Rows(i)'
        BY <1>1, <2>1 DEF Rows
    <2> QED
        BY <2>2 DEF RowsFollowChoices, Rows, Over, All
<1>8. FieldNow' /\ FieldFollowsHistory'
    BY <1>1, TraceKept
<1>9. NothingYet' /\ BuiltInOrder' /\ InStep' /\ HeldChosen'
    BY <1>1 DEF NothingYet, BuiltInOrder, InStep, HeldChosen, IInv
<1>10. ConsensusOnDisk' /\ LeftOpenByBuildingOnly'
    BY <1>1 DEF ConsensusOnDisk, LeftOpenByBuildingOnly
<1> QED
    BY <1>6, <1>7, <1>8, <1>9, <1>10 DEF IInv

(* What the field holds when a tick is over: everything is one tick older. *)
LEMMA EvaporatedCell ==
    ASSUME NEW field \in Field, NEW l \in Location, NEW k \in Ages
    PROVE  /\ Evaporated(field) \in Field
           /\ Evaporated(field)[l][k] = IF k = 0 THEN 0 ELSE field[l][k - 1]
<1>1. \A j \in Ages : j # 0 => j - 1 \in Ages
    BY ConfigAssumption DEF Ages, ConfigAssumption
<1>2. \A x \in Location, j \in Ages : (IF j = 0 THEN 0 ELSE field[x][j - 1]) \in Nat
    BY <1>1 DEF Field
<1> QED
    BY <1>2 DEF Evaporated, Field

LEMMA EndTickIInv ==
    ASSUME IInv, EndTick
    PROVE  IInv'
<1> DEFINE h == choice_history
           c == tick_choices
<1>1. /\ phase = "ticking" /\ phase' = "ticking" /\ Len(c) = NumAgents
      /\ conc' = Evaporated(conc)
      /\ choice_history' = Append(h, c)
      /\ concentration_history' = Append(concentration_history, conc')
      /\ tick_choices' = << >>
      /\ UNCHANGED << runs, program, deposit_amount, open, file, held,
                      consensus_tick, counts, before >>
    BY DEF EndTick, setup, disk
<1>2. /\ h \in Seq(Tick) /\ c \in Seq(Location) /\ conc \in Field
      /\ concentration_history \in Seq(Field) /\ Len(h) \in Nat /\ Len(h) <= NumTicks
      /\ Len(concentration_history) = Len(h)
    BY DEF IInv, TypeOK, Tick, InStep
<1>3. NumAgents \in Nat \ {0} /\ NumTicks \in Nat \ {0}
    BY ConfigAssumption DEF ConfigAssumption
<1>4. c # << >>
    <2>1. Len(<< >>) = 0
        OBVIOUS
    <2> QED
        BY <1>1, <1>3, <2>1
<1>5. Len(h) < NumTicks /\ deposit_amount # "negative"
    BY <1>2, <1>3, <1>4 DEF IInv, InStep
<1>6. c \in Tick
    <2>1. c \in [1 .. Len(c) -> Location]
        BY <1>2
    <2> QED
        BY <1>1, <2>1 DEF Tick, Agents
<1> HIDE DEF h, c
<1>7. /\ choice_history' \in Seq(Tick) /\ Len(choice_history') = Len(h) + 1
      /\ choice_history'[Len(h) + 1] = c
      /\ \A t \in 1 .. Len(h) : choice_history'[t] = h[t]
      /\ DOMAIN choice_history' = 1 .. Len(h) + 1
    BY <1>1, <1>2, <1>6
<1>8. conc' \in Field
    BY <1>1, <1>2, EvaporatedCell DEF Evaporated, Field
<1>9. /\ concentration_history' \in Seq(Field)
      /\ Len(concentration_history') = Len(h) + 1
      /\ concentration_history'[Len(h) + 1] = conc'
      /\ \A t \in 1 .. Len(h) : concentration_history'[t] = concentration_history[t]
      /\ DOMAIN concentration_history' = 1 .. Len(h) + 1
    <2>1. PICK field \in Field : field = conc'
        BY <1>8
    <2>2. concentration_history' = Append(concentration_history, field)
        BY <1>1, <2>1
    <2>3. /\ Append(concentration_history, field) \in Seq(Field)
          /\ Len(Append(concentration_history, field)) = Len(concentration_history) + 1
          /\ \A i \in 1 .. Len(concentration_history) :
               Append(concentration_history, field)[i] = concentration_history[i]
          /\ Append(concentration_history, field)[Len(concentration_history) + 1] = field
        BY <1>2, AppendProperties
    <2>4. DOMAIN concentration_history' = 1 .. Len(concentration_history')
        BY <2>2, <2>3, LenProperties
    <2> QED
        BY <1>2, <2>1, <2>2, <2>3, <2>4
<1>10. TypeOK'
    <2>1. << >> \in Seq(Location) /\ Len(<< >>) <= NumAgents
        BY <1>3
    <2>2. Len(h) + 1 <= NumTicks
        BY <1>2, <1>3, <1>5
    <2> QED
        BY <1>1, <1>7, <1>8, <1>9, <2>1, <2>2 DEF IInv, TypeOK, Tick
<1>11. \A i \in Agents : Chosen(i)' = Chosen(i)
    <2>1. ASSUME NEW i \in Agents
          PROVE  Chosen(i)' = Chosen(i)
        <3>1. Chosen(i)' = Column(Append(h, c), i) \o Latest(<< >>, i)
            BY <1>1 DEF Chosen, Column, Latest
        <3>2. Chosen(i) = Column(h, i) \o Latest(c, i)
            BY ChosenParts DEF h, c
        <3> QED
            BY <1>2, <1>6, <3>1, <3>2, ChosenAfterTick
    <2> QED
        BY <2>1
<1>12. RowsFollowChoices'
    <2>1. \A i \in Agents : file[i] \o held[i] = All(i)
        BY <1>1, RowsEach DEF IInv, Rows
    <2>2. \A i \in Agents : Rows(i)'
        BY <1>1, <1>11, <2>1 DEF Rows, All
    <2> QED
        BY <2>2 DEF RowsFollowChoices, Rows, Over, All
<1>13. HeldChosen'
    BY <1>1, <1>11 DEF IInv, HeldChosen
<1>0. PICK n : n = Len(h) + 1
    OBVIOUS
<1>14. ASSUME NEW l \in Location, NEW k \in Ages
       PROVE  conc'[l][k] =
                IF k = 0 THEN 0
                ELSE IF k <= n
                     THEN Cardinality(Choosing(choice_history'[n - k + 1], l))
                     ELSE 0
    <2>1. k \in Nat
        BY AgesFacts
    <2>2. conc'[l][k] = IF k = 0 THEN 0 ELSE conc[l][k - 1]
        BY <1>1, <1>2, EvaporatedCell
    <2>3. CASE k = 0
        BY <2>2, <2>3
    <2>4. CASE k = 1
        <3>1. 0 \in Ages /\ conc[l][0] = Cardinality(Choosing(c, l))
            BY AgesFacts DEF IInv, FieldNow, c
        <3>2. n - k + 1 = Len(h) + 1 /\ k <= n /\ k - 1 = 0
            BY <1>0, <1>2, <2>4
        <3> QED
            BY <1>7, <2>2, <2>4, <3>1, <3>2
    <2>5. CASE k >= 2
        <3>1. k - 1 \in Ages /\ k - 1 # 0
            BY <1>3, <2>1, <2>5 DEF Ages
        <3>2. conc[l][k - 1] = IF k - 1 <= Len(h)
                               THEN Cardinality(Choosing(h[Len(h) - (k - 1) + 1], l)) ELSE 0
            BY <3>1 DEF IInv, FieldNow, h
        <3>3. k - 1 <= Len(h) <=> k <= n
            BY <1>0, <1>2, <2>1
        <3>4. ASSUME k - 1 <= Len(h)
              PROVE  h[Len(h) - (k - 1) + 1] = choice_history'[n - k + 1]
            <4>1. Len(h) - (k - 1) + 1 = n - k + 1
                BY <1>0, <1>2, <2>1
            <4>2. Len(h) - (k - 1) + 1 \in 1 .. Len(h)
                BY <1>2, <2>1, <2>5, <3>4
            <4> QED
                BY <1>7, <4>1, <4>2
        <3> QED
            BY <2>2, <2>5, <3>2, <3>3, <3>4
    <2> QED
        BY <2>1, <2>3, <2>4, <2>5
<1>15. FieldNow'
    <2>1. ASSUME NEW l PROVE Cardinality(Choosing(tick_choices', l)) = 0
        <3>1. Choosing(tick_choices', l) = {}
            BY <1>1 DEF Choosing
        <3> QED
            BY <3>1, FS_EmptySet
    <2>2. ASSUME NEW l \in Location, NEW k \in Ages
          PROVE  conc'[l][k] =
                   IF k = 0 THEN Cardinality(Choosing(tick_choices', l))
                   ELSE IF k <= Len(choice_history')
                   THEN Cardinality(Choosing(choice_history'[Len(choice_history') - k + 1], l))
                   ELSE 0
        <3>2. Cardinality(Choosing(tick_choices', l)) = 0
            BY <2>1
        <3>3. conc'[l][k] =
                IF k = 0 THEN 0
                ELSE IF k <= n
                     THEN Cardinality(Choosing(choice_history'[n - k + 1], l))
                     ELSE 0
            BY <1>14
        <3>4. Len(choice_history') = n
            BY <1>7, <1>0
        <3> QED
            BY <3>2, <3>3, <3>4
    <2> QED
        BY <2>2 DEF FieldNow
<1>16. FieldFollowsHistory'
    <2>1. ASSUME NEW t \in 1 .. Len(h) + 1, NEW l \in Location, NEW k \in Ages
          PROVE  concentration_history'[t][l][k] =
                   IF k \in 1 .. t
                   THEN Cardinality({ i \in Agents : choice_history'[t - k + 1][i] = l })
                   ELSE 0
        <3>1. k \in Nat
            BY AgesFacts
        <3>2. CASE t \in 1 .. Len(h)
            <4>1. t \in DOMAIN concentration_history
                BY <1>2, <3>2
            <4>2. concentration_history[t][l][k] =
                    IF k \in 1 .. t
                    THEN Cardinality({ i \in Agents : h[t - k + 1][i] = l })
                    ELSE 0
                BY <4>1 DEF IInv, FieldFollowsHistory, h
            <4>3. ASSUME k \in 1 .. t
                  PROVE  choice_history'[t - k + 1] = h[t - k + 1]
                <5>1. t - k + 1 \in 1 .. Len(h)
                    BY <1>2, <3>2, <4>3
                <5> QED
                    BY <1>7, <5>1
            <4> QED
                BY <1>9, <3>2, <4>2, <4>3
        <3>3. CASE t = Len(h) + 1
            <4>1. concentration_history'[t] = conc'
                BY <1>9, <3>3
            <4>2. ASSUME k \in 1 .. t
                  PROVE  Choosing(choice_history'[t - k + 1], l)
                         = { i \in Agents : choice_history'[t - k + 1][i] = l }
                <5>1. t - k + 1 \in 1 .. Len(h) + 1
                    BY <1>2, <3>3, <4>2
                <5>2. choice_history'[t - k + 1] \in Tick
                    BY <1>7, <5>1
                <5> QED
                    BY <5>2 DEF Choosing, Tick
            <4>3. k \in 1 .. t <=> k # 0 /\ k <= n
                BY <1>0, <1>2, <3>1, <3>3
            <4>4. t = n
                BY <1>0, <3>3
            <4>5. CASE k \in 1 .. t
                <5>1. conc'[l][k] = Cardinality(Choosing(choice_history'[t - k + 1], l))
                    BY <1>14, <4>3, <4>4, <4>5
                <5> QED
                    BY <4>1, <4>2, <4>5, <5>1
            <4>6. CASE k \notin 1 .. t
                <5>1. conc'[l][k] = 0
                    BY <1>14, <4>3, <4>6
                <5> QED
                    BY <4>1, <4>6, <5>1
            <4> QED
                BY <4>5, <4>6
        <3> QED
            BY <1>2, <3>2, <3>3
    <2> QED
        BY <1>9, <2>1 DEF FieldFollowsHistory
<1>17. NothingYet' /\ BuiltInOrder' /\ ConsensusOnDisk' /\ LeftOpenByBuildingOnly'
    BY <1>1 DEF NothingYet, BuiltInOrder, ConsensusOnDisk, LeftOpenByBuildingOnly
<1>18. InStep'
    BY <1>1, <1>5, <1>7, <1>9 DEF IInv, InStep
<1> QED
    BY <1>10, <1>12, <1>13, <1>15, <1>16, <1>17, <1>18 DEF IInv

LEMMA ReturnIInv ==
    ASSUME IInv, Return
    PROVE  IInv'
<1> DEFINE h == choice_history
           s == FindSustainedConsensusTick(h)
<1>1. /\ phase = "ticking" /\ phase' = "returned" /\ open' = {}
      /\ Len(h) = NumTicks
      /\ held' = [i \in Agents |-> << >>]
      /\ UNCHANGED << runs, program, deposit_amount, file, conc, tick_choices, trace,
                      choice_history, concentration_history, before >>
    BY DEF Return, Leave, setup, trace
<1>2. \/ program = "trial" /\ consensus_tick' = s /\ counts' = counts
      \/ /\ program = "demo" /\ consensus_tick' = consensus_tick
         /\ counts' \in [Agents -> Nat]
         /\ \A i \in Agents : counts'[i] \in {0, Len(file[i]) + Len(held[i])}
    <2>1. CASE program = "trial"
        BY <2>1 DEF Return
    <2>2. CASE program = "demo"
        <3>1. consensus_tick' = consensus_tick
            BY <2>2 DEF Return
        <3>2. PICK answered \in SUBSET Agents :
                counts' = [i \in Agents |->
                             IF i \in answered THEN Len(file[i]) + Len(held[i]) ELSE 0]
            BY <2>2 DEF Return
        <3>3. ASSUME NEW i \in Agents PROVE Len(file[i]) + Len(held[i]) \in Nat
            <4>1. Len(file[i]) \in Nat /\ Len(held[i]) \in Nat
                BY Sequences, LenProperties DEF IInv
            <4>2. \A m, n \in Nat : m + n \in Nat
                OBVIOUS
            <4> QED
                BY <4>1, <4>2
        <3> QED
            BY <2>2, <3>1, <3>2, <3>3
    <2> QED
        BY <2>1, <2>2 DEF Return
<1>3. h \in Seq(Tick) /\ Len(h) \in Nat /\ NumTicks \in Nat \ {0}
    BY ConfigAssumption DEF IInv, TypeOK, Tick, ConfigAssumption
<1>4. tick_choices = << >> /\ consensus_tick = 0
    BY <1>1 DEF IInv, InStep
<1>5. consensus_tick' \in 0 .. NumTicks
    <2>1. s = 0 \/ s \in Starts(h)
        BY <1>3, Found
    <2>2. s \in 0 .. NumTicks
        BY <1>1, <1>3, <2>1 DEF Starts
    <2>3. 0 \in 0 .. NumTicks
        BY <1>3
    <2> HIDE DEF s
    <2> QED
        BY <1>2, <1>4, <2>2, <2>3
<1>6. \A i \in Agents : /\ file[i] \in Seq(Location) /\ held[i] \in Seq(Location)
                        /\ before[i] \in Seq(Location) /\ Chosen(i) \in Seq(Location)
                        /\ All(i) \in Seq(Location) /\ Len(held[i]) <= 1
    BY Sequences DEF IInv
<1>7. TypeOK'
    <2>1. << >> \in Seq(Location) /\ Len(<< >>) <= 1
        OBVIOUS
    <2>2. counts' \in [Agents -> Nat]
        BY <1>2 DEF IInv, TypeOK
    <2> QED
        BY <1>1, <1>5, <2>1, <2>2 DEF IInv, TypeOK
<1>8. \A i \in Agents : Chosen(i)' = Chosen(i)
    BY <1>1 DEF Chosen
<1>9. \A i \in Agents : /\ file[i] \o held[i] = All(i)
                        /\ Trails(file[i], held[i], All(i))
                        /\ Len(All(i)) = Len(file[i]) + Len(held[i])
    <2>1. ASSUME NEW i \in Agents
          PROVE  /\ file[i] \o held[i] = All(i)
                 /\ Trails(file[i], held[i], All(i))
                 /\ Len(All(i)) = Len(file[i]) + Len(held[i])
        <3>1. file[i] \o held[i] = All(i)
            BY <1>1, RowsEach DEF IInv, Rows
        <3>2. Trails(file[i], held[i], All(i))
            BY <1>6, <3>1, FileTrails
        <3>3. Len(file[i] \o held[i]) = Len(file[i]) + Len(held[i])
            BY <1>6, ConcatProperties
        <3> QED
            BY <3>1, <3>2, <3>3
    <2> QED
        BY <2>1
<1>10. RowsFollowChoices'
    <2>1. ASSUME NEW i \in Agents
          PROVE  Over(i)'
        <3>1. held[i] # << >> => Chosen(i) # << >>
            BY DEF IInv, HeldChosen
        <3>2. All(i)' = All(i) /\ file' = file
            BY <1>1, <1>8 DEF All
        <3> QED
            BY <1>8, <1>9, <3>1, <3>2 DEF Over, Trails
    <2>2. \A i \in Agents : Rows(i)'
        <3>1. ASSUME NEW i \in Agents, program' = "demo"
              PROVE  counts'[i] \in {0, Len(All(i)')}
            <4>1. All(i)' = All(i) /\ counts'[i] \in {0, Len(file[i]) + Len(held[i])}
                BY <1>1, <1>2, <1>8, <3>1 DEF All
            <4> QED
                BY <1>9, <4>1
        <3> QED
            BY <1>1, <2>1, <3>1 DEF Rows
    <2> QED
        BY <2>2 DEF RowsFollowChoices, Rows, Over, All
<1>11. FieldNow' /\ FieldFollowsHistory'
    BY <1>1, TraceKept
<1>12. NothingYet' /\ BuiltInOrder' /\ InStep' /\ HeldChosen'
    BY <1>1 DEF NothingYet, BuiltInOrder, InStep, HeldChosen, IInv
<1>13. LeftOpenByBuildingOnly'
    BY <1>1 DEF LeftOpenByBuildingOnly
<1>14. ASSUME NEW i \in Agents, NEW t \in 1 .. NumTicks, Len(before[i]) + t <= Len(file[i])
       PROVE  file[i][Len(before[i]) + t] = h[t][i]
    <2>1. Chosen(i) = Column(h, i)
        <3>1. Latest(tick_choices, i) = << >>
            BY <1>4 DEF Latest
        <3>2. Column(h, i) \in Seq(Location)
            BY <1>3, ColumnType
        <3> QED
            BY <3>1, <3>2, ChosenParts, ConcatEmptySeq
    <2>2. Len(Column(h, i)) = NumTicks /\ Column(h, i)[t] = h[t][i]
        BY <1>1, <1>3, ColumnType
    <2>3. \A f, g \in Seq(Location) : \A n \in 1 .. Len(f) : (f \o g)[n] = f[n]
        OBVIOUS
    <2>4. \A f, g \in Seq(Location) : \A n \in 1 .. Len(g) : (f \o g)[Len(f) + n] = g[n]
        OBVIOUS
    <2>5. Len(before[i]) + t \in 1 .. Len(file[i])
        <3>1. Len(before[i]) \in Nat /\ Len(file[i]) \in Nat
            BY <1>6
        <3> QED
            BY <1>3, <1>14, <3>1
    <2>6. file[i][Len(before[i]) + t] = All(i)[Len(before[i]) + t]
        <3>1. (file[i] \o held[i])[Len(before[i]) + t] = file[i][Len(before[i]) + t]
            BY <1>6, <2>3, <2>5
        <3> QED
            BY <1>9, <3>1
    <2>7. All(i)[Len(before[i]) + t] = Column(h, i)[t]
        <3>1. t \in 1 .. Len(Chosen(i)) /\ Len(before[i]) + t = Len(before[i]) + t
            BY <2>1, <2>2
        <3> QED
            BY <1>6, <2>1, <2>4, <3>1 DEF All
    <2> QED
        BY <2>2, <2>6, <2>7
<1>15. ASSUME NEW i \in Agents
       PROVE  /\ Len(file[i]) <= Len(before[i]) + NumTicks
              /\ Len(file[i]) >= Len(before[i]) + NumTicks - 1
              /\ Len(before[i]) \in Nat /\ Len(file[i]) \in Nat
    <2>1. Len(All(i)) = Len(before[i]) + Len(Chosen(i))
        BY <1>6, ConcatProperties DEF All
    <2>2. Len(Chosen(i)) = NumTicks
        <3>1. Latest(tick_choices, i) = << >>
            BY <1>4 DEF Latest
        <3>2. Column(h, i) \in Seq(Location) /\ Len(Column(h, i)) = NumTicks
            BY <1>1, <1>3, ColumnType
        <3> QED
            BY <3>1, <3>2, ChosenParts, ConcatEmptySeq
    <2>3. Len(held[i]) \in Nat /\ Len(before[i]) \in Nat /\ Len(file[i]) \in Nat
        BY <1>6, LenProperties
    <2>4. Len(held[i]) <= 1 /\ Len(file[i]) + Len(held[i]) = Len(before[i]) + NumTicks
        BY <1>6, <1>9, <2>1, <2>2
    <2>5. \A f, g, b, n \in Nat :
            g <= 1 /\ f + g = b + n => f <= b + n /\ f >= b + n - 1
        OBVIOUS
    <2> QED
        BY <1>3, <2>3, <2>4, <2>5
<1>16. ASSUME NEW i \in Agents, NEW t \in 1 .. NumTicks
       PROVE  /\ Recorded(i, t) => RowOfTick(i, t) = h[t][i]
              /\ t # NumTicks => Recorded(i, t)
    <2>1. DOMAIN file[i] = 1 .. Len(file[i])
        BY <1>6
    <2>2. Recorded(i, t) <=> Len(before[i]) + t <= Len(file[i])
        BY <1>3, <1>15, <2>1 DEF Recorded
    <2>3. t # NumTicks => Len(before[i]) + t <= Len(file[i])
        BY <1>3, <1>15
    <2> QED
        BY <1>14, <2>2, <2>3 DEF RowOfTick
<1>17. ConsensusOnDisk'
    <2>1. \A i, t : (Recorded(i, t)' <=> Recorded(i, t)) /\ RowOfTick(i, t)' = RowOfTick(i, t)
        BY <1>1 DEF Recorded, RowOfTick
    <2>2. ASSUME consensus_tick' # 0
          PROVE  /\ \A i \in Agents, t \in consensus_tick' .. NumTicks :
                      IF Recorded(i, t) THEN RowOfTick(i, t) = h[NumTicks][1] ELSE t = NumTicks
                 /\ consensus_tick' > 1 =>
                      /\ \A i \in Agents : Recorded(i, consensus_tick' - 1)
                      /\ \E i \in Agents : RowOfTick(i, consensus_tick' - 1) # h[NumTicks][1]
        <3>1. consensus_tick' = s /\ s # 0
            BY <1>2, <1>4, <2>2
        <3>2. PICK x : x = s
            OBVIOUS
        <3>3. x \in 1 .. NumTicks
            BY <1>1, <1>3, <3>1, <3>2, FoundMeaning
        <3>4. PICK l \in Location :
                /\ \A t \in x .. NumTicks, i \in Agents : h[t][i] = l
                /\ x = 1 \/ \E i \in Agents : h[x - 1][i] # l
            BY <1>1, <1>3, <3>1, <3>2, FoundMeaning
        <3>5. h[NumTicks][1] = l
            <4>1. NumTicks \in x .. NumTicks
                BY <1>3, <3>3
            <4>2. 1 \in Agents
                BY ConfigAssumption DEF Agents, ConfigAssumption
            <4> QED
                BY <3>4, <4>1, <4>2
        <3>6. \A t \in x .. NumTicks : t \in 1 .. NumTicks
            BY <1>3, <3>3
        <3>7. \A i \in Agents, t \in x .. NumTicks :
                IF Recorded(i, t) THEN RowOfTick(i, t) = l ELSE t = NumTicks
            BY <1>16, <3>4, <3>6
        <3>8. ASSUME x > 1
              PROVE  /\ \A i \in Agents : Recorded(i, x - 1)
                     /\ \E i \in Agents : RowOfTick(i, x - 1) # l
            <4>1. x - 1 \in 1 .. NumTicks /\ x - 1 # NumTicks /\ x # 1
                BY <1>3, <3>3, <3>8
            <4>2. \A i \in Agents : Recorded(i, x - 1) /\ RowOfTick(i, x - 1) = h[x - 1][i]
                BY <1>16, <4>1
            <4> QED
                BY <3>4, <4>1, <4>2
        <3> QED
            BY <3>1, <3>2, <3>5, <3>7, <3>8
    <2> QED
        BY <1>1, <2>1, <2>2 DEF ConsensusOnDisk
<1> QED
    BY <1>7, <1>10, <1>11, <1>12, <1>13, <1>17 DEF IInv

LEMMA StutterIInv ==
    ASSUME IInv, UNCHANGED vars
    PROVE  IInv'
<1>1. /\ UNCHANGED << runs, program, deposit_amount, phase, open, file, held, conc,
                      tick_choices, trace, choice_history, concentration_history,
                      consensus_tick, counts, before >>
    BY DEF vars, setup, disk, trace
<1>2. TypeOK' /\ NothingYet' /\ BuiltInOrder' /\ InStep'
    BY <1>1 DEF IInv, TypeOK, NothingYet, BuiltInOrder, InStep
<1>3. HeldChosen' /\ RowsFollowChoices'
    BY <1>1 DEF IInv, HeldChosen, RowsFollowChoices, Chosen
<1>4. FieldNow' /\ FieldFollowsHistory'
    BY <1>1, TraceKept
<1>5. ConsensusOnDisk' /\ LeftOpenByBuildingOnly'
    BY <1>1 DEF IInv, ConsensusOnDisk, Recorded, RowOfTick, LeftOpenByBuildingOnly
<1> QED
    BY <1>2, <1>3, <1>4, <1>5 DEF IInv

LEMMA NextIInv == IInv /\ [Next]_vars => IInv'
<1> SUFFICES ASSUME IInv, [Next]_vars PROVE IInv'
    OBVIOUS
<1>1. CASE StartRun
    BY <1>1, StartRunIInv
<1>2. CASE BuildAgent
    BY <1>2, BuildAgentIInv
<1>3. CASE BuildFails
    BY <1>3, BuildFailsIInv
<1>4. ASSUME NEW l \in Location, AgentTurn(l) PROVE IInv'
    BY <1>4, AgentTurnIInv
<1>5. ASSUME NEW l \in Location, DepositFails(l) PROVE IInv'
    BY <1>5, DepositFailsIInv
<1>6. CASE RecordFails
    BY <1>6, RecordFailsIInv
<1>7. CASE EndTick
    BY <1>7, EndTickIInv
<1>8. CASE Return
    BY <1>8, ReturnIInv
<1>9. CASE UNCHANGED vars
    BY <1>9, StutterIInv
<1> QED
    BY <1>1, <1>2, <1>3, <1>4, <1>5, <1>6, <1>7, <1>8, <1>9 DEF Next

(* The inductive invariant holds in every state of every series of runs.   *)
THEOREM Invariant == Spec => []IInv
BY InitIInv, NextIInv, PTL DEF Spec

(* Type correctness of the colony: the histories never grow past the       *)
(* ticks, and the reported tick is one of them or 0.                       *)
THEOREM TypeCorrect == Spec => []TypeOK
<1>1. IInv => TypeOK
    BY DEF IInv
<1> QED
    BY <1>1, Invariant, PTL

(* An agent's file holds the choices the run counted, in their order,      *)
(* however the run ended; at most the last is missing.                     *)
THEOREM FilesHoldChoices == Spec => []RowsFollowChoices
<1>1. IInv => RowsFollowChoices
    BY DEF IInv
<1> QED
    BY <1>1, Invariant, PTL

(* Each snapshot of the field is made of the choices up to its tick, once  *)
(* deposited and evaporated once per tick since.                           *)
THEOREM FieldFromChoices == Spec => []FieldFollowsHistory
<1>1. IInv => FieldFollowsHistory
    BY DEF IInv
<1> QED
    BY <1>1, Invariant, PTL

(* The tick run_colony_trial() reports is in the agents' files: the rows   *)
(* from that tick on are there and agree, but for a last row held back by  *)
(* a commit that failed unnoticed, and those of the tick before do not.    *)
THEOREM ReportedConsensusRecorded == Spec => []ConsensusOnDisk
<1>1. IInv => ConsensusOnDisk
    BY DEF IInv
<1> QED
    BY <1>1, Invariant, PTL

(* A run that is over leaves no transaction open, and connections only if  *)
(* it failed while it built its agents.                                    *)
THEOREM RunsCloseAgents == Spec => []LeftOpenByBuildingOnly
<1>1. IInv => LeftOpenByBuildingOnly
    BY DEF IInv
<1> QED
    BY <1>1, Invariant, PTL
=============================================================================
