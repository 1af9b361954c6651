--------------------------- MODULE NullModelProofs ---------------------------
(***************************************************************************)
(* Proofs about NullModel: find_sustained_consensus_tick(), which searches *)
(* a finished history, agrees with keeping track tick by tick.             *)
(*                                                                         *)
(* That the search has a first hit to return is not a fact about finite    *)
(* sets here but an invariant (FirstStart): a tick either extends the run  *)
(* of the earlier first start, or begins a run, or ends them all.          *)
(***************************************************************************)
EXTENDS NullModel, TLAPS

(* The search returns the first start if there is one.                     *)
FirstStart(history) ==
    \/ Starts(history) = {} /\ FindSustainedConsensusTick(history) = 0
    \/ /\ FindSustainedConsensusTick(history) \in Starts(history)
       /\ \A s \in Starts(history) : FindSustainedConsensusTick(history) <= s

IInv == TypeOK /\ FirstStart(choice_history)

-----------------------------------------------------------------------------
(* A tick is not empty, and is unanimous on nothing but its first choice.  *)
LEMMA ChoicesFacts ==
    ASSUME NEW c \in Choices
    PROVE  /\ c # << >> /\ DOMAIN c = 1 .. NumAgents /\ 1 \in DOMAIN c
           /\ c[1] \in Location
           /\ \A l : Unanimous(c, l) => l = c[1]
<1>1. DOMAIN c = 1 .. NumAgents /\ 1 \in DOMAIN c /\ c[1] \in Location
    BY ConfigAssumption DEF Choices, ConfigAssumption
<1>2. c # << >>
    <2>1. DOMAIN << >> = {}
        OBVIOUS
    <2> QED
        BY <1>1, <2>1
<1> QED
    BY <1>1, <1>2 DEF Unanimous

(* The least element of the starts is what the search returns.             *)
LEMMA FoundIsFirst ==
    ASSUME NEW history, NEW first \in Starts(history),
           \A s \in Starts(history) : first <= s
    PROVE  FindSustainedConsensusTick(history) = first
<1>1. \A s \in Starts(history) : s \in Nat
    BY DEF Starts
<1>2. \A s \in Starts(history) : (\A t \in Starts(history) : s <= t) => s = first
    BY <1>1
<1> QED
    BY <1>2 DEF FindSustainedConsensusTick

(* A finished history that has no start yields 0.                          *)
LEMMA NothingFound ==
    ASSUME NEW history, Starts(history) = {}
    PROVE  FindSustainedConsensusTick(history) = 0
BY DEF FindSustainedConsensusTick

(* The starts after one more tick: those whose location the tick keeps,    *)
(* and the tick itself if it is unanimous.                                 *)
LEMMA StartsAfterTick ==
    ASSUME NEW h \in Seq(Choices), NEW c \in Choices
    PROVE  \A s \in 1 .. Len(h) + 1 :
              s \in Starts(Append(h, c)) <=>
                IF s = Len(h) + 1 THEN Unanimous(c, c[1])
                ELSE s \in Starts(h) /\ Unanimous(c, h[s][1])
<1> DEFINE g == Append(h, c)
<1>1. Len(g) = Len(h) + 1 /\ Len(h) \in Nat /\ g[Len(h) + 1] = c
      /\ \A s \in 1 .. Len(h) : g[s] = h[s]
    OBVIOUS
<1>2. c # << >>
    BY ChoicesFacts
<1>3. ASSUME NEW s \in 1 .. Len(h) + 1, s = Len(h) + 1
      PROVE  s \in Starts(g) <=> Unanimous(c, c[1])
    BY <1>1, <1>2, <1>3 DEF Starts, Sustained
<1>4. ASSUME NEW s \in 1 .. Len(h)
      PROVE  s \in Starts(g) <=> s \in Starts(h) /\ Unanimous(c, h[s][1])
    <2>1. s .. Len(g) = (s .. Len(h)) \cup {Len(h) + 1}
        BY <1>1
    <2>2. \A later \in s .. Len(h) : g[later] = h[later]
        BY <1>1
    <2>3. Sustained(g, s) <=> Sustained(h, s) /\ Unanimous(c, h[s][1])
        BY <1>1, <2>1, <2>2 DEF Sustained
    <2> QED
        BY <1>1, <2>3 DEF Starts
<1> QED
    BY <1>1, <1>3, <1>4

(* All starts of a history agree on the location.                          *)
LEMMA StartsAgree ==
    ASSUME NEW h \in Seq(Choices), NEW s \in Starts(h), NEW t \in Starts(h)
    PROVE  h[s][1] = h[t][1]
<1>1. Len(h) \in s .. Len(h) /\ Len(h) \in t .. Len(h) /\ Len(h) \in DOMAIN h
    BY DEF Starts
<1>2. Unanimous(h[Len(h)], h[s][1]) /\ Unanimous(h[Len(h)], h[t][1])
    BY <1>1 DEF Starts, Sustained
<1>3. h[Len(h)] \in Choices
    BY <1>1
<1> QED
    BY <1>2, <1>3, ChoicesFacts

-----------------------------------------------------------------------------
(* A tick that is not unanimous ends every run.                            *)
LEMMA SplitTick ==
    ASSUME NEW h \in Seq(Choices), NEW c \in Choices, ~Unanimous(c, c[1])
    PROVE  Starts(Append(h, c)) = {}
<1>1. \A l : ~Unanimous(c, l)
    BY ChoicesFacts
<1>2. \A s \in Starts(Append(h, c)) : s \in 1 .. Len(h) + 1
    BY DEF Starts
<1> QED
    BY <1>1, <1>2, StartsAfterTick

(* A unanimous tick extends the run of its location ...                    *)
LEMMA RunGoesOn ==
    ASSUME NEW h \in Seq(Choices), NEW c \in Choices, Unanimous(c, c[1]),
           NEW first \in Starts(h), \A s \in Starts(h) : first <= s,
           h[first][1] = c[1]
    PROVE  /\ first \in Starts(Append(h, c))
           /\ \A s \in Starts(Append(h, c)) : first <= s
<1>1. \A s \in Starts(Append(h, c)) : s \in 1 .. Len(h) + 1
    BY DEF Starts
<1>2. first \in 1 .. Len(h)
    BY DEF Starts
<1>3. first \in Starts(Append(h, c))
    BY <1>2, StartsAfterTick
<1>4. ASSUME NEW s \in Starts(Append(h, c)) PROVE first <= s
    BY <1>1, <1>2, <1>4, StartsAfterTick
<1> QED
    BY <1>3, <1>4

(* ... or begins one, if there was none or it was of another location.     *)
LEMMA RunBegins ==
    ASSUME NEW h \in Seq(Choices), NEW c \in Choices, Unanimous(c, c[1]),
           \A s \in Starts(h) : h[s][1] # c[1]
    PROVE  Starts(Append(h, c)) = {Len(h) + 1}
<1>1. \A s \in Starts(Append(h, c)) : s \in 1 .. Len(h) + 1
    BY DEF Starts
<1>2. \A s \in Starts(h) : ~Unanimous(c, h[s][1])
    BY ChoicesFacts
<1>3. \A s \in 1 .. Len(h) + 1 : s \in Starts(Append(h, c)) <=> s = Len(h) + 1
    BY <1>2, StartsAfterTick
<1>4. Len(h) + 1 \in 1 .. Len(h) + 1
    OBVIOUS
<1> QED
    BY <1>1, <1>3, <1>4

(* One tick takes a known first start to a known first start, and is what  *)
(* Unanimity says a tick is.                                               *)
LEMMA TickTracks ==
    ASSUME IInv, Tick
    PROVE  /\ FirstStart(choice_history)'
           /\ Watch!Next
<1>1. PICK c \in Choices : choice_history' = Append(choice_history, c)
    BY DEF Tick
<1> DEFINE h == choice_history
           g == Append(h, c)
           old == FindSustainedConsensusTick(h)
<1>2. h \in Seq(Choices) /\ g \in Seq(Choices) /\ Len(g) = Len(h) + 1
      /\ g[Len(h) + 1] = c /\ Len(h) \in Nat /\ \A s \in 1 .. Len(h) : g[s] = h[s]
    BY DEF IInv, TypeOK
<1>3. c[1] \in Location
    BY ChoicesFacts
<1>4. Since = old /\ Winner = IF old = 0 THEN Nowhere ELSE h[old][1]
    BY DEF Since, Winner
<1>5. /\ Since' = FindSustainedConsensusTick(g)
      /\ Winner' = IF FindSustainedConsensusTick(g) = 0 THEN Nowhere
                   ELSE g[FindSustainedConsensusTick(g)][1]
    BY <1>1 DEF Since, Winner
<1>6. FirstStart(choice_history)' <=> FirstStart(g)
    BY <1>1
<1>7. CASE ~Unanimous(c, c[1])
    <2>1. Starts(g) = {} /\ FindSustainedConsensusTick(g) = 0
        BY <1>2, <1>7, SplitTick, NothingFound
    <2>2. Watch!Split
        BY <1>1, <1>2, <1>5, <2>1 DEF Watch!Split
    <2> QED
        BY <1>6, <2>1, <2>2 DEF FirstStart, Watch!Next
<1>8. CASE Unanimous(c, c[1]) /\ Starts(h) # {} /\ h[old][1] = c[1]
    <2>1. old \in Starts(h) /\ \A s \in Starts(h) : old <= s
        BY <1>8 DEF IInv, FirstStart
    <2>2. old \in Starts(g) /\ \A s \in Starts(g) : old <= s
        BY <1>2, <1>8, <2>1, RunGoesOn
    <2>3. FindSustainedConsensusTick(g) = old
        BY <2>2, FoundIsFirst
    <2>4. old # 0 /\ old \in 1 .. Len(h)
        BY <2>1 DEF Starts
    <2>5. Watch!Agree(c[1])
        BY <1>1, <1>2, <1>4, <1>5, <1>8, <2>3, <2>4 DEF Watch!Agree
    <2> QED
        BY <1>3, <1>6, <2>2, <2>3, <2>5 DEF FirstStart, Watch!Next
<1>9. CASE Unanimous(c, c[1]) /\ (Starts(h) = {} \/ h[old][1] # c[1])
    <2>1. \A s \in Starts(h) : h[s][1] # c[1]
        BY <1>2, <1>9, StartsAgree DEF IInv, FirstStart
    <2>2. Starts(g) = {Len(h) + 1}
        BY <1>2, <1>9, <2>1, RunBegins
    <2>3. FindSustainedConsensusTick(g) = Len(h) + 1
        <3>1. Len(h) + 1 \in Starts(g) /\ \A s \in Starts(g) : Len(h) + 1 <= s
            BY <1>2, <2>2
        <3> QED
            BY <3>1, FoundIsFirst
    <2>4. Winner # c[1]
        BY <1>3, <1>4, <1>9, NowhereAssumption DEF IInv, FirstStart, NowhereAssumption
    <2>5. Watch!Agree(c[1])
        BY <1>1, <1>2, <1>4, <1>5, <2>3, <2>4 DEF Watch!Agree
    <2> QED
        BY <1>2, <1>3, <1>6, <2>2, <2>3, <2>5 DEF FirstStart, Watch!Next
<1> QED
    BY <1>7, <1>8, <1>9

-----------------------------------------------------------------------------
(* The inductive invariant holds in every state of every null-model trial. *)
THEOREM Invariant == Spec => []IInv
<1>1. Init => IInv
    <2> SUFFICES ASSUME Init PROVE IInv
        OBVIOUS
    <2>1. choice_history = << >> /\ choice_history \in Seq(Choices) /\ Len(choice_history) = 0
        BY DEF Init
    <2>2. Starts(choice_history) = {}
        BY <2>1 DEF Starts
    <2>3. FirstStart(choice_history)
        BY <2>2, NothingFound DEF FirstStart
    <2>4. TypeOK
        <3>1. NumTicks \in Nat
            BY ConfigAssumption DEF ConfigAssumption
        <3>2. Len(choice_history) <= NumTicks /\ 0 \in 0 .. NumTicks
            BY <2>1, <3>1
        <3>3. returned = FALSE /\ consensus_tick = 0
            BY DEF Init
        <3> QED
            BY <2>1, <3>2, <3>3 DEF TypeOK
    <2> QED
        BY <2>3, <2>4 DEF IInv
<1>2. IInv /\ [Next]_vars => IInv'
    <2> SUFFICES ASSUME IInv, [Next]_vars PROVE IInv'
        OBVIOUS
    <2>1. CASE Tick
        <3>1. TypeOK'
            BY <2>1, ConfigAssumption DEF IInv, TypeOK, Tick, ConfigAssumption
        <3> QED
            BY <2>1, <3>1, TickTracks DEF IInv
    <2>2. CASE Return
        <3>1. FindSustainedConsensusTick(choice_history) \in 0 .. NumTicks
            BY ConfigAssumption DEF IInv, TypeOK, FirstStart, Starts, ConfigAssumption
        <3>2. TypeOK' /\ choice_history' = choice_history
            BY <2>2, <3>1 DEF IInv, TypeOK, Return
        <3> QED
            BY <3>2 DEF IInv
    <2>3. CASE UNCHANGED vars
        BY <2>3 DEF vars, IInv, TypeOK
    <2> QED
        BY <2>1, <2>2, <2>3 DEF Next
<1> QED
    BY <1>1, <1>2, PTL DEF Spec

(* The histories and the reported tick stay within their types.            *)
THEOREM TypeCorrect == Spec => []TypeOK
<1>1. IInv => TypeOK
    BY DEF IInv
<1> QED
    BY <1>1, Invariant, PTL

(* A trial converged exactly if its last tick is unanimous, for any number *)
(* of agents, ticks and locations: this needs, beyond the invariant, that  *)
(* the reported tick is that of the finished history.                      *)
THEOREM ConvergedRight == Spec => []ConvergedIffLastUnanimous
<1> DEFINE Reported == returned => /\ Len(choice_history) = NumTicks
                                   /\ consensus_tick = FindSustainedConsensusTick(choice_history)
<1>1. Init => Reported
    BY DEF Init
<1>2. IInv /\ Reported /\ [Next]_vars => Reported'
    <2> SUFFICES ASSUME IInv, Reported, [Next]_vars PROVE Reported'
        OBVIOUS
    <2>1. CASE Tick
        <3>1. ~returned /\ returned' = returned
            BY <2>1, ConfigAssumption DEF Tick, ConfigAssumption
        <3> QED
            BY <3>1
    <2>2. CASE Return
        BY <2>2 DEF Return
    <2>3. CASE UNCHANGED vars
        BY <2>3 DEF vars
    <2> QED
        BY <2>1, <2>2, <2>3 DEF Next
<1>3. IInv /\ Reported => ConvergedIffLastUnanimous
    <2> SUFFICES ASSUME IInv, Reported, returned
                 PROVE  consensus_tick # 0 <=>
                          \E l \in Location : Unanimous(choice_history[NumTicks], l)
        BY DEF ConvergedIffLastUnanimous
    <2> DEFINE h == choice_history
    <2>1. h \in Seq(Choices) /\ Len(h) = NumTicks /\ NumTicks \in 1 .. Len(h)
          /\ h[NumTicks] \in Choices
        BY ConfigAssumption DEF IInv, TypeOK, ConfigAssumption
    <2>2. consensus_tick # 0 <=> Starts(h) # {}
        BY DEF IInv, FirstStart, Starts
    <2>3. ASSUME NEW l \in Location, Unanimous(h[NumTicks], l)
          PROVE  NumTicks \in Starts(h)
        <3>1. l = h[NumTicks][1] /\ h[NumTicks] # << >>
            BY <2>1, <2>3, ChoicesFacts
        <3> QED
            BY <2>1, <2>3, <3>1 DEF Starts, Sustained
    <2>4. ASSUME NEW s \in Starts(h)
          PROVE  \E l \in Location : Unanimous(h[NumTicks], l)
        <3>1. NumTicks \in s .. Len(h) /\ h[s] \in Choices
            BY <2>1 DEF Starts
        <3>2. Unanimous(h[NumTicks], h[s][1])
            BY <3>1 DEF Starts, Sustained
        <3>3. h[s][1] \in Location
            BY <3>1, ChoicesFacts
        <3> QED
            BY <3>2, <3>3
    <2> QED
        BY <2>2, <2>3, <2>4
<1> HIDE DEF Reported
<1> QED
    BY <1>1, <1>2, <1>3, Invariant, PTL DEF Spec

(* After every tick, what the search over the whole history finds is what  *)
(* Unanimity has kept track of.                                            *)
THEOREM SearchImplementsWatch == Spec => WatchSpec
<1>1. Init => Watch!Init
    <2> SUFFICES ASSUME Init PROVE Watch!Init
        OBVIOUS
    <2>1. choice_history = << >> /\ Len(choice_history) = 0
        BY DEF Init
    <2>2. Since = 0
        BY <2>1, NothingFound DEF Starts, Since
    <2> QED
        BY <2>1, <2>2 DEF Watch!Init, Winner
<1>2. IInv /\ [Next]_vars => [Watch!Next]_(Watch!vars)
    <2> SUFFICES ASSUME IInv, [Next]_vars PROVE [Watch!Next]_(Watch!vars)
        OBVIOUS
    <2>1. CASE Tick
        BY <2>1, TickTracks
    <2>2. CASE Return
        BY <2>2 DEF Return, Watch!vars, Since, Winner
    <2>3. CASE UNCHANGED vars
        BY <2>3 DEF vars, Watch!vars, Since, Winner
    <2> QED
        BY <2>1, <2>2, <2>3 DEF Next
<1> QED
    BY <1>1, <1>2, Invariant, PTL DEF Spec, WatchSpec, Watch!Spec
=============================================================================
