------------------------------ MODULE BusProofs ------------------------------
(***************************************************************************)
(* Proofs about the in-process bus, for any endpoints, any faults and any  *)
(* number of sends: its batches stay in order, its copies are accounted    *)
(* for, and it implements the mailbox its clients are written against.     *)
(* And about the codec of its frames, for any widths: clean frames arrive  *)
(* as they were, corrupted ones are refused.                               *)
(*                                                                         *)
(* What flush() makes of a batch is computed entry by entry, and a number  *)
(* or a checksum digit by digit, so the lemmas about them are proved by    *)
(* induction: a property of all naturals that failed would fail at a       *)
(* smallest one.                                                           *)
(***************************************************************************)
EXTENDS Wire, FiniteSetTheorems, SequenceTheorems, WellFoundedInduction, TLAPS

(* Every inhabited set of naturals has a least element.                    *)
LEMMA Smallest ==
    ASSUME NEW T \in SUBSET Nat, T # {}
    PROVE  \E n \in T : \A m \in T : n <= m
<1> DEFINE R == { ss \in Nat \X Nat : ss[1] < ss[2] }
<1>1. IsWellFoundedOn(R, Nat)
    BY NatLessThanWellFounded DEF OpToRel
<1>2. \A m, n \in Nat : m < n => << m, n >> \in R
    OBVIOUS
<1> HIDE DEF R
<1>3. \E n \in T : \A m \in T : << m, n >> \notin R
    BY <1>1, WFMin, Zenon
<1>4. PICK n \in T : \A m \in T : << m, n >> \notin R
    BY <1>3
<1>5. ASSUME NEW m \in T
      PROVE  n <= m
    <2>1. m \in Nat /\ n \in Nat /\ << m, n >> \notin R
        BY <1>4
    <2>2. ~ (m < n)
        BY <1>2, <2>1
    <2> QED
        BY <2>1, <2>2
<1> QED
    BY <1>5

(* A value computed step by step from a base exists.                       *)
LEMMA Recursion ==
    ASSUME NEW S, NEW base \in S, NEW n \in Nat, NEW step \in [1 .. n -> [S -> S]]
    PROVE  \E f \in [0 .. n -> S] :
             f[0] = base /\ \A i \in 1 .. n : f[i] = step[i][f[i - 1]]
<1> DEFINE Follows(f, m) == f[0] = base /\ \A i \in 1 .. m : f[i] = step[i][f[i - 1]]
           T == { m \in 0 .. n : ~ \E f \in [0 .. m -> S] : Follows(f, m) }
<1>1. ASSUME T # {}
      PROVE  FALSE
    <2>1. T \in SUBSET Nat
        OBVIOUS
    <2>2. PICK m \in T : \A k \in T : m <= k
        <3> HIDE DEF T
        <3> QED
            BY <1>1, <2>1, Smallest
    <2>3. m # 0
        <3>1. [i \in 0 .. 0 |-> base] \in [0 .. 0 -> S] /\ Follows([i \in 0 .. 0 |-> base], 0)
            OBVIOUS
        <3> QED
            BY <3>1
    <2>4. m \in 1 .. n /\ m - 1 \in 0 .. n /\ m - 1 \notin T
        BY <2>2, <2>3
    <2>5. PICK f \in [0 .. m - 1 -> S] : Follows(f, m - 1)
        BY <2>4
    <2> DEFINE g == [i \in 0 .. m |-> IF i = m THEN step[m][f[m - 1]] ELSE f[i]]
    <2>6. g \in [0 .. m -> S]
        BY <2>4
    <2>7. Follows(g, m)
        BY <2>4, <2>5
    <2> QED
        BY <2>2, <2>6, <2>7
<1>2. n \notin T
    <2> HIDE DEF T
    <2> QED
        BY <1>1
<1>3. \E f \in [0 .. n -> S] : Follows(f, n)
    BY <1>2
<1> QED
    BY <1>3

(* Two computations that start alike and never part end alike.             *)
LEMMA Agreement ==
    ASSUME NEW n \in Nat, NEW f, NEW g, f[0] = g[0],
           \A i \in 1 .. n : f[i - 1] = g[i - 1] => f[i] = g[i]
    PROVE  f[n] = g[n]
<1> DEFINE T == { i \in 0 .. n : f[i] # g[i] }
<1>1. ASSUME T # {}
      PROVE  FALSE
    <2>1. T \in SUBSET Nat
        OBVIOUS
    <2>2. PICK i \in T : \A k \in T : i <= k
        <3> HIDE DEF T
        <3> QED
            BY <1>1, <2>1, Smallest
    <2>3. i \in 1 .. n /\ i - 1 \in 0 .. n /\ i - 1 \notin T
        BY <2>2
    <2> QED
        BY <2>2, <2>3
<1> QED
    BY <1>1

-----------------------------------------------------------------------------
Entries(A, F) == [to : A, frame : F]

(* What flush() has delivered to e after n entries of a batch.             *)
Loop(batch, e, up) ==
    /\ up[0] = << >>
    /\ \A n \in 1 .. Len(batch) :
         up[n] = IF batch[n].to = e THEN Append(up[n - 1], batch[n].frame) ELSE up[n - 1]

LEMMA FramesForLoop ==
    ASSUME NEW A, NEW F, NEW batch \in Seq(Entries(A, F)), NEW e
    PROVE  \E up \in [0 .. Len(batch) -> Seq(F)] :
             Loop(batch, e, up) /\ FramesFor(batch, e) = up[Len(batch)]
<1> DEFINE N == Len(batch)
           Grown(n, s) == IF batch[n].to = e THEN Append(s, batch[n].frame) ELSE s
           step == [n \in 1 .. N |-> [s \in Seq(F) |-> Grown(n, s)]]
           Unrolled(up) == [n \in 0 .. Len(batch) |->
                          IF n = 0 THEN << >>
                          ELSE IF batch[n].to = e THEN Append(up[n - 1], batch[n].frame)
                          ELSE up[n - 1]]
           up == CHOOSE u : u = Unrolled(u)
<1>1. N \in Nat
    OBVIOUS
<1>2. FramesFor(batch, e) = up[N]
    BY DEF FramesFor
<1>3. \A n \in 1 .. N, s \in Seq(F) : Grown(n, s) \in Seq(F)
    <2>1. \A n \in 1 .. N : batch[n] \in Entries(A, F)
        BY ElementOfSeq
    <2> QED
        BY <2>1 DEF Entries
<1>4. ASSUME NEW u, u = Unrolled(u)
      PROVE  DOMAIN u = 0 .. N /\ Loop(batch, e, u)
    <2>1. \A n \in 0 .. N : u[n] = Unrolled(u)[n]
        BY <1>4
    <2>2. DOMAIN u = 0 .. N
        BY <1>4
    <2>3. Unrolled(u)[0] = << >>
        BY <1>1
    <2>4. \A n \in 1 .. N : n \in 0 .. N /\ Unrolled(u)[n] = Grown(n, u[n - 1])
        BY <1>1
    <2> HIDE DEF Unrolled
    <2> QED
        BY <1>1, <2>1, <2>2, <2>3, <2>4 DEF Loop
<1>5. \A u : DOMAIN u = 0 .. N /\ u = [n \in 0 .. N |-> u[n]] /\ Loop(batch, e, u) => u = Unrolled(u)
    BY <1>1 DEF Loop
<1>6. \A u : Loop(batch, e, u) <=> u[0] = << >> /\ \A n \in 1 .. N : u[n] = Grown(n, u[n - 1])
    BY DEF Loop
<1> HIDE DEF N, Grown, Unrolled
<1>7. PICK w \in [0 .. N -> Seq(F)] :
        w[0] = << >> /\ \A n \in 1 .. N : w[n] = step[n][w[n - 1]]
    <2>1. << >> \in Seq(F)
        OBVIOUS
    <2>2. step \in [1 .. N -> [Seq(F) -> Seq(F)]]
        BY <1>3
    <2> HIDE DEF step
    <2>3. ASSUME NEW S, << >> \in S, step \in [1 .. N -> [S -> S]]
          PROVE  \E w \in [0 .. N -> S] :
                   w[0] = << >> /\ \A n \in 1 .. N : w[n] = step[n][w[n - 1]]
        BY <1>1, <2>3, Recursion
    <2> QED
        BY <2>1, <2>2, <2>3
<1>8. Loop(batch, e, w)
    <2>1. ASSUME NEW n \in 1 .. N
          PROVE  w[n] = Grown(n, w[n - 1])
        <3>1. w[n - 1] \in Seq(F)
            BY <1>1
        <3> QED
            BY <1>7, <3>1
    <2> QED
        BY <1>6, <1>7, <2>1
<1>9. w = Unrolled(w)
    BY <1>5, <1>8
<1>10. up = Unrolled(up)
    BY <1>9, Zenon
<1> HIDE DEF up
<1>11. DOMAIN up = 0 .. N /\ Loop(batch, e, up)
    BY <1>4, <1>10
<1>12. ASSUME NEW n \in 0 .. N
       PROVE  up[n] = w[n]
    <2>1. up[0] = w[0]
        BY <1>6, <1>7, <1>11
    <2>2. ASSUME NEW i \in 1 .. n, up[i - 1] = w[i - 1]
          PROVE  up[i] = w[i]
        <3>1. i \in 1 .. N
            BY <1>1
        <3> QED
            BY <1>6, <1>8, <1>11, <2>2, <3>1
    <2>3. n \in Nat
        BY <1>1
    <2> QED
        BY <2>1, <2>2, <2>3, Agreement
<1>13. up = [n \in 0 .. N |-> up[n]]
    BY <1>10, <1>11 DEF Unrolled, N
<1>14. up \in [0 .. N -> Seq(F)]
    BY <1>12, <1>13
<1> QED
    BY <1>2, <1>11, <1>14 DEF N

(* An empty batch delivers nothing.                                        *)
LEMMA FramesForEmpty ==
    ASSUME NEW e
    PROVE  FramesFor(<< >>, e) = << >>
<1>1. ASSUME NEW batch \in Seq(Entries({}, {})), batch = << >>
      PROVE  FramesFor(batch, e) = << >>
    <2>1. PICK up \in [0 .. Len(batch) -> Seq({})] :
            Loop(batch, e, up) /\ FramesFor(batch, e) = up[Len(batch)]
        BY FramesForLoop
    <2>2. Len(batch) = 0
        BY <1>1
    <2> QED
        BY <2>1, <2>2 DEF Loop
<1>2. << >> \in Seq(Entries({}, {}))
    OBVIOUS
<1> QED
    BY <1>1, <1>2

(* One entry more is one frame more for its recipient.                     *)
LEMMA FramesForAppend ==
    ASSUME NEW A, NEW F, NEW batch \in Seq(Entries(A, F)), NEW x \in Entries(A, F), NEW e
    PROVE  FramesFor(Append(batch, x), e) =
             IF x.to = e THEN Append(FramesFor(batch, e), x.frame) ELSE FramesFor(batch, e)
<1> DEFINE N == Len(batch)
           longer == Append(batch, x)
<1>1. /\ N \in Nat /\ longer \in Seq(Entries(A, F)) /\ Len(longer) = N + 1
      /\ longer[N + 1] = x
      /\ \A n \in 1 .. N : longer[n] = batch[n]
    BY AppendProperties
<1> HIDE DEF longer
<1>2. PICK up \in [0 .. N -> Seq(F)] : Loop(batch, e, up) /\ FramesFor(batch, e) = up[N]
    BY FramesForLoop
<1>3. PICK long \in [0 .. Len(longer) -> Seq(F)] :
        Loop(longer, e, long) /\ FramesFor(longer, e) = long[Len(longer)]
    BY <1>1, FramesForLoop
<1> HIDE DEF N
<1>4. up[N] = long[N]
    <2>1. up[0] = long[0]
        BY <1>2, <1>3 DEF Loop
    <2>2. ASSUME NEW n \in 1 .. N, up[n - 1] = long[n - 1]
          PROVE  up[n] = long[n]
        <3>1. n \in 1 .. Len(longer) /\ longer[n] = batch[n]
            BY <1>1
        <3> QED
            BY <1>2, <1>3, <2>2, <3>1 DEF Loop, N
    <2> QED
        BY <1>1, <2>1, <2>2, Agreement
<1>5. N + 1 \in 1 .. Len(longer) /\ (N + 1) - 1 = N
    BY <1>1
<1>6. long[N + 1] = IF x.to = e THEN Append(long[N], x.frame) ELSE long[N]
    BY <1>1, <1>3, <1>5 DEF Loop
<1> QED
    BY <1>1, <1>2, <1>3, <1>4, <1>6 DEF longer

(* Nothing is lost, made up or turned round between a batch and what each  *)
(* recipient gets of it.                                                   *)
Enumerates(q, batch, e, frames) ==
    /\ q \in [1 .. Len(frames) -> 1 .. Len(batch)]
    /\ \A j, k \in 1 .. Len(frames) : q[j] = q[k] => j = k
    /\ \A k \in 1 .. Len(frames) : batch[q[k]].to = e /\ frames[k] = batch[q[k]].frame
    /\ \A i \in 1 .. Len(batch) : batch[i].to = e => \E k \in 1 .. Len(frames) : q[k] = i

LEMMA FramesForPlaces ==
    ASSUME NEW A, NEW F, NEW batch \in Seq(Entries(A, F)), NEW e
    PROVE  /\ FramesFor(batch, e) \in Seq(F)
           /\ \E q : Enumerates(q, batch, e, FramesFor(batch, e))
<1> DEFINE N == Len(batch)
<1>1. PICK up \in [0 .. N -> Seq(F)] : Loop(batch, e, up) /\ FramesFor(batch, e) = up[N]
    BY FramesForLoop
<1> DEFINE Placed(n, q) ==
             /\ q \in [1 .. Len(up[n]) -> 1 .. n]
             /\ \A j, k \in 1 .. Len(up[n]) : q[j] = q[k] => j = k
             /\ \A k \in 1 .. Len(up[n]) :
                  batch[q[k]].to = e /\ up[n][k] = batch[q[k]].frame
             /\ \A i \in 1 .. n : batch[i].to = e => \E k \in 1 .. Len(up[n]) : q[k] = i
           T == { n \in 0 .. N : ~ \E q : Placed(n, q) }
<1>2. N \in Nat
    OBVIOUS
<1>3. ASSUME T # {}
      PROVE  FALSE
    <2>1. T \in SUBSET Nat
        OBVIOUS
    <2>2. PICK n \in T : \A k \in T : n <= k
        <3> HIDE DEF T
        <3> QED
            BY <1>3, <2>1, Smallest
    <2>3. n # 0
        <3>1. up[0] = << >>
            BY <1>1 DEF Loop
        <3>2. Placed(0, << >>)
            BY <3>1
        <3> QED
            BY <3>2
    <2>4. n \in 1 .. N /\ n - 1 \in 0 .. N /\ n - 1 \notin T
        <3> HIDE DEF Placed
        <3> QED
            BY <2>2, <2>3
    <2>5. PICK q : Placed(n - 1, q)
        <3> HIDE DEF Placed
        <3> QED
            BY <2>4
    <2>6. up[n - 1] \in Seq(F) /\ up[n] \in Seq(F) /\ Len(up[n - 1]) \in Nat
        BY <2>4
    <2>7. batch[n] \in Entries(A, F)
        BY <2>4, ElementOfSeq
    <2>8. CASE batch[n].to = e
        <3> DEFINE m == Len(up[n - 1])
                   r == [k \in 1 .. m + 1 |-> IF k = m + 1 THEN n ELSE q[k]]
        <3>1. up[n] = Append(up[n - 1], batch[n].frame)
            BY <1>1, <2>4, <2>8 DEF Loop
        <3>2. batch[n].frame \in F
            BY <2>7 DEF Entries
        <3>3. /\ Len(up[n]) = m + 1 /\ up[n][m + 1] = batch[n].frame
              /\ \A k \in 1 .. m : up[n][k] = up[n - 1][k]
            BY <2>6, <3>1, <3>2, AppendProperties
        <3>4. /\ m \in Nat /\ n \in Nat /\ n >= 1
              /\ \A k \in 1 .. m : q[k] \in 1 .. n - 1 /\ q[k] # n
            <4>1. m \in Nat /\ n \in Nat /\ n >= 1
                BY <2>4, <2>6
            <4>2. q \in [1 .. m -> 1 .. n - 1]
                BY <2>5
            <4>3. \A i \in 1 .. n - 1 : i # n
                BY <4>1
            <4> HIDE DEF m
            <4> QED
                BY <4>1, <4>2, <4>3
        <3>5. r \in [1 .. m + 1 -> 1 .. n]
            BY <3>4
        <3>6. \A k \in 1 .. m : r[k] = q[k] /\ k \in 1 .. m + 1
            BY <3>4
        <3>7. r[m + 1] = n /\ m + 1 \in 1 .. m + 1
            BY <3>4
        <3>8. \A k \in 1 .. m + 1 : k \in 1 .. m \/ k = m + 1
            BY <3>4
        <3> HIDE DEF m, r
        <3>9. \A j, k \in 1 .. m + 1 : r[j] = r[k] => j = k
            BY <2>5, <3>4, <3>6, <3>7, <3>8 DEF m
        <3>10. \A k \in 1 .. m + 1 : batch[r[k]].to = e /\ up[n][k] = batch[r[k]].frame
            BY <2>5, <2>8, <3>3, <3>6, <3>7, <3>8 DEF m
        <3>11. \A i \in 1 .. n : i \in 1 .. n - 1 \/ i = n
            BY <3>4
        <3>12. \A i \in 1 .. n : batch[i].to = e => \E k \in 1 .. m + 1 : r[k] = i
            BY <2>5, <3>6, <3>7, <3>11 DEF m
        <3>13. Placed(n, r)
            BY <3>3, <3>5, <3>9, <3>10, <3>12
        <3> QED
            BY <2>2, <3>13
    <2>9. CASE batch[n].to # e
        <3>1. up[n] = up[n - 1]
            BY <1>1, <2>4, <2>9 DEF Loop
        <3>2. n \in Nat /\ n >= 1 /\ \A i \in 1 .. n : i \in 1 .. n - 1 \/ i = n
            BY <2>4
        <3>3. q \in [1 .. Len(up[n]) -> 1 .. n]
            BY <2>5, <3>1, <3>2
        <3>4. \A i \in 1 .. n : batch[i].to = e => \E k \in 1 .. Len(up[n]) : q[k] = i
            BY <2>5, <2>9, <3>1, <3>2
        <3>5. Placed(n, q)
            BY <2>5, <3>1, <3>3, <3>4
        <3> QED
            BY <2>2, <3>5
    <2> QED
        BY <2>8, <2>9
<1>4. N \notin T
    <2> HIDE DEF T
    <2> QED
        BY <1>3
<1>5. \E q : Placed(N, q)
    <2> HIDE DEF Placed
    <2> QED
        BY <1>2, <1>4
<1>6. up[N] \in Seq(F)
    BY <1>1, <1>2
<1>7. PICK q : Placed(N, q)
    BY <1>5
<1>8. Enumerates(q, batch, e, up[N])
    BY <1>7 DEF Enumerates
<1> QED
    BY <1>1, <1>6, <1>8

-----------------------------------------------------------------------------
(* reorder_batch() permutes: each place of the batch is used, and once.    *)
LEMMA OrdersOnto ==
    ASSUME NEW n \in Nat, NEW p \in Orders(n)
    PROVE  \A j \in 1 .. n : \E i \in 1 .. n : p[i] = j
<1>1. IsFiniteSet(1 .. n)
    BY FS_Interval
<1>2. p \in Injection(1 .. n, 1 .. n)
    BY DEF Orders, Injection, IsInjective
<1>3. p \in Surjection(1 .. n, 1 .. n)
    BY <1>1, <1>2, FS_Injection
<1> QED
    BY <1>3 DEF Surjection

LEMMA ReorderPermutes ==
    ASSUME NEW S, NEW s \in Seq(S), NEW order \in ReorderBatch(s)
    PROVE  /\ order \in Seq(S)
           /\ \E p \in Orders(Len(s)) : order = [i \in DOMAIN s |-> s[p[i]]]
<1> DEFINE id == [i \in 1 .. Len(s) |-> i]
<1>1. id \in Orders(Len(s))
    BY DEF Orders
<1>2. s = [i \in DOMAIN s |-> s[id[i]]]
    OBVIOUS
<1>3. order = s \/ \E p \in Orders(Len(s)) : order = [i \in DOMAIN s |-> s[p[i]]]
    BY DEF ReorderBatch
<1> HIDE DEF id
<1>4. PICK p \in Orders(Len(s)) : order = [i \in DOMAIN s |-> s[p[i]]]
    BY <1>1, <1>2, <1>3
<1>5. p \in [1 .. Len(s) -> 1 .. Len(s)] /\ DOMAIN s = 1 .. Len(s) /\ Len(s) \in Nat
    BY DEF Orders
<1>6. order \in [1 .. Len(s) -> S]
    BY <1>4, <1>5
<1> QED
    BY <1>4, <1>5, <1>6

(* What a recipient gets of a reordered batch is a reordering of what it   *)
(* would have got: a batch-wide permutation never mixes recipients.        *)
LEMMA FlushReordersLanes ==
    ASSUME NEW A, NEW F, NEW batch \in Seq(Entries(A, F)), NEW order \in ReorderBatch(batch), NEW e
    PROVE  FramesFor(order, e) \in ReorderBatch(FramesFor(batch, e))
<1> DEFINE old == FramesFor(batch, e)
           new == FramesFor(order, e)
<1>1. order \in Seq(Entries(A, F))
    BY ReorderPermutes
<1>2. PICK p \in Orders(Len(batch)) : order = [i \in DOMAIN batch |-> batch[p[i]]]
    BY ReorderPermutes
<1>3. old \in Seq(F) /\ new \in Seq(F)
    BY <1>1, FramesForPlaces
<1>4. PICK q : Enumerates(q, batch, e, old)
    BY FramesForPlaces
<1>5. PICK t : Enumerates(t, order, e, new)
    BY <1>1, FramesForPlaces
<1> HIDE DEF old, new
<1> DEFINE N == Len(batch)
           m == Len(old)
           n == Len(new)
<1>6. N \in Nat /\ m \in Nat /\ n \in Nat
    BY <1>3
<1>7. /\ p \in [1 .. N -> 1 .. N] /\ \A i, j \in 1 .. N : p[i] = p[j] => i = j
      /\ \A j \in 1 .. N : \E i \in 1 .. N : p[i] = j
    BY <1>6, OrdersOnto DEF Orders
<1>8. Len(order) = N /\ \A i \in 1 .. N : order[i] = batch[p[i]]
    <2>1. DOMAIN order = 1 .. N
        BY <1>2
    <2> QED
        BY <1>1, <1>2, <2>1, <1>6
<1>9. /\ q \in [1 .. m -> 1 .. N] /\ \A j, k \in 1 .. m : q[j] = q[k] => j = k
      /\ \A k \in 1 .. m : batch[q[k]].to = e /\ old[k] = batch[q[k]].frame
      /\ \A i \in 1 .. N : batch[i].to = e => \E k \in 1 .. m : q[k] = i
    BY <1>4 DEF Enumerates
<1>10. /\ t \in [1 .. n -> 1 .. N] /\ \A j, k \in 1 .. n : t[j] = t[k] => j = k
       /\ \A k \in 1 .. n : order[t[k]].to = e /\ new[k] = order[t[k]].frame
       /\ \A i \in 1 .. N : order[i].to = e => \E k \in 1 .. n : t[k] = i
    BY <1>5, <1>8 DEF Enumerates
<1> HIDE DEF N, m, n
(* r[k] : the place in old of the k-th frame of new.                       *)
<1>11. \A k \in 1 .. n : \E j \in 1 .. m : q[j] = p[t[k]]
    <2>1. ASSUME NEW k \in 1 .. n
          PROVE  \E j \in 1 .. m : q[j] = p[t[k]]
        <3>1. t[k] \in 1 .. N /\ order[t[k]].to = e
            BY <1>10
        <3>2. p[t[k]] \in 1 .. N /\ batch[p[t[k]]].to = e
            BY <1>7, <1>8, <3>1
        <3> QED
            BY <1>9, <3>2
    <2> QED
        BY <2>1
<1> DEFINE r == [k \in 1 .. n |-> CHOOSE j \in 1 .. m : q[j] = p[t[k]]]
<1>12. r \in [1 .. n -> 1 .. m] /\ \A k \in 1 .. n : q[r[k]] = p[t[k]]
    BY <1>11
<1> HIDE DEF r
<1>13. \A j, k \in 1 .. n : r[j] = r[k] => j = k
    <2>1. ASSUME NEW j \in 1 .. n, NEW k \in 1 .. n, r[j] = r[k]
          PROVE  j = k
        <3>1. p[t[j]] = p[t[k]] /\ t[j] \in 1 .. N /\ t[k] \in 1 .. N
            BY <1>10, <1>12, <2>1
        <3>2. t[j] = t[k]
            BY <1>7, <3>1
        <3> QED
            BY <1>10, <3>2
    <2> QED
        BY <2>1
<1>14. \A j \in 1 .. m : \E k \in 1 .. n : r[k] = j
    <2>1. ASSUME NEW j \in 1 .. m
          PROVE  \E k \in 1 .. n : r[k] = j
        <3>1. PICK i \in 1 .. N : p[i] = q[j]
            BY <1>7, <1>9
        <3>2. order[i].to = e
            BY <1>8, <1>9, <3>1
        <3>3. PICK k \in 1 .. n : t[k] = i
            BY <1>10, <3>2
        <3> QED
            BY <1>9, <1>12, <3>1, <3>3
    <2> QED
        BY <2>1
<1>15. m = n
    <2>1. r \in Bijection(1 .. n, 1 .. m)
        BY <1>12, <1>13, <1>14 DEF Bijection, Injection, Surjection, IsInjective
    <2>2. ExistsBijection(1 .. n, 1 .. m)
        BY <2>1 DEF ExistsBijection
    <2>3. Cardinality(1 .. m) = n
        BY <1>6, <2>2, FS_CountingElements
    <2>4. Cardinality(1 .. m) = m
        BY <1>6, FS_Interval
    <2> QED
        BY <2>3, <2>4
<1>16. r \in Orders(m)
    BY <1>12, <1>13, <1>15 DEF Orders
<1>17. new = [k \in DOMAIN old |-> old[r[k]]]
    <2>1. DOMAIN new = 1 .. m /\ DOMAIN old = 1 .. m
        BY <1>3, <1>15 DEF m, n
    <2>2. \A k \in 1 .. m : new[k] = old[r[k]]
        <3>1. ASSUME NEW k \in 1 .. m
              PROVE  new[k] = old[r[k]]
            <4>1. k \in 1 .. n /\ t[k] \in 1 .. N /\ r[k] \in 1 .. m
                BY <1>10, <1>12, <1>15
            <4>2. new[k] = batch[p[t[k]]].frame
                BY <1>8, <1>10, <4>1
            <4>3. old[r[k]] = batch[q[r[k]]].frame
                BY <1>9, <4>1
            <4> QED
                BY <1>12, <4>1, <4>2, <4>3
        <3> QED
            BY <3>1
    <2>3. new = [k \in DOMAIN new |-> new[k]]
        BY <1>3
    <2> QED
        BY <2>1, <2>2, <2>3
<1>18. CASE Reorder /\ m >= 2
    <2>1. ReorderBatch(old) = { [i \in DOMAIN old |-> old[f[i]]] : f \in Orders(m) }
        BY <1>18, <1>6 DEF ReorderBatch, m
    <2> QED
        BY <1>16, <1>17, <2>1 DEF old, new
<1>19. CASE ~ (Reorder /\ m >= 2)
    <2>1. ReorderBatch(old) = { old }
        BY <1>19, <1>6 DEF ReorderBatch, m
    <2>2. new = old
        <3>1. CASE ~ Reorder
            BY <3>1 DEF ReorderBatch, old, new
        <3>2. CASE m < 2
            <4>1. \A k \in 1 .. m : r[k] = k
                BY <1>6, <1>12, <1>15, <3>2
            <4>2. DOMAIN old = 1 .. m /\ old = [k \in DOMAIN old |-> old[k]]
                BY <1>3 DEF m
            <4> QED
                BY <1>17, <4>1, <4>2
        <3> QED
            BY <1>6, <1>19, <3>1, <3>2
    <2> QED
        BY <2>1, <2>2 DEF old, new
<1> QED
    BY <1>18, <1>19

-----------------------------------------------------------------------------
(* The three outcomes of a send, and what was rolled for each.             *)
LEMMA TransmissionShape ==
    ASSUME NEW m, NEW frames \in Transmissions(m)
    PROVE  \/ frames = << >> /\ TRUE \in DropRoll
           \/ /\ FALSE \in DropRoll
              /\ \E clean \in BOOLEAN :
                   \/ frames = << [msg |-> m, clean |-> clean] >> /\ FALSE \in DuplicateRoll
                   \/ /\ frames = << [msg |-> m, clean |-> clean], [msg |-> m, clean |-> clean] >>
                      /\ TRUE \in DuplicateRoll
<1>1. CASE frames = << >> /\ TRUE \in DropRoll
    BY <1>1
<1>2. ASSUME NEW roll \in (DropRoll \cap {FALSE}) \X CorruptRoll \X DuplicateRoll,
             frames = Copies(m, roll[2], roll[3])
      PROVE  /\ FALSE \in DropRoll
             /\ \E clean \in BOOLEAN :
                  \/ frames = << [msg |-> m, clean |-> clean] >> /\ FALSE \in DuplicateRoll
                  \/ /\ frames = << [msg |-> m, clean |-> clean], [msg |-> m, clean |-> clean] >>
                     /\ TRUE \in DuplicateRoll
    <2>1. roll[1] \in DropRoll /\ roll[1] \in {FALSE} /\ roll[3] \in DuplicateRoll
        OBVIOUS
    <2>2. FALSE \in DropRoll
        BY <2>1
    <2>3. roll[3] \in BOOLEAN
        BY <2>1, RollAssumption DEF RollAssumption
    <2>4. (~roll[2]) \in BOOLEAN
        OBVIOUS
    <2>5. CASE roll[3] = TRUE
        <3>1. frames = << [msg |-> m, clean |-> ~roll[2]], [msg |-> m, clean |-> ~roll[2]] >>
            BY <1>2, <2>5 DEF Copies
        <3> QED
            BY <2>1, <2>2, <2>4, <2>5, <3>1
    <2>6. CASE roll[3] = FALSE
        <3>1. frames = << [msg |-> m, clean |-> ~roll[2]] >>
            BY <1>2, <2>6 DEF Copies
        <3> QED
            BY <2>1, <2>2, <2>4, <2>6, <3>1
    <2> QED
        BY <2>3, <2>5, <2>6
<1>3. \/ frames = << >> /\ TRUE \in DropRoll
      \/ \E roll \in (DropRoll \cap {FALSE}) \X CorruptRoll \X DuplicateRoll :
           frames = Copies(m, roll[2], roll[3])
    BY DEF Transmissions
<1> QED
    BY <1>1, <1>2, <1>3

(* A send prolongs the lane of its addressee, and no other.                *)
Prolonged(batch, d, frames) ==
    batch \o [i \in DOMAIN frames |-> [to |-> d, frame |-> frames[i]]]

Prolongs(A, M, batch, d, m, frames, longer) ==
    /\ longer \in Seq(Entries(A, Frames(M)))
    /\ frames \in Seq(Frames(M))
    /\ \A i \in DOMAIN frames : frames[i].msg = m
    /\ \A i \in DOMAIN longer :
         \/ i \in DOMAIN batch /\ longer[i] = batch[i]
         \/ longer[i].to = d /\ longer[i].frame.msg = m
    /\ \A e : FramesFor(longer, e) = IF e = d THEN FramesFor(batch, e) \o frames
                                     ELSE FramesFor(batch, e)

LEMMA SendProlongsLane ==
    ASSUME NEW A, NEW M, NEW batch \in Seq(Entries(A, Frames(M))), NEW d \in A, NEW m \in M,
           NEW frames \in Transmissions(m)
    PROVE  Prolongs(A, M, batch, d, m, frames, Prolonged(batch, d, frames))
<1> SUFFICES ASSUME NEW longer, longer = Prolonged(batch, d, frames)
             PROVE  Prolongs(A, M, batch, d, m, frames, longer)
    OBVIOUS
<1> USE DEF Prolongs
<1> DEFINE F == Frames(M)
           added == [i \in DOMAIN frames |-> [to |-> d, frame |-> frames[i]]]
<1>0. longer = batch \o added
    BY DEF Prolonged
<1>1. \A e : FramesFor(batch, e) \in Seq(F)
    BY FramesForPlaces
<1>2. CASE frames = << >>
    <2>1. added = << >>
        BY <1>2
    <2>2. longer = batch /\ \A e : FramesFor(batch, e) \o frames = FramesFor(batch, e)
        BY <1>0, <1>1, <1>2, <2>1, ConcatEmptySeq
    <2> QED
        BY <1>2, <2>2
<1>3. ASSUME NEW clean \in BOOLEAN,
             frames = << [msg |-> m, clean |-> clean] >>
             \/ frames = << [msg |-> m, clean |-> clean], [msg |-> m, clean |-> clean] >>
      PROVE  /\ longer \in Seq(Entries(A, F)) /\ frames \in Seq(F)
             /\ \A i \in DOMAIN frames : frames[i].msg = m
             /\ \A i \in DOMAIN longer :
                  \/ i \in DOMAIN batch /\ longer[i] = batch[i]
                  \/ longer[i].to = d /\ longer[i].frame.msg = m
             /\ \A e : FramesFor(longer, e) = IF e = d THEN FramesFor(batch, e) \o frames
                                              ELSE FramesFor(batch, e)
    <2> DEFINE f == [msg |-> m, clean |-> clean]
               x == [to |-> d, frame |-> f]
               once == Append(batch, x)
               twice == Append(once, x)
    <2>1. f \in F /\ f.msg = m /\ x \in Entries(A, F) /\ x.to = d /\ x.frame = f
        BY DEF Frames, Entries
    <2> HIDE DEF f, x, F
    <2>2. /\ once \in Seq(Entries(A, F)) /\ Len(once) = Len(batch) + 1
          /\ \A i \in DOMAIN once : (i \in DOMAIN batch /\ once[i] = batch[i]) \/ once[i] = x
        BY <2>1 DEF F
    <2> HIDE DEF once
    <2>3. /\ twice \in Seq(Entries(A, F))
          /\ \A i \in DOMAIN twice : (i \in DOMAIN once /\ twice[i] = once[i]) \/ twice[i] = x
        BY <2>1, <2>2
    <2>4. \A e : FramesFor(once, e) = IF d = e THEN Append(FramesFor(batch, e), f)
                                      ELSE FramesFor(batch, e)
        BY <2>1, FramesForAppend DEF F, once
    <2>5. \A e : FramesFor(twice, e) = IF d = e THEN Append(FramesFor(once, e), f)
                                       ELSE FramesFor(once, e)
        BY <2>1, <2>2, FramesForAppend
    <2> HIDE DEF twice
    <2>6. CASE frames = << f >>
        <3>1. added = << x >>
            BY <2>6 DEF x
        <3>2. longer = once
            BY <1>0, <2>1, <3>1 DEF once, F
        <3>3. \A e : Append(FramesFor(batch, e), f) = FramesFor(batch, e) \o frames
            BY <1>1, <2>1, <2>6 DEF F
        <3>4. frames \in Seq(F) /\ \A i \in DOMAIN frames : frames[i].msg = m
            BY <2>1, <2>6
        <3> QED
            BY <2>1, <2>2, <2>4, <3>2, <3>3, <3>4
    <2>7. CASE frames = << f, f >>
        <3>1. added = << x, x >>
            BY <2>7 DEF x
        <3>2. longer = twice
            BY <1>0, <2>1, <3>1 DEF once, twice, F
        <3>3. \A t \in Seq(F) : Append(Append(t, f), f) = t \o << f, f >>
            BY <2>1
        <3>4. frames \in Seq(F) /\ \A i \in DOMAIN frames : frames[i].msg = m
            BY <2>1, <2>7
        <3>5. \A i \in DOMAIN longer :
                \/ i \in DOMAIN batch /\ longer[i] = batch[i]
                \/ longer[i].to = d /\ longer[i].frame.msg = m
            BY <2>1, <2>2, <2>3, <3>2
        <3>6. ASSUME NEW e
              PROVE  FramesFor(longer, e) = IF e = d THEN FramesFor(batch, e) \o frames
                                            ELSE FramesFor(batch, e)
            <4>1. CASE d = e
                <5>1. FramesFor(batch, e) \in Seq(F)
                    BY <1>1 DEF F
                <5>2. FramesFor(longer, e) = Append(Append(FramesFor(batch, e), f), f)
                    BY <2>4, <2>5, <3>2, <4>1
                <5> QED
                    BY <2>7, <3>3, <4>1, <5>1, <5>2
            <4>2. CASE d # e
                BY <2>4, <2>5, <3>2, <4>2
            <4> QED
                BY <4>1, <4>2
        <3> QED
            BY <2>3, <3>2, <3>4, <3>5, <3>6
    <2> QED
        BY <1>3, <2>6, <2>7 DEF f
<1>4. \/ frames = << >>
      \/ \E clean \in BOOLEAN :
           frames = << [msg |-> m, clean |-> clean] >>
           \/ frames = << [msg |-> m, clean |-> clean], [msg |-> m, clean |-> clean] >>
    BY TransmissionShape
<1> QED
    BY <1>2, <1>3, <1>4

-----------------------------------------------------------------------------
(* The inductive invariant: what has been flushed to an endpoint is in the *)
(* order of the batches and older than the batch that is pending, which    *)
(* holds frames of the present batch only; every frame is at the endpoint  *)
(* it was sent to; and the copies are accounted for.                       *)
Delivered(e) == received[e] \o InboxOf(e)
Lane(e) == FramesFor(pending, e)
BatchOf(f) == sends[f.msg].batch
Known(e, f) == f.msg \in Sent /\ sends[f.msg].to = e

DeliveredInOrder ==
    \A e \in Endpoint :
        /\ \A i \in DOMAIN Delivered(e) :
             Known(e, Delivered(e)[i]) /\ BatchOf(Delivered(e)[i]) < flushes
        /\ \A i, j \in DOMAIN Delivered(e) :
             i < j => BatchOf(Delivered(e)[i]) <= BatchOf(Delivered(e)[j])

PendingCurrent ==
    \A i \in DOMAIN pending :
        Known(pending[i].to, pending[i].frame) /\ BatchOf(pending[i].frame) = flushes

Ordered == TypeOK /\ DeliveredInOrder /\ PendingCurrent

(* The type of the pending batch in the form the lemmas above have it.     *)
LEMMA PendingType ==
    TypeOK => pending \in Seq(Entries(DOMAIN inboxes, Frames(MsgId)))
BY DEF TypeOK, Entries

LEMMA LineParts ==
    ASSUME TypeOK, NEW e \in Endpoint
    PROVE  /\ received[e] \in Seq(Frames(MsgId)) /\ InboxOf(e) \in Seq(Frames(MsgId))
           /\ Delivered(e) \in Seq(Frames(MsgId)) /\ Lane(e) \in Seq(Frames(MsgId))
           /\ Line(e) = Delivered(e) \o Lane(e)
<1>1. received[e] \in Seq(Frames(MsgId)) /\ InboxOf(e) \in Seq(Frames(MsgId))
    BY DEF TypeOK, InboxOf
<1>2. Delivered(e) \in Seq(Frames(MsgId))
    BY <1>1, ConcatProperties DEF Delivered
<1>3. Lane(e) \in Seq(Frames(MsgId))
    BY PendingType, FramesForPlaces DEF Lane
<1> QED
    BY <1>1, <1>2, <1>3 DEF Line, Delivered, Lane

LEMMA LaneCurrent ==
    ASSUME Ordered, NEW e \in Endpoint, NEW i \in DOMAIN Lane(e)
    PROVE  Known(e, Lane(e)[i]) /\ BatchOf(Lane(e)[i]) = flushes
<1>1. Lane(e) \in Seq(Frames(MsgId)) /\ pending \in Seq(Entries(DOMAIN inboxes, Frames(MsgId)))
    BY LineParts, PendingType DEF Ordered
<1>2. PICK q : Enumerates(q, pending, e, Lane(e))
    BY <1>1, FramesForPlaces DEF Lane
<1>3. i \in 1 .. Len(Lane(e)) /\ q[i] \in DOMAIN pending
    BY <1>1, <1>2 DEF Enumerates
<1>4. pending[q[i]].to = e /\ Lane(e)[i] = pending[q[i]].frame
    BY <1>2, <1>3 DEF Enumerates
<1> QED
    BY <1>3, <1>4 DEF Ordered, PendingCurrent

LEMMA BatchField ==
    ASSUME NEW A, NEW s \in Seq([to : A, batch : Nat]), NEW n \in DOMAIN s
    PROVE  s[n].batch \in Nat
<1> DEFINE S == [to : A, batch : Nat]
<1>1. \A x \in S : x.batch \in Nat
    OBVIOUS
<1>2. s \in Seq(S)
    OBVIOUS
<1> HIDE DEF S
<1>3. s[n] \in S
    BY <1>2
<1> QED
    BY <1>1, <1>3

LEMMA BatchesNat ==
    TypeOK => \A n \in DOMAIN sends : sends[n].batch \in Nat
BY BatchField DEF TypeOK

LEMMA LineOrdered == Ordered => FlushIsBarrier
<1> SUFFICES ASSUME Ordered, NEW e \in Endpoint,
                    NEW i \in DOMAIN Line(e), NEW j \in DOMAIN Line(e), i < j
             PROVE  BatchOf(Line(e)[i]) <= BatchOf(Line(e)[j])
    BY DEF FlushIsBarrier, BatchOf
<1> DEFINE D == Delivered(e)
           L == Lane(e)
<1>1. D \in Seq(Frames(MsgId)) /\ L \in Seq(Frames(MsgId)) /\ Line(e) = D \o L
    BY LineParts DEF Ordered
<1>2. /\ \A k \in DOMAIN D : BatchOf(D[k]) < flushes /\ BatchOf(D[k]) \in Nat
      /\ \A k, l \in DOMAIN D : k < l => BatchOf(D[k]) <= BatchOf(D[l])
    <2>2. \A n \in DOMAIN sends : sends[n].batch \in Nat
        BY BatchesNat DEF Ordered
    <2>3. \A k \in DOMAIN D : D[k].msg \in DOMAIN sends /\ BatchOf(D[k]) < flushes
        BY DEF Ordered, DeliveredInOrder, Known, Sent
    <2>4. \A k, l \in DOMAIN D : k < l => BatchOf(D[k]) <= BatchOf(D[l])
        BY DEF Ordered, DeliveredInOrder
    <2> HIDE DEF D
    <2> QED
        BY <2>2, <2>3, <2>4 DEF BatchOf
<1>3. \A k \in DOMAIN L : BatchOf(L[k]) = flushes /\ flushes \in Nat
    BY LaneCurrent DEF Ordered, TypeOK
<1> HIDE DEF D, L
<1>4. \A k \in DOMAIN (D \o L) :
        \/ k \in DOMAIN D /\ (D \o L)[k] = D[k]
        \/ k > Len(D) /\ k - Len(D) \in DOMAIN L /\ (D \o L)[k] = L[k - Len(D)]
    BY <1>1
<1>5. i \in Nat /\ j \in Nat /\ \A k \in DOMAIN D : k <= Len(D) /\ Len(D) \in Nat
    BY <1>1
<1>6. CASE j \in DOMAIN D
    <2>1. i \in DOMAIN D
        BY <1>1, <1>6
    <2> QED
        BY <1>1, <1>2, <1>4, <1>5, <1>6, <2>1
<1>7. CASE j \notin DOMAIN D
    BY <1>1, <1>2, <1>3, <1>4, <1>7
<1> QED
    BY <1>6, <1>7

-----------------------------------------------------------------------------
(* Registering and receiving move no frame of any line.                    *)
Quiet ==
    /\ TypeOK'
    /\ UNCHANGED << pending, sends, flushes >>
    /\ \A e \in Endpoint : Delivered(e)' = Delivered(e)

LEMMA RegisterQuiet ==
    ASSUME TypeOK, NEW e \in Endpoint, Register(e)
    PROVE  Quiet
<1>1. \A d \in Endpoint : InboxOf(d)' = InboxOf(d)
    BY DEF Register, InboxOf
<1>2. \A d \in Endpoint : Delivered(d)' = Delivered(d)
    BY <1>1 DEF Delivered, Register
<1>3. DOMAIN inboxes' = DOMAIN inboxes \cup {e}
    BY DEF Register
<1>4. \A d \in DOMAIN inboxes' : inboxes'[d] \in Seq(Frames(MsgId))
    <2>1. \A d \in Endpoint : InboxOf(d) \in Seq(Frames(MsgId))
        BY LineParts
    <2> QED
        BY <1>3, <2>1 DEF Register, TypeOK
<1>5. Entries(DOMAIN inboxes, Frames(MsgId)) \subseteq Entries(DOMAIN inboxes', Frames(MsgId))
    BY <1>3 DEF Entries
<1>6. pending' \in Seq(Entries(DOMAIN inboxes', Frames(MsgId)))
    BY <1>5, PendingType, SeqMonotonic DEF Register
<1>7. sends' \in Seq([to : DOMAIN inboxes', batch : Nat])
    <2>1. [to : DOMAIN inboxes, batch : Nat] \subseteq [to : DOMAIN inboxes', batch : Nat]
        BY <1>3
    <2> QED
        BY <2>1, SeqMonotonic DEF Register, TypeOK
<1> QED
    BY <1>2, <1>3, <1>4, <1>6, <1>7 DEF Quiet, TypeOK, Register, Entries

LEMMA TryRecvQuiet ==
    ASSUME TypeOK, NEW e \in Endpoint, TryRecv(e)
    PROVE  Quiet
<1>1. /\ e \in DOMAIN inboxes /\ inboxes[e] # << >>
      /\ received' = [received EXCEPT ![e] = Append(@, Head(inboxes[e]))]
      /\ inboxes' = [inboxes EXCEPT ![e] = Tail(@)]
      /\ UNCHANGED << pending, sends, flushes >>
    BY DEF TryRecv
<1>2. /\ inboxes[e] \in Seq(Frames(MsgId)) /\ received[e] \in Seq(Frames(MsgId))
      /\ received \in [Endpoint -> Seq(Frames(MsgId))]
    BY <1>1 DEF TypeOK
<1>3. /\ Head(inboxes[e]) \in Frames(MsgId) /\ Tail(inboxes[e]) \in Seq(Frames(MsgId))
      /\ Append(received[e], Head(inboxes[e])) \o Tail(inboxes[e]) = received[e] \o inboxes[e]
    <2>1. \A S : \A r \in Seq(S), b \in Seq(S) :
            b # << >> => /\ Head(b) \in S /\ Tail(b) \in Seq(S)
                         /\ Append(r, Head(b)) \o Tail(b) = r \o b
        OBVIOUS
    <2> QED
        BY <1>1, <1>2, <2>1
<1>4. DOMAIN inboxes' = DOMAIN inboxes
    BY <1>1
<1>5. /\ received'[e] = Append(received[e], Head(inboxes[e]))
      /\ inboxes'[e] = Tail(inboxes[e])
      /\ \A d \in Endpoint \ {e} : received'[d] = received[d]
      /\ \A d \in DOMAIN inboxes \ {e} : inboxes'[d] = inboxes[d]
    BY <1>1, <1>2
<1>6. \A d \in Endpoint : Delivered(d)' = Delivered(d)
    BY <1>1, <1>3, <1>4, <1>5 DEF Delivered, InboxOf
<1>7. received' \in [Endpoint -> Seq(Frames(MsgId))]
    BY <1>1, <1>2, <1>3
<1>8. \A d \in DOMAIN inboxes' : inboxes'[d] \in Seq(Frames(MsgId))
    BY <1>3, <1>4, <1>5 DEF TypeOK
<1>9. TypeOK'
    BY <1>1, <1>4, <1>7, <1>8 DEF TypeOK
<1> QED
    BY <1>1, <1>6, <1>9 DEF Quiet

LEMMA QuietOrdered ==
    ASSUME Ordered, Quiet
    PROVE  Ordered' /\ \A e \in Endpoint : Line(e)' = Line(e)
<1>1. \A e \in Endpoint : Delivered(e)' = Delivered(e) /\ Lane(e)' = Lane(e)
    BY DEF Quiet, Lane
<1>2. \A e \in Endpoint : Line(e)' = Line(e)
    <2>1. \A e \in Endpoint : /\ Line(e) = Delivered(e) \o Lane(e)
                              /\ Line(e)' = Delivered(e)' \o Lane(e)'
        BY DEF Line, Delivered, Lane
    <2> QED
        BY <1>1, <2>1
<1>3. PendingCurrent'
    BY DEF Ordered, Quiet, PendingCurrent, Known, BatchOf, Sent
<1>4. DeliveredInOrder'
    BY <1>1 DEF Ordered, Quiet, DeliveredInOrder, Known, BatchOf, Sent
<1> QED
    BY <1>2, <1>3, <1>4 DEF Quiet, Ordered

(* A send names a new message, in the present batch, and its frames go to  *)
(* the end of one line.                                                    *)
LEMMA SendEffect ==
    ASSUME Ordered, NEW e \in Endpoint, Send(e)
    PROVE  /\ Ordered'
           /\ Len(sends) \in Nat /\ sends' = Append(sends, [to |-> e, batch |-> flushes])
           /\ Sent' = Sent \cup {Len(sends) + 1} /\ Len(sends) + 1 \notin Sent
           /\ \A id \in Sent : sends'[id] = sends[id]
           /\ sends'[Len(sends) + 1].to = e
           /\ \E frames \in Transmissions(Len(sends) + 1) :
                /\ frames \in Seq(Frames(MsgId))
                /\ \A i \in DOMAIN frames : frames[i].msg = Len(sends) + 1
                /\ \A d \in Endpoint : Line(d)' = IF d = e THEN Line(d) \o frames ELSE Line(d)
                /\ \A d \in Endpoint : Lane(d)' = IF d = e THEN Lane(d) \o frames ELSE Lane(d)
           /\ Len(sends) + 1 \in MsgId
<1> DEFINE id == Len(sends) + 1
           S == [to : DOMAIN inboxes, batch : Nat]
           x == [to |-> e, batch |-> flushes]
<1>1. PICK frames \in Transmissions(id) :
        pending' = pending \o [i \in DOMAIN frames |-> [to |-> e, frame |-> frames[i]]]
    BY DEF Send
<1>2. /\ e \in DOMAIN inboxes /\ Len(sends) < MaxSends
      /\ sends' = Append(sends, x)
      /\ inboxes' = inboxes /\ flushes' = flushes /\ received' = received
    BY DEF Send, Bounded
<1>3. sends \in Seq(S) /\ flushes \in Nat /\ x \in S
    BY <1>2 DEF Ordered, TypeOK
<1>4. /\ Len(sends) \in Nat /\ sends' \in Seq(S) /\ id \in MsgId
      /\ DOMAIN sends' = DOMAIN sends \cup {id} /\ id \notin DOMAIN sends
      /\ sends'[id] = x /\ \A n \in DOMAIN sends : sends'[n] = sends[n]
    <2> HIDE DEF S, x
    <2>1. Len(sends) \in Nat /\ DOMAIN sends = 1 .. Len(sends)
        BY <1>3
    <2>2. id \in MsgId
        BY <1>2, <2>1, BoundAssumption DEF MsgId, BoundAssumption
    <2>3. /\ sends' \in Seq(S) /\ Len(sends') = Len(sends) + 1
          /\ DOMAIN sends' = 1 .. Len(sends) + 1
          /\ sends'[id] = x /\ \A n \in DOMAIN sends : sends'[n] = sends[n]
        BY <1>2, <1>3
    <2> QED
        BY <2>1, <2>2, <2>3
<1> HIDE DEF id
<1>5. pending \in Seq(Entries(DOMAIN inboxes, Frames(MsgId)))
    BY PendingType DEF Ordered
<1>6. /\ pending' \in Seq(Entries(DOMAIN inboxes, Frames(MsgId)))
      /\ frames \in Seq(Frames(MsgId))
      /\ \A i \in DOMAIN frames : frames[i].msg = id
      /\ \A i \in DOMAIN pending' :
           \/ i \in DOMAIN pending /\ pending'[i] = pending[i]
           \/ pending'[i].to = e /\ pending'[i].frame.msg = id
      /\ \A d : Lane(d)' = IF d = e THEN Lane(d) \o frames ELSE Lane(d)
    <2>1. e \in DOMAIN inboxes /\ id \in MsgId /\ frames \in Transmissions(id)
        BY <1>1, <1>2, <1>4
    <2>2. Prolongs(DOMAIN inboxes, MsgId, pending, e, id, frames, Prolonged(pending, e, frames))
        BY <1>5, <2>1, SendProlongsLane
    <2> QED
        BY <1>1, <2>2 DEF Prolongs, Prolonged, Lane
<1>7. \A d \in Endpoint : Delivered(d)' = Delivered(d)
    BY <1>2 DEF Delivered, InboxOf
<1>8. TypeOK'
    BY <1>2, <1>3, <1>4, <1>6 DEF Ordered, TypeOK, Entries
<1>9. DeliveredInOrder'
    BY <1>2, <1>4, <1>7 DEF Ordered, DeliveredInOrder, Known, BatchOf, Sent
<1>10. PendingCurrent'
    <2>1. ASSUME NEW i \in DOMAIN pending'
          PROVE  /\ pending'[i].frame.msg \in DOMAIN sends'
                 /\ sends'[pending'[i].frame.msg].to = pending'[i].to
                 /\ sends'[pending'[i].frame.msg].batch = flushes'
        <3>1. CASE i \in DOMAIN pending /\ pending'[i] = pending[i]
            BY <1>2, <1>4, <3>1 DEF Ordered, PendingCurrent, Known, BatchOf, Sent
        <3>2. CASE pending'[i].to = e /\ pending'[i].frame.msg = id
            BY <1>2, <1>4, <3>2
        <3> QED
            BY <1>6, <3>1, <3>2
    <2> QED
        BY <2>1 DEF PendingCurrent, Known, BatchOf, Sent
<1>11. \A d \in Endpoint : Line(d)' = IF d = e THEN Line(d) \o frames ELSE Line(d)
    <2>1. ASSUME NEW d \in Endpoint
          PROVE  Line(d)' = IF d = e THEN Line(d) \o frames ELSE Line(d)
        <3>1. /\ Delivered(d) \in Seq(Frames(MsgId)) /\ Lane(d) \in Seq(Frames(MsgId))
              /\ Line(d) = Delivered(d) \o Lane(d)
            BY LineParts DEF Ordered
        <3>2. Line(d)' = Delivered(d)' \o Lane(d)'
            BY DEF Line, Delivered, Lane
        <3>3. Delivered(d) \o (Lane(d) \o frames) = (Delivered(d) \o Lane(d)) \o frames
            <4>1. frames \in Seq(Frames(MsgId))
                BY <1>6
            <4> QED
                BY <3>1, <4>1, ConcatAssociative
        <3>4. Lane(d)' = IF d = e THEN Lane(d) \o frames ELSE Lane(d)
            BY <1>6
        <3> QED
            BY <1>7, <3>1, <3>2, <3>3, <3>4
    <2> QED
        BY <2>1
<1>12. \E fs \in Transmissions(id) :
         /\ fs \in Seq(Frames(MsgId))
         /\ \A i \in DOMAIN fs : fs[i].msg = id
         /\ \A d \in Endpoint : Line(d)' = IF d = e THEN Line(d) \o fs ELSE Line(d)
         /\ \A d \in Endpoint : Lane(d)' = IF d = e THEN Lane(d) \o fs ELSE Lane(d)
    BY <1>6, <1>11
<1>13. Sent' = Sent \cup {id} /\ id \notin Sent /\ \A n \in Sent : sends'[n] = sends[n]
    BY <1>4 DEF Sent
<1>14. Ordered'
    BY <1>8, <1>9, <1>10 DEF Ordered
<1>15. sends'[id].to = e
    BY <1>4
<1> QED
    BY <1>2, <1>4, <1>12, <1>13, <1>14, <1>15 DEF id

(* A flush turns the pending part of each line round, and that part only.  *)
LEMMA FlushEffect ==
    ASSUME Ordered, Flush
    PROVE  /\ Ordered' /\ sends' = sends
           /\ \A e \in Endpoint :
                /\ \E order \in ReorderBatch(Lane(e)) :
                     InboxOf(e)' = InboxOf(e) \o order /\ Line(e)' = Delivered(e) \o order
                /\ Lane(e)' = << >>
<1>1. PICK batch \in ReorderBatch(pending) :
        inboxes' = [e \in DOMAIN inboxes |-> inboxes[e] \o FramesFor(batch, e)]
    BY DEF Flush
<1>2. pending' = << >> /\ flushes' = flushes + 1 /\ sends' = sends /\ received' = received
    BY DEF Flush
<1>3. DOMAIN inboxes' = DOMAIN inboxes
    BY <1>1
<1>4. pending \in Seq(Entries(DOMAIN inboxes, Frames(MsgId)))
    BY PendingType DEF Ordered
<1>5. batch \in Seq(Entries(DOMAIN inboxes, Frames(MsgId)))
    BY <1>4, ReorderPermutes
<1>6. ASSUME NEW e \in Endpoint
      PROVE  LET order == FramesFor(batch, e)
             IN  /\ order \in ReorderBatch(Lane(e)) /\ order \in Seq(Frames(MsgId))
                 /\ \A i \in DOMAIN order : \E j \in DOMAIN Lane(e) : order[i] = Lane(e)[j]
                 /\ InboxOf(e)' = InboxOf(e) \o order
                 /\ Delivered(e)' = Delivered(e) \o order
                 /\ Lane(e)' = << >>
                 /\ Line(e)' = Delivered(e) \o order
    <2> DEFINE order == FramesFor(batch, e)
    <2>1. order \in ReorderBatch(Lane(e))
        BY <1>4, FlushReordersLanes DEF Lane
    <2>2. order \in Seq(Frames(MsgId)) /\ Lane(e) \in Seq(Frames(MsgId))
        BY <1>5, FramesForPlaces, LineParts DEF Ordered
    <2>3. \A i \in DOMAIN order : \E j \in DOMAIN Lane(e) : order[i] = Lane(e)[j]
        <3>1. PICK p \in Orders(Len(Lane(e))) : order = [i \in DOMAIN Lane(e) |-> Lane(e)[p[i]]]
            BY <2>1, <2>2, ReorderPermutes
        <3>2. \A i \in DOMAIN Lane(e) : p[i] \in DOMAIN Lane(e)
            BY <2>2 DEF Orders
        <3> QED
            BY <3>1, <3>2
    <2>4. InboxOf(e)' = InboxOf(e) \o order
        <3>1. CASE e \in DOMAIN inboxes
            BY <1>1, <1>3, <3>1 DEF InboxOf
        <3>2. CASE e \notin DOMAIN inboxes
            <4>1. order = << >>
                <5>1. PICK q : Enumerates(q, batch, e, order)
                    BY <1>5, FramesForPlaces
                <5>2. \A i \in 1 .. Len(batch) : batch[i] \in Entries(DOMAIN inboxes, Frames(MsgId))
                    BY <1>5, ElementOfSeq
                <5>3. \A i \in 1 .. Len(batch) : batch[i].to # e
                    BY <3>2, <5>2 DEF Entries
                <5>4. Len(order) \in Nat /\ \A k \in 1 .. Len(order) : FALSE
                    BY <2>2, <5>1, <5>3 DEF Enumerates
                <5> HIDE DEF order
                <5> QED
                    BY <2>2, <5>4, EmptySeq
            <4>2. InboxOf(e)' = << >> /\ InboxOf(e) = << >>
                BY <1>3, <3>2 DEF InboxOf
            <4> QED
                BY <4>1, <4>2
        <3> QED
            BY <3>1, <3>2
    <2>5. Delivered(e)' = Delivered(e) \o order
        <3>1. received[e] \in Seq(Frames(MsgId)) /\ InboxOf(e) \in Seq(Frames(MsgId))
            BY LineParts DEF Ordered
        <3>2. Delivered(e)' = received[e] \o (InboxOf(e) \o order)
            BY <1>2, <2>4 DEF Delivered
        <3> HIDE DEF order
        <3>3. order \in Seq(Frames(MsgId))
            BY <2>2
        <3>4. received[e] \o (InboxOf(e) \o order) = (received[e] \o InboxOf(e)) \o order
            <4>1. \A a, b, c \in Seq(Frames(MsgId)) : a \o (b \o c) = (a \o b) \o c
                BY ConcatAssociative
            <4> QED
                BY <3>1, <3>3, <4>1
        <3> QED
            BY <3>2, <3>4 DEF Delivered
    <2>6. Lane(e)' = << >>
        BY <1>2, FramesForEmpty DEF Lane
    <2>7. Line(e)' = Delivered(e) \o order
        <3>1. Line(e)' = Delivered(e)' \o << >>
            BY <2>6 DEF Line, Delivered, Lane
        <3>2. Delivered(e) \o order \in Seq(Frames(MsgId))
            BY <2>2, LineParts, ConcatProperties DEF Ordered
        <3> QED
            BY <2>5, <3>1, <3>2, ConcatEmptySeq
    <2> QED
        BY <2>1, <2>2, <2>3, <2>4, <2>5, <2>6, <2>7
<1>7. TypeOK'
    <2>1. \A e \in DOMAIN inboxes' : inboxes'[e] \in Seq(Frames(MsgId))
        <3>1. ASSUME NEW e \in DOMAIN inboxes'
              PROVE  inboxes'[e] \in Seq(Frames(MsgId))
            <4>1. e \in Endpoint
                BY <1>3 DEF Ordered, TypeOK
            <4>2. inboxes'[e] = InboxOf(e) \o FramesFor(batch, e)
                BY <1>6, <4>1 DEF InboxOf
            <4> QED
                BY <1>6, <4>1, <4>2, LineParts, ConcatProperties DEF Ordered
        <3> QED
            BY <3>1
    <2>2. << >> \in Seq([to : DOMAIN inboxes, frame : Frames(MsgId)])
        OBVIOUS
    <2> QED
        BY <1>2, <1>3, <2>1, <2>2 DEF Ordered, TypeOK
<1>8. PendingCurrent'
    BY <1>2 DEF PendingCurrent
<1>9. DeliveredInOrder'
    <2>1. ASSUME NEW e \in Endpoint
          PROVE  /\ \A i \in DOMAIN Delivered(e)' :
                      Known(e, (Delivered(e)')[i]) /\ BatchOf((Delivered(e)')[i]) < flushes + 1
                 /\ \A i, j \in DOMAIN Delivered(e)' :
                      i < j => BatchOf((Delivered(e)')[i]) <= BatchOf((Delivered(e)')[j])
        <3> DEFINE D == Delivered(e)
                   L == FramesFor(batch, e)
        <3>1. D \in Seq(Frames(MsgId)) /\ L \in Seq(Frames(MsgId)) /\ Delivered(e)' = D \o L
            BY <1>6, LineParts DEF Ordered
        <3>2. /\ \A k \in DOMAIN D : Known(e, D[k]) /\ BatchOf(D[k]) < flushes
              /\ \A k, l \in DOMAIN D : k < l => BatchOf(D[k]) <= BatchOf(D[l])
            BY DEF Ordered, DeliveredInOrder
        <3>3. flushes \in Nat /\ \A k \in DOMAIN D : BatchOf(D[k]) \in Nat
            <4>1. sends \in Seq([to : DOMAIN inboxes, batch : Nat]) /\ flushes \in Nat
                BY DEF Ordered, TypeOK
            <4>2. \A n \in 1 .. Len(sends) : sends[n] \in [to : DOMAIN inboxes, batch : Nat]
                BY <4>1, ElementOfSeq
            <4>3. \A n \in DOMAIN sends : sends[n].batch \in Nat
                BY <4>1, <4>2
            <4> QED
                BY <3>2, <4>1, <4>3 DEF Known, BatchOf, Sent
        <3>4. \A k \in DOMAIN L : Known(e, L[k]) /\ BatchOf(L[k]) = flushes
            BY <1>6, LaneCurrent
        <3> HIDE DEF D, L
        <3>5. \A k \in DOMAIN (D \o L) :
                \/ k \in DOMAIN D /\ (D \o L)[k] = D[k]
                \/ k > Len(D) /\ k - Len(D) \in DOMAIN L /\ (D \o L)[k] = L[k - Len(D)]
            BY <3>1
        <3>6. \A k \in DOMAIN (D \o L) :
                Known(e, (D \o L)[k]) /\ BatchOf((D \o L)[k]) < flushes + 1
            BY <3>2, <3>3, <3>4, <3>5
        <3>7. ASSUME NEW i \in DOMAIN (D \o L), NEW j \in DOMAIN (D \o L), i < j
              PROVE  BatchOf((D \o L)[i]) <= BatchOf((D \o L)[j])
            <4>1. CASE j \in DOMAIN D
                <5>1. i \in DOMAIN D
                    BY <3>1, <3>7, <4>1
                <5>2. (D \o L)[i] = D[i] /\ (D \o L)[j] = D[j]
                    BY <3>1, <4>1, <5>1
                <5> QED
                    BY <3>2, <3>7, <4>1, <5>1, <5>2
            <4>2. CASE j \notin DOMAIN D
                <5>1. BatchOf((D \o L)[j]) = flushes
                    BY <3>4, <3>5, <4>2
                <5> QED
                    BY <3>2, <3>3, <3>4, <3>5, <5>1
            <4> QED
                BY <4>1, <4>2
        <3> QED
            BY <3>1, <3>6, <3>7
    <2> QED
        BY <1>2, <2>1 DEF DeliveredInOrder, Known, BatchOf, Sent
<1> QED
    BY <1>2, <1>6, <1>7, <1>8, <1>9 DEF Ordered

-----------------------------------------------------------------------------
LEMMA InitOrdered == Init => Ordered
<1> SUFFICES ASSUME Init PROVE Ordered
    OBVIOUS
<1>1. /\ inboxes = << >> /\ pending = << >> /\ sends = << >> /\ flushes = 0
      /\ received = [e \in Endpoint |-> << >>]
    BY DEF Init
<1>2. DOMAIN inboxes = {}
    BY <1>1
<1>3. TypeOK
    <2>1. \A S : << >> \in Seq(S)
        OBVIOUS
    <2>2. pending \in Seq([to : DOMAIN inboxes, frame : Frames(MsgId)])
        BY <1>1, <2>1
    <2>3. sends \in Seq([to : DOMAIN inboxes, batch : Nat])
        BY <1>1, <2>1
    <2>4. received \in [Endpoint -> Seq(Frames(MsgId))]
        BY <1>1, <2>1
    <2> QED
        BY <1>1, <1>2, <2>2, <2>3, <2>4 DEF TypeOK
<1>4. \A e \in Endpoint : Delivered(e) = << >>
    BY <1>1, <1>2 DEF Delivered, InboxOf
<1> QED
    BY <1>1, <1>3, <1>4 DEF Ordered, DeliveredInOrder, PendingCurrent

LEMMA NextOrdered == Ordered /\ [Next]_vars => Ordered'
<1> SUFFICES ASSUME Ordered, [Next]_vars PROVE Ordered'
    OBVIOUS
<1>1. ASSUME NEW e \in Endpoint, Register(e) PROVE Ordered'
    BY <1>1, RegisterQuiet, QuietOrdered DEF Ordered
<1>2. ASSUME NEW e \in Endpoint, TryRecv(e) PROVE Ordered'
    BY <1>2, TryRecvQuiet, QuietOrdered DEF Ordered
<1>3. ASSUME NEW e \in Endpoint, Send(e) PROVE Ordered'
    BY <1>3, SendEffect
<1>4. ASSUME Flush PROVE Ordered'
    BY <1>4, FlushEffect
<1>5. CASE UNCHANGED vars
    <2>1. Quiet
        BY <1>5 DEF vars, Quiet, Ordered, TypeOK, Delivered, InboxOf
    <2> QED
        BY <2>1, QuietOrdered
<1> QED
    BY <1>1, <1>2, <1>3, <1>4, <1>5 DEF Next

LEMMA AlwaysOrdered == Spec => []Ordered
BY InitOrdered, NextOrdered, PTL DEF Spec

(* Type correctness of the bus.                                            *)
THEOREM TypeCorrect == Spec => []TypeOK
<1>1. Ordered => TypeOK
    BY DEF Ordered
<1> QED
    BY <1>1, AlwaysOrdered, PTL

(* flush() is a barrier: a frame handed to send() before a flush is never  *)
(* taken behind one handed to it after that flush, whatever the injector   *)
(* does within a batch.                                                    *)
THEOREM FlushBarrier == Spec => []FlushIsBarrier
BY LineOrdered, AlwaysOrdered, PTL

-----------------------------------------------------------------------------
(* The places of a message in a line, and what the faults configured allow *)
(* their number to be.                                                     *)
Places(line, id) == { i \in DOMAIN line : line[i].msg = id }
SameBytes(line, id) ==
    \A i, j \in Places(line, id) : line[i].clean = line[j].clean
Tally(n) ==
    /\ n \in 0 .. 2
    /\ n = 0 => TRUE \in DropRoll
    /\ n = 1 => FALSE \in DropRoll /\ FALSE \in DuplicateRoll
    /\ n = 2 => FALSE \in DropRoll /\ TRUE \in DuplicateRoll

LEMMA PlacesFinite ==
    ASSUME NEW S, NEW line \in Seq(S), NEW id
    PROVE  IsFiniteSet(Places(line, id)) /\ Cardinality(Places(line, id)) \in Nat
<1>1. Len(line) \in Nat /\ DOMAIN line = 1 .. Len(line)
    OBVIOUS
<1>2. IsFiniteSet(1 .. Len(line))
    BY <1>1, FS_Interval
<1>3. Places(line, id) \in SUBSET (1 .. Len(line))
    BY <1>1 DEF Places
<1>4. IsFiniteSet(Places(line, id))
    BY <1>2, <1>3, FS_Subset
<1> QED
    BY <1>4, FS_CardinalityType

LEMMA Concatenated ==
    ASSUME NEW S, NEW line \in Seq(S), NEW more \in Seq(S)
    PROVE  /\ Len(line) \in Nat /\ DOMAIN line = 1 .. Len(line)
           /\ Len(more) \in Nat /\ DOMAIN more = 1 .. Len(more)
           /\ DOMAIN (line \o more) = 1 .. Len(line) + Len(more)
           /\ \A i \in 1 .. Len(line) : (line \o more)[i] = line[i]
           /\ \A i \in Len(line) + 1 .. Len(line) + Len(more) :
                i - Len(line) \in 1 .. Len(more) /\ (line \o more)[i] = more[i - Len(line)]
OBVIOUS

(* Frames of another message at the end of a line move no place, and the   *)
(* first frames of a message have the places at the end.                   *)
NoneOf(frames, id) == \A i \in DOMAIN frames : frames[i].msg # id
AllOf(frames, id) == \A i \in DOMAIN frames : frames[i].msg = id
Alike(frames) == \A i, j \in DOMAIN frames : frames[i].clean = frames[j].clean

SamePlaces(line, longer, id) ==
    /\ Places(longer, id) = Places(line, id)
    /\ SameBytes(line, id) => SameBytes(longer, id)

LEMMA OthersAppended ==
    ASSUME NEW S, NEW line \in Seq(S), NEW more \in Seq(S), NEW id, NoneOf(more, id)
    PROVE  SamePlaces(line, line \o more, id)
<1>1. /\ Places(line \o more, id) = Places(line, id)
      /\ \A i \in Places(line, id) : (line \o more)[i] = line[i]
    BY Concatenated DEF Places, NoneOf
<1> QED
    BY <1>1 DEF SamePlaces, SameBytes

FirstPlaces(line, more, id) ==
    /\ Cardinality(Places(line \o more, id)) = Len(more)
    /\ Alike(more) => SameBytes(line \o more, id)

LEMMA FirstAppended ==
    ASSUME NEW S, NEW line \in Seq(S), NEW more \in Seq(S), NEW id,
           NoneOf(line, id), AllOf(more, id)
    PROVE  FirstPlaces(line, more, id)
<1>1. \A i \in 1 .. Len(line) : (line \o more)[i].msg # id
    BY Concatenated DEF NoneOf
<1>2. \A i \in Len(line) + 1 .. Len(line) + Len(more) : (line \o more)[i].msg = id
    BY Concatenated DEF AllOf
<1>3. Places(line \o more, id) = Len(line) + 1 .. Len(line) + Len(more)
    BY <1>1, <1>2, Concatenated DEF Places
<1>4. Cardinality(Len(line) + 1 .. Len(line) + Len(more)) = Len(more)
    <2>1. \A a, b \in Nat : Cardinality(a + 1 .. a + b) = b
        BY FS_Interval
    <2> QED
        BY <2>1, Concatenated
<1>5. Alike(more) => SameBytes(line \o more, id)
    BY <1>3, Concatenated DEF Alike, SameBytes
<1> QED
    BY <1>3, <1>4, <1>5 DEF FirstPlaces

(* The frames of one send are alike, and as many as the rolls allow.       *)
LEMMA FramesTallied ==
    ASSUME NEW m, NEW frames \in Transmissions(m)
    PROVE  Tally(Len(frames)) /\ Alike(frames)
<1>1. Tally(0) <=> TRUE \in DropRoll
    BY DEF Tally
<1>2. Tally(1) <=> FALSE \in DropRoll /\ FALSE \in DuplicateRoll
    BY DEF Tally
<1>3. Tally(2) <=> FALSE \in DropRoll /\ TRUE \in DuplicateRoll
    BY DEF Tally
<1>4. ASSUME frames = << >>
      PROVE  Len(frames) = 0 /\ Alike(frames)
    <2>1. Len(<< >>) = 0 /\ Alike(<< >>)
        BY DEF Alike
    <2> QED
        BY <1>4, <2>1
<1>5. ASSUME NEW f, frames = << f >>
      PROVE  Len(frames) = 1 /\ Alike(frames)
    <2>1. Len(<< f >>) = 1 /\ Alike(<< f >>)
        BY DEF Alike
    <2> QED
        BY <1>5, <2>1
<1>6. ASSUME NEW f, frames = << f, f >>
      PROVE  Len(frames) = 2 /\ Alike(frames)
    <2>1. Len(<< f, f >>) = 2 /\ Alike(<< f, f >>)
        BY DEF Alike
    <2> QED
        BY <1>6, <2>1
<1>7. \/ Tally(0) /\ frames = << >>
      \/ Tally(1) /\ \E f : frames = << f >>
      \/ Tally(2) /\ \E f : frames = << f, f >>
    BY <1>1, <1>2, <1>3, TransmissionShape
<1> QED
    BY <1>4, <1>5, <1>6, <1>7

(* A reordering of the end of a line keeps the copies of every message.    *)
LEMMA PlacesReordered ==
    ASSUME NEW S, NEW line \in Seq(S), NEW lane \in Seq(S),
           NEW order \in ReorderBatch(lane), NEW id
    PROVE  /\ Cardinality(Places(line \o order, id)) = Cardinality(Places(line \o lane, id))
           /\ SameBytes(line \o lane, id) => SameBytes(line \o order, id)
<1> DEFINE N == Len(line)
           n == Len(lane)
           old == line \o lane
           new == line \o order
<1>1. PICK p \in Orders(n) : order = [i \in DOMAIN lane |-> lane[p[i]]]
    BY ReorderPermutes
<1>2. order \in Seq(S)
    BY ReorderPermutes
<1>3. n \in Nat /\ N \in Nat /\ DOMAIN lane = 1 .. n /\ DOMAIN line = 1 .. N
    OBVIOUS
<1>4. DOMAIN order = 1 .. n /\ Len(order) = n
    BY <1>1, <1>2, <1>3
<1>5. /\ p \in [1 .. n -> 1 .. n] /\ \A i, j \in 1 .. n : p[i] = p[j] => i = j
      /\ \A j \in 1 .. n : \E i \in 1 .. n : p[i] = j
    BY <1>1, <1>3, OrdersOnto DEF Orders
<1>6. /\ DOMAIN old = 1 .. N + n /\ DOMAIN new = 1 .. N + n
      /\ \A i \in 1 .. N : old[i] = line[i] /\ new[i] = line[i]
      /\ \A i \in 1 .. n : old[N + i] = lane[i] /\ new[N + i] = lane[p[i]]
    <2>1. \A s \in Seq(S) : /\ DOMAIN (line \o s) = 1 .. N + Len(s)
                            /\ \A i \in 1 .. N : (line \o s)[i] = line[i]
                            /\ \A i \in 1 .. Len(s) : (line \o s)[N + i] = s[i]
        BY <1>3
    <2> QED
        BY <1>1, <1>2, <1>3, <1>4, <2>1
<1> HIDE DEF N, n, old, new
<1> DEFINE g == [i \in Places(new, id) |-> IF i <= N THEN i ELSE N + p[i - N]]
<1>7. ASSUME NEW i \in Places(new, id)
      PROVE  /\ g[i] \in Places(old, id) /\ old[g[i]] = new[i]
             /\ i \in 1 .. N + n
             /\ i <= N => g[i] = i
             /\ i > N => /\ i - N \in 1 .. n /\ g[i] = N + p[i - N]
                         /\ p[i - N] \in 1 .. n
    <2>1. i \in 1 .. N + n /\ new[i].msg = id
        BY <1>6 DEF Places
    <2>2. CASE i <= N
        BY <1>3, <1>6, <2>1, <2>2 DEF Places
    <2>3. CASE i > N
        <3>1. i - N \in 1 .. n /\ i = N + (i - N)
            BY <1>3, <2>1, <2>3
        <3>2. p[i - N] \in 1 .. n
            BY <1>5, <3>1
        <3>3. g[i] = N + p[i - N] /\ g[i] \in 1 .. N + n
            <4>1. ~ (i <= N)
                BY <1>3, <2>1, <2>3
            <4>2. g[i] = N + p[i - N]
                BY <4>1
            <4>3. N + p[i - N] \in 1 .. N + n
                BY <1>3, <3>2
            <4> QED
                BY <4>2, <4>3
        <3>4. old[N + p[i - N]] = lane[p[i - N]] /\ new[N + (i - N)] = lane[p[i - N]]
            BY <1>6, <3>1, <3>2
        <3> QED
            BY <1>3, <1>6, <2>1, <2>3, <3>1, <3>2, <3>3, <3>4 DEF Places
    <2> QED
        BY <1>3, <2>1, <2>2, <2>3
<1>8. g \in [Places(new, id) -> Places(old, id)]
    BY <1>7
<1>9. \A i, j \in Places(new, id) : g[i] = g[j] => i = j
    <2>1. ASSUME NEW i \in Places(new, id), NEW j \in Places(new, id), g[i] = g[j]
          PROVE  i = j
        <3> HIDE DEF g
        <3>1. CASE i <= N /\ j <= N
            BY <1>7, <2>1, <3>1
        <3>2. CASE i > N /\ j > N
            <4>1. p[i - N] = p[j - N]
                BY <1>3, <1>7, <2>1, <3>2
            <4>2. i - N = j - N
                BY <1>5, <1>7, <3>2, <4>1
            <4> QED
                BY <1>3, <1>7, <4>2
        <3>3. CASE i <= N /\ j > N
            BY <1>3, <1>7, <2>1, <3>3
        <3>4. CASE i > N /\ j <= N
            BY <1>3, <1>7, <2>1, <3>4
        <3> QED
            BY <1>3, <1>7, <3>1, <3>2, <3>3, <3>4
    <2> QED
        BY <2>1
<1>10. \A j \in Places(old, id) : \E i \in Places(new, id) : g[i] = j
    <2>1. ASSUME NEW j \in Places(old, id)
          PROVE  \E i \in Places(new, id) : g[i] = j
        <3>1. j \in 1 .. N + n /\ old[j].msg = id
            BY <1>6 DEF Places
        <3>2. CASE j <= N
            <4>1. j \in Places(new, id)
                BY <1>3, <1>6, <3>1, <3>2 DEF Places
            <4> QED
                BY <3>2, <4>1
        <3>3. CASE j > N
            <4>1. j - N \in 1 .. n /\ j = N + (j - N)
                BY <1>3, <3>1, <3>3
            <4>2. PICK i \in 1 .. n : p[i] = j - N
                BY <1>5, <4>1
            <4>3. new[N + i] = old[j] /\ N + i \in 1 .. N + n
                BY <1>3, <1>6, <4>1, <4>2
            <4>4. N + i \in Places(new, id)
                BY <1>6, <3>1, <4>3 DEF Places
            <4>5. ~ (N + i <= N) /\ (N + i) - N = i
                BY <1>3, <4>2
            <4>6. g[N + i] = N + p[(N + i) - N]
                BY <4>4, <4>5
            <4> QED
                BY <4>1, <4>2, <4>4, <4>5, <4>6
        <3> QED
            BY <1>3, <3>1, <3>2, <3>3
    <2> QED
        BY <2>1
<1>11. Cardinality(Places(new, id)) = Cardinality(Places(old, id))
    <2>1. g \in Bijection(Places(new, id), Places(old, id))
        BY <1>8, <1>9, <1>10 DEF Bijection, Injection, Surjection, IsInjective
    <2>2. ExistsBijection(Places(new, id), Places(old, id))
        BY <2>1 DEF ExistsBijection
    <2>3. new \in Seq(S)
        BY <1>2, ConcatProperties DEF new
    <2>4. IsFiniteSet(Places(new, id))
        BY <2>3, PlacesFinite
    <2> QED
        BY <2>2, <2>4, FS_Bijection
<1>12. SameBytes(old, id) => SameBytes(new, id)
    BY <1>7 DEF SameBytes
<1> QED
    BY <1>11, <1>12 DEF old, new

-----------------------------------------------------------------------------
(* All copies of a message stand in the line of its addressee.             *)
LineOf(id) == Line(sends[id].to)

LEMMA Addressee ==
    ASSUME Ordered, NEW id \in Sent
    PROVE  /\ sends[id].to \in Endpoint
           /\ LineOf(id) \in Seq(Frames(MsgId))
<1>1. sends \in Seq([to : DOMAIN inboxes, batch : Nat]) /\ DOMAIN inboxes \subseteq Endpoint
    BY DEF Ordered, TypeOK
<1>2. id \in 1 .. Len(sends)
    BY <1>1 DEF Sent
<1>3. sends[id] \in [to : DOMAIN inboxes, batch : Nat]
    BY <1>1, <1>2, ElementOfSeq
<1>4. sends[id].to \in Endpoint
    BY <1>1, <1>3
<1>5. ASSUME NEW e \in Endpoint PROVE Line(e) \in Seq(Frames(MsgId))
    BY LineParts, ConcatProperties DEF Ordered
<1> QED
    BY <1>4, <1>5 DEF LineOf

LEMMA LineKnown ==
    ASSUME Ordered, NEW e \in Endpoint, NEW i \in DOMAIN Line(e)
    PROVE  Known(e, Line(e)[i])
<1> DEFINE D == Delivered(e)
           L == Lane(e)
<1>1. D \in Seq(Frames(MsgId)) /\ L \in Seq(Frames(MsgId)) /\ Line(e) = D \o L
    BY LineParts DEF Ordered
<1>2. \A k \in DOMAIN D : Known(e, D[k])
    BY DEF Ordered, DeliveredInOrder
<1>3. \A k \in DOMAIN L : Known(e, L[k])
    BY LaneCurrent
<1> HIDE DEF D, L
<1>4. \A k \in DOMAIN (D \o L) :
        \/ k \in DOMAIN D /\ (D \o L)[k] = D[k]
        \/ k - Len(D) \in DOMAIN L /\ (D \o L)[k] = L[k - Len(D)]
    BY <1>1
<1> QED
    BY <1>1, <1>2, <1>3, <1>4

LEMMA CopiesTogether ==
    ASSUME Ordered, NEW id \in Sent
    PROVE  /\ CopiesOf(id) = { << sends[id].to, i >> : i \in Places(LineOf(id), id) }
           /\ Cardinality(CopiesOf(id)) = Cardinality(Places(LineOf(id), id))
<1> DEFINE e == sends[id].to
           P == Places(LineOf(id), id)
           C == { << e, i >> : i \in P }
<1>1. e \in Endpoint
    BY Addressee
<1>2. \A d \in Endpoint : d # e => CopiesAt(d, id) = {}
    BY LineKnown DEF CopiesAt, Known
<1>3. CopiesAt(e, id) = P
    BY DEF CopiesAt, Places, LineOf
<1>4. CopiesOf(id) = C
    BY <1>1, <1>2, <1>3 DEF CopiesOf
<1>5. IsFiniteSet(P)
    BY Addressee, PlacesFinite
<1>6. ExistsBijection(P, C)
    <2> DEFINE g == [i \in P |-> << e, i >>]
    <2>1. g \in [P -> C] /\ (\A c \in C : \E i \in P : g[i] = c)
        BY DEF C
    <2>2. \A i, j \in P : g[i] = g[j] => i = j
        OBVIOUS
    <2>3. g \in Bijection(P, C)
        BY <2>1, <2>2 DEF Bijection, Injection, Surjection, IsInjective
    <2> QED
        BY <2>3 DEF ExistsBijection
<1>7. Cardinality(C) = Cardinality(P)
    BY <1>5, <1>6, FS_Bijection
<1> QED
    BY <1>4, <1>7

-----------------------------------------------------------------------------
(* What a step does to the copies of a message: those of an old one are    *)
(* kept, and those of a new one are what the faults configured allow.      *)
Kept(id) ==
    /\ id \in Sent'
    /\ sends'[id].to = sends[id].to
    /\ Cardinality(Places(LineOf(id)', id)) = Cardinality(Places(LineOf(id), id))
    /\ SameBytes(LineOf(id), id) => SameBytes(LineOf(id)', id)

Fresh(id) ==
    /\ Tally(Cardinality(Places(LineOf(id)', id)))
    /\ SameBytes(LineOf(id)', id)

StepKeepsCopies ==
    /\ \A id \in Sent : Kept(id)
    /\ \A id \in Sent' \ Sent : sends'[id].to \in Endpoint /\ Fresh(id)

LEMMA LineOfNext ==
    ASSUME NEW id, NEW e, sends'[id].to = e
    PROVE  LineOf(id)' = Line(e)'
BY DEF LineOf

LEMMA QuietKeepsCopies ==
    ASSUME Ordered, Quiet
    PROVE  StepKeepsCopies
<1>1. \A e \in Endpoint : Line(e)' = Line(e)
    BY QuietOrdered
<1>2. sends' = sends
    BY DEF Quiet
<1>3. \A id \in Sent : sends[id].to \in Endpoint
    BY Addressee
<1>4. ASSUME NEW id \in Sent PROVE LineOf(id)' = LineOf(id)
    <2>1. PICK e \in Endpoint : e = sends[id].to
        BY <1>3
    <2>2. LineOf(id)' = Line(e)'
        BY <1>2, <2>1, LineOfNext
    <2> QED
        BY <1>1, <2>1, <2>2 DEF LineOf
<1> QED
    BY <1>2, <1>4 DEF StepKeepsCopies, Kept, Sent

LEMMA FlushKeepsCopies ==
    ASSUME Ordered, Flush
    PROVE  StepKeepsCopies
<1>1. sends' = sends
    BY FlushEffect
<1>2. ASSUME NEW id \in Sent
      PROVE  Kept(id)
    <2>1. PICK e \in Endpoint : e = sends[id].to
        BY Addressee
    <2>2. PICK order \in ReorderBatch(Lane(e)) : Line(e)' = Delivered(e) \o order
        BY <2>1, FlushEffect
    <2>3. /\ Delivered(e) \in Seq(Frames(MsgId)) /\ Lane(e) \in Seq(Frames(MsgId))
          /\ Line(e) = Delivered(e) \o Lane(e)
        BY <2>1, LineParts DEF Ordered
    <2>4. /\ Cardinality(Places(Delivered(e) \o order, id))
             = Cardinality(Places(Delivered(e) \o Lane(e), id))
          /\ SameBytes(Delivered(e) \o Lane(e), id) => SameBytes(Delivered(e) \o order, id)
        BY <2>2, <2>3, PlacesReordered
    <2>5. LineOf(id)' = Line(e)' /\ LineOf(id) = Line(e)
        BY <1>1, <2>1, LineOfNext DEF LineOf
    <2> QED
        BY <1>1, <2>2, <2>3, <2>4, <2>5 DEF Kept, Sent
<1> QED
    BY <1>1, <1>2 DEF StepKeepsCopies, Sent

LEMMA SendKeepsCopies ==
    ASSUME Ordered, NEW e \in Endpoint, Send(e)
    PROVE  StepKeepsCopies
<1>1. PICK new : new = Len(sends) + 1
    OBVIOUS
<1>2. /\ Sent' = Sent \cup {new} /\ new \notin Sent
      /\ \A id \in Sent : sends'[id] = sends[id]
      /\ sends'[new].to = e
    BY <1>1, SendEffect
<1>0. PICK F : F = Frames(MsgId)
    OBVIOUS
<1>3. PICK frames \in Transmissions(new) :
        /\ frames \in Seq(F)
        /\ \A i \in DOMAIN frames : frames[i].msg = new
        /\ \A d \in Endpoint : Line(d)' = IF d = e THEN Line(d) \o frames ELSE Line(d)
    BY <1>0, <1>1, SendEffect
<1>4. ASSUME NEW d \in Endpoint PROVE Line(d) \in Seq(F)
    <2>1. Delivered(d) \in Seq(F) /\ Lane(d) \in Seq(F) /\ Line(d) = Delivered(d) \o Lane(d)
        BY <1>0, LineParts DEF Ordered
    <2> QED
        BY <2>1, ConcatProperties
<1>5. ASSUME NEW id \in Sent
      PROVE  Kept(id)
    <2>1. PICK d \in Endpoint : d = sends[id].to
        BY Addressee
    <2>2. PICK line \in Seq(F) : line = Line(d)
        BY <1>4
    <2>3. NoneOf(frames, id)
        BY <1>2, <1>3 DEF NoneOf
    <2>4. Line(d)' = line \/ Line(d)' = line \o frames
        BY <1>3, <2>2
    <2>5. SamePlaces(line, line \o frames, id)
        <3>1. frames \in Seq(F)
            BY <1>3
        <3> QED
            BY <2>3, <3>1, OthersAppended
    <2>6. sends'[id].to = d /\ id \in Sent'
        BY <1>2, <2>1
    <2>7. LineOf(id)' = Line(d)' /\ LineOf(id) = line
        BY <2>1, <2>2, <2>6, LineOfNext DEF LineOf
    <2> QED
        BY <2>1, <2>4, <2>5, <2>6, <2>7 DEF Kept, SamePlaces
<1>6. Fresh(new)
    <2>1. PICK line \in Seq(F) : line = Line(e)
        BY <1>4
    <2>2. LineOf(new)' = line \o frames
        <3>1. LineOf(new)' = Line(e)'
            BY <1>2, LineOfNext
        <3> QED
            BY <1>3, <2>1, <3>1
    <2>3. FirstPlaces(line, frames, new)
        <3>1. NoneOf(line, new)
            BY <1>2, <2>1, LineKnown DEF NoneOf, Known
        <3>2. frames \in Seq(F) /\ AllOf(frames, new)
            BY <1>3 DEF AllOf
        <3> QED
            BY <3>1, <3>2, FirstAppended
    <2>4. Tally(Len(frames)) /\ Alike(frames)
        BY FramesTallied
    <2> QED
        BY <2>2, <2>3, <2>4 DEF Fresh, FirstPlaces
<1> QED
    BY <1>2, <1>5, <1>6 DEF StepKeepsCopies

LEMMA NextKeepsCopies == Ordered /\ [Next]_vars => StepKeepsCopies
<1> SUFFICES ASSUME Ordered, [Next]_vars PROVE StepKeepsCopies
    OBVIOUS
<1>1. ASSUME NEW e \in Endpoint, Register(e) PROVE StepKeepsCopies
    BY <1>1, RegisterQuiet, QuietKeepsCopies DEF Ordered
<1>2. ASSUME NEW e \in Endpoint, TryRecv(e) PROVE StepKeepsCopies
    BY <1>2, TryRecvQuiet, QuietKeepsCopies DEF Ordered
<1>3. ASSUME NEW e \in Endpoint, Send(e) PROVE StepKeepsCopies
    BY <1>3, SendKeepsCopies
<1>4. ASSUME Flush PROVE StepKeepsCopies
    BY <1>4, FlushKeepsCopies
<1>5. CASE UNCHANGED vars
    <2>1. Quiet
        BY <1>5 DEF vars, Quiet, Ordered, TypeOK, Delivered, InboxOf
    <2> QED
        BY <2>1, QuietKeepsCopies
<1> QED
    BY <1>1, <1>2, <1>3, <1>4, <1>5 DEF Next

(* Every message keeps the tally its send rolled.                          *)
Tallied ==
    \A id \in Sent : /\ Tally(Cardinality(Places(LineOf(id), id)))
                     /\ SameBytes(LineOf(id), id)

LEMMA TalliedAccounted == Ordered /\ Tallied => CopiesAccounted
<1> SUFFICES ASSUME Ordered, Tallied, NEW id \in Sent
             PROVE  /\ \A c \in CopiesOf(id) : c[1] = sends[id].to
                    /\ Cardinality(CopiesOf(id)) \in 0 .. 2
                    /\ Cardinality(CopiesOf(id)) = 0 => TRUE \in DropRoll
                    /\ Cardinality(CopiesOf(id)) = 1 => FALSE \in DropRoll /\ FALSE \in DuplicateRoll
                    /\ Cardinality(CopiesOf(id)) = 2 => FALSE \in DropRoll /\ TRUE \in DuplicateRoll
                    /\ \A c, d \in CopiesOf(id) :
                         Line(c[1])[c[2]].clean = Line(d[1])[d[2]].clean
    BY DEF CopiesAccounted
<1>1. /\ CopiesOf(id) = { << sends[id].to, i >> : i \in Places(LineOf(id), id) }
      /\ Cardinality(CopiesOf(id)) = Cardinality(Places(LineOf(id), id))
    BY CopiesTogether
<1>2. Tally(Cardinality(CopiesOf(id))) /\ SameBytes(LineOf(id), id)
    BY <1>1 DEF Tallied
<1>3. \A c \in CopiesOf(id) : c[1] = sends[id].to /\ c[2] \in Places(LineOf(id), id)
    BY <1>1
<1>4. \A c, d \in CopiesOf(id) : Line(c[1])[c[2]].clean = Line(d[1])[d[2]].clean
    BY <1>2, <1>3 DEF SameBytes, LineOf
<1> QED
    BY <1>2, <1>3, <1>4 DEF Tally

LEMMA NextTallied == Ordered /\ Tallied /\ [Next]_vars => Tallied'
<1> SUFFICES ASSUME Ordered, Tallied, [Next]_vars, NEW id \in Sent'
             PROVE  /\ Tally(Cardinality(Places(LineOf(id)', id)))
                    /\ SameBytes(LineOf(id)', id)
    BY DEF Tallied, Tally
<1>1. StepKeepsCopies
    BY NextKeepsCopies
<1>2. CASE id \in Sent
    BY <1>1, <1>2 DEF StepKeepsCopies, Kept, Tallied, Tally
<1>3. CASE id \notin Sent
    BY <1>1, <1>3 DEF StepKeepsCopies, Fresh
<1> QED
    BY <1>2, <1>3

LEMMA InitTallied == Init => Tallied
BY DEF Init, Tallied, Sent

LEMMA AlwaysTallied == Spec => [](Ordered /\ Tallied)
BY InitOrdered, NextOrdered, InitTallied, NextTallied, PTL DEF Spec

(* Nothing is lost, multiplied or misrouted beyond the faults configured:  *)
(* all copies of a message are at its addressee, alike, and as many as the *)
(* rolls of its send() allow, however often the batch has been flushed,    *)
(* reordered and polled since.                                             *)
THEOREM EveryCopyAccounted == Spec => []CopiesAccounted
BY AlwaysTallied, TalliedAccounted, PTL

Together ==
    \A id \in Sent : Cardinality(CopiesOf(id)) = Cardinality(Places(LineOf(id), id))

LEMMA AllTogether == Ordered => Together
BY CopiesTogether DEF Together

(* Once send() has returned, no step makes a copy of its message appear or *)
(* vanish.                                                                 *)
THEOREM NoCopyLost == Spec => CopiesConserved
<1> DEFINE Same == \A id \in Sent : Cardinality(CopiesOf(id))' = Cardinality(CopiesOf(id))
<1>1. Ordered /\ Together /\ Together' /\ [Next]_vars => [Same]_vars
    <2> SUFFICES ASSUME Ordered, Together, Together', [Next]_vars, NEW id \in Sent
                 PROVE  Cardinality(CopiesOf(id))' = Cardinality(CopiesOf(id))
        OBVIOUS
    <2>1. Kept(id)
        BY NextKeepsCopies DEF StepKeepsCopies
    <2> QED
        BY <2>1 DEF Kept, Together
<1> QED
    BY <1>1, AlwaysOrdered, AllTogether, PTL DEF Spec, CopiesConserved

-----------------------------------------------------------------------------
(* The bus implements the mailbox.  The injector's operators are the same  *)
(* in the instance.                                                        *)
LEMMA MailboxOperators ==
    /\ \A m : MailboxOf!Transmissions(m) = Transmissions(m)
    /\ \A batch : MailboxOf!ReorderBatch(batch) = ReorderBatch(batch)
<1>1. \A m, c, d : MailboxOf!Copies(m, c, d) = Copies(m, c, d)
    BY DEF Copies, MailboxOf!Copies
<1>2. \A n : MailboxOf!Orders(n) = Orders(n)
    BY DEF Orders, MailboxOf!Orders
<1>3. \A m : MailboxOf!Transmissions(m) = Transmissions(m)
    BY <1>1 DEF Transmissions, MailboxOf!Transmissions
<1>4. \A batch : MailboxOf!ReorderBatch(batch) = ReorderBatch(batch)
    BY <1>2 DEF ReorderBatch, MailboxOf!ReorderBatch
<1> QED
    BY <1>3, <1>4

Lanes == [e \in Endpoint |-> FramesFor(pending, e)]
Boxes == [e \in Endpoint |-> InboxOf(e)]

LEMMA InitMailbox == Init => MailboxOf!Init
<1> SUFFICES ASSUME Init PROVE MailboxOf!Init
    OBVIOUS
<1>1. \A e \in Endpoint : FramesFor(pending, e) = << >> /\ InboxOf(e) = << >>
    BY FramesForEmpty DEF Init, InboxOf
<1> QED
    BY <1>1 DEF MailboxOf!Init

LEMMA RegisterMailbox ==
    ASSUME TypeOK, NEW e \in Endpoint, Register(e)
    PROVE  UNCHANGED << Lanes, Boxes >>
<1>1. \A d \in Endpoint : InboxOf(d)' = InboxOf(d)
    BY DEF Register, InboxOf
<1>2. pending' = pending
    BY DEF Register
<1> QED
    BY <1>1, <1>2 DEF Lanes, Boxes

LEMMA SendMailbox ==
    ASSUME Ordered, NEW e \in Endpoint, Send(e)
    PROVE  \E m \in MsgId : MailboxOf!Post(e, m)
<1> DEFINE m == Len(sends) + 1
<1>1. PICK frames \in Transmissions(m) :
        \A d \in Endpoint : Lane(d)' = IF d = e THEN Lane(d) \o frames ELSE Lane(d)
    BY SendEffect
<1>2. m \in MsgId
    BY SendEffect
<1>3. Lanes' = [Lanes EXCEPT ![e] = @ \o frames]
    <2>1. \A d \in Endpoint : FramesFor(pending, d)'
                              = IF d = e THEN FramesFor(pending, d) \o frames
                                ELSE FramesFor(pending, d)
        BY <1>1 DEF Lane
    <2> QED
        BY <2>1 DEF Lanes
<1>4. Boxes' = Boxes
    BY DEF Boxes, Send, InboxOf
<1>5. frames \in MailboxOf!Transmissions(m)
    BY <1>1, MailboxOperators
<1> HIDE DEF m
<1>6. MailboxOf!Post(e, m)
    BY <1>3, <1>4, <1>5 DEF MailboxOf!Post, MailboxOf!Enqueue, Lanes, Boxes
<1> QED
    BY <1>2, <1>6

LEMMA TryRecvMailbox ==
    ASSUME TypeOK, NEW e \in Endpoint, TryRecv(e)
    PROVE  MailboxOf!Take(e)
<1>1. /\ e \in DOMAIN inboxes /\ inboxes[e] # << >>
      /\ inboxes' = [inboxes EXCEPT ![e] = Tail(@)] /\ pending' = pending
    BY DEF TryRecv
<1>2. Boxes[e] # << >> /\ Boxes' = [Boxes EXCEPT ![e] = Tail(@)]
    BY <1>1 DEF Boxes, InboxOf
<1>3. Lanes' = Lanes
    BY <1>1 DEF Lanes
<1> QED
    BY <1>2, <1>3 DEF MailboxOf!Take, MailboxOf!Pop, Lanes, Boxes

LEMMA FlushMailbox ==
    ASSUME Ordered, Flush
    PROVE  MailboxOf!Deliver
<1>1. \A e \in Endpoint :
        /\ \E r \in ReorderBatch(Lane(e)) : InboxOf(e)' = InboxOf(e) \o r
        /\ Lane(e)' = << >>
    BY FlushEffect
<1> DEFINE orders == [e \in Endpoint |-> ReorderBatch(Lanes[e])]
           order == [e \in Endpoint |->
                       CHOOSE r \in ReorderBatch(Lane(e)) : InboxOf(e)' = InboxOf(e) \o r]
<1>2. \A e \in Endpoint : order[e] \in orders[e] /\ InboxOf(e)' = InboxOf(e) \o order[e]
    BY <1>1 DEF Lanes, Lane
<1> HIDE DEF order
<1>3. order \in [Endpoint -> UNION { orders[e] : e \in Endpoint }]
    <2>1. order = [e \in Endpoint |-> order[e]]
        BY DEF order
    <2> QED
        BY <1>2, <2>1
<1>4. Boxes' = [e \in Endpoint |-> Boxes[e] \o order[e]]
    BY <1>2 DEF Boxes
<1>5. Lanes' = [e \in Endpoint |-> << >>]
    BY <1>1 DEF Lanes, Lane
<1>6. orders = [e \in Endpoint |-> MailboxOf!ReorderBatch(Lanes[e])]
    BY MailboxOperators
<1> QED
    BY <1>2, <1>3, <1>4, <1>5, <1>6 DEF MailboxOf!Deliver, Lanes, Boxes

LEMMA NextMailbox == Ordered /\ [Next]_vars => [MailboxOf!Next]_(MailboxOf!vars)
<1> SUFFICES ASSUME Ordered, [Next]_vars
             PROVE  MailboxOf!Next \/ UNCHANGED MailboxOf!vars
    OBVIOUS
<1>1. ASSUME NEW e \in Endpoint, Register(e) PROVE UNCHANGED MailboxOf!vars
    BY <1>1, RegisterMailbox DEF Ordered, MailboxOf!vars, Lanes, Boxes
<1>2. ASSUME NEW e \in Endpoint, TryRecv(e) PROVE MailboxOf!Next
    BY <1>2, TryRecvMailbox DEF Ordered, MailboxOf!Next
<1>3. ASSUME NEW e \in Endpoint, Send(e) PROVE MailboxOf!Next
    BY <1>3, SendMailbox DEF MailboxOf!Next
<1>4. ASSUME Flush PROVE MailboxOf!Next
    BY <1>4, FlushMailbox DEF MailboxOf!Next
<1>5. CASE UNCHANGED vars
    BY <1>5 DEF vars, MailboxOf!vars, InboxOf
<1> QED
    BY <1>1, <1>2, <1>3, <1>4, <1>5 DEF Next

(* The bus implements the mailbox its clients are written against: a lane  *)
(* of frames in flight and a box of delivered ones for each endpoint.      *)
THEOREM ImplementsMailbox == Spec => MailboxSpec
BY InitMailbox, NextMailbox, AlwaysOrdered, PTL DEF Spec, MailboxSpec, MailboxOf!Spec

-----------------------------------------------------------------------------
(* What holds at the start and is kept by every step holds at the end.     *)
LEMMA Induction ==
    ASSUME NEW n \in Nat, NEW T, 0 \in T, \A i \in 1 .. n : i - 1 \in T => i \in T
    PROVE  \A i \in 0 .. n : i \in T
<1> DEFINE F == { i \in 0 .. n : i \notin T }
<1>1. ASSUME F # {}
      PROVE  FALSE
    <2>1. F \in SUBSET Nat
        OBVIOUS
    <2>2. PICK i \in F : \A k \in F : i <= k
        <3> HIDE DEF F
        <3> QED
            BY <1>1, <2>1, Smallest
    <2>3. i \in 1 .. n /\ i - 1 \in 0 .. n /\ i - 1 \notin F
        BY <2>2
    <2> QED
        BY <2>2, <2>3
<1> QED
    BY <1>1

(* A number computed step by step.                                         *)
Computes(S, base, n, step, f) ==
    f \in [0 .. n -> S] /\ f[0] = base /\ \A i \in 1 .. n : f[i] = step[i][f[i - 1]]
Steps(n, S) == [1 .. n -> [S -> S]]

LEMMA Computation ==
    ASSUME NEW S, NEW base \in S, NEW n \in Nat, NEW step \in Steps(n, S)
    PROVE  \E f : Computes(S, base, n, step, f)
BY Recursion DEF Computes, Steps

LEMMA NatComputation ==
    ASSUME NEW base \in Nat, NEW n \in Nat, NEW step \in Steps(n, Nat)
    PROVE  \E f : Computes(Nat, base, n, step, f)
BY Computation

-----------------------------------------------------------------------------
(* Numbers and their digits.                                               *)
LEMMA PowerLoop ==
    ASSUME NEW base \in Nat, NEW n \in Nat
    PROVE  \E p \in [0 .. n -> Nat] :
             /\ p[0] = 1 /\ \A i \in 1 .. n : p[i] = base * p[i - 1]
             /\ Power(base, n) = p[n]
<1> DEFINE Unrolled(u) == [i \in 0 .. n |-> IF i = 0 THEN 1 ELSE base * u[i - 1]]
           up == CHOOSE u : u = Unrolled(u)
           step == [i \in 1 .. n |-> [x \in Nat |-> base * x]]
<1>1. Power(base, n) = up[n]
    BY DEF Power
<1>2. PICK w \in [0 .. n -> Nat] : w[0] = 1 /\ \A i \in 1 .. n : w[i] = step[i][w[i - 1]]
    <2>1. step \in Steps(n, Nat)
        BY DEF Steps
    <2> HIDE DEF step
    <2>2. \E w : Computes(Nat, 1, n, step, w)
        <3>1. 1 \in Nat
            OBVIOUS
        <3> QED
            BY <2>1, <3>1, NatComputation
    <2> QED
        BY <2>2 DEF Computes
<1>3. w = Unrolled(w)
    <2>1. \A i \in 1 .. n : \A x \in Nat : step[i][x] = base * x
        OBVIOUS
    <2>2. \A i \in 1 .. n : w[i - 1] \in Nat
        BY <1>2
    <2> HIDE DEF step
    <2>3. \A i \in 1 .. n : w[i] = base * w[i - 1]
        BY <1>2, <2>1, <2>2
    <2> QED
        BY <1>2, <2>3
<1>4. up = Unrolled(up)
    <2> HIDE DEF Unrolled
    <2> QED
        BY <1>3
<1> HIDE DEF up
<1>5. DOMAIN up = 0 .. n /\ up[0] = 1 /\ \A i \in 1 .. n : up[i] = base * up[i - 1]
    BY <1>4
<1>6. \A i \in 0 .. n : up[i] \in Nat
    <2> DEFINE T == { i \in 0 .. n : up[i] \in Nat }
    <2>1. 0 \in T
        BY <1>5
    <2>2. \A i \in 1 .. n : i - 1 \in T => i \in T
        BY <1>5
    <2> HIDE DEF T
    <2>3. \A i \in 0 .. n : i \in T
        BY <2>1, <2>2, Induction
    <2> QED
        BY <2>3 DEF T
<1>7. up \in [0 .. n -> Nat]
    BY <1>4, <1>6
<1> QED
    BY <1>1, <1>5, <1>7

LEMMA PowerStep ==
    ASSUME NEW base \in Nat, NEW n \in Nat
    PROVE  Power(base, 0) = 1 /\ Power(base, n) \in Nat /\ Power(base, n + 1) = base * Power(base, n)
<1>1. Power(base, 0) = 1
    BY PowerLoop
<1>2. PICK p \in [0 .. n -> Nat] :
        /\ p[0] = 1 /\ \A i \in 1 .. n : p[i] = base * p[i - 1]
        /\ Power(base, n) = p[n]
    BY PowerLoop
<1>3. n + 1 \in Nat
    OBVIOUS
<1>4. PICK q \in [0 .. n + 1 -> Nat] :
        /\ q[0] = 1 /\ \A i \in 1 .. n + 1 : q[i] = base * q[i - 1]
        /\ Power(base, n + 1) = q[n + 1]
    BY <1>3, PowerLoop
<1> DEFINE T == { i \in 0 .. n : p[i] = q[i] }
<1>5. 0 \in T
    BY <1>2, <1>4
<1>6. \A i \in 1 .. n : i - 1 \in T => i \in T
    BY <1>2, <1>4
<1>7. \A i \in 0 .. n : i \in T
    <2> HIDE DEF T
    <2> QED
        BY <1>5, <1>6, Induction
<1>8. p[n] = q[n]
    BY <1>7
<1> QED
    BY <1>1, <1>2, <1>4, <1>8

LEMMA PowerPositive ==
    ASSUME NEW base \in Nat \ {0}, NEW n \in Nat
    PROVE  Power(base, n) \in Nat \ {0}
<1> DEFINE T == { i \in 0 .. n : Power(base, i) \in Nat \ {0} }
<1>1. 0 \in T
    BY PowerStep
<1>2. ASSUME NEW i \in 1 .. n, i - 1 \in T
      PROVE  i \in T
    <2>1. i - 1 \in Nat /\ (i - 1) + 1 = i /\ Power(base, i - 1) \in Nat \ {0}
        BY <1>2
    <2>2. Power(base, i) = base * Power(base, i - 1)
        BY <2>1, PowerStep
    <2> QED
        BY <2>1, <2>2
<1> HIDE DEF T
<1>3. \A i \in 0 .. n : i \in T
    BY <1>1, <1>2, Induction
<1> QED
    BY <1>3 DEF T

(* The digits of a number by their values: what the first i of them stand  *)
(* for.                                                                    *)
Values(v, s, base) ==
    v[0] = 0 /\ \A i \in 1 .. Len(s) : v[i] = base * v[i - 1] + s[i]

LEMMA FromDigitsLoop ==
    ASSUME NEW base \in Nat, NEW s \in Seq(Nat)
    PROVE  \E v \in [0 .. Len(s) -> Nat] :
             Values(v, s, base) /\ FromDigits(s, base) = v[Len(s)]
<1> DEFINE n == Len(s)
           Unrolled(u) == [i \in 0 .. Len(s) |-> IF i = 0 THEN 0 ELSE base * u[i - 1] + s[i]]
           up == CHOOSE u : u = Unrolled(u)
           step == [i \in 1 .. n |-> [x \in Nat |-> base * x + s[i]]]
<1>0. n \in Nat /\ \A i \in 1 .. n : s[i] \in Nat
    OBVIOUS
<1>1. FromDigits(s, base) = up[n]
    BY DEF FromDigits
<1>2. PICK w \in [0 .. n -> Nat] : w[0] = 0 /\ \A i \in 1 .. n : w[i] = step[i][w[i - 1]]
    <2>1. step \in Steps(n, Nat)
        BY <1>0 DEF Steps
    <2> HIDE DEF step, n
    <2> QED
        <3>1. PICK w : Computes(Nat, 0, n, step, w)
            BY <1>0, <2>1, NatComputation
        <3> QED
            BY <3>1, Zenon DEF Computes
<1>3. w = Unrolled(w)
    <2>1. \A i \in 1 .. n : \A x \in Nat : step[i][x] = base * x + s[i]
        OBVIOUS
    <2>2. \A i \in 1 .. n : w[i - 1] \in Nat
        <3>1. \A i \in 1 .. n : i - 1 \in 0 .. n
            BY <1>0
        <3> HIDE DEF n
        <3> QED
            BY <1>2, <3>1
    <2> HIDE DEF step
    <2>3. \A i \in 1 .. n : w[i] = base * w[i - 1] + s[i]
        BY <1>2, <2>1, <2>2
    <2> QED
        BY <1>2, <2>3
<1>4. up = Unrolled(up)
    <2> HIDE DEF Unrolled
    <2> QED
        BY <1>3
<1> HIDE DEF up
<1>5. DOMAIN up = 0 .. n /\ up[0] = 0 /\ \A i \in 1 .. n : up[i] = base * up[i - 1] + s[i]
    BY <1>4, <1>0
<1>6. \A i \in 0 .. n : up[i] \in Nat
    <2> DEFINE T == { i \in 0 .. n : up[i] \in Nat }
    <2>1. 0 \in T
        BY <1>0, <1>5
    <2>2. ASSUME NEW i \in 1 .. n, i - 1 \in T
          PROVE  i \in T
        <3>1. up[i] = base * up[i - 1] + s[i] /\ s[i] \in Nat /\ up[i - 1] \in Nat
            BY <1>0, <1>5, <2>2
        <3>2. base * up[i - 1] \in Nat
            BY <3>1
        <3> QED
            BY <3>1, <3>2
    <2> HIDE DEF T, n
    <2>3. \A i \in 0 .. n : i \in T
        BY <1>0, <2>1, <2>2, Induction
    <2> QED
        BY <2>3 DEF T
<1>7. up \in [0 .. n -> Nat]
    BY <1>4, <1>6
<1> QED
    BY <1>1, <1>5, <1>7 DEF Values

LEMMA QuotientOfQuotient ==
    ASSUME NEW n \in Nat, NEW p \in Nat \ {0}, NEW base \in Nat \ {0}
    PROVE  (n \div p) \div base = n \div (base * p)
OBVIOUS

LEMMA Division ==
    ASSUME NEW n \in Nat, NEW base \in Nat \ {0}
    PROVE  /\ n \div base \in Nat /\ n % base \in 0 .. base - 1
           /\ n = base * (n \div base) + (n % base)
OBVIOUS

LEMMA SmallQuotient ==
    ASSUME NEW p \in Nat, NEW n \in Nat, n < p
    PROVE  n \div p = 0
OBVIOUS

LEMMA Scaled ==
    ASSUME NEW base \in Nat, NEW x \in Nat, NEW y \in Nat, x < y
    PROVE  base * x + base <= base * y /\ base * x \in Nat
<1>1. PICK d \in Nat : y = x + 1 + d
    <2>1. y - (x + 1) \in Nat /\ y = x + 1 + (y - (x + 1))
        OBVIOUS
    <2> QED
        BY <2>1
<1>2. base * y = base * x + base + base * d /\ base * d \in Nat /\ base * x \in Nat
    BY <1>1
<1> QED
    BY <1>2

LEMMA Digit ==
    ASSUME NEW q \in Nat, NEW base \in Nat \ {0}, NEW d \in 0 .. base - 1
    PROVE  (base * q + d) \div base = q /\ (base * q + d) % base = d
OBVIOUS

(* A number that fits is the value of its digits.                          *)
LEMMA ValueOfDigits ==
    ASSUME NEW base \in Nat \ {0}, NEW len \in Nat, NEW n \in Nat, n < Power(base, len)
    PROVE  /\ ToDigits(n, len, base) \in Seq(0 .. base - 1)
           /\ Len(ToDigits(n, len, base)) = len
           /\ FromDigits(ToDigits(n, len, base), base) = n
<1> DEFINE s == ToDigits(n, len, base)
           P(k) == Power(base, k)
<1>1. \A k \in Nat : P(k) \in Nat \ {0} /\ P(k + 1) = base * P(k) /\ P(0) = 1
    BY PowerStep, PowerPositive
<1> HIDE DEF P
<1>2. s = [i \in 1 .. len |-> (n \div P(len - i)) % base]
    BY DEF ToDigits, P
<1>3. \A i \in 1 .. len : (n \div P(len - i)) % base \in 0 .. base - 1
    <2> TAKE i \in 1 .. len
    <2>1. len - i \in Nat /\ P(len - i) \in Nat \ {0}
        BY <1>1
    <2>2. n \div P(len - i) \in Nat
        BY <2>1, Division
    <2> QED
        BY <2>2, Division
<1>4. s \in Seq(0 .. base - 1) /\ Len(s) = len /\ s \in Seq(Nat)
    BY <1>2, <1>3
<1>5. PICK v \in [0 .. len -> Nat] :
        Values(v, s, base) /\ FromDigits(s, base) = v[len]
    <2> HIDE DEF s
    <2> QED
        BY <1>4, FromDigitsLoop
<1> DEFINE T == { i \in 0 .. len : v[i] = n \div P(len - i) }
<1>6. 0 \in T
    <2>1. n \div P(len) = 0
        BY SmallQuotient, <1>1 DEF P
    <2> QED
        BY <1>5, <2>1 DEF Values
<1>7. ASSUME NEW i \in 1 .. len, i - 1 \in T
      PROVE  i \in T
    <2>0. len - i \in Nat /\ len - (i - 1) = (len - i) + 1
        OBVIOUS
    <2>1. len - i \in Nat /\ len - (i - 1) = (len - i) + 1 /\ P(len - i) \in Nat \ {0}
        BY <1>1, <2>0
    <2>2. PICK q : q = n \div P(len - i)
        OBVIOUS
    <2>3. q \in Nat
        BY <2>1, <2>2, Division
    <2>4. v[i - 1] = q \div base
        <3>1. v[i - 1] = n \div P((len - i) + 1)
            BY <1>7, <2>1
        <3>2. P((len - i) + 1) = base * P(len - i)
            BY <1>1, <2>1
        <3> QED
            BY <2>1, <2>2, <3>1, <3>2, QuotientOfQuotient
    <2>5. v[i] = base * v[i - 1] + s[i] /\ s[i] = q % base
        <3> HIDE DEF s
        <3> QED
            BY <1>2, <1>4, <1>5, <2>2 DEF Values
    <2>6. v[i] = q
        BY <2>3, <2>4, <2>5, Division
    <2> QED
        BY <2>2, <2>6
<1>8. \A i \in 0 .. len : i \in T
    <2> HIDE DEF T
    <2> QED
        BY <1>6, <1>7, Induction
<1>9. v[len] = n \div P(0) /\ P(0) = 1
    BY <1>1, <1>8
<1> QED
    BY <1>4, <1>5, <1>9

(* Digits are the digits of their value, which fits.                       *)
LEMMA DigitsOfValue ==
    ASSUME NEW base \in Nat \ {0}, NEW s \in Seq(0 .. base - 1)
    PROVE  /\ FromDigits(s, base) \in 0 .. Power(base, Len(s)) - 1
           /\ ToDigits(FromDigits(s, base), Len(s), base) = s
<1> DEFINE len == Len(s)
           P(k) == Power(base, k)
<1>1. \A k \in Nat : P(k) \in Nat \ {0} /\ P(k + 1) = base * P(k) /\ P(0) = 1
    BY PowerStep, PowerPositive
<1> HIDE DEF P
<1>2. len \in Nat /\ s \in Seq(Nat) /\ \A i \in 1 .. len : s[i] \in 0 .. base - 1
    OBVIOUS
<1>3. PICK v \in [0 .. len -> Nat] :
        Values(v, s, base) /\ FromDigits(s, base) = v[len]
    BY <1>2, FromDigitsLoop
<1> HIDE DEF len
<1>4. \A i \in 1 .. len : v[i] = base * v[i - 1] + s[i] /\ v[i - 1] \in Nat
  <2>1. \A i \in 1 .. len : v[i] = base * v[i - 1] + s[i]
      BY <1>3 DEF Values, len
  <2>2. \A i \in 1 .. len : i - 1 \in 0 .. len
      BY <1>2
  <2> QED
      BY <1>3, <2>1, <2>2
<1>5. \A i \in 0 .. len : v[i] < P(i)
    <2> DEFINE T == { i \in 0 .. len : v[i] < P(i) }
    <2>1. 0 \in T
        BY <1>1, <1>2, <1>3 DEF Values
    <2>2. ASSUME NEW i \in 1 .. len, i - 1 \in T
          PROVE  i \in T
        <3>1. i - 1 \in Nat /\ (i - 1) + 1 = i
            BY <1>2
        <3>2. P(i) = base * P(i - 1) /\ P(i - 1) \in Nat
            BY <1>1, <3>1
        <3>3. v[i - 1] < P(i - 1) /\ v[i - 1] \in Nat
            BY <1>4, <2>2, <3>2
        <3>4. base * v[i - 1] + base <= base * P(i - 1) /\ base * v[i - 1] \in Nat
            BY <3>2, <3>3, Scaled
        <3>5. s[i] \in 0 .. base - 1 /\ v[i] = base * v[i - 1] + s[i]
            BY <1>2, <1>4
        <3>6. base * P(i - 1) \in Nat
            BY <3>2
        <3>7. v[i] < base * P(i - 1)
            BY <3>4, <3>5, <3>6
        <3> QED
            BY <3>2, <3>7
    <2> HIDE DEF T
    <2>3. \A i \in 0 .. len : i \in T
        BY <1>2, <2>1, <2>2, Induction
    <2> QED
        BY <2>3 DEF T
<1>6. \A k \in 0 .. len : v[len] \div P(k) = v[len - k]
    <2> DEFINE T == { k \in 0 .. len : v[len] \div P(k) = v[len - k] }
    <2>1. 0 \in T
        <3>1. v[len] \in Nat
            BY <1>2, <1>3
        <3> QED
            BY <1>1, <1>2, <3>1
    <2>2. ASSUME NEW k \in 1 .. len, k - 1 \in T
          PROVE  k \in T
        <3>1. k - 1 \in Nat /\ (k - 1) + 1 = k /\ len - (k - 1) \in 1 .. len
              /\ (len - (k - 1)) - 1 = len - k
            BY <1>2
        <3>2. P(k) = base * P(k - 1) /\ P(k - 1) \in Nat \ {0}
            BY <1>1, <3>1
        <3>5. v[len] \in Nat
            BY <1>2, <1>3
        <3>3. v[len] \div P(k) = v[len - (k - 1)] \div base
            <4>1. v[len] \div P(k - 1) = v[len - (k - 1)]
                BY <2>2
            <4> QED
                BY <4>1, <3>2, <3>5, QuotientOfQuotient
        <3>4. v[len - (k - 1)] = base * v[len - k] + s[len - (k - 1)]
              /\ v[len - k] \in Nat /\ s[len - (k - 1)] \in 0 .. base - 1
            BY <1>2, <1>4, <3>1
        <3>6. (base * v[len - k] + s[len - (k - 1)]) \div base = v[len - k]
            BY <3>4, Digit
        <3> QED
            BY <3>3, <3>4, <3>6
    <2> HIDE DEF T
    <2>3. \A k \in 0 .. len : k \in T
        BY <1>2, <2>1, <2>2, Induction
    <2> QED
        BY <2>3 DEF T
<1>7. \A i \in 1 .. len : (v[len] \div P(len - i)) % base = s[i]
    <2> TAKE i \in 1 .. len
    <2>1. len - i \in 0 .. len /\ len - (len - i) = i
        BY <1>2
    <2>2. v[len] \div P(len - i) = v[i]
        BY <1>6, <2>1
    <2>3. v[i] = base * v[i - 1] + s[i] /\ v[i - 1] \in Nat /\ s[i] \in 0 .. base - 1
        BY <1>2, <1>4
    <2>4. (base * v[i - 1] + s[i]) % base = s[i]
        BY <2>3, Digit
    <2> QED
        BY <2>2, <2>3, <2>4
<1>8. ToDigits(v[len], len, base) = s
    <2>1. s = [i \in 1 .. len |-> s[i]]
        BY DEF len
    <2> QED
        BY <1>7, <2>1 DEF ToDigits, P
<1>9. v[len] \in Nat /\ v[len] < P(len) /\ P(len) \in Nat
    BY <1>1, <1>2, <1>3, <1>5
<1> QED
    BY <1>3, <1>8, <1>9 DEF P, len
-----------------------------------------------------------------------------
(* The checksum: one byte changed is always noticed.                       *)
Places01 == [1 .. CrcWidth -> {0, 1}]
BitOf(byte, k) == ToDigits(byte, ByteBits, 2)[ByteBits + 1 - k]
Out(r, bit) == (r[CrcWidth] + bit) % 2

LEMMA Widths ==
    /\ ByteBits \in Nat \ {0} /\ ChecksumLen \in Nat \ {0}
    /\ CrcWidth \in Nat \ {0} /\ ByteBits <= CrcWidth
    /\ Base = Power(2, ByteBits) /\ Base \in Nat \ {0}
<1>1. ByteBits \in Nat \ {0} /\ ChecksumLen \in Nat \ {0}
    BY WidthAssumption
<1>2. CrcWidth \in Nat \ {0} /\ ByteBits <= CrcWidth
  <2>1. PICK c \in Nat : ChecksumLen = c + 1
    <3>1. ChecksumLen - 1 \in Nat /\ ChecksumLen = (ChecksumLen - 1) + 1
        BY <1>1
    <3> QED
        BY <3>1
  <2>2. CrcWidth = ByteBits * c + ByteBits /\ ByteBits * c \in Nat
      BY <1>1, <2>1 DEF CrcWidth
  <2> QED
      BY <1>1, <2>2
<1>3. Power(2, ByteBits) \in Nat \ {0}
    BY <1>1, PowerPositive
<1> QED
    BY <1>1, <1>2, <1>3 DEF Base

LEMMA Parity ==
    ASSUME NEW x \in {0, 1}, NEW y \in {0, 1}
    PROVE  (x + y) % 2 \in {0, 1} /\ x * y \in {0, 1} /\ ((x + y) % 2 = 0 <=> x = y)
OBVIOUS

LEMMA BitsOfByte ==
    ASSUME NEW x \in Bytes
    PROVE  /\ \A k \in 1 .. ByteBits : BitOf(x, k) \in {0, 1}
           /\ \A y \in Bytes : (\A k \in 1 .. ByteBits : BitOf(x, k) = BitOf(y, k)) => x = y
<1>1. \A b \in Bytes : /\ ToDigits(b, ByteBits, 2) \in Seq(0 .. 1)
                       /\ Len(ToDigits(b, ByteBits, 2)) = ByteBits
                       /\ FromDigits(ToDigits(b, ByteBits, 2), 2) = b
  <2> TAKE b \in Bytes
  <2>1. b \in Nat /\ b < Power(2, ByteBits) /\ ByteBits \in Nat /\ 2 \in Nat \ {0}
      BY Widths DEF Bytes
  <2> QED
      BY <2>1, ValueOfDigits
<1>2. \A k \in 1 .. ByteBits : BitOf(x, k) \in {0, 1}
    BY <1>1, Widths DEF BitOf
<1>3. ASSUME NEW y \in Bytes, \A k \in 1 .. ByteBits : BitOf(x, k) = BitOf(y, k)
      PROVE  x = y
  <2>1. PICK s, t : s = ToDigits(x, ByteBits, 2) /\ t = ToDigits(y, ByteBits, 2)
      OBVIOUS
  <2>2. s \in Seq(0 .. 1) /\ Len(s) = ByteBits /\ t \in Seq(0 .. 1) /\ Len(t) = ByteBits
      BY <1>1, <2>1
  <2>3. \A j \in 1 .. ByteBits : s[j] = t[j]
    <3> TAKE j \in 1 .. ByteBits
    <3>1. ByteBits + 1 - j \in 1 .. ByteBits /\ ByteBits + 1 - (ByteBits + 1 - j) = j
        BY Widths
    <3>2. BitOf(x, ByteBits + 1 - j) = BitOf(y, ByteBits + 1 - j)
        BY <1>3, <3>1
    <3> QED
        BY <2>1, <3>1, <3>2 DEF BitOf
  <2>4. s = t
      BY <2>2, <2>3, SeqEqual
  <2> QED
      BY <1>1, <2>1, <2>4
<1> QED
    BY <1>2, <1>3

LEMMA ShiftedPlaces ==
    ASSUME NEW r \in Places01, NEW b \in {0, 1}
    PROVE  /\ Out(r, b) \in {0, 1} /\ (Out(r, b) = 0 <=> r[CrcWidth] = b)
           /\ Shifted(r, b) \in Places01
           /\ Shifted(r, b)[1] = Out(r, b)
           /\ \A k \in 2 .. CrcWidth : Shifted(r, b)[k] = (r[k - 1] + Out(r, b) * CrcPoly[k]) % 2
<1>1. CrcWidth \in Nat \ {0} /\ CrcWidth \in 1 .. CrcWidth /\ 1 \in 1 .. CrcWidth
    BY Widths
<1>2. r[CrcWidth] \in {0, 1}
    BY <1>1 DEF Places01
<1>3. Out(r, b) \in {0, 1} /\ (Out(r, b) = 0 <=> r[CrcWidth] = b)
    BY <1>2, Parity DEF Out
<1>4. Shifted(r, b) = [k \in 1 .. CrcWidth |->
                         ((IF k = 1 THEN 0 ELSE r[k - 1]) + Out(r, b) * CrcPoly[k]) % 2]
    BY DEF Shifted, Out
<1>5. ASSUME NEW o \in {0, 1}, NEW k \in 1 .. CrcWidth
      PROVE  ((IF k = 1 THEN 0 ELSE r[k - 1]) + o * CrcPoly[k]) % 2 \in {0, 1}
  <2>1. o * CrcPoly[k] \in {0, 1}
      BY PolynomialAssumption, Parity
  <2>2. (IF k = 1 THEN 0 ELSE r[k - 1]) \in {0, 1}
      BY <1>1 DEF Places01
  <2> QED
      BY <2>1, <2>2, Parity
<1>6. Shifted(r, b) \in Places01
    BY <1>3, <1>4, <1>5 DEF Places01
<1>7. Shifted(r, b)[1] = (0 + Out(r, b) * 1) % 2
    BY <1>1, <1>4, PolynomialAssumption
<1>8. Shifted(r, b)[1] = Out(r, b)
    BY <1>3, <1>7
<1>9. \A k \in 2 .. CrcWidth : k \in 1 .. CrcWidth /\ k # 1
    BY <1>1
<1> QED
    BY <1>3, <1>4, <1>6, <1>8, <1>9

(* Backwards: registers that agree at their first m places after a bit     *)
(* agreed at their first m - 1 before it, and the same went out.           *)
LEMMA ShiftedBack ==
    ASSUME NEW r \in Places01, NEW q \in Places01, NEW b \in {0, 1}, NEW c \in {0, 1},
           NEW m \in 1 .. CrcWidth, \A k \in 1 .. m : Shifted(r, b)[k] = Shifted(q, c)[k]
    PROVE  Out(r, b) = Out(q, c) /\ \A k \in 1 .. m - 1 : r[k] = q[k]
<1>1. CrcWidth \in Nat \ {0}
    BY Widths
<1>2. Out(r, b) = Out(q, c) /\ Out(r, b) \in {0, 1}
  <2>1. 1 \in 1 .. m
      BY <1>1
  <2>2. Shifted(r, b)[1] = Out(r, b) /\ Out(r, b) \in {0, 1}
      BY ShiftedPlaces
  <2>3. Shifted(q, c)[1] = Out(q, c)
      BY ShiftedPlaces
  <2> QED
      BY <2>1, <2>2, <2>3
<1>3. ASSUME NEW k \in 1 .. m - 1
      PROVE  r[k] = q[k]
  <2>1. k + 1 \in 2 .. CrcWidth /\ k + 1 \in 1 .. m /\ (k + 1) - 1 = k /\ k \in 1 .. CrcWidth
        /\ k + 1 \in 1 .. CrcWidth
      BY <1>1
  <2>2. PICK p : p = Out(r, b) * CrcPoly[k + 1]
      OBVIOUS
  <2>3. p \in {0, 1}
      BY <1>2, <2>1, <2>2, PolynomialAssumption, Parity
  <2>4. (r[k] + p) % 2 = (q[k] + p) % 2
    <3>0. PICK i : i = k + 1
        OBVIOUS
    <3>1. Shifted(r, b)[i] = (r[i - 1] + Out(r, b) * CrcPoly[i]) % 2
        BY <2>1, <3>0, ShiftedPlaces
    <3>2. Shifted(q, c)[i] = (q[i - 1] + Out(q, c) * CrcPoly[i]) % 2
        BY <2>1, <3>0, ShiftedPlaces
    <3>3. Shifted(r, b)[i] = Shifted(q, c)[i]
        BY <2>1, <3>0
    <3> QED
        BY <1>2, <2>1, <2>2, <3>0, <3>1, <3>2, <3>3
  <2>5. r[k] \in {0, 1} /\ q[k] \in {0, 1}
      BY <2>1 DEF Places01
  <2> QED
      BY <2>3, <2>4, <2>5
<1> QED
    BY <1>2, <1>3

LEMMA PlacesEqual ==
    ASSUME NEW r \in Places01, NEW q \in Places01,
           \A k \in 1 .. CrcWidth - 1 : r[k] = q[k], r[CrcWidth] = q[CrcWidth]
    PROVE  r = q
<1>1. \A k \in 1 .. CrcWidth : k \in 1 .. CrcWidth - 1 \/ k = CrcWidth
    BY Widths
<1>2. \A k \in 1 .. CrcWidth : r[k] = q[k]
    BY <1>1
<1>3. r = [k \in 1 .. CrcWidth |-> r[k]] /\ q = [k \in 1 .. CrcWidth |-> q[k]]
    BY DEF Places01
<1> QED
    BY <1>2, <1>3, Zenon

(* The register before and after each bit of a byte.                       *)
Feeds(a, r, x) ==
    /\ a \in [0 .. ByteBits -> Places01]
    /\ a[0] = r
    /\ \A k \in 1 .. ByteBits : a[k] = Shifted(a[k - 1], BitOf(x, k))

LEMMA FedLoop ==
    ASSUME NEW r \in Places01, NEW x \in Bytes
    PROVE  \E a : Feeds(a, r, x) /\ Fed(r, x) = a[ByteBits]
<1> DEFINE Unrolled(u) == [k \in 0 .. ByteBits |->
                          IF k = 0 THEN r
                          ELSE Shifted(u[k - 1], ToDigits(x, ByteBits, 2)[ByteBits + 1 - k])]
           up == CHOOSE u : u = Unrolled(u)
           step == [k \in 1 .. ByteBits |-> [y \in Places01 |-> Shifted(y, BitOf(x, k))]]
<1>0. ByteBits \in Nat \ {0}
    BY Widths
<1>1. Fed(r, x) = up[ByteBits]
    BY DEF Fed
<1>2. PICK w : Computes(Places01, r, ByteBits, step, w)
  <2>1. \A k \in 1 .. ByteBits : \A y \in Places01 : Shifted(y, BitOf(x, k)) \in Places01
      BY BitsOfByte, ShiftedPlaces
  <2>2. step \in Steps(ByteBits, Places01)
      BY <2>1 DEF Steps
  <2> HIDE DEF step
  <2> QED
      BY <1>0, <2>2, Computation
<1>3. Feeds(w, r, x)
  <2>1. \A k \in 1 .. ByteBits : \A y \in Places01 : step[k][y] = Shifted(y, BitOf(x, k))
      OBVIOUS
  <2>2. \A k \in 1 .. ByteBits : k - 1 \in 0 .. ByteBits
      BY <1>0
  <2> HIDE DEF step
  <2> QED
      BY <1>2, <2>1, <2>2 DEF Computes, Feeds
<1>4. w = Unrolled(w)
  <2>1. \A k \in 0 .. ByteBits : w[k] = Unrolled(w)[k]
      BY <1>0, <1>3 DEF Feeds, BitOf
  <2>2. w = [k \in 0 .. ByteBits |-> w[k]]
      BY <1>3 DEF Feeds
  <2> QED
      BY <2>1, <2>2
<1>5. up = Unrolled(up)
  <2> HIDE DEF Unrolled
  <2> QED
      BY <1>4
<1> HIDE DEF up
<1>6. up[0] = r /\ \A k \in 1 .. ByteBits : up[k] = Shifted(up[k - 1], BitOf(x, k))
  <2>1. \A k \in 0 .. ByteBits : up[k] = Unrolled(up)[k]
      BY <1>5
  <2>2. \A k \in 1 .. ByteBits : k \in 0 .. ByteBits /\ k # 0
      BY <1>0
  <2>3. \A k \in 1 .. ByteBits : Unrolled(up)[k] = Shifted(up[k - 1], BitOf(x, k))
      BY <2>2 DEF BitOf
  <2>4. 0 \in 0 .. ByteBits /\ Unrolled(up)[0] = r
      BY <1>0
  <2> HIDE DEF Unrolled
  <2> QED
      BY <2>1, <2>2, <2>3, <2>4
<1> DEFINE T == { k \in 0 .. ByteBits : up[k] \in Places01 }
<1>7. 0 \in T
    BY <1>0, <1>6
<1>8. \A k \in 1 .. ByteBits : k - 1 \in T => k \in T
    BY <1>0, <1>6, BitsOfByte, ShiftedPlaces
<1> HIDE DEF T
<1>9. \A k \in 0 .. ByteBits : k \in T
    BY <1>0, <1>7, <1>8, Induction
<1>10. up \in [0 .. ByteBits -> Places01]
  <2>1. \A k \in 0 .. ByteBits : up[k] \in Places01
      BY <1>9 DEF T
  <2> QED
      BY <1>5, <2>1
<1>11. Feeds(up, r, x)
    BY <1>6, <1>10 DEF Feeds
<1> QED
    BY <1>1, <1>11

(* If two registers come out alike, the same went out at every bit.        *)
LEMMA FedBack ==
    ASSUME NEW r, NEW q, NEW x \in Bytes, NEW y \in Bytes, NEW a, NEW b,
           Feeds(a, r, x), Feeds(b, q, y), a[ByteBits] = b[ByteBits]
    PROVE  \A k \in 1 .. ByteBits : Out(a[k - 1], BitOf(x, k)) = Out(b[k - 1], BitOf(y, k))
<1> DEFINE Same(j) == \A k \in 1 .. CrcWidth - j : a[ByteBits - j][k] = b[ByteBits - j][k]
           SameOut(k) == Out(a[k - 1], BitOf(x, k)) = Out(b[k - 1], BitOf(y, k))
           T == { j \in 0 .. ByteBits : Same(j) }
<1>0. ByteBits \in Nat \ {0} /\ CrcWidth \in Nat \ {0} /\ ByteBits <= CrcWidth
    BY Widths
<1>1. ASSUME NEW k \in 1 .. ByteBits, Same(ByteBits - k)
      PROVE  SameOut(k) /\ Same(ByteBits - (k - 1))
  <2>1. /\ k - 1 \in 0 .. ByteBits /\ CrcWidth - (ByteBits - k) \in 1 .. CrcWidth
        /\ ByteBits - (ByteBits - k) = k /\ ByteBits - (ByteBits - (k - 1)) = k - 1
        /\ CrcWidth - (ByteBits - (k - 1)) = (CrcWidth - (ByteBits - k)) - 1
      BY <1>0
  <2>2. /\ a[k - 1] \in Places01 /\ b[k - 1] \in Places01
        /\ a[k] = Shifted(a[k - 1], BitOf(x, k)) /\ b[k] = Shifted(b[k - 1], BitOf(y, k))
      BY <2>1 DEF Feeds
  <2>3. BitOf(x, k) \in {0, 1} /\ BitOf(y, k) \in {0, 1}
      BY BitsOfByte
  <2>4. \A i \in 1 .. CrcWidth - (ByteBits - k) :
            Shifted(a[k - 1], BitOf(x, k))[i] = Shifted(b[k - 1], BitOf(y, k))[i]
      BY <1>1, <2>1, <2>2
  <2> QED
      BY <2>1, <2>2, <2>3, <2>4, ShiftedBack
<1>2. 0 \in T
    BY <1>0
<1>3. ASSUME NEW j \in 1 .. ByteBits, j - 1 \in T
      PROVE  j \in T
  <2>1. /\ ByteBits - (j - 1) \in 1 .. ByteBits /\ ByteBits - (ByteBits - (j - 1)) = j - 1
        /\ ByteBits - ((ByteBits - (j - 1)) - 1) = j
      BY <1>0
  <2>2. Same(j - 1)
      BY <1>3
  <2> HIDE DEF Same, SameOut
  <2> QED
      BY <1>1, <2>1, <2>2
<1>4. \A j \in 0 .. ByteBits : j \in T
  <2> HIDE DEF T
  <2> QED
      BY <1>0, <1>2, <1>3, Induction
<1>5. \A k \in 1 .. ByteBits : ByteBits - k \in 0 .. ByteBits
    BY <1>0
<1>6. \A k \in 1 .. ByteBits : Same(ByteBits - k)
    BY <1>4, <1>5
<1>7. \A k \in 1 .. ByteBits : SameOut(k)
  <2> HIDE DEF Same, SameOut
  <2> QED
      BY <1>1, <1>6
<1> QED
    BY <1>7

(* One byte takes different registers to different registers, and one      *)
(* register is taken to different ones by different bytes.                 *)
LEMMA FedApart ==
    ASSUME NEW r \in Places01, NEW q \in Places01, NEW x \in Bytes, NEW y \in Bytes,
           Fed(r, x) = Fed(q, y)
    PROVE  (x = y => r = q) /\ (r = q => x = y)
<1>0. ByteBits \in Nat \ {0} /\ CrcWidth \in Nat \ {0}
    BY Widths
<1>1. PICK a : Feeds(a, r, x) /\ Fed(r, x) = a[ByteBits]
    BY FedLoop
<1>2. PICK b : Feeds(b, q, y) /\ Fed(q, y) = b[ByteBits]
    BY FedLoop
<1>8. a[ByteBits] = b[ByteBits]
    BY <1>1, <1>2
<1>3. \A k \in 1 .. ByteBits : Out(a[k - 1], BitOf(x, k)) = Out(b[k - 1], BitOf(y, k))
    BY <1>1, <1>2, <1>8, FedBack
<1>4. \A k \in 1 .. ByteBits :
        /\ k - 1 \in 0 .. ByteBits
        /\ a[k - 1] \in Places01 /\ b[k - 1] \in Places01
        /\ a[k] = Shifted(a[k - 1], BitOf(x, k)) /\ b[k] = Shifted(b[k - 1], BitOf(y, k))
        /\ BitOf(x, k) \in {0, 1} /\ BitOf(y, k) \in {0, 1}
  <2>1. \A k \in 1 .. ByteBits : k - 1 \in 0 .. ByteBits
      BY <1>0
  <2> QED
      BY <1>1, <1>2, <2>1, BitsOfByte DEF Feeds
<1>5. \A k \in 1 .. ByteBits :
        /\ a[k - 1][CrcWidth] \in {0, 1} /\ b[k - 1][CrcWidth] \in {0, 1}
        /\ a[k - 1][CrcWidth] = BitOf(x, k) <=> b[k - 1][CrcWidth] = BitOf(y, k)
  <2> TAKE k \in 1 .. ByteBits
  <2>1. CrcWidth \in 1 .. CrcWidth
      BY <1>0
  <2>2. a[k - 1][CrcWidth] \in {0, 1} /\ b[k - 1][CrcWidth] \in {0, 1}
      BY <1>4, <2>1 DEF Places01
  <2>3. Out(a[k - 1], BitOf(x, k)) = 0 <=> a[k - 1][CrcWidth] = BitOf(x, k)
      BY <1>4, ShiftedPlaces
  <2>4. Out(b[k - 1], BitOf(y, k)) = 0 <=> b[k - 1][CrcWidth] = BitOf(y, k)
      BY <1>4, ShiftedPlaces
  <2> QED
      BY <1>3, <2>2, <2>3, <2>4
<1>6. ASSUME x = y
      PROVE  r = q
  <2> DEFINE T == { j \in 0 .. ByteBits : a[ByteBits - j] = b[ByteBits - j] }
  <2>1. 0 \in T
      BY <1>0, <1>8
  <2>2. ASSUME NEW j \in 1 .. ByteBits, j - 1 \in T
        PROVE  j \in T
    <3>1. PICK k : k = ByteBits - (j - 1)
        OBVIOUS
    <3>2. k \in 1 .. ByteBits /\ k - 1 = ByteBits - j /\ CrcWidth \in 1 .. CrcWidth
        BY <1>0, <3>1
    <3>3. a[k] = b[k]
        BY <2>2, <3>1
    <3>4. \A i \in 1 .. CrcWidth - 1 : a[k - 1][i] = b[k - 1][i]
      <4>1. PICK m \in 1 .. CrcWidth : m = CrcWidth
          BY <3>2
      <4>2. /\ a[k - 1] \in Places01 /\ b[k - 1] \in Places01
            /\ BitOf(x, k) \in {0, 1} /\ BitOf(y, k) \in {0, 1}
          BY <1>4, <3>2
      <4>3. \A i \in 1 .. m : Shifted(a[k - 1], BitOf(x, k))[i] = Shifted(b[k - 1], BitOf(y, k))[i]
          BY <1>4, <3>2, <3>3
      <4>4. \A i \in 1 .. m - 1 : a[k - 1][i] = b[k - 1][i]
          BY <4>2, <4>3, ShiftedBack
      <4> QED
          BY <4>1, <4>4
    <3>5. a[k - 1][CrcWidth] = b[k - 1][CrcWidth]
        BY <1>4, <1>5, <1>6, <3>2
    <3>6. a[k - 1] = b[k - 1]
        BY <1>4, <3>2, <3>4, <3>5, PlacesEqual
    <3> QED
        BY <3>2, <3>6
  <2> HIDE DEF T
  <2>3. \A j \in 0 .. ByteBits : j \in T
      BY <1>0, <2>1, <2>2, Induction
  <2>4. a[0] = b[0]
    <3>1. ByteBits \in T
        BY <1>0, <2>3
    <3>2. ByteBits - ByteBits = 0
        BY <1>0
    <3> QED
        BY <3>1, <3>2 DEF T
  <2> QED
      BY <1>1, <1>2, <2>4 DEF Feeds
<1>7. ASSUME r = q
      PROVE  x = y
  <2> DEFINE T == { j \in 0 .. ByteBits : a[j] = b[j] }
  <2>1. \A k \in 1 .. ByteBits : a[k - 1] = b[k - 1] => BitOf(x, k) = BitOf(y, k)
      BY <1>4, <1>5
  <2>2. 0 \in T
      BY <1>0, <1>1, <1>2, <1>7 DEF Feeds
  <2>3. \A k \in 1 .. ByteBits : k - 1 \in T => k \in T
      BY <1>4, <2>1
  <2>4. \A k \in 1 .. ByteBits : k - 1 \in T => BitOf(x, k) = BitOf(y, k)
      BY <2>1
  <2> HIDE DEF T
  <2>5. \A j \in 0 .. ByteBits : j \in T
      BY <1>0, <2>2, <2>3, Induction
  <2>6. \A k \in 1 .. ByteBits : BitOf(x, k) = BitOf(y, k)
      BY <1>4, <2>4, <2>5
  <2> QED
      BY <2>6, BitsOfByte
<1> QED
    BY <1>6, <1>7
LEMMA FedPlaces ==
    ASSUME NEW r \in Places01, NEW x \in Bytes
    PROVE  Fed(r, x) \in Places01
<1>1. PICK a : Feeds(a, r, x) /\ Fed(r, x) = a[ByteBits]
    BY FedLoop
<1>2. ByteBits \in 0 .. ByteBits
    BY Widths
<1> QED
    BY <1>1, <1>2 DEF Feeds

Ones == [k \in 1 .. CrcWidth |-> 1]

(* The register before and after each byte.                                *)
Runs(a, s) ==
    /\ a \in [0 .. Len(s) -> Places01]
    /\ a[0] = Ones
    /\ \A i \in 1 .. Len(s) : a[i] = Fed(a[i - 1], s[i])

LEMMA RegisterLoop ==
    ASSUME NEW s \in Seq(Bytes)
    PROVE  \E a : Runs(a, s) /\ CrcRegister(s) = a[Len(s)]
<1> DEFINE n == Len(s)
           Unrolled(u) == [i \in 0 .. Len(s) |-> IF i = 0 THEN [k \in 1 .. CrcWidth |-> 1]
                                              ELSE Fed(u[i - 1], s[i])]
           up == CHOOSE u : u = Unrolled(u)
           step == [i \in 1 .. n |-> [y \in Places01 |-> Fed(y, s[i])]]
<1>0. n \in Nat /\ (\A i \in 1 .. n : s[i] \in Bytes) /\ Ones \in Places01
    BY DEF Ones, Places01
<1>1. CrcRegister(s) = up[n]
    BY DEF CrcRegister
<1>2. PICK w : Computes(Places01, Ones, n, step, w)
  <2>1. \A i \in 1 .. n : \A y \in Places01 : Fed(y, s[i]) \in Places01
      BY <1>0, FedPlaces
  <2>2. step \in Steps(n, Places01)
      BY <2>1 DEF Steps
  <2> HIDE DEF step, n
  <2> QED
      BY <1>0, <2>2, Computation
<1>3. Runs(w, s)
  <2>1. \A i \in 1 .. n : \A y \in Places01 : step[i][y] = Fed(y, s[i])
      OBVIOUS
  <2>2. \A i \in 1 .. n : i - 1 \in 0 .. n
      BY <1>0
  <2> HIDE DEF step
  <2> QED
      BY <1>2, <2>1, <2>2 DEF Computes, Runs
<1>4. w = Unrolled(w)
  <2>1. \A i \in 0 .. n : w[i] = Unrolled(w)[i]
      BY <1>0, <1>3 DEF Runs, Ones
  <2>2. w = [i \in 0 .. n |-> w[i]]
      BY <1>3 DEF Runs
  <2> QED
      BY <2>1, <2>2
<1>5. up = Unrolled(up)
  <2> HIDE DEF Unrolled
  <2> QED
      BY <1>4
<1> HIDE DEF up
<1>6. up[0] = Ones /\ \A i \in 1 .. n : up[i] = Fed(up[i - 1], s[i])
  <2>1. \A i \in 0 .. n : up[i] = Unrolled(up)[i]
      BY <1>5
  <2>2. \A i \in 1 .. n : i \in 0 .. n /\ i # 0
      BY <1>0
  <2>3. \A i \in 1 .. n : Unrolled(up)[i] = Fed(up[i - 1], s[i])
      BY <2>2
  <2>4. 0 \in 0 .. n /\ Unrolled(up)[0] = Ones
      BY <1>0 DEF Ones
  <2> HIDE DEF Unrolled
  <2> QED
      BY <2>1, <2>2, <2>3, <2>4
<1> DEFINE T == { i \in 0 .. n : up[i] \in Places01 }
<1>7. 0 \in T
    BY <1>0, <1>6
<1>8. \A i \in 1 .. n : i - 1 \in T => i \in T
    BY <1>0, <1>6, FedPlaces
<1> HIDE DEF T
<1>9. \A i \in 0 .. n : i \in T
  <2> HIDE DEF n
  <2> QED
      BY <1>0, <1>7, <1>8, Induction
<1>10. up \in [0 .. n -> Places01]
  <2>1. \A i \in 0 .. n : up[i] \in Places01
      BY <1>9 DEF T
  <2> QED
      BY <1>5, <2>1
<1>11. Runs(up, s)
    BY <1>6, <1>10 DEF Runs
<1> QED
    BY <1>1, <1>11

(* Byte strings that differ in one byte leave different registers.         *)
LEMMA RegisterApart ==
    ASSUME NEW s \in Seq(Bytes), NEW t \in Seq(Bytes), Len(t) = Len(s), NEW j \in 1 .. Len(s),
           t[j] # s[j], \A i \in 1 .. Len(s) : i # j => t[i] = s[i]
    PROVE  CrcRegister(s) \in Places01 /\ CrcRegister(t) \in Places01 /\ CrcRegister(s) # CrcRegister(t)
<1> DEFINE n == Len(s)
<1>0. n \in Nat /\ \A i \in 1 .. n : s[i] \in Bytes /\ t[i] \in Bytes /\ i - 1 \in 0 .. n /\ i \in 0 .. n
    OBVIOUS
<1>1. PICK a : Runs(a, s) /\ CrcRegister(s) = a[n]
    BY RegisterLoop
<1>2. PICK b : Runs(b, t) /\ CrcRegister(t) = b[n]
    BY RegisterLoop
<1> HIDE DEF n
<1>3. /\ \A i \in 1 .. n : a[i] = Fed(a[i - 1], s[i]) /\ b[i] = Fed(b[i - 1], t[i])
      /\ \A i \in 0 .. n : a[i] \in Places01 /\ b[i] \in Places01
      /\ a[0] = b[0]
    BY <1>1, <1>2 DEF Runs, n
<1>4. j \in 1 .. n /\ t[j] # s[j] /\ \A i \in 1 .. n : i # j => t[i] = s[i]
    BY DEF n
<1> DEFINE T == { i \in 0 .. n : a[i] = b[i] <=> i < j }
<1>5. 0 \in T
    BY <1>0, <1>3, <1>4
<1>6. ASSUME NEW i \in 1 .. n, i - 1 \in T
      PROVE  i \in T
  <2>1. /\ a[i - 1] \in Places01 /\ b[i - 1] \in Places01 /\ s[i] \in Bytes /\ t[i] \in Bytes
        /\ a[i] = Fed(a[i - 1], s[i]) /\ b[i] = Fed(b[i - 1], t[i])
      BY <1>0, <1>3
  <2>9. PICK p \in Places01, q \in Places01, x \in Bytes, y \in Bytes :
          p = a[i - 1] /\ q = b[i - 1] /\ x = s[i] /\ y = t[i]
      BY <2>1
  <2>10. Fed(p, x) = Fed(q, y) => (x = y => p = q) /\ (p = q => x = y)
      BY FedApart
  <2>2. a[i] = b[i] /\ s[i] = t[i] => a[i - 1] = b[i - 1]
      BY <2>1, <2>9, <2>10
  <2>3. a[i] = b[i] /\ a[i - 1] = b[i - 1] => s[i] = t[i]
      BY <2>1, <2>9, <2>10
  <2>4. a[i - 1] = b[i - 1] <=> i - 1 < j
      BY <1>6
  <2>5. i \in 0 .. n
      BY <1>0
  <2>6. CASE i < j
      BY <1>0, <1>4, <2>1, <2>4, <2>5, <2>6
  <2>7. CASE i = j
      BY <1>0, <1>4, <2>3, <2>4, <2>5, <2>7
  <2>8. CASE i > j
      BY <1>0, <1>4, <2>2, <2>4, <2>5, <2>8
  <2> QED
      BY <1>0, <1>4, <2>6, <2>7, <2>8
<1> HIDE DEF T
<1>7. \A i \in 0 .. n : i \in T
    BY <1>0, <1>5, <1>6, Induction
<1>8. n \in 0 .. n /\ ~(n < j)
    BY <1>0, <1>4
<1> QED
    BY <1>1, <1>2, <1>3, <1>7, <1>8 DEF T

(* The bits that make the i-th byte of the checksum.                       *)
Chunk(r, i) == [j \in 1 .. ByteBits |-> 1 - r[ByteBits * (i - 1) + j]]

LEMMA ChunkBits ==
    ASSUME NEW r \in Places01, NEW i \in 1 .. ChecksumLen
    PROVE  /\ \A j \in 1 .. ByteBits : ByteBits * (i - 1) + j \in 1 .. CrcWidth
           /\ Chunk(r, i) \in Seq(0 .. 1) /\ Len(Chunk(r, i)) = ByteBits
<1>0. ByteBits \in Nat \ {0} /\ ChecksumLen \in Nat \ {0}
    BY Widths
<1>1. ByteBits * (i - 1) + ByteBits <= ByteBits * ChecksumLen /\ ByteBits * (i - 1) \in Nat
  <2>1. i - 1 \in Nat /\ i - 1 < ChecksumLen
      BY <1>0
  <2> QED
      BY <1>0, <2>1, Scaled
<1>2. \A j \in 1 .. ByteBits : ByteBits * (i - 1) + j \in 1 .. CrcWidth
  <2>1. CrcWidth \in Nat /\ CrcWidth = ByteBits * ChecksumLen
      BY Widths DEF CrcWidth
  <2> QED
      BY <1>0, <1>1, <2>1
<1>3. \A j \in 1 .. ByteBits : 1 - r[ByteBits * (i - 1) + j] \in 0 .. 1
    BY <1>2 DEF Places01
<1> QED
    BY <1>0, <1>2, <1>3 DEF Chunk

LEMMA CrcBytes ==
    ASSUME NEW s \in Seq(Bytes), CrcRegister(s) \in Places01
    PROVE  /\ Crc(s) \in [1 .. ChecksumLen -> Bytes]
           /\ \A i \in 1 .. ChecksumLen : ToDigits(Crc(s)[i], ByteBits, 2) = Chunk(CrcRegister(s), i)
<1>1. Crc(s) = [i \in 1 .. ChecksumLen |-> FromDigits(Chunk(CrcRegister(s), i), 2)]
    BY DEF Crc, Chunk
<1>2. ASSUME NEW i \in 1 .. ChecksumLen
      PROVE  /\ FromDigits(Chunk(CrcRegister(s), i), 2) \in Bytes
             /\ ToDigits(FromDigits(Chunk(CrcRegister(s), i), 2), ByteBits, 2) = Chunk(CrcRegister(s), i)
  <2>1. PICK c : c = Chunk(CrcRegister(s), i)
      OBVIOUS
  <2>2. c \in Seq(0 .. 2 - 1) /\ Len(c) = ByteBits
      BY <2>1, ChunkBits
  <2>3. 2 \in Nat \ {0}
      OBVIOUS
  <2>4. /\ FromDigits(c, 2) \in 0 .. Power(2, Len(c)) - 1
        /\ ToDigits(FromDigits(c, 2), Len(c), 2) = c
      BY <2>2, <2>3, DigitsOfValue
  <2> QED
      BY <2>1, <2>2, <2>4 DEF Bytes, Base
<1> QED
    BY <1>1, <1>2

LEMMA CrcApart ==
    ASSUME NEW s \in Seq(Bytes), NEW t \in Seq(Bytes),
           CrcRegister(s) \in Places01, CrcRegister(t) \in Places01, Crc(s) = Crc(t)
    PROVE  CrcRegister(s) = CrcRegister(t)
<1>0. ByteBits \in Nat \ {0} /\ ChecksumLen \in Nat \ {0} /\ CrcWidth = ByteBits * ChecksumLen
    BY Widths DEF CrcWidth
<1>1. \A i \in 1 .. ChecksumLen : Chunk(CrcRegister(s), i) = Chunk(CrcRegister(t), i)
    BY CrcBytes
<1>2. ASSUME NEW k \in 1 .. CrcWidth
      PROVE  CrcRegister(s)[k] = CrcRegister(t)[k]
  <2>1. CrcWidth \in Nat
      BY Widths
  <2>2. PICK q \in Nat, d \in 0 .. ByteBits - 1 : k - 1 = ByteBits * q + d
    <3>1. k - 1 \in Nat
        BY <2>1
    <3> QED
        BY <1>0, <3>1, Division
  <2>3. q < ChecksumLen
    <3>1. ASSUME ~(q < ChecksumLen)
          PROVE  FALSE
      <4>1. PICK e \in Nat : q = ChecksumLen + e
        <5>1. q - ChecksumLen \in Nat /\ q = ChecksumLen + (q - ChecksumLen)
            BY <1>0, <3>1
        <5> QED
            BY <5>1
      <4>2. ByteBits * q = ByteBits * ChecksumLen + ByteBits * e /\ ByteBits * e \in Nat
          BY <1>0, <4>1
      <4> QED
          BY <1>0, <2>1, <2>2, <4>2
    <3> QED
        BY <3>1
  <2>4. PICK i, j : i = q + 1 /\ j = d + 1
      OBVIOUS
  <2>5. i \in 1 .. ChecksumLen /\ j \in 1 .. ByteBits /\ i - 1 = q
      BY <1>0, <2>3, <2>4
  <2>6. ByteBits * (i - 1) + j = k
    <3>1. ByteBits * q \in Nat
        BY <1>0
    <3> QED
        BY <2>1, <2>2, <2>4, <2>5, <3>1
  <2>7. 1 - CrcRegister(s)[k] = 1 - CrcRegister(t)[k]
    <3>1. Chunk(CrcRegister(s), i)[j] = Chunk(CrcRegister(t), i)[j]
        BY <1>1, <2>5
    <3> QED
        BY <2>5, <2>6, <3>1 DEF Chunk
  <2>8. CrcRegister(s)[k] \in {0, 1} /\ CrcRegister(t)[k] \in {0, 1}
      BY DEF Places01
  <2> QED
      BY <2>7, <2>8
<1> QED
  <2>1. \A r \in Places01 : r = [k \in 1 .. CrcWidth |-> r[k]]
      BY DEF Places01
  <2>2. CrcRegister(s) = [k \in 1 .. CrcWidth |-> CrcRegister(s)[k]]
      BY <2>1
  <2>3. CrcRegister(t) = [k \in 1 .. CrcWidth |-> CrcRegister(t)[k]]
      BY <2>1
  <2> QED
      BY <1>2, <2>2, <2>3, Zenon

(* The checksum of a byte string is of checksum length, and changes with   *)
(* any one byte of the string.                                             *)
LEMMA ChecksumBytes ==
    ASSUME NEW s \in Seq(Bytes)
    PROVE  Checksum(s) \in [1 .. ChecksumLen -> Bytes]
<1>1. PICK a : Runs(a, s) /\ CrcRegister(s) = a[Len(s)]
    BY RegisterLoop
<1>2. Len(s) \in 0 .. Len(s)
    OBVIOUS
<1>3. CrcRegister(s) \in Places01
    BY <1>1, <1>2 DEF Runs
<1> QED
    BY <1>3, CrcBytes DEF Checksum

LEMMA ChecksumApart ==
    ASSUME NEW s \in Seq(Bytes), NEW t \in Seq(Bytes), Len(t) = Len(s), NEW j \in 1 .. Len(s),
           t[j] # s[j], \A i \in 1 .. Len(s) : i # j => t[i] = s[i]
    PROVE  Checksum(s) # Checksum(t)
<1>1. CrcRegister(s) \in Places01 /\ CrcRegister(t) \in Places01 /\ CrcRegister(s) # CrcRegister(t)
    BY RegisterApart
<1> QED
    BY <1>1, CrcApart DEF Checksum
-----------------------------------------------------------------------------
(* Frames and their parts.                                                 *)
LEMMA SubSeqFacts ==
    ASSUME NEW S, NEW s \in Seq(S), NEW m \in Nat, NEW n \in Nat, m <= n, n <= Len(s)
    PROVE  /\ SubSeq(s, m + 1, n) \in Seq(S) /\ Len(SubSeq(s, m + 1, n)) = n - m
           /\ \A i \in 1 .. n - m : SubSeq(s, m + 1, n)[i] = s[m + i]
OBVIOUS

LEMMA ConcatFacts ==
    ASSUME NEW S, NEW s \in Seq(S), NEW t \in Seq(S)
    PROVE  /\ s \o t \in Seq(S) /\ Len(s \o t) = Len(s) + Len(t)
           /\ \A i \in 1 .. Len(s) : (s \o t)[i] = s[i]
           /\ \A i \in 1 .. Len(t) : (s \o t)[Len(s) + i] = t[i]
OBVIOUS

(* A part of the front of a string is the same part of the string, and     *)
(* what is behind the front is the rest.                                   *)
LEMMA PartOfFront ==
    ASSUME NEW S, NEW s \in Seq(S), NEW t \in Seq(S), NEW m \in Nat, NEW n \in Nat, m <= n, n <= Len(s)
    PROVE  SubSeq(s \o t, m + 1, n) = SubSeq(s, m + 1, n)
<1>1. s \o t \in Seq(S) /\ n <= Len(s \o t) /\ \A i \in 1 .. Len(s) : (s \o t)[i] = s[i]
    BY ConcatFacts
<1> DEFINE u == s \o t
<1>2. u \in Seq(S) /\ n <= Len(u) /\ \A i \in 1 .. Len(s) : u[i] = s[i]
    BY <1>1
<1> HIDE DEF u
<1>3. \A i \in 1 .. n - m : m + i \in 1 .. Len(s)
    OBVIOUS
<1>4. \A i \in 1 .. n - m : SubSeq(u, m + 1, n)[i] = SubSeq(s, m + 1, n)[i]
    BY <1>2, <1>3, SubSeqFacts
<1>5. /\ SubSeq(u, m + 1, n) \in Seq(S) /\ Len(SubSeq(u, m + 1, n)) = n - m
      /\ SubSeq(s, m + 1, n) \in Seq(S) /\ Len(SubSeq(s, m + 1, n)) = n - m
    BY <1>2, SubSeqFacts
<1>6. SubSeq(u, m + 1, n) = SubSeq(s, m + 1, n)
    BY <1>4, <1>5, SeqEqual
<1> QED
    BY <1>6 DEF u

LEMMA Back ==
    ASSUME NEW S, NEW s \in Seq(S), NEW t \in Seq(S)
    PROVE  SubSeq(s \o t, Len(s) + 1, Len(s) + Len(t)) = t /\ SubSeq(s \o t, 1, Len(s)) = s
<1> DEFINE u == s \o t
<1>1. /\ u \in Seq(S) /\ Len(u) = Len(s) + Len(t) /\ Len(s) \in Nat /\ Len(t) \in Nat
      /\ \A i \in 1 .. Len(s) : u[i] = s[i]
      /\ \A i \in 1 .. Len(t) : u[Len(s) + i] = t[i]
    BY ConcatFacts
<1> HIDE DEF u
<1>2. SubSeq(u, Len(s) + 1, Len(s) + Len(t)) = t
  <2>1. PICK m \in Nat, n \in Nat : m = Len(s) /\ n = Len(s) + Len(t) /\ m <= n /\ n - m = Len(t)
        /\ n = Len(u)
      BY <1>1
  <2>2. /\ SubSeq(u, m + 1, n) \in Seq(S) /\ Len(SubSeq(u, m + 1, n)) = n - m
        /\ \A i \in 1 .. n - m : SubSeq(u, m + 1, n)[i] = u[m + i]
    <3>1. u \in Seq(S) /\ m \in Nat /\ n \in Nat /\ m <= n /\ n <= Len(u)
        BY <1>1, <2>1
    <3> QED
        BY <3>1, SubSeqFacts
  <2>3. SubSeq(u, m + 1, n) = t
      BY <1>1, <2>1, <2>2, SeqEqual
  <2> QED
      BY <2>1, <2>3
<1>3. SubSeq(u, 1, Len(s)) = s
  <2>4. PICK m \in Nat : m = 0
      OBVIOUS
  <2>1. PICK n \in Nat : n = Len(s) /\ n <= Len(u) /\ m <= n
      BY <1>1, <2>4
  <2>2. /\ SubSeq(u, m + 1, n) \in Seq(S) /\ Len(SubSeq(u, m + 1, n)) = n - m
        /\ \A i \in 1 .. n - m : SubSeq(u, m + 1, n)[i] = u[m + i]
    <3>1. u \in Seq(S) /\ m \in Nat /\ n \in Nat /\ m <= n /\ n <= Len(u)
        BY <1>1, <2>1
    <3> QED
        BY <3>1, SubSeqFacts
  <2>3. SubSeq(u, m + 1, n) = s
      BY <1>1, <2>1, <2>2, <2>4, SeqEqual
  <2> QED
      BY <2>1, <2>3, <2>4
<1> QED
    BY <1>2, <1>3 DEF u

LEMMA Joined ==
    ASSUME NEW S, NEW s \in Seq(S), NEW m \in Nat, NEW n \in Nat, m <= n, n <= Len(s)
    PROVE  SubSeq(s, 1, m) \o SubSeq(s, m + 1, n) = SubSeq(s, 1, n)
<1>0. 0 + 1 = 1 /\ Len(s) \in Nat
    OBVIOUS
<1>1. /\ SubSeq(s, 1, m) \in Seq(S) /\ Len(SubSeq(s, 1, m)) = m
      /\ \A i \in 1 .. m : SubSeq(s, 1, m)[i] = s[i]
  <2>1. PICK z \in Nat : z = 0
      OBVIOUS
  <2>2. /\ SubSeq(s, z + 1, m) \in Seq(S) /\ Len(SubSeq(s, z + 1, m)) = m - z
        /\ \A i \in 1 .. m - z : SubSeq(s, z + 1, m)[i] = s[z + i]
      BY <1>0, <2>1, SubSeqFacts
  <2> QED
      BY <2>1, <2>2
<1>2. /\ SubSeq(s, 1, n) \in Seq(S) /\ Len(SubSeq(s, 1, n)) = n
      /\ \A i \in 1 .. n : SubSeq(s, 1, n)[i] = s[i]
  <2>1. PICK z \in Nat : z = 0
      OBVIOUS
  <2>2. /\ SubSeq(s, z + 1, n) \in Seq(S) /\ Len(SubSeq(s, z + 1, n)) = n - z
        /\ \A i \in 1 .. n - z : SubSeq(s, z + 1, n)[i] = s[z + i]
      BY <1>0, <2>1, SubSeqFacts
  <2> QED
      BY <2>1, <2>2
<1>3. /\ SubSeq(s, m + 1, n) \in Seq(S) /\ Len(SubSeq(s, m + 1, n)) = n - m
      /\ \A i \in 1 .. n - m : SubSeq(s, m + 1, n)[i] = s[m + i]
    BY SubSeqFacts
<1> DEFINE u == SubSeq(s, 1, m)
           v == SubSeq(s, m + 1, n)
           w == SubSeq(s, 1, n)
<1> HIDE DEF u, v, w
<1>4. /\ u \o v \in Seq(S) /\ Len(u \o v) = n
      /\ \A i \in 1 .. m : (u \o v)[i] = s[i]
      /\ \A i \in 1 .. n - m : (u \o v)[m + i] = s[m + i]
  <2>1. u \in Seq(S) /\ Len(u) = m /\ \A i \in 1 .. m : u[i] = s[i]
      BY <1>1 DEF u
  <2>2. v \in Seq(S) /\ Len(v) = n - m /\ \A i \in 1 .. n - m : v[i] = s[m + i]
      BY <1>3 DEF v
  <2>3. /\ u \o v \in Seq(S) /\ Len(u \o v) = Len(u) + Len(v)
        /\ \A i \in 1 .. Len(u) : (u \o v)[i] = u[i]
        /\ \A i \in 1 .. Len(v) : (u \o v)[Len(u) + i] = v[i]
    <3>1. u \in Seq(S) /\ v \in Seq(S)
        BY <2>1, <2>2
    <3> QED
        BY <3>1
  <2>4. Len(u \o v) = n
      BY <2>1, <2>2, <2>3
  <2>5. \A i \in 1 .. m : (u \o v)[i] = s[i]
      BY <2>1, <2>3
  <2>6. \A i \in 1 .. n - m : (u \o v)[m + i] = s[m + i]
      BY <2>1, <2>2, <2>3
  <2> QED
      BY <2>3, <2>4, <2>5, <2>6
<1>5. \A i \in 1 .. n : (u \o v)[i] = w[i]
  <2> TAKE i \in 1 .. n
  <2>1. CASE i <= m
    <3>1. i \in 1 .. m
        BY <2>1
    <3> QED
        BY <1>2, <1>4, <3>1 DEF w
  <2>2. CASE i > m
    <3>1. i - m \in 1 .. n - m /\ m + (i - m) = i
        BY <2>2
    <3>2. (u \o v)[m + (i - m)] = s[m + (i - m)]
        BY <1>4, <3>1
    <3> QED
        BY <1>2, <3>1, <3>2 DEF w
  <2>3. i <= m \/ i > m
      OBVIOUS
  <2> QED
      BY <2>1, <2>2, <2>3
<1>6. u \o v = w
    BY <1>2, <1>4, <1>5, SeqEqual DEF w
<1> QED
    BY <1>6 DEF u, v, w

LEMMA FrameLengths ==
    /\ Len(Magic) \in Nat /\ Magic \in Seq(Bytes) /\ UuidLen \in Nat \ {0} /\ LengthLen \in Nat \ {0}
    /\ ChecksumLen \in Nat \ {0} /\ HeaderLen \in Nat
    /\ HeaderLen = Len(Magic) + 1 + UuidLen + UuidLen + LengthLen
BY WidthAssumption, MagicAssumption DEF HeaderLen

(* No frame differs from another by one byte: whatever a byte of a frame   *)
(* is replaced by, the frame is refused.                                   *)
THEOREM OneByteIsNoticed ==
    ASSUME NEW s \in Seq(Bytes), WellFormed(s), NEW j \in DOMAIN s, NEW x \in Bytes, x # s[j]
    PROVE  ~ WellFormed([s EXCEPT ![j] = x])
<1> DEFINE t == [s EXCEPT ![j] = x]
           n == Len(s) - ChecksumLen
<1>1. Len(s) >= ChecksumLen /\ n \in Nat /\ n <= Len(s) /\ Len(s) = n + ChecksumLen
  <2>1. Len(s) >= HeaderLen + ChecksumLen
      BY DEF WellFormed
  <2> QED
      BY <2>1, FrameLengths
<1>2. t \in Seq(Bytes) /\ Len(t) = Len(s) /\ j \in 1 .. Len(s)
      /\ t[j] = x /\ \A i \in 1 .. Len(s) : i # j => t[i] = s[i]
    OBVIOUS
<1>3. Trailer(s) = Checksum(Body(s))
    BY DEF WellFormed
<1> HIDE DEF t, n
<1>4. Body(s) = SubSeq(s, 1, n) /\ Trailer(s) = SubSeq(s, n + 1, Len(s))
      /\ Body(t) = SubSeq(t, 1, n) /\ Trailer(t) = SubSeq(t, n + 1, Len(s))
    BY <1>2 DEF Body, Trailer, n
<1>5. /\ Body(s) \in Seq(Bytes) /\ Len(Body(s)) = n /\ \A i \in 1 .. n : Body(s)[i] = s[i]
      /\ Body(t) \in Seq(Bytes) /\ Len(Body(t)) = n /\ \A i \in 1 .. n : Body(t)[i] = t[i]
  <2>1. PICK z \in Nat : z = 0
      OBVIOUS
  <2>2. /\ SubSeq(s, z + 1, n) \in Seq(Bytes) /\ Len(SubSeq(s, z + 1, n)) = n - z
        /\ \A i \in 1 .. n - z : SubSeq(s, z + 1, n)[i] = s[z + i]
      BY <1>1, <2>1, SubSeqFacts
  <2>3. /\ SubSeq(t, z + 1, n) \in Seq(Bytes) /\ Len(SubSeq(t, z + 1, n)) = n - z
        /\ \A i \in 1 .. n - z : SubSeq(t, z + 1, n)[i] = t[z + i]
      BY <1>1, <1>2, <2>1, SubSeqFacts
  <2>4. n - z = n /\ z + 1 = 1 /\ \A i \in 1 .. n : z + i = i
      BY <1>1, <2>1
  <2>5. /\ SubSeq(s, 1, n) \in Seq(Bytes) /\ Len(SubSeq(s, 1, n)) = n
        /\ \A i \in 1 .. n : SubSeq(s, 1, n)[i] = s[i]
      BY <2>2, <2>4
  <2>6. /\ SubSeq(t, 1, n) \in Seq(Bytes) /\ Len(SubSeq(t, 1, n)) = n
        /\ \A i \in 1 .. n : SubSeq(t, 1, n)[i] = t[i]
      BY <2>3, <2>4
  <2> QED
      BY <1>4, <2>5, <2>6
<1>6. /\ Len(Trailer(s)) = ChecksumLen /\ Trailer(s) \in Seq(Bytes)
      /\ Len(Trailer(t)) = ChecksumLen /\ Trailer(t) \in Seq(Bytes)
      /\ \A i \in 1 .. ChecksumLen : Trailer(s)[i] = s[n + i] /\ Trailer(t)[i] = t[n + i]
  <2>1. PICK l \in Nat : l = Len(s) /\ l <= Len(s) /\ l <= Len(t) /\ n <= l /\ l - n = ChecksumLen
      BY <1>1, <1>2, FrameLengths
  <2>2. /\ SubSeq(s, n + 1, l) \in Seq(Bytes) /\ Len(SubSeq(s, n + 1, l)) = l - n
        /\ \A i \in 1 .. l - n : SubSeq(s, n + 1, l)[i] = s[n + i]
      BY <1>1, <2>1, SubSeqFacts
  <2>3. /\ SubSeq(t, n + 1, l) \in Seq(Bytes) /\ Len(SubSeq(t, n + 1, l)) = l - n
        /\ \A i \in 1 .. l - n : SubSeq(t, n + 1, l)[i] = t[n + i]
      BY <1>1, <1>2, <2>1, SubSeqFacts
  <2> QED
      BY <1>4, <2>1, <2>2, <2>3
<1>7. CASE j <= n
  <2>1. j \in 1 .. n /\ Body(t)[j] # Body(s)[j]
        /\ \A i \in 1 .. n : i # j => Body(t)[i] = Body(s)[i]
      BY <1>1, <1>2, <1>5, <1>7
  <2>2. Checksum(Body(s)) # Checksum(Body(t))
      BY <1>5, <2>1, ChecksumApart
  <2>3. \A i \in 1 .. ChecksumLen : Trailer(t)[i] = Trailer(s)[i]
    <3>1. \A i \in 1 .. ChecksumLen : n + i \in 1 .. Len(s) /\ n + i # j
        BY <1>1, <1>7, FrameLengths
    <3> QED
        BY <1>2, <1>6, <3>1
  <2>4. Trailer(t) = Trailer(s)
      BY <1>6, <2>3, SeqEqual
  <2>5. Trailer(t) # Checksum(Body(t))
      BY <1>3, <2>2, <2>4
  <2> QED
      BY <2>5 DEF WellFormed, t
<1>8. CASE j > n
  <2>1. j - n \in 1 .. ChecksumLen /\ n + (j - n) = j
      BY <1>1, <1>2, <1>8, FrameLengths
  <2>2. Trailer(t)[j - n] = x /\ Trailer(s)[j - n] = s[j]
      BY <1>2, <1>6, <2>1
  <2>3. \A i \in 1 .. n : Body(t)[i] = Body(s)[i]
      BY <1>1, <1>2, <1>5, <1>8
  <2>4. Body(t) = Body(s)
      BY <1>5, <2>3, SeqEqual
  <2>5. Trailer(t) # Checksum(Body(t))
      BY <1>3, <2>2, <2>4
  <2> QED
      BY <2>5 DEF WellFormed, t
<1> QED
    BY <1>1, <1>2, <1>7, <1>8

-----------------------------------------------------------------------------
(* Messages and the frames that carry them.                                *)
Message ==
    [ msg_id : [1 .. UuidLen -> Bytes], sender : [1 .. UuidLen -> Bytes], kind : DOMAIN KindCodes,
      payload : { p \in Seq(Bytes) : Len(p) < Power(Base, LengthLen) } ]

(* A string joined of two, and the strings it is a front of.               *)
Joins(S, s, p, u) ==
    /\ s \in Seq(S) /\ p \in Seq(S) /\ u \in Seq(S) /\ u = s \o p /\ Len(u) = Len(s) + Len(p)
    /\ Len(s) \in Nat /\ Len(p) \in Nat /\ Len(u) \in Nat
    /\ \A i \in 1 .. Len(s) : u[i] = s[i]
    /\ \A i \in 1 .. Len(p) : u[Len(s) + i] = p[i]
Front(s, t) == Len(s) <= Len(t) /\ \A i \in 1 .. Len(s) : t[i] = s[i]

LEMMA JoinsFacts ==
    ASSUME NEW S, NEW s \in Seq(S), NEW p \in Seq(S)
    PROVE  Joins(S, s, p, s \o p)
BY ConcatFacts DEF Joins

(* What is joined to a front is found behind it.                           *)
Behind(s, p, u, t) ==
    /\ SubSeq(t, Len(s) + 1, Len(u)) = p
    /\ \A i \in 1 .. Len(p) : t[Len(s) + i] = p[i]

LEMMA FrontPlaced ==
    ASSUME NEW S, NEW s, NEW p, NEW u, NEW t \in Seq(S), Joins(S, s, p, u), Front(u, t)
    PROVE  Front(s, t) /\ Behind(s, p, u, t)
<1>1. /\ s \in Seq(S) /\ p \in Seq(S) /\ u \in Seq(S) /\ Len(u) = Len(s) + Len(p)
      /\ Len(s) \in Nat /\ Len(p) \in Nat /\ Len(u) \in Nat
      /\ \A i \in 1 .. Len(s) : u[i] = s[i]
      /\ \A i \in 1 .. Len(p) : u[Len(s) + i] = p[i]
    BY DEF Joins
<1>2. Len(t) \in Nat
    OBVIOUS
<1>3. Len(u) <= Len(t) /\ \A i \in 1 .. Len(u) : t[i] = u[i]
    BY DEF Front
<1>4. Front(s, t)
    BY <1>1, <1>2, <1>3 DEF Front
<1>5. \A i \in 1 .. Len(p) : t[Len(s) + i] = p[i]
  <2>1. \A i \in 1 .. Len(p) : Len(s) + i \in 1 .. Len(u)
      BY <1>1
  <2> QED
      BY <1>1, <1>3, <2>1
<1>6. PICK m \in Nat, n \in Nat : m = Len(s) /\ n = Len(u) /\ m <= n /\ n - m = Len(p)
      /\ n <= Len(t)
    BY <1>1, <1>2, <1>3
<1>7. /\ SubSeq(t, m + 1, n) \in Seq(S) /\ Len(SubSeq(t, m + 1, n)) = n - m
      /\ \A i \in 1 .. n - m : SubSeq(t, m + 1, n)[i] = t[m + i]
    BY <1>6, SubSeqFacts
<1>8. SubSeq(t, m + 1, n) = p
    BY <1>1, <1>5, <1>6, <1>7, SeqEqual
<1> QED
    BY <1>4, <1>5, <1>6, <1>8 DEF Behind

(* A front is the string's first part.                                     *)
LEMMA FrontIsPart ==
    ASSUME NEW S, NEW s \in Seq(S), NEW t \in Seq(S), Front(s, t)
    PROVE  SubSeq(t, 1, Len(s)) = s
<1>1. Len(s) \in Nat /\ Len(t) \in Nat /\ Len(s) <= Len(t) /\ \A i \in 1 .. Len(s) : t[i] = s[i]
    BY DEF Front
<1>2. PICK z \in Nat, n \in Nat : z = 0 /\ n = Len(s) /\ z <= n /\ n - z = n /\ n <= Len(t)
  <2>1. 0 <= Len(s) /\ Len(s) - 0 = Len(s)
      BY <1>1
  <2> QED
      BY <1>1, <2>1
<1>3. /\ SubSeq(t, z + 1, n) \in Seq(S) /\ Len(SubSeq(t, z + 1, n)) = n - z
      /\ \A i \in 1 .. n - z : SubSeq(t, z + 1, n)[i] = t[z + i]
    BY <1>2, SubSeqFacts
<1>4. z + 1 = 1 /\ \A i \in 1 .. n : z + i = i
    BY <1>2
<1>5. SubSeq(t, 1, n) \in Seq(S) /\ Len(SubSeq(t, 1, n)) = Len(s)
      /\ \A i \in 1 .. Len(s) : SubSeq(t, 1, n)[i] = s[i]
    BY <1>1, <1>2, <1>3, <1>4
<1>6. SubSeq(t, 1, n) = s
    BY <1>5, SeqEqual
<1> QED
    BY <1>2, <1>6

LEMMA Codes ==
    /\ \A kind \in DOMAIN KindCodes : KindCodes[kind] \in Bytes
    /\ \A kind, other \in DOMAIN KindCodes : KindCodes[kind] = KindCodes[other] => kind = other
<1>1. Base >= 8
  <2>1. PICK k \in Nat : ByteBits = k + 3
    <3>1. ByteBits - 3 \in Nat /\ ByteBits = (ByteBits - 3) + 3
        BY WidthAssumption
    <3> QED
        BY <3>1
  <2>2. Power(2, k) \in Nat \ {0}
      BY PowerPositive
  <2>3. k + 1 \in Nat /\ k + 2 \in Nat /\ k + 2 = (k + 1) + 1 /\ k + 3 = (k + 2) + 1
      OBVIOUS
  <2>4. Power(2, k + 1) = 2 * Power(2, k) /\ Power(2, k + 2) = 2 * Power(2, k + 1)
        /\ Power(2, k + 3) = 2 * Power(2, k + 2)
    <3>1. Power(2, k + 1) = 2 * Power(2, k)
        BY PowerStep
    <3>2. Power(2, (k + 1) + 1) = 2 * Power(2, k + 1)
        BY <2>3, PowerStep
    <3>3. Power(2, (k + 2) + 1) = 2 * Power(2, k + 2)
        BY <2>3, PowerStep
    <3> QED
        BY <2>3, <3>1, <3>2, <3>3
  <2>5. Base = Power(2, k + 3)
      BY <2>1 DEF Base
  <2> QED
      BY <2>2, <2>4, <2>5
<1>2. Base \in Nat
    BY Widths
<1> QED
    BY <1>1, <1>2 DEF KindCodes, Bytes

(* What an encoding is made of, and where its parts are.                   *)
LEMMA Parts ==
    ASSUME NEW m \in Message
    PROVE  /\ m.msg_id \in Seq(Bytes) /\ Len(m.msg_id) = UuidLen
           /\ m.sender \in Seq(Bytes) /\ Len(m.sender) = UuidLen
           /\ m.payload \in Seq(Bytes) /\ Len(m.payload) \in Nat
           /\ ToBytes(Len(m.payload), LengthLen) \in Seq(Bytes)
           /\ Len(ToBytes(Len(m.payload), LengthLen)) = LengthLen
           /\ FromBytes(ToBytes(Len(m.payload), LengthLen)) = Len(m.payload)
           /\ m.kind \in DOMAIN KindCodes /\ << KindCodes[m.kind] >> \in Seq(Bytes)
           /\ Len(<< KindCodes[m.kind] >>) = 1 /\ << KindCodes[m.kind] >>[1] = KindCodes[m.kind]
<1>1. /\ m.msg_id \in [1 .. UuidLen -> Bytes] /\ m.sender \in [1 .. UuidLen -> Bytes]
      /\ m.kind \in DOMAIN KindCodes
      /\ m.payload \in Seq(Bytes) /\ Len(m.payload) < Power(Base, LengthLen)
    BY DEF Message
<1>2. UuidLen \in Nat
    BY FrameLengths
<1>3. /\ m.msg_id \in Seq(Bytes) /\ Len(m.msg_id) = UuidLen
      /\ m.sender \in Seq(Bytes) /\ Len(m.sender) = UuidLen
    BY <1>1, <1>2
<1>4. PICK len : len = Len(m.payload)
    OBVIOUS
<1>5. len \in Nat /\ len < Power(Base, LengthLen)
    BY <1>1, <1>4
<1>6. /\ ToDigits(len, LengthLen, Base) \in Seq(0 .. Base - 1)
      /\ Len(ToDigits(len, LengthLen, Base)) = LengthLen
      /\ FromDigits(ToDigits(len, LengthLen, Base), Base) = len
  <2>1. Base \in Nat \ {0} /\ LengthLen \in Nat
      BY Widths, FrameLengths
  <2> QED
      BY <1>5, <2>1, ValueOfDigits
<1>7. /\ ToBytes(len, LengthLen) \in Seq(Bytes) /\ Len(ToBytes(len, LengthLen)) = LengthLen
      /\ FromBytes(ToBytes(len, LengthLen)) = len
    BY <1>6 DEF ToBytes, FromBytes, Bytes
<1>8. PICK code \in Bytes : code = KindCodes[m.kind]
    BY <1>1, Codes
<1>9. << code >> \in Seq(Bytes) /\ Len(<< code >>) = 1 /\ << code >>[1] = code
    OBVIOUS
<1> QED
    BY <1>1, <1>3, <1>4, <1>5, <1>7, <1>8, <1>9

(* The parts of a string that is joined of seven.                          *)
HasParts(S, t, a, b, c, d, e, f, g, k2, k3, k4, k5, k6, k7) ==
    /\ t \in Seq(S) /\ Len(t) = k7
    /\ SubSeq(t, 1, Len(a)) = a
    /\ \A i \in 1 .. Len(b) : t[Len(a) + i] = b[i]
    /\ SubSeq(t, k2 + 1, k3) = c
    /\ SubSeq(t, k3 + 1, k4) = d
    /\ SubSeq(t, k4 + 1, k5) = e
    /\ SubSeq(t, k5 + 1, k6) = f
    /\ SubSeq(t, 1, k6) = a \o b \o c \o d \o e \o f
    /\ SubSeq(t, k6 + 1, k7) = g

LEMMA Assembled ==
    ASSUME NEW S, NEW a \in Seq(S), NEW b \in Seq(S), NEW c \in Seq(S), NEW d \in Seq(S),
           NEW e \in Seq(S), NEW f \in Seq(S), NEW g \in Seq(S),
           NEW t, t = a \o b \o c \o d \o e \o f \o g,
           NEW k2, k2 = Len(a) + Len(b), NEW k3, k3 = k2 + Len(c), NEW k4, k4 = k3 + Len(d),
           NEW k5, k5 = k4 + Len(e), NEW k6, k6 = k5 + Len(f), NEW k7, k7 = k6 + Len(g)
    PROVE  HasParts(S, t, a, b, c, d, e, f, g, k2, k3, k4, k5, k6, k7)
<1>1. PICK s2 : s2 = a \o b /\ Joins(S, a, b, s2)
    BY JoinsFacts, Zenon
<1>2. s2 \in Seq(S) /\ Len(s2) = k2
    BY <1>1 DEF Joins
<1>3. PICK s3 : s3 = s2 \o c /\ Joins(S, s2, c, s3)
    BY <1>2, JoinsFacts, Zenon
<1>4. s3 \in Seq(S) /\ Len(s3) = k3
    BY <1>2, <1>3 DEF Joins
<1>5. PICK s4 : s4 = s3 \o d /\ Joins(S, s3, d, s4)
    BY <1>4, JoinsFacts, Zenon
<1>6. s4 \in Seq(S) /\ Len(s4) = k4
    BY <1>4, <1>5 DEF Joins
<1>7. PICK s5 : s5 = s4 \o e /\ Joins(S, s4, e, s5)
    BY <1>6, JoinsFacts, Zenon
<1>8. s5 \in Seq(S) /\ Len(s5) = k5
    BY <1>6, <1>7 DEF Joins
<1>9. PICK s6 : s6 = s5 \o f /\ Joins(S, s5, f, s6)
    BY <1>8, JoinsFacts, Zenon
<1>10. s6 \in Seq(S) /\ Len(s6) = k6
    BY <1>8, <1>9 DEF Joins
<1>11. t = s6 \o g
    BY <1>1, <1>3, <1>5, <1>7, <1>9
<1>12. Joins(S, s6, g, t)
    BY <1>10, <1>11, JoinsFacts, Zenon
<1>13. t \in Seq(S) /\ Len(t) = k7 /\ Front(t, t)
    BY <1>10, <1>12 DEF Joins, Front
<1>14. Front(s6, t) /\ Behind(s6, g, t, t)
    BY <1>12, <1>13, FrontPlaced, Zenon
<1>15. Front(s5, t) /\ Behind(s5, f, s6, t)
    BY <1>9, <1>13, <1>14, FrontPlaced, Zenon
<1>16. Front(s4, t) /\ Behind(s4, e, s5, t)
    BY <1>7, <1>13, <1>15, FrontPlaced, Zenon
<1>17. Front(s3, t) /\ Behind(s3, d, s4, t)
    BY <1>5, <1>13, <1>16, FrontPlaced, Zenon
<1>18. Front(s2, t) /\ Behind(s2, c, s3, t)
    BY <1>3, <1>13, <1>17, FrontPlaced, Zenon
<1>19. Front(a, t) /\ Behind(a, b, s2, t)
    BY <1>1, <1>13, <1>18, FrontPlaced, Zenon
<1>20. SubSeq(t, 1, Len(a)) = a
    BY <1>13, <1>19, FrontIsPart
<1>21. SubSeq(t, 1, k6) = s6
    BY <1>10, <1>13, <1>14, FrontIsPart
<1>22. s6 = a \o b \o c \o d \o e \o f
    BY <1>1, <1>3, <1>5, <1>7, <1>9
<1>23. /\ \A i \in 1 .. Len(b) : t[Len(a) + i] = b[i]
       /\ SubSeq(t, k2 + 1, k3) = c /\ SubSeq(t, k3 + 1, k4) = d /\ SubSeq(t, k4 + 1, k5) = e
       /\ SubSeq(t, k5 + 1, k6) = f /\ SubSeq(t, k6 + 1, k7) = g
    BY <1>2, <1>4, <1>6, <1>8, <1>10, <1>13, <1>14, <1>15, <1>16, <1>17, <1>18, <1>19 DEF Behind
<1> QED
    BY <1>13, <1>20, <1>21, <1>22, <1>23 DEF HasParts

(* Every message is what the decoding of its encoding gives, and the       *)
(* decoding gives nothing else: all that a frame carries arrives.          *)
THEOREM EncodedDecodes ==
    ASSUME NEW m \in Message
    PROVE  /\ EncodeWireMessage(m) \in Seq(Bytes) /\ WellFormed(EncodeWireMessage(m))
           /\ DecodeWireMessage(EncodeWireMessage(m)) = {m}
<1>1. PICK id, sender, payload, lb, code :
        /\ id = m.msg_id /\ sender = m.sender /\ payload = m.payload
        /\ lb = ToBytes(Len(m.payload), LengthLen) /\ code = << KindCodes[m.kind] >>
    OBVIOUS
<1>2. /\ id \in Seq(Bytes) /\ Len(id) = UuidLen
      /\ sender \in Seq(Bytes) /\ Len(sender) = UuidLen
      /\ payload \in Seq(Bytes) /\ Len(payload) \in Nat
      /\ lb \in Seq(Bytes) /\ Len(lb) = LengthLen /\ FromBytes(lb) = Len(payload)
      /\ m.kind \in DOMAIN KindCodes
      /\ code \in Seq(Bytes) /\ Len(code) = 1 /\ code[1] = KindCodes[m.kind]
    BY <1>1, Parts
<1>3. Magic \in Seq(Bytes) /\ Len(Magic) \in Nat
    BY FrameLengths
<1>4. PICK body : body = Magic \o code \o id \o sender \o lb \o payload
    OBVIOUS
<1>5. PICK t : t = body \o Checksum(body)
    OBVIOUS
<1>6. EncodeWireMessage(m) = t
    BY <1>1, <1>4, <1>5 DEF EncodeWireMessage
<1>7. body \in Seq(Bytes)
    BY <1>2, <1>3, <1>4
<1>8. PICK crc \in Seq(Bytes) : crc = Checksum(body) /\ Len(crc) = ChecksumLen
  <2>1. Checksum(body) \in [1 .. ChecksumLen -> Bytes] /\ ChecksumLen \in Nat
      BY <1>7, ChecksumBytes, FrameLengths
  <2> QED
      BY <2>1
<1>9. PICK k0 \in Nat, k1 \in Nat, k2 \in Nat, k3 \in Nat, k5 \in Nat, k6 \in Nat :
        /\ k0 = Len(Magic) /\ k1 = k0 + 1 /\ k2 = k1 + UuidLen /\ k3 = k2 + UuidLen
        /\ k5 = HeaderLen + Len(payload) /\ k6 = k5 + ChecksumLen
  <2>1. UuidLen \in Nat /\ HeaderLen \in Nat /\ ChecksumLen \in Nat
      BY FrameLengths
  <2>2. PICK l \in Nat : l = Len(payload)
      BY <1>2
  <2>3. /\ Len(Magic) \in Nat /\ Len(Magic) + 1 \in Nat /\ Len(Magic) + 1 + UuidLen \in Nat
        /\ Len(Magic) + 1 + UuidLen + UuidLen \in Nat
        /\ HeaderLen + l \in Nat /\ HeaderLen + l + ChecksumLen \in Nat
      BY <1>3, <2>1
  <2> QED
      BY <2>2, <2>3
<1>10. HeaderLen = k3 + LengthLen
    BY <1>9, FrameLengths
<1>11. /\ t \in Seq(Bytes) /\ Len(t) = k6
       /\ SubSeq(t, 1, Len(Magic)) = Magic
       /\ \A i \in 1 .. Len(code) : t[Len(Magic) + i] = code[i]
       /\ SubSeq(t, k1 + 1, k2) = id
       /\ SubSeq(t, k2 + 1, k3) = sender
       /\ SubSeq(t, k3 + 1, HeaderLen) = lb
       /\ SubSeq(t, HeaderLen + 1, k5) = payload
       /\ SubSeq(t, 1, k5) = body
       /\ SubSeq(t, k5 + 1, k6) = crc
  <2>1. t = Magic \o code \o id \o sender \o lb \o payload \o crc
      BY <1>4, <1>5, <1>8
  <2>2. /\ k1 = Len(Magic) + Len(code) /\ k2 = k1 + Len(id) /\ k3 = k2 + Len(sender)
        /\ HeaderLen = k3 + Len(lb) /\ k5 = HeaderLen + Len(payload) /\ k6 = k5 + Len(crc)
      BY <1>2, <1>8, <1>9, <1>10
  <2>3. PICK hl : hl = HeaderLen
      OBVIOUS
  <2>4. HasParts(Bytes, t, Magic, code, id, sender, lb, payload, crc, k1, k2, k3, hl, k5, k6)
    <3>1. Magic \in Seq(Bytes) /\ code \in Seq(Bytes) /\ id \in Seq(Bytes) /\ sender \in Seq(Bytes)
          /\ lb \in Seq(Bytes) /\ payload \in Seq(Bytes) /\ crc \in Seq(Bytes)
        BY <1>2, <1>3
    <3>2. /\ k1 = Len(Magic) + Len(code) /\ k2 = k1 + Len(id) /\ k3 = k2 + Len(sender)
          /\ hl = k3 + Len(lb) /\ k5 = hl + Len(payload) /\ k6 = k5 + Len(crc)
        BY <2>2, <2>3
    <3> QED
        BY <2>1, <3>1, <3>2, Assembled, Zenon
  <2> QED
      BY <1>4, <2>3, <2>4 DEF HasParts
<1>12. /\ Len(t) - ChecksumLen = k5 /\ Len(t) >= HeaderLen + ChecksumLen
       /\ HeaderLen + (Len(t) - HeaderLen - ChecksumLen) = k5
       /\ 0 + 1 = 1 /\ 0 + k0 = k0 /\ HeaderLen - LengthLen = k3 /\ k3 + LengthLen = HeaderLen
  <2>1. Len(t) = k5 + ChecksumLen /\ k5 = HeaderLen + Len(payload) /\ ChecksumLen \in Nat
        /\ LengthLen \in Nat
      BY <1>9, <1>11, FrameLengths
  <2> QED
      BY <1>9, <1>10, <2>1, FrameLengths
<1>13. Body(t) = body /\ Trailer(t) = crc
    BY <1>11, <1>12 DEF Body, Trailer
<1>14. MsgIdBytes(t) = id /\ SenderBytes(t) = sender
    BY <1>9, <1>11 DEF MsgIdBytes, SenderBytes, Slice
<1>15. LengthBytes(t) = lb
    BY <1>11, <1>12 DEF LengthBytes, Slice
<1>16. Slice(t, 0, Len(Magic)) = Magic
    BY <1>9, <1>11, <1>12 DEF Slice
<1>17. KindByte(t) = KindCodes[m.kind]
    BY <1>2, <1>11 DEF KindByte
<1>18. Payload(t) = payload
    BY <1>11, <1>12 DEF Payload, Slice
<1>19. WellFormed(t)
  <2>1. KindByte(t) \in { KindCodes[kind] : kind \in DOMAIN KindCodes }
      BY <1>2, <1>17
  <2>2. Len(Payload(t)) = FromBytes(LengthBytes(t))
      BY <1>2, <1>15, <1>18
  <2> QED
      BY <1>8, <1>12, <1>13, <1>16, <2>1, <2>2 DEF WellFormed
<1>20. (CHOOSE kind \in DOMAIN KindCodes : KindCodes[kind] = KindByte(t)) = m.kind
  <2>1. m.kind \in DOMAIN KindCodes /\ KindCodes[m.kind] = KindByte(t)
      BY <1>2, <1>17
  <2>2. \A kind \in DOMAIN KindCodes : KindCodes[kind] = KindByte(t) => kind = m.kind
      BY <2>1, Codes, Zenon
  <2> QED
      BY <2>1, <2>2, Zenon
<1>21. m = [ msg_id |-> id, sender |-> sender, kind |-> m.kind, payload |-> payload ]
    BY <1>1 DEF Message
<1>22. DecodeWireMessage(t) = {m}
    BY <1>14, <1>18, <1>19, <1>20, <1>21 DEF DecodeWireMessage
<1> QED
    BY <1>6, <1>11, <1>19, <1>22

(* What is decoded is a message, and its encoding is the string it was     *)
(* decoded from: two strings are never the same message.                   *)
THEOREM DecodedEncodes ==
    ASSUME NEW s \in Seq(Bytes), NEW m \in DecodeWireMessage(s)
    PROVE  m \in Message /\ EncodeWireMessage(m) = s
<1>1. WellFormed(s)
    BY DEF DecodeWireMessage
<1>2. /\ m.msg_id = MsgIdBytes(s) /\ m.sender = SenderBytes(s) /\ m.payload = Payload(s)
      /\ m.kind = (CHOOSE kind \in DOMAIN KindCodes : KindCodes[kind] = KindByte(s))
      /\ m = [ msg_id |-> m.msg_id, sender |-> m.sender, kind |-> m.kind, payload |-> m.payload ]
    BY <1>1 DEF DecodeWireMessage
<1>3. m.kind \in DOMAIN KindCodes /\ KindCodes[m.kind] = KindByte(s)
  <2>1. \E kind \in DOMAIN KindCodes : KindCodes[kind] = KindByte(s)
      BY <1>1 DEF WellFormed
  <2> QED
      BY <1>2, <2>1, Zenon
<1>4. PICK k0 \in Nat, k1 \in Nat, k2 \in Nat, k3 \in Nat, k4 \in Nat, k5 \in Nat, k6 \in Nat :
        /\ k0 = Len(Magic) /\ k1 = k0 + 1 /\ k2 = k1 + UuidLen /\ k3 = k2 + UuidLen /\ k4 = HeaderLen
        /\ k5 = Len(s) - ChecksumLen /\ k6 = Len(s) /\ k4 = k3 + LengthLen /\ k4 <= k5
        /\ k6 = k5 + ChecksumLen
  <2>1. Len(s) >= HeaderLen + ChecksumLen /\ Len(s) \in Nat
      BY <1>1 DEF WellFormed
  <2>2. /\ Len(Magic) + 1 \in Nat /\ Len(Magic) + 1 + UuidLen \in Nat
        /\ Len(Magic) + 1 + UuidLen + UuidLen \in Nat
        /\ Len(s) - ChecksumLen \in Nat /\ HeaderLen <= Len(s) - ChecksumLen
        /\ Len(s) = (Len(s) - ChecksumLen) + ChecksumLen
      BY <2>1, FrameLengths
  <2> QED
      BY <2>1, <2>2, FrameLengths
<1>5. /\ k1 - k0 = 1 /\ k2 - k1 = UuidLen /\ k3 - k2 = UuidLen /\ k4 - k3 = LengthLen
      /\ HeaderLen + (Len(s) - HeaderLen - ChecksumLen) = k5 /\ HeaderLen - LengthLen = k3
      /\ k3 + LengthLen = k4
    BY <1>4, FrameLengths
<1>6. /\ 0 <= k0 /\ k0 <= k1 /\ k1 <= k2 /\ k2 <= k3 /\ k3 <= k4 /\ k4 <= k5 /\ k5 <= k6 /\ k6 <= Len(s)
      /\ k1 <= Len(s) /\ k2 <= Len(s) /\ k3 <= Len(s) /\ k4 <= Len(s) /\ k5 <= Len(s)
    BY <1>4, FrameLengths
<1>7. /\ m.msg_id = SubSeq(s, k1 + 1, k2) /\ m.sender = SubSeq(s, k2 + 1, k3)
      /\ LengthBytes(s) = SubSeq(s, k3 + 1, k4) /\ m.payload = SubSeq(s, k4 + 1, k5)
      /\ Body(s) = SubSeq(s, 1, k5) /\ Trailer(s) = SubSeq(s, k5 + 1, k6)
      /\ KindByte(s) = s[k0 + 1]
  <2>1. m.msg_id = SubSeq(s, k1 + 1, k2) /\ m.sender = SubSeq(s, k2 + 1, k3)
      BY <1>2, <1>4 DEF MsgIdBytes, SenderBytes, Slice
  <2>2. LengthBytes(s) = SubSeq(s, k3 + 1, k4)
      BY <1>4, <1>5 DEF LengthBytes, Slice
  <2>3. m.payload = SubSeq(s, k4 + 1, k5)
      BY <1>2, <1>4, <1>5 DEF Payload, Slice
  <2> QED
      BY <1>4, <2>1, <2>2, <2>3 DEF Body, Trailer, KindByte
<1>8. Magic = SubSeq(s, 1, k0)
  <2>1. Slice(s, 0, Len(Magic)) = Magic /\ 0 + 1 = 1 /\ 0 + k0 = k0
      BY <1>1 DEF WellFormed
  <2> QED
      BY <1>4, <2>1 DEF Slice
<1>9. /\ SubSeq(s, k0 + 1, k1) \in Seq(Bytes) /\ Len(SubSeq(s, k0 + 1, k1)) = 1
      /\ SubSeq(s, k0 + 1, k1)[1] = s[k0 + 1]
  <2>1. /\ SubSeq(s, k0 + 1, k1) \in Seq(Bytes) /\ Len(SubSeq(s, k0 + 1, k1)) = k1 - k0
        /\ \A i \in 1 .. k1 - k0 : SubSeq(s, k0 + 1, k1)[i] = s[k0 + i]
    <3>1. k0 \in Nat /\ k1 \in Nat /\ k0 <= k1 /\ k1 <= Len(s) /\ s \in Seq(Bytes)
        BY <1>6
    <3> QED
        BY <3>1, SubSeqFacts
  <2>2. PICK d \in Nat : d = k1 - k0
      BY <1>5
  <2>3. d = 1 /\ 1 \in 1 .. d
      BY <1>5, <2>2
  <2>4. /\ Len(SubSeq(s, k0 + 1, k1)) = d
        /\ \A i \in 1 .. d : SubSeq(s, k0 + 1, k1)[i] = s[k0 + i]
      BY <2>1, <2>2, Zenon
  <2>5. SubSeq(s, k0 + 1, k1)[1] = s[k0 + 1]
      BY <2>3, <2>4, Zenon
  <2> QED
      BY <2>1, <2>3, <2>4, <2>5, Zenon
<1>10. << KindCodes[m.kind] >> = SubSeq(s, k0 + 1, k1)
  <2>1. PICK one \in Seq(Bytes) : one = SubSeq(s, k0 + 1, k1)
      BY <1>9
  <2>2. Len(one) = 1 /\ one[1] = KindCodes[m.kind]
      BY <1>3, <1>7, <1>9, <2>1
  <2>3. one = << one[1] >>
      BY <2>2
  <2> QED
      BY <2>1, <2>2, <2>3
<1>11. m.msg_id \in Seq(Bytes) /\ Len(m.msg_id) = UuidLen
  <2>1. SubSeq(s, k1 + 1, k2) \in Seq(Bytes) /\ Len(SubSeq(s, k1 + 1, k2)) = k2 - k1
      BY <1>6, SubSeqFacts
  <2> QED
      BY <1>5, <1>7, <2>1
<1>12. m.sender \in Seq(Bytes) /\ Len(m.sender) = UuidLen
  <2>1. SubSeq(s, k2 + 1, k3) \in Seq(Bytes) /\ Len(SubSeq(s, k2 + 1, k3)) = k3 - k2
      BY <1>6, SubSeqFacts
  <2> QED
      BY <1>5, <1>7, <2>1
<1>13. LengthBytes(s) \in Seq(Bytes) /\ Len(LengthBytes(s)) = LengthLen
  <2>1. SubSeq(s, k3 + 1, k4) \in Seq(Bytes) /\ Len(SubSeq(s, k3 + 1, k4)) = k4 - k3
      BY <1>6, SubSeqFacts
  <2> QED
      BY <1>5, <1>7, <2>1
<1>14. m.payload \in Seq(Bytes) /\ Len(m.payload) \in Nat
  <2>1. SubSeq(s, k4 + 1, k5) \in Seq(Bytes) /\ Len(SubSeq(s, k4 + 1, k5)) = k5 - k4
      BY <1>6, SubSeqFacts
  <2> QED
      BY <1>7, <2>1
<1>15. /\ Len(m.payload) = FromBytes(LengthBytes(s))
       /\ Len(m.payload) < Power(Base, LengthLen)
       /\ ToBytes(Len(m.payload), LengthLen) = LengthBytes(s)
  <2>1. PICK lb : lb = LengthBytes(s)
      OBVIOUS
  <2>2. Base \in Nat \ {0} /\ Bytes = 0 .. Base - 1
      BY Widths DEF Bytes
  <2>3. lb \in Seq(0 .. Base - 1) /\ Len(lb) = LengthLen
      BY <1>13, <2>1, <2>2
  <2>4. /\ FromDigits(lb, Base) \in 0 .. Power(Base, Len(lb)) - 1
        /\ ToDigits(FromDigits(lb, Base), Len(lb), Base) = lb
      BY <2>2, <2>3, DigitsOfValue
  <2>5. Len(m.payload) = FromDigits(lb, Base)
      BY <1>1, <1>2, <2>1 DEF WellFormed, FromBytes
  <2>6. Power(Base, LengthLen) \in Nat
      BY <2>2, FrameLengths, PowerPositive
  <2> QED
      BY <2>1, <2>3, <2>4, <2>5, <2>6 DEF ToBytes, FromBytes
<1>16. m \in Message
  <2>1. m.msg_id \in [1 .. UuidLen -> Bytes]
      BY <1>11
  <2>2. m.sender \in [1 .. UuidLen -> Bytes]
      BY <1>12
  <2> QED
      BY <1>2, <1>3, <1>14, <1>15, <2>1, <2>2 DEF Message
<1>17. /\ SubSeq(s, 1, k0) \o SubSeq(s, k0 + 1, k1) = SubSeq(s, 1, k1)
       /\ SubSeq(s, 1, k1) \o SubSeq(s, k1 + 1, k2) = SubSeq(s, 1, k2)
       /\ SubSeq(s, 1, k2) \o SubSeq(s, k2 + 1, k3) = SubSeq(s, 1, k3)
       /\ SubSeq(s, 1, k3) \o SubSeq(s, k3 + 1, k4) = SubSeq(s, 1, k4)
       /\ SubSeq(s, 1, k4) \o SubSeq(s, k4 + 1, k5) = SubSeq(s, 1, k5)
       /\ SubSeq(s, 1, k5) \o SubSeq(s, k5 + 1, k6) = SubSeq(s, 1, k6)
    BY <1>6, Joined
<1>18. SubSeq(s, 1, k6) = s
  <2>1. Front(s, s)
      BY <1>4 DEF Front
  <2> QED
      BY <1>4, <2>1, FrontIsPart
<1>19. Magic \o << KindCodes[m.kind] >> \o m.msg_id \o m.sender
             \o ToBytes(Len(m.payload), LengthLen) \o m.payload = Body(s)
    BY <1>7, <1>8, <1>10, <1>15, <1>17
<1>20. Body(s) \o Checksum(Body(s)) = s
  <2>1. Checksum(Body(s)) = Trailer(s)
      BY <1>1 DEF WellFormed
  <2> QED
      BY <1>7, <1>17, <1>18, <2>1
<1>21. EncodeWireMessage(m) = s
    BY <1>19, <1>20 DEF EncodeWireMessage
<1> QED
    BY <1>16, <1>21

(* Every corruption of the fault injector changes a byte.                  *)
LEMMA CorruptionChanges ==
    ASSUME NEW b \in Bytes
    PROVE  Base - 1 - b \in Bytes /\ Base - 1 - b # b
<1>1. PICK k \in Nat : ByteBits = k + 1
  <2>1. ByteBits - 1 \in Nat /\ ByteBits = (ByteBits - 1) + 1
      BY Widths
  <2> QED
      BY <2>1
<1>2. Base = 2 * Power(2, k) /\ Power(2, k) \in Nat
    BY <1>1, PowerStep DEF Base
<1> QED
    BY <1>2 DEF Bytes

(* A message of the bus is a message of the codec.                         *)
LEMMA WireMessages == Wires \subseteq Message
<1>1. Ids \subseteq [1 .. UuidLen -> Bytes]
    BY WireAssumption
<1>2. Payloads \subseteq { p \in Seq(Bytes) : Len(p) < Power(Base, LengthLen) }
    BY WireAssumption
<1> QED
    BY <1>1, <1>2 DEF Wires, Message

(* What the codec promises of the frames of the bus: a clean frame is what *)
(* was sent, and no corrupted one is decoded.                              *)
LEMMA WireHolds == CleanDecodes /\ OnlyCleanDecodes /\ CorruptedFails
<1>1. CleanDecodes
    BY WireMessages, EncodedDecodes DEF CleanDecodes
<1>2. OnlyCleanDecodes
    BY WireAssumption, DecodedEncodes DEF OnlyCleanDecodes
<1>3. CorruptedFails
  <2> SUFFICES ASSUME NEW m \in Wires, NEW s \in Corruptions(EncodeWireMessage(m))
               PROVE  DecodeWireMessage(s) = {}
      BY DEF CorruptedFails
  <2>1. PICK t \in Seq(Bytes) : t = EncodeWireMessage(m) /\ WellFormed(t)
      BY WireMessages, EncodedDecodes
  <2>2. PICK j \in DOMAIN t : s = [t EXCEPT ![j] = Base - 1 - t[j]]
      BY <2>1 DEF Corruptions
  <2>3. t[j] \in Bytes
      BY <2>1, <2>2
  <2>4. PICK x \in Bytes : x = Base - 1 - t[j] /\ x # t[j]
      BY <2>3, CorruptionChanges
  <2>5. ~ WellFormed(s)
      BY <2>1, <2>2, <2>4, OneByteIsNoticed
  <2> QED
      BY <2>5 DEF DecodeWireMessage
<1> QED
    BY <1>1, <1>2, <1>3

(* Whatever the widths of the format, its magic and its polynomial, a      *)
(* frame received clean is the message that was sent and a corrupted one   *)
(* is refused: the bus may speak of frames as clean or not.                *)
THEOREM WireStaysExact == Spec => []WireExact
<1>1. WireExact
    BY WireHolds DEF WireExact
<1> QED
    BY <1>1, PTL
=============================================================================
