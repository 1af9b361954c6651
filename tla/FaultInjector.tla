--------------------------- MODULE FaultInjector ---------------------------
(***************************************************************************)
(* What the fault-injecting engine of network/bus.py may do to one send    *)
(* and to one delivery batch.                                              *)
(*                                                                         *)
(* The code draws from random.Random(seed).  A roll is `random() < p`, so  *)
(* the outcomes a roll can have depend only on p: {FALSE} for p = 0 (and   *)
(* for a bus without an injector), {TRUE} for p = 1, BOOLEAN in between.   *)
(* The three constants *Roll are these sets; which outcome comes out is a  *)
(* nondeterministic choice, i.e. every seed at once.                       *)
(*                                                                         *)
(* corrupt() XORs one byte of the frame with 0xFF: an error burst of eight *)
(* bits, which CRC-32 always detects (wherever it falls, the trailer       *)
(* included; see Wire), so a corrupted frame is one whose decoding fails,  *)
(* and the byte chosen makes no further difference.                        *)
(***************************************************************************)
EXTENDS Naturals, Sequences

CONSTANTS
    DropRoll,       \* outcomes of roll_drop()
    CorruptRoll,    \* outcomes of roll_corrupt()
    DuplicateRoll,  \* outcomes of roll_duplicate()
    Reorder         \* FaultConfig.reorder

ASSUME RollAssumption ==
    /\ DropRoll \subseteq BOOLEAN /\ DropRoll # {}
    /\ CorruptRoll \subseteq BOOLEAN /\ CorruptRoll # {}
    /\ DuplicateRoll \subseteq BOOLEAN /\ DuplicateRoll # {}
    /\ Reorder \in BOOLEAN

(* A frame is the encoding of a message, with or without a flipped byte.   *)
Frames(M) == [msg : M, clean : BOOLEAN]

(* A bug: each copy is corrupted on its own.                               *)
Copies_Differ(m, corrupt, twice) ==
    IF twice THEN << [msg |-> m, clean |-> ~corrupt], [msg |-> m, clean |-> TRUE] >>
             ELSE << [msg |-> m, clean |-> ~corrupt] >>

(* What a send() that is not dropped enqueues: one frame, corrupted or     *)
(* not, or that very frame twice, for the duplicate is rolled after the    *)
(* corruption.                                                             *)
Copies(m, corrupt, twice) ==
    LET frame == [msg |-> m, clean |-> ~corrupt]
    IN  IF twice THEN << frame, frame >> ELSE << frame >>

(* The frame sequences one send() of m may append to the pending batch.    *)
Transmissions(m) ==
    { << >> : drop \in DropRoll \cap {TRUE} }
    \cup { Copies(m, roll[2], roll[3]) :
             roll \in (DropRoll \cap {FALSE}) \X CorruptRoll \X DuplicateRoll }

(* The orders reorder_batch() may put a batch in: one for each permutation *)
(* of its places when the mode is on.                                      *)
Orders(n) == { p \in [1 .. n -> 1 .. n] : \A i, j \in 1 .. n : p[i] = p[j] => i = j }
ReorderBatch(batch) ==
    IF ~Reorder \/ Len(batch) < 2
    THEN { batch }
    ELSE { [i \in DOMAIN batch |-> batch[p[i]]] :
             p \in Orders(Len(batch)) }
=============================================================================
