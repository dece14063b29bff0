------------------------ MODULE NumbersAndSequences ------------------------
(***************************************************************************)
(* What several of the proofs need. Induction and recursion over numbers   *)
(* from the least element of a set of numbers, because the theorems of the *)
(* library take an operator, which the provers cannot instantiate; and     *)
(* what removing from a sequence and inserting into it leave.              *)
(***************************************************************************)
EXTENDS Integers, Sequences, SequencesExt, NaturalsInduction, WellFoundedInduction, SequenceTheorems,
        TLAPS

(* A set of numbers has a least one.                                       *)
LEMMA LeastElement ==
  ASSUME NEW T, T \subseteq Nat, T # {}
  PROVE  \E i \in T : \A j \in T : i <= j
<1> DEFINE R == OpToRel(<, Nat)
<1>1. R = {pair \in Nat \X Nat : pair[1] < pair[2]}
  BY Zenon DEF OpToRel
<1>2. IsWellFoundedOn(R, Nat)
  BY NatLessThanWellFounded, Zenon
<1> HIDE DEF R
<1>3. PICK i \in T : \A j \in T : ~ (<<j, i>> \in R)
  BY <1>2, WFMin
<1>4. \A j \in T : ~ (j < i)
  <2> SUFFICES ASSUME NEW j \in T, j < i
               PROVE  FALSE
    OBVIOUS
  <2>1. <<j, i>> \in Nat \X Nat /\ <<j, i>>[1] < <<j, i>>[2]
    OBVIOUS
  <2> QED
    BY <1>1, <1>3, <2>1, Zenon
<1> QED
  BY <1>4

(* A set that holds 0 and with a number the next one, up to N, holds all.   *)
LEMMA UpTo ==
  ASSUME NEW N \in Nat, NEW S, 0 \in S, \A i \in 1..N : i - 1 \in S => i \in S
  PROVE  0..N \subseteq S
<1> DEFINE T == (0..N) \ S
<1> SUFFICES ASSUME T # {}
             PROVE  FALSE
  OBVIOUS
<1>1. PICK i \in T : \A j \in T : i <= j
  <2>1. T \subseteq Nat
    OBVIOUS
  <2> QED
    BY <2>1, LeastElement
<1>2. i \in 1..N /\ i - 1 \notin T /\ i - 1 \in 0..N
  BY <1>1
<1> QED
  BY <1>1, <1>2

(* What a function computes that takes one step for each number.            *)
Computes(f, n, base, step) == f[0] = base /\ \A i \in 1..n : f[i] = step[i][f[i - 1]]

(* There is such a function, whatever the steps.                            *)
LEMMA PrimitiveRecursion ==
  ASSUME NEW V, NEW N \in Nat, NEW base \in V, NEW step \in [1..N -> [V -> V]]
  PROVE  \E f \in [0..N -> V] : Computes(f, N, base, step)
<1> DEFINE S == {n \in 0..N : \E f \in [0..n -> V] : Computes(f, n, base, step)}
<1>1. 0 \in S
  <2> DEFINE f == [i \in 0..0 |-> base]
  <2>1. f \in [0..0 -> V] /\ Computes(f, 0, base, step)
    BY DEF Computes
  <2> HIDE DEF f
  <2>2. \E h \in [0..0 -> V] : Computes(h, 0, base, step)
    BY <2>1
  <2> QED
    BY <2>2
<1>2. ASSUME NEW n \in 1..N, n - 1 \in S
      PROVE  n \in S
  <2>1. PICK f \in [0..(n - 1) -> V] : Computes(f, n - 1, base, step)
    BY <1>2
  <2> DEFINE g == [i \in 0..n |-> IF i = n THEN step[n][f[n - 1]] ELSE f[i]]
  <2>2. f[n - 1] \in V /\ step[n] \in [V -> V]
    OBVIOUS
  <2>3. g \in [0..n -> V]
    BY <2>2
  <2>4. Computes(g, n, base, step)
    BY <2>1 DEF Computes
  <2> HIDE DEF g
  <2> QED
    BY <2>3, <2>4
<1> HIDE DEF S
<1>3. N \in S
  <2>1. 0..N \subseteq S
    BY <1>1, <1>2, UpTo
  <2> QED
    BY <2>1
<1> QED
  BY <1>3 DEF S

-----------------------------------------------------------------------------
(* Sequences of which an element is taken out, or to which one is added.    *)

(* What comes after the removed element moves up by one.                    *)
LEMMA RemovedFrom ==
  ASSUME NEW T, NEW seq \in Seq(T), NEW i \in 1..Len(seq)
  PROVE  /\ RemoveAt(seq, i) \in Seq(T)
         /\ Len(RemoveAt(seq, i)) = Len(seq) - 1
         /\ \A k \in 1..(Len(seq) - 1) : RemoveAt(seq, i)[k] = seq[IF k < i THEN k ELSE k + 1]
<1> DEFINE before == SubSeq(seq, 1, i - 1)
           after == SubSeq(seq, i + 1, Len(seq))
<1>1. /\ before \in Seq(T) /\ Len(before) = i - 1
      /\ \A k \in 1..(i - 1) : before[k] = seq[k]
  OBVIOUS
<1>2. /\ after \in Seq(T) /\ Len(after) = Len(seq) - i
      /\ \A k \in 1..(Len(seq) - i) : after[k] = seq[i + k]
  OBVIOUS
<1>3. RemoveAt(seq, i) = before \o after
  BY DEF RemoveAt
<1> HIDE DEF before, after
<1>4. /\ before \o after \in Seq(T) /\ Len(before \o after) = Len(before) + Len(after)
      /\ \A k \in 1..(Len(before) + Len(after)) :
           (before \o after)[k] = IF k <= Len(before) THEN before[k] ELSE after[k - Len(before)]
  BY <1>1, <1>2, ConcatProperties
<1>5. ASSUME NEW k \in 1..(Len(seq) - 1)
      PROVE  RemoveAt(seq, i)[k] = seq[IF k < i THEN k ELSE k + 1]
  <2>1. RemoveAt(seq, i)[k] = IF k <= i - 1 THEN before[k] ELSE after[k - (i - 1)]
    <3>1. k \in 1..(Len(before) + Len(after))
      BY <1>1, <1>2
    <3> QED
      BY <1>1, <1>3, <1>4, <3>1
  <2>2. CASE k < i
    <3>1. k \in 1..(i - 1)
      BY <2>2
    <3> QED
      BY <1>1, <2>1, <2>2, <3>1
  <2>3. CASE ~ (k < i)
    <3>1. k - (i - 1) \in 1..(Len(seq) - i) /\ i + (k - (i - 1)) = k + 1
      BY <2>3
    <3> QED
      BY <1>2, <2>1, <2>3, <3>1
  <2> QED
    BY <2>2, <2>3
<1>6. RemoveAt(seq, i) \in Seq(T) /\ Len(RemoveAt(seq, i)) = Len(seq) - 1
  BY <1>1, <1>2, <1>3, <1>4
<1> QED
  BY <1>5, <1>6

(* What is inserted comes before what stood at its place.                   *)
LEMMA InsertedInto ==
  ASSUME NEW T, NEW seq \in Seq(T), NEW i \in 1..(Len(seq) + 1), NEW e \in T
  PROVE  /\ InsertAt(seq, i, e) \in Seq(T)
         /\ Len(InsertAt(seq, i, e)) = Len(seq) + 1
         /\ InsertAt(seq, i, e)[i] = e
         /\ \A k \in 1..Len(seq) : InsertAt(seq, i, e)[IF k < i THEN k ELSE k + 1] = seq[k]
<1> DEFINE before == SubSeq(seq, 1, i - 1)
           after == SubSeq(seq, i, Len(seq))
           start == before \o <<e>>
<1>1. /\ before \in Seq(T) /\ Len(before) = i - 1
      /\ \A k \in 1..(i - 1) : before[k] = seq[k]
  OBVIOUS
<1>2. /\ after \in Seq(T) /\ Len(after) = Len(seq) - i + 1
      /\ \A k \in 1..(Len(seq) - i + 1) : after[k] = seq[i + k - 1]
  OBVIOUS
<1>3. InsertAt(seq, i, e) = start \o after
  BY DEF InsertAt
<1> HIDE DEF before, after
<1>4. /\ start \in Seq(T) /\ Len(start) = i /\ start[i] = e
      /\ \A k \in 1..(i - 1) : start[k] = seq[k]
  BY <1>1
<1> HIDE DEF start
<1>5. /\ start \o after \in Seq(T) /\ Len(start \o after) = Len(start) + Len(after)
      /\ \A k \in 1..(Len(start) + Len(after)) :
           (start \o after)[k] = IF k <= Len(start) THEN start[k] ELSE after[k - Len(start)]
  BY <1>2, <1>4, ConcatProperties
<1>6. ASSUME NEW k \in 1..(Len(seq) + 1)
      PROVE  InsertAt(seq, i, e)[k] = IF k <= i THEN start[k] ELSE after[k - i]
  <2>1. k \in 1..(Len(start) + Len(after))
    BY <1>2, <1>4
  <2> QED
    BY <1>3, <1>4, <1>5, <2>1
<1>7. InsertAt(seq, i, e)[i] = e
  BY <1>4, <1>6
<1>8. ASSUME NEW k \in 1..Len(seq)
      PROVE  InsertAt(seq, i, e)[IF k < i THEN k ELSE k + 1] = seq[k]
  <2>1. CASE k < i
    <3>1. k \in 1..(i - 1) /\ k \in 1..(Len(seq) + 1)
      BY <2>1
    <3> QED
      BY <1>4, <1>6, <2>1, <3>1
  <2>2. CASE ~ (k < i)
    <3>1. /\ k + 1 - i \in 1..(Len(seq) - i + 1) /\ i + (k + 1 - i) - 1 = k
          /\ k + 1 \in 1..(Len(seq) + 1) /\ ~ (k + 1 <= i)
      BY <2>2
    <3>2. InsertAt(seq, i, e)[k + 1] = after[k + 1 - i]
      BY <1>6, <3>1
    <3>3. after[k + 1 - i] = seq[i + (k + 1 - i) - 1]
      BY <1>2, <3>1
    <3> QED
      BY <2>2, <3>1, <3>2, <3>3
  <2> QED
    BY <2>1, <2>2
<1>9. InsertAt(seq, i, e) \in Seq(T) /\ Len(InsertAt(seq, i, e)) = Len(seq) + 1
  BY <1>2, <1>3, <1>4, <1>5
<1> QED
  BY <1>7, <1>8, <1>9
=============================================================================
