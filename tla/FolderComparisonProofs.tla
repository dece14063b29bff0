----------------------- MODULE FolderComparisonProofs -----------------------
(***************************************************************************)
(* Theorems about FolderComparison, for any number of names, whatever they  *)
(* fold to and whatever the files hold.                                    *)
(***************************************************************************)
EXTENDS FolderComparison, NumbersAndSequences, FiniteSetTheorems, TLAPS

-----------------------------------------------------------------------------
(* One pass.                                                               *)

OnLeft == Held(scanned.left)
OnRight == Held(scanned.right)
Unlike(pair) == TellApart(scanned.left[pair[1]], scanned.right[pair[2]])
Bytes(pair) == Size(scanned.left[pair[1]])
AllDifferences ==
  [left : 0..Names, right : 0..Names,
   status : {"Different", "ComparisonFailed", "OnlyInLeft", "OnlyInRight"}]

Maps == [left : SUBSET OnLeft, right : SUBSET OnRight, contentCandidates : Seq(Name \X Name),
         totalCandidateBytes : Nat, differences : SUBSET AllDifferences]

(* What was enumerated has a size.                                          *)
LEMMA EntriesHaveSizes ==
  ASSUME scanned \in [left : Side, right : Side]
  PROVE  /\ OnLeft \subseteq Name /\ OnRight \subseteq Name
         /\ \A n \in OnLeft : scanned.left[n] \in Entry /\ Size(scanned.left[n]) \in Nat
         /\ \A n \in OnRight : scanned.right[n] \in Entry /\ Size(scanned.right[n]) \in Nat
<1>1. scanned.left \in Side /\ scanned.right \in Side
  OBVIOUS
<1>2. \A e \in Entry : Size(e) \in Nat
  BY ContentsAssumption DEF Entry, Size
<1>3. \A n \in Name : scanned.left[n] \in Entry \cup {Absent} /\ scanned.right[n] \in Entry \cup {Absent}
  BY <1>1 DEF Side
<1> QED
  BY <1>2, <1>3 DEF OnLeft, OnRight, Held

(* A pair is taken out of the maps, and what it tells is added.              *)
LEMMA ClassifyingAPair ==
  ASSUME scanned \in [left : Side, right : Side], NEW s \in Maps,
         NEW n \in s.left, NEW m \in s.right
  PROVE  classifyPair(s, <<n, m>>) \in Maps
<1> DEFINE p == <<n, m>>
<1>1. /\ n \in OnLeft /\ m \in OnRight /\ p \in Name \X Name /\ Bytes(p) \in Nat
      /\ n \in 0..Names /\ m \in 0..Names
  BY EntriesHaveSizes, NamesAssumption DEF Maps, Bytes, Name
<1>2. /\ s.contentCandidates \in Seq(Name \X Name) /\ s.totalCandidateBytes \in Nat
      /\ s.differences \subseteq AllDifferences /\ s.left \subseteq OnLeft /\ s.right \subseteq OnRight
  BY DEF Maps
<1>3. Difference(p, "Different") \in AllDifferences
  BY <1>1 DEF Difference, AllDifferences
<1>4. Append(s.contentCandidates, p) \in Seq(Name \X Name)
  BY <1>1, <1>2
<1>5. /\ p[1] = n /\ p[2] = m
      /\ Bytes(p) = Size(scanned.left[n])
  BY DEF Bytes
<1> HIDE DEF p
<1>6. /\ (IF Undecided(p) THEN Append(s.contentCandidates, p) ELSE s.contentCandidates)
           \in Seq(Name \X Name)
      /\ s.totalCandidateBytes + (IF Undecided(p) THEN Bytes(p) ELSE 0) \in Nat
      /\ s.differences \cup (IF Unlike(p) THEN {Difference(p, "Different")} ELSE {})
           \in SUBSET AllDifferences
      /\ s.left \ {p[1]} \in SUBSET OnLeft /\ s.right \ {p[2]} \in SUBSET OnRight
  BY <1>1, <1>2, <1>3, <1>4
<1>7. classifyPair(s, p)
        = [left |-> s.left \ {p[1]}, right |-> s.right \ {p[2]},
           contentCandidates |->
             IF Undecided(p) THEN Append(s.contentCandidates, p) ELSE s.contentCandidates,
           totalCandidateBytes |-> s.totalCandidateBytes + (IF Undecided(p) THEN Bytes(p) ELSE 0),
           differences |->
             s.differences \cup (IF Unlike(p) THEN {Difference(p, "Different")} ELSE {})]
  BY DEF classifyPair, Unlike, Bytes
<1>8. classifyPair(s, p) \in Maps
  BY <1>6, <1>7 DEF Maps
<1> QED
  BY <1>8 DEF p

(* One name on the left is looked up.                                       *)
LookUp(s, n, counterpart) ==
  IF n \in s.left /\ counterpart[n] \in s.right THEN classifyPair(s, <<n, counterpart[n]>>) ELSE s

(* A pass starts from the maps it is given and looks up one name after       *)
(* another.                                                                 *)
LEMMA APassIsStepwise ==
  ASSUME scanned \in [left : Side, right : Side], NEW maps \in Maps, NEW counterpart
  PROVE  /\ passOver(maps, counterpart)[0] = maps
         /\ \A n \in 1..Names : passOver(maps, counterpart)[n]
              = LookUp(passOver(maps, counterpart)[n - 1], n, counterpart)
<1> DEFINE step == [n \in 1..Names |-> [s \in Maps |-> LookUp(s, n, counterpart)]]
           Body(f) == [n \in 0..Names |->
                         IF n = 0 THEN maps
                         ELSE IF n \in f[n - 1].left /\ counterpart[n] \in f[n - 1].right
                              THEN classifyPair(f[n - 1], <<n, counterpart[n]>>) ELSE f[n - 1]]
           pass == passOver(maps, counterpart)
<1>1. \A n \in 1..Names, s \in Maps : LookUp(s, n, counterpart) \in Maps
  BY ClassifyingAPair DEF LookUp
<1>2. step \in [1..Names -> [Maps -> Maps]]
  BY <1>1
<1>3. \A n \in 1..Names, s \in Maps : step[n][s] = LookUp(s, n, counterpart)
  OBVIOUS
<1> HIDE DEF step
<1>4. PICK f \in [0..Names -> Maps] : Computes(f, Names, maps, step)
  BY <1>2, NamesAssumption, PrimitiveRecursion
<1>5. \A n \in 0..Names : f[n] = Body(f)[n]
  <2> SUFFICES ASSUME NEW n \in 0..Names
               PROVE  f[n] = Body(f)[n]
    OBVIOUS
  <2>1. CASE n = 0
    BY <1>4, <2>1 DEF Computes
  <2>2. CASE n # 0
    <3>1. n \in 1..Names /\ n - 1 \in 0..Names
      BY <2>2, NamesAssumption
    <3>2. f[n] = step[n][f[n - 1]] /\ f[n - 1] \in Maps
      BY <1>4, <3>1 DEF Computes
    <3>3. f[n] = LookUp(f[n - 1], n, counterpart)
      BY <1>3, <3>1, <3>2
    <3> QED
      BY <2>2, <3>3 DEF LookUp
  <2> QED
    BY <2>1, <2>2
<1>6. f = Body(f)
  <2>1. f = [n \in 0..Names |-> f[n]]
    OBVIOUS
  <2> QED
    BY <1>5, <2>1
<1>7. pass = CHOOSE g : g = Body(g)
  BY DEF passOver
<1> HIDE DEF pass, Body
<1>8. pass = Body(pass)
  BY <1>6, <1>7
<1>9. \A n \in 0..Names : pass[n] = Body(pass)[n]
  BY <1>8
<1>10. pass[0] = maps
  <2>1. 0 \in 0..Names
    BY NamesAssumption
  <2>2. pass[0] = Body(pass)[0]
    BY <1>9, <2>1
  <2> QED
    BY <2>1, <2>2 DEF Body
<1>11. ASSUME NEW n \in 1..Names
       PROVE  pass[n] = LookUp(pass[n - 1], n, counterpart)
  <2>1. n \in 0..Names /\ n # 0
    BY NamesAssumption
  <2>2. pass[n] = Body(pass)[n]
    BY <1>9, <2>1
  <2> QED
    BY <2>1, <2>2 DEF Body, LookUp
<1> QED
  BY <1>10, <1>11 DEF pass

(* What the maps and the lists are when the pairs of a set were classified.  *)
HasClassified(s, pairs) ==
  /\ s \in Maps /\ pairs \subseteq OnLeft \X OnRight
  /\ s.left = OnLeft \ {p[1] : p \in pairs} /\ s.right = OnRight \ {p[2] : p \in pairs}
  /\ \A p \in pairs : Undecided(p) <=> \E i \in 1..Len(s.contentCandidates) : s.contentCandidates[i] = p
  /\ \A i \in 1..Len(s.contentCandidates) : s.contentCandidates[i] \in pairs
  /\ \A i, j \in 1..Len(s.contentCandidates) :
       s.contentCandidates[i] = s.contentCandidates[j] => i = j
  /\ \A p \in pairs : Undecided(p) => Bytes(p) <= s.totalCandidateBytes
  /\ s.differences = {Difference(p, "Different") : p \in {q \in pairs : Unlike(q)}}

LEMMA ClassifyingAnother ==
  ASSUME scanned \in [left : Side, right : Side], NEW pairs, NEW s, HasClassified(s, pairs),
         NEW n \in s.left, NEW m \in s.right
  PROVE  HasClassified(classifyPair(s, <<n, m>>), pairs \cup {<<n, m>>})
<1> DEFINE p == <<n, m>>
           r == classifyPair(s, p)
           all == pairs \cup {p}
           old == s.contentCandidates
<1>1. s \in Maps /\ r \in Maps
  BY ClassifyingAPair DEF HasClassified
<1>2. /\ p[1] = n /\ p[2] = m /\ p \in Name \X Name /\ Bytes(p) \in Nat
      /\ old \in Seq(Name \X Name) /\ Len(old) \in Nat /\ s.totalCandidateBytes \in Nat
      /\ n \in OnLeft /\ m \in OnRight
  BY <1>1, EntriesHaveSizes DEF Maps, Bytes
<1>3. p \notin pairs
  <2>1. n \notin {q[1] : q \in pairs}
    BY DEF HasClassified
  <2> QED
    BY <1>2, <2>1
<1>4. /\ r.left = s.left \ {n} /\ r.right = s.right \ {m}
      /\ r.contentCandidates = IF Undecided(p) THEN Append(old, p) ELSE old
      /\ r.totalCandidateBytes = s.totalCandidateBytes + (IF Undecided(p) THEN Bytes(p) ELSE 0)
      /\ r.differences = s.differences \cup (IF Unlike(p) THEN {Difference(p, "Different")} ELSE {})
  BY DEF classifyPair, Unlike, Bytes
<1> HIDE DEF r, p
<1>5. r.left = OnLeft \ {q[1] : q \in all} /\ r.right = OnRight \ {q[2] : q \in all}
  BY <1>2, <1>4 DEF HasClassified
<1>6. r.differences = {Difference(q, "Different") : q \in {q \in all : Unlike(q)}}
  <2>1. s.differences = {Difference(q, "Different") : q \in {q \in pairs : Unlike(q)}}
    BY DEF HasClassified
  <2> QED
    BY <1>4, <2>1
<1>7. \A q \in all : Undecided(q) => Bytes(q) <= r.totalCandidateBytes
  <2>1. \A q \in pairs : Undecided(q) => Bytes(q) <= s.totalCandidateBytes
    BY DEF HasClassified
  <2>2. \A q \in pairs : Bytes(q) \in Nat
    BY EntriesHaveSizes DEF HasClassified, Bytes
  <2> QED
    BY <1>2, <1>4, <2>1, <2>2
<1>8. /\ \A q \in all : Undecided(q) <=> \E i \in 1..Len(r.contentCandidates) : r.contentCandidates[i] = q
      /\ \A i \in 1..Len(r.contentCandidates) : r.contentCandidates[i] \in all
      /\ \A i, j \in 1..Len(r.contentCandidates) :
           r.contentCandidates[i] = r.contentCandidates[j] => i = j
  <2>1. /\ \A q \in pairs : Undecided(q) <=> \E i \in 1..Len(old) : old[i] = q
        /\ \A i \in 1..Len(old) : old[i] \in pairs
        /\ \A i, j \in 1..Len(old) : old[i] = old[j] => i = j
    BY DEF HasClassified
  <2>2. CASE ~ Undecided(p)
    BY <1>3, <1>4, <2>1, <2>2
  <2>3. CASE Undecided(p)
    <3>1. /\ r.contentCandidates = Append(old, p) /\ Len(r.contentCandidates) = Len(old) + 1
          /\ r.contentCandidates[Len(old) + 1] = p
          /\ \A i \in 1..Len(old) : r.contentCandidates[i] = old[i]
      BY <1>2, <1>4, <2>3
    <3>2. \A i \in 1..(Len(old) + 1) : i \in 1..Len(old) \/ i = Len(old) + 1
      BY <1>2
    <3>3. \A i \in 1..Len(old) : i \in 1..(Len(old) + 1)
      BY <1>2
    <3>4. Len(old) + 1 \in 1..(Len(old) + 1)
      BY <1>2
    <3> HIDE DEF old
    <3>5. ASSUME NEW q \in all
          PROVE  Undecided(q) <=> \E i \in 1..(Len(old) + 1) : r.contentCandidates[i] = q
      BY <2>1, <2>3, <3>1, <3>2, <3>3, <3>4
    <3>6. \A i \in 1..(Len(old) + 1) : r.contentCandidates[i] \in all
      BY <2>1, <3>1, <3>2
    <3>7. ASSUME NEW i \in 1..(Len(old) + 1), NEW j \in 1..(Len(old) + 1),
                 r.contentCandidates[i] = r.contentCandidates[j]
          PROVE  i = j
      BY <1>3, <2>1, <3>1, <3>2, <3>7
    <3> QED
      BY <3>1, <3>5, <3>6, <3>7
  <2> QED
    BY <2>2, <2>3
<1>9. all \subseteq OnLeft \X OnRight
  BY <1>2 DEF HasClassified, p
<1>10. HasClassified(r, all)
  BY <1>1, <1>5, <1>6, <1>7, <1>8, <1>9 DEF HasClassified
<1> QED
  BY <1>10 DEF r, p

(* What a pass classifies, if it finds each name's counterpart just when the *)
(* two are one of the pairs it should find.                                  *)
LEMMA APassClassifies ==
  ASSUME scanned \in [left : Side, right : Side], NEW before, NEW maps, HasClassified(maps, before),
         NEW counterpart, NEW found,
         \A p \in found : p = <<p[1], counterpart[p[1]]>> /\ p[1] \in Name,
         \A n \in Name :
           LET sofar == before \cup {p \in found : p[1] < n}
           IN <<n, counterpart[n]>> \in found
                <=> n \in OnLeft \ {p[1] : p \in sofar} /\ counterpart[n] \in OnRight \ {p[2] : p \in sofar}
  PROVE  HasClassified(passOver(maps, counterpart)[Names], before \cup found)
<1> DEFINE pass == passOver(maps, counterpart)
           Upto(n) == before \cup {p \in found : p[1] <= n}
           S == {n \in 0..Names : HasClassified(pass[n], Upto(n))}
<1>1. /\ pass[0] = maps /\ \A n \in 1..Names : pass[n] = LookUp(pass[n - 1], n, counterpart)
      /\ Names \in Nat
  BY APassIsStepwise, NamesAssumption DEF HasClassified
<1> HIDE DEF pass
<1>2. 0 \in S
  <2>1. Upto(0) = before
    BY <1>1 DEF Name
  <2> QED
    BY <1>1, <2>1
<1>3. ASSUME NEW n \in 1..Names, n - 1 \in S
      PROVE  n \in S
  <2> DEFINE s == pass[n - 1]
             p == <<n, counterpart[n]>>
             sofar == before \cup {q \in found : q[1] < n}
  <2>1. n \in Name /\ n \in 0..Names
    BY <1>1 DEF Name
  <2>2. Upto(n - 1) = sofar
    <3>1. \A q \in found : q[1] <= n - 1 <=> q[1] < n
      BY <1>1 DEF Name
    <3> QED
      BY <3>1
  <2>3. HasClassified(s, sofar) /\ s.left = OnLeft \ {q[1] : q \in sofar} /\ s.right = OnRight \ {q[2] : q \in sofar}
    BY <1>3, <2>2 DEF HasClassified
  <2>4. p \in found <=> n \in s.left /\ counterpart[n] \in s.right
    BY <2>1, <2>3
  <2>5. Upto(n) = sofar \cup (IF p \in found THEN {p} ELSE {})
    <3>1. \A q \in found : q[1] <= n <=> q[1] < n \/ q[1] = n
      BY <1>1, <2>1 DEF Name
    <3>2. \A q \in found : q[1] = n <=> q = p
      OBVIOUS
    <3> HIDE DEF p
    <3> QED
      BY <3>1, <3>2
  <2>6. pass[n] = LookUp(s, n, counterpart)
    BY <1>1
  <2> HIDE DEF s, sofar, Upto
  <2>7. CASE p \in found
    <3>1. pass[n] = classifyPair(s, p) /\ Upto(n) = sofar \cup {p}
      BY <2>4, <2>5, <2>6, <2>7 DEF LookUp
    <3>2. HasClassified(pass[n], Upto(n))
      BY <2>3, <2>4, <2>7, <3>1, ClassifyingAnother
    <3> QED
      BY <2>1, <3>2
  <2>8. CASE p \notin found
    <3>1. pass[n] = s /\ Upto(n) = sofar
      BY <2>4, <2>5, <2>6, <2>8 DEF LookUp
    <3> QED
      BY <2>1, <2>3, <3>1
  <2> QED
    BY <2>7, <2>8
<1>4. Names \in S
  <2> HIDE DEF S
  <2>1. 0..Names \subseteq S
    BY <1>1, <1>2, <1>3, UpTo
  <2> QED
    BY <1>1, <2>1
<1>5. Upto(Names) = before \cup found
  BY <1>1 DEF Name
<1> QED
  BY <1>4, <1>5 DEF pass
-----------------------------------------------------------------------------
(* Both passes.                                                            *)

(* The names that fold to what a name does, of those not on both sides.      *)
Alike(names, n) == {m \in names \ (OnLeft \cap OnRight) : pairingMode[m] = pairingMode[n]}

ExactOnes == {<<n, n>> : n \in OnLeft \cap OnRight}
FoldedOnes ==
  {p \in OnLeft \X OnRight :
     /\ Alike(OnRight, p[1]) = {p[2]} /\ p[1] \in Alike(OnLeft, p[2])
     /\ \A k \in Alike(OnLeft, p[2]) : p[1] <= k}

LEMMA TheLeast ==
  ASSUME NEW T, T \subseteq Nat, T # {}
  PROVE  Min(T) \in T /\ \A k \in T : Min(T) <= k
<1>1. \E x \in T : \A y \in T : x =< y
  BY LeastElement
<1> QED
  BY <1>1 DEF Min

LEMMA WhatShouldBePaired ==
  ASSUME scanned \in [left : Side, right : Side]
  PROVE  ShouldBePaired = ExactOnes \cup (IF pairingMode = Exact THEN {} ELSE FoldedOnes)
<1>1. OnLeft \subseteq Nat
  BY EntriesHaveSizes, NamesAssumption DEF Name
<1>2. ASSUME NEW p \in OnLeft \X OnRight
      PROVE  /\ Alike(OnLeft, p[2]) # {} /\ p[1] = Min(Alike(OnLeft, p[2]))
               <=> p[1] \in Alike(OnLeft, p[2]) /\ \A k \in Alike(OnLeft, p[2]) : p[1] <= k
  <2> DEFINE T == Alike(OnLeft, p[2])
  <2>1. T \subseteq Nat /\ p[1] \in Nat
    BY <1>1 DEF Alike
  <2>2. T # {} => Min(T) \in T /\ \A k \in T : Min(T) <= k
    BY <2>1, TheLeast
  <2>3. Min(T) \in T /\ p[1] \in T /\ Min(T) <= p[1] /\ p[1] <= Min(T) => p[1] = Min(T)
    BY <2>1
  <2> HIDE DEF T
  <2>4. T # {} /\ p[1] = Min(T) <=> p[1] \in T /\ \A k \in T : p[1] <= k
    BY <2>2, <2>3
  <2> QED
    BY <2>4 DEF T
<1>3. ShouldBePaired
        = {p \in OnLeft \X OnRight :
             \/ p[1] = p[2]
             \/ pairingMode # Exact /\ Alike(OnRight, p[1]) = {p[2]} /\ Alike(OnLeft, p[2]) # {}
                /\ p[1] = Min(Alike(OnLeft, p[2]))}
  BY DEF ShouldBePaired, Alike, OnLeft, OnRight
<1>4. ExactOnes = {p \in OnLeft \X OnRight : p[1] = p[2]}
  BY DEF ExactOnes
<1> QED
  BY <1>2, <1>3, <1>4 DEF FoldedOnes

(* No name is in two pairs.                                                 *)
LEMMA PairsAreDisjoint ==
  ASSUME scanned \in [left : Side, right : Side]
  PROVE  /\ \A p, q \in FoldedOnes : p[1] = q[1] \/ p[2] = q[2] => p = q
         /\ \A p \in FoldedOnes : p[1] \notin OnRight /\ p[2] \notin OnLeft
         /\ ShouldBePaired \subseteq OnLeft \X OnRight
         /\ \A p, q \in ShouldBePaired : p[1] = q[1] \/ p[2] = q[2] => p = q
<1>1. OnLeft \subseteq Nat
  BY EntriesHaveSizes, NamesAssumption DEF Name
<1>2. ASSUME NEW p \in FoldedOnes
      PROVE  p = <<p[1], p[2]>> /\ p[1] \in OnLeft \ OnRight /\ p[2] \in OnRight \ OnLeft
  <2>1. /\ p \in OnLeft \X OnRight
        /\ p[2] \in Alike(OnRight, p[1]) /\ p[1] \in Alike(OnLeft, p[2])
    BY DEF FoldedOnes
  <2> QED
    BY <2>1 DEF Alike
<1>3. ASSUME NEW p \in FoldedOnes, NEW q \in FoldedOnes, p[1] = q[1] \/ p[2] = q[2]
      PROVE  p = q
  <2>1. CASE p[1] = q[1]
    <3>1. {p[2]} = {q[2]}
      BY <2>1 DEF FoldedOnes
    <3> QED
      BY <1>2, <2>1, <3>1
  <2>2. CASE p[2] = q[2]
    <3>1. p[1] <= q[1] /\ q[1] <= p[1]
      BY <2>2 DEF FoldedOnes
    <3>2. p[1] \in Nat /\ q[1] \in Nat
      BY <1>1, <1>2
    <3> QED
      BY <1>2, <2>2, <3>1, <3>2
  <2> QED
    BY <1>3, <2>1, <2>2
<1>4. \A p \in ExactOnes : p = <<p[1], p[2]>> /\ p[1] = p[2] /\ p[1] \in OnLeft \cap OnRight
  BY DEF ExactOnes
<1>5. ShouldBePaired \subseteq ExactOnes \cup FoldedOnes
  BY WhatShouldBePaired
<1>6. \A p, q \in ExactOnes \cup FoldedOnes : p[1] = q[1] \/ p[2] = q[2] => p = q
  BY <1>2, <1>3, <1>4
<1>7. ExactOnes \cup FoldedOnes \subseteq OnLeft \X OnRight
  BY DEF ExactOnes, FoldedOnes
<1> QED
  BY <1>2, <1>3, <1>5, <1>6, <1>7

LEMMA TheExactPass ==
  ASSUME scanned \in [left : Side, right : Side]
  PROVE  HasClassified(exactPass, ExactOnes)
<1> DEFINE maps == [left |-> OnLeft, right |-> OnRight, contentCandidates |-> <<>>,
                    totalCandidateBytes |-> 0, differences |-> {}]
           counterpart == [n \in Name |-> n]
<1>1. HasClassified(maps, {})
  <2>1. maps \in Maps
    BY DEF Maps
  <2>2. /\ maps.left = OnLeft /\ maps.right = OnRight /\ Len(maps.contentCandidates) = 0
        /\ maps.differences = {}
    OBVIOUS
  <2> HIDE DEF maps
  <2> QED
    BY <2>1, <2>2 DEF HasClassified
<1>2. ASSUME NEW p \in ExactOnes
      PROVE  p = <<p[1], counterpart[p[1]]>> /\ p[1] \in Name
  <2>1. PICK n \in OnLeft \cap OnRight : p = <<n, n>>
    BY DEF ExactOnes
  <2>2. n \in Name /\ counterpart[n] = n /\ p[1] = n
    BY <2>1, EntriesHaveSizes
  <2> QED
    BY <2>1, <2>2
<1>3. ASSUME NEW n \in Name
      PROVE  LET sofar == {} \cup {p \in ExactOnes : p[1] < n}
             IN <<n, counterpart[n]>> \in ExactOnes
                  <=> n \in OnLeft \ {p[1] : p \in sofar} /\ counterpart[n] \in OnRight \ {p[2] : p \in sofar}
  <2> DEFINE sofar == {p \in ExactOnes : p[1] < n}
  <2>1. n \in Nat /\ counterpart[n] = n
    BY NamesAssumption DEF Name
  <2>2. \A p \in sofar : p[1] # n /\ p[2] # n
    BY <2>1 DEF ExactOnes
  <2>3. <<n, n>> \in ExactOnes <=> n \in OnLeft /\ n \in OnRight
    BY DEF ExactOnes
  <2> HIDE DEF sofar
  <2>4. <<n, n>> \in ExactOnes
          <=> n \in OnLeft \ {p[1] : p \in sofar} /\ n \in OnRight \ {p[2] : p \in sofar}
    BY <2>2, <2>3
  <2> QED
    BY <2>1, <2>4 DEF sofar
<1> HIDE DEF maps, counterpart
<1>4. HasClassified(passOver(maps, counterpart)[Names], {} \cup ExactOnes)
  BY <1>1, <1>2, <1>3, APassClassifies
<1>5. exactPass = passOver(maps, counterpart)[Names]
  BY DEF exactPass, maps, counterpart, OnLeft, OnRight
<1> QED
  BY <1>4, <1>5

LEMMA TheFoldedPass ==
  ASSUME scanned \in [left : Side, right : Side]
  PROVE  HasClassified(foldedPass, ExactOnes \cup FoldedOnes)
<1> DEFINE rest == OnRight \ (OnLeft \cap OnRight)
           counterpart == foldedRight(rest)
<1>1. exactPass.right = rest
  <2>1. exactPass.right = OnRight \ {p[2] : p \in ExactOnes}
    BY TheExactPass DEF HasClassified
  <2>2. {p[2] : p \in ExactOnes} = OnLeft \cap OnRight
    <3>1. \A n \in OnLeft \cap OnRight : <<n, n>> \in ExactOnes /\ <<n, n>>[2] = n
      BY DEF ExactOnes
    <3>2. \A p \in ExactOnes : p[2] \in OnLeft \cap OnRight
      BY DEF ExactOnes
    <3> QED
      BY <3>1, <3>2
  <2> QED
    BY <2>1, <2>2
<1>2. /\ OnLeft \subseteq Name /\ OnRight \subseteq Name /\ NoName \notin Name /\ Name \subseteq Nat
  BY EntriesHaveSizes, NamesAssumption DEF Name, NoName
<1>3. ASSUME NEW n \in Name
      PROVE  /\ \A m : Alike(OnRight, n) = {m} => counterpart[n] = m
             /\ counterpart[n] \in OnRight => Alike(OnRight, n) = {counterpart[n]}
  <2> DEFINE alike == {m \in rest : pairingMode[m] = pairingMode[n]}
  <2>1. alike = Alike(OnRight, n)
    BY DEF Alike
  <2>2. counterpart[n] = IF \E m \in alike : alike = {m} THEN CHOOSE m \in alike : TRUE ELSE NoName
    BY DEF foldedRight
  <2> HIDE DEF alike
  <2>3. ASSUME NEW m, alike = {m}
        PROVE  counterpart[n] = m
    <3>1. counterpart[n] = CHOOSE k \in alike : TRUE
      BY <2>2, <2>3
    <3>2. (CHOOSE k \in alike : TRUE) \in alike
      BY <2>3
    <3> QED
      BY <2>3, <3>1, <3>2
  <2>4. ~ (\E m \in alike : alike = {m}) => counterpart[n] = NoName
    BY <2>2
  <2> QED
    BY <1>2, <2>1, <2>3, <2>4
<1> HIDE DEF counterpart
<1>4. ASSUME NEW p \in FoldedOnes
      PROVE  /\ p = <<p[1], counterpart[p[1]]>> /\ p[1] \in Name
             /\ p[1] \in OnLeft \ OnRight /\ p[2] \in OnRight \ OnLeft
  <2>1. p \in OnLeft \X OnRight /\ Alike(OnRight, p[1]) = {p[2]} /\ p[1] \notin OnRight /\ p[2] \notin OnLeft
    BY PairsAreDisjoint DEF FoldedOnes
  <2>2. p = <<p[1], p[2]>> /\ p[1] \in OnLeft /\ p[2] \in OnRight /\ p[1] \in Name
    <3>1. PICK n \in OnLeft, m \in OnRight : p = <<n, m>>
      BY <2>1
    <3> QED
      BY <1>2, <3>1
  <2>3. counterpart[p[1]] = p[2]
    BY <1>3, <2>1, <2>2
  <2> QED
    BY <2>1, <2>2, <2>3
<1>5. ASSUME NEW n \in Name
      PROVE  LET sofar == ExactOnes \cup {p \in FoldedOnes : p[1] < n}
             IN <<n, counterpart[n]>> \in FoldedOnes
                  <=> n \in OnLeft \ {p[1] : p \in sofar} /\ counterpart[n] \in OnRight \ {p[2] : p \in sofar}
  <2> DEFINE sofar == ExactOnes \cup {p \in FoldedOnes : p[1] < n}
             m == counterpart[n]
  <2>1. n \in Nat /\ n <= n /\ ~ (n < n)
    BY <1>2
  <2>2. ASSUME <<n, m>> \in FoldedOnes
        PROVE  n \in OnLeft \ {p[1] : p \in sofar} /\ m \in OnRight \ {p[2] : p \in sofar}
    <3>1. n \in OnLeft \ OnRight /\ m \in OnRight \ OnLeft
      BY <1>4, <2>2
    <3>2. \A p \in ExactOnes : p[1] \in OnRight /\ p[2] \in OnLeft
      BY DEF ExactOnes
    <3>3. \A p \in FoldedOnes : p[1] = n \/ p[2] = m => p = <<n, m>>
      BY <2>2, PairsAreDisjoint
    <3> HIDE DEF m
    <3>4. \A p \in sofar : p[1] # n /\ p[2] # m
      BY <2>1, <3>1, <3>2, <3>3
    <3> QED
      BY <3>1, <3>4
  <2>3. ASSUME n \in OnLeft \ {p[1] : p \in sofar}, m \in OnRight \ {p[2] : p \in sofar}
        PROVE  <<n, m>> \in FoldedOnes
    <3>1. Alike(OnRight, n) = {m} /\ n \in OnLeft /\ m \in OnRight
      BY <1>3, <2>3
    <3>2. n \notin OnRight
      <4>1. n \in OnRight => <<n, n>> \in sofar /\ <<n, n>>[1] = n
        BY <3>1 DEF ExactOnes
      <4> QED
        BY <2>3, <4>1
    <3> HIDE DEF m
    <3>3. pairingMode[m] = pairingMode[n] /\ m \notin OnLeft
      BY <3>1 DEF Alike
    <3>4. n \in Alike(OnLeft, m)
      BY <3>1, <3>2, <3>3 DEF Alike
    <3>5. PICK k \in Alike(OnLeft, m) : \A j \in Alike(OnLeft, m) : k <= j
      <4>1. Alike(OnLeft, m) \subseteq Nat
        BY <1>2 DEF Alike
      <4> QED
        BY <3>4, <4>1, LeastElement
    <3>6. k \in OnLeft /\ k \in Nat /\ k <= n /\ Alike(OnRight, k) = {m}
      BY <1>2, <3>1, <3>3, <3>4, <3>5 DEF Alike
    <3>7. <<k, m>> \in FoldedOnes
      BY <3>1, <3>5, <3>6 DEF FoldedOnes
    <3>8. ~ (k < n)
      <4>1. k < n => <<k, m>> \in sofar /\ <<k, m>>[2] = m
        BY <3>7
      <4> HIDE DEF sofar
      <4> QED
        BY <2>3, <4>1 DEF m
    <3>9. k = n
      BY <2>1, <3>6, <3>8
    <3> QED
      BY <3>7, <3>9
  <2> HIDE DEF sofar, m
  <2>4. <<n, m>> \in FoldedOnes
          <=> n \in OnLeft \ {p[1] : p \in sofar} /\ m \in OnRight \ {p[2] : p \in sofar}
    BY <2>2, <2>3
  <2> QED
    BY <2>4 DEF sofar, m
<1>6. HasClassified(passOver(exactPass, counterpart)[Names], ExactOnes \cup FoldedOnes)
  BY <1>4, <1>5, TheExactPass, APassClassifies
<1>7. foldedPass = passOver(exactPass, counterpart)[Names]
  BY <1>1 DEF foldedPass, counterpart
<1> QED
  BY <1>6, <1>7

(* The two passes pair what should be paired, and classify it.               *)
LEMMA PairingIsRight ==
  ASSUME scanned \in [left : Side, right : Side]
  PROVE  HasClassified(paired, ShouldBePaired)
<1>1. CASE pairingMode = Exact
  BY <1>1, TheExactPass, WhatShouldBePaired DEF paired
<1>2. CASE pairingMode # Exact
  BY <1>2, TheFoldedPass, WhatShouldBePaired DEF paired
<1> QED
  BY <1>1, <1>2
-----------------------------------------------------------------------------
(* The comparison. Until it is given up, what is left to read and what was   *)
(* listed and counted account for every pair.                               *)

TheUndecided == {p \in ShouldBePaired : Undecided(p)}
StillToRead == {contentCandidates[i] : i \in 1..Len(contentCandidates)}
Listed == {<<d.left, d.right>> : d \in differences}
Differing == {p \in ShouldBePaired : scanned.left[p[1]] # scanned.right[p[2]]}
OnlyOnOneSide ==
  {Difference(<<n, NoName>>, "OnlyInLeft") : n \in OnLeft \ {p[1] : p \in ShouldBePaired}}
  \cup {Difference(<<NoName, n>>, "OnlyInRight") : n \in OnRight \ {p[2] : p \in ShouldBePaired}}

WhileScanning ==
  /\ phase \in {"ScanLeft", "ScanRight", "Pair"} => touched = {} /\ identicalFiles = 0
  /\ ~abort /\ phase \in {"ScanRight", "Pair"} => scanned.left = disk.left
  /\ ~abort /\ phase = "Pair" => scanned.right = disk.right

Accounted ==
  /\ ScanIsComplete
  /\ touched \subseteq TheUndecided
  /\ StillToRead \subseteq TheUndecided
  /\ \A i, j \in 1..Len(contentCandidates) : contentCandidates[i] = contentCandidates[j] => i = j
  /\ \A p \in TheUndecided : Bytes(p) <= totalCandidateBytes
  /\ Listed \cap StillToRead = {}
  /\ {d \in differences : <<d.left, d.right>> \notin touched}
       = {Difference(p, "Different") : p \in (Differing \ touched) \ StillToRead} \cup OnlyOnOneSide
  /\ identicalFiles = Cardinality((TheUndecided \ StillToRead) \ Listed)

Stages ==
  /\ aborted => phase = "Done"
  /\ phase = "Read" => contentCandidates # <<>>
  /\ phase = "Done" /\ ~aborted => contentCandidates = <<>>
  /\ dialog = "Shown" => phase = "Done" /\ ~aborted
  /\ phase = "Trapped" => touched # {}

ComparisonInv ==
  /\ ComparisonTypeOK /\ WhileScanning /\ Stages
  /\ phase \in {"Compare", "Read"} \/ (phase = "Done" /\ ~aborted) => Accounted
-----------------------------------------------------------------------------
(* What is known of the pairs.                                             *)

LEMMA WhatPairsAre ==
  ASSUME scanned \in [left : Side, right : Side]
  PROVE  /\ \A p \in ShouldBePaired :
              /\ p = <<p[1], p[2]>> /\ p \in Name \X Name
              /\ scanned.left[p[1]] \in Entry /\ scanned.right[p[2]] \in Entry
              /\ p[1] # NoName /\ p[2] # NoName
         /\ IsFiniteSet(ShouldBePaired)
<1>1. /\ OnLeft \subseteq Name /\ OnRight \subseteq Name /\ NoName \notin Name
      /\ \A n \in OnLeft : scanned.left[n] \in Entry
      /\ \A n \in OnRight : scanned.right[n] \in Entry
  BY EntriesHaveSizes, NamesAssumption DEF Name, NoName
<1>2. ShouldBePaired \subseteq OnLeft \X OnRight
  BY PairsAreDisjoint
<1>3. ASSUME NEW p \in ShouldBePaired
      PROVE  /\ p = <<p[1], p[2]>> /\ p \in Name \X Name
             /\ scanned.left[p[1]] \in Entry /\ scanned.right[p[2]] \in Entry
             /\ p[1] # NoName /\ p[2] # NoName
  <2>1. PICK n \in OnLeft, m \in OnRight : p = <<n, m>>
    BY <1>2
  <2> QED
    BY <1>1, <2>1
<1>4. IsFiniteSet(Name \X Name)
  <2>1. IsFiniteSet(Name)
    BY NamesAssumption, FS_Interval DEF Name
  <2> QED
    BY <2>1, FS_Product
<1>5. IsFiniteSet(ShouldBePaired)
  BY <1>3, <1>4, FS_Subset
<1> QED
  BY <1>3, <1>5

(* What is told apart without reading is different, and what is different and *)
(* not told apart are two files of the same size.                            *)
LEMMA WhatIsToldOfPairs ==
  ASSUME scanned \in [left : Side, right : Side], NEW p \in ShouldBePaired
  PROVE  /\ Unlike(p) <=> p \in Differing /\ ~ Undecided(p)
         /\ Undecided(p) => /\ scanned.left[p[1]] \in Contents /\ scanned.right[p[2]] \in Contents
                            /\ SizeOf[scanned.left[p[1]]] = SizeOf[scanned.right[p[2]]]
                            /\ Bytes(p) = SizeOf[scanned.left[p[1]]]
         /\ scanned.left[p[1]] = scanned.right[p[2]] /\ scanned.left[p[1]] # Directory => Undecided(p)
<1> DEFINE l == scanned.left[p[1]]
           r == scanned.right[p[2]]
<1>1. l \in Entry /\ r \in Entry
  BY WhatPairsAre
<1>2. p \in Differing <=> l # r
  BY DEF Differing
<1>3. Undecided(p) <=> ~ (l = Directory /\ r = Directory) /\ ~ TellApart(l, r)
  BY DEF Undecided, BothDirectories
<1>4. Unlike(p) <=> TellApart(l, r)
  BY DEF Unlike
<1>5. Bytes(p) = Size(l)
  BY DEF Bytes
<1>6. Directory \notin Contents
  BY ContentsAssumption
<1> HIDE DEF l, r
<1>7. TellApart(l, r) => l # r
  BY DEF TellApart
<1>8. /\ ~ (l = Directory /\ r = Directory) /\ ~ TellApart(l, r)
           => l \in Contents /\ r \in Contents /\ SizeOf[l] = SizeOf[r] /\ Size(l) = SizeOf[l]
  BY <1>1, <1>6 DEF TellApart, Entry, Size
<1>9. /\ Unlike(p) <=> p \in Differing /\ ~ Undecided(p)
      /\ Undecided(p) => /\ l \in Contents /\ r \in Contents /\ SizeOf[l] = SizeOf[r]
                         /\ Bytes(p) = SizeOf[l]
      /\ l = r /\ l # Directory => Undecided(p)
  BY <1>2, <1>3, <1>4, <1>5, <1>7, <1>8
<1> QED
  BY <1>9 DEF l, r

(* All of this is about what was enumerated, and stays when that does.       *)
LEMMA TheSameView ==
  ASSUME UNCHANGED <<scanned, pairingMode>>
  PROVE  /\ ShouldBePaired' = ShouldBePaired /\ TheUndecided' = TheUndecided
         /\ Differing' = Differing /\ OnlyOnOneSide' = OnlyOnOneSide
         /\ \A p : Bytes(p)' = Bytes(p)
<1>1. ShouldBePaired' = ShouldBePaired
  BY DEF ShouldBePaired
<1>2. OnLeft' = OnLeft /\ OnRight' = OnRight
  BY DEF OnLeft, OnRight
<1>3. \A p : Undecided(p)' = Undecided(p) /\ Bytes(p)' = Bytes(p)
  BY DEF Undecided, Bytes
<1>4. Differing' = Differing
  BY <1>1 DEF Differing
<1>5. TheUndecided' = TheUndecided
  BY <1>1, <1>3, Zenon DEF TheUndecided
<1>6. OnlyOnOneSide' = OnlyOnOneSide
  BY <1>1, <1>2 DEF OnlyOnOneSide
<1> QED
  BY <1>1, <1>3, <1>4, <1>5, <1>6

LEMMA StillAccounted ==
  ASSUME Accounted, UNCHANGED <<disk, touched, pairingMode, scanned, contentCandidates,
                                totalCandidateBytes, differences, identicalFiles>>
  PROVE  Accounted'
<1>1. /\ TheUndecided' = TheUndecided /\ Differing' = Differing /\ OnlyOnOneSide' = OnlyOnOneSide
      /\ \A p : Bytes(p)' = Bytes(p)
  BY TheSameView
<1>2. ScanIsComplete' = ScanIsComplete /\ StillToRead' = StillToRead /\ Listed' = Listed
  BY DEF ScanIsComplete, StillToRead, Listed
<1> QED
  BY <1>1, <1>2 DEF Accounted
-----------------------------------------------------------------------------
(* The steps.                                                              *)

LEMMA AScanFinds ==
  ASSUME disk \in [left : Side, right : Side], scanned \in [left : Side, right : Side],
         NEW side \in {"left", "right"}, Scan(side)
  PROVE  /\ scanned' \in [left : Side, right : Side]
         /\ ~abort => scanned'[side] = disk[side]
         /\ \A other \in {"left", "right"} \ {side} : scanned'[other] = scanned[other]
<1>1. Nothing \in Side
  BY DEF Nothing, Side
<1>2. PICK found \in {disk[side]} \cup (IF abort THEN {Nothing} ELSE {}) :
        scanned' = [scanned EXCEPT ![side] = found]
  BY DEF Scan
<1>3. found \in Side /\ (~abort => found = disk[side])
  BY <1>1, <1>2
<1> QED
  BY <1>2, <1>3

LEMMA ComparisonStarts == Init => ComparisonInv
<1> SUFFICES ASSUME Init
             PROVE  ComparisonInv
  OBVIOUS
<1>1. Nothing \in Side
  BY DEF Nothing, Side
<1>2. ComparisonTypeOK
  <2>1. scanned \in [left : Side, right : Side] /\ contentCandidates \in Seq(Name \X Name)
    BY <1>1 DEF Init
  <2> QED
    BY <2>1 DEF Init, ComparisonTypeOK
<1> QED
  BY <1>2 DEF Init, ComparisonInv, WhileScanning, Stages

LEMMA ScanStep ==
  ASSUME ComparisonInv, scanLeft \/ scanRight
  PROVE  ComparisonInv'
<1>1. /\ ComparisonTypeOK /\ WhileScanning /\ Stages
      /\ disk \in [left : Side, right : Side] /\ scanned \in [left : Side, right : Side]
  BY DEF ComparisonInv, ComparisonTypeOK
<1>2. /\ UNCHANGED <<disk, touched, pairingMode, abort, dialog, contentCandidates, totalCandidateBytes,
                     differences, identicalFiles, aborted>>
      /\ \/ phase = "ScanLeft" /\ phase' = "ScanRight" /\ Scan("left")
         \/ phase = "ScanRight" /\ phase' = "Pair" /\ Scan("right")
  BY DEF scanLeft, scanRight, Worker, result
<1>3. /\ scanned' \in [left : Side, right : Side]
      /\ phase = "ScanLeft" /\ ~abort => scanned'.left = disk.left
      /\ phase = "ScanRight" => scanned'.left = scanned.left /\ (~abort => scanned'.right = disk.right)
  <2>1. CASE Scan("left") /\ phase = "ScanLeft"
    BY <1>1, <2>1, AScanFinds
  <2>2. CASE Scan("right") /\ phase = "ScanRight"
    <3>1. /\ scanned' \in [left : Side, right : Side]
          /\ ~abort => scanned'["right"] = disk["right"]
          /\ \A other \in {"left", "right"} \ {"right"} : scanned'[other] = scanned[other]
      BY <1>1, <2>2, AScanFinds
    <3> QED
      BY <2>2, <3>1
  <2> QED
    BY <1>2, <2>1, <2>2
<1>4. ComparisonTypeOK'
  BY <1>1, <1>2, <1>3 DEF ComparisonTypeOK
<1>5. WhileScanning'
  BY <1>1, <1>2, <1>3 DEF WhileScanning
<1>6. Stages'
  BY <1>1, <1>2 DEF Stages
<1> QED
  BY <1>2, <1>4, <1>5, <1>6 DEF ComparisonInv

(* What was classified accounts for every pair.                             *)
LEMMA WhatPairingAccountsFor ==
  ASSUME ComparisonInv, phase = "Pair", ~abort, classifyPairs,
         UNCHANGED <<disk, touched, pairingMode, scanned, identicalFiles>>
  PROVE  Accounted' /\ (contentCandidates' \in Seq(Name \X Name))
         /\ totalCandidateBytes' \in Nat /\ differences' \subseteq AllDifferences
<1>1. /\ scanned \in [left : Side, right : Side] /\ touched = {} /\ identicalFiles = 0
      /\ scanned.left = disk.left /\ scanned.right = disk.right
  BY DEF ComparisonInv, ComparisonTypeOK, WhileScanning
<1>2. HasClassified(paired, ShouldBePaired)
  BY <1>1, PairingIsRight
<1>3. /\ paired \in Maps
      /\ paired.left = OnLeft \ {p[1] : p \in ShouldBePaired}
      /\ paired.right = OnRight \ {p[2] : p \in ShouldBePaired}
      /\ paired.differences = {Difference(p, "Different") : p \in {q \in ShouldBePaired : Unlike(q)}}
  BY <1>2 DEF HasClassified
<1>4. /\ contentCandidates' = paired.contentCandidates
      /\ totalCandidateBytes' = paired.totalCandidateBytes
      /\ differences' = paired.differences \cup OnlyOnOneSide
  BY <1>3 DEF classifyPairs, OnlyOnOneSide
<1>5. /\ TheUndecided' = TheUndecided /\ Differing' = Differing /\ OnlyOnOneSide' = OnlyOnOneSide
      /\ \A p : Bytes(p)' = Bytes(p)
  BY TheSameView
<1>6. StillToRead' = TheUndecided
  <2>1. StillToRead' = {contentCandidates'[i] : i \in 1..Len(contentCandidates')}
    BY DEF StillToRead
  <2> QED
    BY <1>2, <1>4, <2>1 DEF HasClassified, TheUndecided
<1>7. (Differing \ touched) \ TheUndecided = {q \in ShouldBePaired : Unlike(q)}
  <2>1. \A p \in ShouldBePaired : Unlike(p) <=> p \in Differing /\ ~ Undecided(p)
    BY <1>1, WhatIsToldOfPairs
  <2> QED
    BY <1>1, <2>1 DEF TheUndecided, Differing
<1>8. differences' = {Difference(p, "Different") : p \in (Differing \ touched) \ TheUndecided}
                       \cup OnlyOnOneSide
  BY <1>3, <1>4, <1>7
<1>9. \A p \in ShouldBePaired : p = <<p[1], p[2]>> /\ p[1] # NoName /\ p[2] # NoName
  BY <1>1, WhatPairsAre
<1>10. Listed' \cap TheUndecided = {}
  <2> SUFFICES ASSUME NEW d \in differences'
               PROVE  <<d.left, d.right>> \notin TheUndecided
    BY DEF Listed
  <2>1. CASE d \in OnlyOnOneSide
    <3>1. d.left = NoName \/ d.right = NoName
      BY <2>1 DEF OnlyOnOneSide, Difference
    <3>2. \A p \in TheUndecided : p[1] # NoName /\ p[2] # NoName
      BY <1>9 DEF TheUndecided
    <3> QED
      BY <3>1, <3>2
  <2>2. CASE \E p \in (Differing \ touched) \ TheUndecided : d = Difference(p, "Different")
    <3>1. PICK p \in Differing \ TheUndecided : d.left = p[1] /\ d.right = p[2]
      BY <2>2 DEF Difference
    <3>2. <<d.left, d.right>> = p
      BY <1>9, <3>1 DEF Differing
    <3> QED
      BY <3>1, <3>2
  <2> QED
    BY <1>8, <2>1, <2>2
<1>11. {d \in differences' : <<d.left, d.right>> \notin touched'} = differences'
  BY <1>1
<1>12. identicalFiles' = Cardinality((TheUndecided \ TheUndecided) \ Listed')
  <2>1. (TheUndecided \ TheUndecided) \ Listed' = {}
    OBVIOUS
  <2> QED
    BY <1>1, <2>1, FS_EmptySet
<1>13. ScanIsComplete'
  BY <1>1 DEF ScanIsComplete
<1>14. /\ \A i, j \in 1..Len(contentCandidates') : contentCandidates'[i] = contentCandidates'[j] => i = j
       /\ \A p \in TheUndecided : Bytes(p) <= totalCandidateBytes'
  BY <1>2, <1>4 DEF HasClassified, TheUndecided
<1>15. Accounted'
  BY <1>1, <1>5, <1>6, <1>8, <1>10, <1>11, <1>12, <1>13, <1>14 DEF Accounted
<1>16. /\ contentCandidates' \in Seq(Name \X Name) /\ totalCandidateBytes' \in Nat
       /\ paired.differences \subseteq AllDifferences
  BY <1>3, <1>4 DEF Maps
<1>17. OnlyOnOneSide \subseteq AllDifferences
  <2>1. OnLeft \subseteq 0..Names /\ OnRight \subseteq 0..Names /\ NoName \in 0..Names
    BY <1>1, EntriesHaveSizes, NamesAssumption DEF Name, NoName
  <2> QED
    BY <2>1 DEF OnlyOnOneSide, AllDifferences, Difference
<1> QED
  BY <1>4, <1>15, <1>16, <1>17

LEMMA PairStep ==
  ASSUME ComparisonInv, pairEntries
  PROVE  ComparisonInv'
<1>1. ComparisonTypeOK /\ WhileScanning /\ Stages
  BY DEF ComparisonInv
<1>2. /\ UNCHANGED <<disk, touched, pairingMode, abort, dialog, scanned, identicalFiles>>
      /\ phase = "Pair"
  BY DEF pairEntries, Worker
<1>3. CASE abort
  <2>1. /\ aborted' = TRUE /\ phase' = "Done"
        /\ UNCHANGED <<contentCandidates, totalCandidateBytes, differences>>
    BY <1>3 DEF pairEntries
  <2>2. ComparisonTypeOK'
    BY <1>1, <1>2, <2>1 DEF ComparisonTypeOK
  <2> QED
    BY <1>1, <1>2, <2>1, <2>2 DEF ComparisonInv, WhileScanning, Stages
<1>4. CASE ~abort
  <2>1. classifyPairs /\ phase' = "Compare" /\ aborted' = aborted
    BY <1>4 DEF pairEntries, classifyPairs
  <2>2. /\ Accounted' /\ contentCandidates' \in Seq(Name \X Name)
        /\ totalCandidateBytes' \in Nat /\ differences' \subseteq AllDifferences
    BY <1>2, <1>4, <2>1, WhatPairingAccountsFor
  <2>3. ComparisonTypeOK'
    BY <1>1, <1>2, <2>1, <2>2 DEF ComparisonTypeOK, AllDifferences
  <2>4. WhileScanning' /\ Stages'
    BY <1>1, <1>2, <2>1 DEF WhileScanning, Stages
  <2> QED
    BY <2>2, <2>3, <2>4 DEF ComparisonInv
<1> QED
  BY <1>3, <1>4

LEMMA NextCandidateStep ==
  ASSUME ComparisonInv, nextCandidate
  PROVE  ComparisonInv'
<1>1. ComparisonTypeOK /\ WhileScanning /\ Stages
  BY DEF ComparisonInv
<1>2. /\ UNCHANGED <<disk, touched, pairingMode, abort, dialog, scanned, contentCandidates,
                     totalCandidateBytes, differences, identicalFiles>>
      /\ phase = "Compare"
      /\ phase' = IF contentCandidates = <<>> \/ abort THEN "Done" ELSE "Read"
      /\ aborted' = (contentCandidates # <<>> /\ abort)
  BY DEF nextCandidate, Worker
<1>3. Accounted'
  <2>1. Accounted
    BY <1>2 DEF ComparisonInv
  <2> QED
    BY <1>2, <2>1, StillAccounted
<1>4. ComparisonTypeOK'
  BY <1>1, <1>2 DEF ComparisonTypeOK
<1>5. WhileScanning' /\ Stages'
  BY <1>1, <1>2 DEF WhileScanning, Stages
<1> QED
  BY <1>3, <1>4, <1>5 DEF ComparisonInv

LEMMA DialogStep ==
  ASSUME ComparisonInv, cancel \/ accept \/ runFolderComparisonReturns
  PROVE  ComparisonInv'
<1>1. ComparisonTypeOK /\ WhileScanning /\ Stages
  BY DEF ComparisonInv
<1>2. /\ UNCHANGED <<disk, touched, pairingMode, phase, scanned, contentCandidates,
                     totalCandidateBytes, differences, identicalFiles, aborted>>
      /\ abort' \in BOOLEAN /\ (abort => abort')
      /\ dialog' \in {"Open", "Joining", "NoResult", "Shown"}
      /\ dialog' = "Shown" => phase = "Done" /\ ~aborted
  BY <1>1 DEF cancel, accept, runFolderComparisonReturns, result, ComparisonTypeOK
<1>3. Accounted => Accounted'
  BY <1>2, StillAccounted
<1>4. ComparisonTypeOK'
  BY <1>1, <1>2 DEF ComparisonTypeOK
<1>5. WhileScanning' /\ Stages'
  BY <1>1, <1>2 DEF WhileScanning, Stages
<1> QED
  BY <1>2, <1>3, <1>4, <1>5 DEF ComparisonInv
(* Reading a pair. As long as nobody changed its files they are as they were  *)
(* enumerated, so that reading them tells whether they differ.               *)
LEMMA WhatReadingTells ==
  ASSUME ComparisonInv, phase = "Read", NEW p \in TheUndecided, p \notin touched
  PROVE  LET l == disk.left[p[1]]
             comparison == ContentComparison(l, disk.right[p[2]])
         IN /\ comparison \in {"Equal", "Different", "Aborted"}
            /\ comparison = "Equal" => p \notin Differing
            /\ comparison = "Different" => p \in Differing
            /\ ~ (comparison = "Equal" /\ SizeOf[l] > 0 /\ totalCandidateBytes = 0)
<1>1. /\ scanned \in [left : Side, right : Side] /\ totalCandidateBytes \in Nat
      /\ Accounted /\ p \in ShouldBePaired /\ Undecided(p)
  BY DEF ComparisonInv, ComparisonTypeOK, TheUndecided
<1>2. /\ touched \subseteq ShouldBePaired /\ Bytes(p) <= totalCandidateBytes
      /\ p[1] \in Name /\ p[2] \in Name
  BY <1>1, WhatPairsAre DEF Accounted, TheUndecided
<1>3. \A q \in touched : q[1] # p[1] /\ q[2] # p[2]
  BY <1>1, <1>2, PairsAreDisjoint
<1>4. scanned.left[p[1]] = disk.left[p[1]] /\ scanned.right[p[2]] = disk.right[p[2]]
  BY <1>1, <1>2, <1>3 DEF Accounted, ScanIsComplete
<1> DEFINE l == disk.left[p[1]]
           r == disk.right[p[2]]
<1>5. l \in Contents /\ r \in Contents /\ SizeOf[l] = SizeOf[r] /\ Bytes(p) = SizeOf[l]
  BY <1>1, <1>4, WhatIsToldOfPairs
<1>6. p \in Differing <=> l # r
  BY <1>1, <1>4 DEF Differing
<1> HIDE DEF l, r
<1>7. SizeOf[l] \in Nat /\ (SizeOf[l] = 0 => l = r)
  BY <1>5, ContentsAssumption
<1>8. /\ ContentComparison(l, r) \in {"Equal", "Different", "Aborted"}
      /\ ContentComparison(l, r) = "Equal" => l = r
      /\ ContentComparison(l, r) = "Different" => l # r
  BY <1>5, <1>7 DEF ContentComparison
<1>9. ~ (SizeOf[l] > 0 /\ totalCandidateBytes = 0)
  BY <1>1, <1>2, <1>5, <1>7
<1> QED
  BY <1>6, <1>8, <1>9 DEF l, r

LEMMA TheHeadIsTakenOff ==
  ASSUME contentCandidates \in Seq(Name \X Name), contentCandidates # <<>>,
         contentCandidates' = Tail(contentCandidates),
         \A i, j \in 1..Len(contentCandidates) : contentCandidates[i] = contentCandidates[j] => i = j
  PROVE  /\ Head(contentCandidates) \in StillToRead
         /\ StillToRead' = StillToRead \ {Head(contentCandidates)}
         /\ contentCandidates' \in Seq(Name \X Name)
         /\ \A i, j \in 1..Len(contentCandidates') : contentCandidates'[i] = contentCandidates'[j] => i = j
<1> DEFINE s == contentCandidates
           t == contentCandidates'
<1>1. /\ Len(s) \in Nat /\ Len(s) > 0 /\ Head(s) = s[1] /\ t \in Seq(Name \X Name)
      /\ Len(t) = Len(s) - 1 /\ \A i \in 1..Len(t) : t[i] = s[i + 1]
  OBVIOUS
<1>2. \A i \in 1..Len(t) : i + 1 \in 1..Len(s) /\ i + 1 # 1
  BY <1>1
<1>3. \A i \in 1..Len(s) : i = 1 \/ (i - 1 \in 1..Len(t) /\ (i - 1) + 1 = i)
  BY <1>1
<1>4. 1 \in 1..Len(s)
  BY <1>1
<1>5. StillToRead = {s[i] : i \in 1..Len(s)} /\ StillToRead' = {t[i] : i \in 1..Len(t)}
  BY DEF StillToRead
<1> HIDE DEF t
<1>6. StillToRead' \subseteq StillToRead \ {Head(s)}
  BY <1>1, <1>2, <1>4, <1>5
<1>7. ASSUME NEW p \in StillToRead, p # Head(s)
      PROVE  p \in StillToRead'
  <2>1. PICK i \in 1..Len(s) : p = s[i]
    BY <1>5
  <2>2. i - 1 \in 1..Len(t) /\ t[i - 1] = p
    BY <1>1, <1>3, <1>7, <2>1
  <2> QED
    BY <1>5, <2>2
<1>8. ASSUME NEW i \in 1..Len(t), NEW j \in 1..Len(t), t[i] = t[j]
      PROVE  i = j
  <2>1. i + 1 = j + 1
    BY <1>1, <1>2, <1>8
  <2> QED
    BY <1>1, <2>1
<1> QED
  BY <1>1, <1>4, <1>5, <1>6, <1>7, <1>8 DEF t

LEMMA ReadAccounts ==
  ASSUME ComparisonInv, readCandidate, phase' # "Trapped", aborted' = FALSE
  PROVE  Accounted'
<1> DEFINE p == Head(contentCandidates)
           l == disk.left[p[1]]
           comparison == ContentComparison(l, disk.right[p[2]])
           more == CASE comparison = "Different" -> {Difference(p, "Different")}
                     [] comparison = "Error" -> {Difference(p, "ComparisonFailed")}
                     [] OTHER -> {}
<1>1. /\ scanned \in [left : Side, right : Side] /\ contentCandidates \in Seq(Name \X Name)
      /\ phase = "Read" /\ Accounted /\ contentCandidates # <<>> /\ identicalFiles \in Nat
      /\ UNCHANGED <<disk, touched, pairingMode, scanned, totalCandidateBytes>>
  BY DEF ComparisonInv, ComparisonTypeOK, Stages, readCandidate, Worker
<1>2. /\ contentCandidates' = Tail(contentCandidates)
      /\ comparison # "Aborted"
      /\ identicalFiles' = identicalFiles + (IF comparison = "Equal" THEN 1 ELSE 0)
      /\ differences' = differences \cup more
  BY DEF readCandidate
<1>3. comparison \in {"Equal", "Different", "Error"}
  BY <1>2 DEF ContentComparison
<1>4. /\ p \in StillToRead /\ StillToRead' = StillToRead \ {p}
      /\ \A i, j \in 1..Len(contentCandidates') : contentCandidates'[i] = contentCandidates'[j] => i = j
  BY <1>1, <1>2, TheHeadIsTakenOff DEF Accounted
<1>5. /\ p \in TheUndecided /\ p \in ShouldBePaired /\ p = <<p[1], p[2]>>
      /\ StillToRead \subseteq TheUndecided /\ TheUndecided \subseteq ShouldBePaired
  BY <1>1, <1>4, WhatPairsAre DEF Accounted, TheUndecided
<1>6. p \notin touched => /\ comparison \in {"Equal", "Different"}
                          /\ comparison = "Equal" => p \notin Differing
                          /\ comparison = "Different" => p \in Differing
  BY <1>1, <1>2, <1>5, WhatReadingTells
<1>7. more = IF comparison = "Different" THEN {Difference(p, "Different")}
             ELSE IF comparison = "Error" THEN {Difference(p, "ComparisonFailed")} ELSE {}
  BY <1>3
<1>8. \A status : Difference(p, status).left = p[1] /\ Difference(p, status).right = p[2]
  BY DEF Difference
<1> HIDE DEF p, comparison, more, l
<1>9. Listed' = Listed \cup (IF comparison = "Equal" THEN {} ELSE {p})
  <2>1. {<<d.left, d.right>> : d \in more} = IF comparison = "Equal" THEN {} ELSE {p}
    BY <1>3, <1>5, <1>7, <1>8
  <2>2. Listed' = {<<d.left, d.right>> : d \in differences'}
    BY DEF Listed
  <2> QED
    BY <1>2, <2>1, <2>2 DEF Listed
<1>10. p \notin Listed /\ Listed \cap StillToRead = {}
  BY <1>1, <1>4 DEF Accounted
<1>11. /\ TheUndecided' = TheUndecided /\ Differing' = Differing /\ OnlyOnOneSide' = OnlyOnOneSide
       /\ \A q : Bytes(q)' = Bytes(q)
  BY <1>1, TheSameView
<1>12. identicalFiles' = Cardinality((TheUndecided \ StillToRead') \ Listed')
  <2> DEFINE Counted == (TheUndecided \ StillToRead) \ Listed
  <2>1. identicalFiles = Cardinality(Counted)
    BY <1>1 DEF Accounted
  <2>2. IsFiniteSet(Counted) /\ p \notin Counted
    <3>1. Counted \subseteq ShouldBePaired
      BY <1>5
    <3> QED
      BY <1>1, <1>4, <3>1, WhatPairsAre, FS_Subset
  <2>3. CASE comparison = "Equal"
    <3>1. (TheUndecided \ StillToRead') \ Listed' = Counted \cup {p}
      BY <1>4, <1>5, <1>9, <1>10, <2>3
    <3>2. Cardinality(Counted \cup {p}) = Cardinality(Counted) + 1
      BY <2>2, FS_AddElement
    <3> QED
      BY <1>2, <2>1, <2>3, <3>1, <3>2
  <2>4. CASE comparison # "Equal"
    <3>1. (TheUndecided \ StillToRead') \ Listed' = Counted
      BY <1>4, <1>5, <1>9, <1>10, <2>4
    <3>2. identicalFiles' = identicalFiles
      BY <1>1, <1>2, <2>4
    <3> QED
      BY <2>1, <3>1, <3>2
  <2> QED
    BY <2>3, <2>4
<1>13. {d \in differences' : <<d.left, d.right>> \notin touched}
         = {Difference(q, "Different") : q \in (Differing \ touched) \ StillToRead'} \cup OnlyOnOneSide
  <2>1. {d \in differences : <<d.left, d.right>> \notin touched}
          = {Difference(q, "Different") : q \in (Differing \ touched) \ StillToRead} \cup OnlyOnOneSide
    BY <1>1 DEF Accounted
  <2>2. {d \in more : <<d.left, d.right>> \notin touched}
          = IF p \in Differing \ touched THEN {Difference(p, "Different")} ELSE {}
    BY <1>3, <1>5, <1>6, <1>7, <1>8
  <2>3. (Differing \ touched) \ StillToRead'
          = ((Differing \ touched) \ StillToRead) \cup (IF p \in Differing \ touched THEN {p} ELSE {})
    BY <1>4
  <2> QED
    BY <1>2, <2>1, <2>2, <2>3
<1>14. Listed' \cap StillToRead' = {}
  BY <1>4, <1>9, <1>10
<1>15. ScanIsComplete'
  BY <1>1 DEF Accounted, ScanIsComplete
<1>16. /\ touched \subseteq TheUndecided /\ StillToRead' \subseteq TheUndecided
       /\ \A q \in TheUndecided : Bytes(q) <= totalCandidateBytes
  BY <1>1, <1>4 DEF Accounted
<1> QED
  BY <1>1, <1>4, <1>11, <1>12, <1>13, <1>14, <1>15, <1>16 DEF Accounted
LEMMA ReadStep ==
  ASSUME ComparisonInv, readCandidate
  PROVE  ComparisonInv'
<1> DEFINE p == Head(contentCandidates)
           l == disk.left[p[1]]
           comparison == ContentComparison(l, disk.right[p[2]])
<1>1. /\ ComparisonTypeOK /\ WhileScanning /\ Stages /\ Accounted /\ phase = "Read"
      /\ contentCandidates \in Seq(Name \X Name) /\ contentCandidates # <<>>
      /\ UNCHANGED <<disk, touched, pairingMode, abort, dialog, scanned, totalCandidateBytes>>
  BY DEF ComparisonInv, ComparisonTypeOK, Stages, readCandidate, Worker
<1>2. /\ p \in StillToRead /\ p \in TheUndecided /\ p \in Name \X Name
      /\ p[1] \in 0..Names /\ p[2] \in 0..Names
  <2>1. p \in Name \X Name
    BY <1>1
  <2>2. 1 \in 1..Len(contentCandidates) /\ p = contentCandidates[1]
    BY <1>1
  <2>3. p \in StillToRead
    BY <2>2 DEF StillToRead
  <2> QED
    BY <1>1, <2>1, <2>3, NamesAssumption DEF Accounted, Name
<1>3. CASE comparison = "Equal" /\ SizeOf[l] > 0 /\ totalCandidateBytes = 0
  <2>1. /\ phase' = "Trapped"
        /\ UNCHANGED <<contentCandidates, differences, identicalFiles, aborted>>
    BY <1>3 DEF readCandidate, result
  <2>2. touched # {}
    BY <1>1, <1>2, <1>3, WhatReadingTells
  <2>3. ComparisonTypeOK'
    BY <1>1, <2>1 DEF ComparisonTypeOK
  <2> QED
    BY <1>1, <2>1, <2>2, <2>3 DEF ComparisonInv, WhileScanning, Stages
<1>4. CASE ~ (comparison = "Equal" /\ SizeOf[l] > 0 /\ totalCandidateBytes = 0)
  <2>1. /\ contentCandidates' = Tail(contentCandidates)
        /\ phase' = IF comparison = "Aborted" THEN "Done" ELSE "Compare"
        /\ aborted' = (comparison = "Aborted")
        /\ identicalFiles' = identicalFiles + (IF comparison = "Equal" THEN 1 ELSE 0)
        /\ differences' = differences \cup
             (CASE comparison = "Different" -> {Difference(p, "Different")}
                [] comparison = "Error" -> {Difference(p, "ComparisonFailed")}
                [] OTHER -> {})
    BY <1>4 DEF readCandidate
  <2>2. /\ Difference(p, "Different") \in AllDifferences
        /\ Difference(p, "ComparisonFailed") \in AllDifferences
    BY <1>2 DEF Difference, AllDifferences
  <2>3. comparison \in {"Equal", "Different", "Error", "Aborted"}
    BY DEF ContentComparison
  <2>4. differences \subseteq AllDifferences /\ identicalFiles \in Nat
    BY <1>1 DEF ComparisonTypeOK, AllDifferences
  <2>5. contentCandidates' \in Seq(Name \X Name)
    BY <1>1, <2>1
  <2>6. Accounted' \/ aborted'
    BY <2>1, ReadAccounts
  <2> HIDE DEF p, l, comparison
  <2>7. differences' \subseteq AllDifferences /\ identicalFiles' \in Nat
    BY <2>1, <2>2, <2>3, <2>4
  <2>8. ComparisonTypeOK'
    BY <1>1, <2>1, <2>5, <2>7 DEF ComparisonTypeOK, AllDifferences
  <2>9. WhileScanning' /\ Stages'
    BY <1>1, <2>1 DEF WhileScanning, Stages
  <2> QED
    BY <2>1, <2>6, <2>8, <2>9 DEF ComparisonInv
<1> QED
  BY <1>3, <1>4

(* A file is changed that is still to be read.                              *)
LEMMA ChangeStep ==
  ASSUME ComparisonInv, fileChanges
  PROVE  ComparisonInv'
<1>1. /\ ComparisonTypeOK /\ WhileScanning /\ Stages /\ Accounted /\ phase \in {"Compare", "Read"}
      /\ disk \in [left : Side, right : Side] /\ scanned \in [left : Side, right : Side]
      /\ contentCandidates \in Seq(Name \X Name)
      /\ UNCHANGED <<pairingMode, abort, dialog, phase, scanned, contentCandidates,
                     totalCandidateBytes, differences, identicalFiles, aborted>>
  BY DEF ComparisonInv, ComparisonTypeOK, fileChanges, result
<1>2. PICK pair \in Range(contentCandidates), side \in {"left", "right"} :
        LET n == pair[IF side = "left" THEN 1 ELSE 2] IN
        \E entry \in (Contents \cup {Absent}) \ {disk[side][n]} :
          /\ disk' = [disk EXCEPT ![side][n] = entry]
          /\ touched' = touched \cup {pair}
  BY DEF fileChanges
<1> DEFINE n == pair[IF side = "left" THEN 1 ELSE 2]
<1>3. pair \in StillToRead /\ pair \in Name \X Name /\ n \in Name
  <2>1. PICK i \in 1..Len(contentCandidates) : pair = contentCandidates[i]
    BY <1>1 DEF Range
  <2> QED
    BY <1>1, <2>1 DEF StillToRead
<1>4. PICK entry \in Contents \cup {Absent} : disk' = [disk EXCEPT ![side][n] = entry]
  BY <1>2
<1>5. touched' = touched \cup {pair}
  BY <1>2
<1>6. /\ disk' \in [left : Side, right : Side]
      /\ \A m \in Name : /\ disk'.left[m] = disk.left[m] \/ (m = n /\ side = "left")
                         /\ disk'.right[m] = disk.right[m] \/ (m = n /\ side = "right")
  <2>1. disk.left \in Side /\ disk.right \in Side /\ entry \in Entry \cup {Absent}
    BY <1>1 DEF Entry
  <2> HIDE DEF n
  <2>2. CASE side = "left"
    <3>1. disk' = [disk EXCEPT !["left"] = [disk.left EXCEPT ![n] = entry]]
      BY <1>1, <1>4, <2>2
    <3>2. [disk.left EXCEPT ![n] = entry] \in Side
      BY <2>1 DEF Side
    <3>3. disk'.left = [disk.left EXCEPT ![n] = entry] /\ disk'.right = disk.right
      BY <1>1, <3>1
    <3>4. \A m \in Name : m # n => [disk.left EXCEPT ![n] = entry][m] = disk.left[m]
      BY <2>1 DEF Side
    <3> QED
      BY <1>1, <2>2, <3>1, <3>2, <3>3, <3>4
  <2>3. CASE side = "right"
    <3>1. disk' = [disk EXCEPT !["right"] = [disk.right EXCEPT ![n] = entry]]
      BY <1>1, <1>4, <2>3
    <3>2. [disk.right EXCEPT ![n] = entry] \in Side
      BY <2>1 DEF Side
    <3>3. disk'.right = [disk.right EXCEPT ![n] = entry] /\ disk'.left = disk.left
      BY <1>1, <3>1
    <3>4. \A m \in Name : m # n => [disk.right EXCEPT ![n] = entry][m] = disk.right[m]
      BY <2>1 DEF Side
    <3> QED
      BY <1>1, <2>3, <3>1, <3>2, <3>3, <3>4
  <2> QED
    BY <2>2, <2>3
<1>7. ScanIsComplete'
  <2>1. ScanIsComplete
    BY <1>1 DEF Accounted
  <2>2. side = "left" => pair[1] = n
    OBVIOUS
  <2>3. side = "right" => pair[2] = n
    OBVIOUS
  <2> HIDE DEF n
  <2> SUFFICES ASSUME NEW m \in Name
               PROVE  /\ scanned.left[m] = disk'.left[m] \/ \E p \in touched' : p[1] = m
                      /\ scanned.right[m] = disk'.right[m] \/ \E p \in touched' : p[2] = m
    BY <1>1 DEF ScanIsComplete
  <2>4. /\ scanned.left[m] = disk.left[m] \/ \E p \in touched : p[1] = m
        /\ scanned.right[m] = disk.right[m] \/ \E p \in touched : p[2] = m
    BY <2>1 DEF ScanIsComplete
  <2>5. /\ disk'.left[m] = disk.left[m] \/ (m = n /\ side = "left")
        /\ disk'.right[m] = disk.right[m] \/ (m = n /\ side = "right")
    BY <1>6
  <2> QED
    BY <1>5, <2>2, <2>3, <2>4, <2>5
<1> HIDE DEF n
<1>8. Accounted'
  <2>1. /\ TheUndecided' = TheUndecided /\ Differing' = Differing /\ OnlyOnOneSide' = OnlyOnOneSide
        /\ \A q : Bytes(q)' = Bytes(q)
    BY <1>1, TheSameView
  <2>2. StillToRead' = StillToRead /\ Listed' = Listed
    BY <1>1 DEF StillToRead, Listed
  <2>3. pair \notin Listed
    BY <1>1, <1>3 DEF Accounted
  <2>4. {d \in differences : <<d.left, d.right>> \notin touched'}
          = {d \in differences : <<d.left, d.right>> \notin touched}
    BY <1>5, <2>3 DEF Listed
  <2>5. (Differing \ touched') \ StillToRead = (Differing \ touched) \ StillToRead
    BY <1>3, <1>5
  <2>6. touched' \subseteq TheUndecided
    BY <1>1, <1>3, <1>5 DEF Accounted
  <2> QED
    BY <1>1, <1>7, <2>1, <2>2, <2>4, <2>5, <2>6 DEF Accounted
<1>9. ComparisonTypeOK'
  BY <1>1, <1>3, <1>5, <1>6 DEF ComparisonTypeOK
<1>10. WhileScanning' /\ Stages'
  BY <1>1, <1>5 DEF WhileScanning, Stages
<1> QED
  BY <1>8, <1>9, <1>10 DEF ComparisonInv
-----------------------------------------------------------------------------
(* The theorem.                                                            *)

LEMMA ComparisonInductive == ComparisonInv /\ [Next]_vars => ComparisonInv'
<1> SUFFICES ASSUME ComparisonInv, [Next]_vars
             PROVE  ComparisonInv'
  OBVIOUS
<1>1. CASE scanLeft \/ scanRight
  BY <1>1, ScanStep
<1>2. CASE pairEntries
  BY <1>2, PairStep
<1>3. CASE nextCandidate
  BY <1>3, NextCandidateStep
<1>4. CASE readCandidate
  BY <1>4, ReadStep
<1>5. CASE cancel \/ accept \/ runFolderComparisonReturns
  BY <1>5, DialogStep
<1>6. CASE fileChanges
  BY <1>6, ChangeStep
<1>7. CASE UNCHANGED vars
  <2>1. UNCHANGED <<disk, touched, pairingMode, abort, dialog, phase, scanned, contentCandidates,
                    totalCandidateBytes, differences, identicalFiles, aborted>>
    BY <1>7 DEF vars
  <2>2. Accounted => Accounted'
    BY <2>1, StillAccounted
  <2> QED
    BY <2>1, <2>2 DEF ComparisonInv, ComparisonTypeOK, WhileScanning, Stages
<1> QED
  BY <1>1, <1>2, <1>3, <1>4, <1>5, <1>6, <1>7 DEF Next, worker

(* What is shown when nothing is left to read.                              *)
LEMMA WhatIsShown == ComparisonInv => ShownResultIsTrue
<1> SUFFICES ASSUME ComparisonInv
             PROVE  ShownResultIsTrue
  OBVIOUS
<1>1. ComparisonTypeOK /\ Stages /\ scanned \in [left : Side, right : Side]
  BY DEF ComparisonInv, ComparisonTypeOK
<1>2. ASSUME dialog = "Shown"
      PROVE  ScanIsComplete /\ DifferencesAre(ShouldBePaired) /\ IdenticalAre(ShouldBePaired)
  <2>1. Accounted /\ StillToRead = {}
    <3>1. phase = "Done" /\ ~aborted /\ contentCandidates = <<>>
      BY <1>1, <1>2 DEF Stages
    <3>2. 1..Len(contentCandidates) = {}
      BY <3>1
    <3> QED
      BY <3>1, <3>2 DEF ComparisonInv, StillToRead
  <2>2. /\ ScanIsComplete /\ touched \subseteq TheUndecided /\ TheUndecided \subseteq ShouldBePaired
        /\ {d \in differences : <<d.left, d.right>> \notin touched}
             = {Difference(p, "Different") : p \in Differing \ touched} \cup OnlyOnOneSide
        /\ identicalFiles = Cardinality(TheUndecided \ Listed)
    <3>1. (Differing \ touched) \ StillToRead = Differing \ touched
      BY <2>1
    <3>2. (TheUndecided \ StillToRead) \ Listed = TheUndecided \ Listed
      BY <2>1
    <3> QED
      BY <2>1, <3>1, <3>2 DEF Accounted, TheUndecided
  <2>3. DifferencesAre(ShouldBePaired)
    BY <2>2 DEF DifferencesAre, Differing, OnlyOnOneSide, OnLeft, OnRight
  <2> DEFINE alike == {p \in ShouldBePaired : scanned.left[p[1]] = scanned.right[p[2]]
                                              /\ scanned.left[p[1]] # Directory}
  <2>4. alike \subseteq TheUndecided
    BY <1>1, WhatIsToldOfPairs DEF TheUndecided
  <2>5. ASSUME NEW p \in TheUndecided, p \notin touched, p \notin Listed
        PROVE  p \in alike
    <3>1. p \in ShouldBePaired /\ Undecided(p) /\ p = <<p[1], p[2]>>
      BY <1>1, WhatPairsAre DEF TheUndecided
    <3>2. p \notin Differing
      <4>1. p \in Differing => Difference(p, "Different") \in differences
        BY <2>2, <2>5
      <4>2. Difference(p, "Different").left = p[1] /\ Difference(p, "Different").right = p[2]
        BY DEF Difference
      <4>3. Difference(p, "Different") \in differences => p \in Listed
        BY <3>1, <4>2 DEF Listed
      <4> QED
        BY <2>5, <4>1, <4>3
    <3>3. scanned.left[p[1]] = scanned.right[p[2]]
      BY <3>1, <3>2 DEF Differing
    <3>4. scanned.left[p[1]] # Directory
      BY <1>1, <3>1, WhatIsToldOfPairs, ContentsAssumption
    <3> QED
      BY <3>1, <3>3, <3>4
  <2>6. (alike \cup touched) \ Listed = TheUndecided \ Listed
    BY <2>2, <2>4, <2>5
  <2>7. IdenticalAre(ShouldBePaired) <=> identicalFiles = Cardinality((alike \cup touched) \ Listed)
    BY DEF IdenticalAre, Listed
  <2> QED
    BY <2>2, <2>3, <2>6, <2>7
<1> QED
  BY <1>1, <1>2 DEF ShownResultIsTrue

(* Whatever the names fold to, whatever the files hold and however many are   *)
(* changed while they are compared: a result that is shown lists every entry  *)
(* without a counterpart and every pair that differs, and nothing else, and    *)
(* counts the rest. (compareFolders, foldercomparison.cpp:102-223, and        *)
(* runFolderComparison, cfoldercomparisonwindow.cpp:49-79.)                  *)
THEOREM ShownResultsAreTrue == Spec => []ShownResultIsTrue
<1>1. Init => ComparisonInv
  BY ComparisonStarts
<1>2. ComparisonInv /\ [Next]_vars => ComparisonInv'
  BY ComparisonInductive
<1>3. ComparisonInv => ShownResultIsTrue
  BY WhatIsShown
<1> QED
  BY <1>1, <1>2, <1>3, PTL DEF Spec

(* The comment at foldercomparison.cpp:196 is right of folders that nobody    *)
(* changes: the program only divides by zero after others changed a file that *)
(* was still to be read. Of the files as they were enumerated, one that has    *)
(* bytes to report made the divisor larger than zero.                        *)
THEOREM OnlyChangesMakeTheDivisorZero ==
  Spec => [](touched = {} => ProgressDivisorIsNotZero)
<1>1. Init => ComparisonInv
  BY ComparisonStarts
<1>2. ComparisonInv /\ [Next]_vars => ComparisonInv'
  BY ComparisonInductive
<1>3. ComparisonInv => (touched = {} => ProgressDivisorIsNotZero)
  BY DEF ComparisonInv, Stages, ProgressDivisorIsNotZero
<1> QED
  BY <1>1, <1>2, <1>3, PTL DEF Spec
=============================================================================
