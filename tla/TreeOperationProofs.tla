------------------------ MODULE TreeOperationProofs ------------------------
(***************************************************************************)
(* What holds of every operation on trees, whatever the selection, the     *)
(* links in it and what other programs do to it.                           *)
(***************************************************************************)
EXTENDS TreeOperation, NumbersAndSequences, FiniteSetTheorems, SequenceTheorems, TLAPS

(* Sequences that are joined, one after the other.                          *)
Joins(f, seqs, N) ==
  /\ f[0] = <<>> /\ FlattenSeq(seqs) = f[N]
  /\ \A i \in 1..N : f[i] = f[i - 1] \o seqs[i]

LEMMA FlattenIsStepwise ==
  ASSUME NEW A, NEW G, G \subseteq Seq(A), <<>> \in G, \A s, t \in G : s \o t \in G,
         NEW seqs, seqs = [i \in 1..Len(seqs) |-> seqs[i]], Len(seqs) \in Nat,
         \A i \in 1..Len(seqs) : seqs[i] \in G
  PROVE  \E f \in [0..Len(seqs) -> G] : Joins(f, seqs, Len(seqs))
<1> DEFINE n == Len(seqs)
           step == [i \in 1..n |-> [s \in G |-> s \o seqs[i]]]
           Body(f) == [i \in 1..n |-> IF i = 1 THEN seqs[i] ELSE f[i - 1] \o seqs[i]]
           flatten == CHOOSE f : f = Body(f)
<1>1. n \in Nat /\ step \in [1..n -> [G -> G]] /\ \A i \in 1..n : \A s \in G : step[i][s] = s \o seqs[i]
  OBVIOUS
<1>2. PICK f \in [0..n -> G] : Computes(f, n, <<>>, step)
  <2> HIDE DEF n, step
  <2> QED
    BY <1>1, PrimitiveRecursion
<1>3. f[0] = <<>> /\ \A i \in 1..n : f[i] = f[i - 1] \o seqs[i] /\ f[i] \in G /\ f[i - 1] \in G
  <2>1. \A i \in 1..n : i \in 0..n /\ i - 1 \in 0..n
    BY <1>1
  <2> HIDE DEF n, step
  <2> QED
    BY <1>1, <1>2, <2>1 DEF Computes
<1> HIDE DEF step
<1>4. ASSUME n # 0
      PROVE  FlattenSeq(seqs) = f[n]
  <2>1. FlattenSeq(seqs) = flatten[n]
    BY <1>4 DEF FlattenSeq
  <2> DEFINE g == [i \in 1..n |-> f[i]]
  <2>2. ASSUME NEW i \in 1..n
        PROVE  g[i] = IF i = 1 THEN seqs[i] ELSE g[i - 1] \o seqs[i]
    <3>1. CASE i = 1
      <4>1. f[i] = <<>> \o seqs[i] /\ seqs[i] \in Seq(A)
        <5>1. f[i] = f[i - 1] \o seqs[i]
          BY <1>3, Zenon
        <5>2. i - 1 = 0
          BY <3>1
        <5>3. f[i - 1] = <<>>
          BY <1>3, <5>2, Zenon
        <5>4. seqs[i] \in Seq(A)
          BY Zenon
        <5> QED
          BY <5>1, <5>3, <5>4, Zenon
      <4>2. <<>> \o seqs[i] = seqs[i]
        BY <4>1, ConcatEmptySeq
      <4> QED
        BY <3>1, <4>1, <4>2
    <3>2. CASE i # 1
      <4>1. i - 1 \in 1..n
        BY <3>2
      <4>2. g[i] = f[i] /\ g[i - 1] = f[i - 1]
        BY <4>1, Zenon
      <4>3. f[i] = f[i - 1] \o seqs[i]
        BY <1>3, Zenon
      <4> HIDE DEF g
      <4> QED
        BY <3>2, <4>2, <4>3, Zenon
    <3> QED
      BY <3>1, <3>2
  <2>3. g = Body(g)
    <3>1. g = [i \in 1..n |-> g[i]]
      OBVIOUS
    <3> HIDE DEF g
    <3> QED
      BY <2>2, <3>1
  <2>4. flatten = Body(flatten)
    <3> HIDE DEF Body
    <3> QED
      BY <2>3
  <2> HIDE DEF flatten
  <2>5. \A i \in 1..n : flatten[i] = IF i = 1 THEN seqs[i] ELSE flatten[i - 1] \o seqs[i]
    BY <2>4
  <2> DEFINE S == {0} \cup {i \in 1..n : flatten[i] = g[i]}
  <2>6. ASSUME NEW i \in 1..n, i - 1 \in S
        PROVE  i \in S
    <3>1. CASE i = 1
      BY <2>2, <2>5, <3>1
    <3>2. CASE i # 1
      <4>1. i - 1 # 0 /\ flatten[i - 1] = g[i - 1]
        BY <1>1, <2>6, <3>2
      <4> HIDE DEF g
      <4> QED
        BY <2>2, <2>5, <3>2, <4>1
    <3> QED
      BY <3>1, <3>2
  <2> HIDE DEF S
  <2>7. 0..n \subseteq S
    <3>1. 0 \in S
      BY DEF S
    <3> HIDE DEF n
    <3> QED
      BY <1>1, <2>6, <3>1, UpTo
  <2>8. n \in 1..n /\ n \in 0..n
    BY <1>1, <1>4
  <2> QED
    BY <1>4, <2>1, <2>7, <2>8 DEF S
<1>5. ASSUME n = 0
      PROVE  FlattenSeq(seqs) = f[n]
  BY <1>3, <1>5 DEF FlattenSeq
<1> QED
  BY <1>2, <1>3, <1>4, <1>5 DEF Joins

LEMMA FlattenStaysWithin ==
  ASSUME NEW A, NEW G, G \subseteq Seq(A), <<>> \in G, \A s, t \in G : s \o t \in G,
         NEW seqs, seqs = [i \in 1..Len(seqs) |-> seqs[i]], Len(seqs) \in Nat,
         \A i \in 1..Len(seqs) : seqs[i] \in G
  PROVE  FlattenSeq(seqs) \in G
<1>1. PICK f \in [0..Len(seqs) -> G] : Joins(f, seqs, Len(seqs))
  BY FlattenIsStepwise
<1>2. Len(seqs) \in 0..Len(seqs)
  OBVIOUS
<1> QED
  BY <1>1, <1>2 DEF Joins

-----------------------------------------------------------------------------
(***************************************************************************)
(* The manifest.                                                           *)
(***************************************************************************)
Mode == {"MaterializingTransfer", "PermanentDelete"}

(* Nodes of depth d and what lies below them, reached by the given right    *)
(* on the way down from root.                                               *)
Listed(w, mode, top, ownership, d) ==
  {s \in Seq(SourceNode) :
     /\ s # <<>> => s[1].depth = d
     /\ \A i \in DOMAIN s :
          /\ s[i].depth >= d
          /\ Owned(s[i]) => ownership = "Owned" /\ s[i].entry \in Within(w, top)
          /\ mode = "PermanentDelete" /\ ownership = "Owned" => Owned(s[i])
     /\ \A i, j \in DOMAIN s :
          i <= j /\ ~ Owned(s[i]) /\ (\A k \in (i + 1)..j : s[k].depth > s[i].depth)
          => ~ Owned(s[j])}

LEMMA NothingIsListed ==
  ASSUME NEW w, NEW mode, NEW top, NEW ownership, NEW d
  PROVE  <<>> \in Listed(w, mode, top, ownership, d)
BY DEF Listed

LEMMA ListedIsJoined ==
  ASSUME NEW w, NEW mode, NEW top, NEW ownership, NEW d \in Nat,
         NEW s \in Listed(w, mode, top, ownership, d), NEW t \in Listed(w, mode, top, ownership, d)
  PROVE  s \o t \in Listed(w, mode, top, ownership, d)
<1> DEFINE st == s \o t
           m == Len(s)
<1>1. s \in Seq(SourceNode) /\ t \in Seq(SourceNode)
  BY DEF Listed
<1>2. /\ st \in Seq(SourceNode) /\ Len(st) = m + Len(t) /\ m \in Nat /\ Len(t) \in Nat
      /\ \A i \in 1..(m + Len(t)) : st[i] = IF i <= m THEN s[i] ELSE t[i - m]
  BY <1>1, ConcatProperties
<1>3. \A i \in DOMAIN st : st[i] \in SourceNode
  BY <1>2
<1> HIDE DEF st
<1>4. st # <<>> => st[1].depth = d
  BY <1>1, <1>2 DEF Listed
<1>5. ASSUME NEW i \in DOMAIN st
      PROVE  /\ st[i].depth >= d
             /\ Owned(st[i]) => ownership = "Owned" /\ st[i].entry \in Within(w, top)
             /\ mode = "PermanentDelete" /\ ownership = "Owned" => Owned(st[i])
  <2>1. CASE i <= m
    <3>1. i \in DOMAIN s /\ st[i] = s[i]
      BY <1>1, <1>2, <2>1
    <3> QED
      BY <3>1 DEF Listed
  <2>2. CASE ~ (i <= m)
    <3>1. i - m \in DOMAIN t /\ st[i] = t[i - m]
      BY <1>1, <1>2, <2>2
    <3> QED
      BY <3>1 DEF Listed
  <2> QED
    BY <2>1, <2>2
<1>6. ASSUME NEW i \in DOMAIN st, NEW j \in DOMAIN st, i <= j, ~ Owned(st[i]),
             \A k \in (i + 1)..j : st[k].depth > st[i].depth
      PROVE  ~ Owned(st[j])
  <2>0. /\ i \in Nat /\ j \in Nat /\ 1 <= i /\ j <= m + Len(t)
        /\ DOMAIN s = 1..m /\ DOMAIN t = 1..Len(t) /\ DOMAIN st = 1..(m + Len(t))
    BY <1>1, <1>2
  <2>1. CASE j <= m
    <3>1. i \in DOMAIN s /\ j \in DOMAIN s /\ st[i] = s[i] /\ st[j] = s[j]
      BY <1>2, <1>6, <2>0, <2>1
    <3>2. \A k \in (i + 1)..j : st[k] = s[k]
      BY <1>2, <2>0, <2>1
    <3> QED
      BY <1>6, <3>1, <3>2 DEF Listed
  <2>2. CASE i > m
    <3>1. i - m \in DOMAIN t /\ j - m \in DOMAIN t /\ st[i] = t[i - m] /\ st[j] = t[j - m]
      BY <1>2, <1>6, <2>0, <2>2
    <3>2. ASSUME NEW k \in ((i - m) + 1)..(j - m)
          PROVE  t[k].depth > t[i - m].depth
      <4>1. /\ k \in Nat /\ k + m \in (i + 1)..j /\ k + m \in 1..(m + Len(t))
            /\ ~ (k + m <= m) /\ (k + m) - m = k
        BY <1>2, <2>0, <2>2
      <4>2. t[k] = st[k + m]
        BY <1>2, <4>1
      <4> QED
        BY <1>6, <3>1, <4>1, <4>2
    <3>3. i - m <= j - m /\ ~ Owned(t[i - m])
      BY <1>2, <1>6, <3>1
    <3> QED
      BY <3>1, <3>2, <3>3 DEF Listed
  <2>3. CASE i <= m /\ m < j
    <3>1. m + 1 \in (i + 1)..j /\ m + 1 \in DOMAIN st /\ st[m + 1] = t[1] /\ t # <<>>
          /\ i \in DOMAIN s /\ st[i] = s[i]
      <4>1. /\ m + 1 \in (i + 1)..j /\ m + 1 \in 1..(m + Len(t)) /\ (m + 1) - m = 1
            /\ ~ (m + 1 <= m) /\ Len(t) # 0
        BY <1>2, <2>0, <2>3
      <4>2. t # <<>>
        BY <4>1
      <4> QED
        BY <1>2, <2>0, <2>3, <4>1, <4>2
    <3>2. t[1].depth = d /\ s[i].depth >= d
      BY <3>1 DEF Listed
    <3>3. t[1].depth > s[i].depth
      BY <1>6, <3>1
    <3>4. s[i].depth \in Nat
      <4>1. s[i] \in SourceNode
        BY <1>1, <3>1
      <4> QED
        BY <4>1 DEF SourceNode
    <3> QED
      BY <3>2, <3>3, <3>4
  <2> QED
    BY <1>2, <2>0, <2>1, <2>2, <2>3
<1> QED
  BY <1>2, <1>4, <1>5, <1>6 DEF Listed, st

(* What a visit leads to: its own node and, deeper, all that lies below it. *)
VisitedFrom(w, mode, top, v, d) ==
  {s \in Listed(w, mode, top, v.ownership, d) :
     /\ s # <<>> /\ s[1].entry = v.entry /\ s[1].ownership = v.ownership
     /\ \A i \in DOMAIN s : i # 1 => s[i].depth > d}

LEMMA NodeComesFirst ==
  ASSUME NEW w, NEW mode, NEW top, NEW v \in Visit, NEW d \in Nat,
         NEW head \in SourceNode, head.entry = v.entry, head.ownership = v.ownership,
         head.depth = d, v.ownership = "Owned" => v.entry \in Within(w, top),
         NEW ownership \in SourceOwnership, v.ownership = "Borrowed" => ownership = "Borrowed",
         NEW rest \in Listed(w, mode, top, ownership, d + 1),
         mode = "PermanentDelete" /\ v.ownership = "Owned" => ownership = "Owned"
  PROVE  <<head>> \o rest \in VisitedFrom(w, mode, top, v, d)
<1> DEFINE s == <<head>> \o rest
<1>1. rest \in Seq(SourceNode) /\ \A i \in DOMAIN rest : rest[i] \in SourceNode
  BY DEF Listed
<1>2. /\ s \in Seq(SourceNode) /\ Len(s) = 1 + Len(rest) /\ Len(rest) \in Nat
      /\ s[1] = head
      /\ \A i \in 2..Len(s) : i - 1 \in DOMAIN rest /\ s[i] = rest[i - 1]
  <2>1. <<head>> \in Seq(SourceNode) /\ Len(<<head>>) = 1 /\ <<head>>[1] = head
    OBVIOUS
  <2>2. /\ s \in Seq(SourceNode) /\ Len(s) = Len(<<head>>) + Len(rest) /\ Len(rest) \in Nat
        /\ \A i \in 1..(Len(<<head>>) + Len(rest)) :
             s[i] = IF i <= Len(<<head>>) THEN <<head>>[i] ELSE rest[i - Len(<<head>>)]
    BY <1>1, <2>1, ConcatProperties
  <2> QED
    BY <1>1, <2>1, <2>2
<1> HIDE DEF s
<1>3. \A i \in 2..Len(s) : s[i] \in SourceNode /\ s[i].depth >= d + 1 /\ s[i].depth \in Nat
  BY <1>1, <1>2 DEF Listed, SourceNode
<1>4. v.ownership \in SourceOwnership
  BY DEF Visit
<1>5. ASSUME NEW i \in DOMAIN s
      PROVE  /\ s[i].depth >= d
             /\ Owned(s[i]) => v.ownership = "Owned" /\ s[i].entry \in Within(w, top)
             /\ mode = "PermanentDelete" /\ v.ownership = "Owned" => Owned(s[i])
             /\ i # 1 => s[i].depth > d
  <2>1. CASE i = 1
    BY <1>2, <2>1 DEF Owned
  <2>2. CASE i # 1
    <3>1. i \in 2..Len(s) /\ i - 1 \in DOMAIN rest /\ s[i] = rest[i - 1]
      BY <1>2, <2>2
    <3> QED
      BY <1>3, <1>4, <3>1 DEF Listed, SourceOwnership
  <2> QED
    BY <2>1, <2>2
<1>6. ASSUME NEW i \in DOMAIN s, NEW j \in DOMAIN s, i <= j, ~ Owned(s[i]),
             \A k \in (i + 1)..j : s[k].depth > s[i].depth
      PROVE  ~ Owned(s[j])
  <2>1. CASE i = 1
    BY <1>2, <1>4, <1>5, <1>6, <2>1 DEF Owned, SourceOwnership
  <2>2. CASE i # 1
    <3>1. /\ i - 1 \in DOMAIN rest /\ j - 1 \in DOMAIN rest
          /\ s[i] = rest[i - 1] /\ s[j] = rest[j - 1]
          /\ \A k \in ((i - 1) + 1)..(j - 1) : k + 1 \in (i + 1)..j /\ rest[k] = s[k + 1]
      <4>1. i \in 2..Len(s) /\ j \in 2..Len(s)
        BY <1>2, <1>6, <2>2
      <4>2. \A k \in ((i - 1) + 1)..(j - 1) : k + 1 \in (i + 1)..j /\ k + 1 \in 2..Len(s)
                                               /\ (k + 1) - 1 = k
        BY <1>2, <4>1
      <4> QED
        BY <1>2, <4>1, <4>2
    <3>2. \A k \in ((i - 1) + 1)..(j - 1) : rest[k].depth > rest[i - 1].depth
      BY <1>6, <3>1
    <3>3. i - 1 <= j - 1 /\ ~ Owned(rest[i - 1])
      BY <1>2, <1>6, <3>1
    <3> QED
      BY <3>1, <3>2, <3>3 DEF Listed
  <2> QED
    BY <2>1, <2>2
<1>7. s \in Listed(w, mode, top, v.ownership, d)
  BY <1>2, <1>5, <1>6 DEF Listed
<1>8. s # <<>> /\ s[1].entry = v.entry /\ s[1].ownership = v.ownership
  BY <1>2
<1>9. s \in VisitedFrom(w, mode, top, v, d)
  BY <1>5, <1>7, <1>8 DEF VisitedFrom
<1> QED
  BY <1>9 DEF s

(* The world and what is opened in it.                                      *)
LEMMA WorldFacts ==
  ASSUME NEW w \in World, NEW e \in Entries
  PROVE  /\ w.kind[e] \in EntryKind /\ w.target[e] \in Entries
         /\ Opens(w, e) \in Entries /\ w.listing[e] \in Seq(Entries)
BY DEF World, Opens

LEMMA WithinFacts ==
  ASSUME NEW w, NEW e \in Entries
  PROVE  /\ Within(w, e) \subseteq Entries /\ e \in Within(w, e)
         /\ \A d \in Within(w, e) : w.kind[d] = "Directory" => ToSet(w.listing[d]) \cap Entries \subseteq Within(w, e)
         /\ \A d \in Within(w, e) : Within(w, d) \subseteq Within(w, e)
BY DEF Within, Closed

LEMMA VisitsBelow ==
  ASSUME NEW w \in World, NEW v \in Visit, NEW e \in Entries
  PROVE  VisitBelow(w, v, e) \in Visit
BY WorldFacts DEF VisitBelow, Visit, childOwnership, SourceOwnership

OwnNode(w, P, levels, v) ==
  [entry |-> v.entry, kind |-> ReportedKind(w, P, v.entry), ownership |-> v.ownership,
   depth |-> maximumDepth + 1 - levels]

Opened(w, mode, P, levels, v) ==
  levels > 0 /\ descends(w, mode, v.entry, v.branch) /\ Opens(w, v.entry) \in P

ChildSeqs(w, P, below, v) ==
  LET listed == w.listing[Opens(w, v.entry)]
  IN [i \in 1..Len(listed) |->
        IF listed[i] \in P THEN below[VisitBelow(w, v, listed[i])] ELSE <<>>]

LEMMA HeadOfANode ==
  ASSUME NEW w \in World, NEW P, NEW levels \in 0..maximumDepth, NEW v \in Visit
  PROVE  OwnNode(w, P, levels, v) \in SourceNode
<1>1. ReportedKind(w, P, v.entry) \in EntryKind
  BY WorldFacts DEF Visit, ReportedKind, EntryKind
<1>2. maximumDepth + 1 - levels \in Nat \ {0}
  BY LimitsAssumption
<1> QED
  BY <1>1, <1>2 DEF OwnNode, SourceNode, Visit

(* A set that is closed under joining and holds what the children lead to   *)
(* holds what they lead to together.                                        *)
LEMMA ChildrenAreJoined ==
  ASSUME NEW w \in World, NEW P, NEW below, NEW v \in Visit,
         NEW G, G \subseteq Seq(SourceNode), <<>> \in G, \A s, t \in G : s \o t \in G,
         \A e \in ToSet(w.listing[Opens(w, v.entry)]) : below[VisitBelow(w, v, e)] \in G
  PROVE  FlattenSeq(ChildSeqs(w, P, below, v)) \in G
<1> DEFINE listed == w.listing[Opens(w, v.entry)]
           seqs == ChildSeqs(w, P, below, v)
<1>1. listed \in Seq(Entries) /\ Len(listed) \in Nat
  BY WorldFacts DEF Visit
<1>2. \A i \in 1..Len(listed) : listed[i] \in ToSet(listed)
  BY <1>1 DEF ToSet
<1>3. \A i \in 1..Len(listed) :
        (IF listed[i] \in P THEN below[VisitBelow(w, v, listed[i])] ELSE <<>>) \in G
  BY <1>2
<1>4. seqs = [i \in 1..Len(listed) |->
                IF listed[i] \in P THEN below[VisitBelow(w, v, listed[i])] ELSE <<>>]
  BY DEF ChildSeqs
<1> HIDE DEF listed, seqs
<1>5. Len(seqs) = Len(listed) /\ seqs = [i \in 1..Len(seqs) |-> seqs[i]]
      /\ \A i \in 1..Len(seqs) : seqs[i] \in G
  BY <1>1, <1>3, <1>4
<1>6. FlattenSeq(seqs) \in G
  BY <1>1, <1>5, FlattenStaysWithin
<1> QED
  BY <1>6 DEF seqs

LEMMA BuildNodeIs ==
  ASSUME NEW w, NEW mode, NEW P, NEW levels, NEW below, NEW v
  PROVE  buildNode(w, mode, P, levels, below, v)
           = <<OwnNode(w, P, levels, v)>>
             \o IF Opened(w, mode, P, levels, v) THEN FlattenSeq(ChildSeqs(w, P, below, v))
                ELSE <<>>
BY DEF buildNode, OwnNode, Opened, ChildSeqs

LEMMA NodesAreBuilt ==
  ASSUME NEW w \in World, NEW mode, NEW P, NEW levels \in 0..maximumDepth, NEW below,
         levels > 0 => below \in [Visit -> Seq(SourceNode)], NEW v \in Visit
  PROVE  buildNode(w, mode, P, levels, below, v) \in Seq(SourceNode)
<1> DEFINE G == Seq(SourceNode)
<1>1. /\ <<OwnNode(w, P, levels, v)>> \in G /\ <<>> \in G /\ \A s, t \in G : s \o t \in G
      /\ G \subseteq Seq(SourceNode)
  BY HeadOfANode
<1>2. CASE Opened(w, mode, P, levels, v)
  <2>1. \A e \in ToSet(w.listing[Opens(w, v.entry)]) : e \in Entries
    BY WorldFacts DEF Visit, ToSet
  <2>2. \A e \in ToSet(w.listing[Opens(w, v.entry)]) : below[VisitBelow(w, v, e)] \in G
    BY <1>2, <2>1, VisitsBelow DEF Opened
  <2> HIDE DEF G
  <2>3. FlattenSeq(ChildSeqs(w, P, below, v)) \in G
    BY <1>1, <2>2, ChildrenAreJoined
  <2> QED
    BY <1>1, <1>2, <2>3, BuildNodeIs DEF G
<1>3. CASE ~ Opened(w, mode, P, levels, v)
  BY <1>1, <1>3, BuildNodeIs
<1> QED
  BY <1>2, <1>3

LEMMA NodesAreVisited ==
  ASSUME NEW w \in World, NEW mode \in Mode, NEW P, NEW levels \in 0..maximumDepth, NEW below,
         NEW top \in Entries,
         levels > 0 =>
           \A u \in Visit : (u.ownership = "Owned" => u.entry \in Within(w, top))
             => below[u] \in VisitedFrom(w, mode, top, u, maximumDepth + 2 - levels),
         NEW v \in Visit, v.ownership = "Owned" => v.entry \in Within(w, top)
  PROVE  buildNode(w, mode, P, levels, below, v)
           \in VisitedFrom(w, mode, top, v, maximumDepth + 1 - levels)
<1> DEFINE d == maximumDepth + 1 - levels
           ownership == childOwnership(w, v.entry, v.ownership)
           G == Listed(w, mode, top, ownership, d + 1)
           rest == FlattenSeq(ChildSeqs(w, P, below, v))
<1>1. d \in Nat /\ d + 1 = maximumDepth + 2 - levels
  BY LimitsAssumption
<1>2. /\ OwnNode(w, P, levels, v) \in SourceNode /\ OwnNode(w, P, levels, v).entry = v.entry
      /\ OwnNode(w, P, levels, v).ownership = v.ownership /\ OwnNode(w, P, levels, v).depth = d
  BY HeadOfANode DEF OwnNode
<1>3. G \subseteq Seq(SourceNode) /\ <<>> \in G /\ \A s, t \in G : s \o t \in G
  <2>1. G \subseteq Seq(SourceNode)
    BY DEF Listed
  <2> QED
    BY <1>1, <2>1, NothingIsListed, ListedIsJoined
<1>4. ownership \in SourceOwnership /\ (v.ownership = "Borrowed" => ownership = "Borrowed")
  BY DEF childOwnership, SourceOwnership, Visit
<1>5. CASE Opened(w, mode, P, levels, v)
  <2>1. ASSUME NEW e \in ToSet(w.listing[Opens(w, v.entry)])
        PROVE  below[VisitBelow(w, v, e)] \in G
    <3>1. e \in Entries /\ VisitBelow(w, v, e) \in Visit
      BY WorldFacts, VisitsBelow DEF Visit, ToSet
    <3>2. VisitBelow(w, v, e).ownership = ownership /\ VisitBelow(w, v, e).entry = e
      BY DEF VisitBelow
    <3>3. ASSUME ownership = "Owned"
          PROVE  e \in Within(w, top)
      <4>1. v.ownership = "Owned" /\ w.kind[v.entry] # "DirectoryLink"
        BY <3>3 DEF childOwnership, Visit, SourceOwnership
      <4>2. w.kind[v.entry] = "Directory" /\ Opens(w, v.entry) = v.entry
        BY <1>5, <4>1 DEF Opened, descends, Opens
      <4> QED
        BY <3>1, <4>1, <4>2, WithinFacts
    <3>4. below[VisitBelow(w, v, e)] \in VisitedFrom(w, mode, top, VisitBelow(w, v, e), d + 1)
      BY <1>1, <1>5, <3>1, <3>2, <3>3 DEF Opened
    <3> QED
      BY <3>2, <3>4 DEF VisitedFrom
  <2>2. rest \in G
    <3> HIDE DEF G
    <3> QED
      BY <1>3, <2>1, ChildrenAreJoined
  <2>3. mode = "PermanentDelete" /\ v.ownership = "Owned" => ownership = "Owned"
    BY <1>5 DEF Opened, descends, childOwnership
  <2>4. <<OwnNode(w, P, levels, v)>> \o rest \in VisitedFrom(w, mode, top, v, d)
    <3> HIDE DEF rest, d, ownership
    <3> QED
      BY <1>1, <1>2, <1>4, <2>2, <2>3, NodeComesFirst
  <2> QED
    BY <1>5, <2>4, BuildNodeIs
<1>6. CASE ~ Opened(w, mode, P, levels, v)
  <2>1. <<OwnNode(w, P, levels, v)>> \o <<>> \in VisitedFrom(w, mode, top, v, d)
    <3>1. <<>> \in Listed(w, mode, top, v.ownership, d + 1) /\ v.ownership \in SourceOwnership
      BY NothingIsListed DEF Visit
    <3> HIDE DEF d
    <3> QED
      BY <1>1, <1>2, <3>1, NodeComesFirst
  <2> QED
    BY <1>6, <2>1, BuildNodeIs
<1> QED
  BY <1>5, <1>6

Levels(w, mode, P, f) ==
  [levels \in 0..maximumDepth |->
     [v \in Visit |-> buildNode(w, mode, P, levels, f[levels - 1], v)]]

(* The recursion by levels has a solution, so its definition is one.        *)
LEMMA NodesFromSolves ==
  ASSUME NEW w \in World, NEW mode, NEW P
  PROVE  nodesFrom(w, mode, P) = Levels(w, mode, P, nodesFrom(w, mode, P))
<1> DEFINE N == maximumDepth
           V == [Visit -> Seq(SourceNode)]
           base == [v \in Visit |-> buildNode(w, mode, P, 0, <<>>, v)]
           step == [l \in 1..N |->
                      [below \in V |-> [v \in Visit |-> buildNode(w, mode, P, l, below, v)]]]
<1>1. N \in Nat /\ 0 \in 0..N /\ \A l \in 1..N : l \in 0..N /\ l > 0 /\ l - 1 \in 0..N
  BY LimitsAssumption
<1>2. base \in V
  BY <1>1, NodesAreBuilt
<1>3. step \in [1..N -> [V -> V]]
  <2>1. ASSUME NEW l \in 1..N, NEW below \in V, NEW v \in Visit
        PROVE  buildNode(w, mode, P, l, below, v) \in Seq(SourceNode)
    BY <1>1, NodesAreBuilt
  <2> QED
    BY <2>1
<1>4. PICK f \in [0..N -> V] : Computes(f, N, base, step)
  <2> HIDE DEF N, V, base, step
  <2> QED
    BY <1>1, <1>2, <1>3, PrimitiveRecursion
<1>5. f[0] = base /\ \A l \in 1..N : f[l] = step[l][f[l - 1]]
  BY <1>4 DEF Computes
<1>6. ASSUME NEW l \in 0..N
      PROVE  f[l] = [v \in Visit |-> buildNode(w, mode, P, l, f[l - 1], v)]
  <2>1. CASE l = 0
    <3>1. \A below, v : buildNode(w, mode, P, 0, below, v) = <<OwnNode(w, P, 0, v)>> \o <<>>
      BY DEF buildNode, OwnNode
    <3>2. \A v \in Visit :
            buildNode(w, mode, P, 0, <<>>, v) = buildNode(w, mode, P, 0, f[0 - 1], v)
      BY <3>1
    <3> QED
      BY <1>5, <2>1, <3>2
  <2>2. CASE l # 0
    <3>1. l \in 1..N /\ f[l - 1] \in V
      BY <1>1, <2>2
    <3> QED
      BY <1>5, <3>1
  <2> QED
    BY <2>1, <2>2
<1>7. f = Levels(w, mode, P, f)
  <2>1. f = [l \in 0..N |-> f[l]]
    OBVIOUS
  <2> QED
    BY <1>6, <2>1 DEF Levels
<1>8. nodesFrom(w, mode, P) = CHOOSE g : g = Levels(w, mode, P, g)
  BY DEF nodesFrom, Levels
<1> QED
  BY <1>7, <1>8

(* The manifest a scan builds.                                              *)
ManifestOf(w, mode, top) ==
  {s \in VisitedFrom(w, mode, top, [entry |-> top, ownership |-> "Owned", branch |-> {}], 1) :
     Len(s) <= maximumNodeCount}

LEMMA ScanBuildsAManifest ==
  ASSUME NEW w \in World, NEW mode \in Mode, NEW P, NEW top \in Entries
  PROVE  buildSourceTree(w, mode, P, top) \in ManifestOf(w, mode, top) \cup {Stopped}
<1> DEFINE N == maximumDepth
           nodes == nodesFrom(w, mode, P)
           Visited(l, v) == nodes[l][v] \in VisitedFrom(w, mode, top, v, N + 1 - l)
           S == {l \in 0..N : \A v \in Visit :
                   (v.ownership = "Owned" => v.entry \in Within(w, top)) => Visited(l, v)}
<1>1. N \in Nat /\ 0 \in 0..N /\ N \in 0..N
      /\ \A l \in 1..N : l \in 0..N /\ l > 0 /\ N + 1 - (l - 1) = N + 2 - l
  BY LimitsAssumption
<1>2. \A l \in 0..N : \A v \in Visit : nodes[l][v] = buildNode(w, mode, P, l, nodes[l - 1], v)
  <2>1. nodes = Levels(w, mode, P, nodes)
    BY NodesFromSolves
  <2> HIDE DEF nodes
  <2>2. \A l \in 0..N : nodes[l] = [v \in Visit |-> buildNode(w, mode, P, l, nodes[l - 1], v)]
    <3> DEFINE f == nodes
    <3>1. nodes = [l \in 0..N |-> [v \in Visit |-> buildNode(w, mode, P, l, f[l - 1], v)]]
      BY <2>1 DEF Levels
    <3> HIDE DEF f
    <3>2. \A l \in 0..N : nodes[l] = [v \in Visit |-> buildNode(w, mode, P, l, f[l - 1], v)]
      BY <3>1
    <3> QED
      BY <3>2 DEF f
  <2> QED
    BY <2>2
<1> HIDE DEF nodes
<1>3. 0 \in S
  <2>1. ASSUME NEW v \in Visit, v.ownership = "Owned" => v.entry \in Within(w, top)
        PROVE  buildNode(w, mode, P, 0, nodes[0 - 1], v) \in VisitedFrom(w, mode, top, v, N + 1 - 0)
    <3>1. ~ (0 > 0)
      OBVIOUS
    <3> QED
      BY <1>1, <2>1, <3>1, NodesAreVisited
  <2> QED
    BY <1>1, <1>2, <2>1
<1>4. ASSUME NEW l \in 1..N, l - 1 \in S
      PROVE  l \in S
  <2>1. \A u \in Visit : (u.ownership = "Owned" => u.entry \in Within(w, top))
          => nodes[l - 1][u] \in VisitedFrom(w, mode, top, u, N + 2 - l)
    BY <1>1, <1>4
  <2>2. ASSUME NEW v \in Visit, v.ownership = "Owned" => v.entry \in Within(w, top)
        PROVE  buildNode(w, mode, P, l, nodes[l - 1], v) \in VisitedFrom(w, mode, top, v, N + 1 - l)
    BY <1>1, <2>1, <2>2, NodesAreVisited
  <2> QED
    BY <1>1, <1>2, <2>2
<1>5. N \in S
  <2> HIDE DEF S
  <2>1. 0..N \subseteq S
    BY <1>1, <1>3, <1>4, UpTo
  <2> QED
    BY <1>1, <2>1
<1> DEFINE v == [entry |-> top, ownership |-> "Owned", branch |-> {}]
<1>6. v \in Visit /\ v.entry \in Within(w, top)
  BY WithinFacts DEF Visit, SourceOwnership
<1>7. nodes[N][v] \in VisitedFrom(w, mode, top, v, 1)
  <2>1. N + 1 - N = 1
    BY <1>1
  <2> QED
    BY <1>5, <1>6, <2>1
<1>8. Len(nodes[N][v]) \in Nat
  BY <1>7 DEF VisitedFrom, Listed
<1> QED
  BY <1>7, <1>8, LimitsAssumption DEF buildSourceTree, ManifestOf, nodes

-----------------------------------------------------------------------------
(***************************************************************************)
(* What lies below a node: an interval of the manifest, nested in those of *)
(* the nodes above.                                                        *)
(***************************************************************************)
LastBelow(tree, i) == i + itemCount(tree, i) - 1

LEMMA SubtreeIsAnInterval ==
  ASSUME NEW tree \in Seq(SourceNode), NEW i \in DOMAIN tree
  PROVE  /\ LastBelow(tree, i) \in i..Len(tree)
         /\ Subtree(tree, i) = i..LastBelow(tree, i)
         /\ itemCount(tree, i) = LastBelow(tree, i) - i + 1
<1> DEFINE n == Len(tree)
           T == {j \in Nat : j > i /\ j \notin Subtree(tree, i)}
<1>1. n \in Nat /\ i \in 1..n
  OBVIOUS
<1>2. PICK m \in T : \A j \in T : m <= j
  <2>1. n + 1 \in T
    BY <1>1 DEF Subtree
  <2>2. T \subseteq Nat /\ T # {}
    BY <2>1
  <2> HIDE DEF T
  <2> QED
    BY <2>2, LeastElement
<1>3. m \in Nat /\ m > i /\ m \notin Subtree(tree, i)
  BY <1>2
<1>4. i \in Subtree(tree, i)
  BY <1>1 DEF Subtree
<1>5. i..(m - 1) \subseteq Subtree(tree, i)
  BY <1>1, <1>2, <1>3, <1>4
<1>6. ASSUME NEW j \in Subtree(tree, i)
      PROVE  j \in i..(m - 1)
  <2>1. j \in i..n /\ \A k \in (i + 1)..j : tree[k].depth > tree[i].depth
    BY <1>6 DEF Subtree
  <2>2. CASE m <= j
    <3>1. m \in i..n /\ \A k \in (i + 1)..m : tree[k].depth > tree[i].depth
      BY <1>1, <1>3, <2>1, <2>2
    <3>2. m \in Subtree(tree, i)
      BY <3>1 DEF Subtree
    <3> QED
      BY <1>3, <3>2
  <2> QED
    BY <1>1, <1>3, <2>1, <2>2
<1>7. Subtree(tree, i) = i..(m - 1) /\ m - 1 \in i..n
  <2>1. m - 1 \in Subtree(tree, i)
    BY <1>1, <1>3, <1>5
  <2> QED
    BY <1>1, <1>3, <1>5, <1>6, <2>1 DEF Subtree
<1>8. itemCount(tree, i) = m - i
  <2>1. Cardinality(i..(m - 1)) = (m - 1) - i + 1
    BY <1>1, <1>3, FS_Interval
  <2> QED
    BY <1>1, <1>3, <1>7, <2>1 DEF itemCount
<1> QED
  BY <1>1, <1>3, <1>7, <1>8 DEF LastBelow

LEMMA SubtreesNest ==
  ASSUME NEW tree \in Seq(SourceNode), NEW i \in DOMAIN tree, NEW j \in i..LastBelow(tree, i)
  PROVE  j \in DOMAIN tree /\ LastBelow(tree, j) <= LastBelow(tree, i)
<1>1. /\ LastBelow(tree, i) \in i..Len(tree) /\ Subtree(tree, i) = i..LastBelow(tree, i)
      /\ i \in 1..Len(tree) /\ Len(tree) \in Nat
  BY SubtreeIsAnInterval
<1>2. j \in DOMAIN tree /\ j \in Subtree(tree, i)
  BY <1>1
<1> DEFINE k == LastBelow(tree, j)
<1>3. k \in j..Len(tree) /\ Subtree(tree, j) = j..k
  BY <1>2, SubtreeIsAnInterval
<1>4. k \in Subtree(tree, j)
  BY <1>1, <1>2, <1>3
<1> HIDE DEF k
<1>5. \A x \in DOMAIN tree : tree[x].depth \in Nat
  <2>1. \A x \in DOMAIN tree : tree[x] \in SourceNode
    OBVIOUS
  <2> QED
    BY <2>1 DEF SourceNode
<1>6. k \in Subtree(tree, i)
  <2>1. CASE j = i
    BY <1>4, <2>1
  <2>2. CASE j # i
    <3>1. tree[j].depth > tree[i].depth
      BY <1>1, <1>2, <2>2 DEF Subtree
    <3>2. \A x \in (i + 1)..j : tree[x].depth > tree[i].depth
      BY <1>2 DEF Subtree
    <3>3. \A x \in (j + 1)..k : tree[x].depth > tree[j].depth
      BY <1>4 DEF Subtree
    <3>4. ASSUME NEW x \in (i + 1)..k
          PROVE  tree[x].depth > tree[i].depth
      <4>1. x \in 1..Len(tree) /\ x \in DOMAIN tree /\ (x \in (i + 1)..j \/ x \in (j + 1)..k)
        BY <1>1, <1>2, <1>3
      <4> QED
        BY <1>2, <1>5, <3>1, <3>2, <3>3, <4>1
    <3>5. k \in i..Len(tree)
      BY <1>1, <1>2, <1>3
    <3> QED
      BY <3>4, <3>5 DEF Subtree
  <2> QED
    BY <2>1, <2>2
<1> QED
  BY <1>1, <1>2, <1>3, <1>6 DEF k

(* What the walk needs to know of a manifest.                               *)
LEMMA ManifestFacts ==
  ASSUME NEW w \in World, NEW mode \in Mode, NEW top \in Entries,
         NEW tree \in ManifestOf(w, mode, top)
  PROVE  /\ tree \in Seq(SourceNode) /\ tree # <<>> /\ 1 \in DOMAIN tree
         /\ tree[1].entry = top /\ Owned(tree[1])
         /\ LastBelow(tree, 1) = Len(tree)
         /\ \A i \in DOMAIN tree :
              /\ Owned(tree[i]) => tree[i].entry \in Within(w, top)
              /\ mode = "PermanentDelete" => Owned(tree[i])
              /\ ~ Owned(tree[i]) => \A j \in i..LastBelow(tree, i) : ~ Owned(tree[j])
<1> DEFINE v == [entry |-> top, ownership |-> "Owned", branch |-> {}]
<1>1. tree \in VisitedFrom(w, mode, top, v, 1) /\ tree \in Listed(w, mode, top, "Owned", 1)
  BY DEF ManifestOf, VisitedFrom
<1>2. tree \in Seq(SourceNode) /\ Len(tree) \in Nat
  BY <1>1 DEF Listed
<1>3. tree # <<>> /\ 1 \in DOMAIN tree /\ tree[1].entry = top /\ Owned(tree[1])
  BY <1>1, <1>2 DEF VisitedFrom, Owned
<1>4. tree[1].depth = 1 /\ \A i \in DOMAIN tree : i # 1 => tree[i].depth > 1
  BY <1>1, <1>3 DEF VisitedFrom, Listed
<1>5. LastBelow(tree, 1) = Len(tree)
  <2>1. Len(tree) \in Subtree(tree, 1)
    BY <1>2, <1>3, <1>4 DEF Subtree
  <2> QED
    BY <1>2, <1>3, <2>1, SubtreeIsAnInterval
<1>6. ASSUME NEW i \in DOMAIN tree
      PROVE  /\ Owned(tree[i]) => tree[i].entry \in Within(w, top)
             /\ mode = "PermanentDelete" => Owned(tree[i])
             /\ ~ Owned(tree[i]) => \A j \in i..LastBelow(tree, i) : ~ Owned(tree[j])
  <2>1. ASSUME ~ Owned(tree[i]), NEW j \in i..LastBelow(tree, i)
        PROVE  ~ Owned(tree[j])
    <3>1. j \in Subtree(tree, i) /\ j \in DOMAIN tree
      BY <1>2, SubtreeIsAnInterval, SubtreesNest
    <3>2. i <= j /\ \A k \in (i + 1)..j : tree[k].depth > tree[i].depth
      BY <1>2, <3>1 DEF Subtree
    <3> QED
      BY <1>1, <2>1, <3>1, <3>2 DEF Listed
  <2> QED
    BY <1>1, <2>1 DEF Listed
<1> QED
  BY <1>2, <1>3, <1>5, <1>6

(* An entry that needs no scan makes a manifest of its own.                 *)
LEMMA ALeafIsAManifest ==
  ASSUME NEW w \in World, NEW mode \in Mode, NEW top \in Entries, NEW kind \in EntryKind
  PROVE  <<[entry |-> top, kind |-> kind, ownership |-> "Owned", depth |-> 1]>>
           \in ManifestOf(w, mode, top)
<1> DEFINE node == [entry |-> top, kind |-> kind, ownership |-> "Owned", depth |-> 1]
           v == [entry |-> top, ownership |-> "Owned", branch |-> {}]
<1>1. node \in SourceNode /\ v \in Visit /\ "Owned" \in SourceOwnership
  BY DEF SourceNode, Visit, SourceOwnership
<1>2. top \in Within(w, top) /\ <<>> \in Listed(w, mode, top, "Owned", 1 + 1)
  BY WithinFacts, NothingIsListed
<1>3. <<node>> \o <<>> \in VisitedFrom(w, mode, top, v, 1)
  <2>1. /\ node.entry = v.entry /\ node.ownership = v.ownership /\ node.depth = 1
        /\ v.ownership = "Owned" /\ v.entry = top
    OBVIOUS
  <2> HIDE DEF node, v
  <2> QED
    BY <1>1, <1>2, <2>1, NodeComesFirst
<1>4. <<node>> \o <<>> = <<node>> /\ Len(<<node>>) = 1
  OBVIOUS
<1> QED
  BY <1>3, <1>4, LimitsAssumption DEF ManifestOf

-----------------------------------------------------------------------------
(***************************************************************************)
(* The inductive invariant of the walk.                                    *)
(***************************************************************************)
BuildMode == IF request = "Delete" THEN "PermanentDelete" ELSE "MaterializingTransfer"
Frame == [node: Nat \ {0}, aggregate: {"Completed", "Partial", "Failed"},
          allCompleted: BOOLEAN, cross: BOOLEAN]
Reason == {"skipped", "satisfied", "failed", "kept"}
Counters == {"completed", "skipped", "satisfied", "failed"}

WalkTypes ==
  /\ request \in Request /\ world \in World
  /\ root \in 1..Len(world.roots)
  /\ manifest \in {<<>>} \cup ManifestOf(world, BuildMode, Root)
  /\ next \in 1..(Len(manifest) + 1)
  /\ frames \in Seq(Frame)
  /\ left \subseteq (DOMAIN manifest) \X Reason
  /\ totals \in [unresolved: 0..Len(world.roots), items: Nat]
  /\ tally \in [Counters -> Nat] /\ itemsProcessed \in Nat
  /\ anyFailed \in BOOLEAN /\ result \in NodeOutcome \cup {"none"}

(* The open directories lie one within the other, around the place the walk *)
(* has come to; nothing is left where the walk has not been.                *)
WalkNests ==
  /\ manifest = <<>> => frames = <<>> /\ next = 1 /\ left = {}
  /\ frames # <<>> => frames[1].node = 1
  /\ \A k \in DOMAIN frames :
       frames[k].node < next /\ next <= LastBelow(manifest, frames[k].node) + 1
  /\ \A k, l \in DOMAIN frames : k < l => frames[k].node < frames[l].node
  /\ \A entry \in left : entry[1] < next
  /\ pc \in {"rootEnds", "done"} => frames = <<>>

(* An entry that is left does not keep the directory of a frame.            *)
KeepsNothing(op, tree, frame, entry) ==
  /\ op # "Delete" /\ entry[2] = "satisfied"
  /\ op = "Move" /\ Owned(tree[frame.node]) /\ frame.allCompleted => ~ Owned(tree[entry[1]])

(* While an open directory knows of nothing that keeps it, what is left in  *)
(* the part of it that the walk has returned from does not.                 *)
FramesKnowWhatIsLeft ==
  \A k \in DOMAIN frames :
    /\ frames[k].allCompleted => frames[k].aggregate = "Completed"
    /\ frames[k].aggregate = "Completed" =>
         \A entry \in left :
           /\ frames[k].node <= entry[1]
           /\ k < Len(frames) => entry[1] < frames[k + 1].node
           => KeepsNothing(request, manifest, frames[k], entry)

(* Directories that are counted when they are left, not when entered.       *)
CountsLate(op, tree, node) == op = "Delete" \/ (op = "Move" /\ Owned(tree[node]))
Uncounted(op, tree, open) == {k \in DOMAIN open : CountsLate(op, tree, open[k].node)}

(* What is processed, what is to come and the open directories make up the  *)
(* items known.                                                             *)
AccountsMeet ==
  CASE pc = "rootEnds" ->
         /\ totals.unresolved = Len(world.roots) - root
         /\ itemsProcessed <= totals.items
         /\ result # "Cancelled" => itemsProcessed = totals.items
    [] pc = "done" ->
         /\ itemsProcessed <= totals.items
         /\ result # "Cancelled" => itemsProcessed = totals.items /\ totals.unresolved = 0
    [] OTHER ->
         IF Unscanned
         THEN totals.unresolved = Len(world.roots) - root + 1 /\ itemsProcessed = totals.items
         ELSE /\ totals.unresolved = Len(world.roots) - root
              /\ itemsProcessed + (Len(manifest) + 1 - next) + Cardinality(Uncounted(request, manifest, frames)) = totals.items

WalkInv == WalkTypes /\ WalkNests /\ FramesKnowWhatIsLeft /\ AccountsMeet

UnderWay == pc \notin {"rootEnds", "done"}

(* The node at "next" is to be dealt with.                                  *)
Pending ==
  /\ ~ Unscanned /\ next \in DOMAIN manifest
  /\ frames = <<>> => next = 1
  /\ frames # <<>> => next \in Subtree(manifest, Top.node)

(* The children of the directory at the top have been dealt with.           *)
ChildrenDone ==
  ~ Unscanned /\ frames # <<>> /\ next \notin Subtree(manifest, Top.node)

(* The manifest as the walk sees it.                                        *)
LEMMA WalkManifest ==
  ASSUME WalkTypes
  PROVE  /\ Root \in Entries /\ BuildMode \in Mode
         /\ manifest \in Seq(SourceNode) /\ Len(manifest) \in Nat
         /\ ~ Unscanned =>
              /\ 1 \in DOMAIN manifest /\ manifest[1].entry = Root /\ Owned(manifest[1])
              /\ LastBelow(manifest, 1) = Len(manifest)
              /\ \A i \in DOMAIN manifest :
                   /\ LastBelow(manifest, i) \in i..Len(manifest)
                   /\ Subtree(manifest, i) = i..LastBelow(manifest, i)
                   /\ itemCount(manifest, i) = LastBelow(manifest, i) - i + 1
                   /\ \A j \in i..LastBelow(manifest, i) :
                        LastBelow(manifest, j) <= LastBelow(manifest, i)
                   /\ Owned(manifest[i]) => manifest[i].entry \in Within(world, Root)
                   /\ request = "Delete" => Owned(manifest[i])
                   /\ ~ Owned(manifest[i]) =>
                        \A j \in i..LastBelow(manifest, i) : ~ Owned(manifest[j])
<1>1. Root \in Entries /\ BuildMode \in Mode /\ world \in World
  BY DEF WalkTypes, World, BuildMode, Mode, Root
<1>2. CASE Unscanned
  BY <1>1, <1>2 DEF Unscanned
<1>3. CASE ~ Unscanned
  <2>1. manifest \in ManifestOf(world, BuildMode, Root)
    BY <1>3 DEF WalkTypes, Unscanned
  <2>2. /\ manifest \in Seq(SourceNode) /\ 1 \in DOMAIN manifest
        /\ manifest[1].entry = Root /\ Owned(manifest[1])
        /\ LastBelow(manifest, 1) = Len(manifest)
        /\ \A i \in DOMAIN manifest :
             /\ Owned(manifest[i]) => manifest[i].entry \in Within(world, Root)
             /\ BuildMode = "PermanentDelete" => Owned(manifest[i])
             /\ ~ Owned(manifest[i]) =>
                  \A j \in i..LastBelow(manifest, i) : ~ Owned(manifest[j])
    BY <1>1, <2>1, ManifestFacts
  <2>3. \A i \in DOMAIN manifest :
          /\ LastBelow(manifest, i) \in i..Len(manifest)
          /\ Subtree(manifest, i) = i..LastBelow(manifest, i)
          /\ itemCount(manifest, i) = LastBelow(manifest, i) - i + 1
          /\ \A j \in i..LastBelow(manifest, i) :
               LastBelow(manifest, j) <= LastBelow(manifest, i)
    BY <2>2, SubtreeIsAnInterval, SubtreesNest
  <2>4. request = "Delete" => BuildMode = "PermanentDelete"
    BY DEF BuildMode
  <2>5. Len(manifest) \in Nat
    BY <2>2
  <2> HIDE DEF Root
  <2> QED
    BY <1>1, <2>2, <2>3, <2>4, <2>5
<1> QED
  BY <1>2, <1>3

(* An outcome that is handed up ends the root or is entered in the frame    *)
(* above.                                                                   *)
HandedUp(outcome, above) ==
  /\ pc' = "node" /\ result' = result /\ frames' \in Seq(Frame) /\ Len(frames') = Len(above)
  /\ \A k \in DOMAIN above : frames'[k].node = above[k].node /\ frames'[k].cross = above[k].cross
  /\ \A k \in 1..(Len(above) - 1) : frames'[k] = above[k]
  /\ LET old == above[Len(above)]
         new == frames'[Len(above)]
     IN /\ new.allCompleted <=> old.allCompleted /\ outcome = "Completed"
        /\ new.aggregate = aggregateChildOutcome(old.aggregate, outcome)

LEMMA ReturnHandsUp ==
  ASSUME NEW outcome \in NodeOutcome, NEW above \in Seq(Frame), Return(outcome, above)
  PROVE  /\ resume' = "none" /\ anyFailed' = anyFailed
         /\ \/ /\ outcome = "Cancelled" \/ above = <<>>
               /\ pc' = "rootEnds" /\ result' = outcome /\ frames' = <<>>
            \/ outcome # "Cancelled" /\ above # <<>> /\ HandedUp(outcome, above)
<1>1. CASE outcome = "Cancelled"
  BY <1>1 DEF Return, Unwind
<1>2. CASE outcome # "Cancelled" /\ above = <<>>
  BY <1>2 DEF Return
<1>3. CASE outcome # "Cancelled" /\ above # <<>>
  <2> DEFINE n == Len(above)
             old == above[n]
             new == WithChildOutcome(old, outcome)
  <2>1. n \in Nat /\ n \in DOMAIN above /\ old \in Frame /\ DOMAIN above = 1..n
    BY <1>3
  <2>2. aggregateChildOutcome(old.aggregate, outcome) \in {"Completed", "Partial", "Failed"}
    BY <1>3, <2>1 DEF aggregateChildOutcome, Frame, NodeOutcome
  <2>3. /\ new \in Frame /\ new.node = old.node /\ new.cross = old.cross
        /\ new.aggregate = aggregateChildOutcome(old.aggregate, outcome)
        /\ new.allCompleted <=> old.allCompleted /\ outcome = "Completed"
    BY <2>1, <2>2 DEF Frame, WithChildOutcome
  <2>4. frames' = [above EXCEPT ![n] = new] /\ Goto("node")
    BY <1>3 DEF Return
  <2> HIDE DEF new
  <2>5. /\ frames' \in Seq(Frame) /\ Len(frames') = n /\ frames'[n] = new
        /\ \A k \in 1..(n - 1) : frames'[k] = above[k]
    BY <2>1, <2>3, <2>4
  <2>6. \A k \in DOMAIN above : frames'[k].node = above[k].node /\ frames'[k].cross = above[k].cross
    BY <2>1, <2>3, <2>5
  <2> QED
    BY <1>3, <2>3, <2>4, <2>5, <2>6 DEF HandedUp, Goto
<1> QED
  BY <1>1, <1>2, <1>3

-----------------------------------------------------------------------------
(***************************************************************************)
(* The moves the walk is made of, each of which keeps the invariant.       *)
(***************************************************************************)
LEMMA FrontOfFrames ==
  ASSUME NEW open \in Seq(Frame), open # <<>>
  PROVE  /\ Front(open) \in Seq(Frame) /\ Len(Front(open)) = Len(open) - 1
         /\ \A k \in 1..(Len(open) - 1) : Front(open)[k] = open[k]
         /\ Front(open) = <<>> <=> Len(open) = 1
<1> DEFINE front == SubSeq(open, 1, Len(open) - 1)
<1>1. Len(open) \in Nat /\ Len(open) >= 1 /\ \A k \in 1..(Len(open) - 1) : k \in 1..Len(open)
  OBVIOUS
<1>2. front \in Seq(Frame)
  BY <1>1
<1>3. Len(front) = Len(open) - 1 /\ \A k \in 1..(Len(open) - 1) : front[k] = open[k]
  <2>1. Len(front) = IF 1 <= Len(open) - 1 THEN (Len(open) - 1) - 1 + 1 ELSE 0
    BY <1>1, SubSeqProperties
  <2>2. \A k \in 1..(Len(open) - 1) : front[k] = open[1 + k - 1]
    BY <1>1, SubSeqProperties
  <2>3. \A k \in 1..(Len(open) - 1) : 1 + k - 1 = k
    BY <1>1
  <2> HIDE DEF front
  <2>4. Len(front) = Len(open) - 1
    <3> DEFINE n == Len(open)
               m == Len(front)
    <3>1. n \in Nat /\ n >= 1 /\ m = IF 1 <= n - 1 THEN (n - 1) - 1 + 1 ELSE 0
      BY <1>1, <2>1
    <3> HIDE DEF n, m
    <3>2. m = n - 1
      BY <3>1
    <3> QED
      BY <3>2 DEF n, m
  <2> QED
    BY <2>2, <2>3, <2>4
<1> HIDE DEF front
<1>4. front = <<>> <=> Len(open) = 1
  BY <1>1, <1>2, <1>3
<1> QED
  BY <1>2, <1>3, <1>4 DEF Front, front

LEMMA CountingUncounted ==
  ASSUME NEW op, NEW tree, NEW open \in Seq(Frame)
  PROVE  /\ IsFiniteSet(Uncounted(op, tree, open)) /\ Cardinality(Uncounted(op, tree, open)) \in Nat
         /\ Uncounted(op, tree, <<>>) = {} /\ Cardinality(Uncounted(op, tree, <<>>)) = 0
         /\ open # <<>> =>
              Cardinality(Uncounted(op, tree, open)) = Cardinality(Uncounted(op, tree, Front(open)))
                + IF CountsLate(op, tree, open[Len(open)].node) THEN 1 ELSE 0
<1> DEFINE n == Len(open)
<1>1. n \in Nat /\ DOMAIN open = 1..n
  OBVIOUS
<1>2. IsFiniteSet(Uncounted(op, tree, open)) /\ Cardinality(Uncounted(op, tree, open)) \in Nat
  <2>1. IsFiniteSet(1..n)
    BY <1>1, FS_Interval
  <2>2. Uncounted(op, tree, open) \subseteq 1..n
    BY DEF Uncounted
  <2> QED
    BY <2>1, <2>2, FS_Subset, FS_CardinalityType
<1>3. Uncounted(op, tree, <<>>) = {} /\ Cardinality(Uncounted(op, tree, <<>>)) = 0
  <2>1. Uncounted(op, tree, <<>>) = {}
    BY DEF Uncounted
  <2> QED
    BY <2>1, FS_EmptySet
<1>4. ASSUME open # <<>>
      PROVE  Cardinality(Uncounted(op, tree, open)) = Cardinality(Uncounted(op, tree, Front(open)))
               + IF CountsLate(op, tree, open[n].node) THEN 1 ELSE 0
  <2>1. n \in DOMAIN open /\ n >= 1
    BY <1>1, <1>4
  <2>2. Uncounted(op, tree, Front(open)) = Uncounted(op, tree, open) \ {n}
    <3>1. DOMAIN Front(open) = 1..(n - 1) /\ \A k \in 1..(n - 1) : Front(open)[k] = open[k]
      BY <1>4, FrontOfFrames
    <3> QED
      BY <1>1, <2>1, <3>1 DEF Uncounted
  <2>3. CASE CountsLate(op, tree, open[n].node)
    <3>1. n \in Uncounted(op, tree, open)
      BY <2>1, <2>3 DEF Uncounted
    <3>2. Cardinality(Uncounted(op, tree, open) \ {n}) = Cardinality(Uncounted(op, tree, open)) - 1
      BY <1>2, <3>1, FS_RemoveElement
    <3> QED
      BY <1>2, <2>2, <2>3, <3>2
  <2>4. CASE ~ CountsLate(op, tree, open[n].node)
    <3>1. Uncounted(op, tree, open) \ {n} = Uncounted(op, tree, open)
      BY <2>4 DEF Uncounted
    <3>2. Uncounted(op, tree, Front(open)) = Uncounted(op, tree, open)
      BY <2>2, <3>1
    <3>3. Cardinality(Uncounted(op, tree, Front(open))) \in Nat
      BY <1>2, <3>2
    <3> QED
      BY <2>4, <3>2, <3>3
  <2> QED
    BY <2>3, <2>4
<1> QED
  BY <1>2, <1>3, <1>4

LEMMA SameNodesSameCount ==
  ASSUME NEW op, NEW tree, NEW open \in Seq(Frame), NEW later \in Seq(Frame), Len(open) = Len(later),
         \A k \in DOMAIN open : open[k].node = later[k].node
  PROVE  Uncounted(op, tree, open) = Uncounted(op, tree, later)
BY DEF Uncounted

LEMMA MoveStays ==
  ASSUME WalkInv, UnderWay, UnderWay',
         UNCHANGED <<request, world, walkVars, accountVars, result, anyFailed>>
  PROVE  WalkInv'
<1>1. UNCHANGED <<request, world, root, manifest, next, frames, left, totals, tally,
                  itemsProcessed, result, anyFailed>>
  BY DEF walkVars, accountVars
<1>2. WalkTypes'
  BY <1>1 DEF WalkInv, WalkTypes, BuildMode, Root
<1>3. WalkNests'
  BY <1>1 DEF WalkInv, WalkNests, UnderWay
<1>4. FramesKnowWhatIsLeft'
  BY <1>1 DEF WalkInv, FramesKnowWhatIsLeft, KeepsNothing
<1>5. AccountsMeet'
  <2>1. Uncounted(request, manifest, frames)' = Uncounted(request, manifest, frames)
    BY <1>1
  <2> QED
    BY <1>1, <2>1 DEF WalkInv, AccountsMeet, UnderWay, Unscanned
<1> QED
  BY <1>2, <1>3, <1>4, <1>5 DEF WalkInv

(* A root ends before it is scanned.                                        *)
LEMMA MoveEndsUnscanned ==
  ASSUME WalkInv, UnderWay, Unscanned, UNCHANGED <<request, world>>,
         NEW outcome \in {"Completed", "Skipped", "AlreadySatisfied", "Cancelled"},
         finishUnscannedRoot(outcome)
  PROVE  WalkInv'
<1>1. /\ UNCHANGED <<request, world, root, manifest, next, frames, left, anyFailed>>
      /\ pc' = "rootEnds" /\ result' = outcome
  BY DEF finishUnscannedRoot, walkVars
<1>2. totals.unresolved = Len(world.roots) - root + 1 /\ itemsProcessed = totals.items
      /\ totals \in [unresolved: 0..Len(world.roots), items: Nat] /\ root \in 1..Len(world.roots)
      /\ itemsProcessed \in Nat /\ Len(world.roots) \in Nat /\ tally \in [Counters -> Nat]
  BY DEF WalkInv, AccountsMeet, UnderWay, WalkTypes, World
<1>3. /\ totals' \in [unresolved: 0..Len(world.roots), items: Nat]
      /\ totals'.unresolved = Len(world.roots) - root
      /\ itemsProcessed' \in Nat /\ itemsProcessed' = totals'.items
      /\ tally' \in [Counters -> Nat]
  <2>1. CASE outcome = "Completed"
    <3>1. Count("completed", 1) /\ advance(1) /\ rootTotalsResolved(1)
      BY <2>1 DEF finishUnscannedRoot
    <3>2. tally' \in [Counters -> Nat]
      BY <1>2, <3>1 DEF Count, Counters
    <3>3. /\ totals' = [unresolved |-> totals.unresolved - 1, items |-> totals.items + 1]
          /\ itemsProcessed' = itemsProcessed + 1
      BY <3>1 DEF rootTotalsResolved, advance
    <3>4. totals.unresolved - 1 = Len(world.roots) - root
      BY <1>2
    <3>5. Len(world.roots) - root \in 0..Len(world.roots) /\ totals.items + 1 \in Nat
      BY <1>2
    <3> QED
      BY <1>2, <3>2, <3>3, <3>4, <3>5
  <2>2. CASE outcome = "Skipped"
    <3>1. Count("skipped", 1) /\ UNCHANGED itemsProcessed /\ rootTotalsResolved(0)
      BY <2>2 DEF finishUnscannedRoot
    <3> QED
      BY <1>2, <3>1 DEF rootTotalsResolved, advance, Count, Counters
  <2>3. CASE outcome = "AlreadySatisfied"
    <3>1. Count("satisfied", 1) /\ UNCHANGED itemsProcessed /\ rootTotalsResolved(0)
      BY <2>3 DEF finishUnscannedRoot
    <3> QED
      BY <1>2, <3>1 DEF rootTotalsResolved, advance, Count, Counters
  <2>4. CASE outcome = "Cancelled"
    BY <1>2, <2>4 DEF finishUnscannedRoot, rootTotalsResolved, advance, Count, Counters
  <2> QED
    BY <2>1, <2>2, <2>3, <2>4
<1>4. WalkTypes'
  BY <1>1, <1>3 DEF WalkInv, WalkTypes, BuildMode, Root, NodeOutcome
<1>5. WalkNests'
  BY <1>1 DEF WalkInv, WalkNests, Unscanned
<1>6. FramesKnowWhatIsLeft'
  BY <1>1 DEF WalkInv, FramesKnowWhatIsLeft, KeepsNothing
<1>7. AccountsMeet'
  BY <1>1, <1>2, <1>3 DEF AccountsMeet
<1> QED
  BY <1>4, <1>5, <1>6, <1>7 DEF WalkInv

(* A cancelled walk leaves all its directories at once.                     *)
LEMMA MoveUnwinds ==
  ASSUME WalkInv, UnderWay, ~ Unscanned, UNCHANGED <<request, world>>, Unwind,
         UNCHANGED <<root, manifest, next, left, accountVars>>
  PROVE  WalkInv'
<1>1. /\ UNCHANGED <<request, world, root, manifest, next, left, anyFailed, totals, tally,
                    itemsProcessed>>
      /\ pc' = "rootEnds" /\ result' = "Cancelled" /\ frames' = <<>>
  BY DEF Unwind, accountVars
<1>2. WalkTypes'
  BY <1>1 DEF WalkInv, WalkTypes, BuildMode, Root, NodeOutcome
<1>3. WalkNests'
  BY <1>1 DEF WalkInv, WalkNests, Unscanned
<1>4. FramesKnowWhatIsLeft'
  BY <1>1 DEF FramesKnowWhatIsLeft
<1>5. AccountsMeet'
  <2>1. /\ totals.unresolved = Len(world.roots) - root
        /\ itemsProcessed + (Len(manifest) + 1 - next) + Cardinality(Uncounted(request, manifest, frames)) = totals.items
    BY DEF WalkInv, AccountsMeet, UnderWay
  <2>2. /\ Cardinality(Uncounted(request, manifest, frames)) \in Nat /\ next \in 1..(Len(manifest) + 1)
        /\ itemsProcessed \in Nat /\ Len(manifest) \in Nat
    BY CountingUncounted, WalkManifest DEF WalkInv, WalkTypes
  <2>3. itemsProcessed <= totals.items
    BY <2>1, <2>2
  <2> QED
    BY <1>1, <2>1, <2>3 DEF AccountsMeet
<1> QED
  BY <1>2, <1>3, <1>4, <1>5 DEF WalkInv

(* The manifest of a root is there.                                         *)
LEMMA MoveScans ==
  ASSUME WalkInv, UnderWay, UnderWay', Unscanned, UNCHANGED <<request, world>>,
         manifest' \in ManifestOf(world, BuildMode, Root), rootTotalsResolved(Len(manifest')),
         UNCHANGED <<root, next, frames, left, tally, itemsProcessed, result, anyFailed>>
  PROVE  WalkInv'
<1>1. /\ manifest' \in Seq(SourceNode) /\ manifest' # <<>> /\ Len(manifest') \in Nat
      /\ Len(manifest') >= 1
  <2>1. manifest' \in Seq(SourceNode) /\ manifest' # <<>>
    BY DEF ManifestOf, VisitedFrom, Listed
  <2> QED
    BY <2>1
<1>2. frames = <<>> /\ next = 1 /\ left = {}
  BY DEF WalkInv, WalkNests, Unscanned
<1>3. totals.unresolved = Len(world.roots) - root + 1 /\ itemsProcessed = totals.items
      /\ totals \in [unresolved: 0..Len(world.roots), items: Nat] /\ root \in 1..Len(world.roots)
      /\ itemsProcessed \in Nat /\ Len(world.roots) \in Nat
  BY DEF WalkInv, AccountsMeet, UnderWay, WalkTypes, World
<1>4. /\ totals' \in [unresolved: 0..Len(world.roots), items: Nat]
      /\ totals'.unresolved = Len(world.roots) - root
      /\ totals'.items = itemsProcessed + Len(manifest')
  BY <1>1, <1>3 DEF rootTotalsResolved
<1>5. WalkTypes'
  <2>1. next' \in 1..(Len(manifest') + 1) /\ left' = {} /\ BuildMode' = BuildMode /\ Root' = Root
    BY <1>1, <1>2 DEF BuildMode, Root
  <2> QED
    BY <1>4, <2>1 DEF WalkInv, WalkTypes
<1>6. WalkNests'
  BY <1>1, <1>2 DEF WalkInv, WalkNests, UnderWay
<1>7. FramesKnowWhatIsLeft'
  BY <1>2 DEF FramesKnowWhatIsLeft
<1>8. AccountsMeet'
  <2>1. Cardinality(Uncounted(request, manifest, frames))' = 0
    <3>1. Uncounted(request, manifest, frames)' = {}
      BY <1>2 DEF Uncounted
    <3> QED
      BY <3>1, FS_EmptySet
  <2> QED
    BY <1>1, <1>2, <1>3, <1>4, <2>1 DEF AccountsMeet, UnderWay, Unscanned
<1> QED
  BY <1>5, <1>6, <1>7, <1>8 DEF WalkInv

(* A node and what lies below it are passed over.                           *)
Passes(counter, outcome) ==
  \/ counter = "completed" /\ outcome = "Completed"
  \/ counter = "skipped" /\ outcome = "Skipped"
  \/ counter = "satisfied" /\ outcome = "AlreadySatisfied" /\ request # "Delete"
  \/ counter = "failed" /\ outcome \in {"Failed", "Cancelled"}

LEMMA FrameNodes ==
  ASSUME WalkTypes, WalkNests, NEW k \in DOMAIN frames
  PROVE  /\ k \in 1..Len(frames) /\ Len(frames) \in Nat /\ frames[k] \in Frame
         /\ frames[k].node \in DOMAIN manifest /\ frames[k].node \in 1..Len(manifest)
         /\ frames[k].node < next /\ Len(manifest) \in Nat /\ next \in 1..(Len(manifest) + 1)
         /\ LastBelow(manifest, frames[k].node) \in frames[k].node..Len(manifest)
         /\ next <= LastBelow(manifest, frames[k].node) + 1
<1>1. frames \in Seq(Frame) /\ next \in 1..(Len(manifest) + 1)
  BY DEF WalkTypes
<1>2. Len(manifest) \in Nat /\ DOMAIN manifest = 1..Len(manifest)
  BY WalkManifest
<1>3. frames[k] \in Frame /\ k \in 1..Len(frames) /\ Len(frames) \in Nat
  BY <1>1
<1>4. frames[k].node \in Nat \ {0}
  BY <1>3 DEF Frame
<1>5. frames[k].node < next /\ next <= LastBelow(manifest, frames[k].node) + 1
  BY DEF WalkNests
<1>6. frames[k].node \in 1..Len(manifest)
  BY <1>1, <1>2, <1>4, <1>5
<1>7. ~ Unscanned
  BY <1>2, <1>6 DEF Unscanned
<1>8. LastBelow(manifest, frames[k].node) \in frames[k].node..Len(manifest)
  BY <1>2, <1>6, <1>7, WalkManifest
<1> QED
  BY <1>1, <1>2, <1>3, <1>5, <1>6, <1>8

LEMMA PendingFacts ==
  ASSUME WalkTypes, WalkNests, Pending
  PROVE  /\ next \in 1..Len(manifest) /\ Len(manifest) \in Nat
         /\ LastBelow(manifest, next) \in next..Len(manifest)
         /\ itemCount(manifest, next) = LastBelow(manifest, next) - next + 1
         /\ Subtree(manifest, next) = next..LastBelow(manifest, next)
         /\ \A k \in DOMAIN frames :
              LastBelow(manifest, next) <= LastBelow(manifest, frames[k].node)
         /\ frames = <<>> => next = 1 /\ LastBelow(manifest, next) = Len(manifest)
<1>1. next \in 1..Len(manifest) /\ Len(manifest) \in Nat /\ next \in DOMAIN manifest
  BY WalkManifest DEF Pending
<1>2. /\ LastBelow(manifest, next) \in next..Len(manifest)
      /\ itemCount(manifest, next) = LastBelow(manifest, next) - next + 1
      /\ Subtree(manifest, next) = next..LastBelow(manifest, next)
  BY <1>1, WalkManifest DEF Pending
<1>3. ASSUME NEW k \in DOMAIN frames
      PROVE  LastBelow(manifest, next) <= LastBelow(manifest, frames[k].node)
  <2> DEFINE n == Len(frames)
             node == frames[k].node
  <2>1. n \in DOMAIN frames /\ k <= n /\ frames \in Seq(Frame) /\ n \in Nat /\ k \in Nat
    BY DEF WalkTypes
  <2>2. next \in Subtree(manifest, Top.node) /\ Top = frames[n]
    BY <2>1 DEF Pending, Top
  <2>3. frames[k] \in Frame /\ frames[n] \in Frame
    BY <2>1
  <2>4. frames[k].node \in Nat \ {0} /\ frames[n].node \in Nat \ {0}
    BY <2>3 DEF Frame
  <2>5. frames[k].node < next /\ frames[n].node < next
    BY <2>1 DEF WalkNests
  <2>6. frames[k].node \in DOMAIN manifest /\ frames[n].node \in DOMAIN manifest
    BY <1>1, <2>4, <2>5
  <2>7. next \in frames[n].node..LastBelow(manifest, frames[n].node)
    BY <2>2, <2>6, WalkManifest DEF Pending
  <2>8. LastBelow(manifest, next) <= LastBelow(manifest, frames[n].node)
    BY <2>6, <2>7, WalkManifest DEF Pending
  <2>9. CASE k = n
    BY <2>8, <2>9
  <2>10. CASE k # n
    <3>1. frames[k].node < frames[n].node
      BY <2>1, <2>10 DEF WalkNests
    <3>2. next <= LastBelow(manifest, frames[k].node) + 1
      BY DEF WalkNests
    <3>3. frames[n].node \in frames[k].node..LastBelow(manifest, frames[k].node)
      <4>1. LastBelow(manifest, frames[k].node) \in frames[k].node..Len(manifest)
        BY <2>6, WalkManifest DEF Pending
      <4> QED
        BY <1>1, <2>4, <2>5, <3>1, <3>2, <4>1
    <3>4. LastBelow(manifest, frames[n].node) <= LastBelow(manifest, frames[k].node)
      BY <2>6, <3>3, WalkManifest DEF Pending
    <3>5. /\ LastBelow(manifest, frames[n].node) \in Nat
          /\ LastBelow(manifest, frames[k].node) \in Nat
          /\ LastBelow(manifest, next) \in Nat
      <4>1. \A i \in DOMAIN manifest : LastBelow(manifest, i) \in i..Len(manifest)
        BY WalkManifest DEF Pending
      <4> QED
        BY <1>1, <2>4, <2>6, <4>1
    <3> QED
      BY <2>8, <3>4, <3>5
  <2> QED
    BY <2>9, <2>10
<1>4. frames = <<>> => next = 1 /\ LastBelow(manifest, next) = Len(manifest)
  BY WalkManifest DEF Pending
<1> QED
  BY <1>1, <1>2, <1>3, <1>4

LEMMA MovePassesOver ==
  ASSUME WalkInv, UnderWay, Pending, UNCHANGED <<request, world>>,
         NEW counter \in Counters, NEW outcome \in NodeOutcome, Passes(counter, outcome),
         PassOver(counter, outcome)
  PROVE  WalkInv'
<1> DEFINE last == LastBelow(manifest, next)
           count == last - next + 1
<1>1. /\ next \in 1..Len(manifest) /\ Len(manifest) \in Nat /\ last \in next..Len(manifest)
      /\ itemCount(manifest, next) = count /\ Subtree(manifest, next) = next..last
      /\ \A k \in DOMAIN frames : last <= LastBelow(manifest, frames[k].node)
      /\ frames = <<>> => next = 1 /\ last = Len(manifest)
  BY PendingFacts DEF WalkInv
<1> HIDE DEF last
<1>2. /\ UNCHANGED <<request, world, root, manifest, totals, anyFailed>>
      /\ next' = last + 1 /\ itemsProcessed' = itemsProcessed + count
      /\ left' = IF counter = "completed" THEN left ELSE left \cup (next..last) \X {counter}
      /\ tally' = [tally EXCEPT ![counter] = @ + count]
  <2>1. /\ UNCHANGED <<root, manifest, totals>>
        /\ next' = next + count /\ itemsProcessed' = itemsProcessed + count
        /\ left' = IF counter = "completed" THEN left ELSE left \cup (next..last) \X {counter}
        /\ tally' = [tally EXCEPT ![counter] = @ + count] /\ Return(outcome, frames)
    BY <1>1 DEF PassOver, Count, advance
  <2>2. anyFailed' = anyFailed
    BY <2>1 DEF Return, Unwind, Goto
  <2> QED
    BY <1>1, <2>1, <2>2
<1>3. /\ WalkTypes /\ frames \in Seq(Frame) /\ itemsProcessed \in Nat
      /\ \A k \in DOMAIN frames : frames[k] \in Frame /\ frames[k].node \in Nat
  <2>1. frames \in Seq(Frame) /\ \A k \in DOMAIN frames : frames[k] \in Frame
    BY DEF WalkInv, WalkTypes
  <2> QED
    BY <2>1 DEF WalkInv, WalkTypes, Frame
<1>4. \/ /\ outcome = "Cancelled" \/ frames = <<>>
         /\ pc' = "rootEnds" /\ result' = outcome /\ frames' = <<>>
      \/ outcome # "Cancelled" /\ frames # <<>> /\ HandedUp(outcome, frames)
  BY <1>3, ReturnHandsUp DEF PassOver
<1>5. WalkTypes'
  <2>1. left' \subseteq (DOMAIN manifest) \X Reason
    <3>1. left \subseteq (DOMAIN manifest) \X Reason /\ DOMAIN manifest = 1..Len(manifest)
      BY WalkManifest DEF WalkInv, WalkTypes
    <3>2. counter # "completed" => counter \in Reason
      BY DEF Counters, Reason
    <3>3. (next..last) \subseteq DOMAIN manifest
      <4>1. \A i \in next..last : i \in 1..Len(manifest)
        BY <1>1
      <4> QED
        BY <3>1, <4>1
    <3> QED
      BY <1>2, <3>1, <3>2, <3>3
  <2>2. next' \in 1..(Len(manifest) + 1) /\ itemsProcessed' \in Nat
    BY <1>1, <1>2, <1>3
  <2>3. tally' \in [Counters -> Nat]
    <3>1. count \in Nat /\ tally \in [Counters -> Nat]
      BY <1>1 DEF WalkInv, WalkTypes
    <3> QED
      BY <1>2, <3>1
  <2>4. frames' \in Seq(Frame) /\ result' \in NodeOutcome \cup {"none"}
    <3>1. result \in NodeOutcome \cup {"none"} /\ <<>> \in Seq(Frame)
      BY <1>3 DEF WalkTypes
    <3> QED
      BY <1>4, <3>1 DEF HandedUp
  <2>5. BuildMode' = BuildMode /\ Root' = Root
    BY <1>2 DEF BuildMode, Root
  <2> QED
    BY <1>2, <1>3, <2>1, <2>2, <2>3, <2>4, <2>5 DEF WalkTypes
<1>6. WalkNests'
  <2>1. manifest # <<>> /\ manifest' = manifest
    BY <1>2 DEF Pending, Unscanned
  <2>2. \A entry \in left' : entry[1] < next'
    <3>1. \A entry \in left : entry[1] < next /\ entry[1] \in Nat
      <4>1. \A entry \in left : entry[1] \in DOMAIN manifest
        BY DEF WalkInv, WalkTypes
      <4>2. DOMAIN manifest \subseteq Nat
        BY WalkManifest DEF WalkInv
      <4> QED
        BY <4>1, <4>2 DEF WalkInv, WalkNests
    <3>2. \A entry \in (next..last) \X {counter} : entry[1] \in next..last
      OBVIOUS
    <3> QED
      BY <1>1, <1>2, <3>1, <3>2
  <2>3. CASE frames' = <<>>
    BY <2>1, <2>2, <2>3 DEF WalkNests
  <2>4. CASE frames # <<>> /\ HandedUp(outcome, frames)
    <3>1. DOMAIN frames' = DOMAIN frames /\ \A k \in DOMAIN frames : frames'[k].node = frames[k].node
      BY <1>3, <2>4 DEF HandedUp
    <3>2. frames[1].node = 1 /\ 1 \in DOMAIN frames /\ frames' # <<>>
      BY <1>3, <2>4, <3>1 DEF WalkInv, WalkNests
    <3>3. \A k \in DOMAIN frames : frames[k].node < next
                                   /\ next <= LastBelow(manifest, frames[k].node) + 1
      BY DEF WalkInv, WalkNests
    <3>4. \A k \in DOMAIN frames : frames[k].node < next'
                                   /\ next' <= LastBelow(manifest, frames[k].node) + 1
      <4>1. \A k \in DOMAIN frames : LastBelow(manifest, frames[k].node) \in Nat
        BY FrameNodes DEF WalkInv
      <4> QED
        BY <1>1, <1>2, <1>3, <3>3, <4>1
    <3>5. pc' = "node"
      BY <2>4 DEF HandedUp
    <3>6. \A k, l \in DOMAIN frames : k < l => frames[k].node < frames[l].node
      BY DEF WalkInv, WalkNests
    <3> QED
      BY <2>1, <2>2, <3>1, <3>2, <3>4, <3>5, <3>6 DEF WalkNests
  <2> QED
    BY <1>4, <2>3, <2>4
<1>7. FramesKnowWhatIsLeft'
  <2>1. CASE frames' = <<>>
    BY <2>1 DEF FramesKnowWhatIsLeft
  <2>2. CASE frames # <<>> /\ HandedUp(outcome, frames)
    <3> DEFINE n == Len(frames)
    <3>1. /\ n \in Nat /\ n >= 1 /\ DOMAIN frames = 1..n /\ DOMAIN frames' = 1..n /\ Len(frames') = n
          /\ \A k \in 1..n : frames'[k].node = frames[k].node
          /\ \A k \in 1..(n - 1) : frames'[k] = frames[k]
          /\ frames'[n].allCompleted <=> frames[n].allCompleted /\ outcome = "Completed"
          /\ frames'[n].aggregate = aggregateChildOutcome(frames[n].aggregate, outcome)
      BY <1>3, <2>2 DEF HandedUp
    <3> SUFFICES ASSUME NEW k \in 1..n
                 PROVE  /\ frames'[k].allCompleted => frames'[k].aggregate = "Completed"
                        /\ frames'[k].aggregate = "Completed" =>
                             \A entry \in left' :
                               /\ frames'[k].node <= entry[1]
                               /\ k < n => entry[1] < frames'[k + 1].node
                               => KeepsNothing(request, manifest, frames'[k], entry)
      BY <1>2, <3>1 DEF FramesKnowWhatIsLeft
    <3>3. /\ frames[k].allCompleted => frames[k].aggregate = "Completed"
          /\ frames[k].aggregate = "Completed" =>
               \A entry \in left :
                 /\ frames[k].node <= entry[1]
                 /\ k < n => entry[1] < frames[k + 1].node
                 => KeepsNothing(request, manifest, frames[k], entry)
      BY <3>1 DEF WalkInv, FramesKnowWhatIsLeft
    <3>4. CASE k < n
      <4>1. frames'[k] = frames[k] /\ frames'[k + 1].node = frames[k + 1].node
            /\ frames[k + 1].node < next /\ frames[k + 1].node \in Nat
        BY <1>3, <3>1, <3>4 DEF WalkInv, WalkNests
      <4>2. \A entry \in left' : entry[1] < frames[k + 1].node => entry \in left
        <5>1. \A entry \in (next..last) \X {counter} : entry[1] \in Nat /\ next <= entry[1]
          BY <1>1
        <5> QED
          BY <1>1, <1>2, <4>1, <5>1
      <4> QED
        BY <3>3, <3>4, <4>1, <4>2
    <3>5. CASE k = n
      <4>1. frames'[n].allCompleted => frames'[n].aggregate = "Completed"
        BY <3>1, <3>3, <3>5 DEF aggregateChildOutcome
      <4>2. ASSUME frames'[n].aggregate = "Completed", NEW entry \in left',
                   frames'[n].node <= entry[1]
            PROVE  KeepsNothing(request, manifest, frames'[n], entry)
        <5>1. frames[n].aggregate = "Completed" /\ outcome \in {"Completed", "AlreadySatisfied"}
          <6>1. frames[n].aggregate \in {"Completed", "Partial", "Failed"}
            BY <1>3, <3>1 DEF Frame
          <6> QED
            BY <3>1, <4>2, <6>1 DEF aggregateChildOutcome, NodeOutcome
        <5>2. CASE entry \in left
          <6>1. KeepsNothing(request, manifest, frames[n], entry)
            BY <3>1, <3>3, <3>5, <4>2, <5>1, <5>2
          <6> QED
            BY <3>1, <6>1 DEF KeepsNothing
        <5>3. CASE entry \notin left
          <6>1. counter = "satisfied" /\ request # "Delete" /\ entry[2] = "satisfied"
                /\ outcome = "AlreadySatisfied"
            BY <1>2, <4>2, <5>1, <5>3 DEF Passes
          <6> QED
            BY <3>1, <6>1 DEF KeepsNothing
        <5> QED
          BY <5>2, <5>3
      <4> QED
        BY <3>5, <4>1, <4>2
    <3>6. k < n \/ k = n
      <4>1. n \in Nat
        BY <3>1
      <4> HIDE DEF n
      <4> QED
        BY <4>1
    <3> QED
      BY <3>4, <3>5, <3>6
  <2> QED
    BY <1>4, <2>1, <2>2
<1>8. AccountsMeet'
  <2>1. /\ totals.unresolved = Len(world.roots) - root
        /\ itemsProcessed + (Len(manifest) + 1 - next) + Cardinality(Uncounted(request, manifest, frames)) = totals.items
    BY DEF WalkInv, AccountsMeet, UnderWay, Pending
  <2>2. Cardinality(Uncounted(request, manifest, frames)) \in Nat
    BY <1>3, CountingUncounted
  <2>3. CASE pc' = "rootEnds" /\ result' = outcome /\ (outcome = "Cancelled" \/ frames = <<>>)
    <3>1. frames = <<>> => Cardinality(Uncounted(request, manifest, frames)) = 0
      BY <1>3, CountingUncounted
    <3> QED
      BY <1>1, <1>2, <1>3, <2>1, <2>2, <2>3, <3>1 DEF AccountsMeet
  <2>4. CASE frames # <<>> /\ HandedUp(outcome, frames)
    <3>1. Uncounted(request, manifest, frames)' = Uncounted(request, manifest, frames)
      <4>1. Uncounted(request, manifest, frames') = Uncounted(request, manifest, frames)
        BY <1>3, <2>4, SameNodesSameCount DEF HandedUp
      <4> QED
        BY <1>2, <4>1
    <3>2. pc' = "node" /\ manifest' # <<>>
      BY <1>2, <2>4 DEF HandedUp, Pending, Unscanned
    <3> QED
      BY <1>1, <1>2, <1>3, <2>1, <2>2, <3>1, <3>2 DEF AccountsMeet, Unscanned
  <2> QED
    BY <1>4, <2>3, <2>4
<1> QED
  BY <1>5, <1>6, <1>7, <1>8 DEF WalkInv

(* A directory is entered: its children come next.                          *)
LEMMA MoveEnters ==
  ASSUME WalkInv, UnderWay, UnderWay', Pending, UNCHANGED <<request, world>>,
         NEW frame \in Frame, frame.node = next, frame.aggregate = "Completed",
         frames' = Append(frames, frame), next' = next + 1,
         itemsProcessed' = itemsProcessed
                           + IF CountsLate(request, manifest, next) THEN 0 ELSE 1,
         tally' \in [Counters -> Nat],
         UNCHANGED <<root, manifest, left, totals, result, anyFailed>>
  PROVE  WalkInv'
<1> DEFINE n == Len(frames)
<1>1. /\ next \in 1..Len(manifest) /\ Len(manifest) \in Nat
      /\ LastBelow(manifest, next) \in next..Len(manifest)
      /\ \A k \in DOMAIN frames : LastBelow(manifest, next) <= LastBelow(manifest, frames[k].node)
      /\ frames = <<>> => next = 1
  BY PendingFacts DEF WalkInv
<1>2. WalkTypes /\ frames \in Seq(Frame) /\ n \in Nat /\ itemsProcessed \in Nat
  BY DEF WalkInv, WalkTypes
<1>3. /\ frames' \in Seq(Frame) /\ DOMAIN frames' = 1..(n + 1) /\ DOMAIN frames = 1..n
      /\ Len(frames') = n + 1 /\ frames'[n + 1] = frame /\ \A k \in 1..n : frames'[k] = frames[k]
      /\ frames' # <<>>
  BY <1>2
<1>4. \A entry \in left : entry[1] < next /\ entry[1] \in Nat
  <2>1. \A entry \in left : entry[1] \in DOMAIN manifest
    BY DEF WalkInv, WalkTypes
  <2>2. DOMAIN manifest \subseteq Nat
    BY WalkManifest DEF WalkInv
  <2> QED
    BY <2>1, <2>2 DEF WalkInv, WalkNests
<1>5. WalkTypes'
  <2>1. next' \in 1..(Len(manifest') + 1) /\ itemsProcessed' \in Nat
    BY <1>1, <1>2
  <2>2. BuildMode' = BuildMode /\ Root' = Root
    BY DEF BuildMode, Root
  <2> QED
    BY <1>2, <1>3, <2>1, <2>2 DEF WalkTypes
<1>6. \A k \in 1..n :
        /\ frames[k].node \in Nat /\ frames[k].node < next
        /\ LastBelow(manifest, frames[k].node) \in Nat
        /\ next <= LastBelow(manifest, frames[k].node)
  <2>1. ASSUME NEW k \in 1..n
        PROVE  /\ frames[k].node \in Nat /\ frames[k].node < next
               /\ LastBelow(manifest, frames[k].node) \in Nat
               /\ next <= LastBelow(manifest, frames[k].node)
    <3>1. /\ frames[k].node \in 1..Len(manifest) /\ frames[k].node < next
          /\ LastBelow(manifest, frames[k].node) \in frames[k].node..Len(manifest)
      BY <1>3, FrameNodes DEF WalkInv
    <3>2. LastBelow(manifest, next) <= LastBelow(manifest, frames[k].node)
      BY <1>1, <1>3
    <3> QED
      BY <1>1, <3>1, <3>2
  <2> QED
    BY <2>1
<1>7. WalkNests'
  <2>1. manifest' # <<>>
    BY DEF Pending, Unscanned
  <2>2. frames'[1].node = 1
    <3>1. CASE n = 0
      <4>1. frames = <<>>
        BY <1>2, <3>1
      <4> QED
        BY <1>1, <1>3, <3>1, <4>1
    <3>2. CASE n # 0
      <4>1. 1 \in 1..n /\ frames # <<>>
        BY <1>2, <3>2
      <4> QED
        BY <1>3, <4>1 DEF WalkInv, WalkNests
    <3> QED
      BY <3>1, <3>2
  <2>3. ASSUME NEW k \in 1..(n + 1)
        PROVE  frames'[k].node < next' /\ next' <= LastBelow(manifest, frames'[k].node) + 1
    <3>1. CASE k = n + 1
      BY <1>1, <1>3, <3>1
    <3>2. CASE k # n + 1
      <4>1. k \in 1..n
        BY <1>2, <3>2
      <4> QED
        BY <1>1, <1>3, <1>6, <4>1
    <3> QED
      BY <3>1, <3>2
  <2>4. ASSUME NEW k \in 1..(n + 1), NEW l \in 1..(n + 1), k < l
        PROVE  frames'[k].node < frames'[l].node
    <3>1. k \in 1..n
      BY <1>2, <2>4
    <3>2. CASE l = n + 1
      BY <1>3, <1>6, <3>1, <3>2
    <3>3. CASE l # n + 1
      <4>1. l \in 1..n
        BY <1>2, <3>3
      <4> QED
        BY <1>3, <2>4, <3>1, <4>1 DEF WalkInv, WalkNests
    <3> QED
      BY <3>2, <3>3
  <2>5. \A entry \in left' : entry[1] < next'
    BY <1>1, <1>4
  <2> QED
    BY <1>3, <2>1, <2>2, <2>3, <2>4, <2>5 DEF WalkNests, UnderWay
<1>8. FramesKnowWhatIsLeft'
  <2> SUFFICES ASSUME NEW k \in 1..(n + 1)
               PROVE  /\ frames'[k].allCompleted => frames'[k].aggregate = "Completed"
                      /\ frames'[k].aggregate = "Completed" =>
                           \A entry \in left :
                             /\ frames'[k].node <= entry[1]
                             /\ k < n + 1 => entry[1] < frames'[k + 1].node
                             => KeepsNothing(request, manifest, frames'[k], entry)
    BY <1>3 DEF FramesKnowWhatIsLeft
  <2>1. CASE k = n + 1
    <3>1. frames'[k] = frame
      BY <1>3, <2>1
    <3>2. \A entry \in left : ~ (frame.node <= entry[1])
      BY <1>1, <1>4
    <3> QED
      BY <3>1, <3>2
  <2>2. CASE k # n + 1
    <3>1. k \in 1..n /\ frames'[k] = frames[k]
      BY <1>2, <1>3, <2>2
    <3>2. /\ frames[k].allCompleted => frames[k].aggregate = "Completed"
          /\ frames[k].aggregate = "Completed" =>
               \A entry \in left :
                 /\ frames[k].node <= entry[1]
                 /\ k < n => entry[1] < frames[k + 1].node
                 => KeepsNothing(request, manifest, frames[k], entry)
      BY <1>3, <3>1 DEF WalkInv, FramesKnowWhatIsLeft
    <3>3. k < n + 1 /\ (k < n => frames'[k + 1] = frames[k + 1])
      BY <1>2, <1>3, <3>1
    <3> QED
      BY <3>1, <3>2, <3>3
  <2> QED
    BY <2>1, <2>2
<1>9. AccountsMeet'
  <2>1. /\ totals.unresolved = Len(world.roots) - root
        /\ itemsProcessed + (Len(manifest) + 1 - next)
             + Cardinality(Uncounted(request, manifest, frames)) = totals.items
    BY DEF WalkInv, AccountsMeet, UnderWay, Pending
  <2>2. Front(frames') = frames
    <3>1. /\ Front(frames') \in Seq(Frame) /\ Len(Front(frames')) = n
          /\ \A k \in 1..n : Front(frames')[k] = frames'[k]
      <4>1. Len(frames') - 1 = n
        BY <1>2, <1>3
      <4> QED
        BY <1>3, <4>1, FrontOfFrames
    <3> QED
      BY <1>2, <1>3, <3>1
  <2>3. Cardinality(Uncounted(request, manifest, frames'))
          = Cardinality(Uncounted(request, manifest, frames))
            + IF CountsLate(request, manifest, next) THEN 1 ELSE 0
    <3>1. frames'[Len(frames')].node = next
      BY <1>3
    <3>2. Cardinality(Uncounted(request, manifest, frames'))
            = Cardinality(Uncounted(request, manifest, Front(frames')))
              + IF CountsLate(request, manifest, frames'[Len(frames')].node) THEN 1 ELSE 0
      <4>1. frames' \in Seq(Frame) /\ frames' # <<>>
        BY <1>3
      <4> QED
        BY ONLY <4>1, CountingUncounted
    <3> QED
      BY <2>2, <3>1, <3>2
  <2>4. Cardinality(Uncounted(request, manifest, frames)) \in Nat
    BY <1>2, CountingUncounted
  <2>5. itemsProcessed' + (Len(manifest) + 1 - next')
          + Cardinality(Uncounted(request, manifest, frames')) = totals.items
    <3> DEFINE u == Cardinality(Uncounted(request, manifest, frames))
               v == Cardinality(Uncounted(request, manifest, frames'))
               m == Len(manifest)
    <3>1. /\ itemsProcessed \in Nat /\ m \in Nat /\ next \in Nat /\ u \in Nat
          /\ itemsProcessed + (m + 1 - next) + u = totals.items
          /\ itemsProcessed' = itemsProcessed + IF CountsLate(request, manifest, next) THEN 0 ELSE 1
          /\ v = u + IF CountsLate(request, manifest, next) THEN 1 ELSE 0
          /\ next' = next + 1
      BY <1>1, <1>2, <2>1, <2>3, <2>4
    <3> HIDE DEF u, v, m
    <3>2. itemsProcessed' + (m + 1 - next') + v = totals.items
      BY <3>1
    <3> QED
      BY <3>2 DEF v, m
  <2> QED
    BY <2>1, <2>5 DEF AccountsMeet, UnderWay, Pending, Unscanned
<1> QED
  BY <1>5, <1>7, <1>8, <1>9 DEF WalkInv

(* A directory is left: what came of it is handed to the one above.         *)
LEMMA MoveLeaves ==
  ASSUME WalkInv, UnderWay, ChildrenDone, UNCHANGED <<request, world>>,
         NEW outcome \in NodeOutcome, Return(outcome, Front(frames)),
         left' = left \/ \E reason \in Reason : left' = left \cup {<<Top.node, reason>>},
         outcome \in {"Completed", "AlreadySatisfied"} =>
           left' = left /\ Top.aggregate = "Completed",
         outcome = "Completed" /\ Move /\ Owned(manifest[Top.node]) => Top.allCompleted,
         itemsProcessed' = itemsProcessed
                           + IF CountsLate(request, manifest, Top.node) THEN 1 ELSE 0,
         tally' \in [Counters -> Nat],
         UNCHANGED <<root, manifest, next, totals>>
  PROVE  WalkInv'
<1> DEFINE n == Len(frames)
           above == Front(frames)
<1>1. WalkTypes /\ WalkNests /\ frames \in Seq(Frame) /\ n \in Nat /\ n >= 1 /\ itemsProcessed \in Nat
      /\ DOMAIN frames = 1..n /\ Top = frames[n] /\ frames # <<>> /\ Len(frames) = n
  <2>1. frames \in Seq(Frame) /\ frames # <<>>
    BY DEF WalkInv, WalkTypes, ChildrenDone
  <2> QED
    BY <2>1 DEF WalkInv, WalkTypes, Top
<1>2. /\ above \in Seq(Frame) /\ Len(above) = n - 1 /\ (above = <<>> <=> n = 1)
      /\ \A k \in 1..(n - 1) : above[k] = frames[k]
  BY <1>1, FrontOfFrames
<1> HIDE DEF above, n
<1>3. /\ anyFailed' = anyFailed
      /\ \/ /\ outcome = "Cancelled" \/ n = 1
            /\ pc' = "rootEnds" /\ result' = outcome /\ frames' = <<>>
         \/ outcome # "Cancelled" /\ n # 1 /\ HandedUp(outcome, above)
  <2>1. Return(outcome, above)
    BY DEF above
  <2> QED
    BY <1>2, <2>1, ReturnHandsUp
<1>4. ~ Unscanned /\ Len(manifest) \in Nat /\ next \in 1..(Len(manifest) + 1)
  BY WalkManifest DEF ChildrenDone, WalkInv, WalkTypes
<1>5. \A k \in 1..n :
        /\ frames[k] \in Frame /\ frames[k].node \in Nat /\ frames[k].node \in DOMAIN manifest
        /\ frames[k].node < next
        /\ LastBelow(manifest, frames[k].node) \in Nat
        /\ next <= LastBelow(manifest, frames[k].node) + 1
  <2>1. ASSUME NEW k \in 1..n
        PROVE  /\ frames[k] \in Frame /\ frames[k].node \in Nat /\ frames[k].node \in DOMAIN manifest
               /\ frames[k].node < next
               /\ LastBelow(manifest, frames[k].node) \in Nat
               /\ next <= LastBelow(manifest, frames[k].node) + 1
    <3>1. /\ frames[k] \in Frame /\ frames[k].node \in 1..Len(manifest)
          /\ frames[k].node \in DOMAIN manifest /\ frames[k].node < next
          /\ LastBelow(manifest, frames[k].node) \in frames[k].node..Len(manifest)
          /\ next <= LastBelow(manifest, frames[k].node) + 1
      BY <1>1, FrameNodes
    <3> QED
      BY <1>4, <3>1
  <2> QED
    BY <2>1
<1>6. n \in 1..n /\ \A k \in 1..(n - 1) : k \in 1..n
  BY <1>1
<1>7. left' \subseteq (DOMAIN manifest) \X Reason
      /\ \A entry \in left' : entry[1] \in Nat /\ entry[1] < next
  <2>1. left \subseteq (DOMAIN manifest) \X Reason /\ DOMAIN manifest \subseteq Nat
    <3>1. left \subseteq (DOMAIN manifest) \X Reason
      BY <1>1 DEF WalkTypes
    <3>2. DOMAIN manifest \subseteq Nat
      BY <1>1, WalkManifest
    <3> QED
      BY <3>1, <3>2
  <2>2. \A entry \in left : entry[1] < next /\ entry[1] \in Nat
    BY <1>1, <2>1 DEF WalkNests
  <2> QED
    BY <1>1, <1>5, <1>6, <2>1, <2>2
<1>8. WalkTypes'
  <2>1. frames' \in Seq(Frame) /\ result' \in NodeOutcome \cup {"none"}
    <3>1. result \in NodeOutcome \cup {"none"} /\ <<>> \in Seq(Frame)
      BY <1>1 DEF WalkTypes
    <3> QED
      BY <1>3, <3>1 DEF HandedUp
  <2>2. BuildMode' = BuildMode /\ Root' = Root /\ itemsProcessed' \in Nat
    BY <1>1 DEF BuildMode, Root
  <2> QED
    BY <1>1, <1>3, <1>7, <2>1, <2>2 DEF WalkTypes
<1>9. ASSUME HandedUp(outcome, above), n # 1
      PROVE  /\ DOMAIN frames' = 1..(n - 1) /\ Len(frames') = n - 1 /\ frames' # <<>>
             /\ \A k \in 1..(n - 1) : frames'[k].node = frames[k].node
             /\ \A k \in 1..(n - 2) : frames'[k] = frames[k]
             /\ frames'[n - 1].allCompleted <=> frames[n - 1].allCompleted /\ outcome = "Completed"
             /\ frames'[n - 1].aggregate = aggregateChildOutcome(frames[n - 1].aggregate, outcome)
             /\ n - 1 \in 1..(n - 1) /\ n - 1 \in 1..n /\ pc' = "node"
  <2>1. n - 1 \in 1..(n - 1) /\ n - 1 \in 1..n /\ \A k \in 1..(n - 2) : k \in 1..(n - 1)
    BY <1>1, <1>9
  <2>2. /\ frames' \in Seq(Frame) /\ Len(frames') = n - 1 /\ DOMAIN above = 1..(n - 1)
        /\ (n - 1) - 1 = n - 2
    BY <1>1, <1>2, <1>9 DEF HandedUp
  <2>3. DOMAIN frames' = 1..(n - 1) /\ frames' # <<>>
    BY <2>1, <2>2
  <2> QED
    BY <1>2, <1>9, <2>1, <2>2, <2>3 DEF HandedUp
<1>10. WalkNests'
  <2>1. manifest' # <<>>
    BY <1>4 DEF Unscanned
  <2>2. CASE frames' = <<>>
    BY <1>7, <2>1, <2>2 DEF WalkNests
  <2>3. CASE HandedUp(outcome, above) /\ n # 1
    <3>1. frames'[1].node = 1
      <4>1. 1 \in 1..(n - 1) /\ frames # <<>>
        BY <1>1, <2>3 DEF ChildrenDone
      <4> QED
        BY <1>1, <1>9, <2>3, <4>1 DEF WalkNests
    <3>2. \A k, l \in 1..(n - 1) : k < l => frames'[k].node < frames'[l].node
      <4>1. \A k, l \in 1..n : k < l => frames[k].node < frames[l].node
        BY <1>1 DEF WalkNests
      <4> QED
        BY <1>6, <1>9, <2>3, <4>1
    <3>3. \A k \in 1..(n - 1) : frames'[k].node < next'
                                /\ next' <= LastBelow(manifest, frames'[k].node) + 1
      BY <1>5, <1>6, <1>9, <2>3
    <3> QED
      BY <1>7, <1>9, <2>1, <2>3, <3>1, <3>2, <3>3 DEF WalkNests
  <2> QED
    BY <1>3, <2>2, <2>3
<1>11. FramesKnowWhatIsLeft'
  <2>1. CASE frames' = <<>>
    BY <2>1 DEF FramesKnowWhatIsLeft
  <2>2. CASE HandedUp(outcome, above) /\ n # 1
    <3> SUFFICES ASSUME NEW k \in 1..(n - 1)
                 PROVE  /\ frames'[k].allCompleted => frames'[k].aggregate = "Completed"
                        /\ frames'[k].aggregate = "Completed" =>
                             \A entry \in left' :
                               /\ frames'[k].node <= entry[1]
                               /\ k < n - 1 => entry[1] < frames'[k + 1].node
                               => KeepsNothing(request, manifest, frames'[k], entry)
      BY <1>9, <2>2 DEF FramesKnowWhatIsLeft
    <3>1. /\ k \in 1..n /\ k + 1 \in 1..n /\ k < n /\ n \in 1..n /\ k \in Nat
          /\ k < n - 1 \/ k = n - 1
      BY <1>1
    <3>2. /\ frames[k].allCompleted => frames[k].aggregate = "Completed"
          /\ frames[k].aggregate = "Completed" =>
               \A entry \in left :
                 frames[k].node <= entry[1] /\ entry[1] < frames[k + 1].node
                 => KeepsNothing(request, manifest, frames[k], entry)
      BY <1>1, <3>1 DEF WalkInv, FramesKnowWhatIsLeft
    <3>3. CASE k < n - 1
      <4>1. /\ k \in 1..(n - 2) /\ k + 1 \in 1..(n - 1) /\ k + 1 < n
        BY <1>1, <3>1, <3>3
      <4>2. frames'[k] = frames[k] /\ frames'[k + 1].node = frames[k + 1].node
        BY <1>9, <2>2, <4>1
      <4>3. frames[k + 1].node < Top.node /\ Top.node \in Nat /\ frames[k + 1].node \in Nat
        BY <1>1, <1>5, <3>1, <4>1 DEF WalkNests
      <4>4. \A entry \in left' : entry[1] < frames[k + 1].node => entry \in left
        <5>1. ASSUME NEW reason \in Reason, left' = left \cup {<<Top.node, reason>>},
                     NEW entry \in left', entry[1] < frames[k + 1].node
              PROVE  entry \in left
          <6>1. entry # <<Top.node, reason>>
            BY <4>3, <5>1
          <6> QED
            BY <5>1, <6>1
        <5> QED
          BY <5>1
      <4> QED
        BY <3>2, <3>3, <4>2, <4>4
    <3>4. CASE k = n - 1
      <4>1. /\ frames'[k].node = frames[k].node /\ k + 1 = n
            /\ frames'[k].allCompleted <=> frames[k].allCompleted /\ outcome = "Completed"
            /\ frames'[k].aggregate = aggregateChildOutcome(frames[k].aggregate, outcome)
        BY <1>1, <1>9, <2>2, <3>4
      <4>2. frames'[k].allCompleted => frames'[k].aggregate = "Completed"
        BY <3>2, <4>1 DEF aggregateChildOutcome
      <4>3. ASSUME frames'[k].aggregate = "Completed", NEW entry \in left',
                   frames'[k].node <= entry[1]
            PROVE  KeepsNothing(request, manifest, frames'[k], entry)
        <5>1. frames[k].aggregate = "Completed" /\ outcome \in {"Completed", "AlreadySatisfied"}
          <6>1. frames[k].aggregate \in {"Completed", "Partial", "Failed"}
            BY <1>5, <3>1 DEF Frame
          <6> QED
            BY <4>1, <4>3, <6>1 DEF aggregateChildOutcome, NodeOutcome
        <5>2. entry \in left /\ Top.aggregate = "Completed" /\ entry[1] \in Nat /\ entry[1] < next
          BY <1>7, <4>3, <5>1
        <5>3. CASE entry[1] < Top.node
          <6>1. KeepsNothing(request, manifest, frames[k], entry)
            BY <1>1, <3>2, <4>1, <4>3, <5>1, <5>2, <5>3
          <6> QED
            BY <4>1, <6>1 DEF KeepsNothing
        <5>4. CASE ~ (entry[1] < Top.node)
          <6>1. Top.node <= entry[1] /\ entry[1] \in Top.node..LastBelow(manifest, Top.node)
            BY <1>1, <1>4, <1>5, <1>6, <5>2, <5>4
          <6>2. KeepsNothing(request, manifest, Top, entry)
            <7>1. n \in DOMAIN frames /\ ~ (n < Len(frames))
              BY <1>1, <3>1
            <7> QED
              BY <1>1, <5>2, <6>1, <7>1 DEF WalkInv, FramesKnowWhatIsLeft
          <6>3. ASSUME request = "Move", outcome = "Completed"
                PROVE  ~ Owned(manifest[entry[1]])
            <7>1. CASE Owned(manifest[Top.node])
              BY <6>2, <6>3, <7>1 DEF KeepsNothing, Move
            <7>2. CASE ~ Owned(manifest[Top.node])
              BY <1>1, <1>4, <1>5, <1>6, <6>1, <7>2, WalkManifest
            <7> QED
              BY <7>1, <7>2
          <6> QED
            BY <4>1, <6>2, <6>3 DEF KeepsNothing
        <5> QED
          BY <5>3, <5>4
      <4> QED
        BY <3>4, <4>2, <4>3
    <3> QED
      BY <3>1, <3>3, <3>4
  <2> QED
    BY <1>3, <2>1, <2>2
<1>12. AccountsMeet'
  <2>1. /\ totals.unresolved = Len(world.roots) - root
        /\ itemsProcessed + (Len(manifest) + 1 - next)
             + Cardinality(Uncounted(request, manifest, frames)) = totals.items
    BY <1>4 DEF WalkInv, AccountsMeet, UnderWay
  <2>2. /\ Cardinality(Uncounted(request, manifest, above)) \in Nat
        /\ Cardinality(Uncounted(request, manifest, frames))
             = Cardinality(Uncounted(request, manifest, above))
               + IF CountsLate(request, manifest, Top.node) THEN 1 ELSE 0
    <3>1. frames # <<>>
      BY DEF ChildrenDone
    <3> QED
      BY <1>1, <1>2, <3>1, CountingUncounted DEF above
  <2>3. itemsProcessed' + (Len(manifest) + 1 - next)
          + Cardinality(Uncounted(request, manifest, above)) = totals.items
    <3> DEFINE u == Cardinality(Uncounted(request, manifest, frames))
               v == Cardinality(Uncounted(request, manifest, above))
               m == Len(manifest)
               late == CountsLate(request, manifest, Top.node)
    <3>1. /\ itemsProcessed \in Nat /\ m \in Nat /\ next \in Nat /\ v \in Nat
          /\ itemsProcessed + (m + 1 - next) + u = totals.items
          /\ itemsProcessed' = itemsProcessed + IF late THEN 1 ELSE 0
          /\ u = v + IF late THEN 1 ELSE 0
      BY <1>1, <1>4, <2>1, <2>2
    <3> HIDE DEF u, v, m, late
    <3>2. itemsProcessed' + (m + 1 - next) + v = totals.items
      BY <3>1
    <3> QED
      BY <3>2 DEF v, m
  <2>4. CASE pc' = "rootEnds" /\ result' = outcome /\ (outcome = "Cancelled" \/ n = 1)
    <3>1. itemsProcessed' \in Nat
      BY <1>1
    <3>2. n = 1 => Cardinality(Uncounted(request, manifest, above)) = 0
      BY <1>1, <1>2, CountingUncounted
    <3>3. n = 1 => next = Len(manifest) + 1
      <4>1. ASSUME n = 1
            PROVE  next = Len(manifest) + 1
        <5>1. Top.node = 1 /\ 1 \in DOMAIN manifest
          <6>1. frames # <<>>
            BY DEF ChildrenDone
          <6> QED
            BY <1>1, <1>4, <4>1, <6>1, WalkManifest DEF WalkNests
        <5>2. Subtree(manifest, 1) = 1..Len(manifest)
          BY <1>1, <1>4, <5>1, WalkManifest
        <5> QED
          BY <1>4, <5>1, <5>2 DEF ChildrenDone
      <4> QED
        BY <4>1
    <3> QED
      BY <1>4, <2>1, <2>2, <2>3, <2>4, <3>1, <3>2, <3>3 DEF AccountsMeet
  <2>5. CASE HandedUp(outcome, above) /\ n # 1
    <3>1. Uncounted(request, manifest, frames') = Uncounted(request, manifest, above)
      <4>1. /\ frames' \in Seq(Frame) /\ Len(frames') = Len(above)
            /\ \A k \in DOMAIN above : above[k].node = frames'[k].node
        BY <2>5 DEF HandedUp
      <4> QED
        BY <1>2, <4>1, SameNodesSameCount
    <3> QED
      BY <1>4, <1>9, <2>1, <2>3, <2>5, <3>1 DEF AccountsMeet, Unscanned
  <2> QED
    BY <1>3, <2>4, <2>5
<1> QED
  BY <1>8, <1>10, <1>11, <1>12 DEF WalkInv

(* The next root, or the end.                                               *)
LEMMA MoveToNextRoot ==
  ASSUME WalkInv, nextRoot
  PROVE  WalkInv'
<1>1. /\ pc = "rootEnds" /\ manifest' = <<>> /\ next' = 1 /\ left' = {}
      /\ UNCHANGED <<frames, totals, tally, itemsProcessed, request, world>>
      /\ anyFailed' = (anyFailed \/ result = "Failed")
  BY DEF nextRoot, accountVars, outerVars
<1>2. frames = <<>> /\ WalkTypes /\ Len(world.roots) \in Nat /\ anyFailed' \in BOOLEAN
  BY <1>1 DEF WalkInv, WalkNests, WalkTypes, World
<1>3. /\ totals.unresolved = Len(world.roots) - root /\ itemsProcessed <= totals.items
      /\ result # "Cancelled" => itemsProcessed = totals.items
  BY <1>1 DEF WalkInv, AccountsMeet
<1>4. CASE result = "Cancelled" \/ root = Len(world.roots)
  <2>1. /\ pc' = "done" /\ UNCHANGED root
        /\ result' \in {"Cancelled", "Failed", "Completed"}
        /\ result = "Cancelled" <=> result' = "Cancelled"
    <3>1. /\ pc' = "done" /\ UNCHANGED root
          /\ result' = IF result = "Cancelled" THEN "Cancelled"
                       ELSE IF anyFailed' THEN "Failed" ELSE "Completed"
      BY <1>4 DEF nextRoot
    <3>2. CASE result = "Cancelled"
      BY <3>1, <3>2
    <3>3. CASE result # "Cancelled" /\ anyFailed'
      BY <3>1, <3>3
    <3>4. CASE result # "Cancelled" /\ ~ anyFailed'
      BY <3>1, <3>4
    <3> QED
      BY <3>2, <3>3, <3>4
  <2>2. WalkTypes'
    BY <1>1, <1>2, <2>1 DEF WalkTypes, BuildMode, NodeOutcome
  <2>3. WalkNests' /\ FramesKnowWhatIsLeft'
    BY <1>1, <1>2 DEF WalkNests, FramesKnowWhatIsLeft
  <2>4. AccountsMeet'
    BY <1>1, <1>2, <1>3, <1>4, <2>1 DEF AccountsMeet, WalkTypes
  <2> QED
    BY <2>2, <2>3, <2>4 DEF WalkInv
<1>5. CASE ~ (result = "Cancelled" \/ root = Len(world.roots))
  <2>1. pc' = "root" /\ root' = root + 1 /\ UNCHANGED result
    BY <1>5 DEF nextRoot
  <2>2. root' \in 1..Len(world.roots)
    BY <1>2, <1>5, <2>1 DEF WalkTypes
  <2>3. WalkTypes'
    BY <1>1, <1>2, <2>1, <2>2 DEF WalkTypes, BuildMode
  <2>4. WalkNests' /\ FramesKnowWhatIsLeft'
    BY <1>1, <1>2 DEF WalkNests, FramesKnowWhatIsLeft
  <2>5. AccountsMeet'
    BY <1>1, <1>2, <1>3, <1>5, <2>1, <2>2 DEF AccountsMeet, Unscanned, WalkTypes
  <2> QED
    BY <2>3, <2>4, <2>5 DEF WalkInv
<1> QED
  BY <1>4, <1>5

-----------------------------------------------------------------------------
(***************************************************************************)
(* Where the executor stands, and what it knows there.                     *)
(***************************************************************************)
Resumable ==
  IF request = "Delete" THEN {"inspectRoot", "scan"}
  ELSE {"inspectRoot", "parent", "renameRoot", "renameResolved", "renameNode",
        "resolveDirectory", "enter", "scan"}

(* The entry at the top is being removed: it is the operation's own, and    *)
(* nothing below it keeps it.                                               *)
MayGo ==
  /\ ChildrenDone /\ Owned(manifest[Top.node])
  /\ Top.aggregate = "Completed" /\ (Move => Top.allCompleted)

PositionAt(label) ==
  /\ label \in {"root", "inspectRoot", "parent", "renameRoot", "renameResolved", "leafRoot",
                "resolveRoot", "scan"} => Unscanned
  /\ label \in {"resolveDirectory", "askMerge", "askMismatch"} => Unscanned \/ Pending
  /\ label \in {"renameNode", "enter"} => Pending
  /\ label = "renameNode" => Move /\ Owned(Node)
  /\ label = "node" => ~ Unscanned /\ (frames = <<>> => next = 1)
  /\ label \in {"removeSource", "askRemoval"} => Move /\ MayGo
  /\ label \in {"tryRemove", "makeWritable", "askReadOnly", "askRefused", "remove", "askEntryFailed"}
       => request = "Delete" /\ MayGo

(* A question about a failure stands where the retry will resume.           *)
Position ==
  /\ pc = "askFailed" => resume \in Resumable
  /\ PositionAt(IF pc = "askFailed" THEN resume ELSE pc)

LEMMA AtANode ==
  ASSUME WalkInv, Position, pc = "node"
  PROVE  IF frames # <<>> => next \in Subtree(manifest, Top.node) THEN Pending ELSE ChildrenDone
<1>1. ~ Unscanned /\ (frames = <<>> => next = 1)
  BY DEF Position, PositionAt
<1>2. frames # <<>> /\ next \in Subtree(manifest, Top.node) => next \in DOMAIN manifest
  BY WalkManifest DEF Subtree, WalkInv, WalkTypes, Frame, Top
<1>3. 1 \in DOMAIN manifest
  BY <1>1, WalkManifest DEF WalkInv
<1> QED
  BY <1>1, <1>2, <1>3 DEF Pending, ChildrenDone

(* Only the place changes.                                                  *)
LEMMA GoesOn ==
  ASSUME WalkInv, UnderWay, UNCHANGED <<request, world, walkVars, accountVars>>,
         NEW label, label \notin {"askFailed", "rootEnds", "done"}, PositionAt(label), Goto(label)
  PROVE  WalkInv' /\ Position'
<1>1. UnderWay' /\ UNCHANGED <<result, anyFailed>> /\ pc' = label
  BY DEF Goto, UnderWay
<1>2. WalkInv'
  BY <1>1, MoveStays
<1>3. UNCHANGED <<request, manifest, next, frames>>
  BY DEF walkVars
<1>4. PositionAt(label)'
  BY <1>3 DEF PositionAt, MayGo, Pending, ChildrenDone, Unscanned, Node, Top, Move
<1> QED
  BY <1>1, <1>2, <1>4 DEF Position

LEMMA StopsToAsk ==
  ASSUME WalkInv, UnderWay, UNCHANGED <<request, world, walkVars, accountVars>>,
         NEW label, label \in Resumable, PositionAt(label), Fails(label)
  PROVE  WalkInv' /\ Position'
<1>1. UnderWay' /\ UNCHANGED <<result, anyFailed>> /\ pc' = "askFailed" /\ resume' = label
  BY DEF Fails, UnderWay
<1>2. WalkInv'
  BY <1>1, MoveStays
<1>3. UNCHANGED <<request, manifest, next, frames>>
  BY DEF walkVars
<1>4. PositionAt(label)' /\ Resumable' = Resumable
  BY <1>3 DEF PositionAt, MayGo, Pending, ChildrenDone, Unscanned, Node, Top, Move, Resumable
<1> QED
  BY <1>1, <1>2, <1>4 DEF Position

(* A root ends, or the walk comes back to a directory.                      *)
LEMMA ComesBack ==
  ASSUME \/ pc' \in {"rootEnds", "done"}
         \/ pc' = "root" /\ Unscanned'
         \/ pc' = "node" /\ ~ Unscanned' /\ frames' # <<>>
  PROVE  Position'
BY DEF Position, PositionAt

LEMMA ReturnComesBack ==
  ASSUME NEW outcome \in NodeOutcome, NEW above \in Seq(Frame), Return(outcome, above)
  PROVE  pc' = "rootEnds" \/ (pc' = "node" /\ frames' # <<>>)
<1>1. \/ pc' = "rootEnds"
      \/ above # <<>> /\ HandedUp(outcome, above)
  BY ReturnHandsUp
<1>2. CASE above # <<>> /\ HandedUp(outcome, above)
  <2>1. Len(above) # 0 /\ Len(frames') = Len(above) /\ pc' = "node"
    BY <1>2 DEF HandedUp
  <2>2. frames' # <<>>
    BY <2>1
  <2> QED
    BY <2>1, <2>2
<1> QED
  BY <1>1, <1>2

LEMMA EndsUnscanned ==
  ASSUME WalkInv, UnderWay, Unscanned, UNCHANGED <<request, world>>,
         NEW outcome \in {"Completed", "Skipped", "AlreadySatisfied", "Cancelled"},
         finishUnscannedRoot(outcome)
  PROVE  WalkInv' /\ Position'
<1>1. pc' = "rootEnds"
  BY DEF finishUnscannedRoot
<1> QED
  BY <1>1, MoveEndsUnscanned, ComesBack

LEMMA PassesOver ==
  ASSUME WalkInv, UnderWay, Pending, UNCHANGED <<request, world>>,
         NEW counter \in Counters, NEW outcome \in NodeOutcome, Passes(counter, outcome),
         PassOver(counter, outcome)
  PROVE  WalkInv' /\ Position'
<1>1. frames \in Seq(Frame) /\ ~ Unscanned /\ manifest' = manifest
  BY DEF WalkInv, WalkTypes, Pending, PassOver
<1>2. pc' = "rootEnds" \/ (pc' = "node" /\ frames' # <<>>)
  BY <1>1, ReturnComesBack DEF PassOver
<1> QED
  BY <1>1, <1>2, MovePassesOver, ComesBack DEF Unscanned

LEMMA SkipsHere ==
  ASSUME WalkInv, UnderWay, Unscanned \/ Pending, UNCHANGED <<request, world>>, SkipHere
  PROVE  WalkInv' /\ Position'
<1>1. CASE Unscanned
  BY <1>1, EndsUnscanned DEF SkipHere
<1>2. CASE ~ Unscanned
  <2>1. PassOver("skipped", "Skipped") /\ Passes("skipped", "Skipped") /\ Pending
    BY <1>2 DEF SkipHere, accountSkippedSubtree, Passes
  <2> QED
    BY <2>1, PassesOver DEF Counters, NodeOutcome
<1> QED
  BY <1>1, <1>2

LEMMA CancelsHere ==
  ASSUME WalkInv, UnderWay, UNCHANGED <<request, world>>, CancelHere
  PROVE  WalkInv' /\ Position'
<1>1. CASE Unscanned
  BY <1>1, EndsUnscanned DEF CancelHere
<1>2. CASE ~ Unscanned
  <2>1. Unwind /\ UNCHANGED <<root, manifest, next, left, accountVars>>
    BY <1>2 DEF CancelHere
  <2>2. pc' = "rootEnds"
    BY <2>1 DEF Unwind
  <2> QED
    BY <1>2, <2>1, <2>2, MoveUnwinds, ComesBack
<1> QED
  BY <1>1, <1>2

LEMMA ChecksAndGoesOn ==
  ASSUME WalkInv, UnderWay, UNCHANGED <<request, world>>,
         NEW label, label \notin {"askFailed", "rootEnds", "done"}, PositionAt(label),
         CheckpointThen(label)
  PROVE  WalkInv' /\ Position'
<1>1. CASE cancelRequested
  BY <1>1, CancelsHere DEF CheckpointThen
<1>2. CASE ~ cancelRequested
  BY <1>2, GoesOn DEF CheckpointThen
<1> QED
  BY <1>1, <1>2

LEMMA LeavesDirectory ==
  ASSUME WalkInv, UnderWay, ChildrenDone, UNCHANGED <<request, world>>,
         NEW outcome \in NodeOutcome, Return(outcome, Front(frames)),
         left' = left \/ \E reason \in Reason : left' = left \cup {<<Top.node, reason>>},
         outcome \in {"Completed", "AlreadySatisfied"} =>
           left' = left /\ Top.aggregate = "Completed",
         outcome = "Completed" /\ Move /\ Owned(manifest[Top.node]) => Top.allCompleted,
         itemsProcessed' = itemsProcessed
                           + IF CountsLate(request, manifest, Top.node) THEN 1 ELSE 0,
         tally' \in [Counters -> Nat],
         UNCHANGED <<root, manifest, next, totals>>
  PROVE  WalkInv' /\ Position'
<1>1. WalkInv'
  BY MoveLeaves
<1>2. frames \in Seq(Frame) /\ frames # <<>> /\ ~ Unscanned
  BY DEF WalkInv, WalkTypes, ChildrenDone
<1>3. Front(frames) \in Seq(Frame)
  BY <1>2, FrontOfFrames
<1>4. pc' = "rootEnds" \/ (pc' = "node" /\ frames' # <<>>)
  <2> DEFINE above == Front(frames)
  <2>1. above \in Seq(Frame) /\ Return(outcome, above)
    BY <1>3
  <2> HIDE DEF above
  <2> QED
    BY <2>1, ReturnComesBack
<1> QED
  BY <1>1, <1>2, <1>4, ComesBack DEF Unscanned

-----------------------------------------------------------------------------
(***************************************************************************)
(* What both executors do.                                                 *)
(***************************************************************************)
Standing == WalkInv /\ Position

LEMMA AskActionFailedKeeps ==
  ASSUME Standing, askActionFailed
  PROVE  Standing'
<1>1. /\ pc = "askFailed" /\ UnderWay /\ UNCHANGED <<request, world>> /\ resume \in Resumable
      /\ PositionAt(resume) /\ WalkInv
  BY DEF askActionFailed, outerVars, UnderWay, Standing, Position
<1>2. resume \notin {"askFailed", "rootEnds", "done"} /\ (Unscanned \/ Pending)
  BY <1>1 DEF Resumable, PositionAt
<1>3. CASE Goto(resume) /\ UNCHANGED <<walkVars, accountVars>>
  BY <1>1, <1>2, <1>3, GoesOn DEF Standing
<1>4. CASE SkipHere
  BY <1>1, <1>2, <1>4, SkipsHere DEF Standing
<1>5. CASE CancelHere
  BY <1>1, <1>5, CancelsHere DEF Standing
<1> QED
  BY <1>3, <1>4, <1>5 DEF askActionFailed

LEMMA BeginRootKeeps ==
  ASSUME Standing, beginRoot
  PROVE  Standing'
<1>1. /\ pc = "root" /\ UnderWay /\ UNCHANGED <<request, world>> /\ Unscanned /\ WalkInv
      /\ CheckpointThen("inspectRoot")
  BY DEF beginRoot, outerVars, UnderWay, Standing, Position, PositionAt
<1>2. PositionAt("inspectRoot")
  BY <1>1 DEF PositionAt
<1> QED
  BY <1>1, <1>2, ChecksAndGoesOn DEF Standing

LEMMA InspectionFailsKeeps ==
  ASSUME Standing, inspectionFails
  PROVE  Standing'
<1>1. /\ pc = "inspectRoot" /\ UnderWay /\ UNCHANGED <<request, world, walkVars, accountVars>>
      /\ Unscanned /\ WalkInv /\ Fails("inspectRoot")
  BY DEF inspectionFails, outerVars, UnderWay, Standing, Position, PositionAt
<1>2. PositionAt("inspectRoot") /\ "inspectRoot" \in Resumable
  BY <1>1 DEF PositionAt, Resumable
<1> QED
  BY <1>1, <1>2, StopsToAsk DEF Standing

(* The root's manifest is there and its first node is next.                 *)
LEMMA StartsTheWalk ==
  ASSUME WalkInv, UnderWay, Unscanned, UNCHANGED <<request, world>>,
         manifest' \in ManifestOf(world, BuildMode, Root), rootTotalsResolved(Len(manifest')),
         NEW label \in {"enter", "node"}, Goto(label),
         UNCHANGED <<root, next, frames, left, tally, itemsProcessed>>
  PROVE  WalkInv' /\ Position'
<1>1. UnderWay' /\ UNCHANGED <<result, anyFailed>> /\ pc' = label
  BY DEF Goto, UnderWay
<1>2. WalkInv'
  BY <1>1, MoveScans
<1>3. frames' = <<>> /\ next' = 1
  BY DEF WalkInv, WalkNests, Unscanned
<1>4. 1 \in DOMAIN manifest' /\ manifest' # <<>>
  <2>1. manifest' \in Seq(SourceNode) /\ manifest' # <<>>
    BY DEF ManifestOf, VisitedFrom, Listed
  <2> QED
    BY <2>1
<1> QED
  BY <1>1, <1>2, <1>3, <1>4 DEF Position, PositionAt, Pending, Unscanned

LEMMA ScanKeeps ==
  ASSUME Standing, NEW label \in {"enter", "node"}, scan(BuildMode, label)
  PROVE  Standing'
<1>1. /\ pc = "scan" /\ UnderWay /\ UNCHANGED <<request, world>> /\ Unscanned /\ WalkInv
  BY DEF scan, outerVars, UnderWay, Standing, Position, PositionAt
<1>2. ASSUME NEW tree \in {buildSourceTree(world, BuildMode, present, Root)} \ {Stopped},
             manifest' = tree, rootTotalsResolved(Len(tree)), Goto(label),
             UNCHANGED <<root, next, frames, left, tally, itemsProcessed>>
      PROVE  Standing'
  <2>1. world \in World /\ BuildMode \in Mode /\ Root \in Entries
    BY <1>1, WalkManifest DEF WalkInv, WalkTypes
  <2>2. tree \in ManifestOf(world, BuildMode, Root)
    BY <1>2, <2>1, ScanBuildsAManifest
  <2> QED
    BY <1>1, <1>2, <2>2, StartsTheWalk DEF Standing
<1>3. CASE Fails("scan") /\ UNCHANGED <<walkVars, accountVars>>
  <2>1. PositionAt("scan") /\ "scan" \in Resumable
    BY <1>1 DEF PositionAt, Resumable
  <2> QED
    BY <1>1, <1>3, <2>1, StopsToAsk DEF Standing
<1>4. CASE CancelHere
  BY <1>1, <1>4, CancelsHere DEF Standing
<1> QED
  BY <1>2, <1>3, <1>4 DEF scan

LEMMA NextRootKeeps ==
  ASSUME Standing, nextRoot
  PROVE  Standing'
<1>1. WalkInv'
  BY MoveToNextRoot DEF Standing
<1>2. \/ pc' = "done"
      \/ pc' = "root" /\ manifest' = <<>>
  BY DEF nextRoot
<1> QED
  BY <1>1, <1>2, ComesBack DEF Standing, Unscanned

(* The user and other programs do not touch the walk.                       *)
LEMMA OthersKeep ==
  ASSUME Standing, UNCHANGED <<request, world, walkVars, accountVars, controlVars>>
  PROVE  Standing'
<1>1. UNCHANGED <<request, world, root, manifest, next, frames, left, totals, tally,
                  itemsProcessed, pc, resume, result, anyFailed>>
  BY DEF walkVars, accountVars, controlVars
<1>2. WalkTypes'
  BY <1>1 DEF Standing, WalkInv, WalkTypes, BuildMode, Root
<1>3. WalkNests'
  BY <1>1 DEF Standing, WalkInv, WalkNests
<1>4. FramesKnowWhatIsLeft'
  BY <1>1 DEF Standing, WalkInv, FramesKnowWhatIsLeft, KeepsNothing
<1>5. AccountsMeet'
  <2>1. Uncounted(request, manifest, frames)' = Uncounted(request, manifest, frames)
    BY <1>1
  <2> QED
    BY <1>1, <2>1 DEF Standing, WalkInv, AccountsMeet, Unscanned
<1>6. Position'
  BY <1>1 DEF Standing, Position, PositionAt, Resumable, MayGo, Pending, ChildrenDone, Unscanned,
              Node, Top, Move
<1> QED
  BY <1>2, <1>3, <1>4, <1>5, <1>6 DEF Standing, WalkInv

-----------------------------------------------------------------------------
(***************************************************************************)
(* Copy and move.                                                          *)
(***************************************************************************)
Transfer == request # "Delete"

PlanTypes ==
  rootKind \in EntryKind /\ choice \in {"none", "Use", "Merge"} /\ knownCrossDevice \in BOOLEAN

LEMMA RenameKeeps ==
  ASSUME Standing, Transfer, rename
  PROVE  Standing'
<1>1. /\ pc \in {"renameRoot", "renameResolved", "renameNode"} /\ UnderWay /\ WalkInv
      /\ UNCHANGED <<request, world>> /\ PositionAt(pc)
  BY DEF rename, outerVars, UnderWay, Standing, Position
<1>2. IF Unscanned THEN pc \in {"renameRoot", "renameResolved"} ELSE pc = "renameNode" /\ Pending
  BY <1>1 DEF PositionAt, Pending
<1>3. CASE IF Unscanned THEN finishUnscannedRoot("Completed") ELSE accountRenamedSubtree
  <2>1. CASE Unscanned
    BY <1>1, <1>3, <2>1, EndsUnscanned DEF Standing
  <2>2. CASE ~ Unscanned
    <3>1. PassOver("completed", "Completed") /\ Passes("completed", "Completed")
      BY <1>3, <2>2 DEF accountRenamedSubtree, Passes
    <3> QED
      BY <1>1, <1>2, <2>2, <3>1, PassesOver DEF Standing, Counters, NodeOutcome
  <2> QED
    BY <2>1, <2>2
<1>4. ASSUME NEW error \in {"CrossDevice", "AlreadyExists"}, Goto(AfterRename(error)),
             UNCHANGED <<walkVars, accountVars>>
      PROVE  Standing'
  <2>1. /\ AfterRename(error) \in {"resolveRoot", "scan", "resolveDirectory"}
        /\ AfterRename(error) # "resolveDirectory" => Unscanned
    BY <1>2 DEF AfterRename
  <2>2. PositionAt(AfterRename(error))
    BY <1>2, <2>1 DEF PositionAt
  <2> QED
    BY <1>1, <1>4, <2>1, <2>2, GoesOn DEF Standing
<1>5. CASE Fails(pc) /\ UNCHANGED <<walkVars, accountVars>>
  <2>1. pc \in Resumable
    BY <1>1 DEF Resumable, Transfer
  <2> QED
    BY <1>1, <1>5, <2>1, StopsToAsk DEF Standing
<1> QED
  BY <1>3, <1>4, <1>5 DEF rename

LEMMA InspectRootKeeps ==
  ASSUME Standing, Transfer, inspectRoot
  PROVE  Standing'
<1> DEFINE label == IF Move \/ rootKind' = "File" THEN "parent"
                    ELSE IF DirectoryLike(rootKind') THEN "resolveDirectory" ELSE "leafRoot"
<1>1. /\ pc = "inspectRoot" /\ UnderWay /\ WalkInv /\ Unscanned /\ Goto(label)
      /\ UNCHANGED <<request, world, walkVars, accountVars>>
  BY DEF inspectRoot, outerVars, UnderWay, Standing, Position, PositionAt
<1>2. label \in {"parent", "resolveDirectory", "leafRoot"}
  OBVIOUS
<1> HIDE DEF label
<1>3. PositionAt(label)
  BY <1>1, <1>2 DEF PositionAt
<1> QED
  BY <1>1, <1>2, <1>3, GoesOn DEF Standing

LEMMA EnsureParentKeeps ==
  ASSUME Standing, Transfer, ensureParent
  PROVE  Standing'
<1>1. /\ pc = "parent" /\ UnderWay /\ WalkInv /\ Unscanned /\ UNCHANGED <<request, world>>
  BY DEF ensureParent, outerVars, UnderWay, Standing, Position, PositionAt
<1>2. CASE CancelHere
  BY <1>1, <1>2, CancelsHere DEF Standing
<1>3. ASSUME NEW label \in {"renameRoot", "leafRoot", "parent"}, Goto(label),
             UNCHANGED <<walkVars, accountVars>>
      PROVE  Standing'
  <2>1. PositionAt(label)
    BY <1>1 DEF PositionAt
  <2> QED
    BY <1>1, <1>3, <2>1, GoesOn DEF Standing
<1>4. CASE Fails("parent") /\ UNCHANGED <<walkVars, accountVars>>
  <2>1. PositionAt("parent") /\ "parent" \in Resumable
    BY <1>1 DEF PositionAt, Resumable, Transfer
  <2> QED
    BY <1>1, <1>4, <2>1, StopsToAsk DEF Standing
<1> QED
  BY <1>2, <1>3, <1>4 DEF ensureParent

LEMMA LeafRootKeeps ==
  ASSUME Standing, Transfer, PlanTypes, leafRoot
  PROVE  Standing'
<1>1. /\ pc = "leafRoot" /\ UnderWay /\ WalkInv /\ Unscanned /\ UNCHANGED <<request, world>>
  BY DEF leafRoot, outerVars, UnderWay, Standing, Position, PositionAt
<1>2. world \in World /\ BuildMode \in Mode /\ Root \in Entries
  BY <1>1, WalkManifest DEF WalkInv, WalkTypes
<1>3. manifest' \in ManifestOf(world, BuildMode, Root)
  BY <1>2, ALeafIsAManifest DEF leafRoot, PlanTypes
<1>4. rootTotalsResolved(Len(manifest')) /\ Goto("node")
  BY DEF leafRoot
<1> QED
  BY <1>1, <1>3, <1>4, StartsTheWalk DEF Standing, leafRoot

LEMMA ResolveRootKeeps ==
  ASSUME Standing, Transfer, resolveRoot
  PROVE  Standing'
<1>1. /\ pc = "resolveRoot" /\ UnderWay /\ WalkInv /\ Unscanned /\ UNCHANGED <<request, world>>
      /\ CheckpointThen("resolveDirectory")
  BY DEF resolveRoot, outerVars, UnderWay, Standing, Position, PositionAt
<1>2. PositionAt("resolveDirectory")
  BY <1>1 DEF PositionAt
<1> QED
  BY <1>1, <1>2, ChecksAndGoesOn DEF Standing

LEMMA ChooseKeeps ==
  ASSUME WalkInv, UnderWay, Unscanned \/ Pending, UNCHANGED <<request, world>>,
         NEW way, Choose(way)
  PROVE  Standing'
<1> DEFINE label == IF ~ Unscanned THEN "enter"
                    ELSE IF Move /\ way = "Use" /\ ~ knownCrossDevice THEN "renameResolved"
                    ELSE "scan"
<1>1. Goto(label) /\ UNCHANGED <<walkVars, accountVars>>
  BY DEF Choose
<1>2. label \in {"enter", "renameResolved", "scan"} /\ (label = "enter" <=> ~ Unscanned)
  OBVIOUS
<1> HIDE DEF label
<1>3. PositionAt(label)
  BY <1>1, <1>2 DEF PositionAt
<1> QED
  BY <1>1, <1>2, <1>3, GoesOn DEF Standing

LEMMA ResolveDirectoryKeeps ==
  ASSUME Standing, Transfer, resolveDirectory
  PROVE  Standing'
<1>1. /\ pc = "resolveDirectory" /\ UnderWay /\ WalkInv /\ (Unscanned \/ Pending)
      /\ UNCHANGED <<request, world>>
  BY DEF resolveDirectory, outerVars, UnderWay, Standing, Position, PositionAt
<1>2. ASSUME NEW way, Choose(way)
      PROVE  Standing'
  BY <1>1, <1>2, ChooseKeeps
<1>3. CASE IF Unscanned THEN finishUnscannedRoot("AlreadySatisfied")
           ELSE accountAlreadySatisfiedSubtree
  <2>1. CASE Unscanned
    BY <1>1, <1>3, <2>1, EndsUnscanned DEF Standing
  <2>2. CASE ~ Unscanned
    <3>1. PassOver("satisfied", "AlreadySatisfied") /\ Passes("satisfied", "AlreadySatisfied")
      BY <1>3, <2>2 DEF accountAlreadySatisfiedSubtree, Passes, Transfer
    <3> QED
      BY <1>1, <2>2, <3>1, PassesOver DEF Standing, Counters, NodeOutcome
  <2> QED
    BY <2>1, <2>2
<1>4. ASSUME NEW label \in {"askMerge", "askMismatch"}, Goto(label),
             UNCHANGED <<walkVars, accountVars>>
      PROVE  Standing'
  <2>1. PositionAt(label)
    BY <1>1 DEF PositionAt
  <2> QED
    BY <1>1, <1>4, <2>1, GoesOn DEF Standing
<1>5. CASE Fails("resolveDirectory") /\ UNCHANGED <<walkVars, accountVars>>
  <2>1. PositionAt("resolveDirectory") /\ "resolveDirectory" \in Resumable
    BY <1>1 DEF PositionAt, Resumable, Transfer
  <2> QED
    BY <1>1, <1>5, <2>1, StopsToAsk DEF Standing
<1> QED
  BY <1>2, <1>3, <1>4, <1>5 DEF resolveDirectory

LEMMA PromptForCollisionKeeps ==
  ASSUME Standing, Transfer, NEW kind \in {"RootDirectoryMerge", "TypeMismatch"},
         promptForCollision(kind)
  PROVE  Standing'
<1>1. /\ pc \in {"askMerge", "askMismatch"} /\ UnderWay /\ WalkInv /\ (Unscanned \/ Pending)
      /\ UNCHANGED <<request, world>>
  BY DEF promptForCollision, outerVars, UnderWay, Standing, Position, PositionAt
<1>2. CASE Choose("Merge")
  BY <1>1, <1>2, ChooseKeeps
<1>3. CASE Goto("resolveDirectory") /\ UNCHANGED <<walkVars, accountVars>>
  <2>1. PositionAt("resolveDirectory")
    BY <1>1 DEF PositionAt
  <2> QED
    BY <1>1, <1>3, <2>1, GoesOn DEF Standing
<1>4. CASE SkipHere
  BY <1>1, <1>4, SkipsHere DEF Standing
<1>5. CASE CancelHere
  BY <1>1, <1>5, CancelsHere DEF Standing
<1> QED
  BY <1>2, <1>3, <1>4, <1>5 DEF promptForCollision

LEMMA EnterDirectoryKeeps ==
  ASSUME Standing, Transfer, PlanTypes, enterDirectory
  PROVE  Standing'
<1>1. /\ pc = "enter" /\ UnderWay /\ WalkInv /\ Pending /\ UNCHANGED <<request, world>>
  BY DEF enterDirectory, UnderWay, Standing, Position, PositionAt
<1>2. CASE EnterContents
  <2>1. /\ next \in Nat \ {0} /\ frames \in Seq(Frame) /\ itemsProcessed \in Nat
        /\ tally \in [Counters -> Nat]
    BY <1>1, WalkManifest DEF WalkInv, WalkTypes
  <2>2. /\ FrameOf(next) \in Frame /\ FrameOf(next).node = next
        /\ FrameOf(next).aggregate = "Completed"
    BY <2>1 DEF FrameOf, Frame, PlanTypes
  <2>3. /\ frames' = Append(frames, FrameOf(next)) /\ next' = next + 1 /\ pc' = "node"
        /\ UNCHANGED <<root, manifest, left, totals, result, anyFailed>>
    BY <1>2 DEF EnterContents, Goto
  <2>4. CountsOnEntry(Node) <=> ~ CountsLate(request, manifest, next)
    BY DEF CountsOnEntry, CountsLate, Transfer, Move, Node
  <2>5. /\ itemsProcessed' = itemsProcessed + IF CountsLate(request, manifest, next) THEN 0 ELSE 1
        /\ tally' \in [Counters -> Nat]
    <3>1. CASE CountsOnEntry(Node)
      BY <1>2, <2>1, <2>4, <3>1 DEF EnterContents, Count, advance, Counters
    <3>2. CASE ~ CountsOnEntry(Node)
      BY <1>2, <2>1, <2>4, <3>2 DEF EnterContents
    <3> QED
      BY <3>1, <3>2
  <2>6. UnderWay'
    BY <2>3 DEF UnderWay
  <2> HIDE DEF FrameOf
  <2>7. WalkInv'
    BY <1>1, <2>2, <2>3, <2>5, <2>6, MoveEnters
  <2>8. frames' # <<>> /\ ~ Unscanned'
    BY <1>1, <2>1, <2>3 DEF Pending, Unscanned
  <2> QED
    BY <2>3, <2>7, <2>8, ComesBack DEF Standing
<1>3. CASE Goto("resolveDirectory") /\ UNCHANGED <<walkVars, accountVars>>
  <2>1. PositionAt("resolveDirectory")
    BY <1>1 DEF PositionAt
  <2> QED
    BY <1>1, <1>3, <2>1, GoesOn DEF Standing
<1>4. CASE Fails("enter") /\ UNCHANGED <<walkVars, accountVars>>
  <2>1. PositionAt("enter") /\ "enter" \in Resumable
    BY <1>1 DEF PositionAt, Resumable, Transfer
  <2> QED
    BY <1>1, <1>4, <2>1, StopsToAsk DEF Standing
<1> QED
  BY <1>2, <1>3, <1>4 DEF enterDirectory

LEMMA VisitDirectoryKeeps ==
  ASSUME Standing, Transfer, visitDirectory
  PROVE  Standing'
<1> DEFINE label == IF Move /\ Owned(Node) /\ ~ knownCrossDevice' THEN "renameNode"
                    ELSE "resolveDirectory"
<1>1. /\ pc = "node" /\ UnderWay /\ WalkInv /\ UNCHANGED <<request, world>> /\ MoreChildren
      /\ CheckpointThen(label)
  BY DEF visitDirectory, outerVars, UnderWay, Standing
<1>2. Pending
  BY <1>1, AtANode DEF MoreChildren, Standing
<1>3. /\ label \in {"renameNode", "resolveDirectory"}
      /\ label = "renameNode" => Move /\ Owned(Node)
  OBVIOUS
<1> HIDE DEF label
<1>4. PositionAt(label)
  BY <1>2, <1>3 DEF PositionAt
<1> QED
  BY <1>1, <1>3, <1>4, ChecksAndGoesOn DEF Standing

LEMMA VisitEntryKeeps ==
  ASSUME Standing, Transfer, visitEntry
  PROVE  Standing'
<1>1. /\ pc = "node" /\ UnderWay /\ WalkInv /\ UNCHANGED <<request, world>> /\ MoreChildren
  BY DEF visitEntry, outerVars, UnderWay, Standing
<1>2. Pending
  BY <1>1, AtANode DEF MoreChildren, Standing
<1>3. ASSUME NEW counter \in Counters, NEW outcome \in NodeOutcome, Passes(counter, outcome),
             PassOver(counter, outcome)
      PROVE  Standing'
  BY <1>1, <1>2, <1>3, PassesOver DEF Standing
<1>4. CASE entryCompletes
  <2>1. PassOver("completed", "Completed") /\ Passes("completed", "Completed")
    BY <1>4 DEF entryCompletes, accountRenamedSubtree, Passes
  <2> QED
    BY <1>3, <2>1 DEF Counters, NodeOutcome
<1>5. CASE entryFails
  <2>1. PassOver("failed", "Failed") /\ Passes("failed", "Failed")
    BY <1>5 DEF entryFails, Passes
  <2> QED
    BY <1>3, <2>1 DEF Counters, NodeOutcome
<1>6. CASE entryFailsCancelled
  <2>1. PassOver("failed", "Cancelled") /\ Passes("failed", "Cancelled")
    BY <1>6 DEF entryFailsCancelled, Passes
  <2> QED
    BY <1>3, <2>1 DEF Counters, NodeOutcome
<1>7. CASE accountSkippedSubtree
  <2>1. PassOver("skipped", "Skipped") /\ Passes("skipped", "Skipped")
    BY <1>7 DEF accountSkippedSubtree, Passes
  <2> QED
    BY <1>3, <2>1 DEF Counters, NodeOutcome
<1>8. CASE accountAlreadySatisfiedSubtree
  <2>1. PassOver("satisfied", "AlreadySatisfied") /\ Passes("satisfied", "AlreadySatisfied")
    BY <1>8 DEF accountAlreadySatisfiedSubtree, Passes, Transfer
  <2> QED
    BY <1>3, <2>1 DEF Counters, NodeOutcome
<1>9. CASE CancelHere
  BY <1>1, <1>9, CancelsHere DEF Standing
<1> QED
  BY <1>4, <1>5, <1>6, <1>7, <1>8, <1>9 DEF visitEntry

(* What the directory at the top knows of itself when it is left.           *)
LEMMA TopFacts ==
  ASSUME WalkInv, ChildrenDone
  PROVE  /\ Top \in Frame /\ Top.node \in DOMAIN manifest
         /\ Top.aggregate \in {"Completed", "Partial", "Failed"} /\ Top.allCompleted \in BOOLEAN
         /\ Top.allCompleted => Top.aggregate = "Completed"
         /\ Top.aggregate = "Completed" =>
              \A entry \in left : Top.node <= entry[1]
                                  => KeepsNothing(request, manifest, Top, entry)
<1> DEFINE n == Len(frames)
<1>1. n \in DOMAIN frames /\ Top = frames[n] /\ ~ (n < Len(frames)) /\ Top \in Frame
  <2>1. frames \in Seq(Frame) /\ frames # <<>>
    BY DEF WalkInv, WalkTypes, ChildrenDone
  <2> QED
    BY <2>1 DEF Top
<1> HIDE DEF n
<1>2. Top.node \in DOMAIN manifest
  BY <1>1, FrameNodes DEF WalkInv
<1>3. /\ Top.allCompleted => Top.aggregate = "Completed"
      /\ Top.aggregate = "Completed" =>
           \A entry \in left : Top.node <= entry[1]
                               => KeepsNothing(request, manifest, Top, entry)
  BY <1>1 DEF WalkInv, FramesKnowWhatIsLeft
<1> QED
  BY <1>1, <1>2, <1>3 DEF Frame

LEMMA LeaveDirectoryKeeps ==
  ASSUME Standing, Transfer, leaveDirectory
  PROVE  Standing'
<1> DEFINE removes == Move /\ Owned(manifest[Top.node])
<1>1. /\ pc = "node" /\ UnderWay /\ WalkInv /\ UNCHANGED <<request, world, root, manifest, next>>
      /\ ~ MoreChildren
  BY DEF leaveDirectory, outerVars, UnderWay, Standing
<1>2. ChildrenDone
  BY <1>1, AtANode DEF MoreChildren, Standing
<1>3. removes <=> CountsLate(request, manifest, Top.node)
  BY DEF CountsLate, Transfer, Move
<1>4. itemsProcessed \in Nat /\ tally \in [Counters -> Nat]
  BY <1>1 DEF WalkInv, WalkTypes
<1>5. CASE ~ removes /\ Return(Top.aggregate, Front(frames)) /\ UNCHANGED <<left, accountVars>>
  <2>1. /\ UNCHANGED <<totals, tally, left>>
        /\ itemsProcessed' = itemsProcessed + IF CountsLate(request, manifest, Top.node) THEN 1 ELSE 0
    BY <1>3, <1>4, <1>5 DEF accountVars
  <2>2. /\ Top.aggregate \in NodeOutcome
        /\ Top.aggregate \in {"Completed", "AlreadySatisfied"} => Top.aggregate = "Completed"
    BY <1>1, <1>2, TopFacts DEF NodeOutcome
  <2>3. /\ left' = left \/ \E reason \in Reason : left' = left \cup {<<Top.node, reason>>}
        /\ ~ (Move /\ Owned(manifest[Top.node])) /\ tally' \in [Counters -> Nat]
    BY <1>4, <1>5, <2>1
  <2> QED
    BY <1>1, <1>2, <1>5, <2>1, <2>2, <2>3, LeavesDirectory DEF Standing
<1>6. CASE /\ removes /\ ~ MayRemoveSource(Top) /\ advance(1)
           /\ left' = left \cup {<<Top.node, "kept">>}
           /\ Return(IF Top.aggregate = "Completed" THEN "Partial" ELSE Top.aggregate,
                     Front(frames))
           /\ UNCHANGED <<tally, totals>>
  <2> DEFINE outcome == IF Top.aggregate = "Completed" THEN "Partial" ELSE Top.aggregate
  <2>1. outcome \in {"Partial", "Failed"} /\ Return(outcome, Front(frames))
    BY <1>1, <1>2, <1>6, TopFacts
  <2>2. itemsProcessed' = itemsProcessed + IF CountsLate(request, manifest, Top.node) THEN 1 ELSE 0
    BY <1>3, <1>6 DEF advance
  <2>3. \E reason \in Reason : left' = left \cup {<<Top.node, reason>>}
    BY <1>6 DEF Reason
  <2> HIDE DEF outcome
  <2>4. outcome \in NodeOutcome /\ outcome \notin {"Completed", "AlreadySatisfied"}
    BY <2>1 DEF NodeOutcome
  <2> QED
    BY <1>1, <1>2, <1>4, <1>6, <2>1, <2>2, <2>3, <2>4, LeavesDirectory DEF Standing
<1>7. CASE removes /\ MayRemoveSource(Top) /\ Goto("removeSource")
           /\ UNCHANGED <<left, frames, accountVars>>
  <2>1. PositionAt("removeSource")
    BY <1>1, <1>2, <1>7, TopFacts DEF PositionAt, MayGo, MayRemoveSource
  <2> QED
    BY <1>1, <1>7, <2>1, GoesOn DEF Standing, walkVars
<1> QED
  BY <1>5, <1>6, <1>7 DEF leaveDirectory

LEMMA RemoveSourceKeeps ==
  ASSUME Standing, Transfer, removeSource
  PROVE  Standing'
<1>1. /\ pc = "removeSource" /\ UnderWay /\ WalkInv /\ Move /\ MayGo
      /\ UNCHANGED <<request, world, root, manifest, next, left, totals>>
  BY DEF removeSource, outerVars, UnderWay, Standing, Position, PositionAt
<1>2. CASE Count("completed", 1) /\ advance(1) /\ Return("Completed", Front(frames))
  <2>1. /\ itemsProcessed' = itemsProcessed + IF CountsLate(request, manifest, Top.node) THEN 1 ELSE 0
        /\ tally' \in [Counters -> Nat]
    BY <1>1, <1>2 DEF CountsLate, Move, MayGo, WalkInv, WalkTypes, Count, advance, Counters
  <2>2. ChildrenDone /\ Top.aggregate = "Completed" /\ Top.allCompleted /\ "Completed" \in NodeOutcome
    BY <1>1 DEF MayGo, NodeOutcome
  <2> QED
    BY <1>1, <1>2, <2>1, <2>2, LeavesDirectory DEF Standing
<1>3. CASE Goto("askRemoval") /\ UNCHANGED <<frames, tally, itemsProcessed>>
  <2>1. PositionAt("askRemoval") /\ UNCHANGED <<walkVars, accountVars>>
    BY <1>1, <1>3 DEF PositionAt, walkVars, accountVars
  <2> QED
    BY <1>1, <1>3, <2>1, GoesOn DEF Standing
<1> QED
  BY <1>2, <1>3 DEF removeSource

LEMMA AskRemovalKeeps ==
  ASSUME Standing, Transfer, askRemoval
  PROVE  Standing'
<1>1. /\ pc = "askRemoval" /\ UnderWay /\ WalkInv /\ Move /\ MayGo
      /\ UNCHANGED <<request, world, root, manifest, next, totals>>
  BY DEF askRemoval, outerVars, UnderWay, Standing, Position, PositionAt
<1>2. CASE Goto("removeSource") /\ UNCHANGED <<frames, left, tally, itemsProcessed>>
  <2>1. PositionAt("removeSource") /\ UNCHANGED <<walkVars, accountVars>>
    BY <1>1, <1>2 DEF PositionAt, walkVars, accountVars
  <2> QED
    BY <1>1, <1>2, <2>1, GoesOn DEF Standing
<1>3. ASSUME NEW outcome \in {"Failed", "Cancelled"}, recordTerminalCleanupFailure(outcome)
      PROVE  Standing'
  <2>1. /\ itemsProcessed' = itemsProcessed + IF CountsLate(request, manifest, Top.node) THEN 1 ELSE 0
        /\ tally' \in [Counters -> Nat] /\ Return(outcome, Front(frames))
    BY <1>1, <1>3 DEF CountsLate, Move, MayGo, WalkInv, WalkTypes, Count, advance, Counters,
                      recordTerminalCleanupFailure
  <2>2. \E reason \in Reason : left' = left \cup {<<Top.node, reason>>}
    BY <1>3 DEF Reason, recordTerminalCleanupFailure
  <2>3. ChildrenDone /\ outcome \in NodeOutcome /\ outcome \notin {"Completed", "AlreadySatisfied"}
    BY <1>1, <1>3 DEF MayGo, NodeOutcome
  <2> QED
    BY <1>1, <2>1, <2>2, <2>3, LeavesDirectory DEF Standing
<1> QED
  BY <1>2, <1>3 DEF askRemoval

-----------------------------------------------------------------------------
(***************************************************************************)
(* Deletion.                                                               *)
(***************************************************************************)
Delete == request = "Delete"

LEMMA InspectDeleteRootKeeps ==
  ASSUME Standing, Delete, inspectDeleteRoot
  PROVE  Standing'
<1>1. /\ pc = "inspectRoot" /\ UnderWay /\ WalkInv /\ Unscanned /\ UNCHANGED <<request, world>>
  BY DEF inspectDeleteRoot, outerVars, UnderWay, Standing, Position, PositionAt
<1>2. CASE Goto("scan") /\ UNCHANGED <<walkVars, accountVars>>
  <2>1. PositionAt("scan")
    BY <1>1 DEF PositionAt
  <2> QED
    BY <1>1, <1>2, <2>1, GoesOn DEF Standing
<1>3. CASE finishUnscannedRoot("AlreadySatisfied")
  BY <1>1, <1>3, EndsUnscanned DEF Standing
<1> QED
  BY <1>2, <1>3 DEF inspectDeleteRoot

LEMMA ScanFindsNothingKeeps ==
  ASSUME Standing, Delete, scanFindsNothing
  PROVE  Standing'
<1>1. /\ pc = "scan" /\ UnderWay /\ WalkInv /\ Unscanned /\ UNCHANGED <<request, world>>
      /\ finishUnscannedRoot("AlreadySatisfied")
  BY DEF scanFindsNothing, outerVars, UnderWay, Standing, Position, PositionAt
<1> QED
  BY <1>1, EndsUnscanned DEF Standing

LEMMA BeginNodeKeeps ==
  ASSUME Standing, Delete, beginNode
  PROVE  Standing'
<1>1. /\ pc = "node" /\ UnderWay /\ WalkInv /\ UNCHANGED <<request, world>>
      /\ frames # <<>> => next \in Subtree(manifest, Top.node)
  BY DEF beginNode, outerVars, UnderWay, Standing
<1>2. Pending
  BY <1>1, AtANode DEF Standing
<1>3. CASE CancelHere
  BY <1>1, <1>3, CancelsHere DEF Standing
<1>4. CASE /\ frames' = Append(frames, FrameWithin(next)) /\ next' = next + 1 /\ Goto("node")
           /\ UNCHANGED <<root, manifest, left, accountVars>>
  <2>1. /\ next \in Nat \ {0} /\ frames \in Seq(Frame) /\ itemsProcessed \in Nat
        /\ tally \in [Counters -> Nat]
    BY <1>1, WalkManifest DEF WalkInv, WalkTypes
  <2>2. /\ FrameWithin(next) \in Frame /\ FrameWithin(next).node = next
        /\ FrameWithin(next).aggregate = "Completed"
    BY <2>1 DEF FrameWithin, Frame
  <2>3. /\ pc' = "node" /\ tally' \in [Counters -> Nat]
        /\ UNCHANGED <<root, manifest, left, totals, result, anyFailed>>
        /\ itemsProcessed' = itemsProcessed + IF CountsLate(request, manifest, next) THEN 0 ELSE 1
    BY <1>4, <2>1 DEF Goto, accountVars, CountsLate, Delete
  <2>4. UnderWay'
    BY <2>3 DEF UnderWay
  <2> HIDE DEF FrameWithin
  <2>5. WalkInv'
    BY <1>1, <1>2, <1>4, <2>2, <2>3, <2>4, MoveEnters
  <2>6. frames' # <<>> /\ ~ Unscanned'
    BY <1>2, <1>4, <2>1, <2>3 DEF Pending, Unscanned
  <2> QED
    BY <2>3, <2>5, <2>6, ComesBack DEF Standing
<1> QED
  BY <1>3, <1>4 DEF beginNode

LEMMA EndNodeKeeps ==
  ASSUME Standing, Delete, endNode
  PROVE  Standing'
<1>1. /\ pc = "node" /\ UnderWay /\ WalkInv
      /\ UNCHANGED <<request, world, root, manifest, next, totals>>
      /\ ~ (frames # <<>> => next \in Subtree(manifest, Top.node))
  BY DEF endNode, outerVars, UnderWay, Standing
<1>2. ChildrenDone
  BY <1>1, AtANode DEF Standing
<1>3. itemsProcessed \in Nat /\ tally \in [Counters -> Nat]
  BY <1>1 DEF WalkInv, WalkTypes
<1>4. CASE /\ KeepsDirectory(Top.aggregate) /\ advance(1)
           /\ left' = left \cup {<<Top.node, "kept">>}
           /\ Return(Top.aggregate, Front(frames)) /\ UNCHANGED tally
  <2>1. itemsProcessed' = itemsProcessed + IF CountsLate(request, manifest, Top.node) THEN 1 ELSE 0
    BY <1>4 DEF advance, CountsLate, Delete
  <2>2. \E reason \in Reason : left' = left \cup {<<Top.node, reason>>}
    BY <1>4 DEF Reason
  <2>3. Top.aggregate \in NodeOutcome /\ Top.aggregate \notin {"Completed", "AlreadySatisfied"}
    BY <1>1, <1>2, <1>4, TopFacts DEF NodeOutcome, KeepsDirectory
  <2> QED
    BY <1>1, <1>2, <1>3, <1>4, <2>1, <2>2, <2>3, LeavesDirectory DEF Standing
<1>5. CASE /\ ~ KeepsDirectory(Top.aggregate) /\ Goto("tryRemove")
           /\ UNCHANGED <<frames, left, tally, itemsProcessed>>
  <2>1. Owned(manifest[Top.node]) /\ Top.aggregate = "Completed"
    BY <1>1, <1>2, <1>5, TopFacts, WalkManifest DEF KeepsDirectory, WalkInv, ChildrenDone, Delete
  <2>2. PositionAt("tryRemove") /\ UNCHANGED <<walkVars, accountVars>>
    BY <1>1, <1>2, <1>5, <2>1 DEF PositionAt, MayGo, Delete, Move, walkVars, accountVars
  <2> QED
    BY <1>1, <1>5, <2>2, GoesOn DEF Standing
<1> QED
  BY <1>4, <1>5 DEF endNode

RemovalPlaces ==
  {"tryRemove", "makeWritable", "askReadOnly", "askRefused", "remove", "askEntryFailed"}

LEMMA GoesOnRemoving ==
  ASSUME Standing, pc \in RemovalPlaces, UNCHANGED <<request, world, walkVars, accountVars>>,
         NEW label \in RemovalPlaces, Goto(label)
  PROVE  Standing'
<1>1. UnderWay /\ WalkInv /\ PositionAt(label) /\ label \notin {"askFailed", "rootEnds", "done"}
  BY DEF RemovalPlaces, UnderWay, Standing, Position, PositionAt
<1> QED
  BY <1>1, GoesOn DEF Standing

LEMMA EndEntryKeeps ==
  ASSUME Standing, Delete, pc \in RemovalPlaces, UNCHANGED <<request, world>>,
         NEW counter, NEW outcome, <<counter, outcome>> \in
           {<<"skipped", "Skipped">>, <<"completed", "Completed">>, <<"satisfied", "AlreadySatisfied">>},
         EndEntry(counter, outcome)
  PROVE  Standing'
<1>1. UnderWay /\ WalkInv /\ MayGo
  BY DEF RemovalPlaces, UnderWay, Standing, Position, PositionAt
<1>2. itemsProcessed \in Nat /\ tally \in [Counters -> Nat]
  BY <1>1 DEF WalkInv, WalkTypes
<1>3. /\ counter \in Counters /\ outcome \in NodeOutcome
      /\ outcome \in {"Completed", "AlreadySatisfied"} => counter # "skipped"
  BY DEF Counters, NodeOutcome
<1>4. /\ itemsProcessed' = itemsProcessed + IF CountsLate(request, manifest, Top.node) THEN 1 ELSE 0
      /\ tally' \in [Counters -> Nat] /\ Return(outcome, Front(frames))
      /\ UNCHANGED <<root, manifest, next, totals>>
  BY <1>2, <1>3 DEF CountsLate, Delete, Count, advance, EndEntry
<1>5. /\ left' = left \/ \E reason \in Reason : left' = left \cup {<<Top.node, reason>>}
      /\ counter # "skipped" => left' = left
  BY DEF Reason, EndEntry
<1>6. ChildrenDone /\ Top.aggregate = "Completed" /\ ~ Move
  BY <1>1 DEF MayGo, Delete, Move
<1> QED
  BY <1>1, <1>3, <1>4, <1>5, <1>6, LeavesDirectory DEF Standing

LEMMA TryRemoveKeeps ==
  ASSUME Standing, Delete, tryRemove
  PROVE  Standing'
<1> DEFINE label == IF makeWritableAuthorized THEN "makeWritable"
                    ELSE IF RemediableFile /\ Entry \in present \ writable THEN "askReadOnly"
                    ELSE "remove"
<1>1. /\ pc = "tryRemove" /\ UnderWay /\ WalkInv /\ UNCHANGED <<request, world>>
      /\ CheckpointThen(label) /\ request = "Delete" /\ MayGo
  BY DEF tryRemove, outerVars, UnderWay, Standing, Position, PositionAt
<1>2. label \in {"makeWritable", "askReadOnly", "remove"}
  OBVIOUS
<1> HIDE DEF label
<1>3. PositionAt(label)
  BY <1>1, <1>2 DEF PositionAt
<1> QED
  BY <1>1, <1>2, <1>3, ChecksAndGoesOn DEF Standing

LEMMA PreflightFailsKeeps ==
  ASSUME Standing, Delete, preflightFails
  PROVE  Standing'
BY GoesOnRemoving DEF preflightFails, outerVars, RemovalPlaces

LEMMA AskReadOnlyKeeps ==
  ASSUME Standing, Delete, askReadOnly
  PROVE  Standing'
<1>1. pc \in RemovalPlaces /\ UnderWay /\ WalkInv /\ UNCHANGED <<request, world>>
  BY DEF askReadOnly, outerVars, UnderWay, RemovalPlaces, Standing
<1>2. ASSUME NEW label \in {"makeWritable", "tryRemove"}, Goto(label),
             UNCHANGED <<walkVars, accountVars>>
      PROVE  Standing'
  BY <1>1, <1>2, GoesOnRemoving DEF RemovalPlaces
<1>3. CASE recordEntrySkipped
  BY <1>1, <1>3, EndEntryKeeps DEF recordEntrySkipped
<1>4. CASE CancelHere
  BY <1>1, <1>4, CancelsHere DEF Standing
<1> QED
  BY <1>2, <1>3, <1>4 DEF askReadOnly

LEMMA MakeWritableKeeps ==
  ASSUME Standing, Delete, makeWritable
  PROVE  Standing'
<1>1. pc \in RemovalPlaces /\ UNCHANGED <<request, world, walkVars, accountVars>>
  BY DEF makeWritable, outerVars, RemovalPlaces
<1>2. Goto("remove") \/ Goto("askEntryFailed")
  BY DEF makeWritable
<1> QED
  BY <1>1, <1>2, GoesOnRemoving DEF RemovalPlaces

LEMMA RemoveKeeps ==
  ASSUME Standing, Delete, remove
  PROVE  Standing'
<1>1. pc \in RemovalPlaces /\ UNCHANGED <<request, world>>
  BY DEF remove, outerVars, RemovalPlaces
<1>2. ASSUME NEW label \in {"askRefused", "askEntryFailed"}, Goto(label),
             UNCHANGED <<walkVars, accountVars>>
      PROVE  Standing'
  BY <1>1, <1>2, GoesOnRemoving DEF RemovalPlaces
<1>3. CASE EndEntry("completed", "Completed")
  BY <1>1, <1>3, EndEntryKeeps
<1>4. CASE EndEntry("satisfied", "AlreadySatisfied")
  BY <1>1, <1>4, EndEntryKeeps
<1> QED
  BY <1>2, <1>3, <1>4 DEF remove

LEMMA AskEntryFailedKeeps ==
  ASSUME Standing, Delete, askEntryFailed
  PROVE  Standing'
<1>1. pc \in RemovalPlaces /\ UnderWay /\ WalkInv /\ UNCHANGED <<request, world>>
  BY DEF askEntryFailed, outerVars, UnderWay, RemovalPlaces, Standing
<1>2. CASE Goto("tryRemove") /\ UNCHANGED <<walkVars, accountVars>>
  BY <1>1, <1>2, GoesOnRemoving DEF RemovalPlaces
<1>3. CASE recordEntrySkipped
  BY <1>1, <1>3, EndEntryKeeps DEF recordEntrySkipped
<1>4. CASE CancelHere
  BY <1>1, <1>4, CancelsHere DEF Standing
<1> QED
  BY <1>2, <1>3, <1>4 DEF askEntryFailed

-----------------------------------------------------------------------------
(***************************************************************************)
(* The source, and what surrounds the walk.                                *)
(***************************************************************************)
SourceKept ==
  /\ present \subseteq Entries /\ writable \subseteq Entries /\ taken \subseteq Entries
  /\ LinkTargetsAreKept

Surroundings ==
  /\ meddling \in 0..MaxMeddling /\ cancelRequested \in BOOLEAN
  /\ remembered \in [IssueKind -> DecisionAction \cup {NoAction}]
  /\ PlanTypes /\ makeWritableAuthorized \in BOOLEAN

TreeInv == Standing /\ SourceKept /\ Surroundings

LEMMA OwnNodesLieWithinTheRoot ==
  ASSUME WalkInv, NEW i \in DOMAIN manifest, Owned(manifest[i])
  PROVE  manifest[i].entry \in Within(world, Root)
<1>1. ~ Unscanned
  BY DEF Unscanned
<1> QED
  BY <1>1, WalkManifest DEF WalkInv

(* What lies within the root lies within the selection.                     *)
LEMMA WithinTheSelection ==
  ASSUME WalkInv, SourceKept, NEW e \in Within(world, Root), UNCHANGED world,
         taken' \subseteq taken \cup Within(world, e)
  PROVE  taken' \subseteq Entries /\ LinkTargetsAreKept'
<1>1. Root \in Entries /\ Root \in Selected
  <2>1. root \in DOMAIN world.roots
    BY DEF WalkInv, WalkTypes, World
  <2> QED
    BY <2>1, WalkManifest DEF WalkInv, Selected, Root
<1>2. e \in Entries /\ Within(world, e) \subseteq Within(world, Root)
  BY <1>1, WithinFacts
<1>3. Within(world, Root) \subseteq Entries /\ Selected' = Selected
  BY <1>1, WithinFacts DEF Selected
<1> QED
  BY <1>1, <1>2, <1>3 DEF SourceKept, LinkTargetsAreKept

LEMMA TakesItsOwn ==
  ASSUME WalkInv, SourceKept, NEW e \in Within(world, Root), UNCHANGED world, TakeAway(e)
  PROVE  SourceKept'
BY WithinTheSelection DEF TakeAway, SourceKept

LEMMA SourceStays ==
  ASSUME SourceKept, UNCHANGED <<sourceVars, world>>
  PROVE  SourceKept'
BY DEF SourceKept, LinkTargetsAreKept, Selected, sourceVars

LEMMA RenameTakesItsOwn ==
  ASSUME Standing, SourceKept, rename
  PROVE  SourceKept'
<1> DEFINE e == IF Unscanned THEN Root ELSE Node.entry
<1>1. WalkInv /\ UNCHANGED world /\ pc \in {"renameRoot", "renameResolved", "renameNode"}
  BY DEF Standing, rename, outerVars
<1>2. e \in Within(world, Root)
  <2>1. CASE Unscanned
    BY <1>1, <2>1, WalkManifest, WithinFacts DEF WalkInv
  <2>2. CASE ~ Unscanned
    <3>1. Pending /\ Owned(Node)
      BY <1>1, <2>2 DEF Standing, Position, PositionAt
    <3> QED
      BY <1>1, <2>2, <3>1, OwnNodesLieWithinTheRoot DEF Pending, Node
  <2> QED
    BY <2>1, <2>2
<1> HIDE DEF e
<1>3. TakeAway(e) \/ UNCHANGED sourceVars
  BY DEF rename, e
<1> QED
  BY <1>1, <1>2, <1>3, TakesItsOwn, SourceStays

LEMMA VisitTakesItsOwn ==
  ASSUME Standing, SourceKept, visitEntry
  PROVE  SourceKept'
<1>1. WalkInv /\ UNCHANGED world /\ Pending
  BY AtANode DEF Standing, visitEntry, outerVars, MoreChildren
<1>2. CASE LosesSource /\ TakeAway(Node.entry)
  <2>1. Node.entry \in Within(world, Root)
    BY <1>1, <1>2, OwnNodesLieWithinTheRoot DEF Pending, Node, LosesSource
  <2> QED
    BY <1>1, <1>2, <2>1, TakesItsOwn
<1>3. CASE UNCHANGED sourceVars
  BY <1>1, <1>3, SourceStays
<1> QED
  BY <1>2, <1>3 DEF visitEntry, entryCompletes, entryFails, entryFailsCancelled

LEMMA TopIsItsOwn ==
  ASSUME WalkInv, MayGo
  PROVE  manifest[Top.node].entry \in Within(world, Root)
BY TopFacts, OwnNodesLieWithinTheRoot DEF MayGo

LEMMA RemovalTakesItsOwn ==
  ASSUME Standing, SourceKept, removeSource \/ remove \/ makeWritable
  PROVE  SourceKept'
<1>1. WalkInv /\ MayGo
  BY DEF Standing, removeSource, remove, makeWritable, Position, PositionAt
<1>2. UNCHANGED world
  BY DEF removeSource, remove, makeWritable, outerVars
<1>3. manifest[Top.node].entry \in Within(world, Root)
  BY <1>1, TopIsItsOwn
<1>4. CASE removeSource
  <2>1. TakeAway(manifest[Top.node].entry) \/ UNCHANGED sourceVars
    BY <1>4 DEF removeSource
  <2> QED
    BY <1>1, <1>2, <1>3, <2>1, TakesItsOwn, SourceStays
<1>5. Within(world, Root) \subseteq Entries
  BY <1>1, WalkManifest, WithinFacts DEF WalkInv
<1>6. Entry \in Within(world, Entry) /\ Entry \in Entries /\ Entry \in Within(world, Root)
  BY <1>3, <1>5, WithinFacts DEF Entry
<1>7. CASE remove
  <2>1. /\ writable' = writable /\ present' \subseteq present
        /\ taken' \subseteq taken \cup Within(world, Entry)
    BY <1>6, <1>7 DEF remove
  <2>2. taken' \subseteq Entries /\ LinkTargetsAreKept'
    BY <1>1, <1>2, <1>6, <2>1, WithinTheSelection
  <2> QED
    BY <2>1, <2>2 DEF SourceKept
<1>8. CASE makeWritable
  <2>1. UNCHANGED <<present, taken>> /\ writable' \subseteq writable \cup {Entry}
    BY <1>8 DEF makeWritable
  <2> QED
    BY <1>2, <1>6, <2>1 DEF SourceKept, LinkTargetsAreKept, Selected
<1> QED
  BY <1>4, <1>7, <1>8

(* Others create and remove entries; none of that is the operation's doing. *)
LEMMA OthersTakeNothing ==
  ASSUME SourceKept, others
  PROVE  SourceKept'
<1>1. PICK e \in Entries : entryVanishes(e) \/ entryAppears(e)
  BY DEF others
<1>2. UNCHANGED <<writable, taken, world>> /\ present' \subseteq present \cup {e}
  BY <1>1 DEF entryVanishes, entryAppears
<1> QED
  BY <1>2 DEF SourceKept, LinkTargetsAreKept, Selected

(* What is remembered of the answers.                                       *)
LEMMA Remembers ==
  ASSUME Surroundings, NEW kind \in IssueKind, NEW scopeAllowed, NEW action \in DecisionAction,
         resolveDecision(kind, scopeAllowed, action)
  PROVE  remembered' \in [IssueKind -> DecisionAction \cup {NoAction}]
BY DEF Surroundings, resolveDecision

LEMMA AskingRemembers ==
  ASSUME Surroundings,
         \/ askActionFailed \/ askRemoval \/ askReadOnly \/ askEntryFailed
         \/ \E kind \in {"RootDirectoryMerge", "TypeMismatch"} : promptForCollision(kind)
  PROVE  remembered' \in [IssueKind -> DecisionAction \cup {NoAction}]
<1>1. \E kind \in IssueKind, scopeAllowed \in BOOLEAN, action \in DecisionAction :
        resolveDecision(kind, scopeAllowed, action)
  BY DEF askActionFailed, askRemoval, askReadOnly, askEntryFailed, promptForCollision, IssueKind,
         DecisionAction
<1> QED
  BY <1>1, Remembers

LEMMA ExecutorSurroundings ==
  ASSUME Surroundings, UNCHANGED <<meddling, cancelRequested>>,
         remembered' \in [IssueKind -> DecisionAction \cup {NoAction}],
         PlanTypes', makeWritableAuthorized' \in BOOLEAN
  PROVE  Surroundings'
BY DEF Surroundings

LEMMA StepSurroundings ==
  ASSUME Surroundings, beginRoot \/ inspectionFails \/ askActionFailed \/ nextRoot
                       \/ \E mode, label : scan(mode, label)
  PROVE  /\ UNCHANGED <<meddling, cancelRequested>>
         /\ remembered' \in [IssueKind -> DecisionAction \cup {NoAction}]
<1>1. UNCHANGED <<meddling, cancelRequested>>
  BY DEF beginRoot, inspectionFails, askActionFailed, nextRoot, scan, outerVars
<1>2. CASE askActionFailed
  BY <1>1, <1>2, AskingRemembers
<1>3. CASE ~ askActionFailed
  <2>1. UNCHANGED remembered
    BY <1>3 DEF beginRoot, inspectionFails, nextRoot, scan
  <2> QED
    BY <1>1, <2>1 DEF Surroundings
<1> QED
  BY <1>2, <1>3

LEMMA ChoosePlan ==
  ASSUME PlanTypes, NEW way \in {"Use", "Merge"}, Choose(way)
  PROVE  PlanTypes'
BY DEF Choose, PlanTypes

LEMMA TransferPlan ==
  ASSUME TreeInv, TransferNext
  PROVE  PlanTypes'
<1>1. PlanTypes /\ WalkInv
  BY DEF TreeInv, Surroundings, Standing
<1>2. ASSUME UNCHANGED planVars
      PROVE  PlanTypes'
  BY <1>1, <1>2 DEF planVars, PlanTypes
<1>3. CASE TransferStep \/ ensureParent \/ leafRoot \/ resolveRoot \/ visitEntry \/ leaveDirectory
           \/ removeSource \/ askRemoval
  BY <1>2, <1>3 DEF TransferStep, ensureParent, leafRoot, resolveRoot, visitEntry, leaveDirectory,
                    removeSource, askRemoval
<1>4. CASE rename
  <2>1. knownCrossDevice' \in BOOLEAN
    <3>1. knownCrossDevice \in BOOLEAN
      BY <1>1 DEF PlanTypes
    <3>2. \/ knownCrossDevice' = knownCrossDevice
          \/ \E error \in {"CrossDevice", "AlreadyExists"} :
               knownCrossDevice' = (knownCrossDevice \/ error = "CrossDevice")
      BY <1>4 DEF rename
    <3> QED
      BY <3>1, <3>2
  <2> QED
    BY <1>1, <1>4, <2>1 DEF rename, PlanTypes
<1>5. CASE inspectRoot
  <2>1. rootKind' = ReportedKind(world, present, Root) /\ knownCrossDevice' = FALSE
        /\ UNCHANGED choice
    BY <1>5 DEF inspectRoot
  <2>2. ReportedKind(world, present, Root) \in EntryKind
    BY <1>1, WalkManifest, WorldFacts DEF WalkInv, WalkTypes, ReportedKind, EntryKind
  <2> QED
    BY <1>1, <2>1, <2>2 DEF PlanTypes
<1>6. CASE resolveDirectory
  BY <1>1, <1>2, <1>6, ChoosePlan DEF resolveDirectory
<1>7. ASSUME NEW kind \in {"RootDirectoryMerge", "TypeMismatch"}, promptForCollision(kind)
      PROVE  PlanTypes'
  BY <1>1, <1>2, <1>7, ChoosePlan DEF promptForCollision
<1>8. CASE enterDirectory
  BY <1>1, <1>2, <1>8 DEF enterDirectory, EnterContents, PlanTypes
<1>9. CASE visitDirectory
  <2>1. knownCrossDevice' = (frames # <<>> /\ Top.cross) /\ UNCHANGED <<rootKind, choice>>
    BY <1>9 DEF visitDirectory
  <2> QED
    BY <1>1, <2>1 DEF PlanTypes
<1> QED
  BY <1>3, <1>4, <1>5, <1>6, <1>7, <1>8, <1>9 DEF TransferNext

LEMMA TransferSurroundings ==
  ASSUME TreeInv, TransferNext, UNCHANGED makeWritableAuthorized
  PROVE  Surroundings'
<1>1. Surroundings /\ PlanTypes'
  BY TransferPlan DEF TreeInv
<1>2. makeWritableAuthorized' \in BOOLEAN /\ remembered \in [IssueKind -> DecisionAction \cup {NoAction}]
  BY <1>1 DEF Surroundings
<1>3. CASE TransferStep
  BY <1>1, <1>2, <1>3, StepSurroundings, ExecutorSurroundings DEF TransferStep
<1>4. ASSUME UNCHANGED <<outerVars, remembered>>
      PROVE  Surroundings'
  BY <1>1, <1>2, <1>4, ExecutorSurroundings DEF outerVars
<1>5. CASE rename \/ inspectRoot \/ ensureParent \/ leafRoot \/ resolveRoot \/ resolveDirectory
           \/ visitDirectory \/ visitEntry \/ leaveDirectory \/ removeSource
  BY <1>4, <1>5 DEF rename, inspectRoot, ensureParent, leafRoot, resolveRoot, resolveDirectory,
                    visitDirectory, visitEntry, leaveDirectory, removeSource
<1>6. CASE askRemoval
  BY <1>1, <1>2, <1>6, AskingRemembers, ExecutorSurroundings DEF askRemoval, outerVars
<1>7. ASSUME NEW kind \in {"RootDirectoryMerge", "TypeMismatch"}, promptForCollision(kind)
      PROVE  Surroundings'
  BY <1>1, <1>2, <1>7, AskingRemembers, ExecutorSurroundings DEF promptForCollision, outerVars
<1>8. CASE enterDirectory
  <2>1. meddling' \in 0..MaxMeddling
    BY <1>1, <1>8, MeddlingAssumption DEF enterDirectory, Meddle, Surroundings
  <2>2. UNCHANGED <<cancelRequested, remembered>>
    BY <1>8 DEF enterDirectory
  <2> QED
    BY <1>1, <1>2, <2>1, <2>2 DEF Surroundings
<1> QED
  BY <1>3, <1>5, <1>6, <1>7, <1>8 DEF TransferNext

LEMMA DeleteSurroundings ==
  ASSUME TreeInv, DeleteNext, UNCHANGED planVars
  PROVE  Surroundings'
<1>1. Surroundings /\ PlanTypes'
  BY DEF TreeInv, Surroundings, planVars, PlanTypes
<1>2. /\ makeWritableAuthorized \in BOOLEAN
      /\ remembered \in [IssueKind -> DecisionAction \cup {NoAction}]
  BY <1>1 DEF Surroundings
<1>3. CASE DeleteStep
  BY <1>1, <1>2, <1>3, StepSurroundings, ExecutorSurroundings DEF DeleteStep
<1>4. CASE inspectDeleteRoot \/ scanFindsNothing \/ beginNode \/ endNode \/ tryRemove
           \/ preflightFails \/ makeWritable \/ remove
  <2>1. UNCHANGED <<outerVars, remembered>> /\ makeWritableAuthorized' \in BOOLEAN
    BY <1>2, <1>4 DEF inspectDeleteRoot, scanFindsNothing, beginNode, endNode, tryRemove,
                      preflightFails, makeWritable, remove
  <2> QED
    BY <1>1, <1>2, <2>1, ExecutorSurroundings DEF outerVars
<1>5. CASE askReadOnly \/ askEntryFailed
  <2>1. UNCHANGED outerVars /\ makeWritableAuthorized' \in BOOLEAN
    BY <1>2, <1>5 DEF askReadOnly, askEntryFailed
  <2> QED
    BY <1>1, <1>5, <2>1, AskingRemembers, ExecutorSurroundings DEF outerVars
<1> QED
  BY <1>3, <1>4, <1>5 DEF DeleteNext

LEMMA SourceStep ==
  ASSUME TreeInv, TransferNext \/ DeleteNext
  PROVE  SourceKept'
<1>1. Standing /\ SourceKept
  BY DEF TreeInv
<1>2. ASSUME UNCHANGED <<sourceVars, outerVars>>
      PROVE  SourceKept'
  BY <1>1, <1>2, SourceStays DEF outerVars
<1>3. CASE rename
  BY <1>1, <1>3, RenameTakesItsOwn
<1>4. CASE visitEntry
  BY <1>1, <1>4, VisitTakesItsOwn
<1>5. CASE removeSource \/ remove \/ makeWritable
  BY <1>1, <1>5, RemovalTakesItsOwn
<1>6. CASE beginRoot \/ inspectionFails \/ askActionFailed \/ nextRoot
           \/ scan("MaterializingTransfer", "enter") \/ scan("PermanentDelete", "node")
  BY <1>2, <1>6 DEF beginRoot, inspectionFails, askActionFailed, nextRoot, scan
<1>7. CASE inspectRoot \/ ensureParent \/ leafRoot \/ resolveRoot \/ resolveDirectory
           \/ visitDirectory \/ leaveDirectory \/ askRemoval
  BY <1>2, <1>7 DEF inspectRoot, ensureParent, leafRoot, resolveRoot, resolveDirectory,
                    visitDirectory, leaveDirectory, askRemoval
<1>8. CASE promptForCollision("RootDirectoryMerge") \/ promptForCollision("TypeMismatch")
  BY <1>2, <1>8 DEF promptForCollision
<1>9. CASE enterDirectory
  <2>1. UNCHANGED <<sourceVars, world>>
    BY <1>9 DEF enterDirectory
  <2> QED
    BY <1>1, <2>1, SourceStays
<1>10. CASE inspectDeleteRoot \/ scanFindsNothing \/ beginNode \/ endNode \/ tryRemove
            \/ preflightFails \/ askReadOnly \/ askEntryFailed
  BY <1>2, <1>10 DEF inspectDeleteRoot, scanFindsNothing, beginNode, endNode, tryRemove,
                     preflightFails, askReadOnly, askEntryFailed
<1> QED
  BY <1>3, <1>4, <1>5, <1>6, <1>7, <1>8, <1>9, <1>10
     DEF TransferNext, DeleteNext, TransferStep, DeleteStep

LEMMA TransferKeeps ==
  ASSUME Standing, Transfer, PlanTypes, TransferNext
  PROVE  Standing'
<1>1. CASE TransferStep
  <2>1. BuildMode = "MaterializingTransfer"
    BY DEF BuildMode, Transfer
  <2> QED
    BY <1>1, <2>1, BeginRootKeeps, InspectionFailsKeeps, ScanKeeps, AskActionFailedKeeps,
       NextRootKeeps DEF TransferStep
<1>2. CASE rename \/ inspectRoot \/ ensureParent \/ leafRoot \/ resolveRoot \/ resolveDirectory
  BY <1>2, RenameKeeps, InspectRootKeeps, EnsureParentKeeps, LeafRootKeeps, ResolveRootKeeps,
     ResolveDirectoryKeeps
<1>3. CASE promptForCollision("RootDirectoryMerge") \/ promptForCollision("TypeMismatch")
  BY <1>3, PromptForCollisionKeeps
<1>4. CASE enterDirectory \/ visitDirectory \/ visitEntry \/ leaveDirectory \/ removeSource
           \/ askRemoval
  BY <1>4, EnterDirectoryKeeps, VisitDirectoryKeeps, VisitEntryKeeps, LeaveDirectoryKeeps,
     RemoveSourceKeeps, AskRemovalKeeps
<1> QED
  BY <1>1, <1>2, <1>3, <1>4 DEF TransferNext

LEMMA DeleteKeeps ==
  ASSUME Standing, Delete, DeleteNext
  PROVE  Standing'
<1>1. CASE DeleteStep
  <2>1. BuildMode = "PermanentDelete"
    BY DEF BuildMode, Delete
  <2> QED
    BY <1>1, <2>1, BeginRootKeeps, InspectionFailsKeeps, ScanKeeps, AskActionFailedKeeps,
       NextRootKeeps DEF DeleteStep
<1>2. CASE inspectDeleteRoot \/ scanFindsNothing \/ beginNode \/ endNode
  BY <1>2, InspectDeleteRootKeeps, ScanFindsNothingKeeps, BeginNodeKeeps, EndNodeKeeps
<1>3. CASE tryRemove \/ preflightFails \/ askReadOnly \/ makeWritable \/ remove \/ askEntryFailed
  BY <1>3, TryRemoveKeeps, PreflightFailsKeeps, AskReadOnlyKeeps, MakeWritableKeeps, RemoveKeeps,
     AskEntryFailedKeeps
<1> QED
  BY <1>1, <1>2, <1>3 DEF DeleteNext

-----------------------------------------------------------------------------
(***************************************************************************)
(* The invariant holds.                                                    *)
(***************************************************************************)
LEMMA TreeInit ==
  ASSUME Init
  PROVE  TreeInv
<1>1. WalkInit /\ rootKind = "File" /\ choice = "none" /\ knownCrossDevice = FALSE
      /\ makeWritableAuthorized = FALSE
  BY DEF Init, TransferInit, DeleteInit
<1>2. request \in Request /\ world \in World
  BY <1>1, RequestsAssumption, WorldsAssumption DEF WalkInit
<1>3. Len(world.roots) \in Nat /\ 1 \in 1..Len(world.roots)
  <2>1. world.roots \in Seq(Entries) /\ world.roots # <<>>
    BY <1>2 DEF World
  <2> QED
    BY <2>1
<1>4. WalkTypes
  <2>1. next \in 1..(Len(manifest) + 1) /\ frames \in Seq(Frame) /\ left \subseteq (DOMAIN manifest) \X Reason
    BY <1>1 DEF WalkInit
  <2>2. tally \in [Counters -> Nat] /\ totals \in [unresolved: 0..Len(world.roots), items: Nat]
    BY <1>1, <1>3 DEF WalkInit, Counters
  <2> QED
    BY <1>1, <1>2, <1>3, <2>1, <2>2 DEF WalkInit, WalkTypes
<1>5. WalkNests /\ FramesKnowWhatIsLeft
  BY <1>1 DEF WalkInit, WalkNests, FramesKnowWhatIsLeft
<1>6. AccountsMeet
  BY <1>1, <1>3 DEF WalkInit, AccountsMeet, Unscanned
<1>7. Position
  BY <1>1 DEF WalkInit, Position, PositionAt, Unscanned
<1>8. SourceKept
  BY <1>1 DEF WalkInit, SourceKept, LinkTargetsAreKept
<1>9. Surroundings
  <2>1. meddling \in 0..MaxMeddling /\ cancelRequested \in BOOLEAN
    <3>1. meddling = 0 /\ cancelRequested = FALSE
      BY <1>1 DEF WalkInit
    <3>2. 0 \in 0..MaxMeddling
      BY MeddlingAssumption
    <3> QED
      BY <3>1, <3>2
  <2>2. remembered \in [IssueKind -> DecisionAction \cup {NoAction}]
    BY <1>1 DEF WalkInit
  <2>3. PlanTypes
    BY <1>1 DEF PlanTypes, EntryKind
  <2> QED
    BY <1>1, <2>1, <2>2, <2>3 DEF Surroundings
<1> QED
  BY <1>4, <1>5, <1>6, <1>7, <1>8, <1>9 DEF TreeInv, Standing, WalkInv

LEMMA TreeStep ==
  ASSUME TreeInv, [Next]_operationVars
  PROVE  TreeInv'
<1>1. Standing /\ SourceKept /\ Surroundings /\ PlanTypes
  BY DEF TreeInv, Surroundings
<1>2. CASE request # "Delete" /\ TransferNext /\ UNCHANGED makeWritableAuthorized
  BY <1>1, <1>2, TransferKeeps, SourceStep, TransferSurroundings DEF TreeInv, Transfer
<1>3. CASE request = "Delete" /\ DeleteNext /\ UNCHANGED planVars
  BY <1>1, <1>3, DeleteKeeps, SourceStep, DeleteSurroundings DEF TreeInv, Delete
<1>4. CASE cancel /\ UNCHANGED <<planVars, makeWritableAuthorized>>
  <2>1. /\ UNCHANGED <<request, world, walkVars, accountVars, controlVars, sourceVars>>
        /\ cancelRequested' = TRUE /\ UNCHANGED <<meddling, remembered>>
    BY <1>4 DEF cancel
  <2>2. Standing'
    BY <1>1, <2>1, OthersKeep
  <2>3. SourceKept'
    BY <1>1, <2>1, SourceStays
  <2>4. Surroundings'
    BY <1>1, <1>4, <2>1 DEF Surroundings, PlanTypes, planVars
  <2> QED
    BY <2>2, <2>3, <2>4 DEF TreeInv
<1>5. CASE others /\ UNCHANGED <<planVars, makeWritableAuthorized>>
  <2>1. /\ UNCHANGED <<request, world, walkVars, accountVars, controlVars>>
        /\ UNCHANGED <<cancelRequested, remembered>>
        /\ meddling < MaxMeddling /\ meddling' = meddling + 1
    BY <1>5 DEF others, entryVanishes, entryAppears, Meddle
  <2>2. Standing'
    BY <1>1, <2>1, OthersKeep
  <2>3. SourceKept'
    BY <1>1, <1>5, OthersTakeNothing
  <2>4. Surroundings'
    BY <1>1, <1>5, <2>1, MeddlingAssumption DEF Surroundings, PlanTypes, planVars
  <2> QED
    BY <2>2, <2>3, <2>4 DEF TreeInv
<1>6. CASE UNCHANGED operationVars
  <2>1. UNCHANGED <<request, world, walkVars, accountVars, controlVars, sourceVars, meddling,
                    cancelRequested, remembered, planVars, makeWritableAuthorized>>
    BY <1>6 DEF operationVars, transferVars, outerVars
  <2>2. Standing'
    BY <1>1, <2>1, OthersKeep
  <2>3. SourceKept'
    BY <1>1, <2>1, SourceStays
  <2>4. Surroundings'
    BY <1>1, <2>1 DEF Surroundings, PlanTypes, planVars
  <2> QED
    BY <2>2, <2>3, <2>4 DEF TreeInv
<1> QED
  BY <1>2, <1>3, <1>4, <1>5, <1>6 DEF Next, runOperation, Finished

LEMMA TreeInvariance == Spec => []TreeInv
<1>1. Init => TreeInv
  BY TreeInit
<1>2. TreeInv /\ [Next]_operationVars => TreeInv'
  BY TreeStep
<1> QED
  BY <1>1, <1>2, PTL DEF Spec

(* The variables of an operation keep their types: the walk's place, its    *)
(* open directories and what is left stay within the manifest at hand.      *)
THEOREM TreeTypeCorrectness == Spec => []TreeTypeOK
<1>1. TreeInv => TreeTypeOK
  <2> SUFFICES ASSUME TreeInv
               PROVE  TreeTypeOK
    OBVIOUS
  <2>1. WalkTypes /\ WalkNests /\ SourceKept /\ Surroundings
    BY DEF TreeInv, Standing, WalkInv
  <2>2. \A i \in DOMAIN manifest : manifest[i] \in SourceNode
    BY <2>1, WalkManifest
  <2>3. \A i \in DOMAIN frames :
          /\ frames[i].node \in DOMAIN manifest /\ frames[i].aggregate \in NodeOutcome
          /\ frames[i].allCompleted \in BOOLEAN /\ frames[i].cross \in BOOLEAN
    BY <2>1, FrameNodes DEF Frame, NodeOutcome
  <2>4. totals.unresolved \in 0..Len(world.roots) /\ totals.items \in Nat
    BY <2>1 DEF WalkTypes
  <2> QED
    BY <2>1, <2>2, <2>3, <2>4 DEF TreeTypeOK, WalkTypes, SourceKept, Surroundings, PlanTypes, Reason,
                                  Counters
<1> QED
  BY <1>1, TreeInvariance, PTL

(* Whatever links the selection holds and wherever they lead, only entries  *)
(* that lie within the selection are moved away or deleted: the walk takes  *)
(* an entry only under the operation's own right to it.                     *)
THEOREM LinkTargetsStay == Spec => []LinkTargetsAreKept
<1>1. TreeInv => LinkTargetsAreKept
  BY DEF TreeInv, SourceKept
<1> QED
  BY <1>1, TreeInvariance, PTL

(* The source of a directory is up for removal only when nothing below it   *)
(* was skipped, failed or kept, and nothing of its own was there already.   *)
THEOREM OnlyWhatWentIsRemoved == Spec => []RemovesOnlyWhatWentCompletely
<1>1. TreeInv => RemovesOnlyWhatWentCompletely
  <2> SUFFICES ASSUME TreeInv, Removing, NEW entry \in LeftBelow
               PROVE  entry[2] = "satisfied" /\ ~ Owned(manifest[entry[1]])
    BY DEF RemovesOnlyWhatWentCompletely
  <2>1. WalkInv /\ MayGo /\ (pc = "removeSource" => Move) /\ (pc # "removeSource" => request = "Delete")
    BY DEF TreeInv, Standing, Removing, Position, PositionAt
  <2>2. entry \in left /\ Top.node <= entry[1]
    BY DEF LeftBelow, Subtree
  <2>3. KeepsNothing(request, manifest, Top, entry)
    BY <2>1, <2>2, TopFacts DEF MayGo
  <2> QED
    BY <2>1, <2>3 DEF KeepsNothing, MayGo, Move
<1> QED
  BY <1>1, TreeInvariance, PTL

(* The progress never exceeds the totals that are known, and an operation   *)
(* that was not cancelled ends with every item processed.                   *)
THEOREM ProgressStaysWithinTotals == Spec => []ProgressMeetsTotals
<1>1. TreeInv => ProgressMeetsTotals
  <2> SUFFICES ASSUME TreeInv
               PROVE  ProgressMeetsTotals
    OBVIOUS
  <2>1. WalkTypes /\ AccountsMeet
    BY DEF TreeInv, Standing, WalkInv
  <2>2. CASE pc \in {"rootEnds", "done"}
    BY <2>1, <2>2 DEF AccountsMeet, ProgressMeetsTotals
  <2>3. CASE ~ Unscanned /\ UnderWay
    <3>1. itemsProcessed + (Len(manifest) + 1 - next)
            + Cardinality(Uncounted(request, manifest, frames)) = totals.items
      BY <2>1, <2>3 DEF AccountsMeet, UnderWay
    <3>2. /\ itemsProcessed \in Nat /\ next \in 1..(Len(manifest) + 1) /\ Len(manifest) \in Nat
          /\ Cardinality(Uncounted(request, manifest, frames)) \in Nat
      BY <2>1, WalkManifest, CountingUncounted DEF WalkTypes
    <3>3. itemsProcessed <= totals.items
      BY <3>1, <3>2
    <3> QED
      BY <2>3, <3>3 DEF ProgressMeetsTotals, UnderWay
  <2>4. CASE Unscanned /\ UnderWay
    <3>1. totals.unresolved = Len(world.roots) - root + 1 /\ itemsProcessed = totals.items
      BY <2>1, <2>4 DEF AccountsMeet, UnderWay
    <3>2. root \in 1..Len(world.roots) /\ itemsProcessed \in Nat
      BY <2>1 DEF WalkTypes
    <3> QED
      BY <2>4, <3>1, <3>2 DEF ProgressMeetsTotals, UnderWay
  <2> QED
    BY <2>2, <2>3, <2>4 DEF UnderWay
<1> QED
  BY <1>1, TreeInvariance, PTL

-----------------------------------------------------------------------------
(***************************************************************************)
(* What an operation that ends Completed has done.                         *)
(***************************************************************************)
Quiet == tally.skipped = 0 /\ tally.satisfied = 0 /\ tally.failed = 0

(* A failure is known to a directory that is still open, to the root that   *)
(* just ended, or to the operation.                                         *)
FailuresShow ==
  /\ pc # "done" /\ tally.failed # 0 =>
       \/ anyFailed
       \/ pc = "rootEnds" /\ result \in {"Failed", "Cancelled"}
       \/ \E k \in DOMAIN frames : frames[k].aggregate = "Failed"
  /\ pc = "done" /\ result = "Completed" => tally.failed = 0

(* A copy counts every item it processes under one of the counters.         *)
CopiesCount ==
  request = "Copy" =>
    /\ tally.completed + tally.failed <= itemsProcessed
    /\ itemsProcessed <= tally.completed + tally.failed + tally.skipped + tally.satisfied

(* As long as nothing was skipped, failed or found done, no open directory  *)
(* keeps anything and the roots dealt with are gone.                        *)
MovesTake ==
  request # "Copy" /\ Quiet =>
    /\ \A k \in DOMAIN frames : frames[k].allCompleted
    /\ \A j \in 1..(root - 1) : world.roots[j] \notin present
    /\ pc = "rootEnds" /\ result # "Cancelled" => Root \notin present
    /\ pc = "done" /\ result # "Cancelled" => Selected \cap present = {}

(* What others create meanwhile is not what was selected.                   *)
SelectionIsThere == Selected \cap world.late = {}

Completion == FailuresShow /\ CopiesCount /\ MovesTake /\ SelectionIsThere

(* The operation itself creates nothing at the source.                      *)
NothingSelectedReturns == present' \subseteq present \cup world.late

LEMMA GoneStaysGone ==
  ASSUME WalkTypes, SelectionIsThere, NothingSelectedReturns, UNCHANGED world
  PROVE  /\ \A j \in DOMAIN world.roots : world.roots[j] \notin present => world.roots[j] \notin present'
         /\ Selected' = Selected /\ SelectionIsThere' /\ DOMAIN world.roots = 1..Len(world.roots)
         /\ root \in 1..Len(world.roots) /\ Len(world.roots) \in Nat
         /\ Selected \cap present = {} => Selected \cap present' = {}
<1>1. Selected' = Selected /\ world' = world
  BY DEF Selected
<1>2. \A j \in DOMAIN world.roots : world.roots[j] \in Selected
  BY DEF Selected
<1>3. \A s \in Selected : s \notin present => s \notin present'
  BY DEF SelectionIsThere, NothingSelectedReturns
<1>4. DOMAIN world.roots = 1..Len(world.roots) /\ Len(world.roots) \in Nat
  BY DEF WalkTypes, World
<1> QED
  BY <1>1, <1>2, <1>3, <1>4 DEF SelectionIsThere, WalkTypes

LEMMA TallyTypes ==
  ASSUME WalkTypes
  PROVE  /\ tally.completed \in Nat /\ tally.skipped \in Nat /\ tally.satisfied \in Nat
         /\ tally.failed \in Nat /\ itemsProcessed \in Nat
BY DEF WalkTypes, Counters

(* What counting does to the tally.                                         *)
LEMMA Counting ==
  ASSUME WalkTypes, NEW counter \in Counters, NEW items \in Nat, Count(counter, items)
  PROVE  /\ tally' \in [Counters -> Nat]
         /\ \A other \in Counters :
              tally'[other] = IF other = counter THEN tally[other] + items ELSE tally[other]
BY DEF WalkTypes, Count

LEMMA StaysAsComplete ==
  ASSUME WalkTypes, Completion, NothingSelectedReturns,
         UNCHANGED <<request, world, root, frames, tally, itemsProcessed, anyFailed, result>>,
         (UnderWay /\ UnderWay') \/ UNCHANGED pc
  PROVE  Completion'
<1>1. FailuresShow'
  BY DEF Completion, FailuresShow, UnderWay
<1>2. CopiesCount'
  BY DEF Completion, CopiesCount
<1>3. Quiet' = Quiet /\ Root' = Root
  BY DEF Quiet, Root
<1>4. /\ \A j \in 1..(root - 1) : j \in DOMAIN world.roots
      /\ root \in DOMAIN world.roots
  BY GoneStaysGone DEF Completion
<1>5. MovesTake'
  BY <1>3, <1>4, GoneStaysGone DEF Completion, MovesTake, UnderWay, Root
<1> QED
  BY <1>1, <1>2, <1>5, GoneStaysGone DEF Completion

LEMMA EndsUnscannedAsComplete ==
  ASSUME WalkInv, Completion, NothingSelectedReturns, UnderWay, Unscanned,
         UNCHANGED <<request, world>>,
         NEW outcome \in {"Completed", "Skipped", "AlreadySatisfied", "Cancelled"},
         finishUnscannedRoot(outcome),
         outcome = "Completed" /\ request # "Copy" => Root \notin present'
  PROVE  Completion'
<1>1. /\ WalkTypes /\ frames = <<>> /\ frames' = <<>> /\ pc' = "rootEnds" /\ result' = outcome
      /\ UNCHANGED <<root, anyFailed>> /\ Root' = Root
  BY DEF WalkInv, WalkNests, Unscanned, finishUnscannedRoot, walkVars, Root
<1>2. \/ outcome = "Completed" /\ Count("completed", 1) /\ advance(1)
      \/ outcome = "Skipped" /\ Count("skipped", 1) /\ UNCHANGED itemsProcessed
      \/ outcome = "AlreadySatisfied" /\ Count("satisfied", 1) /\ UNCHANGED itemsProcessed
      \/ outcome = "Cancelled" /\ UNCHANGED <<tally, itemsProcessed>>
  BY DEF finishUnscannedRoot
<1>3. /\ tally'.failed = tally.failed
      /\ \/ /\ outcome = "Completed" /\ tally'.completed = tally.completed + 1
            /\ tally'.skipped = tally.skipped /\ tally'.satisfied = tally.satisfied
            /\ itemsProcessed' = itemsProcessed + 1
         \/ /\ outcome = "Skipped" /\ tally'.completed = tally.completed
            /\ tally'.skipped = tally.skipped + 1 /\ tally'.satisfied = tally.satisfied
            /\ itemsProcessed' = itemsProcessed
         \/ /\ outcome = "AlreadySatisfied" /\ tally'.completed = tally.completed
            /\ tally'.skipped = tally.skipped /\ tally'.satisfied = tally.satisfied + 1
            /\ itemsProcessed' = itemsProcessed
         \/ /\ outcome = "Cancelled" /\ tally' = tally /\ itemsProcessed' = itemsProcessed
  BY <1>1, <1>2, Counting DEF Counters, advance
<1>4. FailuresShow'
  BY <1>1, <1>3 DEF Completion, FailuresShow, UnderWay
<1>5. CopiesCount'
  <2> SUFFICES ASSUME request = "Copy"
               PROVE  /\ tally'.completed + tally'.failed <= itemsProcessed'
                      /\ itemsProcessed' <= tally'.completed + tally'.failed + tally'.skipped
                                            + tally'.satisfied
    BY <1>1 DEF CopiesCount
  <2>1. /\ tally.completed + tally.failed <= itemsProcessed
        /\ itemsProcessed <= tally.completed + tally.failed + tally.skipped + tally.satisfied
    BY DEF Completion, CopiesCount
  <2>2. /\ tally.completed \in Nat /\ tally.skipped \in Nat /\ tally.satisfied \in Nat
        /\ tally.failed \in Nat /\ itemsProcessed \in Nat
    BY <1>1, TallyTypes
  <2> QED
    BY <1>3, <2>1, <2>2
<1>6. Quiet' => Quiet /\ outcome \in {"Completed", "Cancelled"}
  BY <1>1, <1>3, TallyTypes DEF Quiet
<1>7. /\ \A j \in 1..(root - 1) : j \in DOMAIN world.roots
      /\ root \in DOMAIN world.roots
  BY <1>1, GoneStaysGone DEF Completion
<1>8. MovesTake'
  BY <1>1, <1>6, <1>7, GoneStaysGone DEF Completion, MovesTake
<1> QED
  BY <1>1, <1>4, <1>5, <1>8, GoneStaysGone DEF Completion

LEMMA UnwindsAsComplete ==
  ASSUME WalkInv, Completion, NothingSelectedReturns, UnderWay, UNCHANGED <<request, world>>,
         Unwind, UNCHANGED <<root, manifest, next, left, accountVars>>
  PROVE  Completion'
<1>1. /\ WalkTypes /\ frames' = <<>> /\ pc' = "rootEnds" /\ result' = "Cancelled"
      /\ UNCHANGED <<tally, itemsProcessed>>
  BY DEF WalkInv, Unwind, accountVars
<1>2. FailuresShow' /\ CopiesCount'
  BY <1>1 DEF Completion, FailuresShow, CopiesCount
<1>3. \A j \in 1..(root - 1) : j \in DOMAIN world.roots
  BY <1>1, GoneStaysGone DEF Completion
<1>4. MovesTake'
  BY <1>1, <1>3, GoneStaysGone DEF Completion, MovesTake, Quiet
<1> QED
  BY <1>1, <1>2, <1>4, GoneStaysGone DEF Completion

(* One more of the items counted, and one more of them processed, keep the    *)
(* processed ones between the two sums.                                      *)
LEMMA OneMoreOfEach ==
  \A done, failed, skipped, satisfied, processed \in Nat :
    done + failed <= processed /\ processed <= done + failed + skipped + satisfied
      => /\ (done + 1) + failed <= processed + 1
         /\ processed + 1 <= (done + 1) + failed + skipped + satisfied
  OBVIOUS

LEMMA EntersAsComplete ==
  ASSUME WalkInv, Completion, NothingSelectedReturns, UnderWay, UnderWay',
         UNCHANGED <<request, world, root, anyFailed>>,
         NEW frame \in Frame, frame.allCompleted, frames' = Append(frames, frame),
         \/ UNCHANGED <<tally, itemsProcessed>>
         \/ Count("completed", 1) /\ advance(1)
  PROVE  Completion'
<1>1. /\ WalkTypes /\ frames \in Seq(Frame) /\ Len(frames) \in Nat
      /\ DOMAIN frames = 1..Len(frames) /\ DOMAIN frames' = 1..(Len(frames) + 1)
      /\ \A k \in DOMAIN frames : k \in DOMAIN frames' /\ frames'[k] = frames[k]
      /\ frames'[Len(frames) + 1] = frame
  <2>1. WalkTypes /\ frames \in Seq(Frame)
    BY DEF WalkInv, WalkTypes
  <2> QED
    BY <2>1
<1>2. \A k \in DOMAIN frames' : k \in DOMAIN frames \/ k = Len(frames) + 1
  BY <1>1
<1>3. /\ tally'.skipped = tally.skipped /\ tally'.satisfied = tally.satisfied
      /\ tally'.failed = tally.failed
      /\ \/ tally'.completed = tally.completed /\ itemsProcessed' = itemsProcessed
         \/ tally'.completed = tally.completed + 1 /\ itemsProcessed' = itemsProcessed + 1
  <2>1. CASE UNCHANGED <<tally, itemsProcessed>>
    BY <2>1
  <2>2. CASE Count("completed", 1) /\ advance(1)
    BY <1>1, <2>2, Counting DEF Counters, advance
  <2> QED
    BY <2>1, <2>2
<1>4. FailuresShow'
  BY <1>1, <1>3 DEF Completion, FailuresShow, UnderWay
<1>5. CopiesCount'
  <2>1. CASE tally'.completed = tally.completed /\ itemsProcessed' = itemsProcessed
    BY <1>3, <2>1 DEF Completion, CopiesCount
  <2>2. CASE tally'.completed = tally.completed + 1 /\ itemsProcessed' = itemsProcessed + 1
    <3> SUFFICES ASSUME request = "Copy"
                 PROVE  /\ tally'.completed + tally'.failed <= itemsProcessed'
                        /\ itemsProcessed' <= tally'.completed + tally'.failed + tally'.skipped
                                              + tally'.satisfied
      BY DEF CopiesCount
    <3>1. /\ tally.completed + tally.failed <= itemsProcessed
          /\ itemsProcessed <= tally.completed + tally.failed + tally.skipped + tally.satisfied
      BY DEF Completion, CopiesCount
    <3>2. /\ tally.completed \in Nat /\ tally.skipped \in Nat /\ tally.satisfied \in Nat
          /\ tally.failed \in Nat /\ itemsProcessed \in Nat
      BY <1>1, TallyTypes
    <3>3. /\ tally'.skipped = tally.skipped /\ tally'.satisfied = tally.satisfied
          /\ tally'.failed = tally.failed
      BY <1>3
    <3>4. /\ (tally.completed + 1) + tally.failed <= itemsProcessed + 1
          /\ itemsProcessed + 1 <= (tally.completed + 1) + tally.failed + tally.skipped
                                   + tally.satisfied
      BY <3>1, <3>2, OneMoreOfEach
    <3> QED
      BY <2>2, <3>3, <3>4
  <2> QED
    BY <1>3, <2>1, <2>2
<1>6. \A j \in 1..(root - 1) : j \in DOMAIN world.roots
  BY <1>1, GoneStaysGone DEF Completion
<1>7. Quiet' => Quiet
  BY <1>3 DEF Quiet
<1>8. MovesTake'
  BY <1>1, <1>2, <1>6, <1>7, GoneStaysGone DEF Completion, MovesTake, UnderWay
<1> QED
  BY <1>1, <1>4, <1>5, <1>8, GoneStaysGone DEF Completion

(* What a directory above knows after an outcome was handed to it.          *)
LEMMA HandedUpFrames ==
  ASSUME NEW outcome \in NodeOutcome, NEW above \in Seq(Frame), above # <<>>,
         HandedUp(outcome, above), outcome # "Cancelled"
  PROVE  /\ DOMAIN frames' = DOMAIN above
         /\ outcome = "Completed" =>
              \A k \in DOMAIN above : frames'[k].allCompleted <=> above[k].allCompleted
         /\ \A k \in DOMAIN above : above[k].aggregate = "Failed" => frames'[k].aggregate = "Failed"
         /\ outcome = "Failed" => \E k \in DOMAIN above : frames'[k].aggregate = "Failed"
<1> DEFINE n == Len(above)
<1>1. n \in Nat /\ n \in 1..n /\ DOMAIN above = 1..n /\ above[n] \in Frame
  OBVIOUS
<1>2. frames' \in Seq(Frame) /\ Len(frames') = n /\ \A k \in 1..(n - 1) : frames'[k] = above[k]
  BY DEF HandedUp
<1>3. /\ frames'[n].allCompleted <=> above[n].allCompleted /\ outcome = "Completed"
      /\ frames'[n].aggregate = aggregateChildOutcome(above[n].aggregate, outcome)
  BY DEF HandedUp
<1>4. DOMAIN frames' = 1..n
  BY <1>2
<1> HIDE DEF n
<1>5. \A k \in 1..n : k \in 1..(n - 1) \/ k = n
  BY <1>1
<1>6. above[n].aggregate \in {"Completed", "Partial", "Failed"}
  BY <1>1 DEF Frame
<1>7. "Failed" \in {above[n].aggregate, outcome} => frames'[n].aggregate = "Failed"
  BY <1>3, <1>6 DEF aggregateChildOutcome
<1> QED
  BY <1>1, <1>2, <1>3, <1>4, <1>5, <1>7

LEMMA PassesOverAsComplete ==
  ASSUME WalkInv, Completion, NothingSelectedReturns, UnderWay, Pending,
         UNCHANGED <<request, world>>,
         NEW counter \in Counters, NEW outcome \in NodeOutcome, Passes(counter, outcome),
         PassOver(counter, outcome),
         outcome = "Completed" /\ request # "Copy" /\ frames = <<>> => Root \notin present'
  PROVE  Completion'
<1> DEFINE count == itemCount(manifest, next)
<1>1. WalkTypes /\ frames \in Seq(Frame) /\ UNCHANGED root /\ Root' = Root
  BY DEF WalkInv, WalkTypes, PassOver, Root
<1>2. count \in Nat /\ count >= 1
  <2>1. LastBelow(manifest, next) \in next..Len(manifest) /\ next \in 1..Len(manifest)
        /\ itemCount(manifest, next) = LastBelow(manifest, next) - next + 1
    BY PendingFacts DEF WalkInv
  <2> QED
    BY <2>1
<1>3. Count(counter, count) /\ itemsProcessed' = itemsProcessed + count /\ Return(outcome, frames)
  BY DEF PassOver, advance
<1> HIDE DEF count
<1>4. /\ tally' \in [Counters -> Nat]
      /\ \A other \in Counters :
           tally'[other] = IF other = counter THEN tally[other] + count ELSE tally[other]
  BY <1>1, <1>2, <1>3, Counting
<1>5. /\ anyFailed' = anyFailed
      /\ \/ /\ outcome = "Cancelled" \/ frames = <<>>
            /\ pc' = "rootEnds" /\ result' = outcome /\ frames' = <<>>
         \/ outcome # "Cancelled" /\ frames # <<>> /\ HandedUp(outcome, frames)
  BY <1>1, <1>3, ReturnHandsUp
<1>6. counter # "failed" => tally'.failed = tally.failed
  BY <1>4 DEF Counters
<1>7. counter = "failed" <=> outcome \in {"Failed", "Cancelled"}
  BY DEF Passes
<1>8. FailuresShow'
  <2>1. CASE /\ outcome = "Cancelled" \/ frames = <<>>
             /\ pc' = "rootEnds" /\ result' = outcome /\ frames' = <<>>
    <3>1. outcome = "Cancelled" \/ tally.failed = 0 \/ anyFailed \/ counter = "failed"
      BY <2>1 DEF Completion, FailuresShow, UnderWay
    <3>2. outcome \in {"Failed", "Cancelled"} \/ tally'.failed = 0 \/ anyFailed'
      BY <1>5, <1>6, <1>7, <3>1
    <3> QED
      BY <2>1, <3>2 DEF FailuresShow
  <2>2. CASE outcome # "Cancelled" /\ frames # <<>> /\ HandedUp(outcome, frames)
    <3>1. pc' = "node"
      BY <2>2 DEF HandedUp
    <3>2. /\ DOMAIN frames' = DOMAIN frames
          /\ \A k \in DOMAIN frames : frames[k].aggregate = "Failed" => frames'[k].aggregate = "Failed"
          /\ outcome = "Failed" => \E k \in DOMAIN frames : frames'[k].aggregate = "Failed"
      BY <1>1, <2>2, HandedUpFrames
    <3> QED
      BY <1>5, <1>6, <1>7, <2>2, <3>1, <3>2 DEF Completion, FailuresShow, UnderWay
  <2> QED
    BY <1>5, <2>1, <2>2
<1>9. CopiesCount'
  <2>1. /\ tally'.completed = IF "completed" = counter THEN tally.completed + count ELSE tally.completed
        /\ tally'.failed = IF "failed" = counter THEN tally.failed + count ELSE tally.failed
        /\ tally'.skipped = IF "skipped" = counter THEN tally.skipped + count ELSE tally.skipped
        /\ tally'.satisfied = IF "satisfied" = counter THEN tally.satisfied + count
                              ELSE tally.satisfied
    BY <1>4 DEF Counters
  <2>2. counter \in {"completed", "skipped", "satisfied", "failed"}
    BY DEF Counters
  <2> SUFFICES ASSUME request = "Copy"
               PROVE  /\ tally'.completed + tally'.failed <= itemsProcessed'
                      /\ itemsProcessed' <= tally'.completed + tally'.failed + tally'.skipped + tally'.satisfied
    BY <1>1 DEF CopiesCount
  <2>3. /\ tally.completed + tally.failed <= itemsProcessed
        /\ itemsProcessed <= tally.completed + tally.failed + tally.skipped + tally.satisfied
    BY DEF Completion, CopiesCount
  <2>4. /\ tally.completed \in Nat /\ tally.skipped \in Nat /\ tally.satisfied \in Nat
        /\ tally.failed \in Nat /\ itemsProcessed \in Nat
    BY <1>1, TallyTypes
  <2>5. itemsProcessed' = itemsProcessed + count
    BY <1>3
  <2>6. CASE counter = "completed"
    <3>1. /\ tally'.completed = tally.completed + count /\ tally'.failed = tally.failed
          /\ tally'.skipped = tally.skipped /\ tally'.satisfied = tally.satisfied
      BY <2>1, <2>6
    <3> QED
      BY <1>2, <2>3, <2>4, <2>5, <3>1
  <2>7. CASE counter = "skipped"
    <3>1. /\ tally'.completed = tally.completed /\ tally'.failed = tally.failed
          /\ tally'.skipped = tally.skipped + count /\ tally'.satisfied = tally.satisfied
      BY <2>1, <2>7
    <3> QED
      BY <1>2, <2>3, <2>4, <2>5, <3>1
  <2>8. CASE counter = "satisfied"
    <3>1. /\ tally'.completed = tally.completed /\ tally'.failed = tally.failed
          /\ tally'.skipped = tally.skipped /\ tally'.satisfied = tally.satisfied + count
      BY <2>1, <2>8
    <3> QED
      BY <1>2, <2>3, <2>4, <2>5, <3>1
  <2>9. CASE counter = "failed"
    <3>1. /\ tally'.completed = tally.completed /\ tally'.failed = tally.failed + count
          /\ tally'.skipped = tally.skipped /\ tally'.satisfied = tally.satisfied
      BY <2>1, <2>9
    <3> QED
      BY <1>2, <2>3, <2>4, <2>5, <3>1
  <2> QED
    BY <2>2, <2>6, <2>7, <2>8, <2>9
<1>10. Quiet' => Quiet /\ outcome = "Completed"
  <2>1. counter # "completed" => tally'[counter] # 0
    BY <1>1, <1>2, <1>4 DEF WalkTypes
  <2>2. Quiet' => counter = "completed"
    BY <2>1 DEF Quiet, Counters
  <2>3. counter = "completed" => outcome = "Completed"
    BY DEF Passes
  <2>4. counter = "completed" => /\ tally'.skipped = tally.skipped /\ tally'.failed = tally.failed
                                 /\ tally'.satisfied = tally.satisfied
    BY <1>4 DEF Counters
  <2> QED
    BY <2>2, <2>3, <2>4 DEF Quiet
<1>11. \A j \in 1..(root - 1) : j \in DOMAIN world.roots
  BY <1>1, GoneStaysGone DEF Completion
<1>12. MovesTake'
  <2> SUFFICES ASSUME request # "Copy", Quiet'
               PROVE  /\ \A k \in DOMAIN frames' : frames'[k].allCompleted
                      /\ \A j \in 1..(root - 1) : world.roots[j] \notin present'
                      /\ pc' = "rootEnds" => Root \notin present'
                      /\ pc' # "done"
    BY <1>1 DEF MovesTake
  <2>1. Quiet /\ outcome = "Completed" /\ \A k \in DOMAIN frames : frames[k].allCompleted
    BY <1>10 DEF Completion, MovesTake
  <2>2. \A j \in 1..(root - 1) : world.roots[j] \notin present'
    BY <1>1, <1>11, <2>1, GoneStaysGone DEF Completion, MovesTake
  <2>3. CASE frames = <<>> /\ pc' = "rootEnds" /\ frames' = <<>>
    BY <2>1, <2>2, <2>3
  <2>4. CASE frames # <<>> /\ HandedUp(outcome, frames)
    BY <1>1, <2>1, <2>2, <2>4, HandedUpFrames DEF HandedUp
  <2> QED
    BY <1>5, <2>1, <2>3, <2>4
<1> QED
  BY <1>1, <1>8, <1>9, <1>12, GoneStaysGone DEF Completion

LEMMA LeavesAsComplete ==
  ASSUME WalkInv, Completion, NothingSelectedReturns, UnderWay, ChildrenDone,
         UNCHANGED <<request, world, root>>,
         NEW outcome \in NodeOutcome, Return(outcome, Front(frames)),
         tally'.failed = tally.failed \/ outcome \in {"Failed", "Cancelled"},
         Top.aggregate = "Failed" => outcome \in {"Failed", "Cancelled"},
         CopiesCount', Quiet' => Quiet,
         request # "Copy" /\ Quiet' => outcome = "Completed" \/ outcome = "Cancelled",
         request # "Copy" /\ Quiet' /\ outcome = "Completed" /\ Len(frames) = 1
           => Root \notin present'
  PROVE  Completion'
<1> DEFINE n == Len(frames)
           above == Front(frames)
<1>1. WalkTypes /\ frames \in Seq(Frame) /\ frames # <<>> /\ Root' = Root
  BY DEF WalkInv, WalkTypes, ChildrenDone, Root
<1>2. /\ above \in Seq(Frame) /\ Len(above) = n - 1 /\ (above = <<>> <=> n = 1)
      /\ \A k \in 1..(n - 1) : above[k] = frames[k]
  BY <1>1, FrontOfFrames
<1>3. n \in Nat /\ n >= 1 /\ DOMAIN frames = 1..n /\ Top = frames[n]
  BY <1>1 DEF Top
<1>4. DOMAIN above = 1..(n - 1) /\ \A k \in DOMAIN above : k \in DOMAIN frames /\ above[k] = frames[k]
  BY <1>2, <1>3
<1>5. \A k \in DOMAIN frames : k \in DOMAIN above \/ k = n
  BY <1>3, <1>4
<1> HIDE DEF above, n
<1>6. /\ anyFailed' = anyFailed
      /\ \/ /\ outcome = "Cancelled" \/ above = <<>>
            /\ pc' = "rootEnds" /\ result' = outcome /\ frames' = <<>>
         \/ outcome # "Cancelled" /\ above # <<>> /\ HandedUp(outcome, above)
  <2>1. Return(outcome, above)
    BY DEF above
  <2> QED
    BY <1>2, <2>1, ReturnHandsUp
<1>7. FailuresShow'
  <2>1. tally.failed # 0 /\ outcome \notin {"Failed", "Cancelled"} =>
          anyFailed \/ \E k \in DOMAIN above : above[k].aggregate = "Failed"
    BY <1>3, <1>4, <1>5 DEF Completion, FailuresShow, UnderWay
  <2>2. CASE outcome = "Cancelled" /\ pc' = "rootEnds" /\ result' = outcome
    BY <2>2 DEF FailuresShow
  <2>3. CASE above = <<>> /\ pc' = "rootEnds" /\ result' = outcome
    BY <1>4, <1>6, <2>1, <2>3 DEF FailuresShow
  <2>4. CASE outcome # "Cancelled" /\ above # <<>> /\ HandedUp(outcome, above)
    <3>1. pc' = "node"
      BY <2>4 DEF HandedUp
    <3>2. /\ DOMAIN frames' = DOMAIN above
          /\ \A k \in DOMAIN above : above[k].aggregate = "Failed" => frames'[k].aggregate = "Failed"
          /\ outcome = "Failed" => \E k \in DOMAIN above : frames'[k].aggregate = "Failed"
      BY <1>2, <2>4, HandedUpFrames
    <3> QED
      BY <1>6, <2>1, <2>4, <3>1, <3>2 DEF FailuresShow
  <2> QED
    BY <1>6, <2>2, <2>3, <2>4
<1>8. \A j \in 1..(root - 1) : j \in DOMAIN world.roots
  BY <1>1, GoneStaysGone DEF Completion
<1>9. MovesTake'
  <2> SUFFICES ASSUME request # "Copy", Quiet'
               PROVE  /\ \A k \in DOMAIN frames' : frames'[k].allCompleted
                      /\ \A j \in 1..(root - 1) : world.roots[j] \notin present'
                      /\ pc' = "rootEnds" /\ result' # "Cancelled" => Root \notin present'
                      /\ pc' # "done"
    BY <1>1 DEF MovesTake
  <2>1. Quiet /\ \A k \in DOMAIN frames : frames[k].allCompleted
    BY DEF Completion, MovesTake
  <2>2. \A j \in 1..(root - 1) : world.roots[j] \notin present'
    BY <1>1, <1>8, <2>1, GoneStaysGone DEF Completion, MovesTake
  <2>3. CASE pc' = "rootEnds" /\ result' = outcome /\ frames' = <<>> /\ outcome = "Cancelled"
    BY <2>2, <2>3
  <2>4. CASE pc' = "rootEnds" /\ result' = outcome /\ frames' = <<>> /\ above = <<>>
    BY <1>2, <2>2, <2>4 DEF n
  <2>5. CASE outcome # "Cancelled" /\ above # <<>> /\ HandedUp(outcome, above)
    BY <1>2, <1>4, <2>1, <2>2, <2>5, HandedUpFrames DEF HandedUp
  <2> QED
    BY <1>6, <2>3, <2>4, <2>5
<1> QED
  BY <1>1, <1>7, <1>9, GoneStaysGone DEF Completion

LEMMA NextRootAsComplete ==
  ASSUME WalkInv, Completion, NothingSelectedReturns, nextRoot
  PROVE  Completion'
<1>1. /\ pc = "rootEnds" /\ frames = <<>> /\ frames' = frames /\ WalkTypes
      /\ UNCHANGED <<request, world, tally, itemsProcessed>>
      /\ anyFailed' = (anyFailed \/ result = "Failed")
  BY DEF nextRoot, accountVars, outerVars, WalkInv, WalkNests
<1>2. CopiesCount'
  BY <1>1 DEF Completion, CopiesCount
<1>3. Quiet' = Quiet
  BY <1>1 DEF Quiet
<1>4. /\ \A j \in 1..root : j \in DOMAIN world.roots
      /\ root \in 1..Len(world.roots) /\ DOMAIN world.roots = 1..Len(world.roots)
      /\ Len(world.roots) \in Nat
  BY <1>1, GoneStaysGone DEF Completion
<1>5. request # "Copy" /\ Quiet /\ result # "Cancelled" =>
        \A j \in 1..root : world.roots[j] \notin present'
  <2>1. \A j \in 1..root : j \in 1..(root - 1) \/ j = root
    BY <1>4
  <2> QED
    BY <1>1, <1>4, <2>1, GoneStaysGone DEF Completion, MovesTake, Root
<1>6. CASE result = "Cancelled" \/ root = Len(world.roots)
  <2>1. /\ pc' = "done" /\ UNCHANGED root
        /\ result' = IF result = "Cancelled" THEN "Cancelled"
                     ELSE IF anyFailed' THEN "Failed" ELSE "Completed"
    BY <1>6 DEF nextRoot
  <2>2. result' = "Completed" => result # "Cancelled" /\ ~ anyFailed /\ result # "Failed"
    BY <1>1, <2>1
  <2>3. FailuresShow'
    BY <1>1, <2>1, <2>2 DEF Completion, FailuresShow
  <2>4. result # "Cancelled" => root = Len(world.roots)
    BY <1>6
  <2>5. request # "Copy" /\ Quiet /\ result # "Cancelled" => Selected \cap present' = {}
    BY <1>4, <1>5, <2>4 DEF Selected
  <2>6. result' # "Cancelled" => result # "Cancelled"
    BY <2>1
  <2>7. request # "Copy" /\ Quiet => \A j \in 1..(root - 1) : world.roots[j] \notin present'
    <3>1. \A j \in 1..(root - 1) : j \in DOMAIN world.roots
      BY <1>4
    <3> QED
      BY <1>1, <3>1, GoneStaysGone DEF Completion, MovesTake
  <2>8. MovesTake'
    BY <1>1, <1>3, <2>1, <2>5, <2>6, <2>7, GoneStaysGone DEF MovesTake, Completion
  <2> QED
    BY <1>1, <1>2, <2>3, <2>8, GoneStaysGone DEF Completion
<1>7. CASE ~ (result = "Cancelled" \/ root = Len(world.roots))
  <2>1. pc' = "root" /\ root' = root + 1
    BY <1>7 DEF nextRoot
  <2>2. FailuresShow'
    BY <1>1, <1>7, <2>1 DEF Completion, FailuresShow
  <2>3. (root + 1) - 1 = root
    BY <1>4
  <2>4. MovesTake'
    BY <1>1, <1>3, <1>5, <1>7, <2>1, <2>3 DEF MovesTake
  <2> QED
    BY <1>1, <1>2, <2>2, <2>4, GoneStaysGone DEF Completion
<1> QED
  BY <1>6, <1>7

-----------------------------------------------------------------------------
(* The executor's actions, as far as completion is concerned.               *)
LEMMA GoesOnAsComplete ==
  ASSUME WalkInv, Completion, NothingSelectedReturns, UnderWay,
         UNCHANGED <<request, world, walkVars, accountVars>>,
         NEW label, label \notin {"rootEnds", "done"}, Goto(label) \/ Fails(label)
  PROVE  Completion'
<1>1. UnderWay' /\ UNCHANGED <<result, anyFailed, root, frames, tally, itemsProcessed>>
  BY DEF Goto, Fails, UnderWay, walkVars, accountVars
<1> QED
  BY <1>1, StaysAsComplete DEF WalkInv

LEMMA SkipsAsComplete ==
  ASSUME WalkInv, Completion, NothingSelectedReturns, UnderWay, Unscanned \/ Pending,
         UNCHANGED <<request, world>>, SkipHere
  PROVE  Completion'
<1>1. CASE Unscanned
  BY <1>1, EndsUnscannedAsComplete DEF SkipHere
<1>2. CASE ~ Unscanned
  <2>1. PassOver("skipped", "Skipped") /\ Passes("skipped", "Skipped") /\ Pending
    BY <1>2 DEF SkipHere, accountSkippedSubtree, Passes
  <2> QED
    BY <2>1, PassesOverAsComplete DEF Counters, NodeOutcome
<1> QED
  BY <1>1, <1>2

LEMMA CancelsAsComplete ==
  ASSUME WalkInv, Completion, NothingSelectedReturns, UnderWay, UNCHANGED <<request, world>>,
         CancelHere
  PROVE  Completion'
<1>1. CASE Unscanned
  BY <1>1, EndsUnscannedAsComplete DEF CancelHere
<1>2. CASE ~ Unscanned
  BY <1>2, UnwindsAsComplete DEF CancelHere
<1> QED
  BY <1>1, <1>2

LEMMA ChecksAsComplete ==
  ASSUME WalkInv, Completion, NothingSelectedReturns, UnderWay, UNCHANGED <<request, world>>,
         NEW label, label \notin {"rootEnds", "done"}, CheckpointThen(label)
  PROVE  Completion'
<1>1. CASE cancelRequested
  BY <1>1, CancelsAsComplete DEF CheckpointThen
<1>2. CASE ~ cancelRequested
  BY <1>2, GoesOnAsComplete DEF CheckpointThen
<1> QED
  BY <1>1, <1>2

(* What the executors do without touching the source.                       *)
LEMMA StepsAsComplete ==
  ASSUME Standing, Completion, NothingSelectedReturns,
         \/ beginRoot \/ inspectionFails \/ askActionFailed
         \/ \E label \in {"enter", "node"} : scan(BuildMode, label)
  PROVE  Completion'
<1>1. WalkInv /\ UNCHANGED <<request, world>> /\ UnderWay
  BY DEF Standing, beginRoot, inspectionFails, askActionFailed, scan, outerVars, UnderWay
<1>2. CASE beginRoot
  BY <1>1, <1>2, ChecksAsComplete DEF beginRoot
<1>3. CASE inspectionFails
  BY <1>1, <1>3, GoesOnAsComplete DEF inspectionFails
<1>4. CASE askActionFailed
  <2>1. resume \in Resumable /\ PositionAt(resume)
    BY <1>4 DEF askActionFailed, Standing, Position
  <2>2. resume \notin {"rootEnds", "done"} /\ (Unscanned \/ Pending)
    BY <2>1 DEF Resumable, PositionAt
  <2>3. CASE Goto(resume) /\ UNCHANGED <<walkVars, accountVars>>
    BY <1>1, <2>2, <2>3, GoesOnAsComplete
  <2>4. CASE SkipHere
    BY <1>1, <2>2, <2>4, SkipsAsComplete
  <2>5. CASE CancelHere
    BY <1>1, <2>5, CancelsAsComplete
  <2> QED
    BY <1>4, <2>3, <2>4, <2>5 DEF askActionFailed
<1>5. ASSUME NEW label \in {"enter", "node"}, scan(BuildMode, label)
      PROVE  Completion'
  <2>1. CASE Goto(label) /\ UNCHANGED <<root, next, frames, left, tally, itemsProcessed>>
    <3>1. UnderWay' /\ UNCHANGED <<result, anyFailed>>
      BY <2>1 DEF Goto, UnderWay
    <3> QED
      BY <1>1, <2>1, <3>1, StaysAsComplete DEF WalkInv
  <2>2. CASE Fails("scan") /\ UNCHANGED <<walkVars, accountVars>>
    BY <1>1, <2>2, GoesOnAsComplete
  <2>3. CASE CancelHere
    BY <1>1, <2>3, CancelsAsComplete
  <2> QED
    BY <1>5, <2>1, <2>2, <2>3 DEF scan
<1> QED
  BY <1>2, <1>3, <1>4, <1>5

LEMMA TransferStepsAsComplete ==
  ASSUME Standing, Completion, NothingSelectedReturns, Transfer,
         inspectRoot \/ ensureParent \/ leafRoot \/ resolveRoot \/ visitDirectory
  PROVE  Completion'
<1>1. WalkInv /\ UNCHANGED <<request, world>> /\ UnderWay
  BY DEF Standing, inspectRoot, ensureParent, leafRoot, resolveRoot, visitDirectory, outerVars,
         UnderWay
<1>2. CASE inspectRoot
  BY <1>1, <1>2, GoesOnAsComplete DEF inspectRoot
<1>3. CASE ensureParent
  <2>1. CASE CancelHere
    BY <1>1, <2>1, CancelsAsComplete
  <2>2. ASSUME NEW label \in {"renameRoot", "leafRoot", "parent"}, Goto(label) \/ Fails(label),
               UNCHANGED <<walkVars, accountVars>>
        PROVE  Completion'
    BY <1>1, <2>2, GoesOnAsComplete
  <2> QED
    BY <1>3, <2>1, <2>2 DEF ensureParent
<1>4. CASE leafRoot
  <2>1. UnderWay' /\ UNCHANGED <<result, anyFailed, root, frames, tally, itemsProcessed>>
    BY <1>4 DEF leafRoot, Goto, UnderWay
  <2> QED
    BY <1>1, <2>1, StaysAsComplete DEF WalkInv
<1>5. CASE resolveRoot
  BY <1>1, <1>5, ChecksAsComplete DEF resolveRoot
<1>6. CASE visitDirectory
  BY <1>1, <1>6, ChecksAsComplete DEF visitDirectory
<1> QED
  BY <1>2, <1>3, <1>4, <1>5, <1>6

LEMMA ChoosesAsComplete ==
  ASSUME WalkInv, Completion, NothingSelectedReturns, UnderWay, UNCHANGED <<request, world>>,
         NEW way, Choose(way)
  PROVE  Completion'
<1> DEFINE label == IF ~ Unscanned THEN "enter"
                    ELSE IF Move /\ way = "Use" /\ ~ knownCrossDevice THEN "renameResolved"
                    ELSE "scan"
<1>1. Goto(label) /\ UNCHANGED <<walkVars, accountVars>> /\ label \notin {"rootEnds", "done"}
  BY DEF Choose
<1> HIDE DEF label
<1> QED
  BY <1>1, GoesOnAsComplete

LEMMA ResolvesAsComplete ==
  ASSUME Standing, Completion, NothingSelectedReturns, Transfer,
         \/ resolveDirectory
         \/ \E kind \in {"RootDirectoryMerge", "TypeMismatch"} : promptForCollision(kind)
  PROVE  Completion'
<1>1. /\ WalkInv /\ UNCHANGED <<request, world>> /\ UnderWay
      /\ pc \in {"resolveDirectory", "askMerge", "askMismatch"}
  BY DEF Standing, resolveDirectory, promptForCollision, outerVars, UnderWay
<1>2. Unscanned \/ Pending
  BY <1>1 DEF Standing, Position, PositionAt
<1>3. ASSUME NEW way, Choose(way)
      PROVE  Completion'
  BY <1>1, <1>3, ChoosesAsComplete
<1>4. ASSUME NEW label \in {"askMerge", "askMismatch", "resolveDirectory"},
             Goto(label) \/ Fails(label), UNCHANGED <<walkVars, accountVars>>
      PROVE  Completion'
  BY <1>1, <1>4, GoesOnAsComplete
<1>5. CASE IF Unscanned THEN finishUnscannedRoot("AlreadySatisfied")
           ELSE accountAlreadySatisfiedSubtree
  <2>1. CASE Unscanned
    BY <1>1, <1>5, <2>1, EndsUnscannedAsComplete
  <2>2. CASE ~ Unscanned
    <3>1. PassOver("satisfied", "AlreadySatisfied") /\ Passes("satisfied", "AlreadySatisfied")
      BY <1>5, <2>2 DEF accountAlreadySatisfiedSubtree, Passes, Transfer
    <3> QED
      BY <1>1, <1>2, <2>2, <3>1, PassesOverAsComplete DEF Counters, NodeOutcome
  <2> QED
    BY <2>1, <2>2
<1>6. CASE SkipHere
  BY <1>1, <1>2, <1>6, SkipsAsComplete
<1>7. CASE CancelHere
  BY <1>1, <1>7, CancelsAsComplete
<1>8. CASE resolveDirectory
  BY <1>3, <1>4, <1>5, <1>8 DEF resolveDirectory
<1>9. ASSUME NEW kind \in {"RootDirectoryMerge", "TypeMismatch"}, promptForCollision(kind)
      PROVE  Completion'
  BY <1>3, <1>4, <1>6, <1>7, <1>9 DEF promptForCollision
<1> QED
  BY <1>8, <1>9

LEMMA TheFirstNodeIsTheRoot ==
  ASSUME WalkInv, Pending, frames = <<>>
  PROVE  Node.entry = Root /\ Owned(Node)
BY WalkManifest DEF WalkInv, Pending, Node

(* A rename takes the root, or the directory with all that is below it.     *)
LEMMA RenamesAsComplete ==
  ASSUME Standing, Completion, NothingSelectedReturns, Transfer, rename
  PROVE  Completion'
<1>1. /\ WalkInv /\ UNCHANGED <<request, world>> /\ UnderWay /\ PositionAt(pc)
      /\ pc \in {"renameRoot", "renameResolved", "renameNode"}
  BY DEF Standing, rename, outerVars, UnderWay, Position
<1>2. ~ Unscanned => Pending
  BY <1>1 DEF PositionAt, Pending
<1>3. CASE /\ TakeAway(IF Unscanned THEN Root ELSE Node.entry)
           /\ IF Unscanned THEN finishUnscannedRoot("Completed") ELSE accountRenamedSubtree
  <2>1. CASE Unscanned
    <3>1. Root \notin present'
      BY <1>1, <1>3, <2>1, WalkManifest, WithinFacts DEF TakeAway, WalkInv
    <3> QED
      BY <1>1, <1>3, <2>1, <3>1, EndsUnscannedAsComplete
  <2>2. CASE ~ Unscanned
    <3>1. PassOver("completed", "Completed") /\ Passes("completed", "Completed")
      BY <1>3, <2>2 DEF accountRenamedSubtree, Passes
    <3>2. frames = <<>> => Root \notin present'
      BY <1>1, <1>2, <1>3, <2>2, TheFirstNodeIsTheRoot, WalkManifest, WithinFacts DEF TakeAway, WalkInv
    <3> QED
      BY <1>1, <1>2, <2>2, <3>1, <3>2, PassesOverAsComplete DEF Counters, NodeOutcome
  <2> QED
    BY <2>1, <2>2
<1>4. ASSUME NEW error \in {"CrossDevice", "AlreadyExists"}, Goto(AfterRename(error)),
             UNCHANGED <<walkVars, accountVars>>
      PROVE  Completion'
  <2>1. AfterRename(error) \in {"resolveRoot", "scan", "resolveDirectory"}
    BY <1>1 DEF AfterRename
  <2> HIDE DEF AfterRename
  <2> QED
    BY <1>1, <1>4, <2>1, GoesOnAsComplete
<1>5. CASE Fails(pc) /\ UNCHANGED <<walkVars, accountVars>>
  BY <1>1, <1>5, GoesOnAsComplete
<1> QED
  BY <1>3, <1>4, <1>5 DEF rename

LEMMA EntersDirectoryAsComplete ==
  ASSUME Standing, Completion, NothingSelectedReturns, Transfer, PlanTypes, enterDirectory
  PROVE  Completion'
<1>1. WalkInv /\ UNCHANGED <<request, world>> /\ UnderWay /\ Pending
  BY DEF Standing, enterDirectory, UnderWay, Position, PositionAt
<1>2. CASE EnterContents
  <2>1. next \in Nat \ {0}
    BY <1>1, WalkManifest DEF WalkInv, WalkTypes
  <2>2. FrameOf(next) \in Frame /\ FrameOf(next).allCompleted
    BY <2>1 DEF FrameOf, Frame, PlanTypes
  <2>3. /\ UnderWay' /\ UNCHANGED <<root, anyFailed>> /\ frames' = Append(frames, FrameOf(next))
        /\ \/ UNCHANGED <<tally, itemsProcessed>>
           \/ Count("completed", 1) /\ advance(1)
    BY <1>2 DEF EnterContents, Goto, UnderWay
  <2> HIDE DEF FrameOf
  <2> QED
    BY <1>1, <2>2, <2>3, EntersAsComplete
<1>3. ASSUME NEW label \in {"resolveDirectory", "enter"}, Goto(label) \/ Fails(label),
             UNCHANGED <<walkVars, accountVars>>
      PROVE  Completion'
  BY <1>1, <1>3, GoesOnAsComplete
<1> QED
  BY <1>2, <1>3 DEF enterDirectory

LEMMA VisitsEntryAsComplete ==
  ASSUME Standing, Completion, NothingSelectedReturns, Transfer, visitEntry
  PROVE  Completion'
<1>1. WalkInv /\ UNCHANGED <<request, world>> /\ UnderWay /\ pc = "node" /\ MoreChildren
  BY DEF Standing, visitEntry, outerVars, UnderWay
<1>2. Pending
  BY <1>1, AtANode DEF MoreChildren, Standing
<1>3. CASE entryCompletes
  <2>1. PassOver("completed", "Completed") /\ Passes("completed", "Completed")
    BY <1>3 DEF entryCompletes, accountRenamedSubtree, Passes
  <2>2. request # "Copy" /\ frames = <<>> => Root \notin present'
    <3> SUFFICES ASSUME request # "Copy", frames = <<>>
                 PROVE  Root \notin present'
      OBVIOUS
    <3>1. Node.entry = Root /\ LosesSource
      BY <1>1, <1>2, TheFirstNodeIsTheRoot DEF LosesSource, Transfer, Move, WalkInv, WalkTypes, Request
    <3>2. TakeAway(Root)
      BY <1>3, <3>1 DEF entryCompletes
    <3> QED
      BY <1>1, <3>2, WalkManifest, WithinFacts DEF TakeAway, WalkInv
  <2> QED
    BY <1>1, <1>2, <2>1, <2>2, PassesOverAsComplete DEF Counters, NodeOutcome
<1>4. ASSUME NEW counter \in Counters, NEW outcome \in NodeOutcome \ {"Completed"},
             Passes(counter, outcome), PassOver(counter, outcome)
      PROVE  Completion'
  BY <1>1, <1>2, <1>4, PassesOverAsComplete
<1>5. CASE entryFails
  <2>1. PassOver("failed", "Failed") /\ Passes("failed", "Failed")
    BY <1>5 DEF entryFails, Passes
  <2> QED
    BY <1>4, <2>1 DEF Counters, NodeOutcome
<1>6. CASE entryFailsCancelled
  <2>1. PassOver("failed", "Cancelled") /\ Passes("failed", "Cancelled")
    BY <1>6 DEF entryFailsCancelled, Passes
  <2> QED
    BY <1>4, <2>1 DEF Counters, NodeOutcome
<1>7. CASE accountSkippedSubtree
  <2>1. PassOver("skipped", "Skipped") /\ Passes("skipped", "Skipped")
    BY <1>7 DEF accountSkippedSubtree, Passes
  <2> QED
    BY <1>4, <2>1 DEF Counters, NodeOutcome
<1>8. CASE accountAlreadySatisfiedSubtree
  <2>1. PassOver("satisfied", "AlreadySatisfied") /\ Passes("satisfied", "AlreadySatisfied")
    BY <1>8 DEF accountAlreadySatisfiedSubtree, Passes, Transfer
  <2> QED
    BY <1>4, <2>1 DEF Counters, NodeOutcome
<1>9. CASE CancelHere
  BY <1>1, <1>9, CancelsAsComplete
<1> QED
  BY <1>3, <1>5, <1>6, <1>7, <1>8, <1>9 DEF visitEntry

(* The outermost directory is the root.                                     *)
LEMMA TheOutermostIsTheRoot ==
  ASSUME WalkInv, ChildrenDone, Len(frames) = 1
  PROVE  Top.node = 1 /\ manifest[Top.node].entry = Root /\ Owned(manifest[Top.node])
<1>1. frames[1].node = 1
  BY DEF WalkInv, WalkNests, ChildrenDone
<1> QED
  BY <1>1, WalkManifest DEF WalkInv, ChildrenDone, Top

LEMMA LeavesDirectoryAsComplete ==
  ASSUME Standing, Completion, NothingSelectedReturns, Transfer, leaveDirectory
  PROVE  Completion'
<1> DEFINE removes == Move /\ Owned(manifest[Top.node])
<1>1. /\ pc = "node" /\ UnderWay /\ WalkInv /\ UNCHANGED <<request, world, root>>
      /\ ~ MoreChildren /\ request \in Request
  BY DEF leaveDirectory, outerVars, UnderWay, Standing, WalkInv, WalkTypes
<1>2. ChildrenDone
  BY <1>1, AtANode DEF MoreChildren, Standing
<1>3. /\ Top.aggregate \in {"Completed", "Partial", "Failed"}
      /\ Top.allCompleted => Top.aggregate = "Completed"
  BY <1>1, <1>2, TopFacts
<1>4. request # "Copy" /\ Quiet => Top.allCompleted
  <2>1. Len(frames) \in DOMAIN frames
    BY <1>1, <1>2 DEF WalkInv, WalkTypes, ChildrenDone
  <2> QED
    BY <2>1 DEF Completion, MovesTake, Top
<1>5. CASE ~ removes /\ Return(Top.aggregate, Front(frames)) /\ UNCHANGED <<left, accountVars>>
  <2>1. UNCHANGED <<tally, itemsProcessed>>
    BY <1>5 DEF accountVars
  <2>2. CopiesCount' /\ Quiet' = Quiet
    BY <1>1, <2>1 DEF Completion, CopiesCount, Quiet
  <2>3. request # "Copy" => Move
    BY <1>1 DEF Transfer, Move, Request
  <2>4. request # "Copy" => Len(frames) # 1
    BY <1>1, <1>2, <1>5, <2>3, TheOutermostIsTheRoot
  <2>5. Top.aggregate \in NodeOutcome
    BY <1>3 DEF NodeOutcome
  <2> QED
    BY <1>1, <1>2, <1>3, <1>4, <1>5, <2>1, <2>2, <2>4, <2>5, LeavesAsComplete
<1>6. CASE /\ removes /\ ~ MayRemoveSource(Top)
           /\ Return(IF Top.aggregate = "Completed" THEN "Partial" ELSE Top.aggregate,
                     Front(frames))
           /\ UNCHANGED tally
  <2> DEFINE outcome == IF Top.aggregate = "Completed" THEN "Partial" ELSE Top.aggregate
  <2>1. /\ outcome \in {"Partial", "Failed"} /\ Return(outcome, Front(frames))
        /\ Top.aggregate = "Failed" => outcome = "Failed"
    BY <1>3, <1>6
  <2>2. Move /\ request # "Copy" /\ CopiesCount' /\ Quiet' = Quiet
    BY <1>1, <1>6 DEF Move, CopiesCount, Quiet
  <2>3. ~ Quiet
    BY <1>4, <1>6, <2>2 DEF MayRemoveSource
  <2> HIDE DEF outcome
  <2>4. outcome \in NodeOutcome
    BY <2>1 DEF NodeOutcome
  <2> QED
    BY <1>1, <1>2, <1>6, <2>1, <2>2, <2>3, <2>4, LeavesAsComplete
<1>7. CASE Goto("removeSource") /\ UNCHANGED <<left, frames, accountVars>>
  <2>1. UNCHANGED <<walkVars, accountVars>>
    BY <1>7 DEF leaveDirectory, walkVars
  <2> QED
    BY <1>1, <1>7, <2>1, GoesOnAsComplete
<1> QED
  BY <1>5, <1>6, <1>7 DEF leaveDirectory

LEMMA RemovesSourceAsComplete ==
  ASSUME Standing, Completion, NothingSelectedReturns, Transfer, removeSource
  PROVE  Completion'
<1>1. /\ pc = "removeSource" /\ UnderWay /\ WalkInv /\ Move /\ ChildrenDone
      /\ Top.aggregate = "Completed" /\ UNCHANGED <<request, world, root, manifest, next, left, totals>>
  BY DEF removeSource, outerVars, UnderWay, Standing, Position, PositionAt, MayGo
<1> DEFINE e == manifest[Top.node].entry
<1>2. CASE /\ IF e \in present THEN TakeAway(e) ELSE UNCHANGED sourceVars
           /\ Count("completed", 1) /\ advance(1) /\ Return("Completed", Front(frames))
  <2>1. tally'.failed = tally.failed /\ tally'.skipped = tally.skipped
        /\ tally'.satisfied = tally.satisfied
    BY <1>1, <1>2, Counting DEF Counters, WalkInv
  <2>2. CopiesCount' /\ Quiet' = Quiet
    BY <1>1, <2>1 DEF Move, CopiesCount, Quiet
  <2>3. Len(frames) = 1 => Root \notin present'
    <3> SUFFICES ASSUME Len(frames) = 1
                 PROVE  Root \notin present'
      OBVIOUS
    <3>1. e = Root /\ Root \in Entries
      BY <1>1, TheOutermostIsTheRoot, WalkManifest DEF WalkInv
    <3> HIDE DEF e
    <3>2. CASE e \in present
      BY <1>2, <3>1, <3>2, WithinFacts DEF TakeAway
    <3>3. CASE e \notin present
      BY <1>2, <3>1, <3>3 DEF sourceVars
    <3> QED
      BY <3>2, <3>3
  <2>4. "Completed" \in NodeOutcome
    BY DEF NodeOutcome
  <2> QED
    BY <1>1, <1>2, <2>1, <2>2, <2>3, <2>4, LeavesAsComplete
<1>3. CASE Goto("askRemoval") /\ UNCHANGED <<frames, tally, itemsProcessed>>
  <2>1. UNCHANGED <<walkVars, accountVars>>
    BY <1>1, <1>3 DEF walkVars, accountVars
  <2> QED
    BY <1>1, <1>3, <2>1, GoesOnAsComplete
<1> QED
  BY <1>2, <1>3 DEF removeSource

LEMMA AsksRemovalAsComplete ==
  ASSUME Standing, Completion, NothingSelectedReturns, Transfer, askRemoval
  PROVE  Completion'
<1>1. /\ pc = "askRemoval" /\ UnderWay /\ WalkInv /\ Move /\ ChildrenDone
      /\ UNCHANGED <<request, world, root, manifest, next, totals>>
  BY DEF askRemoval, outerVars, UnderWay, Standing, Position, PositionAt, MayGo
<1>2. CASE Goto("removeSource") /\ UNCHANGED <<frames, left, tally, itemsProcessed>>
  <2>1. UNCHANGED <<walkVars, accountVars>>
    BY <1>1, <1>2 DEF walkVars, accountVars
  <2> QED
    BY <1>1, <1>2, <2>1, GoesOnAsComplete
<1>3. ASSUME NEW outcome \in {"Failed", "Cancelled"}, recordTerminalCleanupFailure(outcome)
      PROVE  Completion'
  <2>1. Count("failed", 1) /\ Return(outcome, Front(frames)) /\ outcome \in NodeOutcome
    BY <1>3 DEF recordTerminalCleanupFailure, NodeOutcome
  <2>2. tally'.failed = tally.failed + 1 /\ tally.failed \in Nat
    BY <1>1, <2>1, Counting DEF Counters, WalkInv, WalkTypes
  <2>3. ~ Quiet' /\ CopiesCount' /\ request # "Copy"
    BY <1>1, <2>2 DEF Quiet, CopiesCount, Move
  <2> QED
    BY <1>1, <1>3, <2>1, <2>3, LeavesAsComplete
<1> QED
  BY <1>2, <1>3 DEF askRemoval

LEMMA BeginsNodeAsComplete ==
  ASSUME Standing, Completion, NothingSelectedReturns, Delete, beginNode
  PROVE  Completion'
<1>1. WalkInv /\ UNCHANGED <<request, world>> /\ UnderWay
  BY DEF Standing, beginNode, outerVars, UnderWay
<1>2. CASE CancelHere
  BY <1>1, <1>2, CancelsAsComplete
<1>3. CASE /\ frames' = Append(frames, FrameWithin(next)) /\ Goto("node")
           /\ UNCHANGED <<root, manifest, left, accountVars>>
  <2>1. next \in Nat \ {0}
    BY <1>1, WalkManifest DEF WalkInv, WalkTypes
  <2>2. FrameWithin(next) \in Frame /\ FrameWithin(next).allCompleted
    BY <2>1 DEF FrameWithin, Frame
  <2>3. UnderWay' /\ UNCHANGED <<root, anyFailed, tally, itemsProcessed>>
    BY <1>3 DEF Goto, UnderWay, accountVars
  <2> HIDE DEF FrameWithin
  <2> QED
    BY <1>1, <1>3, <2>2, <2>3, EntersAsComplete
<1> QED
  BY <1>2, <1>3 DEF beginNode

LEMMA EndsNodeAsComplete ==
  ASSUME Standing, Completion, NothingSelectedReturns, Delete, endNode
  PROVE  Completion'
<1>1. /\ pc = "node" /\ UnderWay /\ WalkInv /\ UNCHANGED <<request, world, root, manifest, next, totals>>
      /\ ~ (frames # <<>> => next \in Subtree(manifest, Top.node))
  BY DEF endNode, outerVars, UnderWay, Standing
<1>2. ChildrenDone
  BY <1>1, AtANode DEF Standing
<1>3. /\ Top.aggregate \in {"Completed", "Partial", "Failed"}
      /\ Top.allCompleted => Top.aggregate = "Completed"
  BY <1>1, <1>2, TopFacts
<1>4. CASE KeepsDirectory(Top.aggregate) /\ Return(Top.aggregate, Front(frames)) /\ UNCHANGED tally
  <2>1. request # "Copy" /\ CopiesCount' /\ Quiet' = Quiet
    BY <1>1, <1>4 DEF Delete, CopiesCount, Quiet
  <2>2. Len(frames) \in DOMAIN frames
    BY <1>1, <1>2 DEF WalkInv, WalkTypes, ChildrenDone
  <2>3. ~ Quiet
    BY <1>3, <1>4, <2>1, <2>2 DEF Completion, MovesTake, Top, KeepsDirectory
  <2>4. Top.aggregate \in NodeOutcome
    BY <1>3 DEF NodeOutcome
  <2> QED
    BY <1>1, <1>2, <1>4, <2>1, <2>3, <2>4, LeavesAsComplete
<1>5. CASE Goto("tryRemove") /\ UNCHANGED <<frames, left, tally, itemsProcessed>>
  <2>1. UNCHANGED <<walkVars, accountVars>>
    BY <1>1, <1>5 DEF walkVars, accountVars
  <2> QED
    BY <1>1, <1>5, <2>1, GoesOnAsComplete
<1> QED
  BY <1>4, <1>5 DEF endNode

LEMMA EndsEntryAsComplete ==
  ASSUME Standing, Completion, NothingSelectedReturns, Delete, pc \in RemovalPlaces,
         UNCHANGED <<request, world>>,
         NEW counter, NEW outcome, <<counter, outcome>> \in
           {<<"skipped", "Skipped">>, <<"completed", "Completed">>, <<"satisfied", "AlreadySatisfied">>},
         EndEntry(counter, outcome),
         counter = "completed" => Entry \notin present'
  PROVE  Completion'
<1>1. UnderWay /\ WalkInv /\ ChildrenDone /\ Top.aggregate = "Completed"
  BY DEF RemovalPlaces, UnderWay, Standing, Position, PositionAt, MayGo
<1>2. /\ counter \in {"skipped", "completed", "satisfied"} /\ counter \in Counters
      /\ outcome \in NodeOutcome /\ (counter = "completed" => outcome = "Completed")
      /\ Count(counter, 1) /\ Return(outcome, Front(frames)) /\ UNCHANGED root
  BY DEF Counters, NodeOutcome, EndEntry
<1>3. /\ tally'.failed = tally.failed
      /\ counter = "completed" => tally'.skipped = tally.skipped /\ tally'.satisfied = tally.satisfied
      /\ counter = "skipped" => tally'.skipped = tally.skipped + 1
      /\ counter = "satisfied" => tally'.satisfied = tally.satisfied + 1
  BY <1>1, <1>2, Counting DEF Counters, WalkInv
<1>4. tally.skipped \in Nat /\ tally.satisfied \in Nat
  BY <1>1, TallyTypes DEF WalkInv
<1>5. (Quiet' => Quiet /\ counter = "completed") /\ CopiesCount' /\ request # "Copy"
  BY <1>2, <1>3, <1>4 DEF Quiet, CopiesCount, Delete
<1>6. Len(frames) = 1 => Entry = Root
  BY <1>1, TheOutermostIsTheRoot DEF Entry
<1> QED
  BY <1>1, <1>2, <1>3, <1>5, <1>6, LeavesAsComplete

LEMMA RemovesAsComplete ==
  ASSUME Standing, Completion, NothingSelectedReturns, Delete,
         tryRemove \/ preflightFails \/ askReadOnly \/ makeWritable \/ remove \/ askEntryFailed
  PROVE  Completion'
<1>1. pc \in RemovalPlaces /\ UnderWay /\ WalkInv /\ UNCHANGED <<request, world>>
  BY DEF tryRemove, preflightFails, askReadOnly, makeWritable, remove, askEntryFailed, outerVars,
         UnderWay, RemovalPlaces, Standing
<1>2. ASSUME NEW label \in RemovalPlaces, Goto(label), UNCHANGED <<walkVars, accountVars>>
      PROVE  Completion'
  BY <1>1, <1>2, GoesOnAsComplete DEF RemovalPlaces
<1>3. CASE CancelHere
  BY <1>1, <1>3, CancelsAsComplete
<1>4. CASE recordEntrySkipped
  BY <1>1, <1>4, EndsEntryAsComplete DEF recordEntrySkipped
<1>5. CASE tryRemove
  <2>1. \E label \in RemovalPlaces : CheckpointThen(label)
    BY <1>5 DEF tryRemove, RemovalPlaces
  <2> QED
    BY <1>2, <1>3, <2>1 DEF CheckpointThen
<1>6. CASE preflightFails
  BY <1>2, <1>6 DEF preflightFails, RemovalPlaces
<1>7. CASE askReadOnly
  BY <1>2, <1>3, <1>4, <1>7 DEF askReadOnly, RemovalPlaces
<1>8. CASE makeWritable
  <2>1. \E label \in RemovalPlaces : Goto(label)
    BY <1>8 DEF makeWritable, RemovalPlaces
  <2> QED
    BY <1>2, <1>8, <2>1 DEF makeWritable
<1>9. CASE remove
  <2>1. CASE present' = present \ {Entry} /\ EndEntry("completed", "Completed")
    BY <1>1, <2>1, EndsEntryAsComplete
  <2>2. CASE EndEntry("satisfied", "AlreadySatisfied")
    BY <1>1, <2>2, EndsEntryAsComplete
  <2> QED
    BY <1>2, <1>9, <2>1, <2>2 DEF remove, RemovalPlaces
<1>10. CASE askEntryFailed
  BY <1>2, <1>3, <1>4, <1>10 DEF askEntryFailed, RemovalPlaces
<1> QED
  BY <1>5, <1>6, <1>7, <1>8, <1>9, <1>10

LEMMA FindsDeletedAsComplete ==
  ASSUME Standing, Completion, NothingSelectedReturns, Delete, inspectDeleteRoot \/ scanFindsNothing
  PROVE  Completion'
<1>1. WalkInv /\ UNCHANGED <<request, world>> /\ UnderWay /\ Unscanned
  BY DEF Standing, inspectDeleteRoot, scanFindsNothing, outerVars, UnderWay, Position, PositionAt
<1>2. CASE Goto("scan") /\ UNCHANGED <<walkVars, accountVars>>
  BY <1>1, <1>2, GoesOnAsComplete
<1>3. CASE finishUnscannedRoot("AlreadySatisfied")
  BY <1>1, <1>3, EndsUnscannedAsComplete
<1> QED
  BY <1>2, <1>3 DEF inspectDeleteRoot, scanFindsNothing

(* The operation only takes away from the source.                           *)
LEMMA NothingIsPutBack ==
  ASSUME TransferNext \/ DeleteNext
  PROVE  NothingSelectedReturns
<1>1. ASSUME UNCHANGED sourceVars
      PROVE  NothingSelectedReturns
  BY <1>1 DEF NothingSelectedReturns, sourceVars
<1>2. ASSUME NEW e, TakeAway(e)
      PROVE  NothingSelectedReturns
  BY <1>2 DEF NothingSelectedReturns, TakeAway
<1>3. CASE rename \/ visitEntry \/ removeSource
  BY <1>1, <1>2, <1>3 DEF rename, visitEntry, entryCompletes, entryFails, entryFailsCancelled,
                          removeSource
<1>4. CASE remove \/ makeWritable
  BY <1>4 DEF NothingSelectedReturns, remove, makeWritable
<1>5. CASE beginRoot \/ inspectionFails \/ askActionFailed \/ nextRoot
           \/ scan("MaterializingTransfer", "enter") \/ scan("PermanentDelete", "node")
  BY <1>1, <1>5 DEF beginRoot, inspectionFails, askActionFailed, nextRoot, scan
<1>6. CASE inspectRoot \/ ensureParent \/ leafRoot \/ resolveRoot \/ resolveDirectory
           \/ visitDirectory \/ leaveDirectory \/ askRemoval \/ enterDirectory
  BY <1>1, <1>6 DEF inspectRoot, ensureParent, leafRoot, resolveRoot, resolveDirectory,
                    visitDirectory, leaveDirectory, askRemoval, enterDirectory
<1>7. CASE promptForCollision("RootDirectoryMerge") \/ promptForCollision("TypeMismatch")
  BY <1>1, <1>7 DEF promptForCollision
<1>8. CASE inspectDeleteRoot \/ scanFindsNothing \/ beginNode \/ endNode \/ tryRemove
           \/ preflightFails \/ askReadOnly \/ askEntryFailed
  BY <1>1, <1>8 DEF inspectDeleteRoot, scanFindsNothing, beginNode, endNode, tryRemove,
                    preflightFails, askReadOnly, askEntryFailed
<1> QED
  BY <1>3, <1>4, <1>5, <1>6, <1>7, <1>8 DEF TransferNext, DeleteNext, TransferStep, DeleteStep

LEMMA CompletionStep ==
  ASSUME TreeInv, Completion, [Next]_operationVars
  PROVE  Completion'
<1>1. Standing /\ WalkInv /\ WalkTypes /\ PlanTypes
  BY DEF TreeInv, Surroundings, Standing, WalkInv
<1>2. CASE request # "Delete" /\ TransferNext
  <2>1. NothingSelectedReturns /\ Transfer /\ BuildMode = "MaterializingTransfer"
    BY <1>2, NothingIsPutBack DEF Transfer, BuildMode
  <2>2. CASE TransferStep
    BY <1>1, <2>1, <2>2, StepsAsComplete, NextRootAsComplete DEF TransferStep
  <2>3. CASE rename \/ inspectRoot \/ ensureParent \/ leafRoot \/ resolveRoot \/ visitDirectory
    BY <1>1, <2>1, <2>3, RenamesAsComplete, TransferStepsAsComplete
  <2>4. CASE resolveDirectory \/ promptForCollision("RootDirectoryMerge")
             \/ promptForCollision("TypeMismatch")
    BY <1>1, <2>1, <2>4, ResolvesAsComplete
  <2>5. CASE enterDirectory \/ visitEntry \/ leaveDirectory \/ removeSource \/ askRemoval
    BY <1>1, <2>1, <2>5, EntersDirectoryAsComplete, VisitsEntryAsComplete,
       LeavesDirectoryAsComplete, RemovesSourceAsComplete, AsksRemovalAsComplete
  <2> QED
    BY <1>2, <2>2, <2>3, <2>4, <2>5 DEF TransferNext
<1>3. CASE request = "Delete" /\ DeleteNext
  <2>1. NothingSelectedReturns /\ Delete /\ BuildMode = "PermanentDelete"
    BY <1>3, NothingIsPutBack DEF Delete, BuildMode
  <2>2. CASE DeleteStep
    BY <1>1, <2>1, <2>2, StepsAsComplete, NextRootAsComplete DEF DeleteStep
  <2>3. CASE inspectDeleteRoot \/ scanFindsNothing \/ beginNode \/ endNode
    BY <1>1, <2>1, <2>3, FindsDeletedAsComplete, BeginsNodeAsComplete, EndsNodeAsComplete
  <2>4. CASE tryRemove \/ preflightFails \/ askReadOnly \/ makeWritable \/ remove \/ askEntryFailed
    BY <1>1, <2>1, <2>4, RemovesAsComplete
  <2> QED
    BY <1>3, <2>2, <2>3, <2>4 DEF DeleteNext
<1>4. CASE cancel \/ others \/ UNCHANGED operationVars
  <2>1. UNCHANGED <<request, world, walkVars, accountVars, controlVars>>
    BY <1>4 DEF cancel, others, entryVanishes, entryAppears, operationVars, transferVars, outerVars
  <2>2. NothingSelectedReturns
    <3>1. CASE cancel \/ UNCHANGED operationVars
      BY <3>1 DEF cancel, operationVars, transferVars, sourceVars, NothingSelectedReturns
    <3>2. CASE others
      BY <3>2 DEF others, entryVanishes, entryAppears, NothingSelectedReturns
    <3> QED
      BY <1>4, <3>1, <3>2
  <2>3. UNCHANGED <<root, frames, tally, itemsProcessed, anyFailed, result, pc>>
    BY <2>1 DEF walkVars, accountVars, controlVars
  <2> QED
    BY <1>1, <2>1, <2>2, <2>3, StaysAsComplete
<1> QED
  BY <1>2, <1>3, <1>4 DEF Next, runOperation, Finished

(* When the selected entries are there at the start and nobody else creates *)
(* them, an operation that ends Completed had no failure in any root; and   *)
(* if it reports nothing skipped or found done, a moved or deleted selection *)
(* is gone and every item of a copied one counted as completed.             *)
THEOREM CompletionMeansAll ==
  ASSUME \A w \in Worlds : {w.roots[i] : i \in DOMAIN w.roots} \cap w.late = {}
  PROVE  Spec => []CompletedMeansAll
<1>1. Init => Completion
  <2> SUFFICES ASSUME Init
               PROVE  Completion
    OBVIOUS
  <2>1. /\ world \in Worlds /\ pc = "root" /\ root = 1 /\ frames = <<>> /\ itemsProcessed = 0
        /\ tally = [completed |-> 0, skipped |-> 0, satisfied |-> 0, failed |-> 0]
    BY DEF Init, TransferInit, WalkInit
  <2>2. SelectionIsThere
    BY <2>1 DEF SelectionIsThere, Selected
  <2>3. FailuresShow /\ CopiesCount /\ MovesTake
    BY <2>1 DEF FailuresShow, CopiesCount, MovesTake
  <2> QED
    BY <2>2, <2>3 DEF Completion
<1>2. TreeInv /\ Completion /\ [Next]_operationVars => Completion'
  BY CompletionStep
<1>3. TreeInv /\ Completion => CompletedMeansAll
  <2> SUFFICES ASSUME TreeInv, Completion, pc = "done", result = "Completed"
               PROVE  /\ tally.failed = 0
                      /\ tally.skipped + tally.satisfied = 0 =>
                           IF request = "Copy" THEN tally.completed = totals.items
                           ELSE Selected \cap present = {}
    BY DEF CompletedMeansAll
  <2>1. tally.failed = 0
    BY DEF Completion, FailuresShow
  <2>2. WalkTypes /\ itemsProcessed = totals.items
    BY DEF TreeInv, Standing, WalkInv, AccountsMeet
  <2>3. tally.skipped + tally.satisfied = 0 => Quiet
    BY <2>1, <2>2, TallyTypes DEF Quiet
  <2>4. Quiet /\ request = "Copy" => tally.completed = totals.items
    BY <2>2, TallyTypes DEF Completion, CopiesCount, Quiet
  <2>5. Quiet /\ request # "Copy" => Selected \cap present = {}
    BY DEF Completion, MovesTake
  <2> QED
    BY <2>1, <2>3, <2>4, <2>5
<1> QED
  BY <1>1, <1>2, <1>3, TreeInvariance, PTL DEF Spec

-----------------------------------------------------------------------------
(***************************************************************************)
(* A manifest is the tree.                                                 *)
(*                                                                         *)
(* The nodes a visit leads to form a forest of which each node lists what  *)
(* it should, given the directories on the way down. Forests of one depth  *)
(* join to a forest, and a node over what is listed of it is one again, so *)
(* by induction over the levels the whole manifest is.                     *)
(***************************************************************************)
(* The members of a sequence at some positions, gathered one by one.        *)
Gathers(f, seq, N, S) ==
  /\ f[0] = <<>> /\ Those(seq, S) = f[N]
  /\ \A n \in 1..N : f[n] = IF n \in S THEN Append(f[n - 1], seq[n]) ELSE f[n - 1]

LEMMA ThoseAreStepwise ==
  ASSUME NEW A, NEW seq \in Seq(A), NEW S
  PROVE  \E f \in [0..Len(seq) -> Seq(A)] : Gathers(f, seq, Len(seq), S)
<1> DEFINE N == Len(seq)
           V == Seq(A)
           step == [n \in 1..N |-> [s \in V |-> IF n \in S THEN Append(s, seq[n]) ELSE s]]
           Body(g) == [n \in 0..N |->
                         IF n = 0 THEN <<>> ELSE IF n \in S THEN Append(g[n - 1], seq[n]) ELSE g[n - 1]]
           those == CHOOSE g : g = Body(g)
<1>1. N \in Nat /\ <<>> \in V /\ \A n \in 1..N : seq[n] \in A
  OBVIOUS
<1>2. step \in [1..N -> [V -> V]]
  BY <1>1
<1>3. \A n \in 1..N : \A s \in V : step[n][s] = IF n \in S THEN Append(s, seq[n]) ELSE s
  OBVIOUS
<1>4. PICK f \in [0..N -> V] : Computes(f, N, <<>>, step)
  <2> HIDE DEF N, V, step
  <2> QED
    BY <1>1, <1>2, PrimitiveRecursion
<1> HIDE DEF step
<1>5. ASSUME NEW n \in 0..N
      PROVE  f[n] = IF n = 0 THEN <<>> ELSE IF n \in S THEN Append(f[n - 1], seq[n]) ELSE f[n - 1]
  <2>1. CASE n = 0
    BY <1>4, <2>1 DEF Computes
  <2>2. CASE n # 0
    <3>1. n \in 1..N /\ n - 1 \in 0..N
      BY <1>1, <2>2
    <3>2. f[n] = step[n][f[n - 1]] /\ f[n - 1] \in V
      BY <1>4, <3>1 DEF Computes
    <3> HIDE DEF V, N
    <3> QED
      BY <1>3, <2>2, <3>1, <3>2
  <2> QED
    BY <2>1, <2>2
<1>6. f = Body(f)
  <2>1. f = [n \in 0..N |-> f[n]]
    OBVIOUS
  <2> QED
    BY <1>5, <2>1
<1>7. those = Body(those)
  <2> HIDE DEF Body
  <2> QED
    BY <1>6
<1>8. Those(seq, S) = those[N]
  BY DEF Those
<1> HIDE DEF those
<1>9. \A n \in 0..N : those[n] = Body(those)[n]
  BY <1>7
<1>10. those[0] = <<>> /\ \A n \in 1..N : those[n] = IF n \in S THEN Append(those[n - 1], seq[n]) ELSE those[n - 1]
  <2>1. \A n \in 0..N : those[n] = IF n = 0 THEN <<>> ELSE IF n \in S THEN Append(those[n - 1], seq[n])
                                 ELSE those[n - 1]
    BY <1>9
  <2>2. 0 \in 0..N /\ \A n \in 1..N : n \in 0..N /\ n # 0
    BY <1>1
  <2> HIDE DEF N
  <2> QED
    BY <2>1, <2>2
<1>11. \A n \in 0..N : those[n] = f[n]
  <2> DEFINE T == {n \in 0..N : those[n] = f[n]}
  <2>1. 0 \in T
    BY <1>1, <1>4, <1>10 DEF Computes
  <2>2. \A n \in 1..N : n - 1 \in T => n \in T
    <3>1. \A n \in 1..N : n \in 0..N /\ n # 0
      BY <1>1
    <3> HIDE DEF N
    <3> QED
      BY <1>5, <1>10, <3>1
  <2> HIDE DEF T
  <2>3. 0..N \subseteq T
    BY <1>1, <2>1, <2>2, UpTo
  <2> QED
    BY <2>3 DEF T
<1>12. Gathers(f, seq, N, S)
  <2>1. 0 \in 0..N /\ N \in 0..N /\ \A n \in 1..N : n \in 0..N /\ n # 0
    BY <1>1
  <2> HIDE DEF N
  <2> QED
    BY <1>5, <1>8, <1>11, <2>1 DEF Gathers
<1> QED
  BY <1>12

LEMMA ThoseAreASequence ==
  ASSUME NEW A, NEW seq \in Seq(A), NEW S
  PROVE  Those(seq, S) \in Seq(A)
<1>1. PICK f \in [0..Len(seq) -> Seq(A)] : Gathers(f, seq, Len(seq), S)
  BY ThoseAreStepwise
<1>2. Len(seq) \in 0..Len(seq)
  OBVIOUS
<1> QED
  BY <1>1, <1>2 DEF Gathers

(* Only the positions there are matter.                                     *)
LEMMA ThoseAgree ==
  ASSUME NEW A, NEW seq \in Seq(A), NEW S, NEW T, \A n \in 1..Len(seq) : n \in S <=> n \in T
  PROVE  Those(seq, S) = Those(seq, T)
<1> DEFINE N == Len(seq)
<1>1. PICK f \in [0..N -> Seq(A)] : Gathers(f, seq, N, S)
  BY ThoseAreStepwise
<1>2. PICK g \in [0..N -> Seq(A)] : Gathers(g, seq, N, T)
  BY ThoseAreStepwise
<1> DEFINE Same == {n \in 0..N : f[n] = g[n]}
<1>3. N \in Nat /\ 0 \in Same /\ \A n \in 1..N : n \in 0..N
  BY <1>1, <1>2 DEF Gathers
<1> HIDE DEF N
<1>4. \A n \in 1..N : n - 1 \in Same => n \in Same
  BY <1>1, <1>2, <1>3 DEF N, Gathers
<1> HIDE DEF Same
<1>5. 0..N \subseteq Same
  BY <1>3, <1>4, UpTo
<1> QED
  BY <1>1, <1>2, <1>3, <1>5 DEF Same, Gathers

LEMMA NoneOfThose ==
  ASSUME NEW A, NEW seq \in Seq(A), NEW S, \A n \in 1..Len(seq) : n \notin S
  PROVE  Those(seq, S) = <<>>
<1> DEFINE N == Len(seq)
<1>1. PICK f \in [0..N -> Seq(A)] : Gathers(f, seq, N, S)
  BY ThoseAreStepwise
<1> DEFINE Nothing == {n \in 0..N : f[n] = <<>>}
<1>3. N \in Nat /\ 0 \in Nothing /\ \A n \in 1..N : n \in 0..N
  BY <1>1 DEF Gathers
<1>4. \A n \in 1..N : n - 1 \in Nothing => n \in Nothing
  BY <1>1, <1>3 DEF Gathers
<1> HIDE DEF Nothing
<1>5. 0..N \subseteq Nothing
  BY <1>3, <1>4, UpTo
<1> QED
  BY <1>1, <1>3, <1>5 DEF Nothing, Gathers

LEMMA ThatOne ==
  ASSUME NEW A, NEW x \in A, NEW S, 1 \in S
  PROVE  Those(<<x>>, S) = <<x>>
<1>1. <<x>> \in Seq(A) /\ Len(<<x>>) = 1 /\ <<x>>[1] = x
  OBVIOUS
<1>2. PICK f \in [0..1 -> Seq(A)] : Gathers(f, <<x>>, 1, S)
  <2> DEFINE one == <<x>>
  <2>1. \E f \in [0..Len(one) -> Seq(A)] : Gathers(f, one, Len(one), S)
    <3>1. one \in Seq(A)
      OBVIOUS
    <3> HIDE DEF one
    <3> QED
      BY <3>1, ThoseAreStepwise
  <2> QED
    BY <1>1, <2>1
<1>3. f[1] = Append(f[0], x)
  <2>1. 1 \in 1..1 /\ 1 - 1 = 0
    OBVIOUS
  <2> QED
    BY <1>1, <1>2, <2>1 DEF Gathers
<1> QED
  BY <1>2, <1>3 DEF Gathers

(* Those of two sequences joined are those of one and those of the other.   *)
LEMMA ThoseOfJoined ==
  ASSUME NEW A, NEW s \in Seq(A), NEW t \in Seq(A), NEW S, NEW T,
         \A n \in 1..Len(t) : Len(s) + n \in S <=> n \in T
  PROVE  Those(s \o t, S) = Those(s, S) \o Those(t, T)
<1> DEFINE m == Len(s)
           n == Len(t)
           st == s \o t
<1>1. /\ m \in Nat /\ n \in Nat /\ st \in Seq(A) /\ Len(st) = m + n
      /\ \A i \in 1..m : st[i] = s[i]
      /\ \A i \in 1..n : st[m + i] = t[i] /\ t[i] \in A
  OBVIOUS
<1> HIDE DEF m, n, st
<1>2. PICK f \in [0..(m + n) -> Seq(A)] : Gathers(f, st, m + n, S)
  <2>1. PICK f \in [0..Len(st) -> Seq(A)] : Gathers(f, st, Len(st), S)
    BY <1>1, ThoseAreStepwise
  <2> QED
    BY <1>1, <2>1
<1>3. PICK g \in [0..m -> Seq(A)] : Gathers(g, s, m, S)
  BY ThoseAreStepwise DEF m
<1>4. PICK h \in [0..n -> Seq(A)] : Gathers(h, t, n, T)
  BY ThoseAreStepwise DEF n
<1>5. f[m] = g[m]
  <2> DEFINE Same == {i \in 0..m : f[i] = g[i]}
  <2>1. 0 \in Same
    BY <1>1, <1>2, <1>3 DEF Gathers
  <2>2. \A i \in 1..m : i - 1 \in Same => i \in Same
    <3>1. \A i \in 1..m : i \in 1..(m + n) /\ i \in 0..m
      BY <1>1
    <3> QED
      BY <1>1, <1>2, <1>3, <3>1 DEF Gathers
  <2> HIDE DEF Same
  <2>3. 0..m \subseteq Same
    BY <1>1, <2>1, <2>2, UpTo
  <2> QED
    BY <1>1, <2>3 DEF Same
<1>6. \A i \in 0..n : f[m + i] = g[m] \o h[i]
  <2> DEFINE Same == {i \in 0..n : f[m + i] = g[m] \o h[i]}
  <2>0. g[m] \in Seq(A)
    BY <1>1, <1>3
  <2>1. 0 \in Same
    <3>1. h[0] = <<>> /\ m + 0 = m /\ 0 \in 0..n /\ g[m] \o <<>> = g[m]
      BY <1>1, <1>4, <2>0 DEF Gathers
    <3> QED
      BY <1>5, <3>1
  <2>2. ASSUME NEW i \in 1..n, i - 1 \in Same
        PROVE  i \in Same
    <3>1. /\ m + i \in 1..(m + n) /\ (m + i) - 1 = m + (i - 1) /\ i \in 0..n /\ i - 1 \in 0..n
      BY <1>1
    <3>2. f[m + i] = IF m + i \in S THEN Append(f[m + (i - 1)], st[m + i]) ELSE f[m + (i - 1)]
      BY <1>2, <3>1 DEF Gathers
    <3>3. m + i \in S <=> i \in T
      BY DEF m, n
    <3>4. f[m + (i - 1)] = g[m] \o h[i - 1] /\ h[i - 1] \in Seq(A)
      BY <1>4, <2>2, <3>1
    <3>5. st[m + i] = t[i] /\ t[i] \in A
      BY <1>1
    <3>6. h[i] = IF i \in T THEN Append(h[i - 1], t[i]) ELSE h[i - 1]
      BY <1>4 DEF Gathers
    <3>7. Append(g[m] \o h[i - 1], t[i]) = g[m] \o Append(h[i - 1], t[i])
      <4> DEFINE a == g[m]
                 b == h[i - 1]
                 x == t[i]
      <4>1. a \in Seq(A) /\ b \in Seq(A) /\ x \in A
        BY <2>0, <3>4, <3>5
      <4> HIDE DEF a, b, x
      <4>2. Append(a \o b, x) = a \o Append(b, x)
        <5>1. a \o b \in Seq(A) /\ <<x>> \in Seq(A)
          BY <4>1
        <5>2. Append(a \o b, x) = (a \o b) \o <<x>> /\ Append(b, x) = b \o <<x>>
          BY <4>1, <5>1, AppendIsConcat
        <5>3. (a \o b) \o <<x>> = a \o (b \o <<x>>)
          <6> DEFINE one == <<x>>
          <6>1. one \in Seq(A)
            BY <5>1
          <6> HIDE DEF one
          <6>2. (a \o b) \o one = a \o (b \o one)
            BY <4>1, <6>1, ConcatAssociative, SMTT(30)
          <6> QED
            BY <6>2 DEF one
        <5> QED
          BY <5>2, <5>3, Zenon
      <4> QED
        BY <4>2 DEF a, b, x
    <3> QED
      BY <3>1, <3>2, <3>3, <3>4, <3>5, <3>6, <3>7
  <2> HIDE DEF Same
  <2>3. 0..n \subseteq Same
    BY <1>1, <2>1, <2>2, UpTo
  <2> QED
    BY <2>3 DEF Same
<1>7. n \in 0..n
  BY <1>1
<1> QED
  BY <1>2, <1>3, <1>4, <1>6, <1>7 DEF st, Gathers

(* In two sequences joined each node has above and below it what it had in   *)
(* its own, but that a node of the first may reach into the second.          *)
LEMMA JoinedTrees ==
  ASSUME NEW s \in Seq(SourceNode), NEW t \in Seq(SourceNode)
  PROVE  /\ \A i, j \in 1..Len(s) : j \in Subtree(s \o t, i) <=> j \in Subtree(s, i)
         /\ \A i, j \in 1..Len(t) : Len(s) + j \in Subtree(s \o t, Len(s) + i) <=> j \in Subtree(t, i)
         /\ \A i \in 1..Len(s), j \in 1..Len(t) :
              Len(s) + j \in Subtree(s \o t, i) => t[1].depth > s[i].depth
<1> DEFINE m == Len(s)
           n == Len(t)
           st == s \o t
<1>1. /\ m \in Nat /\ n \in Nat /\ st \in Seq(SourceNode) /\ Len(st) = m + n
      /\ \A i \in 1..m : st[i] = s[i]
      /\ \A i \in 1..n : st[m + i] = t[i]
  OBVIOUS
<1> HIDE DEF m, n, st
<1>2. ASSUME NEW i \in 1..m, NEW j \in 1..m
      PROVE  j \in Subtree(st, i) <=> j \in Subtree(s, i)
  <2>1. \A k \in (i + 1)..j : k \in 1..m
    BY <1>1
  <2>2. j \in i..(m + n) <=> j \in i..m
    BY <1>1
  <2>3. (\A k \in (i + 1)..j : st[k].depth > st[i].depth) <=> \A k \in (i + 1)..j : s[k].depth > s[i].depth
    BY <1>1, <2>1
  <2> QED
    BY <1>1, <2>2, <2>3 DEF Subtree, m
<1>3. ASSUME NEW i \in 1..n, NEW j \in 1..n
      PROVE  m + j \in Subtree(st, m + i) <=> j \in Subtree(t, i)
  <2>1. m + j \in (m + i)..(m + n) <=> j \in i..n
    BY <1>1
  <2>2. ASSUME \A k \in (i + 1)..j : t[k].depth > t[i].depth, NEW k \in (m + i + 1)..(m + j)
        PROVE  st[k].depth > st[m + i].depth
    <3>1. k - m \in (i + 1)..j /\ k - m \in 1..n /\ m + (k - m) = k
      BY <1>1
    <3>2. st[k] = t[k - m] /\ st[m + i] = t[i]
      BY <1>1, <3>1
    <3> QED
      BY <2>2, <3>1, <3>2
  <2>3. ASSUME \A k \in (m + i + 1)..(m + j) : st[k].depth > st[m + i].depth, NEW k \in (i + 1)..j
        PROVE  t[k].depth > t[i].depth
    <3>1. m + k \in (m + i + 1)..(m + j) /\ k \in 1..n
      BY <1>1
    <3>2. st[m + k] = t[k] /\ st[m + i] = t[i]
      BY <1>1, <3>1
    <3> QED
      BY <2>3, <3>1, <3>2
  <2>4. (\A k \in (m + i + 1)..(m + j) : st[k].depth > st[m + i].depth)
          <=> \A k \in (i + 1)..j : t[k].depth > t[i].depth
    BY <2>2, <2>3
  <2>5. /\ m + j \in Subtree(st, m + i)
             <=> m + j \in (m + i)..(m + n) /\ \A k \in (m + i + 1)..(m + j) : st[k].depth > st[m + i].depth
        /\ j \in Subtree(t, i) <=> j \in i..n /\ \A k \in (i + 1)..j : t[k].depth > t[i].depth
    BY <1>1 DEF Subtree, n
  <2> QED
    BY <2>1, <2>4, <2>5
<1>4. ASSUME NEW i \in 1..m, NEW j \in 1..n, m + j \in Subtree(st, i)
      PROVE  t[1].depth > s[i].depth
  <2>1. \A k \in (i + 1)..(m + j) : st[k].depth > st[i].depth
    BY <1>4 DEF Subtree
  <2>2. m + 1 \in (i + 1)..(m + j) /\ 1 \in 1..n
    BY <1>1
  <2>3. st[m + 1] = t[1] /\ st[i] = s[i]
    BY <1>1, <2>2
  <2> QED
    BY <2>1, <2>2, <2>3
<1> QED
  BY <1>2, <1>3, <1>4 DEF m, n, st

(* The entries of the nodes, of those right below a node, of those on top;   *)
(* and the directories that the nodes above a node open.                     *)
EntriesOf(tree) == [j \in DOMAIN tree |-> tree[j].entry]
Kids(tree, i) == {j \in Subtree(tree, i) : tree[j].depth = tree[i].depth + 1}
Tops(tree, d) == Those(EntriesOf(tree), {j \in DOMAIN tree : tree[j].depth = d})
Above(w, tree, i) == {Opens(w, tree[j].entry) : j \in Ancestors(tree, i)}

LEMMA NodeFacts ==
  ASSUME NEW tree \in Seq(SourceNode)
  PROVE  /\ Len(tree) \in Nat /\ DOMAIN tree = 1..Len(tree)
         /\ EntriesOf(tree) \in Seq(Entries) /\ Len(EntriesOf(tree)) = Len(tree)
         /\ \A i \in 1..Len(tree) :
              /\ tree[i] \in SourceNode /\ tree[i].entry \in Entries /\ tree[i].depth \in Nat \ {0}
              /\ EntriesOf(tree)[i] = tree[i].entry
              /\ Subtree(tree, i) \subseteq i..Len(tree) /\ Ancestors(tree, i) \subseteq 1..(i - 1)
<1>1. Len(tree) \in Nat /\ DOMAIN tree = 1..Len(tree) /\ \A i \in 1..Len(tree) : tree[i] \in SourceNode
  OBVIOUS
<1>2. \A i \in 1..Len(tree) : tree[i].entry \in Entries /\ tree[i].depth \in Nat \ {0}
  BY <1>1 DEF SourceNode
<1>3. EntriesOf(tree) \in Seq(Entries) /\ Len(EntriesOf(tree)) = Len(tree)
      /\ \A i \in 1..Len(tree) : EntriesOf(tree)[i] = tree[i].entry
  BY <1>1, <1>2 DEF EntriesOf
<1> QED
  BY <1>1, <1>2, <1>3 DEF Subtree, Ancestors

(* The entries of two sequences joined are theirs, joined.                  *)
LEMMA EntriesOfJoined ==
  ASSUME NEW s \in Seq(SourceNode), NEW t \in Seq(SourceNode)
  PROVE  EntriesOf(s \o t) = EntriesOf(s) \o EntriesOf(t)
<1> DEFINE st == s \o t
           es == EntriesOf(s)
           et == EntriesOf(t)
<1>1. /\ st \in Seq(SourceNode) /\ Len(st) = Len(s) + Len(t) /\ Len(s) \in Nat /\ Len(t) \in Nat
      /\ \A i \in 1..(Len(s) + Len(t)) : st[i] = IF i <= Len(s) THEN s[i] ELSE t[i - Len(s)]
  BY ConcatProperties
<1>2. /\ es \in Seq(Entries) /\ et \in Seq(Entries) /\ Len(es) = Len(s) /\ Len(et) = Len(t)
      /\ \A i \in 1..Len(s) : es[i] = s[i].entry
      /\ \A i \in 1..Len(t) : et[i] = t[i].entry
      /\ EntriesOf(st) \in Seq(Entries) /\ Len(EntriesOf(st)) = Len(st)
      /\ \A i \in 1..Len(st) : EntriesOf(st)[i] = st[i].entry
  BY <1>1, NodeFacts
<1> HIDE DEF es, et
<1>3. /\ es \o et \in Seq(Entries) /\ Len(es \o et) = Len(s) + Len(t)
      /\ \A i \in 1..(Len(s) + Len(t)) : (es \o et)[i] = IF i <= Len(s) THEN es[i] ELSE et[i - Len(s)]
  <2>1. es \in Seq(Entries) /\ et \in Seq(Entries)
    BY <1>2
  <2>2. /\ es \o et \in Seq(Entries) /\ Len(es \o et) = Len(es) + Len(et)
        /\ \A i \in 1..(Len(es) + Len(et)) : (es \o et)[i] = IF i <= Len(es) THEN es[i] ELSE et[i - Len(es)]
    BY <2>1, ConcatProperties
  <2> QED
    BY <1>2, <2>2
<1> HIDE DEF st
<1>4. \A i \in 1..(Len(s) + Len(t)) : EntriesOf(st)[i] = (es \o et)[i]
  <2> SUFFICES ASSUME NEW i \in 1..(Len(s) + Len(t))
               PROVE  EntriesOf(st)[i] = (es \o et)[i]
    OBVIOUS
  <2>1. CASE i <= Len(s)
    BY <1>1, <1>2, <1>3, <2>1
  <2>2. CASE ~ (i <= Len(s))
    <3>1. i - Len(s) \in 1..Len(t)
      BY <1>1, <2>2
    <3> QED
      BY <1>1, <1>2, <1>3, <2>2, <3>1
  <2> QED
    BY <2>1, <2>2
<1>5. EntriesOf(st) = es \o et
  <2> DEFINE a == EntriesOf(st)
             b == es \o et
  <2>1. a \in Seq(Entries) /\ b \in Seq(Entries) /\ Len(a) = Len(b) /\ \A i \in 1..Len(a) : a[i] = b[i]
    BY <1>1, <1>2, <1>3, <1>4
  <2> HIDE DEF a, b
  <2>2. a = b
    BY <2>1
  <2> QED
    BY <2>2 DEF a, b
<1> QED
  BY <1>5 DEF st, es, et

(* The children and what is on top of two sequences joined.                 *)
LEMMA FamiliesOfJoined ==
  ASSUME NEW s \in Seq(SourceNode), NEW t \in Seq(SourceNode)
  PROVE  /\ \A i \in 1..Len(s) :
              (t = <<>> \/ t[1].depth <= s[i].depth) =>
                Those(EntriesOf(s \o t), Kids(s \o t, i)) = Those(EntriesOf(s), Kids(s, i))
         /\ \A i \in 1..Len(t) :
              Those(EntriesOf(s \o t), Kids(s \o t, Len(s) + i)) = Those(EntriesOf(t), Kids(t, i))
         /\ \A d : Tops(s \o t, d) = Tops(s, d) \o Tops(t, d)
<1> DEFINE m == Len(s)
           n == Len(t)
           st == s \o t
           es == EntriesOf(s)
           et == EntriesOf(t)
<1>1. /\ m \in Nat /\ n \in Nat /\ st \in Seq(SourceNode) /\ Len(st) = m + n
      /\ \A i \in 1..m : st[i] = s[i]
      /\ \A i \in 1..n : st[m + i] = t[i]
  OBVIOUS
<1>2. EntriesOf(st) = es \o et /\ es \in Seq(Entries) /\ et \in Seq(Entries) /\ Len(es) = m /\ Len(et) = n
      /\ (t # <<>> => 1 \in 1..n) /\ (t = <<>> => n = 0)
  BY EntriesOfJoined, NodeFacts
<1>3. /\ \A i, j \in 1..m : j \in Subtree(st, i) <=> j \in Subtree(s, i)
      /\ \A i, j \in 1..n : m + j \in Subtree(st, m + i) <=> j \in Subtree(t, i)
      /\ \A i \in 1..m, j \in 1..n : m + j \in Subtree(st, i) => t[1].depth > s[i].depth
  BY JoinedTrees
<1>4. /\ \A i \in 1..m : s[i].depth \in Nat
      /\ \A i \in 1..n : t[i].depth \in Nat /\ Subtree(st, m + i) \subseteq (m + i)..(m + n)
  <2>1. \A i \in 1..n : m + i \in 1..Len(st)
    BY <1>1
  <2>2. \A i \in 1..n : Subtree(st, m + i) \subseteq (m + i)..Len(st)
    BY <1>1, <2>1, NodeFacts
  <2> QED
    BY <1>1, <2>2, NodeFacts
<1> HIDE DEF m, n, st, es, et
<1>5. Those(es, {}) = <<>> /\ Those(et, {}) = <<>> /\ \A S : Those(es, S) \in Seq(Entries) /\ Those(et, S) \in Seq(Entries)
  <2>1. \A S : Those(es, S) \in Seq(Entries) /\ Those(et, S) \in Seq(Entries)
    BY <1>2, ThoseAreASequence
  <2>2. (\A k \in 1..Len(es) : k \notin {}) /\ (\A k \in 1..Len(et) : k \notin {})
    OBVIOUS
  <2> QED
    BY <1>2, <2>1, <2>2, NoneOfThose
<1>6. ASSUME NEW S, NEW T, \A k \in 1..n : m + k \in S <=> k \in T
      PROVE  Those(es \o et, S) = Those(es, S) \o Those(et, T)
  <2>1. es \in Seq(Entries) /\ et \in Seq(Entries)
    BY <1>2
  <2>2. \A k \in 1..Len(et) : Len(es) + k \in S <=> k \in T
    BY <1>2, <1>6
  <2> QED
    BY <2>1, <2>2, ThoseOfJoined
<1>7. ASSUME NEW i \in 1..m, t = <<>> \/ t[1].depth <= s[i].depth
      PROVE  Those(EntriesOf(st), Kids(st, i)) = Those(es, Kids(s, i))
  <2>1. \A k \in 1..n : m + k \in Kids(st, i) <=> k \in {}
    <3> SUFFICES ASSUME NEW k \in 1..n, m + k \in Subtree(st, i)
                 PROVE  FALSE
      BY <1>2 DEF Kids
    <3>1. t[1].depth > s[i].depth /\ n # 0 /\ 1 \in 1..n
      <4>1. t[1].depth > s[i].depth
        BY <1>3
      <4>2. n # 0 /\ 1 \in 1..n
        BY <1>1
      <4> QED
        BY <4>1, <4>2
    <3>2. t[1].depth \in Nat /\ s[i].depth \in Nat
      BY <1>4, <3>1
    <3>3. t[1].depth <= s[i].depth
      BY <1>2, <1>7, <3>1
    <3> QED
      BY <3>1, <3>2, <3>3
  <2>2. Those(es \o et, Kids(st, i)) = Those(es, Kids(st, i)) \o Those(et, {})
    BY <1>2, <1>6, <2>1
  <2>3. \A k \in 1..Len(es) : k \in Kids(st, i) <=> k \in Kids(s, i)
    BY <1>1, <1>2, <1>3 DEF Kids
  <2>4. Those(es, Kids(st, i)) = Those(es, Kids(s, i))
    BY <1>2, <2>3, ThoseAgree
  <2>5. Those(es, Kids(s, i)) \o <<>> = Those(es, Kids(s, i))
    BY <1>5, ConcatEmptySeq
  <2> QED
    BY <1>2, <1>5, <2>2, <2>4, <2>5
<1>8. ASSUME NEW i \in 1..n
      PROVE  Those(EntriesOf(st), Kids(st, m + i)) = Those(et, Kids(t, i))
  <2>1. \A k \in 1..n : m + k \in Kids(st, m + i) <=> k \in Kids(t, i)
    <3>1. Subtree(t, i) \subseteq i..n /\ \A k \in 1..n : st[m + k] = t[k]
      BY <1>1, NodeFacts DEF n
    <3> QED
      BY <1>3, <3>1 DEF Kids
  <2>2. Those(es \o et, Kids(st, m + i)) = Those(es, Kids(st, m + i)) \o Those(et, Kids(t, i))
    BY <1>2, <1>6, <2>1
  <2>3. \A k \in 1..Len(es) : k \notin Kids(st, m + i)
    <3>1. Kids(st, m + i) \subseteq (m + i)..(m + n)
      BY <1>4 DEF Kids
    <3> QED
      BY <1>1, <1>2, <3>1
  <2>4. Those(es, Kids(st, m + i)) = <<>>
    BY <1>2, <2>3, NoneOfThose
  <2>5. <<>> \o Those(et, Kids(t, i)) = Those(et, Kids(t, i))
    BY <1>5, ConcatEmptySeq
  <2> QED
    BY <1>2, <2>2, <2>4, <2>5
<1>9. ASSUME NEW d
      PROVE  Tops(st, d) = Tops(s, d) \o Tops(t, d)
  <2> DEFINE T == {j \in DOMAIN st : st[j].depth = d}
             TS == {j \in DOMAIN s : s[j].depth = d}
             TT == {j \in DOMAIN t : t[j].depth = d}
  <2>1. DOMAIN s = 1..m /\ DOMAIN t = 1..n /\ DOMAIN st = 1..(m + n)
    BY <1>1 DEF m, n
  <2>2. \A k \in 1..n : m + k \in T <=> k \in TT
    BY <1>1, <2>1
  <2>3. \A k \in 1..m : k \in T <=> k \in TS
    BY <1>1, <2>1
  <2> HIDE DEF T, TS, TT
  <2>4. Those(es \o et, T) = Those(es, T) \o Those(et, TT)
    BY <1>6, <2>2
  <2>5. Those(es, T) = Those(es, TS)
    BY <1>2, <2>3, ThoseAgree
  <2> QED
    BY <1>2, <2>4, <2>5 DEF Tops, T, TS, TT, es, et
<1> QED
  BY <1>7, <1>8, <1>9 DEF m, n, st, es, et

(* What is listed of an entry when a manifest lists it.                     *)
Wanted(w, mode, P, node, above) ==
  IF \/ node.kind = "Directory"
     \/ /\ node.kind = "DirectoryLink" /\ mode = "MaterializingTransfer"
        /\ ~ (w.identity /\ Opens(w, node.entry) \in above)
  THEN Listing(w, P, Opens(w, node.entry)) ELSE <<>>
KidEntries(tree, i) == Those(EntriesOf(tree), Kids(tree, i))

(* Nodes of depth d and what lies below them, each with what it should list, *)
(* given the directories on the way down to them. (Where the limit of depth  *)
(* is exceeded nothing is listed, and there will be no manifest.)            *)
Forest(w, mode, P, branch, d) ==
  {s \in Seq(SourceNode) :
     /\ s # <<>> => s[1].depth = d
     /\ \A i \in 1..Len(s) :
          /\ s[i].depth >= d
          /\ i < Len(s) => s[i + 1].depth <= s[i].depth + 1
          /\ s[i].depth <= maximumDepth =>
               KidEntries(s, i) = Wanted(w, mode, P, s[i], branch \cup Above(w, s, i))}

(* What reaches into the second of two sequences joined, from the first.    *)
Reaching(w, s, t, i) ==
  {Opens(w, s[k].entry) : k \in {x \in 1..Len(s) : Len(s) + i \in Subtree(s \o t, x)}}

(* Above a node of two sequences joined is what was above it and, for one   *)
(* of the second, what reaches it from the first.                           *)
LEMMA AboveInJoined ==
  ASSUME NEW s \in Seq(SourceNode), NEW t \in Seq(SourceNode), NEW w
  PROVE  /\ \A i \in 1..Len(s) : Above(w, s \o t, i) = Above(w, s, i)
         /\ \A i \in 1..Len(t) :
              Above(w, s \o t, Len(s) + i) = Reaching(w, s, t, i) \cup Above(w, t, i)
<1> DEFINE m == Len(s)
           n == Len(t)
           st == s \o t
<1>1. /\ m \in Nat /\ n \in Nat /\ st \in Seq(SourceNode) /\ Len(st) = m + n
      /\ \A i \in 1..m : st[i] = s[i]
      /\ \A i \in 1..n : st[m + i] = t[i]
  OBVIOUS
<1>2. /\ \A i, j \in 1..m : j \in Subtree(st, i) <=> j \in Subtree(s, i)
      /\ \A i, j \in 1..n : m + j \in Subtree(st, m + i) <=> j \in Subtree(t, i)
  BY JoinedTrees
<1> HIDE DEF m, n, st
<1>3. ASSUME NEW i \in 1..m
      PROVE  Above(w, st, i) = Above(w, s, i)
  <2>1. Ancestors(st, i) = Ancestors(s, i) /\ Ancestors(s, i) \subseteq 1..m
    BY <1>1, <1>2 DEF Ancestors
  <2> QED
    BY <1>1, <2>1 DEF Above
<1>4. ASSUME NEW i \in 1..n
      PROVE  Above(w, st, m + i) =
               {Opens(w, s[k].entry) : k \in {x \in 1..m : m + i \in Subtree(st, x)}} \cup Above(w, t, i)
  <2> DEFINE over == {x \in 1..m : m + i \in Subtree(st, x)}
  <2>1. \A x \in 1..m : x \in Ancestors(st, m + i) <=> x \in over
    BY <1>1 DEF Ancestors
  <2>2. \A k \in 1..n : m + k \in Ancestors(st, m + i) <=> k \in Ancestors(t, i)
    BY <1>1, <1>2 DEF Ancestors
  <2>3. Ancestors(t, i) \subseteq 1..n /\ Ancestors(st, m + i) \subseteq 1..(m + n)
    BY <1>1 DEF Ancestors
  <2>4. ASSUME NEW x \in Ancestors(st, m + i)
        PROVE  Opens(w, st[x].entry) \in {Opens(w, s[k].entry) : k \in over} \cup Above(w, t, i)
    <3>1. CASE x \in 1..m
      BY <1>1, <2>1, <3>1
    <3>2. CASE x \notin 1..m
      <4>1. x - m \in 1..n /\ m + (x - m) = x
        BY <1>1, <2>3, <3>2
      <4>2. x - m \in Ancestors(t, i) /\ st[x] = t[x - m]
        BY <1>1, <2>2, <4>1
      <4> QED
        BY <4>2 DEF Above
    <3> QED
      BY <3>1, <3>2
  <2>5. ASSUME NEW k \in over
        PROVE  Opens(w, s[k].entry) \in Above(w, st, m + i)
    BY <1>1, <2>1 DEF Above
  <2>6. ASSUME NEW k \in Ancestors(t, i)
        PROVE  Opens(w, t[k].entry) \in Above(w, st, m + i)
    <3>1. m + k \in Ancestors(st, m + i) /\ st[m + k] = t[k]
      BY <1>1, <2>2, <2>3
    <3> QED
      BY <3>1 DEF Above
  <2>7. Above(w, st, m + i) \subseteq {Opens(w, s[k].entry) : k \in over} \cup Above(w, t, i)
    BY <2>4 DEF Above
  <2>8. {Opens(w, s[k].entry) : k \in over} \cup Above(w, t, i) \subseteq Above(w, st, m + i)
    <3>1. Above(w, t, i) = {Opens(w, t[k].entry) : k \in Ancestors(t, i)}
      BY DEF Above
    <3> HIDE DEF over
    <3> QED
      BY <2>5, <2>6, <3>1
  <2> QED
    BY <2>7, <2>8
<1> QED
  BY <1>3, <1>4 DEF m, n, st, Reaching

LEMMA AboveInSecond ==
  ASSUME NEW s \in Seq(SourceNode), NEW t \in Seq(SourceNode), NEW w, NEW i \in 1..Len(t)
  PROVE  Above(w, s \o t, Len(s) + i) = Reaching(w, s, t, i) \cup Above(w, t, i)
BY AboveInJoined, SMTT(30)

LEMMA NoForest ==
  ASSUME NEW w, NEW mode, NEW P, NEW branch, NEW d
  PROVE  <<>> \in Forest(w, mode, P, branch, d)
BY DEF Forest

(* Two forests joined are one.                                              *)
LEMMA ForestsJoin ==
  ASSUME NEW w, NEW mode, NEW P, NEW branch, NEW d \in Nat,
         NEW s \in Forest(w, mode, P, branch, d), NEW t \in Forest(w, mode, P, branch, d)
  PROVE  s \o t \in Forest(w, mode, P, branch, d)
<1> DEFINE m == Len(s)
           n == Len(t)
           st == s \o t
<1>0. s \in Seq(SourceNode) /\ t \in Seq(SourceNode)
  BY DEF Forest
<1>1. /\ m \in Nat /\ n \in Nat /\ st \in Seq(SourceNode) /\ Len(st) = m + n
      /\ \A i \in 1..m : st[i] = s[i]
      /\ \A i \in 1..n : st[m + i] = t[i]
      /\ (t # <<>> <=> n # 0) /\ (s # <<>> <=> m # 0)
  BY <1>0
<1>2. /\ \A i \in 1..m : s[i].depth \in Nat /\ s[i].depth >= d
      /\ \A i \in 1..n : t[i].depth \in Nat /\ t[i].depth >= d
      /\ m # 0 => s[1].depth = d
      /\ n # 0 => t[1].depth = d
  BY <1>0, <1>1, NodeFacts DEF Forest
<1>3. /\ \A i \in 1..m : t = <<>> \/ t[1].depth <= s[i].depth => KidEntries(st, i) = KidEntries(s, i)
      /\ \A i \in 1..n : KidEntries(st, m + i) = KidEntries(t, i)
  BY <1>0, FamiliesOfJoined DEF KidEntries
<1>4. /\ \A i \in 1..m : Above(w, st, i) = Above(w, s, i)
      /\ \A i \in 1..n : Above(w, st, m + i) = Reaching(w, s, t, i) \cup Above(w, t, i)
  BY <1>0, AboveInJoined
<1>5. \A i \in 1..m, j \in 1..n : m + j \in Subtree(st, i) => t[1].depth > s[i].depth
  BY <1>0, JoinedTrees
<1>6. /\ \A i \in 1..m : /\ i < m => s[i + 1].depth <= s[i].depth + 1
                         /\ s[i].depth <= maximumDepth =>
                              KidEntries(s, i) = Wanted(w, mode, P, s[i], branch \cup Above(w, s, i))
      /\ \A i \in 1..n : /\ i < n => t[i + 1].depth <= t[i].depth + 1
                         /\ t[i].depth <= maximumDepth =>
                              KidEntries(t, i) = Wanted(w, mode, P, t[i], branch \cup Above(w, t, i))
  BY DEF Forest
<1> HIDE DEF m, n, st
<1>7. ASSUME NEW i \in 1..m
      PROVE  /\ st[i].depth >= d
             /\ i < m + n => st[i + 1].depth <= st[i].depth + 1
             /\ st[i].depth <= maximumDepth =>
                  KidEntries(st, i) = Wanted(w, mode, P, st[i], branch \cup Above(w, st, i))
  <2>1. st[i] = s[i] /\ st[i].depth >= d /\ s[i].depth \in Nat
    BY <1>1, <1>2
  <2>2. ASSUME i < m + n
        PROVE  st[i + 1].depth <= st[i].depth + 1
    <3>1. CASE i < m
      <4>1. i + 1 \in 1..m
        BY <1>1, <3>1
      <4>2. st[i + 1] = s[i + 1]
        BY <1>1, <4>1
      <4> QED
        BY <1>6, <2>1, <3>1, <4>2
    <3>2. CASE ~ (i < m)
      <4>1. i = m /\ n # 0 /\ 1 \in 1..n /\ st[m + 1] = t[1]
        BY <1>1, <2>2, <3>2
      <4> QED
        BY <1>2, <2>1, <4>1
    <3> QED
      BY <3>1, <3>2
  <2>3. t = <<>> \/ t[1].depth <= s[i].depth
    BY <1>1, <1>2
  <2>4. KidEntries(st, i) = KidEntries(s, i) /\ Above(w, st, i) = Above(w, s, i)
    BY <1>3, <1>4, <2>3
  <2> QED
    BY <1>6, <2>1, <2>2, <2>4
<1>8. ASSUME NEW i \in 1..n
      PROVE  /\ st[m + i].depth >= d
             /\ m + i < m + n => st[m + i + 1].depth <= st[m + i].depth + 1
             /\ st[m + i].depth <= maximumDepth =>
                  KidEntries(st, m + i) = Wanted(w, mode, P, st[m + i], branch \cup Above(w, st, m + i))
  <2>1. st[m + i] = t[i] /\ st[m + i].depth >= d
    BY <1>1, <1>2
  <2>2. ASSUME m + i < m + n
        PROVE  st[m + i + 1].depth <= st[m + i].depth + 1
    <3>1. i < n /\ i + 1 \in 1..n /\ m + (i + 1) = m + i + 1
      BY <1>1, <2>2
    <3>2. st[m + i + 1] = t[i + 1]
      BY <1>1, <3>1
    <3> QED
      BY <1>6, <2>1, <3>1, <3>2
  <2>3. Reaching(w, s, t, i) = {}
    <3>1. ASSUME NEW x \in 1..m, m + i \in Subtree(st, x)
          PROVE  FALSE
      <4>1. t[1].depth > s[x].depth /\ n # 0 /\ 1 \in 1..n
        BY <1>1, <1>5, <3>1
      <4> QED
        BY <1>2, <4>1
    <3> QED
      BY <3>1 DEF Reaching, m, st
  <2>4. Above(w, st, m + i) = Above(w, t, i)
    BY <1>4, <2>3
  <2> QED
    BY <1>3, <1>6, <2>1, <2>2, <2>4
<1>9. ASSUME NEW i \in 1..(m + n)
      PROVE  /\ st[i].depth >= d
             /\ i < m + n => st[i + 1].depth <= st[i].depth + 1
             /\ st[i].depth <= maximumDepth =>
                  KidEntries(st, i) = Wanted(w, mode, P, st[i], branch \cup Above(w, st, i))
  <2>1. CASE i \in 1..m
    BY <1>7, <2>1
  <2>2. CASE i \notin 1..m
    <3>1. i - m \in 1..n /\ m + (i - m) = i
      BY <1>1, <2>2
    <3> DEFINE j == i - m
    <3>2. j \in 1..n /\ m + j = i
      BY <3>1
    <3> HIDE DEF j
    <3> QED
      BY <1>8, <3>2
  <2> QED
    BY <2>1, <2>2
<1>10. st # <<>> => st[1].depth = d
  <2>1. CASE m # 0
    <3>1. 1 \in 1..m
      BY <1>1, <2>1
    <3> QED
      BY <1>1, <1>2, <2>1, <3>1
  <2>2. CASE m = 0 /\ n # 0
    <3>1. 1 \in 1..n /\ m + 1 = 1
      BY <1>1, <2>2
    <3> QED
      BY <1>1, <1>2, <2>2, <3>1
  <2>3. CASE m = 0 /\ n = 0
    <3>1. Len(st) = 0
      BY <1>1, <2>3
    <3> QED
      BY <1>1, <3>1
  <2> QED
    BY <2>1, <2>2, <2>3
<1> QED
  BY <1>1, <1>9, <1>10 DEF Forest, st

(* What an entry that is there leads to, and it alone is on top.            *)
IsListed(w, mode, P, s, e, branch, d) ==
  s \in Forest(w, mode, P, branch, d) /\ Tops(s, d) = <<e>>

(* A node over what is listed of it.                                        *)
LEMMA NodeOverForest ==
  ASSUME NEW w \in World, NEW mode, NEW P, NEW branch, NEW node \in SourceNode,
         NEW rest \in Forest(w, mode, P, branch \cup {Opens(w, node.entry)}, node.depth + 1),
         node.depth <= maximumDepth =>
           Tops(rest, node.depth + 1) = Wanted(w, mode, P, node, branch)
  PROVE  IsListed(w, mode, P, <<node>> \o rest, node.entry, branch, node.depth)
<1> DEFINE d == node.depth
           one == <<node>>
           n == Len(rest)
           tree == one \o rest
           es == EntriesOf(one)
           er == EntriesOf(rest)
<1>1. /\ d \in Nat \ {0} /\ node.entry \in Entries
      /\ rest \in Seq(SourceNode) /\ n \in Nat /\ DOMAIN rest = 1..n
      /\ one \in Seq(SourceNode) /\ Len(one) = 1 /\ one[1] = node
  BY DEF SourceNode, Forest
<1>2. /\ tree \in Seq(SourceNode) /\ Len(tree) = 1 + n /\ tree[1] = node
      /\ \A i \in 1..n : tree[1 + i] = rest[i]
      /\ DOMAIN tree = 1..(1 + n)
  BY <1>1
<1>3. /\ \A i \in 1..n : /\ rest[i].depth \in Nat /\ rest[i].depth >= d + 1
                         /\ i < n => rest[i + 1].depth <= rest[i].depth + 1
                         /\ rest[i].depth <= maximumDepth =>
                              KidEntries(rest, i)
                                = Wanted(w, mode, P, rest[i],
                                         (branch \cup {Opens(w, node.entry)}) \cup Above(w, rest, i))
      /\ n # 0 => rest[1].depth = d + 1
  <2>1. \A i \in 1..n : rest[i].depth \in Nat
    BY <1>1, NodeFacts
  <2>2. n # 0 => rest # <<>>
    BY <1>1
  <2> QED
    BY <2>1, <2>2 DEF Forest
<1>4. /\ EntriesOf(tree) = es \o er /\ es = <<node.entry>>
      /\ es \in Seq(Entries) /\ er \in Seq(Entries) /\ Len(es) = 1 /\ Len(er) = n
  <2>1. EntriesOf(tree) = es \o er
    <3> HIDE DEF one
    <3> QED
      BY <1>1, EntriesOfJoined
  <2>2. es \in Seq(Entries) /\ er \in Seq(Entries) /\ Len(es) = 1 /\ Len(er) = n /\ es[1] = node.entry
    <3>1. 1 \in 1..Len(one)
      BY <1>1
    <3> HIDE DEF one
    <3> QED
      BY <1>1, <3>1, NodeFacts
  <2>3. es = <<node.entry>>
    <3> HIDE DEF es
    <3> QED
      BY <2>2
  <2> QED
    BY <2>1, <2>2, <2>3
<1> HIDE DEF d, one, n, es, er, tree
<1>5. \A S : Those(er, S) \in Seq(Entries) /\ <<>> \o Those(er, S) = Those(er, S)
  <2>1. \A S : Those(er, S) \in Seq(Entries)
    BY <1>4, ThoseAreASequence
  <2> QED
    BY <2>1, ConcatEmptySeq
<1>6. ASSUME NEW S, NEW T, \A k \in 1..n : 1 + k \in S <=> k \in T
      PROVE  Those(es \o er, S) = Those(es, S) \o Those(er, T)
  <2>1. \A k \in 1..Len(er) : Len(es) + k \in S <=> k \in T
    BY <1>4, <1>6
  <2>2. es \in Seq(Entries) /\ er \in Seq(Entries)
    BY <1>4
  <2> QED
    BY <2>1, <2>2, ThoseOfJoined
<1>7. \A j \in 1..n : 1 + j \in Subtree(tree, 1)
  <2>1. \A k \in 2..(1 + n) : k - 1 \in 1..n /\ tree[k].depth > tree[1].depth
    <3> SUFFICES ASSUME NEW k \in 2..(1 + n)
                 PROVE  k - 1 \in 1..n /\ tree[k].depth > tree[1].depth
      OBVIOUS
    <3>1. k - 1 \in 1..n /\ 1 + (k - 1) = k
      BY <1>1
    <3>2. tree[k] = rest[k - 1]
      BY <1>2, <3>1
    <3>3. rest[k - 1].depth \in Nat /\ rest[k - 1].depth >= d + 1
      BY <1>3, <3>1
    <3>4. tree[1].depth = d /\ d \in Nat
      BY <1>1, <1>2 DEF d
    <3>5. tree[k].depth > tree[1].depth
      BY <3>2, <3>3, <3>4
    <3> QED
      BY <3>1, <3>5
  <2> QED
    BY <1>1, <1>2, <2>1 DEF Subtree
<1>8. KidEntries(tree, 1) = Tops(rest, d + 1)
  <2> DEFINE S == Kids(tree, 1)
             T == {j \in DOMAIN rest : rest[j].depth = d + 1}
  <2>1. \A k \in 1..n : 1 + k \in S <=> k \in T
    BY <1>1, <1>2, <1>7 DEF Kids, d
  <2>2. 1 \notin S
    BY <1>1, <1>2 DEF Kids, d
  <2> HIDE DEF S, T
  <2>3. Those(es \o er, S) = Those(es, S) \o Those(er, T)
    BY <1>6, <2>1
  <2>4. Those(es, S) = <<>>
    <3>1. es \in Seq(Entries) /\ \A k \in 1..Len(es) : k \notin S
      BY <1>4, <2>2
    <3> QED
      BY <3>1, NoneOfThose
  <2> QED
    BY <1>4, <1>5, <2>3, <2>4 DEF KidEntries, Tops, S, T, er
<1>9. Tops(tree, d) = <<node.entry>>
  <2> DEFINE S == {j \in DOMAIN tree : tree[j].depth = d}
  <2>1. \A k \in 1..n : 1 + k \in S <=> k \in {}
    <3> SUFFICES ASSUME NEW k \in 1..n, 1 + k \in S
                 PROVE  FALSE
      OBVIOUS
    <3>1. tree[1 + k] = rest[k] /\ rest[k].depth \in Nat /\ rest[k].depth >= d + 1
      BY <1>2, <1>3
    <3>2. tree[1 + k].depth = d
      OBVIOUS
    <3> QED
      BY <1>1, <3>1, <3>2
  <2>2. 1 \in S
    BY <1>1, <1>2 DEF d
  <2> HIDE DEF S
  <2>3. Those(es \o er, S) = Those(es, S) \o Those(er, {})
    BY <1>6, <2>1
  <2>4. Those(er, {}) = <<>>
    <3>1. er \in Seq(Entries) /\ \A k \in 1..Len(er) : k \notin {}
      BY <1>4
    <3> QED
      BY <3>1, NoneOfThose
  <2>5. Those(es, S) = <<node.entry>>
    BY <1>1, <1>4, <2>2, ThatOne
  <2>6. <<node.entry>> \o <<>> = <<node.entry>>
    OBVIOUS
  <2>7. Tops(tree, d) = Those(es \o er, S)
    BY <1>4 DEF Tops, S
  <2> QED
    BY <2>3, <2>4, <2>5, <2>6, <2>7, Zenon
<1>10. /\ \A i \in 1..n : KidEntries(tree, 1 + i) = KidEntries(rest, i)
       /\ \A i \in 1..n : Above(w, tree, 1 + i) = {Opens(w, node.entry)} \cup Above(w, rest, i)
  <2>1. \A i \in 1..n : KidEntries(tree, 1 + i) = KidEntries(rest, i)
    <3> SUFFICES ASSUME NEW i \in 1..n
                 PROVE  KidEntries(tree, 1 + i) = KidEntries(rest, i)
      OBVIOUS
    <3> DEFINE place == Len(one) + i
    <3>1. place = 1 + i /\ i \in 1..Len(rest)
      BY <1>1 DEF n
    <3>2. KidEntries(one \o rest, place) = KidEntries(rest, i)
      BY <1>1, <3>1, FamiliesOfJoined DEF KidEntries
    <3> HIDE DEF place
    <3> QED
      BY <3>1, <3>2 DEF tree
  <2>2. ASSUME NEW i \in 1..n
        PROVE  Above(w, tree, 1 + i) = {Opens(w, node.entry)} \cup Above(w, rest, i)
    <3>1. Above(w, tree, 1 + i) = Reaching(w, one, rest, i) \cup Above(w, rest, i)
      <4>1. one \in Seq(SourceNode) /\ rest \in Seq(SourceNode) /\ i \in 1..Len(rest)
        BY <1>1 DEF n
      <4> DEFINE place == Len(one) + i
      <4>3. Above(w, one \o rest, place) = Reaching(w, one, rest, i) \cup Above(w, rest, i)
        BY <4>1, AboveInSecond
      <4>4. place = 1 + i
        BY <1>1
      <4> HIDE DEF place
      <4>5. Above(w, one \o rest, 1 + i) = Reaching(w, one, rest, i) \cup Above(w, rest, i)
        BY <4>3, <4>4, Zenon
      <4> QED
        BY <4>5, Zenon DEF tree
    <3>2. {x \in 1..Len(one) : Len(one) + i \in Subtree(one \o rest, x)} = {1}
      BY <1>1, <1>7 DEF tree
    <3>3. Reaching(w, one, rest, i) = {Opens(w, node.entry)}
      BY <1>1, <3>2 DEF Reaching
    <3> QED
      BY <3>1, <3>3
  <2> QED
    BY <2>1, <2>2
<1>11. Above(w, tree, 1) = {}
  BY DEF Above, Ancestors
<1>12. ASSUME NEW i \in 1..(1 + n)
       PROVE  /\ tree[i].depth >= d
              /\ i < 1 + n => tree[i + 1].depth <= tree[i].depth + 1
              /\ tree[i].depth <= maximumDepth =>
                   KidEntries(tree, i) = Wanted(w, mode, P, tree[i], branch \cup Above(w, tree, i))
  <2>1. CASE i = 1
    <3>1. n # 0 => 1 \in 1..n /\ tree[1 + 1] = rest[1]
      BY <1>1, <1>2
    <3>2. /\ tree[i].depth >= d
          /\ i < 1 + n => tree[i + 1].depth <= tree[i].depth + 1
      BY <1>1, <1>2, <1>3, <2>1, <3>1 DEF d
    <3>3. branch \cup {} = branch
      OBVIOUS
    <3> QED
      BY <1>2, <1>8, <1>11, <2>1, <3>2, <3>3 DEF d
  <2>2. CASE i # 1
    <3> DEFINE j == i - 1
    <3>1. j \in 1..n /\ 1 + j = i
      BY <1>1, <2>2
    <3> HIDE DEF j
    <3>2. tree[i] = rest[j]
      BY <1>2, <3>1
    <3>3. ASSUME i < 1 + n
          PROVE  tree[i + 1].depth <= tree[i].depth + 1
      <4>1. j < n /\ j + 1 \in 1..n /\ 1 + (j + 1) = i + 1
        BY <1>1, <3>1, <3>3
      <4>2. tree[i + 1] = rest[j + 1]
        BY <1>2, <4>1
      <4> QED
        <5>1. rest[j + 1].depth <= rest[j].depth + 1
          BY <1>3, <3>1, <4>1
        <5> QED
          BY <3>2, <4>2, <5>1
    <3>4. tree[i].depth >= d
      <4>1. rest[j].depth \in Nat /\ rest[j].depth >= d + 1
        BY <1>3, <3>1
      <4> QED
        BY <1>1, <3>2, <4>1
    <3>5. KidEntries(tree, i) = KidEntries(rest, j)
          /\ branch \cup Above(w, tree, i) = (branch \cup {Opens(w, node.entry)}) \cup Above(w, rest, j)
      BY <1>10, <3>1
    <3> QED
      BY <1>3, <3>1, <3>2, <3>3, <3>4, <3>5
  <2> QED
    BY <2>1, <2>2
<1>13. tree \in Forest(w, mode, P, branch, d)
  BY <1>2, <1>12 DEF Forest, d
<1> QED
  BY <1>9, <1>13 DEF IsListed, tree, d, one

(* The children of a visit, one after the other, are what its directory     *)
(* lists of the entries that are there.                                     *)
LEMMA ChildrenAreListed ==
  ASSUME NEW w \in World, NEW mode, NEW P, NEW below, NEW v \in Visit, NEW branch, NEW d \in Nat,
         \A e \in ToSet(w.listing[Opens(w, v.entry)]) \cap P :
           /\ below[VisitBelow(w, v, e)] \in Forest(w, mode, P, branch, d)
           /\ Tops(below[VisitBelow(w, v, e)], d) = <<e>>
  PROVE  /\ FlattenSeq(ChildSeqs(w, P, below, v)) \in Forest(w, mode, P, branch, d)
         /\ Tops(FlattenSeq(ChildSeqs(w, P, below, v)), d) = Listing(w, P, Opens(w, v.entry))
<1> DEFINE listed == w.listing[Opens(w, v.entry)]
           N == Len(listed)
           seqs == ChildSeqs(w, P, below, v)
           G == Forest(w, mode, P, branch, d)
           there == {k \in DOMAIN listed : listed[k] \in P}
<1>1. listed \in Seq(Entries) /\ N \in Nat /\ DOMAIN listed = 1..N
      /\ \A i \in 1..N : listed[i] \in ToSet(listed) /\ listed[i] \in Entries
  <2>1. listed \in Seq(Entries)
    BY WorldFacts DEF Visit
  <2> HIDE DEF listed
  <2> QED
    BY <2>1 DEF ToSet
<1>2. seqs = [i \in 1..N |-> IF listed[i] \in P THEN below[VisitBelow(w, v, listed[i])] ELSE <<>>]
  BY DEF ChildSeqs
<1>3. <<>> \in G /\ G \subseteq Seq(SourceNode) /\ \A s, t \in G : s \o t \in G
  <2>1. <<>> \in G
    BY NoForest
  <2>2. \A s, t \in G : s \o t \in G
    BY ForestsJoin
  <2>3. G \subseteq Seq(SourceNode)
    BY DEF Forest
  <2> QED
    BY <2>1, <2>2, <2>3
<1>4. \A i \in 1..N : IF listed[i] \in P
        THEN seqs[i] \in G /\ Tops(seqs[i], d) = <<listed[i]>> ELSE seqs[i] = <<>>
  <2>1. \A i \in 1..N : seqs[i] = IF listed[i] \in P THEN below[VisitBelow(w, v, listed[i])] ELSE <<>>
    <3> HIDE DEF seqs, N
    <3> QED
      BY <1>2
  <2>2. \A i \in 1..N : listed[i] \in P => listed[i] \in ToSet(w.listing[Opens(w, v.entry)]) \cap P
    BY <1>1
  <2> HIDE DEF seqs, N, listed
  <2> QED
    BY <2>1, <2>2
<1>5. Listing(w, P, Opens(w, v.entry)) = Those(listed, there)
  BY DEF Listing
<1> HIDE DEF listed, N, seqs, G, there
<1>6. Len(seqs) = N /\ seqs = [i \in 1..Len(seqs) |-> seqs[i]] /\ \A i \in 1..Len(seqs) : seqs[i] \in G
  <2>1. \A i \in 1..N : seqs[i] \in G
    BY <1>3, <1>4
  <2>2. Len(seqs) = N /\ seqs = [i \in 1..N |-> seqs[i]]
    <3> DEFINE member(i) == IF listed[i] \in P THEN below[VisitBelow(w, v, listed[i])] ELSE <<>>
    <3>1. seqs = [i \in 1..N |-> member(i)]
      BY <1>2
    <3> HIDE DEF member
    <3> QED
      BY <1>1, <3>1
  <2> QED
    BY <2>1, <2>2
<1>7. PICK f \in [0..N -> G] : Joins(f, seqs, N)
  BY <1>1, <1>3, <1>6, FlattenIsStepwise
<1>8. PICK g \in [0..N -> Seq(Entries)] : Gathers(g, listed, N, there)
  BY <1>1, ThoseAreStepwise DEF N
<1> DEFINE S == {n \in 0..N : Tops(f[n], d) = g[n]}
<1>9. 0 \in S
  <2>1. <<>> \in Seq(SourceNode) /\ EntriesOf(<<>>) \in Seq(Entries) /\ Len(EntriesOf(<<>>)) = 0
    <3>1. <<>> \in Seq(SourceNode) /\ Len(<<>>) = 0
      OBVIOUS
    <3> QED
      BY <3>1, NodeFacts
  <2>2. \A T : \A k \in 1..Len(EntriesOf(<<>>)) : k \notin T
    BY <2>1
  <2>3. Tops(<<>>, d) = <<>>
    BY <2>1, <2>2, NoneOfThose DEF Tops
  <2> QED
    BY <1>1, <1>7, <1>8, <2>3 DEF Joins, Gathers
<1>10. ASSUME NEW n \in 1..N, n - 1 \in S
       PROVE  n \in S
  <2>1. n \in 0..N /\ n - 1 \in 0..N
    BY <1>1
  <2>2. f[n] = f[n - 1] \o seqs[n] /\ f[n - 1] \in G
    BY <1>7, <2>1 DEF Joins
  <2>3. g[n] = (IF n \in there THEN Append(g[n - 1], listed[n]) ELSE g[n - 1]) /\ g[n - 1] \in Seq(Entries)
    BY <1>8, <2>1 DEF Gathers
  <2>4. Tops(f[n - 1], d) = g[n - 1]
    BY <1>10
  <2>5. n \in there <=> listed[n] \in P
    BY <1>1 DEF there
  <2>6. CASE listed[n] \in P
    <3>1. seqs[n] \in Seq(SourceNode) /\ f[n - 1] \in Seq(SourceNode) /\ Tops(seqs[n], d) = <<listed[n]>>
      BY <1>3, <1>4, <2>2, <2>6
    <3>2. Tops(f[n], d) = g[n - 1] \o <<listed[n]>>
      <4>1. Tops(f[n - 1] \o seqs[n], d) = Tops(f[n - 1], d) \o Tops(seqs[n], d)
        BY <3>1, FamiliesOfJoined
      <4> QED
        BY <2>2, <2>4, <3>1, <4>1
    <3>3. Append(g[n - 1], listed[n]) = g[n - 1] \o <<listed[n]>>
      BY <1>1, <2>3, AppendIsConcat
    <3> QED
      BY <2>1, <2>3, <2>5, <2>6, <3>2, <3>3
  <2>7. CASE listed[n] \notin P
    <3>1. f[n - 1] \in Seq(SourceNode) /\ seqs[n] = <<>>
      BY <1>3, <1>4, <2>2, <2>7
    <3>2. f[n] = f[n - 1]
      BY <2>2, <3>1, ConcatEmptySeq
    <3> QED
      BY <2>1, <2>3, <2>4, <2>5, <2>7, <3>2
  <2> QED
    BY <2>6, <2>7
<1> HIDE DEF S
<1>11. 0..N \subseteq S
  BY <1>1, <1>9, <1>10, UpTo
<1>12. N \in 0..N
  BY <1>1
<1>13. FlattenSeq(seqs) \in G /\ Tops(FlattenSeq(seqs), d) = Those(listed, there)
  BY <1>7, <1>8, <1>11, <1>12 DEF Joins, Gathers, S
<1> QED
  BY <1>5, <1>13 DEF seqs, G

LEMMA NothingOnTop ==
  ASSUME NEW d
  PROVE  Tops(<<>>, d) = <<>>
<1>1. <<>> \in Seq(SourceNode) /\ Len(<<>>) = 0
  OBVIOUS
<1>2. EntriesOf(<<>>) \in Seq(Entries) /\ Len(EntriesOf(<<>>)) = 0
  BY <1>1, NodeFacts
<1>3. \A T : \A k \in 1..Len(EntriesOf(<<>>)) : k \notin T
  BY <1>2
<1> QED
  BY <1>2, <1>3, NoneOfThose DEF Tops

(* A directory's visit is opened where its listing is wanted.               *)
LEMMA OpenedAsWanted ==
  ASSUME NEW w \in World, NEW mode, NEW P, NEW levels, levels > 0, NEW v \in Visit, v.entry \in P,
         NEW node, node.entry = v.entry, node.kind = ReportedKind(w, P, v.entry)
  PROVE  Wanted(w, mode, P, node, v.branch)
           = IF Opened(w, mode, P, levels, v) THEN Listing(w, P, Opens(w, v.entry)) ELSE <<>>
<1> DEFINE e == v.entry
           loops == w.identity /\ Opens(w, e) \in v.branch
<1>1. Wanted(w, mode, P, node, v.branch) =
        IF \/ node.kind = "Directory"
           \/ node.kind = "DirectoryLink" /\ mode = "MaterializingTransfer" /\ ~ loops
        THEN Listing(w, P, Opens(w, e)) ELSE <<>>
  BY DEF Wanted
<1>2. Opened(w, mode, P, levels, v) <=> descends(w, mode, e, v.branch) /\ Opens(w, e) \in P
  BY DEF Opened
<1>3. CASE w.kind[e] = "Directory"
  <2>1. Opens(w, e) \in P /\ node.kind = "Directory" /\ descends(w, mode, e, v.branch)
    BY <1>3 DEF Opens, ReportedKind, descends
  <2> HIDE DEF loops
  <2> QED
    BY <1>1, <1>2, <2>1
<1>4. CASE w.kind[e] = "DirectoryLink"
  <2>1. Opens(w, e) = w.target[e]
    BY <1>4 DEF Opens
  <2>2. node.kind = IF Opens(w, e) \in P THEN "DirectoryLink" ELSE "File"
    BY <1>4, <2>1 DEF ReportedKind
  <2>3. descends(w, mode, e, v.branch)
          <=> mode = "MaterializingTransfer" /\ (w.identity => w.target[e] \notin v.branch)
    BY <1>4 DEF descends
  <2>4. (w.identity => w.target[e] \notin v.branch) <=> ~ loops
    <3>1. w.identity \in BOOLEAN
      BY DEF World
    <3> QED
      BY <2>1, <3>1
  <2> HIDE DEF loops
  <2> QED
    BY <1>1, <1>2, <2>2, <2>3, <2>4
<1>5. CASE w.kind[e] \notin {"Directory", "DirectoryLink"}
  <2>1. node.kind = w.kind[e] /\ ~ descends(w, mode, e, v.branch)
    BY <1>5 DEF ReportedKind, descends
  <2> HIDE DEF loops
  <2> QED
    BY <1>1, <1>2, <1>5, <2>1
<1> QED
  BY <1>3, <1>4, <1>5

(* What a visit leads to is a forest if what its children lead to are.      *)
LEMMA NodesAreListed ==
  ASSUME NEW w \in World, NEW mode, NEW P, NEW levels \in 0..maximumDepth, NEW below,
         levels > 0 =>
           \A u \in Visit : u.entry \in P =>
             IsListed(w, mode, P, below[u], u.entry, u.branch, maximumDepth + 2 - levels),
         NEW v \in Visit, v.entry \in P
  PROVE  IsListed(w, mode, P, buildNode(w, mode, P, levels, below, v), v.entry, v.branch,
                  maximumDepth + 1 - levels)
<1> DEFINE d == maximumDepth + 1 - levels
           head == OwnNode(w, P, levels, v)
           branch == v.branch \cup {Opens(w, v.entry)}
           opened == Opened(w, mode, P, levels, v)
           rest == IF opened THEN FlattenSeq(ChildSeqs(w, P, below, v)) ELSE <<>>
<1>1. d \in Nat /\ d + 1 \in Nat /\ d + 1 = maximumDepth + 2 - levels /\ (d <= maximumDepth => levels > 0)
  BY LimitsAssumption
<1>2. /\ head \in SourceNode /\ head.entry = v.entry /\ head.depth = d
      /\ head.kind = ReportedKind(w, P, v.entry)
  BY HeadOfANode DEF OwnNode
<1>3. ASSUME opened
      PROVE  /\ rest \in Forest(w, mode, P, branch, d + 1)
             /\ Tops(rest, d + 1) = Listing(w, P, Opens(w, v.entry))
  <2>1. rest = FlattenSeq(ChildSeqs(w, P, below, v))
    BY <1>3
  <2>2. ASSUME NEW e \in ToSet(w.listing[Opens(w, v.entry)]) \cap P
        PROVE  /\ below[VisitBelow(w, v, e)] \in Forest(w, mode, P, branch, d + 1)
               /\ Tops(below[VisitBelow(w, v, e)], d + 1) = <<e>>
    <3>1. e \in Entries /\ VisitBelow(w, v, e) \in Visit
      BY WorldFacts, VisitsBelow DEF Visit, ToSet
    <3>2. VisitBelow(w, v, e).entry = e /\ VisitBelow(w, v, e).branch = branch
      BY DEF VisitBelow
    <3>3. levels > 0
      BY <1>3 DEF Opened
    <3> HIDE DEF branch, d
    <3>4. IsListed(w, mode, P, below[VisitBelow(w, v, e)], e, branch, d + 1)
      BY <1>1, <3>1, <3>2, <3>3
    <3> QED
      BY <3>4 DEF IsListed
  <2> HIDE DEF head, rest, branch, d
  <2>3. /\ rest \in Forest(w, mode, P, branch, d + 1)
        /\ Tops(rest, d + 1) = Listing(w, P, Opens(w, v.entry))
    BY <1>1, <2>1, <2>2, ChildrenAreListed
  <2> QED
    BY <1>3, <2>3
<1>4. ASSUME ~ opened
      PROVE  rest \in Forest(w, mode, P, branch, d + 1) /\ Tops(rest, d + 1) = <<>>
  <2>1. rest = <<>>
    BY <1>4
  <2> QED
    BY <1>4, <2>1, NoForest, NothingOnTop
<1>5. /\ rest \in Forest(w, mode, P, branch, d + 1)
      /\ d <= maximumDepth => Tops(rest, d + 1) = Wanted(w, mode, P, head, v.branch)
  <2> HIDE DEF head, d, rest, branch, opened
  <2>1. d <= maximumDepth => Wanted(w, mode, P, head, v.branch)
          = IF opened THEN Listing(w, P, Opens(w, v.entry)) ELSE <<>>
    BY <1>1, <1>2, OpenedAsWanted DEF opened
  <2> QED
    BY <1>3, <1>4, <2>1
<1>6. buildNode(w, mode, P, levels, below, v) = <<head>> \o rest
  BY BuildNodeIs
<1> HIDE DEF d, head, rest
<1>7. IsListed(w, mode, P, <<head>> \o rest, head.entry, v.branch, head.depth)
  <2>1. rest \in Forest(w, mode, P, v.branch \cup {Opens(w, head.entry)}, head.depth + 1)
    BY <1>2, <1>5
  <2>2. head.depth <= maximumDepth => Tops(rest, head.depth + 1) = Wanted(w, mode, P, head, v.branch)
    BY <1>2, <1>5
  <2> QED
    BY <1>2, <2>1, <2>2, NodeOverForest
<1> QED
  BY <1>2, <1>6, <1>7 DEF d

(* What lies right below a node has no other node between.                  *)
LEMMA ChildrenAreKids ==
  ASSUME NEW tree \in Seq(SourceNode), NEW i \in DOMAIN tree,
         \A k \in DOMAIN tree : k < Len(tree) => tree[k + 1].depth <= tree[k].depth + 1
  PROVE  ChildrenOf(tree, i) = KidEntries(tree, i)
<1> DEFINE children == {j \in Subtree(tree, i) \ {i} : \A k \in Ancestors(tree, j) : k <= i}
<1>1. /\ Len(tree) \in Nat /\ DOMAIN tree = 1..Len(tree) /\ i \in 1..Len(tree)
      /\ \A k \in 1..Len(tree) : tree[k].depth \in Nat
      /\ EntriesOf(tree) \in Seq(Entries)
  BY NodeFacts
<1>2. ASSUME NEW j \in Kids(tree, i)
      PROVE  j \in children
  <2>1. /\ j \in i..Len(tree) /\ j \in 1..Len(tree) /\ tree[j].depth = tree[i].depth + 1
        /\ \A k \in (i + 1)..j : tree[k].depth > tree[i].depth
    BY <1>1 DEF Kids, Subtree
  <2>2. j # i
    BY <1>1, <2>1
  <2>3. ASSUME NEW k \in Ancestors(tree, j), ~ (k <= i)
        PROVE  FALSE
    <3>1. k \in 1..(j - 1) /\ \A x \in (k + 1)..j : tree[x].depth > tree[k].depth
      BY <2>3 DEF Ancestors, Subtree
    <3>2. k \in (i + 1)..j /\ j \in (k + 1)..j /\ k \in 1..Len(tree)
      BY <1>1, <2>1, <2>3, <3>1
    <3>3. tree[k].depth > tree[i].depth /\ tree[j].depth > tree[k].depth
      BY <2>1, <3>1, <3>2
    <3>4. tree[k].depth \in Nat /\ tree[i].depth \in Nat /\ tree[j].depth \in Nat
      BY <1>1, <2>1, <3>2
    <3> QED
      BY <2>1, <3>3, <3>4
  <2> QED
    BY <2>2, <2>3 DEF Kids
<1>3. ASSUME NEW j \in children
      PROVE  j \in Kids(tree, i)
  <2>1. /\ j \in (i + 1)..Len(tree) /\ j \in 1..Len(tree)
        /\ \A k \in (i + 1)..j : tree[k].depth > tree[i].depth
        /\ \A k \in Ancestors(tree, j) : k <= i
    <3>1. j \in Subtree(tree, i) /\ j # i /\ \A k \in Ancestors(tree, j) : k <= i
      OBVIOUS
    <3>2. j \in i..Len(tree) /\ \A k \in (i + 1)..j : tree[k].depth > tree[i].depth
      BY <3>1 DEF Subtree
    <3>3. j \in (i + 1)..Len(tree) /\ j \in 1..Len(tree)
      BY <1>1, <3>1, <3>2
    <3> QED
      BY <3>1, <3>2, <3>3
  <2>2. tree[j].depth > tree[i].depth /\ tree[j].depth \in Nat /\ tree[i].depth \in Nat
    BY <1>1, <2>1
  <2>3. \A k \in (i + 1)..(j - 1) : tree[k].depth >= tree[j].depth
    <3> DEFINE T == {y \in Nat : j - y \in (i + 1)..(j - 1) /\ tree[j - y].depth < tree[j].depth}
    <3> SUFFICES ASSUME T # {}
                 PROVE  FALSE
      <4> SUFFICES ASSUME NEW k \in (i + 1)..(j - 1), ~ (tree[k].depth >= tree[j].depth)
                   PROVE  T # {}
        OBVIOUS
      <4>1. k \in 1..Len(tree) /\ tree[k].depth \in Nat
        BY <1>1, <2>1
      <4>2. j - k \in Nat /\ j - (j - k) = k
        BY <1>1, <2>1
      <4>3. tree[k].depth < tree[j].depth
        BY <2>2, <4>1
      <4>4. j - k \in T
        BY <4>2, <4>3
      <4> QED
        BY <4>4
    <3>1. PICK y \in T : \A z \in T : y <= z
      <4>1. T \subseteq Nat
        OBVIOUS
      <4> HIDE DEF T
      <4> QED
        BY <4>1, LeastElement
    <3> DEFINE k == j - y
    <3>2. k \in (i + 1)..(j - 1) /\ tree[k].depth < tree[j].depth /\ y \in Nat /\ y = j - k
      BY <1>1, <2>1
    <3>3. ASSUME NEW x \in (k + 1)..j
          PROVE  tree[x].depth > tree[k].depth
      <4>1. x \in 1..Len(tree) /\ k \in 1..Len(tree) /\ tree[x].depth \in Nat /\ tree[k].depth \in Nat
        BY <1>1, <2>1, <3>2
      <4>2. CASE x = j
        BY <2>2, <3>2, <4>1, <4>2
      <4>3. CASE x # j
        <5>1. j - x \in Nat /\ j - (j - x) = x /\ x \in (i + 1)..(j - 1) /\ ~ (y <= j - x)
          BY <1>1, <2>1, <3>2, <4>3
        <5>2. j - x \notin T
          BY <3>1, <5>1
        <5>3. ~ (tree[x].depth < tree[j].depth)
          BY <5>1, <5>2
        <5>4. tree[x].depth >= tree[j].depth
          <6>1. \A a, b \in Nat : ~ (a < b) => a >= b
            OBVIOUS
          <6> QED
            BY <2>2, <4>1, <5>3, <6>1, Zenon
        <5>5. tree[k].depth < tree[j].depth
          BY <3>2
        <5> HIDE DEF k
        <5> QED
          <6>1. \A a, b, c \in Nat : a >= b /\ c < b => a > c
            OBVIOUS
          <6> QED
            BY <2>2, <4>1, <5>4, <5>5, <6>1, Zenon
      <4> QED
        BY <4>2, <4>3
    <3> HIDE DEF k
    <3>4. k \in Ancestors(tree, j)
      <4>1. k \in 1..(j - 1) /\ j \in k..Len(tree)
        BY <1>1, <2>1, <3>2
      <4> QED
        BY <3>3, <4>1 DEF Ancestors, Subtree
    <3> QED
      BY <1>1, <2>1, <3>2, <3>4
  <2>4. tree[i + 1].depth <= tree[i].depth + 1 /\ tree[i + 1].depth \in Nat
    <3>1. i < Len(tree) /\ i + 1 \in 1..Len(tree)
      BY <1>1, <2>1
    <3> QED
      BY <1>1, <3>1
  <2>5. tree[j].depth <= tree[i + 1].depth
    <3>1. CASE j = i + 1
      BY <2>2, <3>1
    <3>2. CASE j # i + 1
      <4>1. i + 1 \in (i + 1)..(j - 1)
        BY <1>1, <2>1, <3>2
      <4> QED
        BY <2>2, <2>3, <2>4, <4>1
    <3> QED
      BY <3>1, <3>2
  <2>6. tree[j].depth = tree[i].depth + 1
    BY <2>2, <2>4, <2>5
  <2> QED
    BY <2>6 DEF Kids
<1>4. ChildrenOf(tree, i) = Those(EntriesOf(tree), children)
  BY DEF ChildrenOf, EntriesOf
<1>5. \A k \in 1..Len(EntriesOf(tree)) : k \in children <=> k \in Kids(tree, i)
  BY <1>2, <1>3
<1> HIDE DEF children
<1>6. Those(EntriesOf(tree), children) = Those(EntriesOf(tree), Kids(tree, i))
  BY <1>1, <1>5, ThoseAgree
<1> QED
  BY <1>4, <1>6 DEF KidEntries

(* By induction over the levels: what a scan comes to is the tree.          *)
LEMMA ScanListsEverything ==
  ASSUME NEW w \in World, NEW mode \in Mode, NEW P, NEW top \in Entries, top \in P,
         buildSourceTree(w, mode, P, top) # Stopped
  PROVE  IsTheTree(buildSourceTree(w, mode, P, top), mode, w, P)
<1> DEFINE N == maximumDepth
           nodes == nodesFrom(w, mode, P)
           Found(l, v) == IsListed(w, mode, P, nodes[l][v], v.entry, v.branch, N + 1 - l)
           S == {l \in 0..N : \A v \in Visit : v.entry \in P => Found(l, v)}
           start == [entry |-> top, ownership |-> "Owned", branch |-> {}]
           tree == nodes[N][start]
<1>1. N \in Nat /\ 0 \in 0..N /\ N \in 0..N
      /\ \A l \in 1..N : l \in 0..N /\ l > 0 /\ N + 1 - (l - 1) = N + 2 - l
  BY LimitsAssumption
<1>2. \A l \in 0..N : \A v \in Visit : nodes[l][v] = buildNode(w, mode, P, l, nodes[l - 1], v)
  <2>1. nodes = Levels(w, mode, P, nodes)
    BY NodesFromSolves
  <2> HIDE DEF nodes
  <2>2. \A l \in 0..N : nodes[l] = [v \in Visit |-> buildNode(w, mode, P, l, nodes[l - 1], v)]
    <3> DEFINE f == nodes
    <3>1. nodes = [l \in 0..N |-> [v \in Visit |-> buildNode(w, mode, P, l, f[l - 1], v)]]
      BY <2>1 DEF Levels
    <3> HIDE DEF f
    <3>2. \A l \in 0..N : nodes[l] = [v \in Visit |-> buildNode(w, mode, P, l, f[l - 1], v)]
      BY <3>1
    <3> QED
      BY <3>2 DEF f
  <2> QED
    BY <2>2
<1>3. buildSourceTree(w, mode, P, top)
        = IF Len(tree) > maximumNodeCount \/ \E i \in DOMAIN tree : tree[i].depth > maximumDepth
          THEN Stopped ELSE tree
  BY DEF buildSourceTree
<1> HIDE DEF nodes
<1>4. 0 \in S
  <2>1. ASSUME NEW v \in Visit, v.entry \in P
        PROVE  IsListed(w, mode, P, buildNode(w, mode, P, 0, nodes[0 - 1], v), v.entry, v.branch, N + 1 - 0)
    <3>1. ~ (0 > 0)
      OBVIOUS
    <3> QED
      BY <1>1, <2>1, <3>1, NodesAreListed
  <2> QED
    BY <1>1, <1>2, <2>1
<1>5. ASSUME NEW l \in 1..N, l - 1 \in S
      PROVE  l \in S
  <2>1. \A u \in Visit : u.entry \in P
          => IsListed(w, mode, P, nodes[l - 1][u], u.entry, u.branch, N + 2 - l)
    BY <1>1, <1>5
  <2>2. ASSUME NEW v \in Visit, v.entry \in P
        PROVE  IsListed(w, mode, P, buildNode(w, mode, P, l, nodes[l - 1], v), v.entry, v.branch, N + 1 - l)
    BY <1>1, <2>1, <2>2, NodesAreListed
  <2> QED
    BY <1>1, <1>2, <2>2
<1>6. N \in S
  <2> HIDE DEF S
  <2>1. 0..N \subseteq S
    BY <1>1, <1>4, <1>5, UpTo
  <2> QED
    BY <1>1, <2>1
<1>7. tree \in Forest(w, mode, P, {}, 1)
  <2>1. start \in Visit /\ start.entry = top /\ start.branch = {} /\ N + 1 - N = 1
    BY <1>1 DEF Visit, SourceOwnership
  <2>2. Found(N, start)
    BY <1>6, <2>1
  <2> QED
    BY <2>1, <2>2 DEF IsListed
<1> HIDE DEF tree, S
<1>8. /\ buildSourceTree(w, mode, P, top) = tree
      /\ \A i \in DOMAIN tree : ~ (tree[i].depth > maximumDepth)
  BY <1>3
<1>9. tree \in Seq(SourceNode) /\ Len(tree) \in Nat /\ DOMAIN tree = 1..Len(tree)
      /\ \A i \in DOMAIN tree : tree[i].depth \in Nat
  <2>1. tree \in Seq(SourceNode)
    BY <1>7 DEF Forest
  <2> QED
    BY <2>1, NodeFacts
<1>10. ASSUME NEW i \in DOMAIN tree
       PROVE  ChildrenOf(tree, i) = Wanted(w, mode, P, tree[i], Above(w, tree, i))
  <2>1. \A k \in DOMAIN tree : k < Len(tree) => tree[k + 1].depth <= tree[k].depth + 1
    BY <1>7, <1>9 DEF Forest
  <2>2. ChildrenOf(tree, i) = KidEntries(tree, i)
    BY <1>9, <2>1, ChildrenAreKids
  <2>3. tree[i].depth <= maximumDepth
    BY <1>1, <1>8, <1>9
  <2>4. KidEntries(tree, i) = Wanted(w, mode, P, tree[i], {} \cup Above(w, tree, i))
    BY <1>7, <1>9, <2>3 DEF Forest
  <2>5. {} \cup Above(w, tree, i) = Above(w, tree, i)
    OBVIOUS
  <2> QED
    BY <2>2, <2>4, <2>5
<1>11. IsTheTree(tree, mode, w, P)
  BY <1>10 DEF IsTheTree, Wanted, Above
<1> QED
  BY <1>8, <1>11

(* Only a scan puts a manifest where there was none, of those at a scan.    *)
LEMMA OnlyTheScanLists ==
  ASSUME TreeInv, [Next]_operationVars, manifest = <<>>, manifest' # <<>>, pc = "scan"
  PROVE  /\ Root \in present
         /\ manifest' = buildSourceTree(world, BuildMode, present, Root)
<1>1. Standing /\ Unscanned
  BY DEF TreeInv, Unscanned
<1>2. ASSUME UNCHANGED manifest
      PROVE  FALSE
  BY <1>2
<1>3. ~ CancelHere
  BY <1>1, <1>2 DEF CancelHere, finishUnscannedRoot, walkVars
<1>4. ASSUME NEW label, scan(BuildMode, label)
      PROVE  Root \in present /\ manifest' = buildSourceTree(world, BuildMode, present, Root)
  BY <1>2, <1>3, <1>4 DEF scan, walkVars
<1>5. CASE request # "Delete" /\ TransferNext
  <2>1. BuildMode = "MaterializingTransfer"
    BY <1>5 DEF BuildMode
  <2>2. scan("MaterializingTransfer", "enter")
    BY <1>5 DEF TransferNext, TransferStep, beginRoot, inspectionFails, askActionFailed, nextRoot,
         rename, inspectRoot, ensureParent, leafRoot, resolveRoot, resolveDirectory,
         promptForCollision, enterDirectory, visitDirectory, visitEntry, leaveDirectory,
         removeSource, askRemoval
  <2> QED
    BY <1>4, <2>1, <2>2
<1>6. CASE request = "Delete" /\ DeleteNext
  <2>1. BuildMode = "PermanentDelete"
    BY <1>6 DEF BuildMode
  <2>2. scan("PermanentDelete", "node") \/ scanFindsNothing
    BY <1>6 DEF DeleteNext, DeleteStep, beginRoot, inspectionFails, askActionFailed, nextRoot,
         inspectDeleteRoot, beginNode, endNode, tryRemove, preflightFails, askReadOnly,
         makeWritable, remove, askEntryFailed
  <2>3. ~ scanFindsNothing
    BY <1>1, <1>2 DEF scanFindsNothing, finishUnscannedRoot, walkVars
  <2> QED
    BY <1>4, <2>1, <2>2, <2>3
<1>7. CASE cancel \/ others \/ UNCHANGED operationVars
  BY <1>2, <1>7 DEF cancel, others, entryVanishes, entryAppears, walkVars, operationVars, transferVars
<1> QED
  BY <1>5, <1>6, <1>7 DEF Next, runOperation, Finished

(* A manifest is the tree as it stands when the scan looks at it: below     *)
(* every directory all that is listed there and nothing else, each entry    *)
(* once and in order, and behind a link what the mode and the directories   *)
(* on the way to it allow.                                                  *)
THEOREM ManifestsAreTrees == Spec => ManifestIsTheTree
<1>1. ASSUME TreeInv, [Next]_operationVars, manifest = <<>>, manifest' # <<>>, pc = "scan"
      PROVE  IsTheTree(manifest', IF request = "Delete" THEN "PermanentDelete" ELSE "MaterializingTransfer",
                       world, present)
  <2>1. Root \in present /\ manifest' = buildSourceTree(world, BuildMode, present, Root)
    BY <1>1, OnlyTheScanLists
  <2>2. BuildMode = (IF request = "Delete" THEN "PermanentDelete" ELSE "MaterializingTransfer")
        /\ BuildMode \in Mode
    BY DEF BuildMode, Mode
  <2>3. world \in World /\ Root \in Entries
    BY <1>1, WalkManifest DEF TreeInv, Standing, WalkInv, WalkTypes
  <2>4. buildSourceTree(world, BuildMode, present, Root) # Stopped
    BY <1>1, <2>1 DEF Stopped
  <2> QED
    BY <2>1, <2>2, <2>3, <2>4, ScanListsEverything
<1>2. TreeInv /\ [Next]_operationVars =>
        [manifest = <<>> /\ manifest' # <<>> /\ pc = "scan" =>
           IsTheTree(manifest', IF request = "Delete" THEN "PermanentDelete" ELSE "MaterializingTransfer",
                     world, present)]_operationVars
  BY <1>1
<1> QED
  BY <1>2, TreeInvariance, PTL DEF Spec, ManifestIsTheTree
=============================================================================
