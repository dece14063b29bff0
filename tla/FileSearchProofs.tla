-------------------------- MODULE FileSearchProofs --------------------------
(***************************************************************************)
(* Proofs about FileSearch, for every walk, every set of items that match  *)
(* and any number of workers.                                              *)
(***************************************************************************)
EXTENDS FileSearch, FiniteSetTheorems, SequenceTheorems, TLAPS

(* What the thread has handed to the pool is behind where it has come to.   *)
TasksAreBehind ==
  /\ \A i \in Alive : i <= item /\ (phase \in {"Acquire", "Acquired"} => i # item)
  /\ phase \in {"Acquire", "Acquired"} => item # 0
  /\ phase = "Start" => Alive = {} /\ item = 0 /\ found = {}

(* A file that matches, and that the walk has passed, was found, or is in    *)
(* the pool, or in the thread's hand; unless the search is cancelled.        *)
NoMatchIsMissed ==
  ~cancellation /\ phase \in {"Scan", "Acquire", "Acquired", "Drain"} =>
    /\ \A i \in Matching : i <= item =>
         \/ i \in found \cup Alive
         \/ phase \in {"Acquire", "Acquired"} /\ i = item
    /\ phase = "Drain" => item = Items

(* The end of a search is told once nothing can change what it found.       *)
EndIsTrue ==
  status = "Finished" => phase \in {"Clear", "Notify", "Ended"} /\ found = Matching

(* What is on its way to the window: matches only of files that match, and   *)
(* the end that gives the button back.                                       *)
MailIsTrue ==
  /\ \A told \in Range(posted) : told.event = "Match" => told.item \in Matching
  /\ phase = "Joined" => button = "Start"
  /\ window = "Open" /\ phase = "Ended" /\ button = "Stop" =>
       \E told \in Range(posted) : told.event = "Finished"
  /\ window = "Starting" => searches < MaxSearches

(* The inductive invariant.                                                 *)
SearchInv ==
  /\ SearchTypeOK
  /\ SlotsAreConserved
  /\ NothingFollowsTheEnd
  /\ NothingFoundIsLost
  /\ TasksAreBehind
  /\ NoMatchIsMissed
  /\ EndIsTrue
  /\ MailIsTrue

-----------------------------------------------------------------------------
(* What posting adds to a queue, and what taking its head leaves.           *)
LEMMA RangeOfAppend ==
  ASSUME NEW S, NEW s \in Seq(S), NEW e \in S
  PROVE  Append(s, e) \in Seq(S) /\ Range(Append(s, e)) = Range(s) \cup {e}
<1>1. /\ Append(s, e) \in Seq(S)
      /\ Len(s) \in Nat /\ DOMAIN s = 1..Len(s)
      /\ DOMAIN Append(s, e) = 1..(Len(s) + 1)
      /\ \A i \in 1..Len(s) : Append(s, e)[i] = s[i]
      /\ Append(s, e)[Len(s) + 1] = e
  BY AppendProperties, LenProperties
<1>2. 1..(Len(s) + 1) = (1..Len(s)) \cup {Len(s) + 1}
  BY <1>1
<1> QED BY <1>1, <1>2 DEF Range

LEMMA RangeOfTail ==
  ASSUME NEW S, NEW s \in Seq(S), s # <<>>
  PROVE  /\ Head(s) \in S /\ Tail(s) \in Seq(S)
         /\ Range(s) = {Head(s)} \cup Range(Tail(s))
<1>1. /\ Head(s) \in S /\ Tail(s) \in Seq(S)
      /\ Len(s) \in Nat \ {0} /\ DOMAIN s = 1..Len(s) /\ Head(s) = s[1]
      /\ DOMAIN Tail(s) = 1..(Len(s) - 1)
      /\ \A i \in 1..(Len(s) - 1) : Tail(s)[i] = s[i + 1]
  <2>1. Len(s) \in Nat \ {0} /\ DOMAIN s = 1..Len(s) /\ Head(s) = s[1]
    BY EmptySeq, LenProperties
  <2>2. Head(s) \in S /\ Tail(s) \in Seq(S) /\ Len(Tail(s)) = Len(s) - 1
        /\ \A i \in 1..Len(Tail(s)) : Tail(s)[i] = s[i + 1]
    BY HeadTailProperties
  <2>3. DOMAIN Tail(s) = 1..Len(Tail(s))
    BY <2>2, LenProperties
  <2> QED BY <2>1, <2>2, <2>3
<1>2. ASSUME NEW x \in Range(s)
      PROVE  x \in {Head(s)} \cup Range(Tail(s))
  <2>1. PICK i \in 1..Len(s) : x = s[i]
    BY <1>1 DEF Range
  <2>2. CASE i = 1
    BY <2>1, <2>2, <1>1
  <2>3. CASE i # 1
    <3>1. i - 1 \in 1..(Len(s) - 1) /\ x = Tail(s)[i - 1]
      BY <2>1, <2>3, <1>1
    <3> QED BY <3>1, <1>1 DEF Range
  <2> QED BY <2>2, <2>3
<1>3. ASSUME NEW x \in {Head(s)} \cup Range(Tail(s))
      PROVE  x \in Range(s)
  <2>1. CASE x = Head(s)
    BY <2>1, <1>1 DEF Range
  <2>2. CASE x \in Range(Tail(s))
    <3>1. PICK i \in 1..(Len(s) - 1) : x = Tail(s)[i]
      BY <2>2, <1>1 DEF Range
    <3>2. i + 1 \in 1..Len(s) /\ x = s[i + 1]
      BY <3>1, <1>1
    <3> QED BY <3>2, <1>1 DEF Range
  <2> QED BY <2>1, <2>2
<1> QED BY <1>1, <1>2, <1>3

(* How many tasks there are when one comes or goes.                         *)
LEMMA TaskCount ==
  ASSUME NEW A \in SUBSET (1..Items)
  PROVE  /\ Cardinality(A) \in Nat
         /\ Cardinality(A) = 0 <=> A = {}
         /\ \A i \in A : Cardinality(A \ {i}) = Cardinality(A) - 1
         /\ \A i \in (1..Items) \ A : Cardinality(A \cup {i}) = Cardinality(A) + 1
<1>1. IsFiniteSet(A)
  <2>1. IsFiniteSet(1..Items)
    BY ItemsAssumption, FS_Interval
  <2> QED BY <2>1, FS_Subset
<1>2. Cardinality(A) \in Nat /\ (Cardinality(A) = 0 <=> A = {})
  BY <1>1, FS_CardinalityType, FS_EmptySet
<1> QED BY <1>1, <1>2, FS_AddElement, FS_RemoveElement

(* The initial state.                                                       *)
LEMMA InitSearchInv == Init => SearchInv
<1> SUFFICES ASSUME Init PROVE SearchInv
  OBVIOUS
<1> USE DEF Init
<1>1. Alive = {} /\ Slots \in Nat /\ Items \in Nat /\ MaxSearches \in Nat
  BY WorkersAssumption, ItemsAssumption DEF Alive, Slots
<1>2. SearchTypeOK
  <2>1. posted \in Seq([event : {"Match", "Finished"}, search : 0..MaxSearches,
                       item : 0..Items])
    BY EmptySeq
  <2>2. tasks \in [1..Items -> {NoTask, "Queued", "Matching"}]
    OBVIOUS
  <2>3. /\ searches \in 0..MaxSearches /\ item \in 0..Items /\ slots \in 0..Slots
        /\ kind \in Kind /\ found \subseteq Matching
        /\ matches \subseteq (0..MaxSearches) \X Matching
    BY <1>1 DEF Kind
  <2> QED BY <2>1, <2>2, <2>3 DEF SearchTypeOK
<1>3. Range(posted) = {}
  BY DEF Range
<1>4. SlotsAreConserved
  BY <1>1, FS_EmptySet DEF SlotsAreConserved
<1>5. NothingFollowsTheEnd /\ NothingFoundIsLost
  BY <1>1 DEF NothingFollowsTheEnd, NothingFoundIsLost, ThreadHasEnded
<1>6. TasksAreBehind /\ NoMatchIsMissed /\ EndIsTrue /\ MailIsTrue
  BY <1>1, <1>3 DEF TasksAreBehind, NoMatchIsMissed, EndIsTrue, MailIsTrue
<1> QED BY <1>2, <1>4, <1>5, <1>6 DEF SearchInv

-----------------------------------------------------------------------------
(* The UI thread's steps.                                                  *)
LEMMA StopKeepsInv == SearchInv /\ stopSearching => SearchInv'
<1> SUFFICES ASSUME SearchInv, stopSearching PROVE SearchInv'
  OBVIOUS
<1> USE DEF stopSearching, engineVars, listVars, SearchInv
<1>1. Alive' = Alive /\ MatchOf(item)' = MatchOf(item)
  BY DEF Alive, MatchOf
<1>2. SearchTypeOK' /\ SlotsAreConserved'
  BY <1>1 DEF SearchTypeOK, SlotsAreConserved
<1>3. NothingFollowsTheEnd' /\ NothingFoundIsLost'
  BY <1>1 DEF NothingFollowsTheEnd, NothingFoundIsLost, ThreadHasEnded, MatchOf
<1>4. TasksAreBehind' /\ NoMatchIsMissed' /\ EndIsTrue' /\ MailIsTrue'
  BY <1>1 DEF TasksAreBehind, NoMatchIsMissed, EndIsTrue, MailIsTrue
<1> QED BY <1>2, <1>3, <1>4

LEMMA SearchKeepsInv == SearchInv /\ search => SearchInv'
<1> SUFFICES ASSUME SearchInv, search PROVE SearchInv'
  OBVIOUS
<1> USE DEF search, engineVars, listVars, SearchInv
<1>1. Alive' = Alive
  BY DEF Alive
<1>2. SearchTypeOK' /\ SlotsAreConserved'
  BY <1>1 DEF SearchTypeOK, SlotsAreConserved
<1>3. NothingFollowsTheEnd' /\ NothingFoundIsLost'
  BY <1>1 DEF NothingFollowsTheEnd, NothingFoundIsLost, ThreadHasEnded
<1>4. TasksAreBehind' /\ NoMatchIsMissed' /\ EndIsTrue' /\ MailIsTrue'
  BY <1>1 DEF TasksAreBehind, NoMatchIsMissed, EndIsTrue, MailIsTrue
<1> QED BY <1>2, <1>3, <1>4

(* A search starts with every slot free: the last one's tasks are done.     *)
LEMMA StartKeepsInv == SearchInv /\ startSearch => SearchInv'
<1> SUFFICES ASSUME SearchInv, startSearch PROVE SearchInv'
  OBVIOUS
<1> USE DEF startSearch, SearchInv
<1>1. Alive' = Alive /\ Alive = {}
  BY DEF Alive, NothingFollowsTheEnd, ThreadHasEnded
<1>2. SearchTypeOK'
  <2>1. searches' \in 0..MaxSearches
    BY WorkersAssumption DEF SearchTypeOK, MailIsTrue
  <2>2. 0 \in 0..Items /\ Slots \in 0..Slots
    BY ItemsAssumption, WorkersAssumption DEF Slots
  <2> QED BY <2>1, <2>2 DEF SearchTypeOK
<1>3. SlotsAreConserved'
  <2>1. slots' = Slots /\ phase' = "Start" /\ Cardinality(Alive)' = 0 /\ Slots \in Nat
    BY <1>1, FS_EmptySet, WorkersAssumption DEF Slots
  <2> QED BY <2>1 DEF SlotsAreConserved, Slots
<1>4. NothingFollowsTheEnd' /\ NothingFoundIsLost'
  BY <1>1 DEF NothingFollowsTheEnd, NothingFoundIsLost, ThreadHasEnded
<1>5. TasksAreBehind' /\ NoMatchIsMissed' /\ EndIsTrue' /\ MailIsTrue'
  BY <1>1 DEF TasksAreBehind, NoMatchIsMissed, EndIsTrue, MailIsTrue
<1> QED BY <1>2, <1>3, <1>4, <1>5

(* A match that is delivered is listed; the end that is delivered gives the  *)
(* button back.                                                             *)
LEMMA DeliverKeepsInv == SearchInv /\ deliver => SearchInv'
<1> SUFFICES ASSUME SearchInv, deliver PROVE SearchInv'
  OBVIOUS
<1> USE DEF deliver, engineVars, SearchInv
<1> DEFINE Told == [event : {"Match", "Finished"}, search : 0..MaxSearches, item : 0..Items]
           told == Head(posted)
<1>1. /\ told \in Told /\ posted' \in Seq(Told)
      /\ Range(posted) = {told} \cup Range(posted')
  BY RangeOfTail DEF SearchTypeOK
<1>2. Alive' = Alive
  BY DEF Alive
<1>3. CASE told.event = "Match"
  <2>1. matches' = matches \cup {<<told.search, told.item>>} /\ button' = button
    BY <1>3
  <2>2. told.item \in Matching /\ told.search \in 0..MaxSearches
    BY <1>1, <1>3 DEF MailIsTrue
  <2>3. SearchTypeOK'
    BY <1>1, <2>1, <2>2 DEF SearchTypeOK
  <2>4. SlotsAreConserved' /\ NothingFollowsTheEnd'
    BY <1>2 DEF SlotsAreConserved, NothingFollowsTheEnd, ThreadHasEnded
  <2>5. \E t \in Range(posted) : t.event = "Finished" =>
          \E t2 \in Range(posted') : t2.event = "Finished"
    BY <1>1, <1>3
  <2>6. MailIsTrue'
    BY <1>1, <1>3, <2>1 DEF MailIsTrue
  <2>7. NothingFoundIsLost'
    <3>1. ASSUME NEW i \in found
          PROVE  <<searches, i>> \in matches' \/ MatchOf(i) \in Range(posted')
      <4>1. <<searches, i>> \in matches \/ MatchOf(i) \in Range(posted)
        BY DEF NothingFoundIsLost
      <4>2. MatchOf(i) = told => <<searches, i>> = <<told.search, told.item>>
        BY DEF MatchOf
      <4> QED BY <4>1, <4>2, <1>1, <2>1
    <3>2. posted' = <<>> /\ phase \in {"Joined", "Ended"} => button' = "Start"
      <4>1. posted' = <<>> => Range(posted') = {}
        BY DEF Range
      <4> QED BY <4>1, <2>1, <2>6 DEF MailIsTrue, SearchTypeOK
    <3> QED BY <3>1, <3>2 DEF NothingFoundIsLost, MatchOf
  <2>8. TasksAreBehind' /\ NoMatchIsMissed' /\ EndIsTrue'
    BY <1>2 DEF TasksAreBehind, NoMatchIsMissed, EndIsTrue
  <2> QED BY <2>3, <2>4, <2>6, <2>7, <2>8
<1>4. CASE told.event # "Match"
  <2>1. matches' = matches /\ button' = "Start"
    BY <1>4
  <2>2. SearchTypeOK'
    BY <1>1, <2>1 DEF SearchTypeOK
  <2>3. SlotsAreConserved' /\ NothingFollowsTheEnd'
    BY <1>2 DEF SlotsAreConserved, NothingFollowsTheEnd, ThreadHasEnded
  <2>4. MailIsTrue'
    BY <1>1, <2>1 DEF MailIsTrue
  <2>5. NothingFoundIsLost'
    <3>1. ASSUME NEW i \in found
          PROVE  <<searches, i>> \in matches' \/ MatchOf(i) \in Range(posted')
      <4>1. <<searches, i>> \in matches \/ MatchOf(i) \in Range(posted)
        BY DEF NothingFoundIsLost
      <4>2. MatchOf(i) # told
        BY <1>4 DEF MatchOf
      <4> QED BY <4>1, <4>2, <1>1, <2>1
    <3> QED BY <3>1, <2>1 DEF NothingFoundIsLost, MatchOf
  <2>6. TasksAreBehind' /\ NoMatchIsMissed' /\ EndIsTrue'
    BY <1>2 DEF TasksAreBehind, NoMatchIsMissed, EndIsTrue
  <2> QED BY <2>2, <2>3, <2>4, <2>5, <2>6
<1> QED BY <1>3, <1>4

LEMMA CloseKeepsInv == SearchInv /\ closeWindow => SearchInv'
<1> SUFFICES ASSUME SearchInv, closeWindow PROVE SearchInv'
  OBVIOUS
<1> USE DEF closeWindow, engineVars, listVars, SearchInv
<1>1. Alive' = Alive
  BY DEF Alive
<1>2. SearchTypeOK' /\ SlotsAreConserved'
  BY <1>1 DEF SearchTypeOK, SlotsAreConserved
<1>3. NothingFollowsTheEnd' /\ NothingFoundIsLost'
  BY <1>1 DEF NothingFollowsTheEnd, NothingFoundIsLost, ThreadHasEnded
<1>4. TasksAreBehind' /\ NoMatchIsMissed' /\ EndIsTrue' /\ MailIsTrue'
  BY <1>1 DEF TasksAreBehind, NoMatchIsMissed, EndIsTrue, MailIsTrue
<1> QED BY <1>2, <1>3, <1>4

LEMMA DestroyKeepsInv == SearchInv /\ destroyWindow => SearchInv'
<1> SUFFICES ASSUME SearchInv, destroyWindow PROVE SearchInv'
  OBVIOUS
<1> USE DEF destroyWindow, engineVars, listVars, SearchInv
<1>1. Alive' = Alive /\ Range(posted') = {}
  BY DEF Alive, Range
<1>2. SearchTypeOK' /\ SlotsAreConserved'
  <2>1. posted' \in Seq([event : {"Match", "Finished"}, search : 0..MaxSearches,
                        item : 0..Items])
    BY EmptySeq
  <2> QED BY <1>1, <2>1 DEF SearchTypeOK, SlotsAreConserved
<1>3. NothingFollowsTheEnd' /\ NothingFoundIsLost'
  BY <1>1 DEF NothingFollowsTheEnd, NothingFoundIsLost, ThreadHasEnded
<1>4. TasksAreBehind' /\ NoMatchIsMissed' /\ EndIsTrue' /\ MailIsTrue'
  BY <1>1 DEF TasksAreBehind, NoMatchIsMissed, EndIsTrue, MailIsTrue
<1> QED BY <1>2, <1>3, <1>4

-----------------------------------------------------------------------------
(* The search thread's steps.                                              *)
LEMMA BeginKeepsInv == SearchInv /\ beginSearch => SearchInv'
<1> SUFFICES ASSUME SearchInv, beginSearch PROVE SearchInv'
  OBVIOUS
<1> USE DEF beginSearch, Thread, listVars, SearchInv
<1>1. Alive' = Alive /\ Alive = {}
  BY DEF Alive, TasksAreBehind
<1>2. SearchTypeOK' /\ SlotsAreConserved'
  BY <1>1 DEF SearchTypeOK, SlotsAreConserved
<1>3. NothingFollowsTheEnd' /\ NothingFoundIsLost'
  BY <1>1 DEF NothingFollowsTheEnd, NothingFoundIsLost, ThreadHasEnded, MatchOf
<1>4. NoMatchIsMissed'
  BY <1>1, ItemsAssumption DEF NoMatchIsMissed, TasksAreBehind
<1>5. TasksAreBehind' /\ EndIsTrue' /\ MailIsTrue'
  BY <1>1 DEF TasksAreBehind, EndIsTrue, MailIsTrue
<1> QED BY <1>2, <1>3, <1>4, <1>5

(* A step that reports a match posts it, and nothing else.                  *)
LEMMA ReportsAreTrue ==
  ASSUME SearchTypeOK, NEW i \in 1..Items, reports(i)
  PROVE  /\ posted' \in Seq([event : {"Match", "Finished"}, search : 0..MaxSearches,
                             item : 0..Items])
         /\ Range(posted') = Range(posted) \cup {MatchOf(j) : j \in {i} \cap Matching}
<1> DEFINE Told == [event : {"Match", "Finished"}, search : 0..MaxSearches, item : 0..Items]
<1>1. posted \in Seq(Told) /\ MatchOf(i) \in Told
  BY ItemsAssumption DEF SearchTypeOK, MatchOf
<1> HIDE DEF Told
<1>2. CASE i \in Matching
  <2>1. posted' = Append(posted, MatchOf(i))
    BY <1>2 DEF reports
  <2>2. Append(posted, MatchOf(i)) \in Seq(Told)
        /\ Range(Append(posted, MatchOf(i))) = Range(posted) \cup {MatchOf(i)}
    BY <1>1, RangeOfAppend
  <2>3. {MatchOf(j) : j \in {i} \cap Matching} = {MatchOf(i)}
    BY <1>2
  <2> QED BY <2>1, <2>2, <2>3 DEF Told
<1>3. CASE i \notin Matching
  <2>1. posted' = posted /\ {MatchOf(j) : j \in {i} \cap Matching} = {}
    BY <1>3 DEF reports
  <2> QED BY <1>1, <2>1 DEF Told
<1> QED BY <1>2, <1>3

(* An item that is looked at by its name is found at once if it matches; one  *)
(* to be read is in the thread's hand.                                      *)
LEMMA ScanKeepsInv == SearchInv /\ scanItem => SearchInv'
<1> SUFFICES ASSUME SearchInv, scanItem PROVE SearchInv'
  OBVIOUS
<1> USE DEF scanItem, Thread, listVars, SearchInv
<1>1. Alive' = Alive /\ Matching \subseteq 1..Items /\ Items \in Nat
  BY ItemsAssumption DEF Alive
<1>2. CASE cancellation \/ item = Items
  <2>1. SearchTypeOK' /\ SlotsAreConserved'
    BY <1>1, <1>2 DEF SearchTypeOK, SlotsAreConserved
  <2>2. NothingFollowsTheEnd' /\ NothingFoundIsLost'
    BY <1>1, <1>2 DEF NothingFollowsTheEnd, NothingFoundIsLost, ThreadHasEnded, MatchOf
  <2>3. TasksAreBehind' /\ NoMatchIsMissed' /\ EndIsTrue' /\ MailIsTrue'
    BY <1>1, <1>2 DEF TasksAreBehind, NoMatchIsMissed, EndIsTrue, MailIsTrue
  <2> QED BY <2>1, <2>2, <2>3
<1>3. CASE ~(cancellation \/ item = Items)
  <2>1. item' = item + 1 /\ item' \in 1..Items /\ item \in Nat
    BY <1>1, <1>3 DEF SearchTypeOK
  <2>2. CASE kind = "Contents"
    <3>1. SearchTypeOK' /\ SlotsAreConserved'
      <4>1. /\ phase = "Scan" /\ phase' = "Acquire" /\ slots' = slots
            /\ UNCHANGED <<window, searches, kind, inProgress, cancellation, tasks, found,
                          status, posted, matches, button>>
        BY <1>3, <2>2
      <4>2. SearchTypeOK'
        BY <1>1, <2>1, <4>1 DEF SearchTypeOK
      <4> QED BY <1>1, <4>1, <4>2 DEF SlotsAreConserved
    <3>2. NothingFollowsTheEnd' /\ NothingFoundIsLost'
      BY <1>1, <1>3, <2>2 DEF NothingFollowsTheEnd, NothingFoundIsLost, ThreadHasEnded, MatchOf
    <3>3. NoMatchIsMissed'
      BY <1>1, <1>3, <2>1, <2>2 DEF NoMatchIsMissed
    <3>4. TasksAreBehind' /\ EndIsTrue' /\ MailIsTrue'
      BY <1>1, <1>3, <2>1, <2>2 DEF TasksAreBehind, EndIsTrue, MailIsTrue, Alive
    <3> QED BY <3>1, <3>2, <3>3, <3>4
  <2>3. CASE kind # "Contents"
    <3>1. /\ phase' = phase /\ found' = found \cup ({item'} \cap Matching)
          /\ reports(item')
      BY <1>3, <2>3
    <3>2. /\ posted' \in Seq([event : {"Match", "Finished"}, search : 0..MaxSearches,
                              item : 0..Items])
          /\ Range(posted') = Range(posted) \cup {MatchOf(j) : j \in {item'} \cap Matching}
      BY <2>1, <3>1, ReportsAreTrue
    <3>3. SearchTypeOK' /\ SlotsAreConserved'
      BY <1>1, <2>1, <3>1, <3>2 DEF SearchTypeOK, SlotsAreConserved
    <3>4. NothingFollowsTheEnd' /\ NothingFoundIsLost'
      BY <1>1, <3>1, <3>2 DEF NothingFollowsTheEnd, NothingFoundIsLost, ThreadHasEnded, MatchOf
    <3>5. NoMatchIsMissed'
      BY <1>1, <2>1, <3>1 DEF NoMatchIsMissed
    <3>6. TasksAreBehind' /\ EndIsTrue'
      BY <1>1, <2>1, <3>1 DEF TasksAreBehind, EndIsTrue, Alive
    <3>7. MailIsTrue'
      BY <3>1, <3>2 DEF MailIsTrue, MatchOf
    <3> QED BY <3>3, <3>4, <3>5, <3>6, <3>7
  <2> QED BY <2>2, <2>3
<1> QED BY <1>2, <1>3

LEMMA AcquireKeepsInv == SearchInv /\ acquireSlot => SearchInv'
<1> SUFFICES ASSUME SearchInv, acquireSlot PROVE SearchInv'
  OBVIOUS
<1> USE DEF acquireSlot, Thread, listVars, SearchInv
<1>1. Alive' = Alive /\ Slots \in Nat /\ Cardinality(Alive) \in Nat
  BY TaskCount, WorkersAssumption DEF Alive, Slots
<1>2. SearchTypeOK' /\ SlotsAreConserved'
  <2>1. slots + Cardinality(Alive) = Slots /\ slots \in 0..Slots
    BY <1>1 DEF SearchTypeOK, SlotsAreConserved
  <2>2. slots' \in 0..Slots
        /\ slots' + Cardinality(Alive) + (IF phase' = "Acquired" THEN 1 ELSE 0) = Slots
    BY <1>1, <2>1
  <2> QED BY <1>1, <2>2 DEF SearchTypeOK, SlotsAreConserved
<1>3. NothingFollowsTheEnd' /\ NothingFoundIsLost'
  BY <1>1 DEF NothingFollowsTheEnd, NothingFoundIsLost, ThreadHasEnded, MatchOf
<1>4. TasksAreBehind' /\ NoMatchIsMissed' /\ EndIsTrue' /\ MailIsTrue'
  BY <1>1 DEF TasksAreBehind, NoMatchIsMissed, EndIsTrue, MailIsTrue
<1> QED BY <1>2, <1>3, <1>4

(* The slot goes with the file to the pool, or is given back.               *)
LEMMA EnqueueKeepsInv == SearchInv /\ enqueueTask => SearchInv'
<1> SUFFICES ASSUME SearchInv, enqueueTask PROVE SearchInv'
  OBVIOUS
<1> USE DEF enqueueTask, Thread, listVars, SearchInv
<1>1. /\ item \in 1..Items /\ item \notin Alive
      /\ Slots \in Nat /\ Cardinality(Alive) \in Nat /\ Alive \subseteq 1..Items
  BY TaskCount, WorkersAssumption, ItemsAssumption
     DEF Alive, Slots, TasksAreBehind, SearchTypeOK
<1>2. CASE cancellation
  <2>1. Alive' = Alive
    BY <1>2 DEF Alive
  <2>2. SearchTypeOK' /\ SlotsAreConserved'
    <3>1. slots + Cardinality(Alive) + 1 = Slots /\ slots \in 0..Slots
      BY <1>1 DEF SearchTypeOK, SlotsAreConserved
    <3>2. slots' \in 0..Slots /\ slots' + Cardinality(Alive) = Slots
      BY <1>1, <1>2, <3>1
    <3>3. SlotsAreConserved'
      BY <1>1, <2>1, <3>2 DEF SlotsAreConserved
    <3> QED BY <1>2, <3>2, <3>3 DEF SearchTypeOK
  <2>3. NothingFollowsTheEnd' /\ NothingFoundIsLost'
    BY <2>1 DEF NothingFollowsTheEnd, NothingFoundIsLost, ThreadHasEnded, MatchOf
  <2>4. TasksAreBehind' /\ NoMatchIsMissed' /\ EndIsTrue' /\ MailIsTrue'
    BY <1>2, <2>1 DEF TasksAreBehind, NoMatchIsMissed, EndIsTrue, MailIsTrue
  <2> QED BY <2>2, <2>3, <2>4
<1>3. CASE ~cancellation
  <2>1. /\ tasks' \in [1..Items -> {NoTask, "Queued", "Matching"}]
        /\ Alive' = Alive \cup {item} /\ slots' = slots
    BY <1>1, <1>3 DEF Alive, SearchTypeOK, NoTask
  <2>2. Cardinality(Alive') = Cardinality(Alive) + 1
    BY <1>1, <2>1, TaskCount
  <2>3. SearchTypeOK' /\ SlotsAreConserved'
    <3>1. SlotsAreConserved'
      BY <1>1, <2>1, <2>2 DEF SearchTypeOK, SlotsAreConserved
    <3> QED BY <2>1, <3>1 DEF SearchTypeOK
  <2>4. NothingFollowsTheEnd' /\ NothingFoundIsLost'
    BY DEF NothingFollowsTheEnd, NothingFoundIsLost, ThreadHasEnded, MatchOf
  <2>5. NoMatchIsMissed'
    BY <2>1 DEF NoMatchIsMissed
  <2>6. TasksAreBehind' /\ EndIsTrue' /\ MailIsTrue'
    BY <1>1, <2>1 DEF TasksAreBehind, EndIsTrue, MailIsTrue
  <2> QED BY <2>3, <2>4, <2>5, <2>6
<1> QED BY <1>2, <1>3

(* When the pool is idle and the walk is over, what matches has been found.  *)
LEMMA FinishKeepsInv == SearchInv /\ finishAllThreads => SearchInv'
<1> SUFFICES ASSUME SearchInv, finishAllThreads PROVE SearchInv'
  OBVIOUS
<1> USE DEF finishAllThreads, Thread, listVars, SearchInv
<1>1. Alive' = Alive /\ Alive = {}
  BY DEF Alive
<1>2. ~cancellation => found = Matching
  <2>1. \A i \in Matching : i <= Items
    BY ItemsAssumption
  <2> QED BY <1>1, <2>1 DEF NoMatchIsMissed, SearchTypeOK
<1>3. SearchTypeOK' /\ SlotsAreConserved'
  BY <1>1 DEF SearchTypeOK, SlotsAreConserved
<1>4. NothingFollowsTheEnd' /\ NothingFoundIsLost'
  BY <1>1 DEF NothingFollowsTheEnd, NothingFoundIsLost, ThreadHasEnded, MatchOf
<1>5. TasksAreBehind' /\ NoMatchIsMissed' /\ EndIsTrue' /\ MailIsTrue'
  BY <1>1, <1>2 DEF TasksAreBehind, NoMatchIsMissed, EndIsTrue, MailIsTrue
<1> QED BY <1>3, <1>4, <1>5

LEMMA ClearKeepsInv == SearchInv /\ clearInProgress => SearchInv'
<1> SUFFICES ASSUME SearchInv, clearInProgress PROVE SearchInv'
  OBVIOUS
<1> USE DEF clearInProgress, Thread, listVars, SearchInv
<1>1. Alive' = Alive
  BY DEF Alive
<1>2. SearchTypeOK' /\ SlotsAreConserved'
  BY <1>1 DEF SearchTypeOK, SlotsAreConserved
<1>3. NothingFollowsTheEnd' /\ NothingFoundIsLost'
  BY <1>1 DEF NothingFollowsTheEnd, NothingFoundIsLost, ThreadHasEnded, MatchOf
<1>4. TasksAreBehind' /\ NoMatchIsMissed' /\ EndIsTrue' /\ MailIsTrue'
  BY <1>1 DEF TasksAreBehind, NoMatchIsMissed, EndIsTrue, MailIsTrue
<1> QED BY <1>2, <1>3, <1>4

LEMMA NotifyKeepsInv == SearchInv /\ searchFinished => SearchInv'
<1> SUFFICES ASSUME SearchInv, searchFinished PROVE SearchInv'
  OBVIOUS
<1> USE DEF searchFinished, Thread, listVars, SearchInv
<1> DEFINE Told == [event : {"Match", "Finished"}, search : 0..MaxSearches, item : 0..Items]
<1>1. Alive' = Alive
  BY DEF Alive
<1>2. posted' \in Seq(Told) /\ Range(posted') = Range(posted) \cup {FinishOf}
  <2>1. FinishOf \in Told
    BY ItemsAssumption DEF FinishOf, SearchTypeOK
  <2>2. posted \in Seq(Told)
    BY DEF SearchTypeOK
  <2> HIDE DEF Told
  <2> QED BY <2>1, <2>2, RangeOfAppend
<1>3. SearchTypeOK' /\ SlotsAreConserved'
  BY <1>1, <1>2 DEF SearchTypeOK, SlotsAreConserved
<1>4. MailIsTrue' /\ FinishOf.event = "Finished"
  BY <1>2 DEF MailIsTrue, FinishOf
<1>5. posted' # <<>>
  <2>1. Range(<<>>) = {}
    BY DEF Range
  <2> QED BY <1>2, <2>1
<1>6. NothingFollowsTheEnd' /\ NothingFoundIsLost'
  BY <1>1, <1>2, <1>5 DEF NothingFollowsTheEnd, NothingFoundIsLost, ThreadHasEnded, MatchOf
<1>7. TasksAreBehind' /\ NoMatchIsMissed' /\ EndIsTrue'
  BY <1>1 DEF TasksAreBehind, NoMatchIsMissed, EndIsTrue
<1> QED BY <1>3, <1>4, <1>6, <1>7

-----------------------------------------------------------------------------
(* The pool's steps.                                                       *)
LEMMA BeginTaskKeepsInv ==
  ASSUME SearchInv, NEW i \in 1..Items, beginTask(i)
  PROVE  SearchInv'
<1> USE DEF beginTask, PoolStep, listVars, SearchInv
<1>1. Alive' = Alive /\ tasks' \in [1..Items -> {NoTask, "Queued", "Matching"}]
  BY DEF Alive, SearchTypeOK, NoTask
<1>2. SearchTypeOK' /\ SlotsAreConserved'
  BY <1>1 DEF SearchTypeOK, SlotsAreConserved
<1>3. NothingFollowsTheEnd' /\ NothingFoundIsLost'
  BY <1>1 DEF NothingFollowsTheEnd, NothingFoundIsLost, ThreadHasEnded, MatchOf
<1>4. TasksAreBehind' /\ NoMatchIsMissed' /\ EndIsTrue' /\ MailIsTrue'
  BY <1>1 DEF TasksAreBehind, NoMatchIsMissed, EndIsTrue, MailIsTrue
<1> QED BY <1>2, <1>3, <1>4

(* A task gives its slot back, and what it found is found unless the search  *)
(* is cancelled.                                                            *)
LEMMA EndTaskKeepsInv ==
  ASSUME SearchInv, NEW i \in 1..Items, endTask(i)
  PROVE  SearchInv'
<1> USE DEF endTask, PoolStep, listVars, SearchInv
<1>1. /\ tasks' \in [1..Items -> {NoTask, "Queued", "Matching"}]
      /\ i \in Alive /\ Alive' = Alive \ {i} /\ Alive \subseteq 1..Items
  BY DEF Alive, SearchTypeOK, NoTask
<1>2. /\ Cardinality(Alive) \in Nat /\ Cardinality(Alive') \in Nat
      /\ Cardinality(Alive') = Cardinality(Alive) - 1
      /\ Slots \in Nat
  BY <1>1, TaskCount, WorkersAssumption DEF Slots
<1>3. slots' \in 0..Slots /\ SlotsAreConserved'
  BY <1>2 DEF SearchTypeOK, SlotsAreConserved
<1>4. phase \notin {"Start", "Clear", "Notify", "Ended", "Joined"}
  BY <1>1 DEF TasksAreBehind, NothingFollowsTheEnd
<1>5. window # "Gone"
  BY <1>4 DEF NothingFollowsTheEnd, ThreadHasEnded
<1>6. CASE cancellation
  <2>1. SearchTypeOK'
    BY <1>1, <1>3, <1>6 DEF SearchTypeOK
  <2>2. NothingFollowsTheEnd' /\ NothingFoundIsLost'
    BY <1>1, <1>4, <1>5, <1>6
       DEF NothingFollowsTheEnd, NothingFoundIsLost, ThreadHasEnded, MatchOf
  <2>3. TasksAreBehind' /\ NoMatchIsMissed' /\ EndIsTrue' /\ MailIsTrue'
    BY <1>1, <1>4, <1>6 DEF TasksAreBehind, NoMatchIsMissed, EndIsTrue, MailIsTrue
  <2> QED BY <1>3, <2>1, <2>2, <2>3
<1>7. CASE ~cancellation
  <2>1. found' = found \cup ({i} \cap Matching) /\ reports(i)
    BY <1>7
  <2>2. /\ posted' \in Seq([event : {"Match", "Finished"}, search : 0..MaxSearches,
                            item : 0..Items])
        /\ Range(posted') = Range(posted) \cup {MatchOf(j) : j \in {i} \cap Matching}
    BY <2>1, ReportsAreTrue
  <2>3. SearchTypeOK'
    BY <1>1, <1>3, <2>1, <2>2 DEF SearchTypeOK
  <2>4. NothingFollowsTheEnd' /\ NothingFoundIsLost'
    BY <1>1, <1>4, <1>5, <2>1, <2>2
       DEF NothingFollowsTheEnd, NothingFoundIsLost, ThreadHasEnded, MatchOf
  <2>5. NoMatchIsMissed'
    BY <1>1, <2>1 DEF NoMatchIsMissed
  <2>6. TasksAreBehind' /\ EndIsTrue'
    BY <1>1, <1>4 DEF TasksAreBehind, EndIsTrue
  <2>7. MailIsTrue'
    BY <1>4, <2>2 DEF MailIsTrue, MatchOf
  <2> QED BY <1>3, <2>3, <2>4, <2>5, <2>6, <2>7
<1> QED BY <1>6, <1>7

-----------------------------------------------------------------------------
(* A search ends as it says, for every walk, set of matches and number of   *)
(* workers: no slot is lost or made up, nothing follows the end, what was    *)
(* found is listed or on its way, and a search that finished has found all   *)
(* that match (CFileSearchEngine::searchThread, notifySearchFinished).       *)
THEOREM SearchesAreSound == Spec => []SearchIsSound
<1>1. SearchInv /\ [Next]_vars => SearchInv'
  <2> SUFFICES ASSUME SearchInv, [Next]_vars PROVE SearchInv'
    OBVIOUS
  <2>1. CASE user
    BY <2>1, StopKeepsInv, SearchKeepsInv, CloseKeepsInv DEF user
  <2>2. CASE uiThread
    BY <2>2, StartKeepsInv, DeliverKeepsInv, DestroyKeepsInv DEF uiThread
  <2>3. CASE searchThread
    BY <2>3, BeginKeepsInv, ScanKeepsInv, AcquireKeepsInv, EnqueueKeepsInv,
       FinishKeepsInv, ClearKeepsInv, NotifyKeepsInv DEF searchThread
  <2>4. CASE pool
    BY <2>4, BeginTaskKeepsInv, EndTaskKeepsInv DEF pool
  <2>5. CASE UNCHANGED vars
    <3> USE <2>5 DEF vars, SearchInv
    <3>1. SearchTypeOK' /\ SlotsAreConserved'
      BY DEF SearchTypeOK, SlotsAreConserved, Alive
    <3>2. NothingFollowsTheEnd' /\ NothingFoundIsLost'
      BY DEF NothingFollowsTheEnd, NothingFoundIsLost, ThreadHasEnded, MatchOf, Alive
    <3>3. TasksAreBehind' /\ NoMatchIsMissed' /\ EndIsTrue' /\ MailIsTrue'
      BY DEF TasksAreBehind, NoMatchIsMissed, EndIsTrue, MailIsTrue, Alive
    <3> QED BY <3>1, <3>2, <3>3
  <2> QED BY <2>1, <2>2, <2>3, <2>4, <2>5 DEF Next
<1>2. SearchInv => SearchIsSound
  BY DEF SearchInv, SearchIsSound, EndIsTrue
<1> QED BY InitSearchInv, <1>1, <1>2, PTL DEF Spec
=============================================================================
