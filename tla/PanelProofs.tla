---------------------------- MODULE PanelProofs ----------------------------
(***************************************************************************)
(* Theorems about Panel: type correctness, the watch on the folder the tab *)
(* on screen lists, and that the committed listing of a view only ever     *)
(* gets newer.                                                             *)
(***************************************************************************)
EXTENDS Panel, NumbersAndSequences, SequenceTheorems, TLAPS

Modes == {Normal, AllObjects}
Snapshots == [generation : Nat, state : Stamp]
Listings == {<<>>} \cup UNION {[Scope(v[1], v[2]) -> Stamp] : v \in Folders \X Modes}
UpdateTasks ==
  [generation : Nat, path : Folders, mode : Modes,
   stage : {"Queued", "Baseline", "Enumerate", "Publish"},
   baseline : Snapshots, listing : Listings]
Notices ==
  [kind : {"Changed", "Invalidated", "Recover"}, generation : Nat,
   path : Folders \cup {None}, mode : Modes]

(* What a folder holds was put there by one of the changes so far.          *)
WorldOK ==
  /\ changes \in 0..MaxChanges
  /\ present \subseteq Folders /\ Root \in present
  /\ contents \in [Folders -> Stamp]
  /\ \A f \in Folders : contents[f] <= changes

WatchOK ==
  /\ pathToWatch \in Folders \cup {None}
  /\ pathGeneration \in Nat /\ previousStateGeneration \in Nat /\ poll \in Snapshots
  /\ previousState \in Stamp
  /\ previousStateGeneration <= pathGeneration /\ poll.generation <= pathGeneration

(* No update has a number from the future, and the pool takes them in the   *)
(* order of their numbers.                                                  *)
UpdatesOK ==
  /\ currentDir \in Folders /\ mode \in Modes
  /\ generation \in Nat /\ tasks \in Seq(UpdateTasks)
  /\ \A i \in DOMAIN tasks : tasks[i].generation <= generation
  /\ \A i, j \in DOMAIN tasks : i < j => tasks[i].generation < tasks[j].generation
  /\ \A i \in DOMAIN tasks :
       tasks[i].stage = "Publish"
         => tasks[i].listing \in [Scope(tasks[i].path, tasks[i].mode) -> Stamp]

QueueOK(q) == q \in Seq(Notices) /\ \A i, j \in ContentsNotices(q) : i = j
ViewsOK == ListingOf(items) /\ ListingOf(rows)

PanelInv == WorldOK /\ WatchOK /\ UpdatesOK /\ QueueOK(queue) /\ QueueOK(batch) /\ ViewsOK

(* A listing shows what its folders held then, and that was no later than   *)
(* what they hold now.                                                      *)
IsOfThePast(l) == \A f \in DOMAIN l : f \in present => l[f] <= contents[f]

(* An update that may still publish has listed its view after whatever the  *)
(* panel has committed of that view.                                        *)
ListingsAreOfThePast ==
  /\ IsOfThePast(items.listing)
  /\ \A i \in DOMAIN tasks : tasks[i].stage = "Publish" => IsOfThePast(tasks[i].listing)

TheUpdateIsNewer ==
  \A i \in DOMAIN tasks :
    /\ tasks[i].stage = "Publish" /\ tasks[i].generation = generation
    /\ belongsTo(tasks[i].path, tasks[i].mode)
    => \A f \in DOMAIN items.listing :
         f \in present => items.listing[f] <= tasks[i].listing[f]

AdvanceInv == ListingsAreOfThePast /\ TheUpdateIsNewer

-----------------------------------------------------------------------------
(* The folders.                                                             *)

LEMMA ParentIsAFolder == \A f \in Folders : ParentOf(f) \in Folders
<1> SUFFICES ASSUME NEW f \in Folders, f # Root
             PROVE  PathHierarchy[f][2] \in Folders
  BY FoldersAssumption DEF ParentOf
<1>1. /\ PathHierarchy[f] \in Seq(Folders) /\ PathHierarchy[f] # <<>>
      /\ PathHierarchy[f][1] = f /\ PathHierarchy[f][Len(PathHierarchy[f])] = Root
  BY FoldersAssumption
<1>2. Len(PathHierarchy[f]) \in Nat /\ Len(PathHierarchy[f]) >= 2
  BY <1>1
<1> QED
  BY <1>1, <1>2

(* No folder but the root itself takes the root with it.                    *)
LEMMA RootIsNotBelow == \A f \in Folders \ {Root} : Root \notin Descendants(f)
<1>1. PathHierarchy[Root] = <<Root>>
  <2> DEFINE path == PathHierarchy[Root]
  <2>1. /\ path \in Seq(Folders) /\ path # <<>> /\ path[Len(path)] = Root
        /\ \A i \in DOMAIN path : PathHierarchy[path[i]] = SubSeq(path, i, Len(path))
    BY FoldersAssumption
  <2>2. Len(path) \in DOMAIN path /\ Len(path) \in Nat
    BY <2>1
  <2>3. path = SubSeq(path, Len(path), Len(path))
    BY <2>1, <2>2
  <2>4. Len(SubSeq(path, Len(path), Len(path))) = 1
    BY <2>1, <2>2, SubSeqProperties
  <2>5. Len(path) = 1
    BY <2>3, <2>4
  <2> QED
    BY <2>1, <2>5
<1> QED
  BY <1>1 DEF Descendants

LEMMA ScopeIsOfFolders ==
  ASSUME NEW path \in Folders, NEW m \in Modes
  PROVE  Scope(path, m) \subseteq Folders
  BY DEF Scope, Descendants

LEMMA ListingsAreTyped ==
  ASSUME WorldOK, NEW path \in Folders, NEW m \in Modes
  PROVE  listing(path, m) \in [Scope(path, m) -> Stamp] /\ listing(path, m) \in Listings
<1>1. listing(path, m) \in [Scope(path, m) -> Stamp]
  BY ScopeIsOfFolders, ChangesAssumption DEF listing, SnapshotOf, WorldOK, Stamp, Empty
<1>2. <<path, m>> \in Folders \X Modes
  OBVIOUS
<1> QED
  BY <1>1, <1>2 DEF Listings

(* Items of a folder are not those that stand for none.                     *)
LEMMA AFolderIsSomething == items.path \in Folders => items # Nothing
<1>1. None \notin Folders
  BY FoldersAssumption
<1> QED
  BY <1>1 DEF Nothing

(* The nearest candidate exists: the root is one.                           *)
LEMMA LandingIsThere ==
  ASSUME WorldOK, NEW path \in Folders
  PROVE  Landing(path) \in Folders /\ Landing(path) \in present
<1> DEFINE candidates == PathHierarchy[path]
           T == {i \in DOMAIN candidates : candidates[i] \in present}
<1>1. candidates \in Seq(Folders) /\ candidates # <<>> /\ candidates[Len(candidates)] = Root
  BY FoldersAssumption
<1>2. T \subseteq Nat /\ Len(candidates) \in T
  BY <1>1 DEF WorldOK
<1>3. PICK i \in T : \A j \in T : i <= j
  BY <1>2, LeastElement
<1> QED
  BY <1>1, <1>3 DEF Landing, WorldOK

-----------------------------------------------------------------------------
(* The queue and the worker pool.                                           *)

(* A contents notice that is queued is the only one.                        *)
LEMMA OneNoticeWaits ==
  ASSUME NEW q, QueueOK(q), NEW notice \in Notices
  PROVE  QueueOK(withContentsNotice(q, notice))
<1> USE DEF QueueOK, ContentsNotices
<1> DEFINE rest == IF ContentsNotices(q) = {} THEN q
                   ELSE RemoveAt(q, CHOOSE i \in ContentsNotices(q) : TRUE)
<1>1. rest \in Seq(Notices) /\ ContentsNotices(rest) = {}
  <2>1. CASE ContentsNotices(q) = {}
    BY <2>1
  <2>2. CASE ContentsNotices(q) # {}
    <3> DEFINE i == CHOOSE i \in ContentsNotices(q) : TRUE
    <3>1. i \in DOMAIN q /\ \A j \in DOMAIN q : IsContentsNotice(q[j]) => j = i
      BY <2>2
    <3> HIDE DEF i
    <3>2. /\ RemoveAt(q, i) \in Seq(Notices) /\ Len(RemoveAt(q, i)) = Len(q) - 1
          /\ \A j \in 1..(Len(q) - 1) : RemoveAt(q, i)[j] = IF j < i THEN q[j] ELSE q[j + 1]
      BY <3>1, RemovedFrom
    <3>3. \A j \in DOMAIN RemoveAt(q, i) : ~ IsContentsNotice(RemoveAt(q, i)[j])
      BY <3>1, <3>2
    <3> QED
      BY <2>2, <3>2, <3>3 DEF i
  <2> QED
    BY <2>1, <2>2
<1> HIDE DEF rest
<1>2. Append(rest, notice) \in Seq(Notices)
  BY <1>1
<1>3. \A j \in ContentsNotices(Append(rest, notice)) : j = Len(rest) + 1
  BY <1>1
<1> QED
  BY <1>2, <1>3 DEF withContentsNotice, rest

LEMMA RecoveryIsNoContentsNotice ==
  ASSUME NEW q, QueueOK(q), NEW notice \in Notices, ~ IsContentsNotice(notice)
  PROVE  QueueOK(Append(q, notice))
<1>1. /\ Append(q, notice) \in Seq(Notices)
      /\ \A j \in ContentsNotices(Append(q, notice)) : j \in ContentsNotices(q)
  BY DEF QueueOK, ContentsNotices
<1> QED
  BY <1>1 DEF QueueOK

LEMMA QueueMayEmpty ==
  ASSUME NEW q, QueueOK(q)
  PROVE  QueueOK(<<>>) /\ (q # <<>> => QueueOK(Tail(q)) /\ Head(q) \in Notices)
<1>1. QueueOK(<<>>)
  BY DEF QueueOK, ContentsNotices
<1>2. ASSUME q # <<>>
      PROVE  QueueOK(Tail(q)) /\ Head(q) \in Notices
  <2>1. /\ Head(q) \in Notices /\ Tail(q) \in Seq(Notices) /\ Len(Tail(q)) = Len(q) - 1
        /\ \A j \in 1..Len(Tail(q)) : Tail(q)[j] = q[j + 1]
    BY <1>2, HeadTailProperties DEF QueueOK
  <2>2. \A j \in ContentsNotices(Tail(q)) : j + 1 \in ContentsNotices(q) /\ j \in Int
    BY <1>2, <2>1 DEF QueueOK, ContentsNotices
  <2> QED
    BY <2>1, <2>2 DEF QueueOK
<1> QED
  BY <1>1, <1>2


-----------------------------------------------------------------------------
(* What the handlers are made of keeps the invariant's parts.               *)

LEMMA WatchIsSet ==
  ASSUME WatchOK, NEW path \in Folders \cup {None}, setPathToWatch(path)
  PROVE  WatchOK'
  BY DEF WatchOK, setPathToWatch, watchVars, Snapshots

LEMMA UpdatesAreTyped ==
  ASSUME UpdatesOK, NEW i \in DOMAIN tasks
  PROVE  /\ tasks[i] \in UpdateTasks /\ tasks[i].generation \in Nat
         /\ tasks[i].path \in Folders /\ tasks[i].mode \in Modes
         /\ tasks[i].listing \in Listings /\ tasks[i].baseline \in Snapshots
<1>1. tasks[i] \in UpdateTasks
  BY DEF UpdatesOK
<1> QED
  BY <1>1 DEF UpdateTasks

LEMMA UpdateBegins ==
  ASSUME UpdatesOK, QueueOK(queue), NEW path \in Folders, NEW m \in Modes,
         beginFileListUpdate(path, m)
  PROVE  UpdatesOK' /\ QueueOK(queue')
<1> DEFINE task == UpdateTask(generation + 1, path, m)
<1>1. task \in UpdateTasks /\ task.stage = "Queued" /\ task.generation = generation + 1
  BY ChangesAssumption
  DEF UpdateTask, UpdateTasks, UpdatesOK, NoPoll, Snapshots, Listings, Stamp, Empty
<1> HIDE DEF task
<1>2. /\ currentDir' = path /\ mode' = m /\ generation' = generation + 1
      /\ tasks' = Append(tasks, task)
  BY DEF beginFileListUpdate, task
<1>3. UpdatesOK'
  <2>1. /\ generation \in Nat /\ tasks \in Seq(UpdateTasks)
        /\ \A i \in DOMAIN tasks : tasks[i].generation \in Nat
    BY UpdatesAreTyped DEF UpdatesOK
  <2>2. /\ tasks' \in Seq(UpdateTasks)
        /\ \A i \in DOMAIN tasks' :
             \/ i \in DOMAIN tasks /\ tasks'[i] = tasks[i]
             \/ tasks'[i] = task /\ i = Len(tasks) + 1
    BY <1>1, <1>2, <2>1
  <2>3. \A i \in DOMAIN tasks' : tasks'[i].generation <= generation'
    BY <1>1, <1>2, <2>1, <2>2 DEF UpdatesOK
  <2>4. \A i, j \in DOMAIN tasks' : i < j => tasks'[i].generation < tasks'[j].generation
    BY <1>1, <1>2, <2>1, <2>2 DEF UpdatesOK
  <2>5. \A i \in DOMAIN tasks' :
          tasks'[i].stage = "Publish"
            => tasks'[i].listing \in [Scope(tasks'[i].path, tasks'[i].mode) -> Stamp]
    BY <1>1, <2>2 DEF UpdatesOK
  <2> QED
    BY <1>2, <2>1, <2>2, <2>3, <2>4, <2>5 DEF UpdatesOK
<1>4. Notice("Invalidated", generation') \in Notices
  BY <1>2 DEF Notice, Notices, UpdatesOK, Modes
<1>5. QueueOK(queue')
  BY <1>4, OneNoticeWaits DEF beginFileListUpdate
<1> QED
  BY <1>3, <1>5

LEMMA PathIsSet ==
  ASSUME WorldOK, WatchOK, UpdatesOK, QueueOK(queue), NEW path \in Folders, setPath(path)
  PROVE  WatchOK' /\ UpdatesOK' /\ QueueOK(queue')
<1>1. Landing(path) \in Folders /\ Normal \in Modes
  BY LandingIsThere DEF Modes
<1>2. beginFileListUpdate(Landing(path), Normal) /\ setPathToWatch(Landing(path))
  BY DEF setPath
<1>3. WatchOK'
  BY <1>1, <1>2, WatchIsSet
<1>4. UpdatesOK' /\ QueueOK(queue')
  BY <1>1, <1>2, UpdateBegins
<1> QED
  BY <1>3, <1>4

LEMMA UpdateGoesOn ==
  ASSUME UpdatesOK, NEW i \in DOMAIN tasks, NEW next \in UpdateTasks, Goes(i, next),
         next.generation = tasks[i].generation,
         next.stage = "Publish" => next.listing \in [Scope(next.path, next.mode) -> Stamp],
         UNCHANGED <<currentDir, mode, generation>>
  PROVE  UpdatesOK'
<1>1. /\ tasks' \in Seq(UpdateTasks) /\ DOMAIN tasks' = DOMAIN tasks
      /\ \A j \in DOMAIN tasks : tasks'[j] = IF j = i THEN next ELSE tasks[j]
  BY DEF Goes, UpdatesOK
<1> QED
  BY <1>1 DEF UpdatesOK

(* The updates that are left are updates there were, in the same order.     *)
LEMMA UpdatesLeft ==
  ASSUME UpdatesOK, NEW i \in DOMAIN tasks, Ends(i)
  PROVE  /\ tasks' \in Seq(UpdateTasks)
         /\ \A j \in DOMAIN tasks' :
              LET k == IF j < i THEN j ELSE j + 1 IN k \in DOMAIN tasks \ {i} /\ tasks'[j] = tasks[k]
<1>1. /\ tasks' \in Seq(UpdateTasks) /\ Len(tasks') = Len(tasks) - 1
      /\ \A j \in 1..(Len(tasks) - 1) : tasks'[j] = IF j < i THEN tasks[j] ELSE tasks[j + 1]
  <2>1. tasks \in Seq(UpdateTasks) /\ i \in 1..Len(tasks)
    BY DEF UpdatesOK
  <2>2. tasks' = RemoveAt(tasks, i)
    BY DEF Ends
  <2>3. /\ RemoveAt(tasks, i) \in Seq(UpdateTasks)
        /\ Len(RemoveAt(tasks, i)) = Len(tasks) - 1
        /\ \A j \in 1..(Len(tasks) - 1) :
             RemoveAt(tasks, i)[j] = tasks[IF j < i THEN j ELSE j + 1]
    BY <2>1, RemovedFrom
  <2> QED
    BY <2>2, <2>3
<1>2. Len(tasks) \in Nat /\ i \in 1..Len(tasks) /\ DOMAIN tasks = 1..Len(tasks)
  BY DEF UpdatesOK
<1> QED
  BY <1>1, <1>2

LEMMA UpdateEnds ==
  ASSUME UpdatesOK, NEW i \in DOMAIN tasks, Ends(i), UNCHANGED <<currentDir, mode, generation>>
  PROVE  UpdatesOK'
<1>1. /\ tasks' \in Seq(UpdateTasks)
      /\ \A j \in DOMAIN tasks' :
           LET k == IF j < i THEN j ELSE j + 1 IN k \in DOMAIN tasks \ {i} /\ tasks'[j] = tasks[k]
  BY UpdatesLeft
<1>2. DOMAIN tasks' \subseteq Nat /\ DOMAIN tasks \subseteq Nat
  BY <1>1 DEF UpdatesOK
<1>3. ASSUME NEW j \in DOMAIN tasks', NEW l \in DOMAIN tasks', j < l
      PROVE  tasks'[j].generation < tasks'[l].generation
  <2> DEFINE k(n) == IF n < i THEN n ELSE n + 1
  <2>1. k(j) \in DOMAIN tasks /\ k(l) \in DOMAIN tasks /\ k(j) < k(l)
    BY <1>1, <1>2, <1>3
  <2>2. tasks'[j] = tasks[k(j)] /\ tasks'[l] = tasks[k(l)]
    BY <1>1, <1>3
  <2> HIDE DEF k
  <2> QED
    BY <2>1, <2>2 DEF UpdatesOK
<1>4. \A j \in DOMAIN tasks' : \E k \in DOMAIN tasks : tasks'[j] = tasks[k]
  BY <1>1
<1> QED
  BY <1>1, <1>3, <1>4 DEF UpdatesOK


-----------------------------------------------------------------------------
(* Type correctness.                                                        *)

LEMMA InitPanelInv == Init => PanelInv
<1> SUFFICES ASSUME Init
             PROVE  PanelInv
  OBVIOUS
<1> USE ChangesAssumption DEF Stamp, Empty
<1>1. PICK path \in Folders : Restored(path) \/ LeftFlattened(path)
  BY DEF Init
<1>2. WatcherInit /\ batch = <<>> /\ rows = Blank
  BY DEF Init
<1>3. WorldOK
  BY <1>2, FoldersAssumption DEF WatcherInit, WorldOK
<1>4. WatchOK
  BY <1>1, <1>2 DEF WatcherInit, Restored, LeftFlattened, WatchOK, NoPoll, Snapshots
<1>5. QueueOK(batch)
  BY <1>2 DEF QueueOK, ContentsNotices
<1>6. ListingOf(rows)
  BY <1>2 DEF Blank, ListingOf
<1>7. UpdatesOK /\ QueueOK(queue) /\ ListingOf(items)
  <2>1. CASE Restored(path)
    <3>1. UpdateTask(1, path, Normal) \in UpdateTasks
      BY DEF UpdateTask, UpdateTasks, NoPoll, Snapshots, Listings, Modes
    <3>2. UpdateTask(1, path, Normal).generation = 1 /\ UpdateTask(1, path, Normal).stage = "Queued"
      BY DEF UpdateTask
    <3>3. Notice("Invalidated", 1) \in Notices
      BY DEF Notice, Notices, Modes
    <3>4. /\ currentDir = path /\ mode = Normal /\ generation = 1 /\ items = Nothing
          /\ tasks = <<UpdateTask(1, path, Normal)>> /\ queue = <<Notice("Invalidated", 1)>>
      BY <2>1 DEF Restored
    <3>5. UpdatesOK
      BY <3>1, <3>2, <3>4 DEF UpdatesOK, Modes
    <3>6. QueueOK(queue)
      BY <3>3, <3>4 DEF QueueOK, ContentsNotices
    <3> QED
      BY <3>4, <3>5, <3>6 DEF ListingOf
  <2>2. CASE LeftFlattened(path)
    <3>1. /\ currentDir = path /\ mode = AllObjects /\ generation = 2
          /\ items = [path |-> path, mode |-> AllObjects, listing |-> listing(path, AllObjects)]
          /\ tasks = <<>> /\ queue = <<>>
      BY <2>2 DEF LeftFlattened
    <3>2. UpdatesOK /\ QueueOK(queue)
      BY <3>1 DEF UpdatesOK, QueueOK, ContentsNotices, Modes
    <3>3. ListingOf(items)
      BY <1>3, <3>1, ListingsAreTyped DEF ListingOf, Modes
    <3> QED
      BY <3>2, <3>3
  <2> QED
    BY <1>1, <2>1, <2>2
<1> QED
  BY <1>3, <1>4, <1>5, <1>6, <1>7 DEF PanelInv, ViewsOK

LEMMA OthersStep == WorldOK /\ others => WorldOK' /\ present' \subseteq present
<1> SUFFICES ASSUME WorldOK, NEW folder \in Folders,
                    folderChanges(folder) \/ folderVanishes(folder)
             PROVE  WorldOK' /\ present' \subseteq present
  BY DEF others
<1> USE ChangesAssumption DEF WorldOK, Stamp, Empty, Change
<1>1. changes' = changes + 1 /\ changes' \in 0..MaxChanges
  BY DEF folderChanges, folderVanishes
<1>2. CASE folderChanges(folder)
  <2>1. PICK stamp \in 0..changes' : contents' = [contents EXCEPT ![folder] = stamp]
    <3>1. PICK stamp \in {changes'} \cup 0..changes : contents' = [contents EXCEPT ![folder] = stamp]
      BY <1>2, Zenon DEF folderChanges
    <3>2. stamp \in 0..changes'
      BY <1>1
    <3> QED
      BY <3>1, <3>2
  <2>2. present' = present
    BY <1>2 DEF folderChanges
  <2> QED
    BY <1>1, <2>1, <2>2
<1>3. CASE folderVanishes(folder)
  <2>1. present' = present \ Descendants(folder) /\ folder # Root
        /\ contents' = [contents EXCEPT ![ParentOf(folder)] = changes']
    BY <1>3 DEF folderVanishes
  <2>2. contents' \in [Folders -> Stamp] /\ \A f \in Folders : contents'[f] <= changes'
    <3>1. changes' \in Stamp /\ changes < changes'
      BY <1>1
    <3>2. \A f \in Folders : contents'[f] = IF f = ParentOf(folder) THEN changes' ELSE contents[f]
      BY <2>1
    <3>3. contents' \in [Folders -> Stamp]
      BY <2>1, <3>1
    <3> QED
      BY <1>1, <3>1, <3>2, <3>3
  <2>3. present' \subseteq present /\ Root \in present'
    BY <2>1, RootIsNotBelow
  <2> QED
    BY <1>1, <2>2, <2>3
<1> QED
  BY <1>2, <1>3

LEMMA PollStep == WorldOK /\ WatchOK /\ pollThread => WatchOK' /\ UNCHANGED worldVars
<1> SUFFICES ASSUME WorldOK, WatchOK, pollThread
             PROVE  WatchOK' /\ UNCHANGED worldVars
  OBVIOUS
<1> USE ChangesAssumption DEF WatchOK, Snapshots, Stamp, Empty, NoPoll, worldVars
<1>1. CASE onCheckForChanges
  <2>1. pathToWatch \in Folders /\ SnapshotOf(pathToWatch) \in Stamp
    BY <1>1 DEF onCheckForChanges, SnapshotOf, WorldOK
  <2> QED
    BY <1>1, <2>1 DEF onCheckForChanges
<1>2. CASE processChanges
  BY <1>2 DEF processChanges
<1> QED
  BY <1>1, <1>2 DEF pollThread


LEMMA PanelStep == PanelInv /\ [Next]_vars => PanelInv'
<1> SUFFICES ASSUME PanelInv, [Next]_vars
             PROVE  PanelInv'
  OBVIOUS
<1>0. WorldOK /\ WatchOK /\ UpdatesOK /\ QueueOK(queue) /\ QueueOK(batch) /\ ViewsOK
  BY DEF PanelInv
<1>a. Normal \in Modes /\ AllObjects \in Modes /\ Notice("Changed", generation) \in Notices
  BY <1>0 DEF Modes, Notice, Notices, UpdatesOK
<1>b. ASSUME UNCHANGED worldVars
      PROVE  WorldOK'
  BY <1>0, <1>b DEF WorldOK, worldVars
<1>c. ASSUME UNCHANGED watchVars
      PROVE  WatchOK'
  BY <1>0, <1>c DEF WatchOK, watchVars
<1>d. ASSUME UNCHANGED <<currentDir, mode, generation, tasks>>
      PROVE  UpdatesOK'
  BY <1>0, <1>d DEF UpdatesOK
<1>e. ASSUME UNCHANGED <<items, rows>>
      PROVE  ViewsOK'
  BY <1>0, <1>e DEF ViewsOK, ListingOf, Nothing
<1>f. ASSUME items' = items, rows' = rows \/ rows' = list \/ rows' = Blank
      PROVE  ViewsOK'
  BY <1>0, <1>f DEF ViewsOK, ListingOf, list, Blank, Nothing
<1>1. ASSUME NEW path \in Folders, goTo(path)
      PROVE  PanelInv'
  <2>1. setPath(path) /\ UNCHANGED <<worldVars, batch, items, rows>>
    BY <1>1 DEF goTo, Command
  <2> QED
    BY <1>0, <1>b, <1>e, <2>1, PathIsSet DEF PanelInv
<1>2. CASE navigateUp
  <2>1. UNCHANGED <<worldVars, batch, items, rows>>
    BY <1>2 DEF navigateUp, Command
  <2>2. CASE \E path \in Folders : setPath(path)
    BY <1>0, <1>b, <1>e, <2>1, <2>2, PathIsSet DEF PanelInv
  <2>3. CASE /\ queue' = withContentsNotice(queue, Notice("Changed", generation))
             /\ UNCHANGED <<currentDir, mode, generation, tasks, watchVars>>
    BY <1>0, <1>a, <1>b, <1>c, <1>d, <1>e, <2>1, <2>3, OneNoticeWaits DEF PanelInv
  <2>4. currentDir \in Folders /\ ParentOf(currentDir) \in Folders
    BY <1>0, ParentIsAFolder DEF UpdatesOK
  <2> QED
    BY <1>2, <2>2, <2>3, <2>4 DEF navigateUp
<1>3. CASE showAllFilesFromCurrentFolderAndBelow
  <2>1. /\ beginFileListUpdate(currentDir, AllObjects) /\ setPathToWatch(None)
        /\ UNCHANGED <<worldVars, batch, items, rows>>
    BY <1>3 DEF showAllFilesFromCurrentFolderAndBelow, Command
  <2>2. currentDir \in Folders
    BY <1>0 DEF UpdatesOK
  <2> QED
    BY <1>0, <1>a, <1>b, <1>e, <2>1, <2>2, UpdateBegins, WatchIsSet DEF PanelInv
<1>4. CASE refresh
  <2>1. refreshFileList /\ UNCHANGED <<worldVars, watchVars, batch, items, rows>>
    BY <1>4 DEF refresh, Command
  <2> QED
    BY <1>0, <1>b, <1>c, <1>e, <2>1, UpdateBegins DEF PanelInv, refreshFileList, UpdatesOK
<1>5. CASE activate
  <2>1. /\ refreshFileList /\ UNCHANGED <<worldVars, batch, items>> /\ rows' = list
        /\ setPathToWatch(IF mode = Normal THEN currentDir ELSE None)
    BY <1>5 DEF activate, Command
  <2>2. currentDir \in Folders /\ mode \in Modes
    BY <1>0 DEF UpdatesOK
  <2>3. WatchOK'
    BY <1>0, <2>1, <2>2, WatchIsSet
  <2>4. UpdatesOK' /\ QueueOK(queue')
    BY <1>0, <2>1, <2>2, UpdateBegins DEF refreshFileList
  <2> QED
    BY <1>0, <1>b, <1>f, <2>1, <2>3, <2>4 DEF PanelInv
<1>6. CASE deactivate
  <2>1. /\ setPathToWatch(None) /\ rows' = Blank
        /\ UNCHANGED <<worldVars, batch, items, currentDir, mode, generation, tasks, queue>>
    BY <1>6 DEF deactivate, Command
  <2> QED
    BY <1>0, <1>b, <1>d, <1>f, <2>1, WatchIsSet DEF PanelInv
<1>7. CASE directorySizeIsKnown
  BY <1>0, <1>7, <1>a, <1>b, <1>c, <1>d, <1>e, OneNoticeWaits DEF directorySizeIsKnown, PanelInv
<1>8. ASSUME NEW i \in DOMAIN tasks, startUpdate(i)
      PROVE  PanelInv'
  <2>1. UNCHANGED <<worldVars, watchVars, items, rows, batch, currentDir, mode, generation>>
    BY <1>8 DEF startUpdate, WorkerStep
  <2>2. tasks[i] \in UpdateTasks
    BY <1>0, UpdatesAreTyped
  <2>3. CASE tasks[i].path \in present
    <3>1. SnapshotOf(pathToWatch) \in Stamp /\ pathGeneration \in Nat
      BY <1>0, ChangesAssumption DEF SnapshotOf, WorldOK, WatchOK, Stamp, Empty
    <3>2. PICK next \in UpdateTasks :
            /\ Goes(i, next) /\ queue' = queue
            /\ next.generation = tasks[i].generation /\ next.stage # "Publish"
      <4>1. CASE tasks[i].mode = Normal /\ NeedsBaseline
        <5> DEFINE next == [tasks[i] EXCEPT !.stage = "Baseline",
                              !.baseline = [generation |-> pathGeneration,
                                            state |-> SnapshotOf(pathToWatch)]]
        <5>1. Goes(i, next) /\ queue' = queue
          BY <1>8, <2>3, <4>1 DEF startUpdate
        <5>2. /\ next \in UpdateTasks /\ next.generation = tasks[i].generation
              /\ next.stage # "Publish"
          BY <2>2, <3>1 DEF UpdateTasks, Snapshots
        <5> QED
          BY <5>1, <5>2
      <4>2. CASE ~ (tasks[i].mode = Normal /\ NeedsBaseline)
        <5> DEFINE next == [tasks[i] EXCEPT !.stage = "Enumerate"]
        <5>1. Goes(i, next) /\ queue' = queue
          BY <1>8, <2>3, <4>2 DEF startUpdate
        <5>2. /\ next \in UpdateTasks /\ next.generation = tasks[i].generation
              /\ next.stage # "Publish"
          BY <2>2 DEF UpdateTasks
        <5> QED
          BY <5>1, <5>2
      <4> QED
        BY <4>1, <4>2
    <3>3. UpdatesOK'
      BY <1>0, <2>1, <3>2, UpdateGoesOn
    <3> QED
      BY <1>0, <1>b, <1>c, <1>e, <2>1, <3>2, <3>3 DEF PanelInv
  <2>4. CASE tasks[i].path \notin present
    <3> DEFINE notice == [kind |-> "Recover", generation |-> tasks[i].generation,
                          path |-> tasks[i].path, mode |-> tasks[i].mode]
    <3>1. Ends(i) /\ queue' = Append(queue, notice)
      BY <1>8, <2>4 DEF startUpdate
    <3>2. notice \in Notices /\ ~ IsContentsNotice(notice)
      BY <2>2 DEF UpdateTasks, Notices, IsContentsNotice
    <3> HIDE DEF notice
    <3>3. UpdatesOK' /\ QueueOK(queue')
      BY <1>0, <2>1, <3>1, <3>2, UpdateEnds, RecoveryIsNoContentsNotice
    <3> QED
      BY <1>0, <1>b, <1>c, <1>e, <2>1, <3>3 DEF PanelInv
  <2> QED
    BY <2>3, <2>4
<1>9. ASSUME NEW i \in DOMAIN tasks, captureBaseline(i)
      PROVE  PanelInv'
  <2> DEFINE next == [tasks[i] EXCEPT !.stage = "Enumerate", !.baseline = NoPoll]
  <2>1. /\ UNCHANGED <<worldVars, items, rows, queue, batch, currentDir, mode, generation>>
        /\ Goes(i, next)
        /\ commitBaseline(tasks[i].baseline.generation, tasks[i].baseline.state)
    BY <1>9 DEF captureBaseline, WorkerStep
  <2>2. /\ next \in UpdateTasks /\ next.generation = tasks[i].generation
        /\ next.stage # "Publish"
    <3>1. NoPoll \in Snapshots
      BY ChangesAssumption DEF NoPoll, Snapshots, Stamp, Empty
    <3>2. tasks[i] \in UpdateTasks
      BY <1>0, UpdatesAreTyped
    <3> QED
      BY <3>1, <3>2 DEF UpdateTasks
  <2>3. tasks[i].baseline.state \in Stamp
    BY <1>0, UpdatesAreTyped DEF Snapshots
  <2> HIDE DEF next
  <2>4. UpdatesOK'
    BY <1>0, <2>1, <2>2, UpdateGoesOn
  <2>5. WatchOK'
    BY <1>0, <2>1, <2>3 DEF commitBaseline, WatchOK, watchVars
  <2> QED
    BY <1>0, <1>b, <1>e, <2>1, <2>4, <2>5 DEF PanelInv
<1>10. ASSUME NEW i \in DOMAIN tasks, enumerate(i)
       PROVE  PanelInv'
  <2> DEFINE next == [tasks[i] EXCEPT !.stage = "Publish",
                                      !.listing = listing(tasks[i].path, tasks[i].mode)]
  <2>1. /\ UNCHANGED <<worldVars, watchVars, items, rows, queue, batch, currentDir, mode, generation>>
        /\ Goes(i, next)
    BY <1>10 DEF enumerate, WorkerStep
  <2>2. tasks[i] \in UpdateTasks /\ tasks[i].path \in Folders /\ tasks[i].mode \in Modes
    BY <1>0, UpdatesAreTyped
  <2>3. /\ next \in UpdateTasks /\ next.generation = tasks[i].generation
        /\ next.path = tasks[i].path /\ next.mode = tasks[i].mode
        /\ next.listing = listing(tasks[i].path, tasks[i].mode)
    BY <1>0, <2>2, ListingsAreTyped DEF UpdateTasks
  <2>4. next.listing \in [Scope(next.path, next.mode) -> Stamp]
    BY <1>0, <2>2, <2>3, ListingsAreTyped
  <2> HIDE DEF next
  <2>5. UpdatesOK'
    BY <1>0, <2>1, <2>3, <2>4, UpdateGoesOn
  <2> QED
    BY <1>0, <1>b, <1>c, <1>e, <2>1, <2>5 DEF PanelInv
<1>11. ASSUME NEW i \in DOMAIN tasks, publishFileListIfCurrent(i)
       PROVE  PanelInv'
  <2>1. /\ UNCHANGED <<worldVars, watchVars, rows, batch, currentDir, mode, generation>>
        /\ Ends(i) /\ tasks[i].stage = "Publish"
    BY <1>11 DEF publishFileListIfCurrent, WorkerStep
  <2>2. UpdatesOK'
    BY <1>0, <2>1, UpdateEnds
  <2>3. CASE UNCHANGED <<items, queue>>
    BY <1>0, <1>b, <1>c, <1>e, <2>1, <2>2, <2>3 DEF PanelInv
  <2>4. CASE /\ items' = [path |-> tasks[i].path, mode |-> tasks[i].mode,
                          listing |-> tasks[i].listing]
             /\ queue' = withContentsNotice(queue, Notice("Changed", tasks[i].generation))
    <3>1. /\ tasks[i].path \in Folders /\ tasks[i].mode \in Modes /\ tasks[i].generation \in Nat
          /\ tasks[i].listing \in [Scope(tasks[i].path, tasks[i].mode) -> Stamp]
      BY <1>0, <2>1, UpdatesAreTyped DEF UpdatesOK
    <3>2. Notice("Changed", tasks[i].generation) \in Notices
      BY <1>a, <3>1 DEF Notice, Notices
    <3>3. QueueOK(queue')
      BY <1>0, <2>4, <3>2, OneNoticeWaits
    <3>4. ViewsOK'
      BY <1>0, <2>1, <2>4, <3>1 DEF ViewsOK, ListingOf, Modes, Nothing
    <3> QED
      BY <1>0, <1>b, <1>c, <2>1, <2>2, <3>3, <3>4 DEF PanelInv
  <2> QED
    BY <1>11, <2>3, <2>4 DEF publishFileListIfCurrent
<1>12. CASE tickStarts
  BY <1>0, <1>12, <1>b, <1>c, <1>d, <1>e, QueueMayEmpty DEF tickStarts, PanelInv
<1>13. CASE deliverContentsNotice
  <2>1. /\ batch # <<>> /\ batch' = Tail(batch)
        /\ rows' = rows \/ rows' = list \/ rows' = Blank
        /\ UNCHANGED <<worldVars, items, watchVars, currentDir, mode, generation, tasks, queue>>
    BY <1>13 DEF deliverContentsNotice, Delivery
  <2> QED
    BY <1>0, <1>b, <1>c, <1>d, <1>f, <2>1, QueueMayEmpty DEF PanelInv
<1>14. CASE recoverFromInaccessiblePathIfCurrent
  <2>1. batch # <<>> /\ batch' = Tail(batch) /\ UNCHANGED <<worldVars, items, rows>>
    BY <1>14 DEF recoverFromInaccessiblePathIfCurrent, Delivery
  <2>2. CASE fileListUpdateIsCurrent(Head(batch)) /\ setPath(Head(batch).path)
    <3>1. Head(batch).path \in Folders
      BY <1>0, <2>2 DEF fileListUpdateIsCurrent, UpdatesOK
    <3> QED
      BY <1>0, <1>b, <1>e, <2>1, <2>2, <3>1, PathIsSet, QueueMayEmpty DEF PanelInv
  <2>3. CASE UNCHANGED <<watchVars, currentDir, mode, generation, tasks, queue>>
    BY <1>0, <1>b, <1>c, <1>d, <1>e, <2>1, <2>3, QueueMayEmpty DEF PanelInv
  <2> QED
    BY <1>14, <2>2, <2>3 DEF recoverFromInaccessiblePathIfCurrent
<1>15. CASE refreshIfWatcherDetectedChanges
  <2>1. /\ UNCHANGED <<worldVars, batch, items, rows>>
        /\ UNCHANGED <<pathToWatch, pathGeneration, previousState, previousStateGeneration, poll>>
        /\ refreshFileList \/ UNCHANGED <<currentDir, mode, generation, tasks, queue>>
    BY <1>15 DEF refreshIfWatcherDetectedChanges
  <2>2. WatchOK'
    BY <1>0, <2>1 DEF WatchOK
  <2>3. UpdatesOK' /\ QueueOK(queue')
    BY <1>0, <1>d, <2>1, UpdateBegins DEF refreshFileList, UpdatesOK
  <2> QED
    BY <1>0, <1>b, <1>e, <2>1, <2>2, <2>3 DEF PanelInv
<1>16. CASE pollThread /\ UNCHANGED panelVars
  BY <1>0, <1>16, <1>b, <1>d, <1>e, PollStep DEF panelVars, PanelInv
<1>17. CASE others /\ UNCHANGED panelVars
  <2>1. UNCHANGED watchVars
    BY <1>17 DEF others, folderChanges, folderVanishes
  <2> QED
    BY <1>0, <1>17, <1>c, <1>d, <1>e, <2>1, OthersStep DEF panelVars, PanelInv
<1>18. CASE UNCHANGED vars
  BY <1>0, <1>18, <1>b, <1>c, <1>d, <1>e DEF vars, panelVars, PanelInv
<1> QED
  BY <1>1, <1>2, <1>3, <1>4, <1>5, <1>6, <1>7, <1>8, <1>9, <1>10, <1>11, <1>12, <1>13, <1>14,
     <1>15, <1>16, <1>17, <1>18
  DEF Next, command, worker, Running, uiThreadTimerTick

LEMMA PanelInvHolds == Spec => []PanelInv
<1> QED
  BY InitPanelInv, PanelStep, PTL DEF Spec

(* Every part of the state stays in its range, at most one contents notice  *)
(* waits, and no two updates have one number (cpanel.cpp:75-85, 505-525).   *)
THEOREM PanelTypeCorrectness == Spec => []PanelTypeOK
<1>1. PanelInv => PanelTypeOK
  BY DEF PanelInv, PanelTypeOK, WorldOK, WatchOK, UpdatesOK, QueueOK, ViewsOK, Modes
<1> QED
  BY <1>1, PanelInvHolds, PTL

-----------------------------------------------------------------------------
(* The watch. Folders only ever go, so a tab whose folder is there has been *)
(* able to watch it since it was set.                                       *)

LEMMA WatchStep == WorldOK /\ WatchFollowsTheView /\ [Next]_vars => WatchFollowsTheView'
<1> SUFFICES ASSUME WorldOK, WatchFollowsTheView, [Next]_vars
             PROVE  WatchFollowsTheView'
  OBVIOUS
<1> USE DEF WatchFollowsTheView, Normal, AllObjects
<1>a. ASSUME NEW path, setPath(path), UNCHANGED worldVars
      PROVE  WatchFollowsTheView'
  BY <1>a DEF setPath, beginFileListUpdate, setPathToWatch, worldVars
<1>1. CASE \E path \in Folders : goTo(path)
  BY <1>1, <1>a DEF goTo, Command
<1>2. CASE navigateUp
  <2>1. UNCHANGED <<worldVars, active>>
    BY <1>2 DEF navigateUp, Command
  <2> QED
    BY <1>2, <1>a, <2>1 DEF navigateUp, worldVars, watchVars
<1>3. CASE showAllFilesFromCurrentFolderAndBelow
  BY <1>3
  DEF showAllFilesFromCurrentFolderAndBelow, beginFileListUpdate, setPathToWatch
<1>4. CASE refresh
  BY <1>4 DEF refresh, refreshFileList, beginFileListUpdate, Command, worldVars, watchVars
<1>5. CASE activate
  BY <1>5 DEF activate, refreshFileList, beginFileListUpdate, setPathToWatch, Command, worldVars
<1>6. CASE deactivate
  <2>1. ~ active'
    BY <1>6 DEF deactivate
  <2> QED
    BY <2>1
<1>7. ASSUME UNCHANGED <<present, active, currentDir, mode, pathToWatch>>
      PROVE  WatchFollowsTheView'
  BY <1>7
<1>15. CASE directorySizeIsKnown
  BY <1>7, <1>15 DEF directorySizeIsKnown, worldVars, watchVars
<1>8. CASE worker
  BY <1>7, <1>8
  DEF worker, startUpdate, captureBaseline, enumerate, publishFileListIfCurrent, WorkerStep,
      commitBaseline, worldVars, watchVars
<1>9. CASE tickStarts \/ deliverContentsNotice
  BY <1>7, <1>9 DEF tickStarts, deliverContentsNotice, Delivery, worldVars, watchVars
<1>10. CASE recoverFromInaccessiblePathIfCurrent
  BY <1>7, <1>10, <1>a
  DEF recoverFromInaccessiblePathIfCurrent, Delivery, worldVars, watchVars
<1>11. CASE refreshIfWatcherDetectedChanges
  BY <1>7, <1>11
  DEF refreshIfWatcherDetectedChanges, refreshFileList, beginFileListUpdate, worldVars
<1>12. CASE pollThread /\ UNCHANGED panelVars
  BY <1>7, <1>12
  DEF pollThread, onCheckForChanges, processChanges, panelVars, worldVars
<1>13. CASE others /\ UNCHANGED panelVars
  <2>1. present' \subseteq present /\ UNCHANGED watchVars
    BY <1>13, OthersStep DEF others, folderChanges, folderVanishes
  <2> QED
    BY <1>13, <2>1 DEF panelVars, watchVars
<1>14. CASE UNCHANGED vars
  BY <1>7, <1>14 DEF vars, panelVars, worldVars, watchVars
<1> QED
  BY <1>1, <1>2, <1>3, <1>4, <1>5, <1>6, <1>8, <1>9, <1>10, <1>11, <1>12, <1>13, <1>14, <1>15
  DEF Next, command, uiThreadTimerTick

(* While a tab is on screen and its folder exists, the watcher looks at that *)
(* folder, or at none in the flattened view (cpanel.cpp:55-73, 163-164).     *)
THEOREM TheWatchFollows == Spec => []WatchFollowsTheView
<1>1. Init => WatchFollowsTheView
  BY DEF Init, Restored, LeftFlattened, WatchFollowsTheView, Normal, AllObjects
<1>2. PanelInv => WorldOK
  BY DEF PanelInv
<1> QED
  BY <1>1, <1>2, WatchStep, PanelInvHolds, PTL DEF Spec

-----------------------------------------------------------------------------
(* The listings get newer. This is about what others do once: a folder they *)
(* restored would look older than it is.                                    *)

LEMMA OthersOnlyAdd ==
  ASSUME WorldOK, ~ ChangesAreUndone, others
  PROVE  \A f \in present' : f \in present /\ contents[f] \in Nat /\ contents'[f] \in Nat
                              /\ contents[f] <= contents'[f]
<1>1. PICK folder \in Folders : folderChanges(folder) \/ folderVanishes(folder)
  BY DEF others
<1>2. /\ changes \in Nat /\ present \subseteq Folders /\ contents \in [Folders -> Stamp]
      /\ \A f \in Folders : contents[f] \in Nat /\ contents[f] <= changes
  BY ChangesAssumption DEF WorldOK, Stamp, Empty
<1>3. PICK f \in Folders : contents' = [contents EXCEPT ![f] = changes + 1]
  <2>1. CASE folderChanges(folder)
    <3>1. contents' = [contents EXCEPT ![folder] = changes + 1]
      BY <2>1, ~ ChangesAreUndone DEF folderChanges, MayBeAsBefore, Change
    <3> QED
      BY <3>1
  <2>2. CASE folderVanishes(folder)
    BY <2>2, ParentIsAFolder DEF folderVanishes, Change
  <2> QED
    BY <1>1, <2>1, <2>2
<1>4. present' \subseteq present
  BY OthersStep
<1>5. \A g \in Folders : contents'[g] = contents[g] \/ contents'[g] = changes + 1
  BY <1>2, <1>3
<1> QED
  BY <1>2, <1>4, <1>5

LEMMA ListedIsANumber ==
  ASSUME UpdatesOK, ViewsOK
  PROVE  /\ \A f \in DOMAIN items.listing : f \in Folders /\ items.listing[f] \in Nat
         /\ \A i \in DOMAIN tasks :
              tasks[i].stage = "Publish"
                => \A f \in DOMAIN tasks[i].listing :
                     f \in Folders /\ tasks[i].listing[f] \in Nat
<1> USE ChangesAssumption DEF Stamp, Empty
<1>1. \A f \in DOMAIN items.listing : f \in Folders /\ items.listing[f] \in Nat
  <2>1. CASE items = Nothing
    BY <2>1 DEF Nothing
  <2>2. CASE items # Nothing
    <3>1. /\ items.listing \in [Scope(items.path, items.mode) -> Stamp]
          /\ items.path \in Folders /\ items.mode \in Modes
      BY <2>2 DEF ViewsOK, ListingOf, Modes
    <3> QED
      BY <3>1, ScopeIsOfFolders
  <2> QED
    BY <2>1, <2>2
<1>2. ASSUME NEW i \in DOMAIN tasks, tasks[i].stage = "Publish",
             NEW f \in DOMAIN tasks[i].listing
      PROVE  f \in Folders /\ tasks[i].listing[f] \in Nat
  BY <1>2, UpdatesAreTyped, ScopeIsOfFolders DEF UpdatesOK
<1> QED
  BY <1>1, <1>2

(* What an update lists now is not older than anything listed before.       *)
LEMMA ListingIsTheNewest ==
  ASSUME WorldOK, NEW path \in Folders, NEW m \in Modes
  PROVE  \A f \in DOMAIN listing(path, m) : f \in present => listing(path, m)[f] = contents[f]
  BY DEF listing, SnapshotOf

(* The six ways a step touches what the invariant is about.                 *)

LEMMA AdvanceWithoutChange ==
  ASSUME AdvanceInv, UNCHANGED <<present, contents, items, tasks, generation>>
  PROVE  AdvanceInv'
  BY DEF AdvanceInv, ListingsAreOfThePast, TheUpdateIsNewer, IsOfThePast, belongsTo

LEMMA AdvanceWhenUpdateBegins ==
  ASSUME AdvanceInv, UpdatesOK, UNCHANGED <<present, contents, items>>,
         NEW path \in Folders, NEW m \in Modes, beginFileListUpdate(path, m)
  PROVE  AdvanceInv'
<1> DEFINE task == UpdateTask(generation + 1, path, m)
<1>1. task.stage = "Queued"
  BY DEF UpdateTask
<1>2. generation' = generation + 1 /\ tasks' = Append(tasks, task)
  BY DEF beginFileListUpdate
<1> HIDE DEF task
<1>3. \A i \in DOMAIN tasks' :
        \/ tasks'[i].stage # "Publish"
        \/ i \in DOMAIN tasks /\ tasks'[i] = tasks[i]
  BY <1>1, <1>2 DEF UpdatesOK
<1>4. \A i \in DOMAIN tasks : tasks[i].generation # generation'
  BY <1>2, UpdatesAreTyped DEF UpdatesOK
<1> QED
  BY <1>3, <1>4 DEF AdvanceInv, ListingsAreOfThePast, TheUpdateIsNewer, IsOfThePast

LEMMA AdvanceWhenUpdateGoesOn ==
  ASSUME AdvanceInv, UpdatesOK, UNCHANGED <<present, contents, items, generation>>,
         NEW i \in DOMAIN tasks, NEW next, Goes(i, next), next.stage # "Publish"
  PROVE  AdvanceInv'
<1>1. /\ DOMAIN tasks' = DOMAIN tasks
      /\ \A j \in DOMAIN tasks : tasks'[j] = IF j = i THEN next ELSE tasks[j]
  BY DEF Goes, UpdatesOK
<1> QED
  BY <1>1 DEF AdvanceInv, ListingsAreOfThePast, TheUpdateIsNewer, IsOfThePast, belongsTo

LEMMA AdvanceWhenEnumerated ==
  ASSUME AdvanceInv, PanelInv, NEW i \in DOMAIN tasks, enumerate(i)
  PROVE  AdvanceInv'
<1> DEFINE l == listing(tasks[i].path, tasks[i].mode)
           next == [tasks[i] EXCEPT !.stage = "Publish", !.listing = l]
<1>1. UNCHANGED <<present, contents, items, generation>> /\ Goes(i, next)
  BY DEF enumerate, WorkerStep, worldVars
<1>2. tasks[i] \in UpdateTasks /\ tasks[i].path \in Folders /\ tasks[i].mode \in Modes
  BY UpdatesAreTyped DEF PanelInv
<1>3. /\ next.listing = l /\ next.path = tasks[i].path /\ next.mode = tasks[i].mode
  BY <1>2 DEF UpdateTasks
<1>4. /\ DOMAIN l = Scope(tasks[i].path, tasks[i].mode)
      /\ \A f \in DOMAIN l : f \in present => l[f] = contents[f]
  BY <1>2, ListingsAreTyped, ListingIsTheNewest DEF PanelInv
<1>5. \A f \in present : contents[f] \in Nat
  BY ChangesAssumption DEF PanelInv, WorldOK, Stamp, Empty
<1> HIDE DEF next, l
<1>6. /\ DOMAIN tasks' = DOMAIN tasks
      /\ \A j \in DOMAIN tasks : tasks'[j] = IF j = i THEN next ELSE tasks[j]
  BY <1>1 DEF Goes, PanelInv, UpdatesOK
<1>7. IsOfThePast(l)
  BY <1>4, <1>5 DEF IsOfThePast
<1>8. ListingsAreOfThePast'
  BY <1>1, <1>3, <1>6, <1>7 DEF AdvanceInv, ListingsAreOfThePast, IsOfThePast
<1>9. ASSUME belongsTo(tasks[i].path, tasks[i].mode), NEW f \in DOMAIN items.listing, f \in present
      PROVE  items.listing[f] <= l[f]
  <2>1. f \in DOMAIN l
    <3>1. items.path = tasks[i].path /\ items.mode = tasks[i].mode
      BY <1>9 DEF belongsTo
    <3>2. items # Nothing
      BY <1>2, <3>1, AFolderIsSomething
    <3>3. items.listing \in [Scope(tasks[i].path, tasks[i].mode) -> Stamp]
      BY <3>1, <3>2 DEF PanelInv, ViewsOK, ListingOf
    <3> QED
      BY <1>4, <1>9, <3>3
  <2> QED
    BY <1>4, <1>9, <2>1 DEF AdvanceInv, ListingsAreOfThePast, IsOfThePast
<1>10. TheUpdateIsNewer'
  BY <1>1, <1>3, <1>6, <1>9 DEF AdvanceInv, TheUpdateIsNewer, belongsTo
<1> QED
  BY <1>8, <1>10 DEF AdvanceInv

(* Once an update has published no other may until the next is started.     *)
LEMMA AdvanceWhenUpdateEnds ==
  ASSUME AdvanceInv, UpdatesOK, UNCHANGED <<present, contents, generation>>,
         NEW i \in DOMAIN tasks, Ends(i),
         \/ UNCHANGED items
         \/ /\ tasks[i].generation = generation /\ tasks[i].stage = "Publish"
            /\ items'.listing = tasks[i].listing
  PROVE  AdvanceInv'
<1>1. \A j \in DOMAIN tasks' : \E k \in DOMAIN tasks \ {i} : tasks'[j] = tasks[k]
  BY UpdatesLeft
<1>2. CASE UNCHANGED items
  BY <1>1, <1>2 DEF AdvanceInv, ListingsAreOfThePast, TheUpdateIsNewer, IsOfThePast, belongsTo
<1>3. CASE /\ tasks[i].generation = generation /\ tasks[i].stage = "Publish"
           /\ items'.listing = tasks[i].listing
  <2>1. ListingsAreOfThePast'
    BY <1>1, <1>3 DEF AdvanceInv, ListingsAreOfThePast, IsOfThePast
  <2>2. \A k \in DOMAIN tasks \ {i} : tasks[k].generation # tasks[i].generation
    <3>1. \A k \in DOMAIN tasks : k \in Nat /\ tasks[k].generation \in Nat
      BY UpdatesAreTyped DEF UpdatesOK
    <3> QED
      BY <3>1 DEF UpdatesOK
  <2>3. TheUpdateIsNewer'
    BY <1>1, <1>3, <2>2 DEF TheUpdateIsNewer
  <2> QED
    BY <2>1, <2>3 DEF AdvanceInv
<1> QED
  BY <1>2, <1>3

LEMMA AdvanceWhenOthersChange ==
  ASSUME AdvanceInv, PanelInv, ~ ChangesAreUndone, others, UNCHANGED <<items, tasks, generation>>
  PROVE  AdvanceInv'
<1>1. \A f \in present' : f \in present /\ contents[f] \in Nat /\ contents'[f] \in Nat
                          /\ contents[f] <= contents'[f]
  BY OthersOnlyAdd DEF PanelInv
<1>2. /\ \A f \in DOMAIN items.listing : items.listing[f] \in Nat
      /\ \A i \in DOMAIN tasks :
           tasks[i].stage = "Publish"
             => \A f \in DOMAIN tasks[i].listing : tasks[i].listing[f] \in Nat
  BY ListedIsANumber DEF PanelInv
<1>3. ListingsAreOfThePast'
  BY <1>1, <1>2 DEF AdvanceInv, ListingsAreOfThePast, IsOfThePast
<1>4. TheUpdateIsNewer'
  BY <1>1 DEF AdvanceInv, TheUpdateIsNewer, belongsTo
<1> QED
  BY <1>3, <1>4 DEF AdvanceInv

LEMMA AdvanceStep ==
  ASSUME ~ ChangesAreUndone
  PROVE  AdvanceInv /\ PanelInv /\ [Next]_vars => AdvanceInv'
<1> SUFFICES ASSUME AdvanceInv, PanelInv, [Next]_vars
             PROVE  AdvanceInv'
  OBVIOUS
<1>0. WorldOK /\ UpdatesOK /\ currentDir \in Folders /\ mode \in Modes
  BY DEF PanelInv, UpdatesOK
<1>a. ASSUME NEW path \in Folders, setPath(path), UNCHANGED <<worldVars, items>>
      PROVE  AdvanceInv'
  <2>1. Landing(path) \in Folders /\ Normal \in Modes
    BY <1>0, LandingIsThere DEF Modes
  <2> QED
    BY <1>0, <1>a, <2>1, AdvanceWhenUpdateBegins DEF setPath, worldVars
<1>b. ASSUME refreshFileList, UNCHANGED <<worldVars, items>>
      PROVE  AdvanceInv'
  BY <1>0, <1>b, AdvanceWhenUpdateBegins DEF refreshFileList, worldVars
<1>1. CASE \E path \in Folders : goTo(path)
  BY <1>1, <1>a DEF goTo, Command
<1>2. CASE navigateUp
  <2>1. UNCHANGED <<worldVars, items>> /\ ParentOf(currentDir) \in Folders
    BY <1>0, <1>2, ParentIsAFolder DEF navigateUp, Command
  <2>2. CASE \E path \in Folders : setPath(path)
    BY <1>a, <2>1, <2>2
  <2>3. CASE UNCHANGED <<generation, tasks>>
    BY <2>1, <2>3, AdvanceWithoutChange DEF worldVars
  <2> QED
    BY <1>0, <1>2, <2>1, <2>2, <2>3 DEF navigateUp
<1>3. CASE showAllFilesFromCurrentFolderAndBelow
  <2>1. AllObjects \in Modes
    BY DEF Modes
  <2> QED
    BY <1>0, <1>3, <2>1, AdvanceWhenUpdateBegins
    DEF showAllFilesFromCurrentFolderAndBelow, Command, worldVars
<1>4. CASE refresh \/ activate
  BY <1>4, <1>b DEF refresh, activate, Command
<1>5. CASE deactivate \/ directorySizeIsKnown
  BY <1>5, AdvanceWithoutChange DEF deactivate, directorySizeIsKnown, Command, worldVars
<1>6. ASSUME NEW i \in DOMAIN tasks, startUpdate(i)
      PROVE  AdvanceInv'
  <2>1. UNCHANGED <<present, contents, items, generation>> /\ tasks[i] \in UpdateTasks
    BY <1>0, <1>6, UpdatesAreTyped DEF startUpdate, WorkerStep, worldVars
  <2>2. CASE Ends(i)
    BY <1>0, <2>1, <2>2, AdvanceWhenUpdateEnds
  <2>3. CASE \E next \in {[tasks[i] EXCEPT !.stage = "Baseline",
                          !.baseline = [generation |-> pathGeneration,
                                        state |-> SnapshotOf(pathToWatch)]],
                        [tasks[i] EXCEPT !.stage = "Enumerate"]} : Goes(i, next)
    <3>1. PICK next : Goes(i, next) /\ next.stage # "Publish"
      BY <2>1, <2>3 DEF UpdateTasks
    <3> QED
      BY <1>0, <2>1, <3>1, AdvanceWhenUpdateGoesOn
  <2> QED
    BY <1>6, <2>2, <2>3 DEF startUpdate
<1>7. ASSUME NEW i \in DOMAIN tasks, captureBaseline(i)
      PROVE  AdvanceInv'
  <2> DEFINE next == [tasks[i] EXCEPT !.stage = "Enumerate", !.baseline = NoPoll]
  <2>1. UNCHANGED <<present, contents, items, generation>> /\ Goes(i, next)
    BY <1>7 DEF captureBaseline, WorkerStep, worldVars
  <2>2. next.stage # "Publish"
    BY <1>0, UpdatesAreTyped DEF UpdateTasks
  <2> QED
    BY <1>0, <2>1, <2>2, AdvanceWhenUpdateGoesOn
<1>8. ASSUME NEW i \in DOMAIN tasks, enumerate(i)
      PROVE  AdvanceInv'
  BY <1>8, AdvanceWhenEnumerated
<1>9. ASSUME NEW i \in DOMAIN tasks, publishFileListIfCurrent(i)
      PROVE  AdvanceInv'
  <2>1. /\ UNCHANGED <<present, contents, generation>> /\ Ends(i)
        /\ \/ UNCHANGED items
           \/ /\ tasks[i].generation = generation /\ tasks[i].stage = "Publish"
              /\ items'.listing = tasks[i].listing
    BY <1>9 DEF publishFileListIfCurrent, fileListUpdateIsCurrent, WorkerStep, worldVars
  <2> QED
    BY <1>0, <2>1, AdvanceWhenUpdateEnds
<1>10. CASE tickStarts \/ deliverContentsNotice
  BY <1>10, AdvanceWithoutChange DEF tickStarts, deliverContentsNotice, Delivery, worldVars
<1>11. CASE recoverFromInaccessiblePathIfCurrent
  <2>1. UNCHANGED <<worldVars, items>>
    BY <1>11 DEF recoverFromInaccessiblePathIfCurrent, Delivery
  <2>2. CASE fileListUpdateIsCurrent(Head(batch)) /\ setPath(Head(batch).path)
    BY <1>0, <1>a, <2>1, <2>2 DEF fileListUpdateIsCurrent
  <2>3. CASE UNCHANGED <<generation, tasks>>
    BY <2>1, <2>3, AdvanceWithoutChange DEF worldVars
  <2> QED
    BY <1>11, <2>2, <2>3 DEF recoverFromInaccessiblePathIfCurrent
<1>12. CASE refreshIfWatcherDetectedChanges
  <2>1. UNCHANGED <<worldVars, items>>
    BY <1>12 DEF refreshIfWatcherDetectedChanges
  <2>2. CASE UNCHANGED <<generation, tasks>>
    BY <2>1, <2>2, AdvanceWithoutChange DEF worldVars
  <2> QED
    BY <1>12, <1>b, <2>1, <2>2 DEF refreshIfWatcherDetectedChanges
<1>13. CASE pollThread /\ UNCHANGED panelVars
  BY <1>13, AdvanceWithoutChange
  DEF pollThread, onCheckForChanges, processChanges, panelVars, worldVars
<1>14. CASE others /\ UNCHANGED panelVars
  BY <1>14, AdvanceWhenOthersChange DEF panelVars
<1>15. CASE UNCHANGED vars
  BY <1>15, AdvanceWithoutChange DEF vars, panelVars, worldVars
<1> QED
  BY <1>1, <1>2, <1>3, <1>4, <1>5, <1>6, <1>7, <1>8, <1>9, <1>10, <1>11, <1>12, <1>13, <1>14,
     <1>15
  DEF Next, command, worker, Running, uiThreadTimerTick

(* Only an update that publishes replaces the listing, and it is the newest. *)
LEMMA CommittedListingAdvances ==
  ASSUME ~ ChangesAreUndone, AdvanceInv, PanelInv, [Next]_vars
  PROVE  items'.path = items.path /\ items'.mode = items.mode
           => \A f \in DOMAIN items.listing :
                f \in present' => items'.listing[f] >= items.listing[f]
<1>1. \A f \in DOMAIN items.listing : items.listing[f] \in Nat
  BY ListedIsANumber DEF PanelInv
<1>2. CASE UNCHANGED items
  BY <1>1, <1>2
<1>3. CASE \E i \in DOMAIN tasks : publishFileListIfCurrent(i) /\ ~ UNCHANGED items
  <2>1. PICK i \in DOMAIN tasks : publishFileListIfCurrent(i) /\ ~ UNCHANGED items
    BY <1>3
  <2>2. /\ present' = present /\ tasks[i].stage = "Publish" /\ tasks[i].generation = generation
        /\ items' = [path |-> tasks[i].path, mode |-> tasks[i].mode,
                     listing |-> tasks[i].listing]
    BY <2>1 DEF publishFileListIfCurrent, fileListUpdateIsCurrent, WorkerStep, worldVars
  <2> SUFFICES ASSUME belongsTo(tasks[i].path, tasks[i].mode),
                      NEW f \in DOMAIN items.listing, f \in present
               PROVE  tasks[i].listing[f] >= items.listing[f]
    BY <2>2 DEF belongsTo
  <2>3. items.listing[f] <= tasks[i].listing[f]
    BY <2>2 DEF AdvanceInv, TheUpdateIsNewer
  <2>4. /\ tasks[i].path \in Folders /\ items.path = tasks[i].path /\ items.mode = tasks[i].mode
    BY UpdatesAreTyped DEF PanelInv, belongsTo
  <2>5. items # Nothing
    BY <2>4, AFolderIsSomething
  <2>6. f \in Scope(tasks[i].path, tasks[i].mode)
    BY <2>4, <2>5 DEF PanelInv, ViewsOK, ListingOf
  <2>7. f \in DOMAIN tasks[i].listing
    BY <2>2, <2>6 DEF PanelInv, UpdatesOK
  <2>8. tasks[i].listing[f] \in Nat
    BY <2>2, <2>7, ListedIsANumber DEF PanelInv
  <2> QED
    BY <1>1, <2>3, <2>8
<1>4. UNCHANGED items \/ \E i \in DOMAIN tasks : publishFileListIfCurrent(i)
  <2>1. CASE command
    BY <2>1
    DEF command, goTo, navigateUp, showAllFilesFromCurrentFolderAndBelow, refresh, activate,
        deactivate, directorySizeIsKnown, Command
  <2>2. CASE worker
    BY <2>2 DEF worker, Running, startUpdate, captureBaseline, enumerate
  <2>3. CASE uiThreadTimerTick
    BY <2>3
    DEF uiThreadTimerTick, tickStarts, deliverContentsNotice, Delivery,
        recoverFromInaccessiblePathIfCurrent, refreshIfWatcherDetectedChanges
  <2>4. CASE UNCHANGED panelVars
    BY <2>4 DEF panelVars
  <2> QED
    BY <2>1, <2>2, <2>3, <2>4 DEF Next, vars
<1> QED
  BY <1>2, <1>3, <1>4

LEMMA AdvanceInvHolds ==
  ASSUME ~ ChangesAreUndone
  PROVE  Spec => []AdvanceInv
<1>1. Init => AdvanceInv
  <2> SUFFICES ASSUME Init
               PROVE  AdvanceInv
    OBVIOUS
  <2>1. PICK path \in Folders : Restored(path) \/ LeftFlattened(path)
    BY DEF Init
  <2>2. CASE Restored(path)
    BY <2>2
    DEF Restored, UpdateTask, Nothing, AdvanceInv, ListingsAreOfThePast, TheUpdateIsNewer,
        IsOfThePast
  <2>3. CASE LeftFlattened(path)
    <3>1. /\ items.listing = listing(path, AllObjects) /\ tasks = <<>>
          /\ WorldOK /\ AllObjects \in Modes
      BY <2>3, InitPanelInv DEF LeftFlattened, PanelInv, Modes
    <3>2. IsOfThePast(items.listing)
      BY <3>1, ListingIsTheNewest, ChangesAssumption DEF IsOfThePast, WorldOK, Stamp, Empty
    <3> QED
      BY <3>1, <3>2 DEF AdvanceInv, ListingsAreOfThePast, TheUpdateIsNewer
  <2> QED
    BY <2>1, <2>2, <2>3
<1> QED
  BY <1>1, AdvanceStep, PanelInvHolds, PTL DEF Spec

(* What is committed for a view is never older than what it replaces: an    *)
(* update that was slow to finish takes nothing back (cpanel.cpp:373-383).  *)
(* Older means something only where others do not restore an earlier state. *)
THEOREM ListingsOnlyGetNewer ==
  ASSUME ~ ChangesAreUndone
  PROVE  Spec => ListingsDoNotGoBack
<1>1. AdvanceInv /\ PanelInv /\ [Next]_vars
        => [ items'.path = items.path /\ items'.mode = items.mode
               => \A f \in DOMAIN items.listing :
                    f \in present' => items'.listing[f] >= items.listing[f] ]_vars
  BY CommittedListingAdvances
<1> QED
  BY <1>1, AdvanceInvHolds, PanelInvHolds, PTL DEF Spec, ListingsDoNotGoBack

=============================================================================
