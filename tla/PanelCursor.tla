---------------------------- MODULE PanelCursor ----------------------------
(***************************************************************************)
(* The cursor of a panel: what CPanel remembers of it for every folder,    *)
(* what CPanelWidget shows, and how the two meet when a listing arrives,   *)
(* while the user navigates, moves the cursor, creates and renames entries *)
(* and other programs change the folders.                                  *)
(*                                                                         *)
(* One tab, on screen all the time, in the normal view (see Panel for the  *)
(* others).  Only the newest update of the listing is kept, as Panel shows *)
(* that no other is heard of; the watcher may be late but misses nothing.  *)
(* The root - of a drive - can always be listed, and no name is being       *)
(* edited in its row when a notice comes.                                  *)
(***************************************************************************)
EXTENDS Naturals, Sequences, FiniteSets

CONSTANTS
  Folders, Files, Root, None,
  ParentOf,      (* of every item but the root, the folder it is in         *)
  Place,         (* the order of the rows; [..] precedes all others         *)
  Trees,         (* what there may be at first                              *)
  MaxCommands,   (* bound: what the user asks for                           *)
  MaxChanges     (* bound: what other programs change                       *)

Items == Folders \cup Files

ASSUME TreeAssumption ==
  /\ Root \in Folders /\ Folders \cap Files = {} /\ None \notin Items /\ IsFiniteSet(Items)
  /\ ParentOf \in [Items \ {Root} -> Folders] /\ Place \in [Items -> Nat]
  /\ \A i \in Items \ {Root} : Place[ParentOf[i]] < Place[i]
  /\ \A i, j \in Items : i # j => Place[i] # Place[j]
ASSUME BoundsAssumption == MaxCommands \in Nat /\ MaxChanges \in Nat

VARIABLES
  present,       (* the items there are                                     *)
  currentDir,
  items,         (* the committed listing and the folder it is of           *)
  update,        (* the newest update: its cause, stage, and what it found  *)
  queue, batch, ticking,   (* the UI queue, what a tick has taken of it      *)
  rows, cursor,  (* what the widget shows                                   *)
  currentItem,   (* _currentItemHashForFolder                               *)
  respect,       (* the setting "respect the last cursor position"          *)
  wanted,        (* where the cursor is expected in each folder             *)
  commands, changes

uiVars == <<queue, batch, ticking>>
viewVars == <<rows, cursor>>
memoryVars == <<currentItem, wanted>>
boundVars == <<respect, commands, changes>>
cursorVars == <<present, currentDir, items, update, uiVars, viewVars, memoryVars, boundVars>>

Blank == [path |-> None, listing |-> {}]
NoUpdate == [stage |-> "None", cause |-> "Other", listing |-> {}]
NewUpdate(cause) == [NoUpdate EXCEPT !.stage = "Queued", !.cause = cause]

AncestorsOf[i \in Items] == IF i = Root THEN {i} ELSE {i} \cup AncestorsOf[ParentOf[i]]
ASSUME TreesAssumption == \A tree \in Trees :
  tree \subseteq Items /\ Root \in tree /\ \A i \in tree : AncestorsOf[i] \subseteq tree
Below(i) == {j \in Items : i \in AncestorsOf[j]}

(* [..] is the parent itself, under its own name.                           *)
CdUp(folder) == IF folder = Root THEN {} ELSE {ParentOf[folder]}
listing(folder) == CdUp(folder) \cup {i \in present \ {Root} : ParentOf[i] = folder}

belongsToCurrentView == items.path = currentDir
list == IF belongsToCurrentView THEN items ELSE Blank

CursorInit ==
  /\ present \in Trees
  /\ currentDir \in Folders \cap present
  /\ items = Blank /\ update = NewUpdate("Other")
  /\ queue = <<[kind |-> "Invalidated"]>> /\ batch = <<>> /\ ticking = FALSE
  /\ rows = Blank /\ cursor = None
  /\ \E saved \in listing(currentDir) \cup {None} :
       currentItem = [f \in Folders |-> IF f = currentDir THEN saved ELSE None]
  /\ wanted = currentItem
  /\ respect \in BOOLEAN
  /\ commands = 0 /\ changes = 0

-----------------------------------------------------------------------------
(* Notices.  A contents notice replaces the one that waits; one of an older *)
(* update says nothing when its turn comes, and is dropped when that one is *)
(* superseded.                                                              *)

Kept(q, kinds) ==
  LET kept[n \in 0..Len(q)] ==
        IF n = 0 THEN <<>>
        ELSE IF q[n].kind \in kinds THEN Append(kept[n - 1], q[n]) ELSE kept[n - 1]
  IN kept[Len(q)]
OnlyItems(q) == Kept(q, {"Item"})
withContentsNotice(q, notice) == Append(Kept(q, {"Item", "Recover"}), notice)
Changed(cause) == [kind |-> "Changed", cause |-> cause]

(* beginFileListUpdateLocked in a folder; old notices fall silent.          *)
beginFileListUpdate(folder, cause) ==
  /\ currentDir' = folder
  /\ update' = NewUpdate(cause)
  /\ queue' = IF items.path = folder THEN OnlyItems(queue)
              ELSE Append(OnlyItems(queue), [kind |-> "Invalidated"])
  /\ batch' = OnlyItems(batch)

(* The nearest folder on the way up that is there.                          *)
Landing(path) ==
  CHOOSE f \in AncestorsOf[path] \cap present :
    \A g \in AncestorsOf[path] \cap present : g \in AncestorsOf[f]

(* The item a navigation records, and in which folder: the folder left, when *)
(* going up; otherwise the one entered, if it was listed where we left.     *)
Remembered(memory, new, cause) ==
  IF cause = "CdUp" THEN [memory EXCEPT ![new] = currentDir]
  ELSE IF belongsToCurrentView /\ new \in items.listing \ {Root}
       THEN [memory EXCEPT ![ParentOf[new]] = new]
       ELSE memory

setPath(path, cause) ==
  LET new == Landing(path) IN
  /\ beginFileListUpdate(new, cause)
  /\ currentItem' = Remembered(currentItem, new, cause)
  /\ wanted' = Remembered(wanted, new, cause)

-----------------------------------------------------------------------------
(* The user.                                                               *)

Command ==
  /\ ~ticking /\ commands < MaxCommands
  /\ commands' = commands + 1
  /\ UNCHANGED <<items, ticking, respect, changes>>

goTo(path) == Command /\ setPath(path, "Other") /\ UNCHANGED <<present, viewVars>>

(* Enter on the row of a folder; rows of a folder that was left do nothing.  *)
itemActivated ==
  /\ Command
  /\ belongsToCurrentView /\ cursor \in items.listing \cap Folders
  /\ setPath(cursor, IF cursor \in CdUp(currentDir) THEN "CdUp" ELSE "Forward")
  /\ UNCHANGED <<present, viewVars>>

navigateUp ==
  /\ Command
  /\ UNCHANGED <<present, viewVars>>
  /\ IF currentDir # Root THEN setPath(ParentOf[currentDir], "CdUp")
     ELSE /\ queue' = withContentsNotice(queue, Changed("Other"))
          /\ UNCHANGED <<currentDir, update, batch, memoryVars>>

(* Recorded at once; the listing that arrives will place the cursor.        *)
goToItem(item) ==
  LET folder == ParentOf[item] IN
  /\ Command
  /\ item \in present
  /\ beginFileListUpdate(folder, "Other")
  /\ currentItem' = Remembered([currentItem EXCEPT ![folder] = item], folder, "Other")
  /\ wanted' = Remembered([wanted EXCEPT ![folder] = item], folder, "Other")
  /\ UNCHANGED <<present, viewVars>>

refresh ==
  /\ Command
  /\ beginFileListUpdate(currentDir, "Other")
  /\ UNCHANGED <<present, viewVars, memoryVars>>

(* The cursor is recorded for the folder the panel is in, which the rows may *)
(* no longer be of: then nothing can be expected of it.                     *)
moveCursor(item) ==
  /\ Command
  /\ item \in rows.listing \ {cursor}
  /\ cursor' = item
  /\ currentItem' = [currentItem EXCEPT ![currentDir] = item]
  /\ wanted' = [wanted EXCEPT ![currentDir] = IF rows.path = currentDir THEN item ELSE None]
  /\ UNCHANGED <<present, currentDir, update, queue, batch, rows>>

setCurrentItemHashForCurrentFolder(item, notifyUi) ==
  /\ currentItem' = [currentItem EXCEPT ![currentDir] = item]
  /\ queue' = IF ~notifyUi THEN queue
              ELSE Append(queue, [kind |-> "Item", folder |-> currentDir, item |-> item])

MemoryCommand == Command /\ UNCHANGED <<currentDir, update, batch, viewVars>>

(* The new folder is recorded before it exists, for the listing that will    *)
(* show it.  If the name is taken, or still shown, none may come: then the   *)
(* cursor may or may not go there.                                          *)
createFolder(item) ==
  /\ MemoryCommand
  /\ currentDir \in present /\ ParentOf[item] = currentDir
  /\ \/ /\ item \in present
        /\ setCurrentItemHashForCurrentFolder(item, FALSE)
        /\ wanted' = [wanted EXCEPT ![currentDir] = None]
        /\ UNCHANGED present
     \/ /\ item \notin present
        /\ present' = present \cup {item}
        /\ setCurrentItemHashForCurrentFolder(item, FALSE)
        /\ wanted' = [wanted EXCEPT ![currentDir] = IF item \in rows.listing THEN None ELSE item]
     \/ /\ item \notin present
        /\ setCurrentItemHashForCurrentFolder(currentItem[currentDir], TRUE)
        /\ UNCHANGED <<present, wanted>>

createFile(item) ==
  /\ MemoryCommand
  /\ currentDir \in present /\ ParentOf[item] = currentDir /\ item \notin present
  /\ present' = present \cup {item}
  /\ setCurrentItemHashForCurrentFolder(item, TRUE)
  /\ wanted' = [wanted EXCEPT ![currentDir] = item]

(* A file, over another one if the user agrees.                             *)
renameItem(item, renamed) ==
  /\ MemoryCommand
  /\ belongsToCurrentView /\ item \in rows.listing \cap items.listing \cap present
  /\ ParentOf[item] = currentDir /\ ParentOf[renamed] = currentDir
  /\ present' = (present \ {item}) \cup {renamed}
  /\ setCurrentItemHashForCurrentFolder(renamed, TRUE)
  /\ wanted' = [wanted EXCEPT ![currentDir] = renamed]

command ==
  \/ \E path \in Folders : goTo(path)
  \/ itemActivated \/ navigateUp \/ refresh
  \/ \E item \in Items \ {Root} : goToItem(item)
  \/ \E item \in rows.listing : moveCursor(item)
  \/ \E item \in Folders \ {Root} : createFolder(item)
  \/ \E item \in Files : createFile(item)
  \/ \E item, renamed \in Files : renameItem(item, renamed)

-----------------------------------------------------------------------------
(* The worker pool.                                                        *)

WorkerStep == UNCHANGED <<present, currentDir, batch, ticking, viewVars, memoryVars, boundVars>>

startUpdate ==
  /\ update.stage = "Queued"
  /\ WorkerStep /\ UNCHANGED items
  /\ IF currentDir \in present
     THEN update' = [update EXCEPT !.stage = "Enumerate"] /\ UNCHANGED queue
     ELSE update' = NoUpdate /\ queue' = Append(queue, [kind |-> "Recover"])

enumerate ==
  /\ update.stage = "Enumerate"
  /\ WorkerStep /\ UNCHANGED <<items, queue>>
  /\ update' = [update EXCEPT !.stage = "Publish",
                  !.listing = IF currentDir \in present THEN listing(currentDir) ELSE {}]

publishFileListIfCurrent ==
  /\ update.stage = "Publish"
  /\ WorkerStep
  /\ items' = [path |-> currentDir, listing |-> update.listing]
  /\ queue' = withContentsNotice(queue, Changed(update.cause))
  /\ update' = NoUpdate

worker == startUpdate \/ enumerate \/ publishFileListIfCurrent

-----------------------------------------------------------------------------
(* The tick of the UI thread's timer.                                      *)

(* The watcher may have seen that the folder is not what was listed.        *)
changesDetected ==
  \/ belongsToCurrentView /\ items.listing # listing(currentDir)
  \/ update.stage = "Publish" /\ update.listing # listing(currentDir)

tickStarts ==
  /\ ~ticking /\ (queue # <<>> \/ changesDetected)
  /\ ticking' = TRUE
  /\ batch' = queue /\ queue' = <<>>
  /\ UNCHANGED <<present, currentDir, items, update, viewVars, memoryVars, boundVars>>

Delivery(kind) ==
  /\ ticking /\ batch # <<>> /\ Head(batch).kind = kind
  /\ UNCHANGED <<present, items, ticking, boundVars>>

Row(item, set) == Cardinality({other \in set : Place[other] < Place[item]})
At(row, set) == CHOOSE item \in set : Row(item, set) = row
RowOfCursor == Row(cursor, rows.listing)

(* Where the cursor goes when a listing is shown: to the item remembered for *)
(* the folder, or else to the row it was in.                                *)
CursorAfter(cause, shown) ==
  LET recorded == currentItem[currentDir]
      byRecord == cause # "Forward" \/ respect
      last == Cardinality(shown) - 1
  IN
  IF shown = {} THEN None
  ELSE IF byRecord /\ recorded \in shown THEN recorded
  ELSE IF cursor # None /\ cause = "Other"
       THEN At(IF RowOfCursor < last THEN RowOfCursor ELSE last, shown)
  ELSE At(0, shown)

(* What cannot be shown, or is not to be, is not expected any longer.        *)
fillFromList ==
  LET cause == Head(batch).cause
      shown == list.listing
      stays == wanted[currentDir] \in shown /\ (cause # "Forward" \/ respect)
  IN
  /\ Delivery("Changed")
  /\ rows' = list
  /\ cursor' = CursorAfter(cause, shown)
  /\ IF shown = {} THEN UNCHANGED memoryVars
     ELSE /\ currentItem' = [currentItem EXCEPT ![currentDir] = cursor']
          /\ wanted' = [wanted EXCEPT ![currentDir] = IF stays THEN @ ELSE cursor']
  /\ batch' = Tail(batch)
  /\ UNCHANGED <<currentDir, update, queue>>

(* Mutant: the view without a cursor is recorded as well.                   *)
onPanelContentsInvalidated_Recording ==
  /\ Delivery("Invalidated")
  /\ rows' = Blank /\ cursor' = None
  /\ currentItem' = [currentItem EXCEPT ![currentDir] = None]
  /\ batch' = Tail(batch)
  /\ UNCHANGED <<currentDir, update, queue, wanted>>

onPanelContentsInvalidated ==
  /\ Delivery("Invalidated")
  /\ rows' = Blank /\ cursor' = None
  /\ batch' = Tail(batch)
  /\ UNCHANGED <<currentDir, update, queue, memoryVars>>

(* The cursor follows at once if the item is shown already.                 *)
onCurrentItemChanged ==
  LET notice == Head(batch)
      moves == notice.folder = currentDir /\ notice.item \in rows.listing \ {cursor}
  IN
  /\ Delivery("Item")
  /\ IF moves
     THEN /\ cursor' = notice.item
          /\ currentItem' = [currentItem EXCEPT ![currentDir] = notice.item]
          /\ wanted' = [wanted EXCEPT ![currentDir] = notice.item]
     ELSE UNCHANGED <<cursor, memoryVars>>
  /\ batch' = Tail(batch)
  /\ UNCHANGED <<currentDir, update, queue, rows>>

recoverFromInaccessiblePathIfCurrent ==
  /\ Delivery("Recover")
  /\ setPath(currentDir, "Other")
  /\ UNCHANGED viewVars

(* The tick ends by asking the watcher, which may not have looked yet.      *)
refreshIfWatcherDetectedChanges ==
  /\ ticking /\ batch = <<>>
  /\ ticking' = FALSE
  /\ \/ changesDetected /\ beginFileListUpdate(currentDir, "Other")
     \/ UNCHANGED <<currentDir, update, queue, batch>>
  /\ UNCHANGED <<present, items, viewVars, memoryVars, boundVars>>

uiThreadTimerTick ==
  \/ tickStarts \/ fillFromList \/ onPanelContentsInvalidated \/ onCurrentItemChanged
  \/ recoverFromInaccessiblePathIfCurrent \/ refreshIfWatcherDetectedChanges

-----------------------------------------------------------------------------
(* Other programs create and remove.                                       *)
others ==
  /\ changes < MaxChanges /\ changes' = changes + 1
  /\ \E item \in Items \ {Root} :
       IF item \in present THEN present' = present \ Below(item)
       ELSE ParentOf[item] \in present /\ present' = present \cup {item}
  /\ UNCHANGED <<currentDir, items, update, uiVars, viewVars, memoryVars, respect, commands>>

CursorNext == command \/ worker \/ uiThreadTimerTick \/ others

CursorSpec == CursorInit /\ [][CursorNext]_cursorVars

-----------------------------------------------------------------------------
(* When nothing is under way and the folder is on screen, the cursor is on  *)
(* the item it was last brought to there - by the user, by a navigation, by  *)
(* what was created or renamed - as long as every listing shown since had   *)
(* it; and that is what is remembered (cpanelwidget.cpp:574-608,            *)
(* cpanel.cpp:160-168, ccontroller.cpp:567-620).                            *)
Settled == update.stage = "None" /\ queue = <<>> /\ ~ticking
CursorIsWhereItShouldBe ==
  Settled /\ rows.path = currentDir /\ wanted[currentDir] \in rows.listing
    => cursor = wanted[currentDir] /\ currentItem[currentDir] = cursor
=============================================================================
