------------------------------- MODULE Panel -------------------------------
(***************************************************************************)
(* One panel tab, CPanel: where it is, the listing it has committed, the   *)
(* updates running on the worker pool, the notices queued for the UI       *)
(* thread, the watcher, and the rows the panel widget shows of it.         *)
(*                                                                         *)
(* Every update takes a number; what was started for an older number must  *)
(* not reach the listing, nor its notice the rows.                         *)
(***************************************************************************)
EXTENDS FolderWatcher, SequencesExt

CONSTANTS
  PoolThreads,   (* the threads of the pool that the panels share           *)
  MaxCommands    (* bound: what the user and the rest of the program ask for *)

ASSUME PoolAssumption == PoolThreads \in 1..4 /\ MaxCommands \in Nat

VARIABLES
  currentDir, mode, generation,
  items,        (* the committed listing and the view it belongs to         *)
  tasks,        (* the updates given to the worker pool, the oldest first   *)
  queue,        (* the UI queue                                             *)
  batch,        (* what the tick at hand has taken from it                  *)
  ticking,
  active,       (* the tab is the one its side shows                        *)
  rows,         (* what the widget shows of it                              *)
  commands

panelVars == <<currentDir, mode, generation, items, tasks, queue, batch, ticking, active,
               rows, commands>>
vars == <<worldVars, watchVars, panelVars>>

Normal == "Normal"
AllObjects == "AllObjects"

(* The flattened view lists everything below the folder.                    *)
Scope(path, m) == IF m = Normal THEN {path} ELSE Descendants(path)
listing(path, m) == [f \in Scope(path, m) |-> SnapshotOf(f)]

Nothing == [path |-> None, mode |-> Normal, listing |-> <<>>]
Blank == Nothing

-----------------------------------------------------------------------------
(* The UI queue: a contents notice replaces the one that is waiting.        *)

Notice(kind, g) == [kind |-> kind, generation |-> g, path |-> None, mode |-> Normal]
IsContentsNotice(notice) == notice.kind # "Recover"

(* Mutant: the notices pile up.                                             *)
withContentsNotice_Untagged(q, notice) == Append(q, notice)

ContentsNotices(q) == {i \in DOMAIN q : IsContentsNotice(q[i])}

withContentsNotice(q, notice) ==
  LET waiting == ContentsNotices(q)
  IN Append(IF waiting = {} THEN q ELSE RemoveAt(q, CHOOSE i \in waiting : TRUE), notice)

-----------------------------------------------------------------------------
(* Starting an update of the listing.                                       *)

belongsTo(path, m) == items.path = path /\ items.mode = m
belongsToCurrentView == belongsTo(currentDir, mode)

UpdateTask(g, path, m) ==
  [generation |-> g, path |-> path, mode |-> m,
   stage |-> "Queued", baseline |-> NoPoll, listing |-> <<>>]

(* The part of beginFileListUpdateLocked and enqueueFileListUpdate that all *)
(* callers share; the caller says what view the panel is in from now on.    *)
beginFileListUpdate(path, m) ==
  /\ currentDir' = path /\ mode' = m
  /\ generation' = generation + 1
  /\ queue' = IF belongsTo(path, m) THEN queue
              ELSE withContentsNotice(queue, Notice("Invalidated", generation'))
  /\ tasks' = Append(tasks, UpdateTask(generation', path, m))

(* A tab as restorePanelState leaves it: in the folder it was saved with, its *)
(* first update queued, the watch released if another tab is on screen.       *)
Restored(path) ==
  /\ currentDir = path /\ mode = Normal /\ generation = 1
  /\ items = Nothing
  /\ tasks = <<UpdateTask(1, path, Normal)>>
  /\ queue = <<Notice("Invalidated", 1)>>
  /\ active \in BOOLEAN
  /\ pathToWatch = (IF active THEN path ELSE None)
  /\ pathGeneration = (IF active THEN 1 ELSE 2)

(* One that was switched away from after it had shown a folder flattened.   *)
LeftFlattened(path) ==
  /\ currentDir = path /\ mode = AllObjects /\ generation = 2
  /\ items = [path |-> path, mode |-> AllObjects, listing |-> listing(path, AllObjects)]
  /\ tasks = <<>> /\ queue = <<>>
  /\ active = FALSE
  /\ pathToWatch = None /\ pathGeneration = 3

Init ==
  /\ WatcherInit
  /\ \E path \in Folders : Restored(path) \/ LeftFlattened(path)
  /\ batch = <<>> /\ ticking = FALSE
  /\ rows = Blank
  /\ commands = 0

fileListUpdateIsCurrent(request) ==
  /\ request.generation = generation
  /\ request.path = currentDir /\ request.mode = mode

(* The path or the nearest of its parents; the root can always be listed.   *)
Landing(path) ==
  LET candidates == PathHierarchy[path]
      nearest == CHOOSE i \in DOMAIN candidates :
                   /\ candidates[i] \in present
                   /\ \A j \in DOMAIN candidates : candidates[j] \in present => i <= j
  IN candidates[nearest]

setPath(path) ==
  /\ beginFileListUpdate(Landing(path), Normal)
  /\ setPathToWatch(Landing(path))

refreshFileList == beginFileListUpdate(currentDir, mode)

-----------------------------------------------------------------------------
(* What the user asks for, between two ticks.                               *)

Command ==
  /\ ~ticking /\ commands < MaxCommands
  /\ commands' = commands + 1
  /\ UNCHANGED <<worldVars, items, batch, ticking>>

goTo(path) == Command /\ setPath(path) /\ UNCHANGED <<active, rows>>

navigateUp ==
  /\ Command
  /\ UNCHANGED <<active, rows>>
  /\ IF mode # Normal THEN setPath(currentDir)
     ELSE IF currentDir # Root THEN setPath(ParentOf(currentDir))
     ELSE /\ queue' = withContentsNotice(queue, Notice("Changed", generation))
          /\ UNCHANGED <<currentDir, mode, generation, tasks, watchVars>>

showAllFilesFromCurrentFolderAndBelow ==
  /\ Command
  /\ beginFileListUpdate(currentDir, AllObjects)
  /\ setPathToWatch(None)
  /\ UNCHANGED <<active, rows>>

refresh == Command /\ refreshFileList /\ UNCHANGED <<watchVars, active, rows>>

(* list(), which hides a listing of a view that was left.                   *)
list == IF belongsToCurrentView THEN items ELSE Blank

(* Mutant: the watch is taken up again whatever the view.                   *)
activate_Watches ==
  /\ Command /\ ~active
  /\ active' = TRUE
  /\ rows' = list
  /\ setPathToWatch(currentDir)
  /\ refreshFileList

(* The tab is switched to: CController makes the panel active, the widget   *)
(* shows what it has.                                                       *)
activate ==
  /\ Command /\ ~active
  /\ active' = TRUE
  /\ rows' = list
  /\ setPathToWatch(IF mode = Normal THEN currentDir ELSE None)
  /\ refreshFileList

deactivate ==
  /\ Command /\ active
  /\ active' = FALSE /\ rows' = Blank
  /\ setPathToWatch(None)
  /\ UNCHANGED <<currentDir, mode, generation, tasks, queue>>

(* The size of a directory that displayDirSize was asked for is known.      *)
directorySizeIsKnown ==
  /\ commands < MaxCommands /\ commands' = commands + 1
  /\ belongsToCurrentView
  /\ queue' = withContentsNotice(queue, Notice("Changed", generation))
  /\ UNCHANGED <<worldVars, watchVars, currentDir, mode, generation, items, tasks, batch,
                 ticking, active, rows>>

command ==
  \/ \E path \in Folders : goTo(path)
  \/ navigateUp \/ showAllFilesFromCurrentFolderAndBelow \/ refresh
  \/ activate \/ deactivate \/ directorySizeIsKnown

-----------------------------------------------------------------------------
(* An update on the worker pool.                                            *)

(* The pool takes the updates in turn and has a few threads for them.       *)
Running == {i \in DOMAIN tasks : i <= PoolThreads}

Goes(i, next) == tasks' = [tasks EXCEPT ![i] = next]
Ends(i) == tasks' = RemoveAt(tasks, i)

WorkerStep ==
  UNCHANGED <<worldVars, currentDir, mode, generation, batch, ticking, active, rows, commands>>

(* Mutant: the listing is left to meet whatever the poll finds first.       *)
startUpdate_WithoutBaseline(i) ==
  LET task == tasks[i] IN
  /\ task.stage = "Queued"
  /\ WorkerStep
  /\ UNCHANGED <<watchVars, items>>
  /\ IF task.path \in present
     THEN /\ Goes(i, [task EXCEPT !.stage = "Enumerate"])
          /\ UNCHANGED queue
     ELSE /\ Ends(i)
          /\ queue' = Append(queue, [kind |-> "Recover", generation |-> task.generation,
                                     path |-> task.path, mode |-> task.mode])

(* The folder is there, and unless it has been already it is scanned for the *)
(* watcher's baseline. Nothing is remembered between the two, so they are    *)
(* one step; if the folder is not there the UI thread finds another.         *)
startUpdate(i) ==
  LET task == tasks[i] IN
  /\ task.stage = "Queued"
  /\ WorkerStep
  /\ UNCHANGED <<watchVars, items>>
  /\ IF task.path \in present
     THEN /\ Goes(i, IF task.mode = Normal /\ NeedsBaseline
                   THEN [task EXCEPT !.stage = "Baseline",
                           !.baseline = [generation |-> pathGeneration,
                                         state |-> SnapshotOf(pathToWatch)]]
                   ELSE [task EXCEPT !.stage = "Enumerate"])
          /\ UNCHANGED queue
     ELSE /\ Ends(i)
          /\ queue' = Append(queue, [kind |-> "Recover", generation |-> task.generation,
                                     path |-> task.path, mode |-> task.mode])

captureBaseline(i) ==
  LET task == tasks[i] IN
  /\ task.stage = "Baseline"
  /\ WorkerStep
  /\ commitBaseline(task.baseline.generation, task.baseline.state)
  /\ Goes(i, [task EXCEPT !.stage = "Enumerate", !.baseline = NoPoll])
  /\ UNCHANGED <<items, queue>>

enumerate(i) ==
  LET task == tasks[i] IN
  /\ task.stage = "Enumerate"
  /\ WorkerStep
  /\ Goes(i, [task EXCEPT !.stage = "Publish", !.listing = listing(task.path, task.mode)])
  /\ UNCHANGED <<watchVars, items, queue>>

(* Mutant: the view is compared, the number of the update is not.           *)
publishFileListIfCurrent_ForView(i) ==
  LET task == tasks[i] IN
  /\ task.stage = "Publish"
  /\ WorkerStep
  /\ Ends(i)
  /\ IF task.path = currentDir /\ task.mode = mode
     THEN /\ items' = [path |-> task.path, mode |-> task.mode, listing |-> task.listing]
          /\ queue' = withContentsNotice(queue, Notice("Changed", task.generation))
     ELSE UNCHANGED <<items, queue>>
  /\ UNCHANGED watchVars

publishFileListIfCurrent(i) ==
  LET task == tasks[i] IN
  /\ task.stage = "Publish"
  /\ WorkerStep
  /\ Ends(i)
  /\ IF fileListUpdateIsCurrent(task)
     THEN /\ items' = [path |-> task.path, mode |-> task.mode, listing |-> task.listing]
          /\ queue' = withContentsNotice(queue, Notice("Changed", task.generation))
     ELSE UNCHANGED <<items, queue>>
  /\ UNCHANGED watchVars

worker ==
  \E i \in Running :
    \/ startUpdate(i) \/ captureBaseline(i)
    \/ enumerate(i) \/ publishFileListIfCurrent(i)

-----------------------------------------------------------------------------
(* uiThreadTimerTick: what has been queued runs first, then the watcher is  *)
(* asked. A tick that finds neither is a stutter.                           *)

tickStarts ==
  /\ ~ticking
  /\ queue # <<>> \/ changeDetected
  /\ ticking' = TRUE
  /\ batch' = queue /\ queue' = <<>>
  /\ UNCHANGED <<worldVars, watchVars, currentDir, mode, generation, items, tasks, active,
                 rows, commands>>

Delivery ==
  /\ ticking /\ batch # <<>>
  /\ batch' = Tail(batch)
  /\ UNCHANGED <<worldVars, items, ticking, active, commands>>

(* A notice of an update that was superseded says nothing, and a tab that   *)
(* is not on screen has no rows.                                            *)
deliverContentsNotice ==
  LET notice == Head(batch) IN
  /\ Delivery
  /\ IsContentsNotice(notice)
  /\ rows' = IF notice.generation # generation \/ ~active THEN rows
             ELSE IF notice.kind = "Changed" THEN list ELSE Blank
  /\ UNCHANGED <<watchVars, currentDir, mode, generation, tasks, queue>>

recoverFromInaccessiblePathIfCurrent ==
  /\ Delivery
  /\ ~IsContentsNotice(Head(batch))
  /\ UNCHANGED rows
  /\ IF fileListUpdateIsCurrent(Head(batch)) THEN setPath(Head(batch).path)
     ELSE UNCHANGED <<watchVars, currentDir, mode, generation, tasks, queue>>

refreshIfWatcherDetectedChanges ==
  /\ ticking /\ batch = <<>>
  /\ ticking' = FALSE
  /\ changeDetected' = FALSE
  /\ IF changeDetected THEN refreshFileList
     ELSE UNCHANGED <<currentDir, mode, generation, tasks, queue>>
  /\ UNCHANGED <<worldVars, pathToWatch, pathGeneration, previousState,
                 previousStateGeneration, poll, items, batch, active, rows, commands>>

uiThreadTimerTick ==
  \/ tickStarts \/ deliverContentsNotice \/ recoverFromInaccessiblePathIfCurrent
  \/ refreshIfWatcherDetectedChanges

-----------------------------------------------------------------------------
Next ==
  \/ command \/ worker \/ uiThreadTimerTick
  \/ (pollThread \/ others) /\ UNCHANGED panelVars

(* The timer ticks, the pool's threads and the poll thread run; nothing     *)
(* obliges the user or the other programs.                                  *)
Spec ==
  /\ Init /\ [][Next]_vars
  /\ WF_vars(uiThreadTimerTick) /\ WF_vars(worker)
  /\ WF_vars(pollThread /\ UNCHANGED panelVars)

-----------------------------------------------------------------------------
ListingOf(l) ==
  \/ l = Nothing
  \/ /\ l.path \in Folders /\ l.mode \in {Normal, AllObjects}
     /\ l.listing \in [Scope(l.path, l.mode) -> Stamp]

(* At most one contents notice waits, however many updates were started, and *)
(* no two updates have one number.                                           *)
PanelTypeOK ==
  /\ present \subseteq Folders /\ Root \in present
  /\ contents \in [Folders -> Stamp]
  /\ pathToWatch \in Folders \cup {None}
  /\ previousStateGeneration <= pathGeneration /\ poll.generation <= pathGeneration
  /\ currentDir \in Folders /\ mode \in {Normal, AllObjects}
  /\ ListingOf(items) /\ ListingOf(rows)
  /\ \A i, j \in DOMAIN tasks : i < j => tasks[i].generation < tasks[j].generation
  /\ \A q \in {queue, batch} : \A i, j \in ContentsNotices(q) : i = j

(* A listing that replaces one of the same view was taken later: no entry    *)
(* that was created or removed meanwhile is taken back by an update that was *)
(* slow to finish (publishFileListIfCurrent, cpanel.cpp:373-383).            *)
ListingsDoNotGoBack ==
  [][ items'.path = items.path /\ items'.mode = items.mode
        => \A f \in DOMAIN items.listing :
             f \in present' => items'.listing[f] >= items.listing[f] ]_vars

(* While the tab is on screen the watch is on the folder it lists, and on    *)
(* nothing in the flattened view, through navigation, recovery from a lost   *)
(* folder and tab switches (setActive, cpanel.cpp:55-73).                    *)
WatchFollowsTheView ==
  active /\ currentDir \in present
    => pathToWatch = IF mode = Normal THEN currentDir ELSE None

(* When the user and the other programs come to rest, the tab on screen ends *)
(* up showing its folder as it is, whatever changed while it was listed      *)
(* (enqueueFileListUpdate, cpanel.cpp:325-371).                              *)
ViewSettles ==
  <>[](active /\ mode = Normal /\ currentDir \in present
         => rows = [path |-> currentDir, mode |-> Normal,
                    listing |-> listing(currentDir, Normal)])
=============================================================================
