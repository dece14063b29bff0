# File Commander: specifications, model checks and proofs

File Commander is a two-panel file manager (C++, Qt). These modules specify the
parts of it whose correctness depends on the order in which things happen: two
threads, nested event loops, failing system calls, other programs that touch the
same files. Each definition is translated from the source; `PROJECT.json` ("map")
names the lines.

## 1. Inventory

Paths below `file-commander-core/src` unless they begin with `qt-app`.

| Component | State it keeps | Operations | Talks to |
|---|---|---|---|
| **File operation job** `fileoperations/cfileoperationjob` | started, finished, cancelled-before-start, pause flag, pending request, submitted decision, event queue; a worker thread and its cancellation flag; one mutex, one condition variable | `start`, `cancel`, `setPaused`, `submitDecision`, `hasPendingDecision`, `processEvents`, destructor; worker: `workerCheckpoint`, `workerRequestDecision`, `enqueueProgress`, `runOperation` | the dialog calls it; it runs an executor through the context |
| **Execution context** `coperationexecutioncontext`, `fileoperationtypes` | remembered answers, progress counters, summary | `checkpoint`, `resolveDecision`, counters | executors call it; it calls the job's callbacks |
| **Operation dialog** `qt-app/…/cfileoperationdialog`, `cfileoperationprompt` | drain guard, pause, background, dismissed, result, visibility, timers | drain, prompt, pause, cancel with confirmation, close, background, completion | owns the job; a listener of its events |
| **Transfer executor** `ctransferexecutor` | per root: totals, per node: local variables of the loops | `copyRoot`, `moveRoot`, directories, `copyNode`, `moveNode`, `moveFileNode`, staged transfer, removal of a published source | resolver, staged copy, mutator, context |
| **Staged copy** `cstagedfilecopy` | source and staging file handles, bytes transferred, state | `begin`, `writeNext`, `commit`, `abort` | mutator's rename |
| **Destination resolver** `cdestinationresolver` | none (loops on the caller's stack) | file and directory resolution | inspection, context |
| **File system mutator** `cfilesystemmutator` | none | rename (exclusive, replacing, degraded, case respelling), remove, set writable, create directories, set times | the operating system |
| **Delete executor** `cdeleteexecutor` | loops | post-order deletion with retry and read-only question | tree builder, mutator, context |
| **Source tree builder** `csourcetreebuilder` | the tree being built | scan with limits (300 levels, 2,000,000 nodes), ownership through links | the operating system |
| **Panel** `cpanel`, `directoryscanner` | current directory and display mode, items and the view they are of, generation, remembered cursor of each folder, history, watcher, queue of notices | `setPath`, `refreshFileList`, publication of listings, notifications | thread pool, watcher, listeners |
| **Watcher** `filesystemwatcher` | watched path and its generation, baseline, change flag; a poll thread | `setPathToWatch`, `changesDetected` | panel's timer |
| **Controller** `ccontroller` | tabs per side, active panel, what is saved of them | tabs, navigation, creation of files and folders | panels, plugins, volumes |
| **Volume enumerator** `diskenumerator` | volumes, observers, tagged notification queue | update, notify | its thread, the controller |
| **Search engine** `filesearchengine` | in-progress flag, worker, task slots | search, stop, wait | listener on the search window |
| **Comparison** `filecomparator` | thread, terminate flag | comparison of two files, of two folders; abort | its windows |
| **Favorites** `favoritelocationslist` | a tree of locations | load, save, add | settings |
| **Plugins** `pluginengine`, `plugininterface` | proxy: panel contents, current items, callback | notifications in, queries out | controller, viewer and tool plugins |
| **Shell** `shell`, `qt-app/src/cshelloperationrunner` | running shell operations | run, wait at shutdown | the desktop |
| **Panel widget** `qt-app/…/cpanelwidget` | one model, selection and column layout per tab, the tab bar, the paths of closed tabs | fills the view, places the cursor, opens, closes, moves and switches tabs, renames in place | controller, panels |
| **User interface**, the rest of `qt-app/src` | widgets | event handlers | controller |

What makes each of the main parts correct:

* *Job*: no wakeup is lost, an answer meets its question, a cancellation takes effect
  and is never undone, the summary is delivered exactly once and last, the
  destructor returns.
* *Dialog*: nested loops neither stack prompts nor leave the operation paused, no
  prompt is shown for a dead question, every outcome that matters is seen, a
  dismissed dialog goes away.
* *Transfer*: nothing is overwritten that the user did not give away, content appears
  whole or not at all, a move never removes the only safe copy, the outcome and
  the counters tell the truth, cancellation stops it.
* *Directories, deletion*: the manifest is the tree that is there, whatever the links; a parent
  goes only when everything below it went; nothing a link leads to is ever removed;
  totals and counters meet in the end; a cancellation ends every loop.
* *Panel, watcher*: the list shown ends up being the current folder's as it is, older
  listings never replace newer ones, the watch is where the view is, and the cursor is
  where the user, a navigation or a new entry put it.
* *Tabs*: controller, widget, tab bar and settings agree, whatever is opened, closed, moved or switched.
* *Search, comparison*: what is found or shown is complete and true, nothing follows the end that was reported, every wait ends.
* *Volumes, favorites, plugins, shell* (planned): no significant notification lost, what is written is
  read back, no callback after the end.

`PROJECT.json` lists the hazards of this code at the line where each bites, with the
properties that cover it.

## 2. Modules

| Module | Models | Composed of |
|---|---|---|
| `OperationPolicy` | the questions, the answers each allows and which answers may be repeated unattended (`fileoperationtypes.cpp`) | |
| `FileOperationJob` | the job, its worker thread and a client that calls it in every legal order | `OperationPolicy` |
| `FileOperationDialog` | the job under its only real client, the dialog | `FileOperationJob` |
| `FileOperationProofs` | the job's handshake, cancellation and answers; that the dialog is one of the job's clients, and its prompts, pause and outcome: theorems | `FileOperationDialog` |
| `FileTransfer` | copying or moving one non-directory entry, with the resolver, the staged copy, the rename and the removal of the source | `OperationPolicy` |
| `TransferContract` | what transferring one file promises, however it is done | |
| `FileTransferProofs` | its types and staging files, that it implements the contract, overwriting, accounting, cancellation and the end of a cancelled transfer: theorems | `FileTransfer`, `TransferContract` |
| `SourceTree` | the manifest of a selected entry, a function of the file system | |
| `TreeWalk` | roots, scan, traversal, questions, totals and counters, as both executors have them | `SourceTree`, `OperationPolicy` |
| `TransferTree` | copying and moving trees | `TreeWalk` |
| `DeleteTree` | deleting trees | `TreeWalk` |
| `TreeOperation` | one operation of either kind, the user's cancellation, other programs | `TransferTree`, `DeleteTree` |
| `TreeOperationProofs` | its types, links, removals, totals, what Completed means and what a manifest lists: theorems | `TreeOperation` |
| `FolderWatcher` | the polling watcher and the folders it looks at | |
| `Panel` | a tab: navigation, updates on the pool, notices, recovery, what the widget shows | `FolderWatcher` |
| `PanelProofs` | its types, the watch, the order of listings: theorems | `Panel` |
| `PanelCursor` | the cursor of a tab: what is remembered, what is shown, new and renamed entries | |
| `PanelTabs` | the tabs of one side in controller, widget, tab bar and settings | |
| `PanelWidgetProofs` | that tabs stay themselves and that the cursor is where it should be: theorems | `PanelTabs`, `PanelCursor` |
| `NumbersAndSequences` | lemmas about numbers, functions on them and sequences that several proofs use | |
| `FileSearch` | the search thread, its pool, and the window that owns them | |
| `FileSearchProofs` | what a search finds and reports: theorem | `FileSearch` |
| `FolderComparison` | the comparison of two folders and the dialog that runs it | |
| `FolderComparisonProofs` | what a comparison shows, and when its progress can divide by zero: theorems | `FolderComparison` |
| `MC…` | the instances that are checked | |

### FileOperationJob

One variable per member of `CFileOperationJob`, plus where the worker is. A wait on the
condition variable is three steps, as the standard has it: with the mutex held the
predicate is found false (`pauseBlocking`, `askBlocking`); the mutex is released and the thread
sleeps (`…Asleep`); a notification, or nothing at all (`spuriousWakeup`), wakes it (`…Awake`) and the predicate is
tested again. A call that notifies after unlocking is two steps
(`notifyDue`), so the worker may run in between. A section of code under the mutex is one action. Events
carry the moment they were produced and the queue is a set ordered by these
stamps; `processEvents` swaps the queue into `batch` and dispatches it one by one, with
the mutex free and with calls back into the job allowed. The executor is abstract: it may do a unit of
work only after a checkpoint (`permission`), publish progress, ask any question, return or
throw. What its code really does between two checkpoints is `FileTransfer`'s subject: there `CancellationStopsTransfer`
is the promise that the job's `mutate` takes for granted.

### FileOperationDialog

All of the dialog's code runs on the user interface thread, but not one call
at a time: a prompt or a confirmation runs an event loop of its own in which timers
fire and windows can be closed. So the thread's call stack is a variable; its
frames carry the locals that are read after the nested loop (`wasPaused`, `wasDraining`). The deferred calls
(first show, background switch, deletion) are pending flags. The dialog disposes of itself, as in production.

### FileTransfer and TransferContract

`pc` names the place in the executor between two native calls; each native call is one
action that may also fail, and each question is one action with one disjunct per
answer. Between any two of them the user may cancel and other programs may
create, replace or remove destination entries, remove the source and change its read-only flag. The exclusive
rename is one step; on file systems without it, it is a check followed by a
replacing rename (`recheckDestination`, `rechecked`), as the code does it. A chunk is a step that may be
short; the staging file's data are its length and whether it was flushed and stamped.

`setting` is the situation: copy or move, owned or reached through a link, kind of entry,
size, whether a rename can reach the destination and is exclusive. The history
variables `approved`, `overwritten`, `lateUnits` and `leftovers` exist for the properties.

`TransferContract` knows only the original, which names hold the complete content,
which of these are safe on disk, and the reported outcome. The refinement maps
`holders` to the names with a *whole, stamped* copy, so that publishing half a file would not be a
step of the contract, and `safeHolders` to those that were flushed or renamed, so that
removing the source of an unflushed copy would not be one either.

### SourceTree, TreeWalk, TransferTree, DeleteTree, TreeOperation

A manifest is the sequence of its nodes in preorder, each with its depth, as the builder appends
them; who owns a node (`Owned`, `Borrowed`), where a link is followed and where a cycle ends is decided in
`SourceTree` from a *world*: kinds, listings, link targets, whether directories can be told apart. The builder's recursion
(`buildNode`) is the recursive function `nodesFrom` over the number of levels still allowed, so that a proof can unfold it. What lies *within* an
entry is the least set that holds the entry and, with a directory, all it lists. A world has at least one root: an operation
without sources is rejected before it starts (`fileoperationtypes.cpp:47`).
The recursion of the executors is the stack `frames`; `next` is the node the recursion comes to. `pc` names the place between
two native calls. A regular file is one step here with all the outcomes of `FileTransfer`; the destination may answer
an inspection with anything. Bytes are `FileTransfer`'s subject, items this module's.

### FolderWatcher and Panel

A folder's contents are a number that others change. The poll thread's check is two steps (snapshot without the
lock, comparison with it), the baseline another two; the panel's updates are tasks of a pool, each going through
start, baseline, enumeration and publication, any number of them at a time up to the pool's threads. `generation` is the
panel's own. The folders are given by `PathHierarchy`, what `pathHierarchy` returns for each. The UI queue holds notices; a contents notice replaces the one that waits. A tick swaps the queue
into `batch` and delivers one by one, and the pool runs in between. `rows` is what the widget shows.

### PanelCursor

The same panel without what `Panel` settles: only the newest update, one tab, the normal view. In exchange it has entries, an
order of the rows and the map `_currentItemHashForFolder`. `wanted` is what the properties compare with: the
item the cursor was last brought to in each folder by any of the ways there are. It is given up (`None`) where the code has
nothing to go by, which is said at each place: a cursor moved in rows the panel has left already, a name that is taken.
Its specification is `CursorSpec`, beside `PanelTabs`' own, because one module proves both.

### PanelTabs

What an event of the UI thread does is a function of `side`, the record of the controller's, the widget's and the tab bar's
state, composed of the functions the code calls in their order, the signals of `QTabBar` included (it makes another tab current
before or after it removes one). `restart` is a crash: the program comes back with what the settings hold.

### FileSearch

The search thread walks the items in order; an item is handed to the pool once a slot is free, which it waits for by polling.
The end is three steps, as the code has it: the tasks are waited for, the flag is cleared, the listener is told; and the thread is still there after.
The window's own wait for it (`Starting`, `Closing`) blocks the UI thread. What the listener posts arrives in the window later.

### FolderComparison

A relative path is a number in the order of the maps, its folded form a second number. Pairing follows the code's two
passes over the left map (`passOver`, a recursive function over the names; `classifyPair` is what happens to the maps and lists at each pair) and is
compared with what should be paired, stated without passes (`ShouldBePaired`). A file is read as one block; that an equal first block before a
differing one is reported too is left out. The division by zero that ends the program is a state of its own, `Trapped`.

## 3. Runs

| Run | Checks | Bounds |
|---|---|---|
| `file_operation_job` | the job's type invariant, six safety invariants, order of the queue, the destructor returns | 2 kinds of question (one whose Replace may be remembered, one with Retry); 3 events, i.e. up to three questions: one answered, one remembered, one pending |
| `file_operation_dialog` | six invariants of the dialog with the job | 1 kind, 2 events, 3 frames: drain, prompt and a confirmation on top |
| `file_operation_dialog_live` | a dismissed dialog goes, a cancelled operation's end is noticed | 1 kind, 1 event, 2 frames |
| `dismissed_dialog` | *violated*: a dismissed dialog stays hidden | 1 kind, 1 event, 2 frames |
| `file_transfer` | five invariants, the refinement of the contract, and that each step of a cancelled transfer brings its end nearer | 2 names (symmetric), sizes 0 and 2, one change by others, one warning |
| `tree_operation` | what links lead to is kept, directories go only when all below went, totals meet, the manifest is the tree, a cancellation ends it | nine sources of up to six entries; depth 4, 5 nodes; one change by others |
| `panel` | listings do not go back, the watch follows the view, the view ends up true | three nested folders, two pool threads, one change by others, one command |
| `panel_cursor` | the cursor is where it should be | three folders and three files, of which two and two are there at first; three commands, one change by others |
| `tabs` | the four lists of tabs agree, rows, layouts and settings are each tab's own | three tabs, three opened in all, two closed, two folders and two layouts (symmetric) |
| `search` | slots, results, the end, the list; every search and wait ends | six items of which the first and last match, two workers (four slots), two searches |
| `folder_comparison` | what is shown is complete and true | every pair of folders over three names, two foldings and none, one file that changes |
| `growing_files` | *violated*: the progress is never divided by zero | one name in both folders, no folding, and others may change either side of it (`MaxChanges = 2`) |

Why the bounds are enough. A job handles one question at a time, so the
interesting interleavings involve a question and its successor; the third event leaves
room for progress between them. The dialog's frames are a drain, at most one
prompt in it, and confirmations: two confirmations on top of each other already occur with
three frames. The transfer concerns one entry; a second name is there for the answer
Rename and for approving one name and publishing at another, and one change by others is enough for
every race of the code with one other program (each check of the code precedes one use). Size 2 gives a short write and a write
that completes; size 0 is the case without a write. The number of attempts, of renames and
of answers is not bounded: the state does not count them.

The sources of `tree_operation` have one link each, leading out, sideways before or after the directory
itself, or back up with and without identities, and both limits of the scan are met. In `panel` the first listing, a command and
a change are three updates under way at once, one more than there are threads; a command on top of that is what `panel_cursor` has
room for, because it keeps one update. There, three commands are a navigation away, something in the other folder and a way
back. Three tabs are the least that can be moved past one another and closed from either side. Six items fill four slots
twice over with one to spare at each end. With three names two compete for one on either side; one change tells a result that takes the
file as it was from one that takes it as it is. Two changes, one on either side of a pair, are what `growing_files` needs, and
`folder_comparison` therefore never reaches `Trapped`.

`CHECK_DEADLOCK FALSE` stands where a system may come to rest: a panel nobody uses, a search window that is closed, a comparison that is shown.

A mutant of the code accompanies every property: the definition is changed the way a
plausible bug would and the property must then fail.

### The two disagreements

* `dismissed_dialog`: `cfileoperationdialog.cpp:407-408` says a dialog closed while its operation runs stays
  hidden until the operation ends. The first-show timer (`:130-133`) looks only at `_result` and shows it again if
  it fires while the worker winds down. The dialog can be on screen, and be closed,
  before that timer fires because a prompt shows it.
* `growing_files`: the comment at `foldercomparison.cpp:196` says that the divisor of the progress is "Non-zero whenever any bytes get
  reported". The divisor, `totalCandidateBytes`, is the sum of the sizes found while the folders were enumerated; what is reported are blocks of
  the files as they are when they are read. In the trace two files are empty when they are enumerated, which makes them a candidate
  of zero bytes; both have grown to the same content before `compareFileContents` opens them; the first equal block is
  reported and the program divides by zero. `OnlyChangesMakeTheDivisorZero` proves that nothing but such a change leads there.

### Fairness

* Job: the worker thread is scheduled, its executor does finitely much work, and a
  call of the user interface thread that began goes on to its end. Nothing obliges the user to resume, answer or
  drain. The library's threads and mutexes promise no less.
* Dialog: in addition the event loop delivers due timers and queued calls (strong
  fairness for the drain, whose ticks are ignored while a confirmation is open), and the user in the
  end answers every modal window. Nothing obliges them to close or to resume.
* Transfer: none. That a cancelled transfer ends is the action property `CancelledTransferNearsItsEnd`: a rank
  falls with every step of the worker, and the absence of deadlock, which the run checks, gives the steps.
* Trees: the worker is scheduled and its questions are answered, by the user or by the cancellation.
* Panel: the UI thread's timer ticks (it is periodic and a tick blocks on nothing), the pool's threads and the poll thread run. The
  user and other programs are obliged to nothing; both are bounded, so that the view has a time to settle in.
* Search: the UI thread does what it began, the search thread and the pool run. The user need not stop a search.

## 4. Theorems

`FileOperationProofs` proves, for any `Kinds` and any `MaxEvents` (assumptions `KindsAssumption`,
`MaxEventsAssumption`, both checked by every run), that the type invariant and all six safety
invariants of the run `file_operation_job` hold in every state:

1. `TypeCorrectness`: one step per action.
2. `WakeupsAreNotLost`, `DecisionSlotIsARendezvous`, from the inductive `Handshake`: `NoLostWakeup` alone is not inductive, it
   needs that the worker keeps the mutex from finding its predicate false to blocking (`BlockingIsJustified`) and that request and answer slots
   are occupied only while it waits.
3. `CancellationIsEffective`, `CancellationClearsRequests`, from `Cancellation`: after a cancellation no check grants permission, and before the
   start nothing has happened. It uses the previous two: the slot's rendezvous rules
   out a question queued after the cancellation.
4. `RememberedAnswersAreFinal`, from `Answers`: the answer in the slot is one its question allows.
5. `SummaryIsDeliveredOnceAndLast`, from `Summary`: every event but the summary is stamped before the clock's
   value, and what was swapped out is older than what is queued. `BarriersAreKept` is an action property from the same
   invariant: what a step adds is stamped after every barrier, what progress replaces stood behind it.

The second half of the module proves the dialog, for any kinds of question, number of events and depth of nested loops (`MaxDepthAssumption`: two
at least, a drain and its prompt):

1. `DialogKeepsTheContract`: `DialogSpec => Spec`. Every call of the dialog is one the job's specification allows, so the job's theorems hold of
   the program and the dialog's proofs use them.
2. All five safety invariants of `file_operation_dialog`, and `AnswersMatchRequests`, from one inductive `DialogInv`. None of them is inductive alone.
   `StackIsNested` says what may stand on what (drain, one prompt, confirmations); `DialogShape` relates the flags and locals to
   it; `RequestsAreAwaited`: a request that was drained and is not shown was answered or cancelled, which
   makes a prompt the pending request's and its answer the right one; `PausesAreNested`: the pause that the lowest
   confirmation found is the user's; `ResultIsTheSummary`: the result is known once the summary was dispatched.

`FileSearchProofs` proves `SearchesAreSound`, the whole of `SearchIsSound`, for any number of items, workers and searches, from `SearchInv`: the slots
taken are those of tasks that run and of the thread's item in hand; what was counted is in the list, in the mail or with a task; an item behind the
thread that matches was found or is with a task (`NoMatchIsMissed`); and after the end no task is left (`EndIsTrue`), so the mail tells what the engine
knows (`MailIsTrue`).

`PanelProofs` proves, for any tree of folders, any number of threads, commands and changes (`FoldersAssumption`, `PoolAssumption`, `ChangesAssumption`):

1. `PanelTypeCorrectness`, from `PanelInv`: the pool's updates are in the order of their numbers and none is from the future; what is left of the queue when the
   waiting contents notice is taken out has none.
2. `TheWatchFollows`: the invariant is inductive. It rests on the fact that folders only go, so the watch refuses a folder only where
   the invariant says nothing.
3. `ListingsOnlyGetNewer`, an action property, from `AdvanceInv`: a listing is of the past, and the one update that may still publish has listed its view
   after whatever is committed of it. That there is one needs the distinct numbers of 1. It is stated for `ChangesAreUndone = FALSE`,
   the value the run has: where other programs restore what a folder held before, a later listing can look like an older one.

`FileTransferProofs` proves, for any set of names, any situations (any size), any remembered
answers and any bounds (assumptions `SettingsAssumption`, `PoliciesAssumption`, `BoundsAssumption`), everything that the run
`file_transfer` checks. Each theorem follows from an invariant at the end of `FileTransfer`, proved with one step per action:

1. `TransferTypeCorrectness` and `NoLeftoverInSilence`, from the types with `Bookkeeping`: what abandoning an attempt takes back had been
   counted, else the progress could become negative.
2. `ContractIsKept`, from `Stages`: nothing is published before the publication, what is about to be published is
   whole and flushed as the mode requires, and from there to the removal of the source its copy stands. The initial
   state maps to one of the contract, and every step to one of its steps (`publish` to `Publish`, `renameSource`
   to `Rename`, `removeSource` to `RemoveSource`, `returnToCaller` to `Conclude`, the loss of the source to `SourceVanishes`)
   or to none.
3. `OverwritingWasAuthorized`, from `Dispositions`: a replacing disposition was approved for the name
   proposed now. It must say this of every place from the resolution to the publication, and that the first native rename, before any
   resolution, requires an absent destination.
4. `EntryIsAccountedOnce`, from `Accounts`: before the end the counters are zero and the bytes counted are those of the
   attempt under way.
5. `CancellationStops`, from `OnlyRememberable` and `LateOnce`: after a late unit every way leads through a checkpoint, because no
   remembered answer repeats a unit.
6. `CancelledTransferEnds`: a cancelled transfer's `Rank`, at most eleven, falls with every step of the executor. It needs of the
   questions only that a cancelled context refuses to answer (`AnswersTo`), and of the remembered answers that none of them is a retry; so the result is
   independent of what fails and how often.

The contract is a safety specification: the refinement says nothing about termination.

`TreeOperationProofs` proves, for any set of entries, any worlds (whatever the links, cycles and limits of the scan), any of the three requests and
any number of changes by others (`LimitsAssumption`, `WorldsAssumption`, `RequestsAssumption`, `MeddlingAssumption`), every invariant of `tree_operation` and its action property. It begins with
what a manifest is: `ScanBuildsAManifest` and `ManifestFacts` say that a scan's nodes are visits reached from the root one directory at a time, that the part below a node
is an interval of the sequence (`SubtreeIsAnInterval`, `SubtreesNest`), that an owned node's entry lies within the root, and that nothing below a borrowed node is owned. Then one inductive
`TreeInv`: the walk (`WalkInv`), where the executor stands (`Position`) and the source (`SourceKept`).

1. `TreeTypeCorrectness`. That `next` and the frames stay within the manifest needs `WalkNests`: the open directories lie one within the other around `next`.
2. `LinkTargetsStay`: whatever is taken away was owned, as `Position` says of each place from which a rename or a removal can begin.
3. `OnlyWhatWentIsRemoved`, from `FramesKnowWhatIsLeft`: while a frame's aggregate says that all went well, nothing is left in the part of the directory the walk
   has returned from, except what was there already and does not count. The part, rather than the whole, is what makes it inductive: a child's outcome reaches its parent only when the child is left.
4. `ProgressStaysWithinTotals`, from `AccountsMeet`: items processed, nodes still to come and open directories that count only when they are left make up the totals, which
   is an equation with the cardinality of a set of frames.
5. `CompletionMeansAll`, from `Completion`: a failure is known to a frame, to the root that just ended or to the operation (`FailuresShow`); a copy's counters add up (`CopiesCount`); as long
   as nothing was skipped, failed or found done no frame keeps anything and the roots dealt with are gone (`MovesTake`). Its hypothesis is that nobody else creates
   a selected entry: a root that is removed by others and put back by them after it was dealt with is there at the end, and no program could help it. Every world of the run satisfies it.
6. `ManifestsAreTrees`, the whole of `ManifestIsTheTree`, needs nothing of the walk but everything of the scan. A `Forest` of depth d is a sequence of nodes at depth d or deeper, beginning
   at d and never descending more than one level at a time, in which each node within the depth limit has right below it what is `Wanted` of it, given the directories on the way down. `ForestsJoin`: two of them, one after the
   other, are one, since nothing in the second is deeper than where the first begins. `NodeOverForest`: a node over a forest whose top is what is wanted of the node is one again, with the
   directory the node opens added to those on the way. `ChildrenAreListed` gives that top, by induction over the listing; `OpenedAsWanted` says that the traversal opens a
   directory where the property wants its listing; and `ScanListsEverything` is the induction over the levels. That no step descends by more than one is what makes the children of a node, which the property finds by
   ancestry, the ones whose depth is one more (`ChildrenAreKids`).

`FolderComparisonProofs` proves `ShownResultsAreTrue`, the whole of `ShownResultIsTrue`, for any number of names, any foldings, any contents and any number of changed
files (`NamesAssumption`, `ContentsAssumption`, `ChangesAssumption`). Of the contents it assumes that only one of them is empty, which is what being empty means: the code counts two files of size zero as
equal without reading them.

1. *The pairing.* `APassClassifies`: if a pass finds the counterpart of each name just when the two are one of a set of pairs, no two of which share a name, then it classifies these
   pairs and no other, by induction on the name it has come to (`HasClassified` tells the maps and lists at that point). `TheExactPass` and
   `TheFoldedPass` say which pairs those are. The second is the subtle one: a key that stands for several names on the right is refused, and of several names on the left with
   one key the first takes it, because a name found is gone from the map. `PairingIsRight` puts them together into `ShouldBePaired`, and `PairsAreDisjoint` is what lets one name of a pair stand for it.
2. *The comparison*, from `ComparisonInv`: until an abort is reported, the enumeration was complete (`WhileScanning`), and the pairs that were told apart, those still to read, those
   listed and those counted make up all pairs, except for what others have changed (`Accounted`). The last needs that a pair is read once and that a file nobody changed is as it was enumerated;
   what follows it is an equation with the cardinality of a set of pairs. TLC checks the same invariant on the run's instance.

A second theorem, `OnlyChangesMakeTheDivisorZero`, follows from the same invariant: as long as nobody changes a file that is still to be read, the
progress is not divided by zero. Of two files found alike in size, one with bytes to report has added them to the divisor (`Bytes(p) <= totalCandidateBytes` in `Accounted`).

`PanelWidgetProofs` proves `TabsStayThemselves`, the whole of `TabsAreThemselves`, for any folders and layouts and any number of tabs (`TabsAssumption`,
`LayoutsAssumption`: the layout never stored is no layout, and no tab's id), from `TabsInv`. What one event does is a function of a side, so the lemmas are about these functions: on a
`Consistent` side, where controller, widget and bar have the same tabs in the same order and show the same one, activating (`Activation`), opening (`Opening`), closing (`Closing`),
moving (`Moving`) leave a consistent side, and each tab its layout. Between the steps of an event, when a tab was just removed or another made active, a side is `Paired` only: the three have the
same tabs and may show different ones. Closing all tabs but one is a recursive function over the ids, and that it closes these and leaves the others, whatever each closing does to the positions of the rest, is
the induction of `ClosingSome`. `IdsAreUsed` (every tab's id was handed out) keeps a new tab's id from being another's; `PendingAreTabs` keeps a closed
tab's unlisted folder from being charged to what is saved (`IsSaved`).

The same module proves `TheCursorIsWhereItShouldBe`, the whole of `CursorIsWhereItShouldBe`, for any finite tree of folders and files, any of its parts that are there at first, and any number of commands
and changes by others (`TreeAssumption`, `TreesAssumption`, `BoundsAssumption`: a row's place is a number, a folder comes before what is in it, no two entries have one place). From `CursorInv`:

* where the cursor is not on the item expected of the folder on screen, either an update is under way, or a notice waits, in the queue or in the tick's batch, that brings it there or
  replaces what is shown (`Announces`). This is what `Settled` denies;
* what is expected in a folder is what is remembered of it, or nothing is expected (`ExpectedIsRemembered`): a notice of a new listing places the cursor by the memory, so the two must not part.

Three lemmas carry it. `LandingIsAFolder` and `TheWayUp`: the way up from any folder ends at the root, and the nearest folder on it that is there exists, by induction on the places. `KeptAreNotices`:
what is kept of a queue is a queue of notices. That notices get dropped needs no more than that: where some are, an update begins or a contents notice is queued, and either will place the cursor. `RowsAreTaken`: every row
number below the count of rows is some entry's, a counting argument, so that the cursor that stays in its row is in the list.

Induction in these proofs is over numbers only and goes through a least element, from the well-foundedness of the naturals, without a theorem that has a predicate
as its parameter: the nearest folder that is there, the depth of a manifest, the tabs closed so far (`LeastElement`, `UpTo` in `NumbersAndSequences`). That a recursive function
over the naturals exists at all is proved the same way (`PrimitiveRecursion`), because the library's theorem takes an operator. What removing from and inserting in a
sequence does to its positions is there too (`RemovedFrom`, `InsertedInto`).

Only model-checked:

* the liveness properties of the job, the dialog, trees, panel and search: the prover handles neither fairness nor `ENABLED`.

Every other property of the passing runs is stated by a theorem.

## 5. Not modelled, and why

* Names are abstract: no case respelling, no validation of typed names; the code for both is pure text, or
  planned (the respelling through a temporary name, `cfilesystemmutator.cpp:179`).
* The source keeps its size during a transfer, and other programs leave a published
  copy alone: the program promises nothing if they do not (`ctransferexecutor.cpp:665` removes the source by path).
* Pausing is in the job's model only: a paused transfer is one that takes no step.
* Timing (100 ms, 500 ms) is replaced by "at any moment".
* The dialog owned by a test instead of by itself; how its window is rebuilt for the background (the queued call that does it is `recycleWindow`,
  `cfileoperationdialog.cpp:349`); a close request while the dialog is hidden, which only the main window's end sends (`cmainwindow.cpp:411-412`).
* Timestamps of directories, sizes in manifests.
* The executors' loops in the job's model: an executor is whatever alternates checkpoints, units of work (`mutate`), questions and
  progress. In the tree modules an answer for all that is given inside a file's transfer is not remembered for the directories; every answer
  stays possible there, so this only adds behaviours.
* Steps within one call that no other part can come between in effect: `PanelCursor`'s check that an item exists and the navigation to it, the
  search listener's callback and the end of its thread (the window between the flag and the callback is kept).
* The saved cursors of the tabs (`ccontroller.cpp:360`, `:385`).
* The panel's history, hidden files, volumes; the watcher of Windows.
* Text, layout, icons, settings pages, the viewers, calls into the desktop's services.
* The submodules (`thin_io`, `cpputils`, `qtutils`, …) are not part of the repository; the thread wrapper, condition
  variable, execution queue and event loop are modelled from how the code uses them and marked external.

### Known, without a property

What reading and modelling the code brought up and no property of a run states. Paths as in section 1.

* **Panel.** A change between the baseline and the enumeration that is undone before the next poll is not noticed until the
  next change (`cpanel.cpp:346-350`): with `ChangesAreUndone = TRUE`, `MaxChanges = 2` and `MaxCommands = 0`, `ViewSettles` is violated.
  The watcher compares names and sizes only (`cfilesystemwatchertimerbased.cpp:20-31`). Recovery from a lost folder re-arms the watch of a
  tab in the background, which `cpanel.h:91` and `doc/tabs.md` say is released. A notice a refresh has made stale
  leaves the rows of the folder that was left on screen until the next listing.
* **Cursor.** A cursor moved in rows whose folder was left meanwhile is recorded for the new folder
  (`cpanelwidget.cpp:753-761`; `doc/core-engine.md:39-41` has the cursor updated only after a committed listing, and `currentitemtests.cpp` says
  a listing under way must not have its record overwritten), and
  `CursorIsWhereItShouldBe` gives up what it wanted there. A new name that is taken is recorded and not taken back (`ccontroller.cpp:584-594`). A listing
  enumerated before an entry was created and delivered after it overwrites the record. Going up at the root while its listing is pending
  replaces the invalidation by a contents notice (`cpanel.cpp:187`), so that plugins hear of a new folder with an empty list, against
  `ccontroller.cpp:421-424`. An entry directly in `/` has no parent path (`cfilesystemobject.cpp`), so that neither going up from it nor going to it reaches `/`.
  Going up by other means than Up records the parent for the grandparent, through the row of `[..]`.
* **History.** `navigateBack` moves the history's cursor before it knows whether the folder is accessible (`cpanel.cpp:191-210`); `navigateForward` does not check.
* **Volumes.** A later, insignificant notification replaces a queued significant one of the same tag (`cvolumeenumerator.cpp:102-105`), so that the observer
  does not learn that the list changed (`cpanelwidget.cpp:1150-1205`).
* **Favorites.** A nested last entry writes no marker for the end of its parent's level (`cfavoritelocations.cpp:28-36`), and the reader then reads
  what follows one level too deep (`:113-116`). `save` ignores the settings key that `load` uses (`:131`, `:66`).
* **Search.** The end of a search and its last matches are queued and may reach the window after the next search started (`cfilesearchengine.h:51-52`). A text that spans
  two blocks of 4 KB is not found (`contentsearchtests.cpp:98-112` expects to fail).
* **Job.** `cfileoperationjob.h:52-54` says duplicate and late answers are rejected. `submitDecision` (`cfileoperationjob.cpp:71-91`) rejects an answer
  only while no unanswered question is pending; a second answer to the first question that arrives after the worker asked its next is taken for
  that one's, as `AnswersMatchRequests` checked on `MCFileOperationJob` shows (one kind, two events). The dialog answers each prompt once, so `file_operation_dialog`, where
  the same invariant holds, shows that the program is not affected.
* **Comparison.** Ambiguous names are looked for on the right only (`foldercomparison.cpp:164`). The comparison of two files divides by a size it
  read earlier as that of two folders does (`cfilecomparator.cpp:34`). A cancellation after the last check still shows the result.
* **Trees.** An entry already in place two levels below a link to a directory does not keep the link from being removed.
* **Main window.** Quitting asks each operation's dialog to close and ignores a refusal (`cmainwindow.cpp:411`).

## 6. Plan

1. Done: `FileOperationJob` and its proofs, `FileOperationDialog`, `TransferContract`, `FileTransfer` and its proofs; the tree modules;
   `FolderWatcher`, `Panel`, `PanelCursor`, `PanelTabs`; `FileSearch`; `FolderComparison`.
2. Done: a theorem for every property of the passing runs but the liveness properties.
3. Not begun: the volume enumerator's tagged queue, the favorites' writer and reader as functions over small trees, the plugin proxy's lock and cached state, the
   shell operation runner and the main window's shutdown, the comparison of two files on its thread, the case respelling, the history.
