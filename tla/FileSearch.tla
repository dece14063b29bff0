----------------------------- MODULE FileSearch -----------------------------
(***************************************************************************)
(* The search engine, CFileSearchEngine, and the window that owns it: the  *)
(* UI thread starts, stops and waits for a thread that walks the items and *)
(* gives the files to a small pool, a bounded number of them at a time.    *)
(*                                                                         *)
(* The thread is still there after it has said that the search is over, so *)
(* a next search, or the window's end, has to wait for it.                 *)
(***************************************************************************)
EXTENDS Integers, FiniteSets, Sequences, Functions

CONSTANTS
  Items,          (* how many items the walk comes upon                     *)
  Matching,       (* the ones that match                                    *)
  Workers,        (* contentWorkerCount                                     *)
  MaxSearches     (* bound: searches the user starts                        *)

ASSUME ItemsAssumption == Items \in Nat /\ Matching \subseteq 1..Items
ASSUME WorkersAssumption == Workers \in Nat \ {0} /\ MaxSearches \in Nat

VARIABLES
  window,         (* what the UI thread does with the search window         *)
  searches,
  kind,           (* what is searched: names, contents, or an invalid pattern *)
  inProgress,     (* _searchInProgress                                      *)
  cancellation,   (* the thread's cancellationRequested                     *)
  phase,          (* where the search thread is                             *)
  item,           (* the item it has come to                                *)
  slots,          (* availableContentTaskSlots                              *)
  tasks,          (* the pool's tasks, by item                              *)
  found,          (* the items the listener was told of                     *)
  status,         (* what the listener is told at the end                   *)
  posted,         (* what the listener has posted to the UI thread          *)
  matches,        (* what the window lists, each with the search it is of   *)
  button

vars == <<window, searches, kind, inProgress, cancellation, phase, item, slots, tasks,
          found, status, posted, matches, button>>

Kind == {"Names", "Contents", "InvalidPattern"}
Slots == 2 * Workers
NoTask == "None"

Init ==
  /\ window = "Open" /\ searches = 0
  /\ kind = "Names"
  /\ inProgress = FALSE /\ cancellation = FALSE
  /\ phase = "Joined"
  /\ item = 0
  /\ slots = Slots
  /\ tasks = [i \in 1..Items |-> NoTask]
  /\ found = {}
  /\ status = "None"
  /\ posted = <<>> /\ matches = {} /\ button = "Start"

engineVars == <<kind, inProgress, phase, item, slots, tasks, found, status>>
listVars == <<matches, button>>

(* The listener is the window: it posts to itself.                          *)
MatchOf(i) == [event |-> "Match", search |-> searches, item |-> i]
FinishOf == [event |-> "Finished", search |-> searches, item |-> 0]
reports(i) == posted' = IF i \in Matching THEN Append(posted, MatchOf(i)) ELSE posted

-----------------------------------------------------------------------------
(* The UI thread.                                                          *)

(* The button: it stops the search that runs, or starts one, which waits    *)
(* for the last one's thread.                                               *)
stopSearching ==
  /\ window = "Open" /\ inProgress
  /\ cancellation' = TRUE
  /\ UNCHANGED <<window, searches, engineVars, posted, listVars>>

search ==
  /\ window = "Open" /\ ~inProgress /\ searches < MaxSearches
  /\ window' = "Starting"
  /\ UNCHANGED <<searches, cancellation, engineVars, posted, listVars>>

(* CInterruptableThread::join returns when the thread has ended.            *)
ThreadHasEnded == phase \in {"Joined", "Ended"}

startSearch ==
  /\ window = "Starting" /\ ThreadHasEnded
  /\ window' = "Open"
  /\ searches' = searches + 1
  /\ kind' \in Kind
  /\ inProgress' = TRUE /\ cancellation' = FALSE
  /\ phase' = "Start"
  /\ item' = 0
  /\ slots' = Slots
  /\ found' = {} /\ status' = "None"
  /\ matches' = {} /\ button' = "Stop"
  /\ UNCHANGED <<tasks, posted>>

(* What was posted reaches the window between two clicks.                   *)
deliver ==
  /\ window = "Open" /\ posted # <<>>
  /\ posted' = Tail(posted)
  /\ LET told == Head(posted) IN
       IF told.event = "Match"
       THEN matches' = matches \cup {<<told.search, told.item>>} /\ UNCHANGED button
       ELSE button' = "Start" /\ UNCHANGED matches
  /\ UNCHANGED <<window, searches, cancellation, engineVars>>

closeWindow ==
  /\ window = "Open"
  /\ window' = "Closing"
  /\ cancellation' = TRUE
  /\ UNCHANGED <<searches, engineVars, posted, listVars>>

(* Mutant: the window does not wait for the thread it has stopped.          *)
destroyWindow_AtOnce ==
  /\ window = "Closing"
  /\ window' = "Gone" /\ posted' = <<>>
  /\ UNCHANGED <<searches, cancellation, engineVars, listVars>>

(* With the window goes what was posted to it.                              *)
destroyWindow ==
  /\ window = "Closing" /\ ThreadHasEnded
  /\ window' = "Gone" /\ posted' = <<>>
  /\ UNCHANGED <<searches, cancellation, engineVars, listVars>>

(* What it does in any case, and what only its user decides.                *)
uiThread == startSearch \/ deliver \/ destroyWindow
user == stopSearching \/ search \/ closeWindow

-----------------------------------------------------------------------------
(* The search thread.                                                      *)

Thread(from) == phase = from /\ UNCHANGED <<window, searches, kind, cancellation, listVars>>

beginSearch ==
  /\ Thread("Start")
  /\ IF kind = "InvalidPattern"
     THEN phase' = "Clear" /\ status' = "InvalidPattern"
     ELSE phase' = "Scan" /\ UNCHANGED status
  /\ UNCHANGED <<inProgress, item, slots, tasks, found, posted>>

(* One item of scanDirectory, which stops coming up with any once it sees   *)
(* the cancellation.                                                        *)
scanItem ==
  /\ Thread("Scan")
  /\ UNCHANGED <<inProgress, slots, tasks, status>>
  /\ IF cancellation \/ item = Items
     THEN phase' = "Drain" /\ UNCHANGED <<item, found, posted>>
     ELSE /\ item' = item + 1
          /\ IF kind = "Contents"
             THEN phase' = "Acquire" /\ UNCHANGED <<found, posted>>
             ELSE /\ UNCHANGED phase
                  /\ found' = found \cup ({item'} \cap Matching)
                  /\ reports(item')

(* acquireContentTaskSlotUnlessCancelled: the wait for a slot ends every now *)
(* and then to look at the cancellation, and a slot got too late is given    *)
(* back.                                                                     *)
acquireSlot ==
  /\ Thread("Acquire")
  /\ IF cancellation THEN phase' = "Scan" /\ UNCHANGED slots
     ELSE slots > 0 /\ slots' = slots - 1 /\ phase' = "Acquired"
  /\ UNCHANGED <<inProgress, item, tasks, found, status, posted>>

enqueueTask ==
  /\ Thread("Acquired")
  /\ phase' = "Scan"
  /\ IF cancellation THEN slots' = slots + 1 /\ UNCHANGED tasks
     ELSE tasks' = [tasks EXCEPT ![item] = "Queued"] /\ UNCHANGED slots
  /\ UNCHANGED <<inProgress, item, found, status, posted>>

(* Mutant: the status is settled before the files in the pool are read.     *)
finishAllThreads_Later ==
  /\ Thread("Drain")
  /\ phase' = "Clear"
  /\ status' = IF cancellation THEN "Cancelled" ELSE "Finished"
  /\ UNCHANGED <<inProgress, item, slots, tasks, found, posted>>

finishAllThreads ==
  /\ Thread("Drain")
  /\ \A i \in 1..Items : tasks[i] = NoTask
  /\ phase' = "Clear"
  /\ status' = IF cancellation THEN "Cancelled" ELSE "Finished"
  /\ UNCHANGED <<inProgress, item, slots, tasks, found, posted>>

(* notifySearchFinished, and the thread's end after the listener returns.   *)
clearInProgress ==
  /\ Thread("Clear")
  /\ inProgress' = FALSE
  /\ phase' = "Notify"
  /\ UNCHANGED <<item, slots, tasks, found, status, posted>>

searchFinished ==
  /\ Thread("Notify")
  /\ phase' = "Ended"
  /\ posted' = Append(posted, FinishOf)
  /\ UNCHANGED <<inProgress, item, slots, tasks, found, status>>

searchThread ==
  \/ beginSearch \/ scanItem \/ acquireSlot \/ enqueueTask
  \/ finishAllThreads \/ clearInProgress \/ searchFinished

-----------------------------------------------------------------------------
(* The pool.                                                               *)

PoolStep ==
  UNCHANGED <<window, searches, kind, inProgress, cancellation, phase, item, status, listVars>>

beginTask(i) ==
  /\ tasks[i] = "Queued"
  /\ Cardinality({j \in 1..Items : tasks[j] = "Matching"}) < Workers
  /\ tasks' = [tasks EXCEPT ![i] = "Matching"]
  /\ PoolStep /\ UNCHANGED <<slots, found, posted>>

(* Mutant: a file that does not match keeps its slot.                       *)
endTask_KeepsSlot(i) ==
  /\ tasks[i] = "Matching"
  /\ tasks' = [tasks EXCEPT ![i] = NoTask]
  /\ IF cancellation THEN UNCHANGED <<found, posted>>
     ELSE found' = found \cup ({i} \cap Matching) /\ reports(i)
  /\ slots' = IF i \in Matching THEN slots + 1 ELSE slots
  /\ PoolStep

(* A task that sees the cancellation does not read on.                      *)
endTask(i) ==
  /\ tasks[i] = "Matching"
  /\ tasks' = [tasks EXCEPT ![i] = NoTask]
  /\ IF cancellation THEN UNCHANGED <<found, posted>>
     ELSE found' = found \cup ({i} \cap Matching) /\ reports(i)
  /\ slots' = slots + 1
  /\ PoolStep

pool == \E i \in 1..Items : beginTask(i) \/ endTask(i)

-----------------------------------------------------------------------------
Next == user \/ uiThread \/ searchThread \/ pool

(* Every thread runs; the user need not do anything.                        *)
Spec ==
  /\ Init /\ [][Next]_vars
  /\ WF_vars(uiThread) /\ WF_vars(searchThread) /\ WF_vars(pool)

-----------------------------------------------------------------------------
SearchTypeOK ==
  /\ window \in {"Open", "Starting", "Closing", "Gone"}
  /\ searches \in 0..MaxSearches
  /\ kind \in Kind
  /\ inProgress \in BOOLEAN /\ cancellation \in BOOLEAN
  /\ phase \in {"Joined", "Start", "Scan", "Acquire", "Acquired", "Drain", "Clear",
                "Notify", "Ended"}
  /\ item \in 0..Items
  /\ slots \in 0..Slots
  /\ tasks \in [1..Items -> {NoTask, "Queued", "Matching"}]
  /\ found \subseteq Matching
  /\ status \in {"None", "InvalidPattern", "Cancelled", "Finished"}
  /\ posted \in Seq([event : {"Match", "Finished"}, search : 0..MaxSearches, item : 0..Items])
  /\ matches \subseteq (0..MaxSearches) \X Matching
  /\ button \in {"Start", "Stop"}

Alive == {i \in 1..Items : tasks[i] # NoTask}

(* Every slot that is not free is held by one task or by the thread.        *)
SlotsAreConserved ==
  slots + Cardinality(Alive) + (IF phase = "Acquired" THEN 1 ELSE 0) = Slots

(* Nothing of a search that said it was over is left to report more, a      *)
(* window that is gone is told nothing, and no search is in progress that   *)
(* another could be started beside.                                         *)
NothingFollowsTheEnd ==
  /\ phase \in {"Clear", "Notify", "Ended", "Joined"} => Alive = {}
  /\ window = "Gone" => ThreadHasEnded /\ posted = <<>>
  /\ ~inProgress <=> phase \in {"Joined", "Notify", "Ended"}

(* What was found is listed or on its way, though the list is emptied after *)
(* the thread was started; and the button does not stay when the search has *)
(* gone. (While the next one runs the last one's end may still reach it.)   *)
NothingFoundIsLost ==
  window = "Open" =>
    /\ \A i \in found : <<searches, i>> \in matches \/ MatchOf(i) \in Range(posted)
    /\ posted = <<>> /\ phase \in {"Joined", "Ended"} => button = "Start"

(* A search ends as it says: one that was not cancelled in time has told of *)
(* all that match, and what it has found reaches the list of the window that *)
(* outlives it, under slots that are few (searchThread and                   *)
(* notifySearchFinished, cfilesearchengine.cpp:223-366; ~CFilesSearchWindow, *)
(* cfilessearchwindow.cpp:84-88).                                            *)
SearchIsSound ==
  /\ SearchTypeOK
  /\ SlotsAreConserved
  /\ NothingFollowsTheEnd
  /\ NothingFoundIsLost
  /\ status = "Finished" => found = Matching

(* Every search ends, cancelled or not, however few slots it has, and so    *)
(* does the wait of who starts the next one or closes the window            *)
(* (acquireContentTaskSlotUnlessCancelled, cfilesearchengine.cpp:171-185).  *)
SearchesEnd ==
  /\ inProgress ~> ~inProgress
  /\ window \in {"Starting", "Closing"} ~> window \notin {"Starting", "Closing"}
=============================================================================
