--------------------------- MODULE FolderWatcher ---------------------------
(***************************************************************************)
(* The watcher that polls, CFileSystemWatcherTimerBased: it compares what  *)
(* the watched folder holds with what it held before, and its baseline is  *)
(* either the first poll's or one captured before a listing.               *)
(*                                                                         *)
(* What a folder holds, its names and sizes, is a number; others change it *)
(* and remove folders.                                                     *)
(***************************************************************************)
EXTENDS Integers, Sequences, FiniteSets

CONSTANTS
  Folders,
  Root,              (* the folder that is always there                     *)
  PathHierarchy,     (* of each folder, itself and what leads to the root   *)
  ChangesAreUndone,  (* others may restore what a folder held before        *)
  MaxChanges,        (* bound: changes made by others                       *)
  None               (* no folder                                           *)

ASSUME FoldersAssumption ==
  /\ IsFiniteSet(Folders) /\ Root \in Folders /\ None \notin Folders
  /\ PathHierarchy \in [Folders -> Seq(Folders)]
  /\ \A f \in Folders : LET path == PathHierarchy[f] IN
       /\ path # <<>> /\ path[1] = f /\ path[Len(path)] = Root
       /\ \A i \in DOMAIN path : PathHierarchy[path[i]] = SubSeq(path, i, Len(path))
ASSUME ChangesAssumption == ChangesAreUndone \in BOOLEAN /\ MaxChanges \in Nat

VARIABLES
  present,                  (* the folders that exist                       *)
  contents,                 (* what each of them holds                      *)
  changes,
  pathToWatch, pathGeneration,
  changeDetected,
  previousState, previousStateGeneration,
  poll                      (* the poll thread's snapshot, until compared   *)

worldVars == <<present, contents, changes>>
watchVars == <<pathToWatch, pathGeneration, changeDetected, previousState,
               previousStateGeneration, poll>>

Empty == 0
Stamp == Empty..MaxChanges
NoPoll == [generation |-> 0, state |-> Empty]

(* A folder that is gone lists as if it were empty.                         *)
SnapshotOf(folder) == IF folder \in present THEN contents[folder] ELSE Empty

WatcherInit ==
  /\ present = Folders
  /\ contents = [f \in Folders |-> Empty]
  /\ changes = 0
  /\ changeDetected = FALSE
  /\ previousState = Empty /\ previousStateGeneration = 0
  /\ poll = NoPoll

-----------------------------------------------------------------------------
(* What others do. A change may be undone, down to the sizes, as long as    *)
(* the folders in it are still there.                                       *)

ParentOf(folder) == IF folder = Root THEN Root ELSE PathHierarchy[folder][2]

Descendants(folder) ==
  {f \in Folders : \E i \in DOMAIN PathHierarchy[f] : PathHierarchy[f][i] = folder}

Change == changes < MaxChanges /\ changes' = changes + 1

MayBeAsBefore(folder) ==
  ChangesAreUndone /\ \A f \in Folders : ParentOf(f) = folder => f \in present

folderChanges(folder) ==
  /\ Change
  /\ folder \in present
  /\ \E stamp \in {changes'} \cup (IF MayBeAsBefore(folder) THEN 0..changes ELSE {}) :
       /\ stamp # contents[folder]
       /\ contents' = [contents EXCEPT ![folder] = stamp]
  /\ UNCHANGED <<present, watchVars>>

(* A folder goes with all it holds, and its parent holds one entry less.    *)
folderVanishes(folder) ==
  /\ Change
  /\ folder \in present \ {Root}
  /\ present' = present \ Descendants(folder)
  /\ contents' = [contents EXCEPT ![ParentOf(folder)] = changes']
  /\ UNCHANGED watchVars

others == \E folder \in Folders : folderChanges(folder) \/ folderVanishes(folder)

-----------------------------------------------------------------------------
(* The watcher's interface.                                                *)

(* A path that is no folder is refused and what was watched stays watched.  *)
setPathToWatch(path) ==
  IF path = None \/ path \in present
  THEN /\ pathToWatch' = path
       /\ pathGeneration' = pathGeneration + 1
       /\ changeDetected' = FALSE
       /\ UNCHANGED <<previousState, previousStateGeneration, poll>>
  ELSE UNCHANGED watchVars

NeedsBaseline == pathToWatch # None /\ previousStateGeneration # pathGeneration

(* The end of captureBaselineState: a navigation or a poll that came in     *)
(* between makes the snapshot worthless.                                    *)
commitBaseline(generation, state) ==
  IF generation = pathGeneration /\ previousStateGeneration # generation
  THEN /\ previousState' = state /\ previousStateGeneration' = generation
       /\ UNCHANGED <<pathToWatch, pathGeneration, changeDetected, poll>>
  ELSE UNCHANGED watchVars

-----------------------------------------------------------------------------
(* The poll thread, parked while there is nothing to watch.                *)

onCheckForChanges ==
  /\ poll = NoPoll /\ pathToWatch # None
  /\ poll' = [generation |-> pathGeneration, state |-> SnapshotOf(pathToWatch)]
  /\ UNCHANGED <<pathToWatch, pathGeneration, changeDetected, previousState,
                 previousStateGeneration, worldVars>>

processChanges ==
  /\ poll # NoPoll
  /\ poll' = NoPoll
  /\ IF pathToWatch # None /\ poll.generation = pathGeneration
     THEN /\ changeDetected' = (changeDetected \/ (previousStateGeneration = pathGeneration
                                                   /\ poll.state # previousState))
          /\ previousState' = poll.state
          /\ previousStateGeneration' = pathGeneration
     ELSE UNCHANGED <<changeDetected, previousState, previousStateGeneration>>
  /\ UNCHANGED <<pathToWatch, pathGeneration, worldVars>>

pollThread == onCheckForChanges \/ processChanges
=============================================================================
