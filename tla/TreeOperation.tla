--------------------------- MODULE TreeOperation ---------------------------
(***************************************************************************)
(* One operation on trees, as the job's worker runs it: copy and move by   *)
(* the transfer executor, permanent deletion by the delete executor, while *)
(* the user may cancel and other programs change the source.               *)
(***************************************************************************)
EXTENDS TransferTree, DeleteTree

operationVars == <<transferVars, makeWritableAuthorized>>

Init == TransferInit /\ DeleteInit

(* The worker: the executor of the request.                                *)
runOperation ==
  \/ request # "Delete" /\ TransferNext /\ UNCHANGED makeWritableAuthorized
  \/ request = "Delete" /\ DeleteNext /\ UNCHANGED planVars

Finished == pc = "done" /\ UNCHANGED operationVars

Next ==
  \/ runOperation
  \/ cancel /\ UNCHANGED <<planVars, makeWritableAuthorized>>
  \/ others /\ UNCHANGED <<planVars, makeWritableAuthorized>>
  \/ Finished

(* The worker is a thread of its own and every question is answered.       *)
Spec == Init /\ [][Next]_operationVars /\ WF_operationVars(runOperation)

-----------------------------------------------------------------------------
TreeTypeOK ==
  /\ request \in Request /\ world \in World
  /\ present \subseteq Entries /\ writable \subseteq Entries /\ taken \subseteq Entries
  /\ meddling \in 0..MaxMeddling /\ cancelRequested \in BOOLEAN
  /\ root \in 1..Len(world.roots) /\ next \in 1..(Len(manifest) + 1)
  /\ \A i \in DOMAIN manifest : manifest[i] \in SourceNode
  /\ left \subseteq (DOMAIN manifest) \X {"skipped", "satisfied", "failed", "kept"}
  /\ \A i \in DOMAIN frames :
       /\ frames[i].node \in DOMAIN manifest /\ frames[i].aggregate \in NodeOutcome
       /\ frames[i].allCompleted \in BOOLEAN /\ frames[i].cross \in BOOLEAN
  /\ totals.unresolved \in 0..Len(world.roots) /\ totals.items \in Nat
  /\ tally \in [{"completed", "skipped", "satisfied", "failed"} -> Nat]
  /\ itemsProcessed \in Nat
  /\ remembered \in [IssueKind -> DecisionAction \cup {NoAction}]
  /\ anyFailed \in BOOLEAN /\ result \in NodeOutcome \cup {"none"}
  /\ rootKind \in EntryKind /\ choice \in {"none", "Use", "Merge"}
  /\ knownCrossDevice \in BOOLEAN /\ makeWritableAuthorized \in BOOLEAN

Selected == {world.roots[i] : i \in DOMAIN world.roots}

(* What a link leads to is not the operation's to take: whatever the links  *)
(* of the selected entries and the order in which they are met, only        *)
(* entries that lie within the selection itself are moved or deleted.       *)
LinkTargetsAreKept == \A e \in taken : \E s \in Selected : e \in Within(world, s)

(* The source of a directory is about to be removed.                       *)
Removing == pc \in {"removeSource", "tryRemove", "remove", "makeWritable"}
LeftBelow == {entry \in left : entry[1] \in Subtree(manifest, Top.node)}

(* The source of a directory, or the link to one, is removed only when      *)
(* everything in it was dealt with: nothing below it was skipped, failed or *)
(* kept, and nothing of its own is at the destination already.              *)
RemovesOnlyWhatWentCompletely ==
  Removing => \A entry \in LeftBelow :
                entry[2] = "satisfied" /\ ~Owned(manifest[entry[1]])

(* The progress never runs ahead of the totals once these are known, and an *)
(* operation that was not cancelled ends with every known item processed.   *)
ProgressMeetsTotals ==
  /\ totals.unresolved = 0 => itemsProcessed <= totals.items
  /\ pc = "done" /\ result # "Cancelled" =>
       totals.unresolved = 0 /\ itemsProcessed = totals.items

(* An operation that ends Completed had no failure in any root, and if it   *)
(* reports nothing skipped or kept it did it all: a moved or deleted        *)
(* selection is gone, of a copied one every item counted as completed.      *)
CompletedMeansAll ==
  pc = "done" /\ result = "Completed" =>
    /\ tally.failed = 0
    /\ tally.skipped + tally.satisfied = 0 =>
         IF request = "Copy" THEN tally.completed = totals.items ELSE Selected \cap present = {}

(* The members of a sequence at some of its positions, in order.            *)
Those(seq, positions) ==
  LET those[n \in 0..Len(seq)] ==
        IF n = 0 THEN <<>>
        ELSE IF n \in positions THEN Append(those[n - 1], seq[n]) ELSE those[n - 1]
  IN those[Len(seq)]

(* What a directory holds of the entries that are there.                    *)
Listing(w, there, d) == Those(w.listing[d], {k \in DOMAIN w.listing[d] : w.listing[d][k] \in there})

(* The entries of a node's children in a manifest.                          *)
ChildrenOf(tree, i) ==
  Those([j \in DOMAIN tree |-> tree[j].entry],
        {j \in Subtree(tree, i) \ {i} : \A k \in Ancestors(tree, j) : k <= i})

(* A scan lists of every directory it meets all that is there, in order, and *)
(* looks behind a link exactly when content is to be transferred and the    *)
(* link does not lead back to a directory on the way to it.                 *)
IsTheTree(tree, mode, w, there) ==
  \A i \in DOMAIN tree :
    LET opened == Opens(w, tree[i].entry)
        above == {Opens(w, tree[j].entry) : j \in Ancestors(tree, i)}
    IN ChildrenOf(tree, i) = IF \/ tree[i].kind = "Directory"
                                \/ /\ tree[i].kind = "DirectoryLink"
                                   /\ mode = "MaterializingTransfer"
                                   /\ ~(w.identity /\ opened \in above)
                             THEN Listing(w, there, opened) ELSE <<>>

ManifestIsTheTree ==
  [][ manifest = <<>> /\ manifest' # <<>> /\ pc = "scan" =>
        IsTheTree(manifest', IF request = "Delete" THEN "PermanentDelete" ELSE "MaterializingTransfer",
                  world, present)
    ]_operationVars

(* A cancelled operation comes to its end whatever the file system keeps    *)
(* reporting: no loop over a contested destination outlives the request.    *)
CancelEnds == cancelRequested ~> pc = "done"
=============================================================================
