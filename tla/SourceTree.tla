----------------------------- MODULE SourceTree -----------------------------
(***************************************************************************)
(* The manifest of a selected entry, CSourceTreeBuilder: a depth-first     *)
(* listing that follows links to directories when the content is to be     *)
(* materialized and never when it is to be deleted.                        *)
(*                                                                         *)
(* A manifest is the sequence of its nodes in the order of the traversal,  *)
(* each with its depth.                                                    *)
(***************************************************************************)
EXTENDS Integers, Sequences, FiniteSets, SequencesExt

CONSTANTS
  Entries,           (* names of the source's entries, at any depth         *)
  maximumDepth, maximumNodeCount

EntryKind == {"Directory", "DirectoryLink", "File", "Other"}

(* A world: what the source's file system holds.  A file here is a regular  *)
(* file or a link to one.                                                   *)
World == [kind: [Entries -> EntryKind],
          listing: [Entries -> Seq(Entries)],   (* a directory's entries    *)
          target: [Entries -> Entries],         (* what a link leads to     *)
          identity: BOOLEAN,       (* directories can be told apart         *)
          sameDevice: BOOLEAN,     (* a rename can reach the destination    *)
          late: SUBSET Entries,    (* entries others may still create       *)
          readOnly: SUBSET Entries,
          roots: Seq(Entries) \ {<<>>}]  (* the selected entries           *)

ASSUME LimitsAssumption == maximumDepth \in Nat \ {0} /\ maximumNodeCount \in Nat \ {0}

SourceOwnership == {"Owned", "Borrowed"}
SourceNode == [entry: Entries, kind: EntryKind, ownership: SourceOwnership, depth: Nat \ {0}]

(* A link whose target is gone is reported as a link to a file.             *)
ReportedKind(w, present, e) ==
  IF w.kind[e] = "DirectoryLink" /\ w.target[e] \notin present THEN "File" ELSE w.kind[e]

(* The directory an entry opens into.                                       *)
Opens(w, e) == IF w.kind[e] = "DirectoryLink" THEN w.target[e] ELSE e

(* Sets of entries that hold with a directory all that is listed in it.     *)
Closed(w) ==
  {S \in SUBSET Entries :
     \A d \in S : w.kind[d] = "Directory" => ToSet(w.listing[d]) \subseteq S}

(* An entry and everything below it, links not followed.                    *)
Within(w, e) ==
  LET holding == {S \in Closed(w) : e \in S}
  IN {x \in Entries : \A S \in holding : x \in S}

(* Mutant: a link below a link's target makes its own content owned again.  *)
childOwnership_OfTheLinkOnly(w, e, ownership) ==
  IF w.kind[e] = "DirectoryLink" THEN "Borrowed" ELSE "Owned"

childOwnership(w, e, ownership) ==
  IF ownership = "Borrowed" \/ w.kind[e] = "DirectoryLink" THEN "Borrowed" ELSE "Owned"

(* Mutant: a link is followed whatever the manifest is for.                 *)
descends_WhateverTheMode(w, mode, e, branch) ==
  \/ w.kind[e] = "Directory"
  \/ w.kind[e] = "DirectoryLink" /\ (w.identity => w.target[e] \notin branch)

(* Whether a node's directory is listed, given the directories on the way   *)
(* down to it: a link that leads back to one of them stays a leaf.          *)
descends(w, mode, e, branch) ==
  CASE w.kind[e] = "Directory" -> TRUE
    [] w.kind[e] = "DirectoryLink" ->
         mode = "MaterializingTransfer" /\ (w.identity => w.target[e] \notin branch)
    [] OTHER -> FALSE

Stopped == <<>>

(* What the traversal comes to: an entry, by which right it is reached, and *)
(* the directories on the way down to it.                                   *)
Visit == [entry: Entries, ownership: SourceOwnership, branch: SUBSET Entries]

(* The visit of one entry of the directory that another visit opens.        *)
VisitBelow(w, v, e) ==
  [entry |-> e, ownership |-> childOwnership(w, v.entry, v.ownership),
   branch |-> v.branch \cup {Opens(w, v.entry)}]

(* The nodes from a visit on, of which "below" has what its children add;   *)
(* an entry that is not there any more when its turn comes adds nothing.    *)
buildNode(w, mode, present, levels, below, v) ==
  LET listed == w.listing[Opens(w, v.entry)]
  IN <<[entry |-> v.entry, kind |-> ReportedKind(w, present, v.entry),
        ownership |-> v.ownership, depth |-> maximumDepth + 1 - levels]>>
     \o IF /\ levels > 0 /\ descends(w, mode, v.entry, v.branch)
           /\ Opens(w, v.entry) \in present
        THEN FlattenSeq([i \in 1..Len(listed) |->
               IF listed[i] \in present THEN below[VisitBelow(w, v, listed[i])] ELSE <<>>])
        ELSE <<>>

(* The nodes each visit leads to, by the levels the limit leaves below it.  *)
nodesFrom(w, mode, present) ==
  LET nodes[levels \in 0..maximumDepth] ==
        [v \in Visit |-> buildNode(w, mode, present, levels, nodes[levels - 1], v)]
  IN nodes

(* The manifest of root among the entries present, or Stopped at a limit.   *)
buildSourceTree(w, mode, present, root) ==
  LET tree == nodesFrom(w, mode, present)[maximumDepth]
                [[entry |-> root, ownership |-> "Owned", branch |-> {}]]
  IN IF Len(tree) > maximumNodeCount \/ \E i \in DOMAIN tree : tree[i].depth > maximumDepth
     THEN Stopped ELSE tree

(* A node and all below it, in a manifest or the rest of one.               *)
Subtree(tree, i) ==
  {j \in i..Len(tree) : \A k \in (i + 1)..j : tree[k].depth > tree[i].depth}
itemCount(tree, i) == Cardinality(Subtree(tree, i))

Ancestors(tree, i) == {j \in 1..(i - 1) : i \in Subtree(tree, j)}
=============================================================================
