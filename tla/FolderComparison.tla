-------------------------- MODULE FolderComparison --------------------------
(***************************************************************************)
(* compareFolders on its thread, behind the dialog that can cancel it: both *)
(* sides are enumerated, their entries paired by name and then, for what is *)
(* left over, by folded name, and files that could be equal are read.      *)
(*                                                                         *)
(* A relative path is a number, in the order of the map they are kept in.   *)
(***************************************************************************)
EXTENDS Integers, Sequences, FiniteSets, SequencesExt

CONSTANTS
  Names,          (* how many relative paths there are                      *)
  Foldings,       (* what each of them may be without case and normalization *)
  Exact,          (* PairingMode::Exact, which folds nothing                *)
  Contents,       (* what files can hold                                    *)
  SizeOf,
  Directory, Absent,
  MaxChanges      (* bound: others change files until so many pairs are touched *)

ASSUME NamesAssumption ==
  /\ Names \in Nat
  /\ Exact \notin Foldings /\ \A key \in Foldings : DOMAIN key = 1..Names
ASSUME ContentsAssumption ==
  /\ SizeOf \in [Contents -> Nat]
  /\ \A c, d \in Contents : SizeOf[c] = 0 /\ SizeOf[d] = 0 => c = d
  /\ Directory \notin Contents /\ Absent \notin Contents \cup {Directory}
ASSUME ChangesAssumption == MaxChanges \in Nat

VARIABLES
  disk,           (* what the two folders hold                              *)
  touched,        (* the names of the files that others have changed        *)
  pairingMode,    (* it is Exact or the folding of the names               *)
  abort,
  dialog,         (* the progress dialog, and what follows it               *)
  phase,          (* where the worker is                                    *)
  scanned,        (* what it has enumerated                                 *)
  contentCandidates,
  totalCandidateBytes,
  differences, identicalFiles, aborted   (* the result                      *)

vars == <<disk, touched, pairingMode, abort, dialog, phase, scanned, contentCandidates,
          totalCandidateBytes, differences, identicalFiles, aborted>>
result == <<differences, identicalFiles, aborted>>

Name == 1..Names
NoName == 0
Entry == Contents \cup {Directory}
Side == [Name -> Entry \cup {Absent}]
Nothing == [n \in Name |-> Absent]
Held(side) == {n \in Name : side[n] # Absent}
Size(entry) == IF entry = Directory THEN 0 ELSE SizeOf[entry]

Init ==
  /\ disk \in [left : Side, right : Side]
  /\ touched = {}
  /\ pairingMode \in Foldings \cup {Exact}
  /\ abort = FALSE /\ dialog = "Open"
  /\ phase = "ScanLeft"
  /\ scanned = [left |-> Nothing, right |-> Nothing]
  /\ contentCandidates = <<>> /\ totalCandidateBytes = 0
  /\ differences = {} /\ identicalFiles = 0 /\ aborted = FALSE

-----------------------------------------------------------------------------
(* Pairing. A pair is a name on the left and one on the right.             *)

Difference(pair, status) == [left |-> pair[1], right |-> pair[2], status |-> status]

(* What can be told of a pair without reading it.                           *)
BothDirectories(l, r) == l = Directory /\ r = Directory
TellApart(l, r) == (l = Directory) # (r = Directory) \/ Size(l) # Size(r)
Undecided(pair) ==
  LET l == scanned.left[pair[1]] r == scanned.right[pair[2]]
  IN ~BothDirectories(l, r) /\ ~TellApart(l, r)

(* A pair is taken out of the two maps.                                     *)
classifyPair(s, pair) ==
  LET l == scanned.left[pair[1]] r == scanned.right[pair[2]]
  IN [left |-> s.left \ {pair[1]}, right |-> s.right \ {pair[2]},
      contentCandidates |->
        IF Undecided(pair) THEN Append(s.contentCandidates, pair) ELSE s.contentCandidates,
      totalCandidateBytes |-> s.totalCandidateBytes + IF Undecided(pair) THEN Size(l) ELSE 0,
      differences |->
        s.differences \cup (IF TellApart(l, r) THEN {Difference(pair, "Different")} ELSE {})]

(* Both passes go through the left map in order, here up to each name, and    *)
(* look in the right one for what may be the other half of a pair.           *)
passOver(maps, counterpart) ==
  LET pass[n \in 0..Names] ==
        IF n = 0 THEN maps
        ELSE IF n \in pass[n - 1].left /\ counterpart[n] \in pass[n - 1].right
             THEN classifyPair(pass[n - 1], <<n, counterpart[n]>>) ELSE pass[n - 1]
  IN pass

exactPass ==
  passOver([left |-> Held(scanned.left), right |-> Held(scanned.right), contentCandidates |-> <<>>,
            totalCandidateBytes |-> 0, differences |-> {}],
           [n \in Name |-> n])[Names]

(* The one name on the right that a folded key stands for, none if there are  *)
(* several. A name that was found is not found again.                        *)
foldedRight(names) ==
  [n \in Name |->
     LET alike == {m \in names : pairingMode[m] = pairingMode[n]}
     IN IF \E m \in alike : alike = {m} THEN CHOOSE m \in alike : TRUE ELSE NoName]

foldedPass == passOver(exactPass, foldedRight(exactPass.right))[Names]

paired == IF pairingMode = Exact THEN exactPass ELSE foldedPass

-----------------------------------------------------------------------------
(* The worker.                                                             *)

Worker(from) == phase = from /\ UNCHANGED <<disk, touched, pairingMode, abort, dialog>>

(* scanDirectory returns early, and says nothing of it, when it sees the    *)
(* abort: what it has by then may be all there is or not.                    *)
Scan(side) ==
  \E found \in {disk[side]} \cup (IF abort THEN {Nothing} ELSE {}) :
    scanned' = [scanned EXCEPT ![side] = found]

scanLeft ==
  /\ Worker("ScanLeft")
  /\ Scan("left")
  /\ phase' = "ScanRight"
  /\ UNCHANGED <<contentCandidates, totalCandidateBytes, result>>

scanRight ==
  /\ Worker("ScanRight")
  /\ Scan("right")
  /\ phase' = "Pair"
  /\ UNCHANGED <<contentCandidates, totalCandidateBytes, result>>

classifyPairs ==
  /\ contentCandidates' = paired.contentCandidates
  /\ totalCandidateBytes' = paired.totalCandidateBytes
  /\ differences' = paired.differences
       \cup {Difference(<<n, NoName>>, "OnlyInLeft") : n \in paired.left}
       \cup {Difference(<<NoName, n>>, "OnlyInRight") : n \in paired.right}
  /\ phase' = "Compare"
  /\ UNCHANGED aborted

(* Mutant: the abort is only looked at where files are read.                *)
pairEntries_Regardless ==
  /\ Worker("Pair")
  /\ classifyPairs
  /\ UNCHANGED <<scanned, identicalFiles>>

pairEntries ==
  /\ Worker("Pair")
  /\ IF abort
     THEN aborted' = TRUE /\ phase' = "Done"
          /\ UNCHANGED <<contentCandidates, totalCandidateBytes, differences>>
     ELSE classifyPairs
  /\ UNCHANGED <<scanned, identicalFiles>>

nextCandidate ==
  /\ Worker("Compare")
  /\ phase' = IF contentCandidates = <<>> \/ abort THEN "Done" ELSE "Read"
  /\ aborted' = (contentCandidates # <<>> /\ abort)
  /\ UNCHANGED <<scanned, contentCandidates, totalCandidateBytes, differences, identicalFiles>>

(* compareFileContents: what it makes of the files as they are by now. It   *)
(* looks at the abort before it reads a block.                              *)
ContentComparison(l, r) ==
  IF l \notin Contents \/ r \notin Contents THEN "Error"
  ELSE IF SizeOf[l] # SizeOf[r] THEN "Different"
  ELSE IF SizeOf[l] = 0 THEN "Equal"
  ELSE IF abort THEN "Aborted"
  ELSE IF l = r THEN "Equal" ELSE "Different"

(* A block found equal is reported as a share of the bytes enumerated, and   *)
(* a division by zero ends the program.                                      *)
readCandidate ==
  /\ Worker("Read")
  /\ UNCHANGED <<scanned, totalCandidateBytes>>
  /\ LET pair == Head(contentCandidates)
         l == disk.left[pair[1]]
         comparison == ContentComparison(l, disk.right[pair[2]])
     IN IF comparison = "Equal" /\ SizeOf[l] > 0 /\ totalCandidateBytes = 0
        THEN phase' = "Trapped" /\ UNCHANGED <<contentCandidates, result>>
        ELSE /\ contentCandidates' = Tail(contentCandidates)
             /\ phase' = IF comparison = "Aborted" THEN "Done" ELSE "Compare"
             /\ aborted' = (comparison = "Aborted")
             /\ identicalFiles' = identicalFiles + (IF comparison = "Equal" THEN 1 ELSE 0)
             /\ differences' = differences \cup
                  (CASE comparison = "Different" -> {Difference(pair, "Different")}
                     [] comparison = "Error" -> {Difference(pair, "ComparisonFailed")}
                     [] OTHER -> {})

worker == scanLeft \/ scanRight \/ pairEntries \/ nextCandidate \/ readCandidate

-----------------------------------------------------------------------------
(* runFolderComparison, which waits for the worker however the dialog went.  *)

cancel ==
  /\ dialog = "Open"
  /\ dialog' = "Joining" /\ abort' = TRUE
  /\ UNCHANGED <<disk, touched, pairingMode, phase, scanned, contentCandidates, totalCandidateBytes,
                 result>>

accept ==
  /\ dialog = "Open" /\ phase = "Done"
  /\ dialog' = "Joining"
  /\ UNCHANGED <<disk, touched, pairingMode, abort, phase, scanned, contentCandidates,
                 totalCandidateBytes, result>>

runFolderComparisonReturns ==
  /\ dialog = "Joining" /\ phase = "Done"
  /\ dialog' = IF aborted THEN "NoResult" ELSE "Shown"
  /\ UNCHANGED <<disk, touched, pairingMode, abort, phase, scanned, contentCandidates,
                 totalCandidateBytes, result>>

(* Another program changes or removes a file that is still to be read. (An  *)
(* earlier change is another folder to begin with, a later one is not seen.) *)
fileChanges ==
  /\ phase \in {"Compare", "Read"} /\ Cardinality(touched) < MaxChanges
  /\ \E pair \in Range(contentCandidates), side \in {"left", "right"} :
       LET n == pair[IF side = "left" THEN 1 ELSE 2] IN
       \E entry \in (Contents \cup {Absent}) \ {disk[side][n]} :
         /\ disk' = [disk EXCEPT ![side][n] = entry]
         /\ touched' = touched \cup {pair}
  /\ UNCHANGED <<pairingMode, abort, dialog, phase, scanned, contentCandidates, totalCandidateBytes,
                 result>>

Next == worker \/ cancel \/ accept \/ runFolderComparisonReturns \/ fileChanges

Spec == Init /\ [][Next]_vars

-----------------------------------------------------------------------------
ComparisonTypeOK ==
  /\ disk \in [left : Side, right : Side] /\ scanned \in [left : Side, right : Side]
  /\ touched \subseteq Name \X Name
  /\ pairingMode \in Foldings \cup {Exact} /\ abort \in BOOLEAN /\ aborted \in BOOLEAN
  /\ dialog \in {"Open", "Joining", "NoResult", "Shown"}
  /\ phase \in {"ScanLeft", "ScanRight", "Pair", "Compare", "Read", "Done", "Trapped"}
  /\ contentCandidates \in Seq(Name \X Name) /\ totalCandidateBytes \in Nat
  /\ differences \subseteq
       [left : 0..Names, right : 0..Names,
        status : {"Different", "ComparisonFailed", "OnlyInLeft", "OnlyInRight"}]
  /\ identicalFiles \in Nat

(* What should be paired: the same names first. Of the others, a name on the *)
(* right that is alone with its key goes with the first on the left that has *)
(* the key.                                                                  *)
ShouldBePaired ==
  LET left == Held(scanned.left) right == Held(scanned.right)
      alike(names, n) == {m \in names \ (left \cap right) : pairingMode[m] = pairingMode[n]}
  IN {p \in left \X right :
        \/ p[1] = p[2]
        \/ pairingMode # Exact /\ alike(right, p[1]) = {p[2]} /\ alike(left, p[2]) # {}
           /\ p[1] = Min(alike(left, p[2]))}

(* All of it was enumerated.                                                *)
ScanIsComplete ==
  \A n \in Name :
    /\ scanned.left[n] = disk.left[n] \/ \E p \in touched : p[1] = n
    /\ scanned.right[n] = disk.right[n] \/ \E p \in touched : p[2] = n

(* What is listed of all that was enumerated, but for the files that others *)
(* have changed since.                                                      *)
DifferencesAre(pairs) ==
  LET unlike == {p \in pairs : scanned.left[p[1]] # scanned.right[p[2]]}
  IN {d \in differences : <<d.left, d.right>> \notin touched} =
       {Difference(p, "Different") : p \in unlike \ touched}
       \cup {Difference(<<n, NoName>>, "OnlyInLeft") :
               n \in Held(scanned.left) \ {p[1] : p \in pairs}}
       \cup {Difference(<<NoName, n>>, "OnlyInRight") :
               n \in Held(scanned.right) \ {p[2] : p \in pairs}}

(* A file is either listed or counted, also one that changed.               *)
IdenticalAre(pairs) ==
  LET alike == {p \in pairs : scanned.left[p[1]] = scanned.right[p[2]]
                              /\ scanned.left[p[1]] # Directory}
      listed == {<<d.left, d.right>> : d \in differences}
  IN identicalFiles = Cardinality((alike \cup touched) \ listed)

(* A result that is shown is of both folders as a whole, whenever the user   *)
(* has tried to cancel: every entry is listed if, and only if, it has no      *)
(* counterpart or differs from it. (compareFolders,                          *)
(* foldercomparison.cpp:102-223, and runFolderComparison,                    *)
(* cfoldercomparisonwindow.cpp:49-79.)                                       *)
ShownResultIsTrue ==
  /\ ComparisonTypeOK
  /\ dialog = "Shown" => /\ ScanIsComplete
                         /\ DifferencesAre(ShouldBePaired)
                         /\ IdenticalAre(ShouldBePaired)

(* The bytes that were enumerated, which the progress is divided by, are not  *)
(* zero whenever any are reported (the comment at foldercomparison.cpp:196).  *)
(* They were added up before others could change what is read.               *)
ProgressDivisorIsNotZero == phase # "Trapped"
=============================================================================
