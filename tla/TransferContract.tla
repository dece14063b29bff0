-------------------------- MODULE TransferContract --------------------------
(***************************************************************************)
(* What transferring one file promises, whatever the way it is done: the   *)
(* content appears at a destination name all at once; its original is      *)
(* removed only by a move, and only while a copy that is safely on disk    *)
(* exists; and the reported outcome says which of this happened.           *)
(***************************************************************************)
CONSTANT Names  (* destination names                                        *)

VARIABLES
  removesSource,(* the transfer is a move of an entry it owns               *)
  original,     (* the source entry: present, removed by us, or by others   *)
  holders,      (* destination names that hold the complete content         *)
  safeHolders,  (* those of them whose content was flushed or only renamed  *)
  outcome       (* the reported outcome, "none" while the transfer runs     *)

contractVars == <<removesSource, original, holders, safeHolders, outcome>>

NodeOutcome == {"Completed", "AlreadySatisfied", "Skipped", "Failed", "Cancelled"}

ContractInit ==
  /\ removesSource \in BOOLEAN
  /\ original = "present"
  /\ holders = {} /\ safeHolders = {}
  /\ outcome = "none"

(* A complete copy appears; one at most.                                    *)
Publish(name, safe) ==
  /\ outcome = "none" /\ holders = {}
  /\ holders' = {name}
  /\ safeHolders' = IF safe THEN {name} ELSE {}
  /\ UNCHANGED <<removesSource, original, outcome>>

(* The entry changes its name; it is its own copy.                          *)
Rename(name) ==
  /\ outcome = "none" /\ holders = {} /\ removesSource
  /\ original = "present"
  /\ original' = "removed"
  /\ holders' = {name} /\ safeHolders' = {name}
  /\ UNCHANGED <<removesSource, outcome>>

RemoveSource ==
  /\ outcome = "none" /\ removesSource
  /\ original = "present" /\ safeHolders # {}
  /\ original' = "removed"
  /\ UNCHANGED <<removesSource, holders, safeHolders, outcome>>

Truthful(result) ==
  CASE result = "Completed" -> holders # {} /\ (removesSource => original # "present")
    [] result = "Failed"    -> holders # {} /\ removesSource /\ original # "removed"
    [] result = "Cancelled" -> original # "removed"
    [] OTHER                -> holders = {} /\ original # "removed"

Conclude(result) ==
  /\ outcome = "none"
  /\ Truthful(result)
  /\ outcome' = result
  /\ UNCHANGED <<removesSource, original, holders, safeHolders>>

(* Other programs may take the source away at any time.                     *)
SourceVanishes ==
  /\ original = "present"
  /\ original' = "gone"
  /\ UNCHANGED <<removesSource, holders, safeHolders, outcome>>

ContractNext ==
  \/ \E name \in Names, safe \in BOOLEAN : Publish(name, safe)
  \/ \E name \in Names : Rename(name)
  \/ RemoveSource
  \/ \E result \in NodeOutcome : Conclude(result)
  \/ SourceVanishes

ContractSpec == ContractInit /\ [][ContractNext]_contractVars
=============================================================================
