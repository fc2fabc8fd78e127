------------------------------ MODULE AssetCache ------------------------------
(***************************************************************************)
(* The client's content-addressed cache directory                          *)
(* (client/src/assets/cache.cpp).  A content (digest and type) names one    *)
(* final path and one temporary path.  What is at a path is abstracted to  *)
(* whether it is the announced file: Intact has the digest of its name,    *)
(* Damaged is any other regular file, Odd is not a regular file.           *)
(***************************************************************************)
EXTENDS Naturals

CONSTANTS Contents,      (* the digest-and-type pairs                        *)
          TrueSize,      (* the size of the file with that digest            *)
          Faults         (* of "disk" and "memory", what may go wrong        *)

ASSUME CacheAssumption ==
  /\ TrueSize \in [Contents -> Nat]
  /\ Faults \subseteq {"disk", "memory"}

VARIABLES cache,   (* at PathFor(content)                                    *)
          tmp,     (* at TemporaryPathFor(content)                           *)
          faults   (* the faults this behaviour may meet; it never changes   *)

DiskMayFail == "disk" \in faults
MemoryMayFail == "memory" \in faults

Files == {"Absent", "Intact", "Damaged", "Odd"}

(* Mutant: only the size is compared.                                       *)
Matches_SizeOnly(file, asset) ==
  file \in {"Intact", "Damaged"} /\ asset.size = TrueSize[asset.content]

(* The size and digest test of a regular file against a description.        *)
Matches(file, asset) == file = "Intact" /\ asset.size = TrueSize[asset.content]

(* What only a failing disk, or a failing disk or allocation, can lead to.   *)
OnError(outcomes) == IF DiskMayFail THEN outcomes ELSE {}
OnFault(outcomes) == IF DiskMayFail \/ MemoryMayFail THEN outcomes ELSE {}

(* Mutant: a committed entry is never found.                                *)
LookupOutcomes_NeverHit(file, asset) == {[verdict |-> "Miss", file |-> "Absent"]}

(* Lookup's verdicts with what they leave at the path.  Whatever is not the *)
(* announced file is removed, and so is a file that Sha256File has no       *)
(* digest of: one it cannot read, or an intact one when its own allocation  *)
(* fails, which it swallows.  A removal that fails, or an exception outside *)
(* Sha256File, leaves the file.                                             *)
LookupOutcomes(file, asset) ==
  LET missing == {[verdict |-> "Miss", file |-> "Absent"]}
      failing == OnFault({[verdict |-> "DiskFailure", file |-> file]}) IN
  IF Matches(file, asset)
  THEN {[verdict |-> "Hit", file |-> file]} \cup OnFault(missing) \cup failing
  ELSE missing \cup failing

(* RemoveTemporary ignores the error of a file it cannot remove.            *)
AfterRemoval(file) == {"Absent"} \cup OnError({file})

(* CommitVerified renames the temporary file over the final path, unless a  *)
(* second Lookup finds the announced file there already.  An exception, or  *)
(* a directory that cannot be made, aborts it before it touches a file; a   *)
(* rename that fails may follow the removal of what was at the path.        *)
CommitOutcomes(final, temporary, asset) ==
  LET renamed == {[ok |-> TRUE, final |-> temporary, temporary |-> "Absent"]}
      present == {[ok |-> TRUE, final |-> final, temporary |-> left]
                    : left \in AfterRemoval(temporary)}
      aborted == OnFault({[ok |-> FALSE, final |-> final, temporary |-> temporary]})
      failing == OnError({[ok |-> FALSE, final |-> "Absent", temporary |-> temporary]}) IN
  (IF Matches(final, asset) THEN present \cup OnFault(renamed) ELSE renamed)
    \cup aborted \cup failing
-----------------------------------------------------------------------------
(* The cache survives the process: it may hold anything when one starts.    *)
CacheInit ==
  /\ cache \in [Contents -> Files]
  /\ tmp \in [Contents -> {"Absent", "Damaged"}]
  /\ faults \in SUBSET Faults
=============================================================================
