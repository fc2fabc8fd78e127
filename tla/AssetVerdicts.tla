---------------------------- MODULE AssetVerdicts ----------------------------
(***************************************************************************)
(* What the asset manager promises its owner, without queue, thread or     *)
(* files: within one session every announced asset gets one verdict, once, *)
(* and a verdict never crosses into another session.  Where memory may run *)
(* out, one may be lost instead, for good.                                 *)
(***************************************************************************)
CONSTANT AssetIds

VARIABLES verdict,   (* per asset id, in the present session                 *)
          halted,    (* the owner has asked the manager to stop              *)
          lossy      (* there may be too little memory to report; never changes *)

abstractVars == <<verdict, halted, lossy>>

Verdicts == {"None", "Pending", "Ready", "Failed", "Lost"}

Init ==
  /\ verdict = [id \in AssetIds |-> "None"]
  /\ halted \in BOOLEAN
  /\ lossy \in BOOLEAN

(* A complete manifest announces its assets all at once, before any verdict. *)
Announce(S) ==
  /\ \A id \in AssetIds : verdict[id] = "None"
  /\ verdict' = [id \in AssetIds |-> IF id \in S THEN "Pending" ELSE "None"]
  /\ UNCHANGED <<halted, lossy>>

Settle(id) ==
  /\ verdict[id] = "Pending"
  /\ \E v \in {"Ready", "Failed"} : verdict' = [verdict EXCEPT ![id] = v]
  /\ UNCHANGED <<halted, lossy>>

(* A verdict that could not be put on record is never given.                *)
Lose(id) ==
  /\ lossy
  /\ verdict[id] = "Pending"
  /\ verdict' = [verdict EXCEPT ![id] = "Lost"]
  /\ UNCHANGED <<halted, lossy>>

NewSession ==
  /\ verdict' = [id \in AssetIds |-> "None"]
  /\ UNCHANGED <<halted, lossy>>

Restart == Init' /\ UNCHANGED lossy

Stop ==
  /\ halted' = TRUE
  /\ UNCHANGED <<verdict, lossy>>

Next ==
  \/ \E S \in SUBSET AssetIds : Announce(S)
  \/ \E id \in AssetIds : Settle(id) \/ Lose(id)
  \/ NewSession
  \/ Restart
  \/ Stop

(* A running manager settles every pending asset, unless it loses it.        *)
Spec ==
  /\ Init
  /\ [][Next]_abstractVars
  /\ \A id \in AssetIds : WF_abstractVars(~halted /\ Settle(id))
=============================================================================
