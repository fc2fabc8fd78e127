---------------------------- MODULE SharedDirectory ----------------------------
(***************************************************************************)
(* ClientAssetManager::Process (client/src/assets/manager.cpp) with the    *)
(* cache's file operations (client/src/assets/cache.cpp), run by several   *)
(* game processes on one file of one cache directory.  The temporary path  *)
(* depends on nothing but digest and type, so the processes meet there.    *)
(* AssetManager has one process, and every disk fault; here the faults are *)
(* the other processes.                                                    *)
(***************************************************************************)
EXTENDS Fetch

VARIABLES final,     (* the file at PathFor, shared                          *)
          verdict    (* per process: what its last attempt ended with        *)

vars == <<fetchVars, final, verdict>>

(* Size and digest agree with the description.                              *)
IsIntact(file) ==
  /\ file.exists
  /\ Len(file.bytes) = ExpectedSize
  /\ \A n \in 1..ExpectedSize : file.bytes[n]

Init ==
  /\ FetchInit
  /\ tmp = NoFile
  /\ final \in {NoFile, [exists |-> TRUE, bytes |-> <<FALSE>>]}
  /\ pc = [p \in Processes |-> "Idle"]
  /\ verdict = [p \in Processes |-> "None"]

Begin(p) ==
  /\ pc[p] = "Idle"
  /\ Goto(p, "Lookup")
  /\ verdict' = [verdict EXCEPT ![p] = "None"]
  /\ UNCHANGED <<tmp, received, available, elapsed, touched, final>>

End(p, result) ==
  /\ Goto(p, "Idle")
  /\ verdict' = [verdict EXCEPT ![p] = result]

(* Lookup hashes what is at the final path, and removes it in a step of its *)
(* own if it is not the announced file: another process may have put that   *)
(* there in between.                                                        *)
Lookup(p) ==
  /\ pc[p] = "Lookup"
  /\ \/ /\ IsIntact(final)
        /\ End(p, "Ready")
     \/ /\ ~IsIntact(final)
        /\ Goto(p, IF final.exists THEN "Remove" ELSE "Clean")
        /\ UNCHANGED verdict
  /\ UNCHANGED <<tmp, received, available, elapsed, touched, final>>

(* A file that another process is hashing cannot be removed or replaced     *)
(* either: one that is about to may have opened it, or not yet.             *)
MayBeHashed(p, places) == \E q \in Processes \ {p} : pc[q] \in places
FinalReaders == {"Lookup", "Commit"}
TmpReaders == {"Verify"}

(* The second Lookup is part of CommitVerified, which goes on to rename     *)
(* whatever comes of the removal.                                           *)
LookupRemoves(p) ==
  /\ \/ /\ final' = NoFile
        /\ Goto(p, IF pc[p] = "Remove" THEN "Clean" ELSE "Rename")
        /\ UNCHANGED verdict
     \/ /\ MayBeHashed(p, FinalReaders)
        /\ IF pc[p] = "Remove" THEN End(p, "Failed")
           ELSE Goto(p, "Rename") /\ UNCHANGED verdict
        /\ UNCHANGED final
  /\ pc[p] \in {"Remove", "Replace"}
  /\ UNCHANGED <<tmp, received, available, elapsed, touched>>

(* RemoveTemporary, whose error nobody looks at.                            *)
RemoveTemporary(p) ==
  \/ ~IsHeldByOther(p) /\ tmp' = NoFile /\ TouchedBy(p)
  \/ /\ IsHeldByOther(p) \/ MayBeHashed(p, TmpReaders)
     /\ UNCHANGED <<tmp, touched>>

Clean(p) ==
  /\ pc[p] = "Clean"
  /\ RemoveTemporary(p)
  /\ Goto(p, "Request")
  /\ UNCHANGED <<received, available, elapsed, final, verdict>>

(* Mutant: the digest is not compared.                                      *)
Verify_SizeOnly(p) ==
  /\ pc[p] = "Verify"
  /\ Goto(p, IF tmp.exists /\ Len(tmp.bytes) = ExpectedSize THEN "Commit" ELSE "Discard")
  /\ UNCHANGED <<tmp, received, available, elapsed, touched, final, verdict>>

Verify(p) ==
  /\ pc[p] = "Verify"
  /\ Goto(p, IF IsIntact(tmp) THEN "Commit" ELSE "Discard")
  /\ UNCHANGED <<tmp, received, available, elapsed, touched, final, verdict>>

(* CommitVerified: another process may have committed the file already.     *)
CommitFound(p) ==
  /\ pc[p] = "Commit"
  /\ IsIntact(final)
  /\ RemoveTemporary(p)
  /\ End(p, "Ready")
  /\ UNCHANGED <<received, available, elapsed, final>>

CommitMisses(p) ==
  /\ pc[p] = "Commit"
  /\ ~IsIntact(final)
  /\ Goto(p, IF final.exists THEN "Replace" ELSE "Rename")
  /\ UNCHANGED <<tmp, received, available, elapsed, touched, final, verdict>>

(* The rename needs the file to be there and both files to be open nowhere, *)
(* and replaces whatever is at the final path by then.                      *)
Rename(p) ==
  /\ pc[p] = "Rename"
  /\ \/ /\ tmp.exists
        /\ ~IsHeldByOther(p)
        /\ final' = tmp
        /\ tmp' = NoFile
        /\ TouchedBy(p)
        /\ End(p, "Ready")
     \/ /\ \/ ~tmp.exists
           \/ IsHeldByOther(p)
           \/ MayBeHashed(p, FinalReaders \cup TmpReaders)
        /\ Goto(p, "Discard")
        /\ UNCHANGED <<tmp, touched, final, verdict>>
  /\ UNCHANGED <<received, available, elapsed>>

Discard(p) ==
  /\ pc[p] = "Discard"
  /\ RemoveTemporary(p)
  /\ End(p, "Failed")
  /\ UNCHANGED <<received, available, elapsed, final>>

Step(p) ==
  \/ FetchStep(p) /\ UNCHANGED <<final, verdict>>
  \/ Lookup(p) \/ LookupRemoves(p) \/ Clean(p) \/ Verify(p)
  \/ CommitFound(p) \/ CommitMisses(p) \/ Rename(p) \/ Discard(p)

Next == \E p \in Processes : Begin(p) \/ Step(p)

Spec == Init /\ [][Next]_vars

(* The operating system schedules each worker, and WinHTTP's calls return.  *)
FairSpec == Spec /\ \A p \in Processes : WF_vars(Step(p))
-----------------------------------------------------------------------------
(* docs/assets.md, 120 s deadline and 10 s per operation: the deadline is   *)
(* looked at once per turn of the loop, so a transfer outlasts it by the    *)
(* two calls of one turn and no more.                                       *)
DeadlineHolds ==
  \A p \in Processes : elapsed[p] <= TransferTimeout + 2 * CallTimeout

Verified == {"Commit", "Replace", "Rename"}

(* While no other process interferes, the file has exactly the bytes that   *)
(* were received, never more than were announced, through the whole         *)
(* transfer and until it is committed; so Fetch's success is the contract   *)
(* the asset manager relies on.                                             *)
FileIsWhatWasReceived ==
  \A p \in Processes :
    /\ received[p] <= ExpectedSize
    /\ pc[p] \in Holding \cup {"Verify"} \cup Verified /\ ~touched[p] =>
         /\ tmp.exists
         /\ Len(tmp.bytes) = received[p]
    /\ pc[p] \in {"Verify"} \cup Verified => received[p] = ExpectedSize

(* docs/architecture.md: "only an exact-size, matching digest is renamed    *)
(* into" the cache.  What a process renames is what it verified, unless     *)
(* another process has used the temporary file in between; the final path   *)
(* gets no unverified file in any other way.                                *)
RenamedIsVerified ==
  [][final' # final =>
       \/ final' = NoFile
       \/ IsIntact(final')
       \/ \E p \in Processes : pc[p] = "Rename" /\ touched[p]]_vars

(* Every attempt ends with a verdict, whatever the network and the other    *)
(* processes do.                                                            *)
AttemptsEnd ==
  \A p \in Processes : pc[p] # "Idle" ~> pc[p] = "Idle" /\ verdict[p] # "None"
=============================================================================
