----------------------------- MODULE AssetManager -----------------------------
(***************************************************************************)
(* The client's asset manager (client/src/assets/manager.cpp): the game    *)
(* thread feeds it manifest messages, resets it when the connection        *)
(* changes and drains its events; one worker thread looks each asset up,   *)
(* downloads, verifies and commits it.  An action is a section the code    *)
(* holds mutex_ for, or one file or network operation between two of them. *)
(* Only the Ready and Failed events are kept: the others are log lines.    *)
(***************************************************************************)
EXTENDS FiniteSets, ManifestReceiver, AssetCache

CONSTANTS Messages,        (* the manifest messages the server may send      *)
          MaxGeneration    (* bound of the model: sessions of one process    *)

ASSUME ManagerAssumption == MaxGeneration \in Nat \ {0}

(* Contents are all the digests and types there are.                        *)
ASSUME MessagesAssumption ==
  \A m \in Messages : m.type = "ManifestAsset" => m.asset.content \in Contents

VARIABLES receiver,     (* receiver_                                         *)
          queue,        (* queue_: [generation, revision, asset]             *)
          states,       (* states_                                           *)
          events,       (* events_, each with the generation it reports for  *)
          generation,   (* generation_                                       *)
          stopping,     (* stopping_                                         *)
          pc,           (* where the worker is                               *)
          work,         (* the worker's local item                           *)
          told          (* history: the verdict queued for each id this session *)

diskVars == <<cache, tmp, faults>>
sessionVars == <<receiver, queue, states, events, generation, told>>
vars == <<diskVars, sessionVars, stopping, pc, work>>

Ids == {m.asset.id : m \in {n \in Messages : n.type = "ManifestAsset"}}

PendingStates == {"Queued", "Downloading", "Verifying"}
AssetStates == {"Unknown", "Ready", "Failed"} \cup PendingStates

WorkerPlaces == {"NotStarted", "Waiting", "Check", "Lookup", "Hit", "Announce",
                 "Download", "Fetching", "Fetched", "Verify", "Commit",
                 "Finish", "Fail", "Exited"}

NoWork == [generation |-> 0, revision |-> 0,
           asset |-> [id |-> 0, name |-> BadText, url |-> BadText,
                      content |-> BadText, size |-> 0]]

FreshSession(gen) ==
  /\ receiver' = IdleReceiver
  /\ queue' = <<>>
  /\ states' = [id \in Ids |-> "Unknown"]
  /\ events' = <<>>
  /\ told' = [id \in Ids |-> "None"]
  /\ generation' = gen

Init ==
  /\ CacheInit
  /\ receiver = IdleReceiver
  /\ queue = <<>>
  /\ states = [id \in Ids |-> "Unknown"]
  /\ events = <<>>
  /\ told = [id \in Ids |-> "None"]
  /\ generation = 1
  /\ stopping = FALSE
  /\ pc = "NotStarted"
  /\ work = NoWork
-----------------------------------------------------------------------------
(* The game thread.                                                         *)

Initialize ==
  /\ pc = "NotStarted"
  /\ pc' = "Waiting"
  /\ UNCHANGED <<diskVars, sessionVars, stopping, work>>

(* QueueManifest skips an id that is already under way or done, and keeps   *)
(* the order of the manifest.                                               *)
FreshPlaces(r) ==
  {n \in DOMAIN r.assets : states[r.assets[n].id] \in {"Unknown", "Failed"}}

(* The element of a set of numbers with n - 1 smaller ones.                 *)
Nth(places, n) ==
  CHOOSE k \in places : Cardinality({j \in places : j < k}) = n - 1

NewlyQueued(r) ==
  [n \in 1..Cardinality(FreshPlaces(r)) |-> r.assets[Nth(FreshPlaces(r), n)]]

HandleMessage(message) ==
  LET r == AfterHandle(receiver, message)
      fresh == IF HandleResult(receiver, message) = "Complete"
               THEN NewlyQueued(r) ELSE <<>> IN
  /\ pc # "NotStarted"
  /\ receiver' = r
  /\ queue' = queue \o [n \in DOMAIN fresh |-> [generation |-> generation,
                                                revision   |-> r.revision,
                                                asset      |-> fresh[n]]]
  /\ states' = [id \in Ids |-> IF \E n \in DOMAIN fresh : fresh[n].id = id
                               THEN "Queued" ELSE states[id]]
  /\ UNCHANGED <<diskVars, events, generation, stopping, pc, work, told>>

DrainEvents ==
  /\ events # <<>>
  /\ events' = <<>>
  /\ UNCHANGED <<diskVars, receiver, queue, states, generation, told, stopping, pc, work>>

(* The 2^64 wrap of generation_ is not modelled.                            *)
ResetSession ==
  /\ pc # "NotStarted"
  /\ generation < MaxGeneration
  /\ FreshSession(generation + 1)
  /\ UNCHANGED <<diskVars, stopping, pc, work>>

RequestStop ==
  /\ pc # "NotStarted"
  /\ ~stopping
  /\ stopping' = TRUE
  /\ queue' = <<>>
  /\ UNCHANGED <<diskVars, receiver, states, events, generation, told, pc, work>>

(* The process dies at any point and is started again: only files survive.  *)
Crash ==
  /\ pc # "NotStarted"
  /\ FreshSession(1)
  /\ stopping' = FALSE
  /\ pc' = "NotStarted"
  /\ work' = NoWork
  /\ UNCHANGED diskVars
-----------------------------------------------------------------------------
(* The worker thread.                                                       *)

Goto(place) == pc' = place
UnchangedGame == UNCHANGED <<receiver, generation, stopping>>

(* Mutant: front without pop_front.                                         *)
Dequeue_KeepsItem ==
  /\ pc = "Waiting"
  /\ ~stopping
  /\ queue # <<>>
  /\ work' = Head(queue)
  /\ Goto("Check")
  /\ UnchangedGame
  /\ UNCHANGED <<diskVars, queue, states, events, told>>

Dequeue ==
  /\ pc = "Waiting"
  /\ ~stopping
  /\ queue # <<>>
  /\ work' = Head(queue)
  /\ queue' = Tail(queue)
  /\ Goto("Check")
  /\ UnchangedGame
  /\ UNCHANGED <<diskVars, states, events, told>>

(* Mutant: the worker waits for an empty queue before it leaves.            *)
Exit_WhenDrained ==
  /\ pc = "Waiting"
  /\ stopping
  /\ queue = <<>>
  /\ Goto("Exited")
  /\ UNCHANGED <<diskVars, sessionVars, stopping, work>>

Exit ==
  /\ pc = "Waiting"
  /\ stopping
  /\ Goto("Exited")
  /\ UNCHANGED <<diskVars, sessionVars, stopping, work>>

CheckGeneration ==
  /\ pc = "Check"
  /\ Goto(IF ~stopping /\ work.generation = generation THEN "Lookup" ELSE "Waiting")
  /\ UNCHANGED <<diskVars, sessionVars, stopping, work>>

Lookup ==
  /\ pc = "Lookup"
  /\ \E found \in LookupOutcomes(cache[work.asset.content], work.asset) :
       /\ cache' = [cache EXCEPT ![work.asset.content] = found.file]
       /\ Goto(CASE found.verdict = "Hit" -> "Hit"
                 [] found.verdict = "Miss" -> "Announce"
                 [] found.verdict = "DiskFailure" -> "Fail")
  /\ UNCHANGED <<tmp, faults, sessionVars, stopping, work>>

(* Mutant: SetState does not compare generations.                           *)
IsCurrent_Always == TRUE

(* SetState drops the change and its event if the session has moved on.     *)
IsCurrent == work.generation = generation

SetState(state) ==
  states' = IF IsCurrent THEN [states EXCEPT ![work.asset.id] = state] ELSE states

Tell(verdict) ==
  IF IsCurrent
  THEN /\ events' = Append(events, [kind |-> verdict, revision |-> work.revision,
                                    id |-> work.asset.id, generation |-> work.generation])
       /\ told' = [told EXCEPT ![work.asset.id] = verdict]
  ELSE UNCHANGED <<events, told>>

Progress(from, state, to) ==
  /\ pc = from
  /\ SetState(state)
  /\ Goto(to)
  /\ UnchangedGame
  /\ UNCHANGED <<diskVars, queue, events, told, work>>

Settle(from, verdict) ==
  /\ pc = from
  /\ SetState(verdict)
  /\ Tell(verdict)
  /\ Goto("Waiting")
  /\ UnchangedGame
  /\ UNCHANGED <<diskVars, queue, work>>

(* Mutant: a cache hit is noted but not reported.                           *)
AnnounceHit_Silent == Progress("Hit", "Ready", "Waiting")

AnnounceHit == Progress("Hit", "Ready", "Finish")
AnnounceDownload == Progress("Announce", "Downloading", "Download")
AnnounceVerifying == Progress("Fetched", "Verifying", "Verify")
ReportReady == Settle("Finish", "Ready")
ReportFailed == Settle("Fail", "Failed")

(* The leftovers of an earlier attempt are removed, and the transfer starts *)
(* to write.                                                                *)
StartFetch ==
  /\ pc = "Download"
  /\ tmp' = [tmp EXCEPT ![work.asset.content] = "Damaged"]
  /\ Goto("Fetching")
  /\ UNCHANGED <<cache, faults, sessionVars, stopping, work>>

(* A transfer that succeeds has written exactly the announced size: the     *)
(* right bytes only if the announced size is the file's.                    *)
FetchSucceeds ==
  /\ pc = "Fetching"
  /\ \E file \in {"Intact", "Damaged"} :
       /\ file = "Intact" => Matches(file, work.asset)
       /\ tmp' = [tmp EXCEPT ![work.asset.content] = file]
  /\ Goto("Fetched")
  /\ UNCHANGED <<cache, faults, sessionVars, stopping, work>>

DiscardAnd(place) ==
  /\ \E left \in AfterRemoval(tmp[work.asset.content]) :
       tmp' = [tmp EXCEPT ![work.asset.content] = left]
  /\ Goto(place)

FetchFails ==
  /\ pc = "Fetching"
  /\ DiscardAnd("Fail")
  /\ UNCHANGED <<cache, faults, sessionVars, stopping, work>>

(* file_size and Sha256File against the description; a file that has no     *)
(* size or no digest, for a fault of disk or memory, is a failure too.      *)
VerifyTemporary ==
  /\ pc = "Verify"
  /\ \/ /\ Matches(tmp[work.asset.content], work.asset)
        /\ Goto("Commit")
        /\ UNCHANGED tmp
     \/ /\ ~Matches(tmp[work.asset.content], work.asset) \/ faults # {}
        /\ DiscardAnd("Fail")
  /\ UNCHANGED <<cache, faults, sessionVars, stopping, work>>

Commit ==
  /\ pc = "Commit"
  /\ \E done \in CommitOutcomes(cache[work.asset.content], tmp[work.asset.content],
                                work.asset) :
       /\ cache' = [cache EXCEPT ![work.asset.content] = done.final]
       /\ \E left \in IF done.ok THEN {done.temporary} ELSE AfterRemoval(done.temporary) :
            tmp' = [tmp EXCEPT ![work.asset.content] = left]
       /\ Goto(IF done.ok THEN "Finish" ELSE "Fail")
  /\ UNCHANGED <<faults, sessionVars, stopping, work>>

(* An allocation fails where nothing swallows it, and catch (...) reports   *)
(* InternalError and removes no file: in TemporaryPathFor, or in SetState,  *)
(* whose push_back throws when the state has changed already.  The cache    *)
(* and Fetch throw nothing: their failures are among their outcomes.        *)
Throw ==
  /\ MemoryMayFail
  /\ \/ pc = "Download" /\ UNCHANGED states
     \/ /\ IsCurrent
        /\ \/ pc \in {"Hit", "Finish"} /\ SetState("Ready")
           \/ pc = "Announce" /\ SetState("Downloading")
           \/ pc = "Fetched" /\ SetState("Verifying")
           \/ /\ pc = "Verify"
              /\ Matches(tmp[work.asset.content], work.asset)
              /\ SetState("Verifying")
  /\ Goto("Fail")
  /\ UnchangedGame
  /\ UNCHANGED <<diskVars, queue, events, told, work>>

(* Fail swallows the same exception: the asset has failed and nobody is told. *)
LoseReport ==
  /\ MemoryMayFail
  /\ pc = "Fail"
  /\ IsCurrent
  /\ SetState("Failed")
  /\ Goto("Waiting")
  /\ UnchangedGame
  /\ UNCHANGED <<diskVars, queue, events, told, work>>

Game ==
  \/ Initialize
  \/ \E message \in Messages : HandleMessage(message)
  \/ DrainEvents
  \/ ResetSession
  \/ RequestStop
  \/ Crash

Worker ==
  \/ Dequeue \/ Exit \/ CheckGeneration \/ Lookup
  \/ AnnounceHit \/ AnnounceDownload \/ AnnounceVerifying
  \/ StartFetch \/ FetchSucceeds \/ FetchFails \/ VerifyTemporary \/ Commit
  \/ ReportReady \/ ReportFailed \/ Throw \/ LoseReport

Next == Game \/ Worker

Spec == Init /\ [][Next]_vars

(* The operating system schedules the worker, its file operations return,   *)
(* and the 120 s transfer deadline ends every Fetch.                        *)
FairSpec == Spec /\ WF_vars(Worker)
-----------------------------------------------------------------------------
TypeOK ==
  /\ cache \in [Contents -> Files]
  /\ tmp \in [Contents -> Files]
  /\ states \in [Ids -> AssetStates]
  /\ told \in [Ids -> {"None", "Ready", "Failed"}]
  /\ generation \in 1..MaxGeneration
  /\ stopping \in BOOLEAN
  /\ pc \in WorkerPlaces

(* Nothing an earlier session queued is reported to the present one: the    *)
(* worker may hold a stale item through a whole download, and ResetSession  *)
(* may come between any two of its sections.                                *)
NoStaleReport ==
  \A n \in DOMAIN events : events[n].generation = generation

(* An asset that is pending is the worker's present item or is in the queue *)
(* exactly once, unless a stop cleared the queue: no asset is forgotten and *)
(* none is downloaded twice.                                                *)
PendingIsHeld ==
  \A id \in Ids :
    LET held == {n \in DOMAIN queue : queue[n].asset.id = id /\ queue[n].generation = generation}
        inHand == pc \notin {"NotStarted", "Waiting", "Exited"} /\ IsCurrent
                    /\ work.asset.id = id IN
    /\ Cardinality(held) <= 1
    /\ held # {} => states[id] = "Queued" /\ ~inHand
    /\ states[id] \in PendingStates /\ held = {} /\ ~inHand => stopping

(* Another entry of the manifest has the same content.                      *)
IsShared(n) ==
  \E m \in DOMAIN receiver.assets :
    m # n /\ receiver.assets[m].content = receiver.assets[n].content

(* docs/protocol.md, Asset status: "Clients send Ready only after a verified *)
(* cache hit or successful exact-size download, SHA-256 match, and atomic   *)
(* cache commit."  While the disk works, what was reported Ready is still   *)
(* in the cache; only a Lookup for another entry of the same content can    *)
(* have removed it, for want of memory to hash it.                          *)
ReadyIsCached ==
  ~DiskMayFail =>
    \A n \in DOMAIN receiver.assets :
      states[receiver.assets[n].id] = "Ready" =>
        cache[receiver.assets[n].content] = "Intact" \/ (MemoryMayFail /\ IsShared(n))

(* No step puts anything but an intact file at a final path, whatever the   *)
(* disk reports and wherever the process dies.                              *)
OnlyVerifiedCommits ==
  [][\A c \in Contents : cache'[c] # cache[c] => cache'[c] \in {"Absent", "Intact"}]_vars

(* docs/assets.md: "A second asset ID with the same type and digest finds   *)
(* the committed entry and avoids another request."  That nothing fails is  *)
(* assumed (Lookup removes an intact file it cannot hash), and that entries *)
(* of one content announce one size.                                        *)
CommittedAvoidsRequest ==
  [][StartFetch /\ IsCurrent /\ faults = {} =>
       \A n \in DOMAIN receiver.assets :
         states[receiver.assets[n].id] = "Ready"
           => receiver.assets[n].content # work.asset.content]_vars

(* docs/assets.md: "Failure removes the temporary file and emits one        *)
(* bounded AssetError."                                                     *)
FailureRemovesTemporary ==
  [][ReportFailed => tmp[work.asset.content] = "Absent"]_vars

(* RequestStop is enough for Shutdown's join to return.                     *)
WorkerExits == stopping ~> (pc = "Exited" \/ ~stopping)

Verdict(id) ==
  CASE told[id] # "None" -> told[id]
    [] told[id] = "None" /\ states[id] = "Unknown" -> "None"
    [] told[id] = "None" /\ states[id] = "Failed" -> "Lost"
    [] OTHER -> "Pending"

Abstract == INSTANCE AssetVerdicts
  WITH AssetIds <- Ids,
       verdict <- [id \in Ids |-> Verdict(id)],
       halted <- stopping,
       lossy <- MemoryMayFail

(* The manager implements AssetVerdicts, its fairness included.              *)
ImplementsVerdicts == Abstract!Spec
=============================================================================
