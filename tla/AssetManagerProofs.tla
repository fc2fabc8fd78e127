------------------------- MODULE AssetManagerProofs -------------------------
(***************************************************************************)
(* The client's asset manager, for any messages, contents, sizes, faults   *)
(* and number of sessions: its types, events and commits; that it          *)
(* implements AssetVerdicts, the liveness apart; that no pending asset is  *)
(* forgotten or held twice; and that a ready one is in the cache.          *)
(***************************************************************************)
EXTENDS AssetManager, FiniteSetTheorems, SequenceTheorems, TLAPS

(* What is queued has no common type that the proofs need.                  *)
IsSequence(s) == \E S : s \in Seq(S)

(* The files, and what the worker knows of them: between the verification   *)
(* and the rename the temporary file is the announced one.                  *)
FilesOK ==
  /\ cache \in [Contents -> Files]
  /\ tmp \in [Contents -> Files]
  /\ pc = "Commit" => Matches(tmp[work.asset.content], work.asset)

(* The events are those of the present session.                             *)
EventsOK ==
  /\ IsSequence(events)
  /\ \A n \in DOMAIN events : events[n].generation = generation

(* The types of the rest.                                                   *)
SessionOK ==
  /\ states \in [Ids -> AssetStates]
  /\ told \in [Ids -> {"None", "Ready", "Failed"}]
  /\ generation \in 1..MaxGeneration
  /\ stopping \in BOOLEAN
  /\ pc \in WorkerPlaces

IInv == FilesOK /\ EventsOK /\ SessionOK

(* One more event of the session leaves the events those of the session.    *)
LEMMA TellKeeps ==
  ASSUME EventsOK, generation' = generation, NEW verdict, Tell(verdict)
  PROVE  EventsOK'
<1>1. CASE ~IsCurrent
  BY <1>1 DEF Tell, EventsOK
<1>2. CASE IsCurrent
  <2> DEFINE event == [kind |-> verdict, revision |-> work.revision,
                       id |-> work.asset.id, generation |-> work.generation]
  <2>1. events' = Append(events, event) /\ event.generation = generation
    BY <1>2 DEF Tell, IsCurrent
  <2> HIDE DEF event
  <2>2. PICK S : events \in Seq(S)
    BY DEF EventsOK, IsSequence
  <2>3. events \in Seq(S \cup {event})
    BY <2>2
  <2>4. /\ Append(events, event) \in Seq(S \cup {event})
        /\ Len(events) \in Nat
        /\ DOMAIN events = 1..Len(events)
        /\ DOMAIN Append(events, event) = 1..(Len(events) + 1)
        /\ \A n \in 1..Len(events) : Append(events, event)[n] = events[n]
        /\ Append(events, event)[Len(events) + 1] = event
    BY <2>3, AppendProperties, LenProperties
  <2>5. ASSUME NEW n \in DOMAIN events' PROVE events'[n].generation = generation
    <3>1. n \in DOMAIN events \/ n = Len(events) + 1
      BY <2>1, <2>4
    <3> QED BY <2>1, <2>4, <3>1 DEF EventsOK
  <2> QED BY <2>1, <2>4, <2>5 DEF EventsOK, IsSequence
<1> QED BY <1>1, <1>2

(* A new session has no events.                                             *)
LEMMA FreshSessionKeeps ==
  ASSUME NEW gen, FreshSession(gen)
  PROVE  EventsOK'
<1>1. <<>> \in Seq({}) /\ DOMAIN <<>> = {}
  OBVIOUS
<1> QED BY <1>1 DEF FreshSession, EventsOK, IsSequence

(* The game's thread leaves the files and the worker alone, and only a new  *)
(* session changes the generation.                                          *)
LEMMA GameKeeps ==
  ASSUME FilesOK, EventsOK, Game
  PROVE  FilesOK' /\ EventsOK'
<1> USE DEF diskVars, sessionVars
<1>1. CASE Initialize
  BY <1>1 DEF Initialize, FilesOK, EventsOK, Matches
<1>2. ASSUME NEW message \in Messages, HandleMessage(message) PROVE FilesOK' /\ EventsOK'
  BY <1>2 DEF HandleMessage, FilesOK, EventsOK, Matches
<1>3. CASE DrainEvents
  <2>1. <<>> \in Seq({}) /\ DOMAIN <<>> = {}
    OBVIOUS
  <2> QED BY <1>3, <2>1 DEF DrainEvents, FilesOK, EventsOK, IsSequence, Matches
<1>4. CASE ResetSession
  BY <1>4, FreshSessionKeeps DEF ResetSession, FilesOK, Matches
<1>5. CASE RequestStop
  BY <1>5 DEF RequestStop, FilesOK, EventsOK, Matches
<1>6. CASE Crash
  BY <1>6, FreshSessionKeeps DEF Crash, FilesOK
<1> QED BY <1>1, <1>2, <1>3, <1>4, <1>5, <1>6 DEF Game

(* Nor do they leave a session without a type.                              *)
LEMMA GameKeepsSession == ASSUME SessionOK, Game PROVE SessionOK'
<1> USE ManagerAssumption
    DEF SessionOK, WorkerPlaces, AssetStates, PendingStates, diskVars, sessionVars
<1>1. CASE Initialize
  BY <1>1 DEF Initialize
<1>2. ASSUME NEW message \in Messages, HandleMessage(message) PROVE SessionOK'
  BY <1>2 DEF HandleMessage
<1>3. CASE DrainEvents
  BY <1>3 DEF DrainEvents
<1>4. CASE ResetSession
  <2>1. generation' = generation + 1 /\ generation' \in 1..MaxGeneration
    BY <1>4 DEF ResetSession, FreshSession
  <2> QED BY <1>4, <2>1 DEF ResetSession, FreshSession
<1>5. CASE RequestStop
  BY <1>5 DEF RequestStop
<1>6. CASE Crash
  <2>1. generation' = 1 /\ 1 \in 1..MaxGeneration
    BY <1>6 DEF Crash, FreshSession
  <2>2. stopping' \in BOOLEAN
    BY <1>6, Zenon DEF Crash
  <2>3. /\ states' \in [Ids -> AssetStates]
        /\ told' \in [Ids -> {"None", "Ready", "Failed"}]
        /\ pc' \in WorkerPlaces
    BY <1>6 DEF Crash, FreshSession
  <2> QED BY <2>1, <2>2, <2>3
<1> QED BY <1>1, <1>2, <1>3, <1>4, <1>5, <1>6 DEF Game

(* What Lookup leaves at a path: what was there, or nothing.                *)
LEMMA LookupLeaves ==
  ASSUME NEW file, NEW asset, NEW found \in LookupOutcomes(file, asset)
  PROVE  found.file \in {file, "Absent"} /\ found.verdict \in {"Hit", "Miss", "DiskFailure"}
BY DEF LookupOutcomes, OnFault

(* The worker's part of it: a state or a verdict for the asset in hand.     *)
LEMMA WorkerKeepsSession == ASSUME SessionOK, Worker PROVE SessionOK'
<1> USE DEF SessionOK, WorkerPlaces, AssetStates, PendingStates, Goto, UnchangedGame,
            sessionVars, SetState, Tell, Progress, Settle
<1>1. CASE Dequeue BY <1>1 DEF Dequeue
<1>2. CASE Exit BY <1>2 DEF Exit
<1>3. CASE CheckGeneration BY <1>3 DEF CheckGeneration
<1>4. CASE Lookup
  <2>1. PICK found \in LookupOutcomes(cache[work.asset.content], work.asset) :
          pc' = CASE found.verdict = "Hit" -> "Hit"
                  [] found.verdict = "Miss" -> "Announce"
                  [] found.verdict = "DiskFailure" -> "Fail"
    BY <1>4 DEF Lookup
  <2> QED BY <1>4, <2>1, LookupLeaves DEF Lookup
<1>5. CASE AnnounceHit BY <1>5 DEF AnnounceHit
<1>6. CASE AnnounceDownload BY <1>6 DEF AnnounceDownload
<1>7. CASE AnnounceVerifying BY <1>7 DEF AnnounceVerifying
<1>8. CASE StartFetch BY <1>8 DEF StartFetch
<1>9. CASE FetchSucceeds BY <1>9 DEF FetchSucceeds
<1>10. CASE FetchFails BY <1>10 DEF FetchFails, DiscardAnd
<1>11. CASE VerifyTemporary BY <1>11 DEF VerifyTemporary, DiscardAnd
<1>12. CASE Commit BY <1>12 DEF Commit
<1>13. CASE ReportReady BY <1>13 DEF ReportReady
<1>14. CASE ReportFailed BY <1>14 DEF ReportFailed
<1>15. CASE Throw BY <1>15 DEF Throw
<1>16. CASE LoseReport BY <1>16 DEF LoseReport
<1> QED BY <1>1, <1>2, <1>3, <1>4, <1>5, <1>6, <1>7, <1>8, <1>9, <1>10, <1>11, <1>12,
           <1>13, <1>14, <1>15, <1>16 DEF Worker

(* What a commit leaves: what was there, nothing, or the temporary file.    *)
LEMMA CommitLeaves ==
  ASSUME NEW final, NEW temporary, NEW asset,
         NEW done \in CommitOutcomes(final, temporary, asset)
  PROVE  /\ done.final \in {final, temporary, "Absent"}
         /\ done.temporary \in {temporary, "Absent"}
BY DEF CommitOutcomes, OnError, OnFault, AfterRemoval

(* No worker step but Lookup and Commit touches a final path; both keep     *)
(* what is there, remove it, or put an intact file there.                   *)
LEMMA WorkerCache ==
  ASSUME FilesOK, Worker
  PROVE  /\ cache' \in [Contents -> Files]
         /\ \A c \in Contents : cache'[c] # cache[c] => cache'[c] \in {"Absent", "Intact"}
<1>1. CASE Lookup
  <2>1. PICK found \in LookupOutcomes(cache[work.asset.content], work.asset) :
          cache' = [cache EXCEPT ![work.asset.content] = found.file]
    BY <1>1 DEF Lookup
  <2>2. found.file \in {cache[work.asset.content], "Absent"}
    BY LookupLeaves
  <2> QED BY <2>1, <2>2 DEF FilesOK, Files
<1>2. CASE Commit
  <2>1. PICK done \in CommitOutcomes(cache[work.asset.content], tmp[work.asset.content],
                                     work.asset) :
          cache' = [cache EXCEPT ![work.asset.content] = done.final]
    BY <1>2 DEF Commit
  <2>2. done.final \in {cache[work.asset.content], tmp[work.asset.content], "Absent"}
    BY CommitLeaves
  <2>3. tmp[work.asset.content] = "Intact"
    BY <1>2 DEF Commit, FilesOK, Matches
  <2> QED BY <2>1, <2>2, <2>3 DEF FilesOK, Files
<1>3. CASE cache' = cache
  BY <1>3 DEF FilesOK
<1>4. Lookup \/ Commit \/ cache' = cache
  BY DEF Worker, Dequeue, Exit, CheckGeneration, AnnounceHit, AnnounceDownload,
         AnnounceVerifying, Progress, StartFetch, FetchSucceeds, FetchFails,
         VerifyTemporary, ReportReady, ReportFailed, Settle, Throw, LoseReport, diskVars
<1> QED BY <1>1, <1>2, <1>3, <1>4

(* Only a passed verification leads to Commit, and it changes no file.      *)
LEMMA WorkerTemporary ==
  ASSUME FilesOK, Worker
  PROVE  /\ tmp' \in [Contents -> Files]
         /\ pc' = "Commit" => Matches(tmp'[work'.asset.content], work'.asset)
<1> USE DEF Goto
<1>1. CASE VerifyTemporary
  BY <1>1 DEF VerifyTemporary, DiscardAnd, FilesOK, Files, AfterRemoval, OnError, Matches
<1>2. CASE Dequeue \/ Exit \/ CheckGeneration \/ AnnounceHit \/ AnnounceDownload
             \/ AnnounceVerifying \/ ReportReady \/ ReportFailed \/ Throw \/ LoseReport
  <2>1. tmp' = tmp /\ pc' # "Commit"
    BY <1>2 DEF Dequeue, Exit, CheckGeneration, AnnounceHit, AnnounceDownload,
                AnnounceVerifying, Progress, ReportReady, ReportFailed, Settle, Throw,
                LoseReport, diskVars
  <2> QED BY <2>1 DEF FilesOK
<1>3. CASE Lookup
  <2>1. PICK found \in LookupOutcomes(cache[work.asset.content], work.asset) :
          pc' = CASE found.verdict = "Hit" -> "Hit"
                  [] found.verdict = "Miss" -> "Announce"
                  [] found.verdict = "DiskFailure" -> "Fail"
    BY <1>3 DEF Lookup
  <2>2. pc' # "Commit"
    BY <2>1, LookupLeaves
  <2> QED BY <1>3, <2>2 DEF Lookup, FilesOK
<1>4. CASE StartFetch \/ FetchSucceeds \/ FetchFails
  BY <1>4 DEF StartFetch, FetchSucceeds, FetchFails, DiscardAnd, FilesOK, Files,
              AfterRemoval, OnError
<1>5. CASE Commit
  <2>1. PICK done \in CommitOutcomes(cache[work.asset.content], tmp[work.asset.content],
                                     work.asset) :
          \E left \in {done.temporary} \cup AfterRemoval(done.temporary) :
            tmp' = [tmp EXCEPT ![work.asset.content] = left]
    BY <1>5 DEF Commit
  <2>2. done.temporary \in {tmp[work.asset.content], "Absent"}
    BY CommitLeaves
  <2>3. pc' # "Commit"
    BY <1>5 DEF Commit
  <2>4. tmp' \in [Contents -> Files]
    BY <2>1, <2>2 DEF FilesOK, Files, AfterRemoval, OnError
  <2> QED BY <2>3, <2>4
<1> QED BY <1>1, <1>2, <1>3, <1>4, <1>5 DEF Worker

(* A report is told only to the session it belongs to.                      *)
LEMMA WorkerEvents ==
  ASSUME EventsOK, Worker
  PROVE  EventsOK'
<1>1. generation' = generation
  BY DEF Worker, Dequeue, Exit, CheckGeneration, Lookup, AnnounceHit, AnnounceDownload,
         AnnounceVerifying, Progress, StartFetch, FetchSucceeds, FetchFails,
         VerifyTemporary, Commit, ReportReady, ReportFailed, Settle, Throw, LoseReport,
         UnchangedGame, sessionVars
<1>2. CASE ReportReady
  BY <1>1, <1>2, TellKeeps DEF ReportReady, Settle
<1>3. CASE ReportFailed
  BY <1>1, <1>3, TellKeeps DEF ReportFailed, Settle
<1>4. CASE events' = events
  BY <1>1, <1>4 DEF EventsOK
<1>5. ReportReady \/ ReportFailed \/ events' = events
  BY DEF Worker, Dequeue, Exit, CheckGeneration, Lookup, AnnounceHit, AnnounceDownload,
         AnnounceVerifying, Progress, StartFetch, FetchSucceeds, FetchFails,
         VerifyTemporary, Commit, Throw, LoseReport, sessionVars
<1> QED BY <1>2, <1>3, <1>4, <1>5

(* Every step of either thread keeps the invariant.                         *)
LEMMA NextKeeps == IInv /\ [Next]_vars => IInv'
<1> SUFFICES ASSUME IInv, [Next]_vars PROVE IInv'
  OBVIOUS
<1>1. CASE Game
  BY <1>1, GameKeeps, GameKeepsSession DEF IInv
<1>2. CASE Worker
  BY <1>2, WorkerCache, WorkerTemporary, WorkerEvents, WorkerKeepsSession DEF IInv, FilesOK
<1>3. CASE UNCHANGED vars
  BY <1>3 DEF vars, diskVars, sessionVars, IInv, FilesOK, EventsOK, SessionOK, Matches
<1> QED BY <1>1, <1>2, <1>3 DEF Next

(* The invariant holds in every reachable state.                            *)
THEOREM ManagerInvariant == Spec => []IInv
<1>1. Init => IInv
  <2>1. <<>> \in Seq({}) /\ DOMAIN <<>> = {}
    OBVIOUS
  <2>2. \A t \in [Contents -> {"Absent", "Damaged"}] : t \in [Contents -> Files]
    BY DEF Files
  <2>3. Init => FilesOK /\ EventsOK
    BY <2>1, <2>2 DEF Init, CacheInit, FilesOK, EventsOK, IsSequence
  <2>4. Init => stopping \in BOOLEAN
    BY Zenon DEF Init
  <2>5. Init => /\ states \in [Ids -> AssetStates]
                /\ told \in [Ids -> {"None", "Ready", "Failed"}]
                /\ generation \in 1..MaxGeneration
                /\ pc \in WorkerPlaces
    BY ManagerAssumption DEF Init, AssetStates, WorkerPlaces
  <2> QED BY <2>3, <2>4, <2>5 DEF IInv, SessionOK
<1> QED BY <1>1, NextKeeps, PTL DEF Spec

(* The declared values of every variable (manager.cpp, states_ and the      *)
(* worker's sections).                                                      *)
THEOREM TypeCorrect == Spec => []TypeOK
<1>1. IInv => TypeOK
  BY DEF IInv, FilesOK, SessionOK, TypeOK
<1> QED BY <1>1, ManagerInvariant, PTL

(* No event of an earlier session is left to be drained, however long the   *)
(* worker held a stale item (manager.cpp, SetState and ResetSession).       *)
THEOREM ReportsAreCurrent == Spec => []NoStaleReport
<1>1. IInv => NoStaleReport
  BY DEF IInv, EventsOK, NoStaleReport
<1> QED BY <1>1, ManagerInvariant, PTL

(* Only an intact file is ever put at a final path: the rename follows a    *)
(* verification of the very file it moves (cache.cpp, CommitVerified), with *)
(* any failures of the disk and any crashes.  One process is assumed to use *)
(* the directory; SharedDirectory has several.                              *)
THEOREM CommitsAreVerified == Spec => OnlyVerifiedCommits
<1> DEFINE Kept == \A c \in Contents : cache'[c] # cache[c] => cache'[c] \in {"Absent", "Intact"}
<1>1. IInv /\ [Next]_vars => [Kept]_vars
  <2>1. ASSUME IInv, Worker PROVE Kept
    BY <2>1, WorkerCache DEF IInv
  <2>2. ASSUME Game PROVE cache' = cache
    BY <2>2 DEF Game, Initialize, HandleMessage, DrainEvents, ResetSession, RequestStop,
                Crash, diskVars
  <2> QED BY <2>1, <2>2 DEF Next
<1> QED BY <1>1, ManagerInvariant, PTL DEF Spec, OnlyVerifiedCommits

-----------------------------------------------------------------------------
(* What is queued, held and due.                                            *)

(* What the receiver holds: entries with different announced ids.           *)
ReceiverOK(r) ==
  /\ r = [state |-> r.state, revision |-> r.revision, total |-> r.total,
          expected |-> r.expected, assets |-> r.assets]
  /\ IsSequence(r.assets)
  /\ \A n \in DOMAIN r.assets :
       /\ r.assets[n].id \in Ids
       /\ \A k \in DOMAIN r.assets : r.assets[k].id = r.assets[n].id => k = n

(* The worker holds an item of the present session.                         *)
InHand == pc \notin {"NotStarted", "Waiting", "Exited"} /\ IsCurrent

(* An id whose verdict is still due.                                        *)
IsDue(id) == id \in Ids /\ states[id] \notin {"Unknown", "Failed"} /\ told[id] = "None"

(* Every queued item is due, belongs to the session and is held only once.  *)
QueueOK ==
  /\ IsSequence(queue)
  /\ \A n \in DOMAIN queue :
       /\ queue[n].generation = generation
       /\ IsDue(queue[n].asset.id)
       /\ InHand => work.asset.id # queue[n].asset.id
       /\ \A k \in DOMAIN queue : queue[k].asset.id = queue[n].asset.id => k = n

(* So is the worker's, unless the session it belongs to is over.            *)
HandOK ==
  /\ work.generation \in Nat /\ work.generation <= generation
  /\ InHand => IsDue(work.asset.id)

(* Until the manifest is complete nothing is under way.                     *)
NothingYet ==
  receiver.state \in {"Idle", "Receiving"} =>
    /\ queue = <<>>
    /\ ~InHand
    /\ \A id \in Ids : states[id] = "Unknown" /\ told[id] = "None"

HeldOK == ReceiverOK(receiver) /\ QueueOK /\ HandOK /\ NothingYet

VInv == IInv /\ HeldOK

-----------------------------------------------------------------------------
(* The receiver.                                                            *)

(* An empty receiver holds nothing.                                         *)
LEMMA EmptyReceiverOK == ReceiverOK(IdleReceiver) /\ ReceiverOK(FailedReceiver)
<1>1. <<>> \in Seq({}) /\ DOMAIN <<>> = {}
  OBVIOUS
<1> QED BY <1>1 DEF ReceiverOK, IdleReceiver, FailedReceiver, IsSequence

(* A message adds at most one entry, and only with an id of its own; only   *)
(* the end of a manifest that was being received completes it.              *)
LEMMA AfterHandleOK ==
  ASSUME NEW r, ReceiverOK(r), NEW message \in Messages
  PROVE  /\ ReceiverOK(AfterHandle(r, message))
         /\ AfterHandle(r, message).state \in {"Idle", "Receiving"}
              => r.state \in {"Idle", "Receiving"}
         /\ HandleResult(r, message) = "Complete"
              => /\ r.state = "Receiving"
                 /\ AfterHandle(r, message).state = "Complete"
                 /\ AfterHandle(r, message).assets = r.assets
<1> DEFINE result == HandleResult(r, message)
           after == AfterHandle(r, message)
<1>1. result \in {"Ignored", "InvalidOrder", "InvalidManifest", "Complete", "Accepted"}
  BY DEF HandleResult
<1>2. result = "Complete" => message.type = "ManifestEnd" /\ r.state = "Receiving"
  BY DEF HandleResult, EndInOrder
<1>3. result = "Accepted" =>
        \/ message.type = "ManifestBegin" /\ r.state = "Idle"
        \/ /\ message.type = "ManifestAsset" /\ r.state = "Receiving"
           /\ AssetAcceptable(r, message.asset)
  BY DEF HandleResult, BeginInOrder, AssetInOrder
<1>4. CASE result = "Ignored"
  BY <1>4 DEF AfterHandle
<1>5. CASE result \in {"InvalidOrder", "InvalidManifest"}
  <2>1. after = FailedReceiver
    BY <1>5 DEF AfterHandle
  <2> QED BY <1>5, <2>1, EmptyReceiverOK DEF FailedReceiver, IdleReceiver
<1>6. CASE result = "Complete"
  <2>1. after = [r EXCEPT !.state = "Complete"]
    BY <1>6 DEF AfterHandle
  <2> QED BY <1>2, <1>6, <2>1 DEF ReceiverOK
<1>7. CASE result = "Accepted" /\ message.type = "ManifestBegin"
  <2>1. /\ after.assets = <<>> /\ after.state = "Receiving"
        /\ after = [state |-> after.state, revision |-> after.revision,
                    total |-> after.total, expected |-> after.expected,
                    assets |-> after.assets]
    BY <1>7 DEF AfterHandle
  <2>2. <<>> \in Seq({}) /\ DOMAIN <<>> = {}
    OBVIOUS
  <2> QED BY <1>3, <1>7, <2>1, <2>2 DEF ReceiverOK, IsSequence
<1>8. CASE result = "Accepted" /\ message.type = "ManifestAsset"
  <2> DEFINE asset == message.asset
  <2>1. after = [r EXCEPT !.assets = Append(@, asset)]
    BY <1>8 DEF AfterHandle
  <2>2. asset.id \in Ids
    BY <1>8 DEF Ids
  <2>3. \A n \in DOMAIN r.assets : r.assets[n].id # asset.id
    BY <1>3, <1>8 DEF AssetAcceptable
  <2> HIDE DEF asset, after, result
  <2>4. PICK S : r.assets \in Seq(S)
    BY DEF ReceiverOK, IsSequence
  <2>5. r.assets \in Seq(S \cup {asset})
    BY <2>4
  <2>6. /\ Append(r.assets, asset) \in Seq(S \cup {asset})
        /\ DOMAIN r.assets = 1..Len(r.assets) /\ Len(r.assets) \in Nat
        /\ DOMAIN Append(r.assets, asset) = 1..(Len(r.assets) + 1)
        /\ \A n \in 1..Len(r.assets) : Append(r.assets, asset)[n] = r.assets[n]
        /\ Append(r.assets, asset)[Len(r.assets) + 1] = asset
    BY <2>5, AppendProperties, LenProperties
  <2>7. /\ after.assets = Append(r.assets, asset) /\ after.state = r.state
        /\ after = [state |-> after.state, revision |-> after.revision,
                    total |-> after.total, expected |-> after.expected,
                    assets |-> after.assets]
    BY <2>1 DEF ReceiverOK
  <2>8. \A n \in DOMAIN after.assets : n \in DOMAIN r.assets \/ n = Len(r.assets) + 1
    BY <2>6, <2>7
  <2>9. \A n \in DOMAIN after.assets :
          /\ after.assets[n].id \in Ids
          /\ \A k \in DOMAIN after.assets : after.assets[k].id = after.assets[n].id => k = n
    BY <2>2, <2>3, <2>6, <2>7, <2>8 DEF ReceiverOK
  <2>10. ReceiverOK(after)
    BY <2>6, <2>7, <2>9 DEF ReceiverOK, IsSequence
  <2> QED BY <1>3, <1>8, <2>7, <2>10 DEF after, result
<1> QED BY <1>1, <1>3, <1>4, <1>5, <1>6, <1>7, <1>8

(* The n-th of the first numbers is n.                                      *)
LEMMA NthOfInterval ==
  ASSUME NEW size \in Nat, NEW n \in 1..size
  PROVE  Nth(1..size, n) = n
<1>1. ASSUME NEW k \in 1..size
      PROVE  Cardinality({j \in 1..size : j < k}) = k - 1
  <2>1. {j \in 1..size : j < k} = 1..(k - 1)
    OBVIOUS
  <2>2. Cardinality(1..(k - 1)) = k - 1
    BY FS_Interval
  <2>3. Cardinality({j \in 1..size : j < k}) = Cardinality(1..(k - 1))
    BY <2>1
  <2> QED BY <2>2, <2>3
<1> DEFINE Fits(k) == Cardinality({j \in 1..size : j < k}) = n - 1
<1>2. \A k \in 1..size : Fits(k) <=> k = n
  BY <1>1
<1>3. Nth(1..size, n) = CHOOSE k \in 1..size : Fits(k)
  BY DEF Nth
<1> HIDE DEF Fits
<1> QED BY <1>2, <1>3

(* The first complete manifest of a session is queued as it is.             *)
LEMMA WholeManifestQueued ==
  ASSUME NEW r, ReceiverOK(r), \A id \in Ids : states[id] = "Unknown"
  PROVE  NewlyQueued(r) = r.assets
<1>1. PICK S : r.assets \in Seq(S)
  BY DEF ReceiverOK, IsSequence
<1> DEFINE size == Len(r.assets)
<1>2. size \in Nat /\ DOMAIN r.assets = 1..size /\ r.assets \in [1..size -> S]
  BY <1>1, LenProperties
<1>3. FreshPlaces(r) = 1..size
  BY <1>2 DEF FreshPlaces, ReceiverOK
<1>4. Cardinality(1..size) = size
  BY <1>2, FS_Interval
<1> HIDE DEF size
<1>5. NewlyQueued(r) = [n \in 1..size |-> r.assets[Nth(1..size, n)]]
  BY <1>3, <1>4 DEF NewlyQueued
<1>6. \A n \in 1..size : Nth(1..size, n) = n
  BY <1>2, NthOfInterval
<1>7. NewlyQueued(r) = [n \in 1..size |-> r.assets[n]]
  BY <1>5, <1>6
<1> QED BY <1>2, <1>7

-----------------------------------------------------------------------------
(* The mapping of AssetVerdicts' variables.                                 *)
Verdicts == [id \in Ids |-> Verdict(id)]

Untold == Verdicts = [id \in Ids |-> "None"]

(* A session of which nothing is under way has no verdicts.                 *)
LEMMA NothingUntold ==
  ASSUME \A id \in Ids : states[id] = "Unknown" /\ told[id] = "None"
  PROVE  Untold
BY DEF Untold, Verdicts, Verdict

-----------------------------------------------------------------------------
(* The game's thread.                                                       *)

(* A new session holds nothing; the worker's item is not of it.             *)
LEMMA FreshHeld ==
  ASSUME NEW gen \in Nat, FreshSession(gen), work'.generation \in Nat, work'.generation < gen
  PROVE  HeldOK' /\ Untold'
<1>1. /\ receiver' = IdleReceiver /\ queue' = <<>> /\ generation' = gen
      /\ \A id \in Ids : states'[id] = "Unknown" /\ told'[id] = "None"
  BY DEF FreshSession
<1>2. ~InHand'
  BY <1>1 DEF InHand, IsCurrent
<1>3. <<>> \in Seq({}) /\ DOMAIN <<>> = {}
  OBVIOUS
<1>4. QueueOK'
  BY <1>1, <1>3 DEF QueueOK, IsSequence
<1>5. HandOK' /\ NothingYet'
  BY <1>1, <1>2 DEF HandOK, NothingYet
<1>6. ReceiverOK(receiver)'
  BY <1>1, EmptyReceiverOK DEF ReceiverOK
<1>7. Untold'
  BY <1>1 DEF Untold, Verdicts, Verdict
<1> QED BY <1>4, <1>5, <1>6, <1>7 DEF HeldOK

(* What a step may do to the verdicts: AssetVerdicts' actions.              *)
Announces ==
  \E S \in SUBSET Ids :
    /\ \A id \in Ids : Verdicts[id] = "None"
    /\ Verdicts' = [id \in Ids |-> IF id \in S THEN "Pending" ELSE "None"]

Settles ==
  \E id \in Ids :
    /\ Verdicts[id] = "Pending"
    /\ \E v \in {"Ready", "Failed"} : Verdicts' = [Verdicts EXCEPT ![id] = v]

Loses ==
  \E id \in Ids :
    /\ Verdicts[id] = "Pending"
    /\ Verdicts' = [Verdicts EXCEPT ![id] = "Lost"]

(* A message that completes the manifest announces its assets; any other    *)
(* queues nothing.                                                          *)
LEMMA MessageHeld ==
  ASSUME SessionOK, HeldOK, NEW message \in Messages, HandleMessage(message)
  PROVE  HeldOK' /\ (Announces \/ Verdicts' = Verdicts)
<1> DEFINE r == AfterHandle(receiver, message)
           result == HandleResult(receiver, message)
           fresh == IF result = "Complete" THEN NewlyQueued(r) ELSE <<>>
           item(n) == [generation |-> generation, revision |-> r.revision, asset |-> fresh[n]]
           items == [n \in DOMAIN fresh |-> item(n)]
<1>1. /\ receiver' = r
      /\ queue' = queue \o items
      /\ states' = [id \in Ids |-> IF \E n \in DOMAIN fresh : fresh[n].id = id
                                   THEN "Queued" ELSE states[id]]
      /\ UNCHANGED <<generation, pc, work, told>>
  BY DEF HandleMessage
<1>2. /\ ReceiverOK(r)
      /\ r.state \in {"Idle", "Receiving"} => receiver.state \in {"Idle", "Receiving"}
      /\ result = "Complete" =>
           receiver.state = "Receiving" /\ r.state = "Complete" /\ r.assets = receiver.assets
  BY AfterHandleOK DEF HeldOK
<1>3. InHand' = InHand
  BY <1>1 DEF InHand, IsCurrent
<1>4. CASE result # "Complete"
  <2>1. fresh = <<>>
    BY <1>4
  <2>2. items = <<>>
    BY <2>1
  <2> HIDE DEF fresh, items, r, result
  <2>3. queue \o <<>> = queue
    BY ConcatEmptySeq DEF HeldOK, QueueOK, IsSequence
  <2>4. queue' = queue /\ states' = states
    BY <1>1, <2>1, <2>2, <2>3 DEF SessionOK
  <2>5. ReceiverOK(receiver)'
    BY <1>1, <1>2 DEF ReceiverOK
  <2>6. QueueOK' /\ HandOK' /\ NothingYet'
    BY <1>1, <1>2, <1>3, <2>4 DEF HeldOK, QueueOK, HandOK, NothingYet, IsDue
  <2>7. Verdicts' = Verdicts
    BY <1>1, <2>4 DEF Verdicts, Verdict
  <2> QED BY <2>5, <2>6, <2>7 DEF HeldOK
<1>5. CASE result = "Complete"
  <2>1. /\ queue = <<>> /\ ~InHand
        /\ \A id \in Ids : states[id] = "Unknown" /\ told[id] = "None"
    BY <1>2, <1>5 DEF HeldOK, NothingYet
  <2>2. fresh = r.assets
    BY <1>2, <1>5, <2>1, WholeManifestQueued
  <2>3. /\ DOMAIN fresh = 1..Len(fresh) /\ Len(fresh) \in Nat
        /\ \A n \in DOMAIN fresh :
             /\ fresh[n].id \in Ids
             /\ \A k \in DOMAIN fresh : fresh[k].id = fresh[n].id => k = n
    BY <1>2, <2>2, LenProperties DEF ReceiverOK, IsSequence
  <2> HIDE DEF fresh, r, result
  <2> DEFINE S == {item(n) : n \in DOMAIN fresh}
  <2>4. \A n \in DOMAIN fresh : items[n] = item(n) /\ item(n) \in S
    OBVIOUS
  <2>5. DOMAIN items = DOMAIN fresh
    OBVIOUS
  <2> HIDE DEF S
  <2>6. items \in [1..Len(fresh) -> S]
    BY <2>3, <2>4
  <2> HIDE DEF items
  <2>7. items \in Seq(S)
    BY <2>3, <2>6
  <2>8. queue' = items
    BY <1>1, <2>1, <2>7, ConcatEmptySeq
  <2>9. \A n \in DOMAIN items : items[n].generation = generation /\ items[n].asset = fresh[n]
    <3> SUFFICES ASSUME NEW n \in DOMAIN items
                 PROVE  items[n].generation = generation /\ items[n].asset = fresh[n]
      OBVIOUS
    <3>1. items[n] = [generation |-> generation, revision |-> r.revision, asset |-> fresh[n]]
      BY <2>4, <2>5
    <3> QED BY <3>1
  <2>10. \A id \in Ids :
           states'[id] = IF \E n \in DOMAIN fresh : fresh[n].id = id THEN "Queued" ELSE "Unknown"
    BY <1>1, <2>1
  <2>11. \A n \in DOMAIN fresh :
           fresh[n].id \in Ids /\ states'[fresh[n].id] = "Queued" /\ told'[fresh[n].id] = "None"
    BY <1>1, <2>1, <2>3, <2>10
  <2>12. QueueOK'
    BY <1>1, <1>3, <2>1, <2>3, <2>5, <2>7, <2>8, <2>9, <2>11
    DEF QueueOK, IsSequence, IsDue
  <2>13. HandOK' /\ NothingYet' /\ ReceiverOK(receiver)'
    BY <1>1, <1>2, <1>3, <1>5, <2>1 DEF HeldOK, HandOK, NothingYet, ReceiverOK
  <2>14. Announces
    <3> DEFINE named == {id \in Ids : \E n \in DOMAIN fresh : fresh[n].id = id}
    <3>1. \A id \in Ids : Verdicts[id] = "None"
      BY <2>1 DEF Verdicts, Verdict
    <3>2. Verdicts' = [id \in Ids |-> IF id \in named THEN "Pending" ELSE "None"]
      <4>1. \A id \in Ids : Verdict(id)' = IF id \in named THEN "Pending" ELSE "None"
        BY <1>1, <2>1, <2>10 DEF Verdict
      <4> HIDE DEF named
      <4> QED BY <4>1 DEF Verdicts
    <3>3. named \in SUBSET Ids
      OBVIOUS
    <3> HIDE DEF named
    <3> QED BY <3>1, <3>2, <3>3 DEF Announces
  <2> QED BY <2>12, <2>13, <2>14 DEF HeldOK
<1> QED BY <1>4, <1>5

(* A step of the manager is a step of AssetVerdicts or none of its verdicts *)
(* and its stop.                                                            *)
Moves ==
  /\ faults' = faults
  /\ \/ /\ Announces \/ Settles \/ (MemoryMayFail /\ Loses) \/ Verdicts' = Verdicts
        /\ stopping' = stopping
     \/ Verdicts' = Verdicts /\ stopping' = TRUE
     \/ Untold'

(* Messages announce, a reset and a restart forget, a stop halts.           *)
LEMMA GameHeld == ASSUME SessionOK, HeldOK, Game PROVE HeldOK' /\ Moves
<1> USE DEF sessionVars, diskVars
<1>1. CASE UNCHANGED <<receiver, queue, states, generation, work, told, stopping, faults>>
                /\ InHand' = InHand
  BY <1>1 DEF HeldOK, ReceiverOK, QueueOK, HandOK, NothingYet, IsDue, Moves, Verdicts, Verdict
<1>2. CASE Initialize
  <2>1. InHand' = InHand
    BY <1>2 DEF Initialize, InHand
  <2> QED BY <1>1, <1>2, <2>1 DEF Initialize
<1>3. ASSUME NEW message \in Messages, HandleMessage(message) PROVE HeldOK' /\ Moves
  BY <1>3, MessageHeld DEF Moves, HandleMessage
<1>4. CASE DrainEvents
  <2>1. InHand' = InHand
    BY <1>4 DEF DrainEvents, InHand, IsCurrent
  <2> QED BY <1>1, <1>4, <2>1 DEF DrainEvents
<1>5. CASE ResetSession
  <2>1. /\ generation + 1 \in Nat /\ FreshSession(generation + 1)
        /\ work'.generation \in Nat /\ work'.generation < generation + 1
    BY <1>5, ManagerAssumption DEF ResetSession, SessionOK, HeldOK, HandOK
  <2> QED BY <1>5, <2>1, FreshHeld DEF Moves, ResetSession
<1>6. CASE RequestStop
  <2>1. /\ queue' = <<>> /\ InHand' = InHand /\ stopping' = TRUE
        /\ UNCHANGED <<receiver, states, generation, work, told, faults>>
    BY <1>6 DEF RequestStop, InHand, IsCurrent
  <2>2. <<>> \in Seq({}) /\ DOMAIN <<>> = {}
    OBVIOUS
  <2>3. HeldOK'
    BY <2>1, <2>2
    DEF HeldOK, ReceiverOK, QueueOK, HandOK, NothingYet, IsDue, IsSequence
  <2>4. Verdicts' = Verdicts
    BY <2>1 DEF Verdicts, Verdict
  <2> QED BY <2>1, <2>3, <2>4 DEF Moves
<1>7. CASE Crash
  <2>1. FreshSession(1) /\ work'.generation = 0 /\ faults' = faults
    BY <1>7 DEF Crash, NoWork
  <2> QED BY <2>1, FreshHeld DEF Moves
<1> QED BY <1>2, <1>3, <1>4, <1>5, <1>6, <1>7 DEF Game

-----------------------------------------------------------------------------
(* The worker.                                                              *)

Working == pc \notin {"NotStarted", "Waiting", "Exited"}

(* A section that tells nobody may mark the asset in hand, if the item is   *)
(* the session's; the verdict it is due stays due.                          *)
LEMMA SectionHeld ==
  ASSUME SessionOK, HeldOK, Working, NEW state, state \notin {"Unknown", "Failed"},
         UNCHANGED <<receiver, queue, generation, work, told>>,
         states' = states \/ SetState(state)
  PROVE  HeldOK' /\ Verdicts' = Verdicts
<1>1. InHand <=> IsCurrent
  BY DEF InHand, Working
<1>2. InHand' => InHand
  BY <1>1 DEF InHand, IsCurrent
<1>3. CASE states' = states
  BY <1>2, <1>3
  DEF HeldOK, ReceiverOK, QueueOK, HandOK, NothingYet, IsDue, Verdicts, Verdict
<1>4. CASE SetState(state) /\ states' # states
  <2>1. IsCurrent /\ states' = [states EXCEPT ![work.asset.id] = state]
    BY <1>4 DEF SetState
  <2>2. InHand /\ IsDue(work.asset.id)
    BY <1>1, <2>1 DEF HeldOK, HandOK
  <2>3. \A id \in Ids : states'[id] = IF id = work.asset.id THEN state ELSE states[id]
    BY <2>1 DEF SessionOK
  <2>4. \A id \in Ids :
          /\ states'[id] = "Unknown" <=> states[id] = "Unknown"
          /\ states'[id] = "Failed" <=> states[id] = "Failed"
          /\ told'[id] = told[id]
    BY <2>2, <2>3 DEF IsDue
  <2>5. \A id : IsDue(id)' <=> IsDue(id)
    BY <2>4 DEF IsDue
  <2>6. ReceiverOK(receiver)' /\ QueueOK' /\ HandOK'
    BY <1>2, <2>4 DEF HeldOK, ReceiverOK, QueueOK, HandOK, IsDue
  <2>7. NothingYet'
    BY <2>2 DEF HeldOK, NothingYet
  <2>8. Verdicts' = Verdicts
    BY <2>4 DEF Verdicts, Verdict
  <2> QED BY <2>6, <2>7, <2>8 DEF HeldOK
<1> QED BY <1>3, <1>4

(* A settled item's asset has its verdict, unless the session has moved on. *)
LEMMA SettleHeld ==
  ASSUME SessionOK, HeldOK, NEW from, NEW verdict \in {"Ready", "Failed"},
         Settle(from, verdict), Working
  PROVE  HeldOK' /\ (Settles \/ Verdicts' = Verdicts)
<1>1. /\ UNCHANGED <<receiver, queue, generation, work>>
      /\ pc' = "Waiting" /\ ~InHand'
  BY DEF Settle, UnchangedGame, Goto, InHand
<1>2. CASE ~IsCurrent
  <2>1. states' = states /\ told' = told
    BY <1>2 DEF Settle, SetState, Tell
  <2> QED BY <1>1, <2>1
          DEF HeldOK, ReceiverOK, QueueOK, HandOK, NothingYet, IsDue, Verdicts, Verdict
<1>3. CASE IsCurrent
  <2> DEFINE id == work.asset.id
  <2>1. /\ states' = [states EXCEPT ![id] = verdict]
        /\ told' = [told EXCEPT ![id] = verdict]
    BY <1>3 DEF Settle, SetState, Tell
  <2>2. InHand /\ IsDue(id)
    BY <1>3 DEF HeldOK, HandOK, InHand, Working
  <2> HIDE DEF id
  <2>3. \A other \in Ids :
          /\ states'[other] = IF other = id THEN verdict ELSE states[other]
          /\ told'[other] = IF other = id THEN verdict ELSE told[other]
    BY <2>1 DEF SessionOK
  <2>4. \A n \in DOMAIN queue : queue[n].asset.id # id
    BY <2>2 DEF HeldOK, QueueOK, id
  <2>5. QueueOK'
    BY <1>1, <2>3, <2>4 DEF HeldOK, QueueOK, IsDue
  <2>6. ReceiverOK(receiver)' /\ HandOK' /\ NothingYet'
    BY <1>1, <2>2 DEF HeldOK, ReceiverOK, HandOK, NothingYet
  <2>7. Settles
    <3>1. id \in Ids /\ Verdicts[id] = "Pending"
      BY <2>2 DEF IsDue, Verdicts, Verdict
    <3>2. \A other \in Ids :
            Verdict(other)' = IF other = id THEN verdict ELSE Verdict(other)
      BY <2>3 DEF Verdict
    <3>3. Verdicts' = [Verdicts EXCEPT ![id] = verdict]
      BY <3>2 DEF Verdicts
    <3> QED BY <3>1, <3>3 DEF Settles
  <2> QED BY <2>5, <2>6, <2>7 DEF HeldOK
<1> QED BY <1>2, <1>3

(* A lost report is recorded nowhere but in the asset's state.              *)
LEMMA LoseHeld ==
  ASSUME SessionOK, HeldOK, LoseReport
  PROVE  HeldOK' /\ MemoryMayFail /\ Loses
<1> DEFINE id == work.asset.id
<1>1. /\ UNCHANGED <<receiver, queue, generation, work, told>>
      /\ states' = [states EXCEPT ![id] = "Failed"]
      /\ MemoryMayFail /\ ~InHand'
  BY DEF LoseReport, SetState, UnchangedGame, Goto, InHand
<1>2. InHand /\ IsDue(id)
  BY DEF LoseReport, HeldOK, HandOK, InHand
<1> HIDE DEF id
<1>3. \A other \in Ids :
        states'[other] = IF other = id THEN "Failed" ELSE states[other]
  BY <1>1 DEF SessionOK
<1>4. \A n \in DOMAIN queue : queue[n].asset.id # id
  BY <1>2 DEF HeldOK, QueueOK, id
<1>5. QueueOK'
  BY <1>1, <1>3, <1>4 DEF HeldOK, QueueOK, IsDue
<1>6. ReceiverOK(receiver)' /\ HandOK' /\ NothingYet'
  BY <1>1, <1>2 DEF HeldOK, ReceiverOK, HandOK, NothingYet
<1>7. Loses
  <2>1. id \in Ids /\ Verdicts[id] = "Pending"
    BY <1>2 DEF IsDue, Verdicts, Verdict
  <2>2. \A other \in Ids :
          Verdict(other)' = IF other = id THEN "Lost" ELSE Verdict(other)
    BY <1>1, <1>2, <1>3 DEF Verdict, IsDue
  <2>3. Verdicts' = [Verdicts EXCEPT ![id] = "Lost"]
    BY <2>2 DEF Verdicts
  <2> QED BY <2>1, <2>3 DEF Loses
<1> QED BY <1>1, <1>5, <1>6, <1>7 DEF HeldOK

(* The worker takes the first item, which nobody else holds then.           *)
LEMMA DequeueHeld ==
  ASSUME SessionOK, HeldOK, Dequeue
  PROVE  HeldOK' /\ Verdicts' = Verdicts
<1>1. /\ queue # <<>> /\ work' = Head(queue) /\ queue' = Tail(queue)
      /\ UNCHANGED <<receiver, states, generation, told>>
      /\ ~InHand
  BY DEF Dequeue, UnchangedGame, InHand
<1>2. PICK S : queue \in Seq(S)
  BY DEF HeldOK, QueueOK, IsSequence
<1>3. /\ Len(queue) \in Nat /\ DOMAIN queue = 1..Len(queue) /\ Len(queue) >= 1
      /\ Head(queue) = queue[1]
      /\ Tail(queue) \in Seq(S)
      /\ DOMAIN Tail(queue) = 1..(Len(queue) - 1)
      /\ \A n \in 1..(Len(queue) - 1) : Tail(queue)[n] = queue[n + 1]
  BY <1>1, <1>2, HeadTailProperties, LenProperties
<1>4. /\ work' = queue[1] /\ 1 \in DOMAIN queue
      /\ \A n \in DOMAIN queue' : n + 1 \in DOMAIN queue /\ queue'[n] = queue[n + 1] /\ n \in Nat /\ n # 0
  BY <1>1, <1>3
<1>5. \A n \in DOMAIN queue :
        /\ queue[n].generation = generation
        /\ IsDue(queue[n].asset.id)
        /\ \A k \in DOMAIN queue : queue[k].asset.id = queue[n].asset.id => k = n
  BY DEF HeldOK, QueueOK
<1>6. \A id : IsDue(id) => /\ id \in Ids /\ states'[id] \notin {"Unknown", "Failed"}
                           /\ told'[id] = "None"
  BY <1>1 DEF IsDue
<1>7. QueueOK'
  <2>1. ASSUME NEW n \in DOMAIN queue'
        PROVE  /\ queue'[n].generation = generation'
               /\ queue'[n].asset.id \in Ids
               /\ states'[queue'[n].asset.id] \notin {"Unknown", "Failed"}
               /\ told'[queue'[n].asset.id] = "None"
               /\ work'.asset.id # queue'[n].asset.id
               /\ \A k \in DOMAIN queue' : queue'[k].asset.id = queue'[n].asset.id => k = n
    <3>1. n + 1 # 1
      BY <1>4
    <3>2. \A k \in DOMAIN queue' : queue'[k].asset.id = queue'[n].asset.id => k + 1 = n + 1
      BY <1>4, <1>5
    <3>3. \A k \in DOMAIN queue' : k + 1 = n + 1 => k = n
      BY <1>4
    <3> QED BY <1>1, <1>4, <1>5, <1>6, <3>1, <3>2, <3>3
  <2> QED BY <1>1, <1>3, <2>1 DEF QueueOK, IsDue, IsSequence
<1>8. HandOK'
  BY <1>1, <1>4, <1>5, <1>6 DEF HandOK, IsDue, SessionOK
<1>9. NothingYet' /\ ReceiverOK(receiver)'
  BY <1>1 DEF HeldOK, NothingYet, ReceiverOK
<1>10. Verdicts' = Verdicts
  BY <1>1 DEF Verdicts, Verdict
<1> QED BY <1>7, <1>8, <1>9, <1>10 DEF HeldOK

(* The worker's sections give a due verdict or change none.                 *)
LEMMA WorkerHeld == ASSUME SessionOK, HeldOK, Worker PROVE HeldOK' /\ Moves
<1>1. UNCHANGED <<stopping, faults>>
  BY DEF Worker, Dequeue, Exit, CheckGeneration, Lookup, AnnounceHit, AnnounceDownload,
         AnnounceVerifying, Progress, StartFetch, FetchSucceeds, FetchFails,
         VerifyTemporary, Commit, ReportReady, ReportFailed, Settle, Throw, LoseReport,
         UnchangedGame, sessionVars, diskVars
<1>2. CASE Dequeue
  BY <1>1, <1>2, DequeueHeld DEF Moves
<1>3. CASE Exit
  <2>1. /\ UNCHANGED <<receiver, queue, states, generation, work, told>>
        /\ ~InHand'
    BY <1>3 DEF Exit, Goto, InHand, sessionVars
  <2> QED BY <1>1, <2>1
          DEF HeldOK, ReceiverOK, QueueOK, HandOK, NothingYet, IsDue, Moves, Verdicts, Verdict
<1>4. CASE ReportReady \/ ReportFailed
  <2>1. Working
    BY <1>4 DEF ReportReady, ReportFailed, Settle, Working
  <2> QED BY <1>1, <1>4, <2>1, SettleHeld DEF ReportReady, ReportFailed, Moves
<1>5. ASSUME Working, UNCHANGED <<receiver, queue, generation, work, told>>,
             states' = states \/ \E state \in {"Ready", "Downloading", "Verifying"} :
                                  SetState(state)
      PROVE  HeldOK' /\ Moves
  BY <1>1, <1>5, SectionHeld DEF Moves
<1>6. CASE CheckGeneration \/ Lookup \/ StartFetch \/ FetchSucceeds \/ FetchFails
             \/ VerifyTemporary \/ Commit
  BY <1>5, <1>6 DEF CheckGeneration, Lookup, StartFetch, FetchSucceeds, FetchFails,
                    VerifyTemporary, Commit, Working, sessionVars
<1>7. CASE AnnounceHit \/ AnnounceDownload \/ AnnounceVerifying
  BY <1>5, <1>7 DEF AnnounceHit, AnnounceDownload, AnnounceVerifying, Progress, Working,
                    UnchangedGame
<1>8. CASE Throw
  BY <1>5, <1>8 DEF Throw, Working, UnchangedGame
<1>9. CASE LoseReport
  BY <1>1, <1>9, LoseHeld DEF Moves
<1> QED BY <1>2, <1>3, <1>4, <1>6, <1>7, <1>8, <1>9 DEF Worker

-----------------------------------------------------------------------------
(* The refinement.                                                          *)

(* What is queued, held and due fits together in every reachable state.     *)
THEOREM HeldHolds == Spec => [](IInv /\ HeldOK)
<1>1. Init => HeldOK /\ Untold
  <2> SUFFICES ASSUME Init PROVE HeldOK /\ Untold
    OBVIOUS
  <2>1. <<>> \in Seq({}) /\ DOMAIN <<>> = {}
    OBVIOUS
  <2>2. /\ queue = <<>> /\ ~InHand /\ receiver = IdleReceiver
        /\ work.generation = 0 /\ generation = 1
        /\ \A id \in Ids : states[id] = "Unknown" /\ told[id] = "None"
    BY DEF Init, InHand, NoWork
  <2> QED BY <2>1, <2>2, EmptyReceiverOK, NothingUntold
          DEF HeldOK, QueueOK, HandOK, NothingYet, IsSequence
<1>2. IInv /\ HeldOK /\ [Next]_vars => HeldOK'
  <2> SUFFICES ASSUME IInv, HeldOK, [Next]_vars PROVE HeldOK'
    OBVIOUS
  <2>1. SessionOK
    BY DEF IInv
  <2>2. CASE Game
    BY <2>1, <2>2, GameHeld
  <2>3. CASE Worker
    BY <2>1, <2>3, WorkerHeld
  <2>4. CASE UNCHANGED vars
    BY <2>4 DEF vars, sessionVars, HeldOK, ReceiverOK, QueueOK, HandOK, NothingYet, IsDue,
                InHand, IsCurrent
  <2> QED BY <2>2, <2>3, <2>4 DEF Next
<1> QED BY <1>1, <1>2, ManagerInvariant, PTL DEF Spec

(* Every step of the two threads, of a reset, a crash or a failing disk     *)
(* (manager.cpp) is one AssetVerdicts allows: a session announces once, and *)
(* every announced asset has at most one verdict, which is final.           *)
THEOREM ManagerImplementsVerdicts ==
  Spec => Abstract!Init /\ [][Abstract!Next]_(Abstract!abstractVars)
<1>1. Init => Abstract!Init
  <2> SUFFICES ASSUME Init PROVE Abstract!Init
    OBVIOUS
  <2>1. Untold
    BY NothingUntold DEF Init
  <2>2. stopping \in BOOLEAN
    BY Zenon DEF Init
  <2> QED BY <2>1, <2>2 DEF Abstract!Init, Untold, Verdicts, MemoryMayFail
<1>2. IInv /\ HeldOK /\ [Next]_vars => [Abstract!Next]_(Abstract!abstractVars)
  <2> SUFFICES ASSUME IInv, HeldOK, [Next]_vars PROVE [Abstract!Next]_(Abstract!abstractVars)
    OBVIOUS
  <2>1. Moves
    <3>1. SessionOK
      BY DEF IInv
    <3>2. CASE UNCHANGED vars
      BY <3>2 DEF vars, sessionVars, diskVars, Moves, Verdicts, Verdict
    <3> QED BY <3>1, <3>2, GameHeld, WorkerHeld DEF Next
  <2>2. MemoryMayFail' = MemoryMayFail
    BY <2>1 DEF Moves, MemoryMayFail
  <2>3. stopping' \in BOOLEAN
    BY NextKeeps DEF IInv, SessionOK
  <2>4. CASE Announces /\ stopping' = stopping
    BY <2>2, <2>4 DEF Announces, Abstract!Next, Abstract!Announce, Verdicts
  <2>5. CASE Settles /\ stopping' = stopping
    BY <2>2, <2>5 DEF Settles, Abstract!Next, Abstract!Settle, Verdicts
  <2>6. CASE MemoryMayFail /\ Loses /\ stopping' = stopping
    BY <2>2, <2>6 DEF Loses, Abstract!Next, Abstract!Lose, Verdicts
  <2>7. CASE Untold'
    BY <2>2, <2>3, <2>7
       DEF Untold, Abstract!Next, Abstract!Restart, Abstract!Init, Verdicts, MemoryMayFail
  <2>8. CASE Verdicts' = Verdicts /\ stopping' = stopping
    BY <2>2, <2>8 DEF Abstract!abstractVars, Verdicts
  <2>9. CASE Verdicts' = Verdicts /\ stopping' = TRUE
    BY <2>2, <2>9 DEF Abstract!Next, Abstract!Stop, Verdicts
  <2> QED BY <2>1, <2>4, <2>5, <2>6, <2>7, <2>8, <2>9 DEF Moves
<1> QED BY <1>1, <1>2, HeldHolds, PTL DEF Spec

-----------------------------------------------------------------------------
(* No pending asset is forgotten.                                           *)

Queued(id) == \E n \in DOMAIN queue : queue[n].asset.id = id

(* Until a stop, who holds each pending asset; what is queued has not been  *)
(* started.                                                                 *)
PendingOK ==
  /\ \A n \in DOMAIN queue : states[queue[n].asset.id] = "Queued"
  /\ \A id \in Ids :
       states[id] \in PendingStates =>
         stopping \/ Queued(id) \/ (InHand /\ work.asset.id = id)

(* A new session has nothing pending.                                       *)
LEMMA FreshPending ==
  ASSUME NEW gen, FreshSession(gen)
  PROVE  PendingOK'
<1>1. queue' = <<>> /\ \A id \in Ids : states'[id] = "Unknown"
  BY DEF FreshSession
<1> QED BY <1>1 DEF PendingOK, PendingStates

(* A complete manifest marks as queued exactly what it queues.              *)
LEMMA MessagePending ==
  ASSUME SessionOK, HeldOK, PendingOK, NEW message \in Messages, HandleMessage(message)
  PROVE  PendingOK'
<1> DEFINE r == AfterHandle(receiver, message)
           result == HandleResult(receiver, message)
           fresh == IF result = "Complete" THEN NewlyQueued(r) ELSE <<>>
           item(n) == [generation |-> generation, revision |-> r.revision, asset |-> fresh[n]]
           items == [n \in DOMAIN fresh |-> item(n)]
<1>1. /\ queue' = queue \o items
      /\ states' = [id \in Ids |-> IF \E n \in DOMAIN fresh : fresh[n].id = id
                                   THEN "Queued" ELSE states[id]]
      /\ UNCHANGED <<generation, stopping, pc, work>>
  BY DEF HandleMessage
<1>2. InHand' = InHand
  BY <1>1 DEF InHand, IsCurrent
<1>3. CASE result # "Complete"
  <2>1. fresh = <<>> /\ items = <<>>
    BY <1>3
  <2> HIDE DEF fresh, items, r, result
  <2>2. queue \o <<>> = queue
    BY ConcatEmptySeq DEF HeldOK, QueueOK, IsSequence
  <2>3. queue' = queue /\ states' = states
    BY <1>1, <2>1, <2>2 DEF SessionOK
  <2> QED BY <1>1, <1>2, <2>3 DEF PendingOK, Queued
<1>4. CASE result = "Complete"
  <2>1. /\ ReceiverOK(r)
        /\ queue = <<>>
        /\ \A id \in Ids : states[id] = "Unknown"
    BY <1>4, AfterHandleOK DEF HeldOK, NothingYet
  <2>2. fresh = r.assets
    BY <1>4, <2>1, WholeManifestQueued
  <2>3. /\ DOMAIN fresh = 1..Len(fresh) /\ Len(fresh) \in Nat
        /\ \A n \in DOMAIN fresh : fresh[n].id \in Ids
    BY <2>1, <2>2, LenProperties DEF ReceiverOK, IsSequence
  <2> HIDE DEF fresh, r, result
  <2> DEFINE S == {item(n) : n \in DOMAIN fresh}
  <2>4. \A n \in DOMAIN fresh : items[n] = item(n) /\ item(n) \in S
    OBVIOUS
  <2>5. DOMAIN items = DOMAIN fresh
    OBVIOUS
  <2>6. \A n \in DOMAIN fresh : items[n].asset = fresh[n]
    BY <2>4
  <2> HIDE DEF S
  <2>7. items \in [1..Len(fresh) -> S]
    BY <2>3, <2>4
  <2> HIDE DEF items
  <2>8. items \in Seq(S)
    BY <2>3, <2>7
  <2>9. queue' = items
    BY <1>1, <2>1, <2>8, ConcatEmptySeq
  <2>10. ASSUME NEW n \in DOMAIN queue' PROVE states'[queue'[n].asset.id] = "Queued"
    BY <1>1, <2>3, <2>5, <2>6, <2>9, <2>10
  <2>11. ASSUME NEW id \in Ids, states'[id] \in PendingStates PROVE Queued(id)'
    <3>1. PICK n \in DOMAIN fresh : fresh[n].id = id
      BY <1>1, <2>1, <2>11 DEF PendingStates
    <3> QED BY <2>5, <2>6, <2>9, <3>1 DEF Queued
  <2> QED BY <2>10, <2>11 DEF PendingOK
<1> QED BY <1>3, <1>4

(* The game's thread forgets an asset only with its session or at a stop.   *)
LEMMA GamePending ==
  ASSUME SessionOK, HeldOK, PendingOK, Game
  PROVE  PendingOK'
<1>1. CASE Initialize
  <2>1. InHand' = InHand
    BY <1>1 DEF Initialize, InHand
  <2> QED BY <1>1, <2>1 DEF Initialize, PendingOK, Queued, sessionVars
<1>2. ASSUME NEW message \in Messages, HandleMessage(message) PROVE PendingOK'
  BY <1>2, MessagePending
<1>3. CASE DrainEvents
  BY <1>3 DEF DrainEvents, PendingOK, Queued, InHand, IsCurrent
<1>4. CASE ResetSession \/ Crash
  BY <1>4, FreshPending DEF ResetSession, Crash
<1>5. CASE RequestStop
  BY <1>5 DEF RequestStop, PendingOK
<1> QED BY <1>1, <1>2, <1>3, <1>4, <1>5 DEF Game

(* A section of the worker that keeps the item may mark its asset.          *)
LEMMA SectionPending ==
  ASSUME SessionOK, HeldOK, PendingOK, Working, NEW state,
         UNCHANGED <<queue, generation, stopping, work>>,
         states' = states \/ SetState(state),
         \/ InHand' = InHand
         \/ InHand => stopping \/ (SetState(state) /\ state \notin PendingStates)
  PROVE  PendingOK'
<1>1. \A id : Queued(id)' <=> Queued(id)
  BY DEF Queued
<1>2. CASE ~IsCurrent
  <2>1. states' = states /\ ~InHand
    BY <1>2 DEF SetState, InHand
  <2> QED BY <1>1, <2>1 DEF PendingOK
<1>3. CASE IsCurrent
  <2>1. InHand /\ \A n \in DOMAIN queue : queue[n].asset.id \in Ids /\ work.asset.id # queue[n].asset.id
    BY <1>3 DEF InHand, Working, HeldOK, QueueOK, IsDue
  <2>2. \A id \in Ids : id # work.asset.id => states'[id] = states[id]
    BY DEF SetState, SessionOK
  <2>3. \A n \in DOMAIN queue' : states'[queue'[n].asset.id] = "Queued"
    BY <2>1, <2>2 DEF PendingOK
  <2>4. ASSUME NEW id \in Ids, states'[id] \in PendingStates
        PROVE  stopping' \/ Queued(id)' \/ (InHand' /\ work'.asset.id = id)
    <3>1. CASE id # work.asset.id
      BY <1>1, <2>2, <2>4, <3>1 DEF PendingOK
    <3>2. CASE id = work.asset.id /\ SetState(state) /\ state \notin PendingStates
      BY <1>3, <2>4, <3>2 DEF SetState, SessionOK
    <3> QED BY <2>1, <3>1, <3>2
  <2> QED BY <2>3, <2>4 DEF PendingOK
<1> QED BY <1>2, <1>3

(* What leaves the queue is in the worker's hands.                          *)
LEMMA DequeuePending ==
  ASSUME SessionOK, HeldOK, PendingOK, Dequeue
  PROVE  PendingOK'
<1>1. /\ queue # <<>> /\ work' = Head(queue) /\ queue' = Tail(queue) /\ pc' = "Check"
      /\ UNCHANGED <<states, generation, stopping>>
      /\ ~InHand
  BY DEF Dequeue, UnchangedGame, Goto, InHand
<1>2. PICK S : queue \in Seq(S)
  BY DEF HeldOK, QueueOK, IsSequence
<1>3. /\ Len(queue) \in Nat /\ DOMAIN queue = 1..Len(queue) /\ Len(queue) >= 1
      /\ Head(queue) = queue[1]
      /\ DOMAIN Tail(queue) = 1..(Len(queue) - 1)
      /\ \A n \in 1..(Len(queue) - 1) : Tail(queue)[n] = queue[n + 1]
  BY <1>1, <1>2, HeadTailProperties, LenProperties
<1>4. \A n \in DOMAIN queue' : n + 1 \in DOMAIN queue /\ queue'[n] = queue[n + 1]
  BY <1>1, <1>3
<1>5. InHand' /\ work' = queue[1]
  BY <1>1, <1>3 DEF InHand, IsCurrent, HeldOK, QueueOK
<1>6. ASSUME NEW id \in Ids, Queued(id) PROVE Queued(id)' \/ work'.asset.id = id
  <2>1. PICK n \in DOMAIN queue : queue[n].asset.id = id
    BY <1>6 DEF Queued
  <2>2. CASE n = 1
    BY <1>5, <2>1, <2>2
  <2>3. CASE n # 1
    <3>1. n - 1 \in DOMAIN queue' /\ (n - 1) + 1 = n
      BY <1>1, <1>3, <2>3
    <3> QED BY <1>4, <2>1, <3>1 DEF Queued
  <2> QED BY <2>2, <2>3
<1> QED BY <1>1, <1>4, <1>5, <1>6 DEF PendingOK

(* The worker lets go of an item with a verdict, with the end of its        *)
(* session, or at a stop.                                                   *)
LEMMA WorkerPending ==
  ASSUME SessionOK, HeldOK, PendingOK, Worker
  PROVE  PendingOK'
<1>1. CASE Dequeue
  BY <1>1, DequeuePending
<1>2. CASE Exit
  BY <1>2 DEF Exit, Goto, InHand, PendingOK, Queued, sessionVars
<1>3. CASE ReportReady \/ ReportFailed \/ LoseReport
  <2>1. /\ Working /\ UNCHANGED <<queue, generation, stopping, work>>
        /\ SetState("Ready") \/ SetState("Failed")
    BY <1>3 DEF ReportReady, ReportFailed, Settle, LoseReport, Working, UnchangedGame
  <2>2. "Ready" \notin PendingStates /\ "Failed" \notin PendingStates
    BY DEF PendingStates
  <2> QED BY <2>1, <2>2, SectionPending
<1>4. CASE CheckGeneration
  <2>1. /\ Working /\ UNCHANGED <<queue, states, generation, stopping, work>>
        /\ pc' = "Lookup" \/ stopping \/ ~IsCurrent
    BY <1>4 DEF CheckGeneration, Goto, Working, IsCurrent, sessionVars
  <2>2. pc' = "Lookup" => InHand' = InHand
    BY <2>1 DEF InHand, IsCurrent, Working
  <2>3. ~IsCurrent => ~InHand
    BY DEF InHand
  <2> QED BY <2>1, <2>2, <2>3, SectionPending
<1>5. ASSUME Working, Working', UNCHANGED <<queue, generation, stopping, work>>,
             states' = states \/ \E state \in AssetStates : SetState(state)
      PROVE  PendingOK'
  <2>1. InHand' = InHand
    BY <1>5 DEF InHand, IsCurrent, Working
  <2> QED BY <1>5, <2>1, SectionPending
<1>6. CASE Lookup
  <2>1. PICK found \in LookupOutcomes(cache[work.asset.content], work.asset) :
          pc' = CASE found.verdict = "Hit" -> "Hit"
                  [] found.verdict = "Miss" -> "Announce"
                  [] found.verdict = "DiskFailure" -> "Fail"
    BY <1>6 DEF Lookup, Goto
  <2>2. Working'
    BY <2>1, LookupLeaves DEF Working
  <2> QED BY <1>5, <1>6, <2>2 DEF Lookup, Working, sessionVars
<1>7. CASE StartFetch \/ FetchSucceeds \/ FetchFails \/ VerifyTemporary \/ Commit
  BY <1>5, <1>7 DEF StartFetch, FetchSucceeds, FetchFails, VerifyTemporary, DiscardAnd,
                    Commit, Goto, Working, sessionVars
<1>8. CASE AnnounceHit \/ AnnounceDownload \/ AnnounceVerifying
  BY <1>5, <1>8 DEF AnnounceHit, AnnounceDownload, AnnounceVerifying, Progress, Goto,
                    Working, UnchangedGame, AssetStates, PendingStates
<1>9. CASE Throw
  BY <1>5, <1>9 DEF Throw, Goto, Working, UnchangedGame, AssetStates, PendingStates
<1> QED BY <1>1, <1>2, <1>3, <1>4, <1>6, <1>7, <1>8, <1>9 DEF Worker

(* At most one place of the queue holds an asset.                           *)
LEMMA AtMostOne ==
  ASSUME NEW S, \A a, b \in S : a = b
  PROVE  Cardinality(S) \in Nat /\ Cardinality(S) <= 1
<1>1. CASE S = {}
  BY <1>1, FS_EmptySet
<1>2. ASSUME NEW a \in S PROVE Cardinality(S) = 1
  <2>1. S = {a}
    OBVIOUS
  <2> QED BY <2>1, FS_Singleton
<1> QED BY <1>1, <1>2

(* Who holds each pending asset is so in every reachable state.             *)
LEMMA PendingHolds == Spec => [](IInv /\ HeldOK /\ PendingOK)
<1>1. Init => PendingOK
  <2> SUFFICES ASSUME Init PROVE PendingOK
    OBVIOUS
  <2>1. queue = <<>> /\ \A id \in Ids : states[id] = "Unknown"
    BY DEF Init
  <2> QED BY <2>1 DEF PendingOK, PendingStates
<1>2. IInv /\ HeldOK /\ PendingOK /\ [Next]_vars => PendingOK'
  <2> SUFFICES ASSUME IInv, HeldOK, PendingOK, [Next]_vars PROVE PendingOK'
    OBVIOUS
  <2>1. SessionOK
    BY DEF IInv
  <2>2. CASE UNCHANGED vars
    BY <2>2 DEF vars, sessionVars, PendingOK, Queued, InHand, IsCurrent
  <2> QED BY <2>1, <2>2, GamePending, WorkerPending DEF Next
<1> QED BY <1>1, <1>2, HeldHolds, PTL DEF Spec

(* A pending asset is in the queue exactly once or in the worker's hands,   *)
(* unless a stop cleared the queue (manager.cpp, QueueManifest, WorkerLoop, *)
(* ResetSession and RequestStop under one mutex).                           *)
THEOREM PendingItemsAreHeld == Spec => []PendingIsHeld
<1>1. HeldOK /\ PendingOK => PendingIsHeld
  <2> SUFFICES ASSUME HeldOK, PendingOK, NEW id \in Ids
               PROVE  LET held == {n \in DOMAIN queue : /\ queue[n].asset.id = id
                                                        /\ queue[n].generation = generation}
                          inHand == /\ pc \notin {"NotStarted", "Waiting", "Exited"}
                                    /\ IsCurrent
                                    /\ work.asset.id = id IN
                      /\ Cardinality(held) <= 1
                      /\ held # {} => states[id] = "Queued" /\ ~inHand
                      /\ states[id] \in PendingStates /\ held = {} /\ ~inHand => stopping
    BY DEF PendingIsHeld
  <2> DEFINE held == {n \in DOMAIN queue : /\ queue[n].asset.id = id
                                           /\ queue[n].generation = generation}
  <2>1. /\ \A n \in DOMAIN queue : queue[n].generation = generation
        /\ \A a, b \in held : a = b
    BY DEF HeldOK, QueueOK
  <2>2. Cardinality(held) <= 1
    BY <2>1, AtMostOne
  <2>3. held # {} => states[id] = "Queued" /\ ~(InHand /\ work.asset.id = id)
    BY DEF PendingOK, HeldOK, QueueOK
  <2>4. held = {} => ~Queued(id)
    BY <2>1 DEF Queued
  <2> QED BY <2>2, <2>3, <2>4 DEF PendingOK, InHand
<1> QED BY <1>1, PendingHolds, PTL

-----------------------------------------------------------------------------
(* What is ready is cached.                                                 *)

Announced == {m.asset : m \in {n \in Messages : n.type = "ManifestAsset"}}

(* Entries of one type and digest announce one size: the cache removes a    *)
(* file whose size is not the announced one, so that entries which disagree *)
(* would take each other's file away.                                       *)
OneSizePerContent == \A a, b \in Announced : a.content = b.content => a.size = b.size

(* Every item is of an entry the server announced, and one of the session   *)
(* is of the entry the receiver holds under its id.                         *)
ItemsOK ==
  /\ \A n \in DOMAIN receiver.assets : receiver.assets[n] \in Announced
  /\ \A n \in DOMAIN queue : queue[n].asset \in Announced
  /\ Working => work.asset \in Announced
  /\ \A n \in DOMAIN receiver.assets :
       /\ \A k \in DOMAIN queue :
            queue[k].asset.id = receiver.assets[n].id => queue[k].asset = receiver.assets[n]
       /\ InHand /\ work.asset.id = receiver.assets[n].id => work.asset = receiver.assets[n]

(* Where the receiver holds entries at all, what the session has queued and *)
(* has in hand are some of them.                                            *)
IsEntry(asset) == \E n \in DOMAIN receiver.assets : receiver.assets[n] = asset

EntriesOK ==
  DOMAIN receiver.assets # {} =>
    /\ \A n \in DOMAIN queue : IsEntry(queue[n].asset)
    /\ InHand => IsEntry(work.asset)

(* Nothing is ready while the worker still has an item of an earlier        *)
(* session, nor is the item it has not looked up yet.                       *)
UndecidedOK ==
  /\ Working /\ ~InHand => \A id \in Ids : states[id] # "Ready"
  /\ InHand /\ pc \in {"Check", "Lookup"} => states[work.asset.id] # "Ready"

Cached(asset) == Matches(cache[asset.content], asset)

(* What the worker has found out about the path of its item still holds,    *)
(* and the file of every ready entry is where it was found or put, unless   *)
(* another entry's Lookup could not hash it.                                *)
ReadyFound ==
  \A n \in DOMAIN receiver.assets :
    states[receiver.assets[n].id] = "Ready" =>
      Cached(receiver.assets[n]) \/ (MemoryMayFail /\ IsShared(n))

FoundOK ==
  /\ pc \in {"Hit", "Finish"} => Cached(work.asset)
  /\ pc \in {"Announce", "Download"} => cache[work.asset.content] = "Absent"
  /\ ReadyFound

CachedOK == ItemsOK /\ EntriesOK /\ UndecidedOK /\ (DiskMayFail \/ FoundOK)

(* An announced asset has a path in the cache.                              *)
LEMMA AnnouncedContents == \A asset \in Announced : asset.content \in Contents
BY MessagesAssumption DEF Announced

(* A message leaves the entries, drops them, or adds one while the manifest *)
(* is being received.                                                       *)
LEMMA AfterHandleAssets ==
  ASSUME NEW r, ReceiverOK(r), NEW message \in Messages
  PROVE  LET after == AfterHandle(r, message).assets IN
         \/ after = r.assets
         \/ after = <<>>
         \/ /\ message.type = "ManifestAsset" /\ r.state = "Receiving"
            /\ HandleResult(r, message) # "Complete"
            /\ after = Append(r.assets, message.asset)
<1> DEFINE result == HandleResult(r, message)
           after == AfterHandle(r, message)
<1>1. result \in {"Ignored", "InvalidOrder", "InvalidManifest", "Complete", "Accepted"}
  BY DEF HandleResult
<1>2. result = "Accepted" =>
        \/ message.type = "ManifestBegin"
        \/ message.type = "ManifestAsset" /\ r.state = "Receiving"
  BY DEF HandleResult, AssetInOrder
<1>3. CASE result = "Ignored"
  BY <1>3 DEF AfterHandle
<1>4. CASE result \in {"InvalidOrder", "InvalidManifest"}
  BY <1>4 DEF AfterHandle, FailedReceiver, IdleReceiver
<1>5. CASE result = "Complete"
  <2>1. after = [r EXCEPT !.state = "Complete"]
    BY <1>5 DEF AfterHandle
  <2> QED BY <2>1 DEF ReceiverOK
<1>6. CASE result = "Accepted" /\ message.type = "ManifestBegin"
  BY <1>6 DEF AfterHandle
<1>7. CASE result = "Accepted" /\ message.type = "ManifestAsset"
  <2>1. after = [r EXCEPT !.assets = Append(@, message.asset)]
    BY <1>7 DEF AfterHandle
  <2> QED BY <1>2, <1>7, <2>1 DEF ReceiverOK
<1> QED BY <1>1, <1>2, <1>3, <1>4, <1>5, <1>6, <1>7

(* A complete manifest's items are the receiver's entries; no other message *)
(* queues anything.                                                         *)
LEMMA MessageQueues ==
  ASSUME SessionOK, HeldOK, NEW message \in Messages, HandleMessage(message)
  PROVE  \/ /\ HandleResult(receiver, message) # "Complete"
            /\ queue' = queue /\ states' = states
         \/ /\ HandleResult(receiver, message) = "Complete"
            /\ ~InHand
            /\ receiver'.assets = receiver.assets
            /\ DOMAIN queue' = DOMAIN receiver.assets
            /\ \A n \in DOMAIN queue' : queue'[n].asset = receiver.assets[n]
            /\ \A id \in Ids : states'[id] # "Ready"
<1> DEFINE r == AfterHandle(receiver, message)
           result == HandleResult(receiver, message)
           fresh == IF result = "Complete" THEN NewlyQueued(r) ELSE <<>>
           item(n) == [generation |-> generation, revision |-> r.revision, asset |-> fresh[n]]
           items == [n \in DOMAIN fresh |-> item(n)]
<1>1. /\ receiver' = r
      /\ queue' = queue \o items
      /\ states' = [id \in Ids |-> IF \E n \in DOMAIN fresh : fresh[n].id = id
                                   THEN "Queued" ELSE states[id]]
      /\ UNCHANGED <<generation, pc, work>>
  BY DEF HandleMessage
<1>2. ReceiverOK(receiver) /\ ReceiverOK(r)
  BY AfterHandleOK DEF HeldOK
<1>3. CASE result # "Complete"
  <2>1. fresh = <<>> /\ items = <<>>
    BY <1>3
  <2> HIDE DEF fresh, items
  <2>2. queue \o <<>> = queue
    BY ConcatEmptySeq DEF HeldOK, QueueOK, IsSequence
  <2> QED BY <1>1, <1>3, <2>1, <2>2 DEF SessionOK
<1>4. CASE result = "Complete"
  <2>1. /\ queue = <<>> /\ ~InHand
        /\ \A id \in Ids : states[id] = "Unknown"
        /\ r.assets = receiver.assets
    BY <1>2, <1>4, AfterHandleOK DEF HeldOK, NothingYet
  <2>2. fresh = r.assets
    BY <1>2, <1>4, <2>1, WholeManifestQueued
  <2>3. DOMAIN fresh = 1..Len(fresh) /\ Len(fresh) \in Nat
    BY <1>2, <2>2, LenProperties DEF ReceiverOK, IsSequence
  <2> HIDE DEF fresh, r, result
  <2> DEFINE T == {item(n) : n \in DOMAIN fresh}
  <2>4. \A n \in DOMAIN fresh : items[n] = item(n) /\ item(n) \in T
    OBVIOUS
  <2>5. DOMAIN items = DOMAIN fresh
    OBVIOUS
  <2>6. \A n \in DOMAIN fresh : items[n].asset = fresh[n]
    BY <2>4
  <2> HIDE DEF T
  <2>7. items \in [1..Len(fresh) -> T]
    BY <2>3, <2>4
  <2> HIDE DEF items
  <2>8. items \in Seq(T)
    BY <2>3, <2>7
  <2>9. queue' = items
    BY <1>1, <2>1, <2>8, ConcatEmptySeq
  <2>10. \A id \in Ids : states'[id] # "Ready"
    BY <1>1, <2>1
  <2> QED BY <1>1, <1>4, <2>1, <2>2, <2>5, <2>6, <2>9, <2>10 DEF result
<1> QED BY <1>3, <1>4

(* Items stay items of the receiver's entries, and no message calls         *)
(* anything ready.                                                          *)
LEMMA MessageItems ==
  ASSUME SessionOK, HeldOK, ItemsOK, NEW message \in Messages, HandleMessage(message)
  PROVE  ItemsOK' /\ (\A id \in Ids : states'[id] = "Ready" => states[id] = "Ready")
                  /\ \A n \in DOMAIN receiver'.assets :
                       states'[receiver'.assets[n].id] = "Ready" =>
                         receiver'.assets = receiver.assets
<1> DEFINE r == AfterHandle(receiver, message)
           result == HandleResult(receiver, message)
<1>1. receiver' = r /\ UNCHANGED <<generation, pc, work>>
  BY DEF HandleMessage
<1>2. InHand' = InHand /\ Working' = Working
  BY <1>1 DEF InHand, Working, IsCurrent
<1>3. ReceiverOK(receiver) /\ ReceiverOK(r)
  BY AfterHandleOK DEF HeldOK
<1>4. PICK S : receiver.assets \in Seq(S)
  BY <1>3 DEF ReceiverOK, IsSequence
<1>5. CASE result # "Complete"
  <2>1. queue' = queue /\ states' = states
    BY <1>5, MessageQueues
  <2>2. CASE r.assets = receiver.assets \/ r.assets = <<>>
    <3>1. DOMAIN <<>> = {}
      OBVIOUS
    <3> HIDE DEF r, result
    <3> QED BY <1>1, <1>2, <2>1, <2>2, <3>1 DEF ItemsOK
  <2>3. CASE /\ message.type = "ManifestAsset" /\ receiver.state = "Receiving"
             /\ r.assets = Append(receiver.assets, message.asset)
    <3>1. queue = <<>> /\ ~InHand /\ \A id \in Ids : states[id] = "Unknown"
      BY <2>3 DEF HeldOK, NothingYet
    <3>2. message.asset \in Announced
      BY <2>3 DEF Announced
    <3> DEFINE asset == message.asset
    <3>3. \A n \in DOMAIN r.assets : r.assets[n] \in Announced
      <4> HIDE DEF asset
      <4>1. receiver.assets \in Seq(S \cup {asset})
        BY <1>4
      <4>2. /\ DOMAIN receiver.assets = 1..Len(receiver.assets) /\ Len(receiver.assets) \in Nat
            /\ DOMAIN Append(receiver.assets, asset) = 1..(Len(receiver.assets) + 1)
            /\ \A n \in 1..Len(receiver.assets) :
                 Append(receiver.assets, asset)[n] = receiver.assets[n]
            /\ Append(receiver.assets, asset)[Len(receiver.assets) + 1] = asset
        BY <4>1, AppendProperties, LenProperties
      <4>3. r.assets = Append(receiver.assets, asset) /\ asset \in Announced
        BY <2>3, <3>2 DEF asset
      <4>4. \A n \in 1..(Len(receiver.assets) + 1) :
              n \in 1..Len(receiver.assets) \/ n = Len(receiver.assets) + 1
        BY <4>2
      <4> HIDE DEF r
      <4> QED BY <4>2, <4>3, <4>4 DEF ItemsOK
    <3>4. \A n \in DOMAIN r.assets : r.assets[n].id \in Ids
      BY <1>3 DEF ReceiverOK
    <3>5. DOMAIN <<>> = {}
      OBVIOUS
    <3> HIDE DEF r, result
    <3> QED BY <1>1, <1>2, <2>1, <3>1, <3>3, <3>4, <3>5 DEF ItemsOK
  <2> QED BY <1>3, <2>2, <2>3, AfterHandleAssets
<1>6. CASE result = "Complete"
  <2>1. /\ ~InHand
        /\ receiver'.assets = receiver.assets
        /\ DOMAIN queue' = DOMAIN receiver.assets
        /\ \A n \in DOMAIN queue' : queue'[n].asset = receiver.assets[n]
        /\ \A id \in Ids : states'[id] # "Ready"
    BY <1>6, MessageQueues
  <2>2. \A n \in DOMAIN receiver.assets :
          /\ receiver.assets[n].id \in Ids
          /\ \A k \in DOMAIN receiver.assets :
               receiver.assets[k].id = receiver.assets[n].id => k = n
    BY <1>3 DEF ReceiverOK
  <2>3. /\ \A n \in DOMAIN receiver'.assets : receiver'.assets[n] \in Announced
        /\ \A n \in DOMAIN queue' : queue'[n].asset \in Announced
        /\ Working' => work'.asset \in Announced
    BY <1>1, <1>2, <2>1 DEF ItemsOK
  <2>4. \A n \in DOMAIN receiver'.assets : \A k \in DOMAIN queue' :
          queue'[k].asset.id = receiver'.assets[n].id => queue'[k].asset = receiver'.assets[n]
    BY <2>1, <2>2
  <2>5. ItemsOK'
    BY <1>2, <2>1, <2>3, <2>4 DEF ItemsOK
  <2> QED BY <2>1, <2>5
<1> QED BY <1>5, <1>6

(* Nor does a message leave the items and the entries apart.                *)
LEMMA MessageEntries ==
  ASSUME SessionOK, HeldOK, EntriesOK, NEW message \in Messages, HandleMessage(message)
  PROVE  EntriesOK'
<1> DEFINE r == AfterHandle(receiver, message)
<1>1. receiver' = r /\ UNCHANGED <<generation, pc, work>>
  BY DEF HandleMessage
<1>2. InHand' = InHand
  BY <1>1 DEF InHand, IsCurrent
<1>3. DOMAIN <<>> = {}
  OBVIOUS
<1>4. CASE HandleResult(receiver, message) = "Complete"
  BY <1>2, <1>4, MessageQueues DEF EntriesOK, IsEntry
<1>5. CASE HandleResult(receiver, message) # "Complete"
  <2>1. queue' = queue
    BY <1>5, MessageQueues
  <2>2. \/ r.assets = receiver.assets
        \/ r.assets = <<>>
        \/ receiver.state = "Receiving"
    BY AfterHandleAssets DEF HeldOK
  <2> HIDE DEF r
  <2>3. receiver.state = "Receiving" => DOMAIN queue = {} /\ ~InHand
    BY <1>3 DEF HeldOK, NothingYet
  <2> QED BY <1>1, <1>2, <1>3, <2>1, <2>2, <2>3 DEF EntriesOK, IsEntry
<1> QED BY <1>4, <1>5

(* A new session has no entry and no item.                                  *)
LEMMA FreshItems ==
  ASSUME HandOK, ItemsOK, NEW gen, FreshSession(gen),
         Working' => Working /\ work' = work
  PROVE  ItemsOK' /\ EntriesOK' /\ DOMAIN receiver'.assets = {}
<1>1. DOMAIN <<>> = {}
  OBVIOUS
<1>2. DOMAIN receiver'.assets = {} /\ DOMAIN queue' = {}
  BY <1>1 DEF FreshSession, IdleReceiver
<1>3. Working' => work'.asset \in Announced
  BY DEF ItemsOK
<1> QED BY <1>2, <1>3 DEF ItemsOK, EntriesOK

(* The game's thread touches no file and calls nothing ready.               *)
LEMMA GameCached ==
  ASSUME SessionOK, HeldOK, CachedOK, Game
  PROVE  CachedOK'
<1> USE DEF sessionVars, diskVars
<1>1. ASSUME NEW message \in Messages, HandleMessage(message) PROVE CachedOK'
  <2>1. UNCHANGED <<cache, faults, generation, pc, work>>
    BY <1>1 DEF HandleMessage
  <2>2. /\ ItemsOK'
        /\ \A id \in Ids : states'[id] = "Ready" => states[id] = "Ready"
        /\ \A n \in DOMAIN receiver'.assets :
             states'[receiver'.assets[n].id] = "Ready" => receiver'.assets = receiver.assets
    BY <1>1, MessageItems DEF CachedOK
  <2>3. EntriesOK'
    BY <1>1, MessageEntries DEF CachedOK
  <2>4. InHand' = InHand /\ Working' = Working /\ (InHand => work.asset.id \in Ids)
    BY <2>1 DEF InHand, IsCurrent, Working, HeldOK, HandOK, IsDue
  <2>5. UndecidedOK'
    BY <2>1, <2>2, <2>4 DEF CachedOK, UndecidedOK
  <2>6. ASSUME FoundOK PROVE FoundOK'
    <3>1. \A n \in DOMAIN receiver'.assets : receiver'.assets[n].id \in Ids
      BY <1>1, GameHeld DEF HeldOK, ReceiverOK, Game
    <3>2. ASSUME NEW n \in DOMAIN receiver'.assets, states'[receiver'.assets[n].id] = "Ready"
          PROVE  Cached(receiver.assets[n])' \/ (MemoryMayFail /\ IsShared(n))'
      <4>1. receiver'.assets = receiver.assets /\ states[receiver.assets[n].id] = "Ready"
        BY <2>2, <3>1, <3>2
      <4> QED BY <2>1, <2>6, <3>2, <4>1
              DEF FoundOK, ReadyFound, Cached, Matches, MemoryMayFail, IsShared
    <3>3. ReadyFound'
      BY <3>2 DEF ReadyFound
    <3> QED BY <2>1, <2>6, <3>3 DEF FoundOK, Cached, Matches
  <2> QED BY <2>1, <2>2, <2>3, <2>5, <2>6 DEF CachedOK, DiskMayFail
<1>2. CASE ResetSession \/ Crash
  <2>1. ItemsOK' /\ EntriesOK' /\ DOMAIN receiver'.assets = {}
    BY <1>2, FreshItems DEF ResetSession, Crash, CachedOK, HeldOK, Working
  <2>2. FoundOK => FoundOK'
    BY <1>2, <2>1 DEF ResetSession, Crash, FoundOK, ReadyFound, Cached
  <2>3. \A id \in Ids : states'[id] # "Ready"
    BY <1>2 DEF ResetSession, Crash, FreshSession
  <2>4. InHand' => work'.asset.id \in Ids
    BY <1>2, GameHeld DEF HeldOK, HandOK, IsDue, Game
  <2>5. UndecidedOK'
    BY <2>3, <2>4 DEF UndecidedOK
  <2> QED BY <1>2, <2>1, <2>2, <2>5 DEF ResetSession, Crash, CachedOK, DiskMayFail
<1>3. CASE RequestStop
  <2>1. DOMAIN <<>> = {}
    OBVIOUS
  <2>2. /\ DOMAIN queue' = {} /\ InHand' = InHand /\ Working' = Working
        /\ UNCHANGED <<cache, faults, receiver, states, pc, work>>
    BY <1>3, <2>1 DEF RequestStop, InHand, IsCurrent, Working
  <2> QED BY <2>2 DEF CachedOK, ItemsOK, EntriesOK, IsEntry, UndecidedOK, FoundOK, ReadyFound,
                      Cached, DiskMayFail, MemoryMayFail, IsShared
<1>4. CASE Initialize
  <2>1. ~Working' /\ ~InHand' /\ UNCHANGED <<cache, faults, receiver, queue, states>>
    BY <1>4 DEF Initialize, Working, InHand
  <2>2. pc' = "Waiting"
    BY <1>4 DEF Initialize
  <2> QED BY <2>1, <2>2
          DEF CachedOK, ItemsOK, EntriesOK, IsEntry, UndecidedOK, FoundOK, ReadyFound,
              Cached, DiskMayFail, MemoryMayFail, IsShared
<1>5. CASE DrainEvents
  BY <1>5 DEF DrainEvents, CachedOK, ItemsOK, EntriesOK, IsEntry, UndecidedOK, FoundOK,
              ReadyFound, Cached, DiskMayFail, MemoryMayFail, IsShared, Working, InHand,
              IsCurrent
<1> QED BY <1>1, <1>2, <1>3, <1>4, <1>5 DEF Game

(* What leaves the queue is of an announced entry, the receiver's if it is  *)
(* of the session.                                                          *)
LEMMA DequeueItems ==
  ASSUME SessionOK, HeldOK, ItemsOK, Dequeue
  PROVE  ItemsOK'
<1>1. /\ queue # <<>> /\ work' = Head(queue) /\ queue' = Tail(queue)
      /\ UNCHANGED <<receiver, generation>>
  BY DEF Dequeue, UnchangedGame
<1>2. PICK S : queue \in Seq(S)
  BY DEF HeldOK, QueueOK, IsSequence
<1>3. /\ Len(queue) \in Nat /\ DOMAIN queue = 1..Len(queue) /\ Len(queue) >= 1
      /\ Head(queue) = queue[1]
      /\ DOMAIN Tail(queue) = 1..(Len(queue) - 1)
      /\ \A n \in 1..(Len(queue) - 1) : Tail(queue)[n] = queue[n + 1]
  BY <1>1, <1>2, HeadTailProperties, LenProperties
<1>4. /\ work' = queue[1] /\ 1 \in DOMAIN queue
      /\ \A n \in DOMAIN queue' : n + 1 \in DOMAIN queue /\ queue'[n] = queue[n + 1]
  BY <1>1, <1>3
<1> QED BY <1>1, <1>4 DEF ItemsOK

(* No other section of the worker changes an item.                          *)
LEMMA WorkerItems ==
  ASSUME SessionOK, HeldOK, ItemsOK, Worker
  PROVE  ItemsOK'
<1>1. CASE Dequeue
  BY <1>1, DequeueItems
<1>2. ASSUME UNCHANGED <<receiver, queue, generation, work>>, Working' => Working
      PROVE  ItemsOK'
  BY <1>2 DEF ItemsOK, InHand, IsCurrent, Working
<1>3. CASE Exit \/ CheckGeneration \/ Lookup \/ StartFetch \/ FetchSucceeds \/ FetchFails
             \/ VerifyTemporary \/ Commit
  BY <1>2, <1>3 DEF Exit, CheckGeneration, Lookup, StartFetch, FetchSucceeds, FetchFails,
                    VerifyTemporary, Commit, Goto, Working, sessionVars
<1>4. CASE AnnounceHit \/ AnnounceDownload \/ AnnounceVerifying \/ ReportReady \/ ReportFailed
             \/ Throw \/ LoseReport
  BY <1>2, <1>4 DEF AnnounceHit, AnnounceDownload, AnnounceVerifying, Progress, ReportReady,
                    ReportFailed, Settle, Throw, LoseReport, UnchangedGame, Working
<1> QED BY <1>1, <1>3, <1>4 DEF Worker

(* What leaves the queue is an entry's; what stays in hand stays one.       *)
LEMMA WorkerEntries ==
  ASSUME SessionOK, HeldOK, EntriesOK, Worker
  PROVE  EntriesOK'
<1>1. CASE Dequeue
  <2>1. /\ queue # <<>> /\ work' = Head(queue) /\ queue' = Tail(queue)
        /\ receiver' = receiver
    BY <1>1 DEF Dequeue, UnchangedGame
  <2>2. PICK S : queue \in Seq(S)
    BY DEF HeldOK, QueueOK, IsSequence
  <2>3. /\ Len(queue) \in Nat /\ DOMAIN queue = 1..Len(queue) /\ Len(queue) >= 1
        /\ Head(queue) = queue[1]
        /\ DOMAIN Tail(queue) = 1..(Len(queue) - 1)
        /\ \A n \in 1..(Len(queue) - 1) : Tail(queue)[n] = queue[n + 1]
    BY <2>1, <2>2, HeadTailProperties, LenProperties
  <2>4. /\ work' = queue[1] /\ 1 \in DOMAIN queue
        /\ \A n \in DOMAIN queue' : n + 1 \in DOMAIN queue /\ queue'[n] = queue[n + 1]
    BY <2>1, <2>3
  <2>5. \A asset : IsEntry(asset)' <=> IsEntry(asset)
    BY <2>1 DEF IsEntry
  <2> QED BY <2>1, <2>4, <2>5 DEF EntriesOK, IsEntry
<1>2. ASSUME UNCHANGED <<receiver, queue, generation, work>>, Working' => Working
      PROVE  EntriesOK'
  BY <1>2 DEF EntriesOK, IsEntry, InHand, IsCurrent, Working
<1>3. CASE Exit \/ CheckGeneration \/ Lookup \/ StartFetch \/ FetchSucceeds \/ FetchFails
             \/ VerifyTemporary \/ Commit
  BY <1>2, <1>3 DEF Exit, CheckGeneration, Lookup, StartFetch, FetchSucceeds, FetchFails,
                    VerifyTemporary, Commit, Goto, Working, sessionVars
<1>4. CASE AnnounceHit \/ AnnounceDownload \/ AnnounceVerifying \/ ReportReady \/ ReportFailed
             \/ Throw \/ LoseReport
  BY <1>2, <1>4 DEF AnnounceHit, AnnounceDownload, AnnounceVerifying, Progress, ReportReady,
                    ReportFailed, Settle, Throw, LoseReport, UnchangedGame, Working
<1> QED BY <1>1, <1>3, <1>4 DEF Worker

(* A stale item changes no state, and a queued one is not ready.            *)
LEMMA WorkerUndecided ==
  ASSUME SessionOK, HeldOK, PendingOK, UndecidedOK, Worker
  PROVE  UndecidedOK'
<1>1. CASE Dequeue
  <2>1. /\ queue # <<>> /\ work' = Head(queue) /\ pc' = "Check"
        /\ UNCHANGED <<states, generation>>
    BY <1>1 DEF Dequeue, UnchangedGame, Goto
  <2>2. PICK S : queue \in Seq(S)
    BY DEF HeldOK, QueueOK, IsSequence
  <2>3. work' = queue[1] /\ 1 \in DOMAIN queue
    BY <2>1, <2>2, HeadTailProperties, LenProperties
  <2>4. InHand' /\ states'[work'.asset.id] = "Queued"
    BY <2>1, <2>3 DEF InHand, IsCurrent, HeldOK, QueueOK, PendingOK
  <2> QED BY <2>4 DEF UndecidedOK
<1>2. CASE ~Dequeue
  <2>1. UNCHANGED <<generation, work>> /\ (Working' => Working)
    BY <1>2 DEF Worker, Exit, CheckGeneration, Lookup, AnnounceHit, AnnounceDownload,
           AnnounceVerifying, Progress, StartFetch, FetchSucceeds, FetchFails,
           VerifyTemporary, Commit, ReportReady, ReportFailed, Settle, Throw, LoseReport,
           UnchangedGame, Goto, Working, sessionVars
  <2>2. states' = states \/ \E state : SetState(state)
    BY <1>2 DEF Worker, Exit, CheckGeneration, Lookup, AnnounceHit, AnnounceDownload,
           AnnounceVerifying, Progress, StartFetch, FetchSucceeds, FetchFails,
           VerifyTemporary, Commit, ReportReady, ReportFailed, Settle, Throw, LoseReport,
           sessionVars
  <2>3. ASSUME Working', ~InHand' PROVE \A id \in Ids : states'[id] # "Ready"
    <3>1. Working /\ ~InHand /\ ~IsCurrent
      BY <2>1, <2>3 DEF InHand, IsCurrent, Working
    <3>2. states' = states
      BY <2>2, <3>1 DEF SetState
    <3> QED BY <3>1, <3>2 DEF UndecidedOK
  <2>4. ASSUME InHand', pc' \in {"Check", "Lookup"} PROVE states'[work'.asset.id] # "Ready"
    <3>1. CheckGeneration
      <4>1. Lookup => pc' \notin {"Check", "Lookup"}
        <5> SUFFICES ASSUME Lookup PROVE pc' \notin {"Check", "Lookup"}
          OBVIOUS
        <5>1. PICK found \in LookupOutcomes(cache[work.asset.content], work.asset) :
                pc' = CASE found.verdict = "Hit" -> "Hit"
                        [] found.verdict = "Miss" -> "Announce"
                        [] found.verdict = "DiskFailure" -> "Fail"
          BY DEF Lookup, Goto
        <5> QED BY <5>1, LookupLeaves
      <4> QED BY <1>2, <2>4, <4>1
              DEF Worker, Exit, AnnounceHit, AnnounceDownload, AnnounceVerifying, Progress,
                  StartFetch, FetchSucceeds, FetchFails, VerifyTemporary, DiscardAnd, Commit,
                  ReportReady, ReportFailed, Settle, Throw, LoseReport, Goto
    <3>2. InHand /\ pc = "Check" /\ UNCHANGED <<states, work>>
      BY <2>1, <2>4, <3>1 DEF CheckGeneration, InHand, IsCurrent, sessionVars
    <3> QED BY <3>2 DEF UndecidedOK
  <2> QED BY <2>3, <2>4 DEF UndecidedOK
<1> QED BY <1>1, <1>2

(* A section that leaves the files alone calls an asset ready only where it *)
(* has found its file.                                                      *)
LEMMA SectionFound ==
  ASSUME SessionOK, HeldOK, ItemsOK, FoundOK, Working, NEW state,
         UNCHANGED <<cache, faults, receiver, generation>>,
         states' = states \/ SetState(state),
         state = "Ready" => Cached(work.asset)
  PROVE  ReadyFound'
<1> SUFFICES ASSUME NEW n \in DOMAIN receiver.assets, states'[receiver.assets[n].id] = "Ready"
             PROVE  Cached(receiver.assets[n]) \/ (MemoryMayFail /\ IsShared(n))
  BY DEF ReadyFound, Cached, Matches, MemoryMayFail, IsShared
<1> DEFINE id == receiver.assets[n].id
<1>1. CASE states'[id] = states[id]
  BY <1>1 DEF FoundOK, ReadyFound
<1>2. CASE states'[id] # states[id]
  <2>1. IsCurrent /\ states' = [states EXCEPT ![work.asset.id] = state]
    BY <1>2 DEF SetState
  <2>2. id = work.asset.id /\ state = "Ready"
    BY <1>2, <2>1 DEF SessionOK
  <2>3. work.asset = receiver.assets[n]
    BY <2>1, <2>2 DEF ItemsOK, InHand, Working
  <2> QED BY <2>2, <2>3
<1> QED BY <1>1, <1>2

(* A section that acts on the path of its item leaves every other ready     *)
(* file alone, and the file of a shared one too unless it could not hash it. *)
LEMMA PathFound ==
  ASSUME OneSizePerContent, FilesOK, ItemsOK, FoundOK, NEW file, Working,
         UNCHANGED <<receiver, states, faults>>,
         cache' = [cache EXCEPT ![work.asset.content] = file],
         \/ Cached(work.asset) => file = "Intact"
         \/ /\ MemoryMayFail
            /\ \A n \in DOMAIN receiver.assets :
                 /\ states[receiver.assets[n].id] = "Ready"
                 /\ receiver.assets[n].content = work.asset.content
                 => IsShared(n)
  PROVE  /\ ReadyFound'
         /\ cache'[work.asset.content] = file
<1>1. work.asset \in Announced /\ work.asset.content \in Contents
  BY AnnouncedContents DEF ItemsOK
<1>2. cache'[work.asset.content] = file
  BY <1>1 DEF FilesOK
<1>3. ASSUME NEW n \in DOMAIN receiver.assets, states[receiver.assets[n].id] = "Ready",
             ~(MemoryMayFail /\ IsShared(n))
      PROVE  Cached(receiver.assets[n])'
  <2> DEFINE asset == receiver.assets[n]
  <2>1. Cached(asset) /\ asset \in Announced /\ asset.content \in Contents
    BY <1>3, AnnouncedContents DEF FoundOK, ReadyFound, ItemsOK
  <2>2. CASE asset.content = work.asset.content
    <3>1. asset.size = work.asset.size
      BY <1>1, <2>1, <2>2 DEF OneSizePerContent
    <3>2. Cached(work.asset)
      BY <2>1, <2>2, <3>1 DEF Cached, Matches
    <3>3. file = "Intact"
      BY <1>3, <2>2, <3>2
    <3> QED BY <1>2, <2>1, <2>2, <3>3 DEF Cached, Matches
  <2>3. CASE asset.content # work.asset.content
    BY <2>1, <2>3 DEF Cached, Matches, FilesOK
  <2> QED BY <2>2, <2>3
<1>4. ReadyFound'
  <2>1. MemoryMayFail' = MemoryMayFail /\ \A n : IsShared(n)' <=> IsShared(n)
    BY DEF MemoryMayFail, IsShared
  <2> QED BY <1>3, <2>1 DEF ReadyFound
<1> QED BY <1>2, <1>4

(* Another entry than the one the worker looks up has its content, if a     *)
(* ready one has it.                                                        *)
LEMMA ReadyIsAnother ==
  ASSUME HeldOK, EntriesOK, UndecidedOK, pc = "Lookup",
         NEW n \in DOMAIN receiver.assets,
         states[receiver.assets[n].id] = "Ready",
         receiver.assets[n].content = work.asset.content
  PROVE  IsShared(n)
<1>1. InHand
  BY DEF UndecidedOK, Working, HeldOK, ReceiverOK
<1>2. PICK m \in DOMAIN receiver.assets : receiver.assets[m] = work.asset
  BY <1>1 DEF EntriesOK, IsEntry
<1>3. m # n
  BY <1>1, <1>2 DEF UndecidedOK
<1> QED BY <1>2, <1>3 DEF IsShared

(* Lookup and Commit act on one path; the other sections act on none.       *)
LEMMA WorkerFound ==
  ASSUME OneSizePerContent, IInv, HeldOK, ItemsOK, EntriesOK, UndecidedOK, FoundOK,
         ~DiskMayFail, faults' = faults, Worker
  PROVE  FoundOK'
<1> USE DEF IInv
<1>1. CASE Dequeue
  BY <1>1 DEF Dequeue, Goto, UnchangedGame, diskVars, FoundOK, ReadyFound, Cached,
              MemoryMayFail, IsShared
<1>2. CASE Exit
  BY <1>2 DEF Exit, Goto, sessionVars, diskVars, FoundOK, ReadyFound, Cached,
              MemoryMayFail, IsShared
<1>3. CASE CheckGeneration
  BY <1>3 DEF CheckGeneration, Goto, sessionVars, diskVars, FoundOK, ReadyFound, Cached,
              MemoryMayFail, IsShared
<1>4. CASE Lookup
  <2>1. /\ Working /\ UNCHANGED <<receiver, states, work>>
    BY <1>4 DEF Lookup, Working, sessionVars
  <2>2. PICK found \in LookupOutcomes(cache[work.asset.content], work.asset) :
          /\ cache' = [cache EXCEPT ![work.asset.content] = found.file]
          /\ pc' = CASE found.verdict = "Hit" -> "Hit"
                     [] found.verdict = "Miss" -> "Announce"
                     [] found.verdict = "DiskFailure" -> "Fail"
    BY <1>4 DEF Lookup, Goto
  <2>3. \/ Cached(work.asset) /\ found.verdict = "Hit" /\ found.file = "Intact"
        \/ found.verdict = "Miss" /\ found.file = "Absent"
             /\ (Cached(work.asset) => MemoryMayFail)
        \/ found.verdict = "DiskFailure" /\ found.file = cache[work.asset.content]
    BY DEF LookupOutcomes, OnFault, Cached, Matches
  <2>4. /\ ReadyFound'
        /\ cache'[work.asset.content] = found.file
    <3>1. \A n \in DOMAIN receiver.assets :
            /\ states[receiver.assets[n].id] = "Ready"
            /\ receiver.assets[n].content = work.asset.content
            => IsShared(n)
      BY <1>4, ReadyIsAnother DEF Lookup
    <3>2. Cached(work.asset) => MemoryMayFail \/ found.file = "Intact"
      BY <2>3 DEF Cached, Matches
    <3> QED BY <2>1, <2>2, <3>1, <3>2, PathFound
  <2>5. pc' = "Hit" => Cached(work.asset)'
    BY <2>1, <2>2, <2>3, <2>4 DEF Cached, Matches
  <2>6. pc' \in {"Hit", "Announce", "Fail"} /\ (pc' = "Announce" => found.file = "Absent")
    BY <2>2, <2>3
  <2> QED BY <2>1, <2>4, <2>5, <2>6 DEF FoundOK
<1>5. CASE Commit
  <2>1. /\ Working /\ UNCHANGED <<receiver, states, work>> /\ pc = "Commit"
    BY <1>5 DEF Commit, Working, sessionVars
  <2>2. PICK done \in CommitOutcomes(cache[work.asset.content], tmp[work.asset.content],
                                     work.asset) :
          /\ cache' = [cache EXCEPT ![work.asset.content] = done.final]
          /\ pc' = IF done.ok THEN "Finish" ELSE "Fail"
    BY <1>5 DEF Commit, Goto
  <2>3. Matches(tmp[work.asset.content], work.asset)
    BY <2>1 DEF FilesOK
  <2>4. \/ done.ok /\ done.final = "Intact" /\ work.asset.size = TrueSize[work.asset.content]
        \/ ~done.ok /\ done.final = cache[work.asset.content]
    BY <2>3 DEF CommitOutcomes, OnError, OnFault, Matches
  <2>5. /\ ReadyFound'
        /\ cache'[work.asset.content] = done.final
    <3>1. Cached(work.asset) => done.final = "Intact"
      BY <2>4 DEF Cached, Matches
    <3> QED BY <2>1, <2>2, <3>1, PathFound
  <2> QED BY <2>1, <2>2, <2>4, <2>5 DEF FoundOK, Cached, Matches
<1>6. CASE AnnounceHit \/ ReportReady
  <2>1. /\ Working /\ UNCHANGED <<cache, receiver, generation, work>> /\ SetState("Ready")
        /\ pc \in {"Hit", "Finish"} /\ pc' \in {"Finish", "Waiting"}
    BY <1>6 DEF AnnounceHit, Progress, ReportReady, Settle, Goto, Working, UnchangedGame,
                diskVars
  <2>2. Cached(work.asset)
    BY <2>1 DEF FoundOK, ReadyFound
  <2>3. ReadyFound'
    BY <2>1, <2>2, SectionFound
  <2> QED BY <2>1, <2>2, <2>3 DEF FoundOK, ReadyFound, Cached, Matches
<1>7. CASE Throw
  <2>1. PICK state \in AssetStates : states' = states \/ SetState(state)
    BY <1>7 DEF Throw, AssetStates, PendingStates
  <2>2. /\ Working /\ UNCHANGED <<cache, receiver, generation, work>>
        /\ pc' = "Fail"
        /\ states' = states \/ SetState("Downloading") \/ SetState("Verifying")
             \/ (SetState("Ready") /\ Cached(work.asset))
    BY <1>7 DEF Throw, Goto, Working, UnchangedGame, diskVars, FoundOK, ReadyFound
  <2>3. ReadyFound'
    BY <2>2, SectionFound
  <2> QED BY <2>2, <2>3 DEF FoundOK, ReadyFound, Cached, Matches
<1>8. CASE AnnounceDownload \/ AnnounceVerifying \/ ReportFailed \/ LoseReport
  <2>1. /\ Working /\ UNCHANGED <<cache, receiver, generation, work>>
        /\ SetState("Downloading") \/ SetState("Verifying") \/ SetState("Failed")
        /\ \/ pc = "Announce" /\ pc' = "Download"
           \/ pc' \in {"Verify", "Waiting"}
    BY <1>8 DEF AnnounceDownload, AnnounceVerifying, Progress, ReportFailed, Settle,
                LoseReport, Goto, Working, UnchangedGame, diskVars
  <2>2. ReadyFound'
    BY <2>1, SectionFound
  <2> QED BY <2>1, <2>2 DEF FoundOK, ReadyFound
<1>9. CASE StartFetch \/ FetchSucceeds \/ FetchFails \/ VerifyTemporary
  <2>1. /\ UNCHANGED <<cache, receiver, states, work>>
        /\ pc' \in {"Fetching", "Fetched", "Fail", "Commit"}
    BY <1>9 DEF StartFetch, FetchSucceeds, FetchFails, VerifyTemporary, DiscardAnd, Goto,
                sessionVars
  <2> QED BY <2>1 DEF FoundOK, ReadyFound, Cached, Matches, MemoryMayFail, IsShared
<1> QED BY <1>1, <1>2, <1>3, <1>4, <1>5, <1>6, <1>7, <1>8, <1>9 DEF Worker

(* Where the disk works, the worker's findings and the files of ready       *)
(* assets stay true to each other.                                          *)
LEMMA CachedHolds ==
  ASSUME OneSizePerContent
  PROVE  Spec => [](IInv /\ HeldOK /\ CachedOK)
<1>1. Init => CachedOK
  <2> SUFFICES ASSUME Init PROVE CachedOK
    OBVIOUS
  <2>1. DOMAIN <<>> = {}
    OBVIOUS
  <2>2. /\ DOMAIN receiver.assets = {} /\ DOMAIN queue = {} /\ pc = "NotStarted"
    BY <2>1 DEF Init, IdleReceiver
  <2> QED BY <2>2
          DEF CachedOK, ItemsOK, EntriesOK, UndecidedOK, FoundOK, ReadyFound, Working, InHand
<1>2. IInv /\ HeldOK /\ PendingOK /\ CachedOK /\ [Next]_vars => CachedOK'
  <2> SUFFICES ASSUME IInv, HeldOK, PendingOK, CachedOK, [Next]_vars PROVE CachedOK'
    OBVIOUS
  <2>1. CASE Game
    BY <2>1, GameCached DEF IInv
  <2>2. CASE Worker
    <3>1. faults' = faults
      BY <2>2 DEF Worker, Dequeue, Exit, CheckGeneration, Lookup, AnnounceHit,
                  AnnounceDownload, AnnounceVerifying, Progress, StartFetch, FetchSucceeds,
                  FetchFails, VerifyTemporary, Commit, ReportReady, ReportFailed, Settle,
                  Throw, LoseReport, diskVars
    <3> QED BY <2>2, <3>1, WorkerItems, WorkerEntries, WorkerUndecided, WorkerFound
            DEF CachedOK, IInv, DiskMayFail
  <2>3. CASE UNCHANGED vars
    BY <2>3 DEF vars, diskVars, sessionVars, CachedOK, ItemsOK, EntriesOK, IsEntry,
                UndecidedOK, FoundOK, ReadyFound, Cached, InHand, IsCurrent, Working,
                DiskMayFail, MemoryMayFail, IsShared
  <2> QED BY <2>1, <2>2, <2>3 DEF Next
<1> QED BY <1>1, <1>2, PendingHolds, PTL DEF Spec

(* While the disk works, a Ready asset's file is in the cache, through any  *)
(* resets, crashes and stale items (manager.cpp, Process; cache.cpp, Lookup *)
(* and CommitVerified), if the server gives a content one size; only the    *)
(* Lookup of another entry of its content may have removed it, where memory *)
(* may fail.                                                                *)
THEOREM ReadyAssetsAreCached ==
  ASSUME OneSizePerContent
  PROVE  Spec => []ReadyIsCached
<1>1. CachedOK => ReadyIsCached
  BY DEF CachedOK, FoundOK, ReadyFound, Cached, Matches, ReadyIsCached
<1> QED BY <1>1, CachedHolds, PTL

(* Where nothing fails, no content is requested again while an asset of the *)
(* session is Ready by it (manager.cpp, Process: Lookup before Fetch).      *)
THEOREM CommittedIsNotRequested ==
  ASSUME OneSizePerContent
  PROVE  Spec => CommittedAvoidsRequest
<1> DEFINE Avoided ==
      StartFetch /\ IsCurrent /\ faults = {} =>
        \A n \in DOMAIN receiver.assets :
          states[receiver.assets[n].id] = "Ready"
            => receiver.assets[n].content # work.asset.content
<1>1. CachedOK => Avoided
  <2>1. faults = {} => ~DiskMayFail /\ ~MemoryMayFail
    BY DEF DiskMayFail, MemoryMayFail
  <2> QED BY <2>1 DEF CachedOK, FoundOK, ReadyFound, Cached, Matches, StartFetch
<1>2. CachedOK /\ [Next]_vars => [Avoided]_vars
  BY <1>1
<1> QED BY <1>2, CachedHolds, PTL DEF Spec, CommittedAvoidsRequest
=============================================================================
