---------------------------- MODULE EndToEndProofs ----------------------------
(***************************************************************************)
(* First the server component by itself: its records and the frames it     *)
(* hands to the host, for any number of players, Hellos, configuration     *)
(* lines and reports, and for every policy and limit.  Then what the       *)
(* client and the server believe of each other, over any number of         *)
(* connections, resets and refused sends.                                  *)
(***************************************************************************)
EXTENDS EndToEnd, ManifestProofs

-----------------------------------------------------------------------------
(* Registries.  The ids are finitely many, so that a session's expected set *)
(* has a cardinality.                                                       *)
RegistryOK(reg) == RegistryGood(reg) /\ IsFiniteSet(Ids(reg.assets))

(* The state of a registry before its first asset.                          *)
LEMMA EmptyRegistryOK == RegistryOK(EmptyRegistry)
<1>1. Ids(EmptyRegistry.assets) = {}
  BY DEF Ids, EmptyRegistry
<1> QED BY <1>1, FS_EmptySet, EmptyRegistryGood DEF RegistryOK

(* RegisterAsset adds one id.                                               *)
LEMMA AfterRegisterOK ==
  ASSUME NEW reg, RegistryOK(reg), NEW asset \in AssetDescriptions,
         RegisterResult(reg, asset) = "Added"
  PROVE  RegistryOK(AfterRegister(reg, asset))
<1>1. Ids(reg.assets \cup {asset}) = Ids(reg.assets) \cup {asset.id}
  BY DEF Ids
<1>2. IsFiniteSet(Ids(reg.assets) \cup {asset.id})
  BY FS_AddElement DEF RegistryOK
<1>3. AfterRegister(reg, asset).assets = reg.assets \cup {asset}
  BY DEF AfterRegister
<1> QED BY <1>1, <1>2, <1>3, RegisterKeepsGood DEF RegistryOK

-----------------------------------------------------------------------------
(* Entries of the tracker.                                                  *)
EntryOK(entry) ==
  /\ entry \in PlayerStates
  /\ entry.state = "Rejected" <=> entry.reason # NoReason

(* The entries the tracker stores without looking at a Hello.               *)
LEMMA FreshEntriesOK ==
  /\ EntryOK(Untracked)
  /\ EntryOK(Entry("HandshakePending", NoReason))
  /\ \A reason \in RejectReasons : EntryOK(Entry("Rejected", reason))
<1>1. NoHello \in HelloMessages
  BY DEF NoHello, HelloMessages, RuntimeVersions, SampVersions, CapabilityWords
<1>2. {} \in CapabilityWords
  BY DEF CapabilityWords
<1> QED
  BY <1>1, <1>2
  DEF EntryOK, Entry, Untracked, PlayerStates, HandshakeStates, NoReason, RejectReasons

(* A Hello always leaves a verdict: Compatible, or Rejected with a reason.  *)
LEMMA AfterHelloOK ==
  ASSUME NEW entry, EntryOK(entry), NEW hello \in Hellos
  PROVE  /\ EntryOK(AfterHello(entry, hello))
         /\ AfterHello(entry, hello).state \in {"Compatible", "Rejected"}
<1>1. hello \in HelloMessages
  BY PolicyAssumption
<1>2. CASE IsSettled(entry, hello)
  BY <1>2 DEF AfterHello, IsSettled, EntryOK
<1>3. CASE ~IsSettled(entry, hello)
  <2> DEFINE reason == Refusal(entry, hello)
  <2>1. reason \in RejectReasons \cup {NoReason}
    BY DEF Refusal, FirstFailure, RejectReasons
  <2>2. Negotiated(hello) \in CapabilityWords /\ {} \in CapabilityWords
    BY <1>1 DEF Negotiated, HelloMessages, CapabilityWords
  <2>3. AfterHello(entry, hello) = Judged(hello, reason)
    BY <1>3 DEF AfterHello
  <2> HIDE DEF reason
  <2>4. EntryOK(Judged(hello, reason))
    BY <1>1, <2>1, <2>2
    DEF EntryOK, Judged, PlayerStates, HandshakeStates, RejectReasons, NoReason
  <2>5. Judged(hello, reason).state \in {"Compatible", "Rejected"}
    BY DEF Judged
  <2> QED BY <2>3, <2>4, <2>5
<1> QED BY <1>2, <1>3

-----------------------------------------------------------------------------
(* Sessions of the publication: the books balance.                          *)
SessionOK(s) ==
  /\ s \in Sessions
  /\ IsFiniteSet(s.expected)
  /\ s.ready \cap s.failed = {}
  /\ s.ready \cup s.failed \subseteq s.expected
  /\ AcceptsReports(s) => (s.state = "AssetsReady" <=> s.ready = s.expected)

(* OnPlayerConnected and an absent entry.                                   *)
LEMMA FreshSessionsOK ==
  SessionOK(NoSession) /\ SessionOK(Session("HandshakePending"))
BY FS_EmptySet
DEF SessionOK, NoSession, Session, Sessions, SessionStates, AcceptsReports

(* OnPlayerCompatible ends in AssetsReady exactly when nothing is expected. *)
LEMMA AfterStreamOK ==
  ASSUME RegistryOK(registry), NEW delivered
  PROVE  /\ SessionOK(AfterStream(registry, delivered))
         /\ AfterStream(registry, delivered).state \notin {"Unknown", "HandshakePending"}
<1> DEFINE s == AfterStream(registry, delivered)
<1>1. Ids(registry.assets) \subseteq Nat
  BY DEF RegistryOK, RegistryGood, Ids, AssetDescriptions
<1>2. Ids(registry.assets) = {} <=> registry.assets = {}
  BY DEF Ids
<1>3. s.state \in {"Rejected", "AssetsReady", "ManifestComplete"}
  BY DEF AfterStream
<1>4. s \in Sessions
  <2>1. registry.revision \in Nat
    BY DEF RegistryOK, RegistryGood
  <2> QED BY <1>1, <1>3, <2>1 DEF AfterStream, Sessions, SessionStates
<1>5. AcceptsReports(s) => (s.state = "AssetsReady" <=> s.ready = s.expected)
  BY <1>2 DEF AfterStream, AcceptsReports
<1>6. IsFiniteSet(s.expected) /\ s.ready = {} /\ s.failed = {}
  BY DEF AfterStream, RegistryOK, RegistryGood
<1> QED BY <1>3, <1>4, <1>5, <1>6 DEF SessionOK

(* AssetReady compares two sizes; since the ready ids are expected ids, equal *)
(* sizes mean equal sets.                                                   *)
LEMMA AfterReadyOK ==
  ASSUME NEW s, SessionOK(s), AcceptsReports(s), NEW id \in s.expected
  PROVE  SessionOK(AfterReady(s, id)) /\ AcceptsReports(AfterReady(s, id))
<1> DEFINE ready == s.ready \cup {id}
           after == AfterReady(s, id)
<1>1. ready \subseteq s.expected
  BY DEF SessionOK
<1>2. Cardinality(ready) = Cardinality(s.expected) <=> ready = s.expected
  BY <1>1, FS_Subset DEF SessionOK
<1>3. s.state = "AssetsReady" => ready = s.expected
  BY <1>1 DEF SessionOK
<1>4. /\ after.ready = ready
      /\ after.failed = s.failed \ {id}
      /\ after.expected = s.expected
      /\ after.revision = s.revision
      /\ after.state = IF Cardinality(ready) = Cardinality(s.expected)
                       THEN "AssetsReady" ELSE s.state
  BY DEF AfterReady, SessionOK, Sessions
<1>5. after.state \in {"ManifestComplete", "AssetsReady"}
  BY <1>4 DEF AcceptsReports
<1>6. after.state = "AssetsReady" <=> ready = s.expected
  BY <1>2, <1>3, <1>4
<1>7. after \in Sessions
  BY <1>1 DEF AfterReady, SessionOK, Sessions, SessionStates
<1> QED BY <1>1, <1>4, <1>5, <1>6, <1>7 DEF SessionOK, AcceptsReports

(* AssetError takes the asset out of the ready set, so not all are ready.   *)
LEMMA AfterErrorOK ==
  ASSUME NEW s, SessionOK(s), AcceptsReports(s), NEW id \in s.expected
  PROVE  SessionOK(AfterError(s, id)) /\ AcceptsReports(AfterError(s, id))
BY DEF AfterError, SessionOK, AcceptsReports, Sessions, SessionStates

(* HandleIncoming: no message opens a session or unbalances it.             *)
LEMMA AfterMessageOK ==
  ASSUME NEW s, SessionOK(s), NEW message
  PROVE  /\ SessionOK(AfterMessage(s, message))
         /\ \/ AfterMessage(s, message) = s
            \/ AcceptsReports(s) /\ AcceptsReports(AfterMessage(s, message))
<1>1. CASE AcceptsReports(s) /\ ConcernsManifest(s, message)
  <2>1. message.id \in s.expected
    BY <1>1 DEF ConcernsManifest
  <2> QED BY <1>1, <2>1, AfterReadyOK, AfterErrorOK DEF AfterMessage
<1>2. CASE ~(AcceptsReports(s) /\ ConcernsManifest(s, message))
  BY <1>2 DEF AfterMessage
<1> QED BY <1>1, <1>2

-----------------------------------------------------------------------------
(* The invariant of the component.                                          *)
RecordsOK ==
  /\ players \in [Players -> PlayerStates]
  /\ \A p \in Players : EntryOK(players[p])
  /\ sessions \in [Players -> Sessions]
  /\ \A p \in Players : SessionOK(sessions[p])

HostOK ==
  /\ RegistryOK(registry)
  /\ RegistryOK(parsed)
  /\ phase \in Phases
  /\ connected \subseteq Players
  /\ malformed \subseteq Players

IInv == RecordsOK /\ HostOK /\ SessionFollowsHandshake

(* SessionFollowsHandshake for one player's pair of records.                *)
PairOK(entry, session, present) ==
  /\ session.state \notin {"Unknown", "HandshakePending"}
       => entry.state \in {"Compatible", "Rejected"}
  /\ entry.state = "HandshakePending" => session.state = "HandshakePending"
  /\ entry.state = "Compatible" => session.state # "Unknown"
  /\ ~present => entry = Untracked /\ session = NoSession

(* Every handler changes the records of one player at most.                 *)
LEMMA OnePlayerChanges ==
  ASSUME IInv, NEW p \in Players,
         NEW entry, EntryOK(entry), NEW session, SessionOK(session),
         players' = [players EXCEPT ![p] = entry],
         sessions' = [sessions EXCEPT ![p] = session],
         connected' \subseteq Players,
         \A q \in Players \ {p} : q \in connected' <=> q \in connected,
         PairOK(entry, session, p \in connected')
  PROVE  RecordsOK' /\ SessionFollowsHandshake'
<1>1. RecordsOK'
  BY DEF IInv, RecordsOK, EntryOK, SessionOK
<1>2. ASSUME NEW q \in Players
      PROVE  PairOK(players'[q], sessions'[q], q \in connected')
  <2>1. CASE q = p
    BY <2>1 DEF IInv, RecordsOK
  <2>2. CASE q # p
    <3>1. players'[q] = players[q] /\ sessions'[q] = sessions[q]
      BY <2>2 DEF IInv, RecordsOK
    <3>2. PairOK(players[q], sessions[q], q \in connected)
      BY DEF IInv, SessionFollowsHandshake, PairOK
    <3> QED BY <2>2, <3>1, <3>2 DEF PairOK
  <2> QED BY <2>1, <2>2
<1>3. SessionFollowsHandshake'
  BY <1>2 DEF SessionFollowsHandshake, PairOK
<1> QED BY <1>1, <1>3

(* reset() and free() empty both maps.                                      *)
LEMMA AllForgotten ==
  ASSUME IInv, TrackerReset, PublicationReset
  PROVE  RecordsOK' /\ SessionFollowsHandshake'
<1>1. Untracked.state = "Unknown" /\ NoSession.state = "Unknown"
  BY DEF Untracked, Entry, NoSession, Session
<1>2. \A p \in Players : players'[p] = Untracked /\ sessions'[p] = NoSession
  BY DEF TrackerReset, PublicationReset
<1>3. EntryOK(Untracked) /\ SessionOK(NoSession)
  BY FreshEntriesOK, FreshSessionsOK
<1>4. RecordsOK'
  BY <1>2, <1>3 DEF RecordsOK, TrackerReset, PublicationReset, EntryOK, SessionOK
<1>5. SessionFollowsHandshake'
  BY <1>1, <1>2 DEF SessionFollowsHandshake
<1> QED BY <1>4, <1>5

-----------------------------------------------------------------------------
(* onLoad changes the registries only.                                      *)
LEMMA LoadKeeps ==
  ASSUME IInv, \/ OnLoadAttach
               \/ \E asset \in Lines : OnLoadLine(asset)
               \/ OnLoadUnreadable
               \/ OnLoadRegister
  PROVE  IInv'
<1>1. UNCHANGED <<players, sessions, connected, malformed>> /\ phase' \in Phases
  BY DEF IInv, HostOK, OnLoadAttach, OnLoadLine, OnLoadUnreadable, OnLoadRegister, Phases
<1>2. RecordsOK' /\ SessionFollowsHandshake'
  BY <1>1 DEF IInv, RecordsOK, SessionFollowsHandshake
<1>3. RegistryOK(registry)' /\ RegistryOK(parsed)'
  <2>1. CASE OnLoadAttach
    BY <2>1 DEF OnLoadAttach, IInv, HostOK, RegistryOK, RegistryGood
  <2>2. ASSUME NEW asset \in Lines, OnLoadLine(asset)
        PROVE  RegistryOK(registry)' /\ RegistryOK(parsed)'
    <3>1. registry' = registry
      BY <2>2 DEF OnLoadLine, LoadLine, LoadFails, LoadAbandoned
    <3>2. RegistryOK(parsed')
      <4>1. \/ parsed' = EmptyRegistry
            \/ RegisterResult(parsed, asset) = "Added" /\ parsed' = AfterRegister(parsed, asset)
        BY <2>2 DEF OnLoadLine, LoadLine, LoadFails, LoadAbandoned
      <4> QED BY <4>1, AfterRegisterOK, EmptyRegistryOK, LinesAssumption DEF IInv, HostOK
    <3>3. RegistryOK(EmptyRegistry)
      BY EmptyRegistryOK
    <3> QED BY <3>1, <3>2, <3>3 DEF IInv, HostOK, RegistryOK, RegistryGood
  <2>3. CASE OnLoadUnreadable
    BY <2>3, EmptyRegistryOK DEF OnLoadUnreadable, LoadAbandoned, IInv, HostOK, RegistryOK, RegistryGood
  <2>4. CASE OnLoadRegister
    BY <2>4, EmptyRegistryOK DEF OnLoadRegister, LoadEnds, IInv, HostOK, RegistryOK, RegistryGood
  <2> QED BY <2>1, <2>2, <2>3, <2>4
<1> QED BY <1>1, <1>2, <1>3 DEF IInv, HostOK

(* reset() and free().                                                      *)
LEMMA ResetKeeps ==
  ASSUME IInv, Reset \/ Free
  PROVE  IInv'
<1>1. RecordsOK' /\ SessionFollowsHandshake'
  BY AllForgotten DEF Reset, Free
<1>2. HostOK'
  BY DEF IInv, HostOK, RegistryOK, RegistryGood, Reset, Free, hostVars, Phases
<1> QED BY <1>1, <1>2 DEF IInv

(* The connect and disconnect events write both records of the player.      *)
LEMMA ConnectionKeeps ==
  ASSUME IInv, NEW p \in Players, OnPlayerConnect(p) \/ OnPlayerDisconnect(p)
  PROVE  IInv'
<1>1. HostOK'
  BY DEF IInv, HostOK, RegistryOK, RegistryGood, OnPlayerConnect, OnPlayerDisconnect
<1>2. CASE OnPlayerConnect(p)
  <2> DEFINE entry == Entry("HandshakePending", NoReason)
             session == Session("HandshakePending")
  <2>1. EntryOK(entry) /\ SessionOK(session)
    BY FreshEntriesOK, FreshSessionsOK
  <2>2. PairOK(entry, session, p \in connected')
    BY <1>2 DEF PairOK, Entry, Session, OnPlayerConnect
  <2>3. /\ players' = [players EXCEPT ![p] = entry]
        /\ sessions' = [sessions EXCEPT ![p] = session]
        /\ \A q \in Players \ {p} : q \in connected' <=> q \in connected
    BY <1>2 DEF OnPlayerConnect, BeginHandshake, SessionConnected
  <2> QED BY <1>1, <2>1, <2>2, <2>3, OnePlayerChanges DEF IInv, HostOK
<1>3. CASE OnPlayerDisconnect(p)
  <2>1. EntryOK(Untracked) /\ SessionOK(NoSession)
    BY FreshEntriesOK, FreshSessionsOK
  <2>2. PairOK(Untracked, NoSession, p \in connected')
    BY DEF PairOK, Untracked, Entry, NoSession, Session
  <2>3. /\ players' = [players EXCEPT ![p] = Untracked]
        /\ sessions' = [sessions EXCEPT ![p] = NoSession]
        /\ \A q \in Players \ {p} : q \in connected' <=> q \in connected
    BY <1>3 DEF OnPlayerDisconnect, RemovePlayer, SessionDisconnected
  <2> QED BY <1>1, <2>1, <2>2, <2>3, OnePlayerChanges DEF IInv, HostOK
<1> QED BY <1>2, <1>3

(* A player becomes compatible only out of a pending handshake.             *)
LEMMA CompatibleWasPending ==
  ASSUME NEW entry, NEW hello, AfterHello(entry, hello).state = "Compatible"
  PROVE  entry.state \in {"Compatible", "HandshakePending"}
BY DEF AfterHello, IsSettled, Judged, Refusal, NoReason

(* A Hello: the verdict is stored whether or not the answer is delivered,   *)
(* and a manifest goes to a player who has just been found compatible.      *)
LEMMA HelloKeeps ==
  ASSUME IInv, NEW p \in Players, NEW hello \in Hellos, ReceiveHello(p, hello)
  PROVE  IInv'
<1> DEFINE entry == AfterHello(players[p], hello)
<1>1. HostOK' /\ p \in connected'
  BY DEF IInv, HostOK, RegistryOK, RegistryGood, ReceiveHello, Receiving, hostVars
<1>2. EntryOK(entry) /\ entry.state \in {"Compatible", "Rejected"}
  BY AfterHelloOK DEF IInv, RecordsOK
<1>3. players' = [players EXCEPT ![p] = entry]
  BY DEF ReceiveHello, HandleHello, IInv, RecordsOK
<1>4. \A q \in Players \ {p} : q \in connected' <=> q \in connected
  BY DEF ReceiveHello, hostVars
<1>5. ASSUME NEW session, SessionOK(session),
             sessions' = [sessions EXCEPT ![p] = session],
             entry.state = "Compatible" => session.state # "Unknown"
      PROVE  IInv'
  <2>1. PairOK(entry, session, p \in connected')
    BY <1>1, <1>2, <1>5 DEF PairOK
  <2> QED BY <1>1, <1>2, <1>3, <1>4, <1>5, <2>1, OnePlayerChanges DEF IInv, HostOK
<1>6. CASE UNCHANGED sessions
  <2>1. SessionOK(sessions[p]) /\ sessions' = [sessions EXCEPT ![p] = sessions[p]]
    BY <1>6 DEF IInv, RecordsOK
  <2>2. entry.state = "Compatible" => sessions[p].state # "Unknown"
    BY CompatibleWasPending DEF IInv, SessionFollowsHandshake
  <2> QED BY <1>5, <2>1, <2>2
<1>7. ASSUME NEW delivered, NEW first, OnPlayerCompatible(p, first, delivered)
      PROVE  IInv'
  <2>1. RegistryOK(registry)
    BY DEF IInv, HostOK
  <2>2. sessions' = [sessions EXCEPT ![p] = AfterStream(registry, delivered)]
    BY <1>7 DEF OnPlayerCompatible
  <2> QED BY <1>5, <2>1, <2>2, AfterStreamOK
<1> QED BY <1>6, <1>7 DEF ReceiveHello

(* A frame of the wrong shape rejects the player and leaves its session.    *)
LEMMA MisshapenKeeps ==
  ASSUME IInv, NEW p \in Players, ReceiveMisshapen(p)
  PROVE  IInv'
<1> DEFINE entry == Entry("Rejected", "MalformedHandshake")
<1>1. HostOK' /\ p \in connected'
  BY DEF IInv, HostOK, RegistryOK, RegistryGood, ReceiveMisshapen, Receiving
<1>2. EntryOK(entry)
  BY FreshEntriesOK DEF RejectReasons
<1>3. SessionOK(sessions[p]) /\ sessions' = [sessions EXCEPT ![p] = sessions[p]]
  BY DEF IInv, RecordsOK, ReceiveMisshapen
<1>4. PairOK(entry, sessions[p], p \in connected')
  BY <1>1 DEF PairOK, Entry
<1>5. /\ players' = [players EXCEPT ![p] = entry]
      /\ \A q \in Players \ {p} : q \in connected' <=> q \in connected
  BY DEF ReceiveMisshapen, RejectPlayer
<1> QED BY <1>1, <1>2, <1>3, <1>4, <1>5, OnePlayerChanges DEF IInv, HostOK

(* A report changes the player's session only, and opens none.              *)
LEMMA MessageKeeps ==
  ASSUME IInv, NEW p \in Players, NEW message, ReceiveMessage(p, message)
  PROVE  IInv'
<1> DEFINE session == AfterMessage(sessions[p], message)
<1>1. HostOK' /\ p \in connected'
  BY DEF IInv, HostOK, RegistryOK, RegistryGood, ReceiveMessage, Receiving, hostVars
<1>2. /\ SessionOK(session)
      /\ \/ session = sessions[p]
         \/ AcceptsReports(sessions[p]) /\ AcceptsReports(session)
  BY AfterMessageOK DEF IInv, RecordsOK
<1>3. /\ sessions' = [sessions EXCEPT ![p] = session]
      /\ players' = [players EXCEPT ![p] = players[p]]
      /\ EntryOK(players[p])
      /\ \A q \in Players \ {p} : q \in connected' <=> q \in connected
  BY DEF IInv, RecordsOK, ReceiveMessage, HandleIncoming, hostVars
<1>4. PairOK(players[p], sessions[p], TRUE)
  BY DEF IInv, SessionFollowsHandshake, PairOK
<1>5. PairOK(players[p], session, p \in connected')
  BY <1>1, <1>2, <1>4 DEF PairOK, AcceptsReports
<1> QED BY <1>1, <1>2, <1>3, <1>5, OnePlayerChanges DEF IInv, HostOK

(* A frame that does not decode only marks the player.                      *)
LEMMA UndecodableKeeps ==
  ASSUME IInv, NEW p \in Players, ReceiveUndecodable(p)
  PROVE  IInv'
BY DEF IInv, RecordsOK, HostOK, RegistryOK, RegistryGood, SessionFollowsHandshake, ReceiveUndecodable

-----------------------------------------------------------------------------
(* An unloaded component knows nobody and publishes nothing.                *)
LEMMA InitHolds == Init => IInv
<1> SUFFICES ASSUME Init PROVE IInv
  OBVIOUS
<1> USE DEF Init, TrackerInit, RegistryInit, PublicationInit
<1>1. Untracked.state = "Unknown" /\ NoSession.state = "Unknown"
  BY DEF Untracked, Entry, NoSession, Session
<1>2. \A p \in Players : players[p] = Untracked /\ sessions[p] = NoSession
  OBVIOUS
<1>3. RecordsOK
  BY <1>2, FreshEntriesOK, FreshSessionsOK DEF RecordsOK, EntryOK, SessionOK
<1>4. HostOK
  BY EmptyRegistryOK DEF HostOK, Phases
<1>5. SessionFollowsHandshake
  BY <1>1, <1>2 DEF SessionFollowsHandshake
<1> QED BY <1>3, <1>4, <1>5 DEF IInv

(* Every handler keeps the invariant.                                       *)
LEMMA NextKeeps == IInv /\ [Next]_vars => IInv'
<1> SUFFICES ASSUME IInv, [Next]_vars PROVE IInv'
  OBVIOUS
<1>1. CASE \/ OnLoadAttach
           \/ \E asset \in Lines : OnLoadLine(asset)
           \/ OnLoadUnreadable
           \/ OnLoadRegister
  BY <1>1, LoadKeeps
<1>2. CASE Reset \/ Free
  BY <1>2, ResetKeeps
<1>3. ASSUME NEW p \in Players, OnPlayerConnect(p) \/ OnPlayerDisconnect(p)
      PROVE  IInv'
  BY <1>3, ConnectionKeeps
<1>4. ASSUME NEW p \in Players, NEW hello \in Hellos, ReceiveHello(p, hello)
      PROVE  IInv'
  BY <1>4, HelloKeeps
<1>5. ASSUME NEW p \in Players, ReceiveMisshapen(p)
      PROVE  IInv'
  BY <1>5, MisshapenKeeps
<1>6. ASSUME NEW p \in Players, ReceiveUndecodable(p)
      PROVE  IInv'
  BY <1>6, UndecodableKeeps
<1>7. ASSUME NEW p \in Players, NEW message \in Reports, ReceiveMessage(p, message)
      PROVE  IInv'
  BY <1>7, MessageKeeps
<1>8. CASE UNCHANGED vars
  BY <1>8
  DEF vars, hostVars, IInv, RecordsOK, HostOK, RegistryOK, RegistryGood, SessionFollowsHandshake
<1> QED BY <1>1, <1>2, <1>3, <1>4, <1>5, <1>6, <1>7, <1>8 DEF Next

(* The records of the component are consistent in every reachable state,    *)
(* however the host interleaves connects, resets and client messages.       *)
THEOREM InvariantHolds == Spec => []IInv
BY InitHolds, NextKeeps, PTL DEF Spec

(* Every entry and every session has its declared shape, and a reject       *)
(* reason is stored exactly in the Rejected state (player_capabilities.cpp). *)
THEOREM TypeCorrect == Spec => []TypeOK
<1>1. IInv => TypeOK
  BY DEF IInv, RecordsOK, HostOK, EntryOK, TypeOK, TrackerTypeOK, PublicationTypeOK
<1> QED BY <1>1, InvariantHolds, PTL

(* AssetsReady, decided by comparing two sizes in HandleIncoming            *)
(* (asset_publication.cpp), means that every announced asset is ready.      *)
THEOREM BooksBalance == Spec => []ReportsAddUp
<1>1. IInv => ReportsAddUp
  BY DEF IInv, RecordsOK, SessionOK, ReportsAddUp
<1> QED BY <1>1, InvariantHolds, PTL

(* The tracker and the publication, two maps keyed by player id and written *)
(* by every event handler of component.cpp, stay in step.                   *)
THEOREM MapsStayInStep == Spec => []SessionFollowsHandshake
<1>1. IInv => SessionFollowsHandshake
  BY DEF IInv
<1> QED BY <1>1, InvariantHolds, PTL

-----------------------------------------------------------------------------
(* A frame and a run of frames behind those already sent.                   *)
Behind(frames, first, run) == frames \o (<<first>> \o run)

(* What is where then.                                                      *)
LEMMA BehindPlaces ==
  ASSUME NEW frames, IsSequence(frames), NEW first, NEW run, IsSequence(run)
  PROVE  /\ IsSequence(Behind(frames, first, run))
         /\ Len(frames) \in Nat /\ DOMAIN frames = 1..Len(frames)
         /\ Len(run) \in Nat /\ DOMAIN run = 1..Len(run)
         /\ DOMAIN Behind(frames, first, run) = 1..(Len(frames) + (1 + Len(run)))
         /\ \A n \in DOMAIN frames :
              /\ n \in DOMAIN Behind(frames, first, run)
              /\ Behind(frames, first, run)[n] = frames[n]
         /\ Len(frames) + 1 \in DOMAIN Behind(frames, first, run)
         /\ Behind(frames, first, run)[Len(frames) + 1] = first
         /\ \A n \in DOMAIN run :
              /\ Len(frames) + 1 + n \in DOMAIN Behind(frames, first, run)
              /\ Behind(frames, first, run)[Len(frames) + 1 + n] = run[n]
         /\ \A n \in DOMAIN Behind(frames, first, run) :
              \/ n \in DOMAIN frames
              \/ n = Len(frames) + 1
              \/ \E k \in DOMAIN run : n = Len(frames) + 1 + k
<1> DEFINE block == <<first>> \o run
           sent == frames \o block
           past == Len(frames)
           size == Len(run)
<1>1. IsSequence(<<first>>) /\ Len(<<first>>) = 1 /\ <<first>>[1] = first
  BY Alone
<1>2. /\ IsSequence(block) /\ Len(block) = 1 + size
      /\ past \in Nat /\ size \in Nat
      /\ DOMAIN frames = 1..past /\ DOMAIN run = 1..size
      /\ \A n \in 1..(1 + size) :
           block[n] = IF n <= 1 THEN <<first>>[n] ELSE run[n - 1]
  BY <1>1, Joined
<1> HIDE DEF block
<1>3. /\ IsSequence(sent)
      /\ DOMAIN sent = 1..(past + (1 + size))
      /\ \A n \in 1..(past + (1 + size)) :
           sent[n] = IF n <= past THEN frames[n] ELSE block[n - past]
  <2>1. IsSequence(block) /\ Len(block) = 1 + size
    BY <1>2
  <2>2. /\ IsSequence(frames \o block)
        /\ DOMAIN (frames \o block) = 1..(past + Len(block))
        /\ \A n \in 1..(past + Len(block)) :
             (frames \o block)[n] = IF n <= past THEN frames[n] ELSE block[n - past]
    BY <2>1, Joined, Zenon
  <2> HIDE DEF past, size
  <2> QED BY <2>1, <2>2
<1> HIDE DEF sent, past, size
<1>4. \A n \in DOMAIN frames : n \in DOMAIN sent /\ sent[n] = frames[n]
  BY <1>2, <1>3
<1>5. past + 1 \in DOMAIN sent /\ sent[past + 1] = first
  BY <1>1, <1>2, <1>3
<1>6. \A n \in DOMAIN run : past + 1 + n \in DOMAIN sent /\ sent[past + 1 + n] = run[n]
  BY <1>2, <1>3
<1>7. \A n \in DOMAIN sent :
        \/ n \in DOMAIN frames
        \/ n = past + 1
        \/ \E k \in DOMAIN run : n = past + 1 + k
  <2> TAKE n \in DOMAIN sent
  <2>1. CASE n > past + 1
    <3>1. n - (past + 1) \in 1..size /\ n = past + 1 + (n - (past + 1))
      BY <1>2, <1>3, <2>1
    <3> QED BY <1>2, <3>1
  <2> QED BY <1>2, <1>3, <2>1
<1>8. Behind(frames, first, run) = sent
  BY DEF Behind, sent, block
<1> QED BY <1>2, <1>3, <1>4, <1>5, <1>6, <1>7, <1>8 DEF past, size

(* What an answer can be.                                                   *)
IsAnswer(frame) == frame.type \in {"Welcome", "Reject"}

-----------------------------------------------------------------------------
(* What holds of the frames of one connection, whatever the tracker knows.  *)
Carries(frames, type) == \E n \in DOMAIN frames : frames[n].type = type

RejectsLast(frames) ==
  \A early, late \in DOMAIN frames :
    early < late /\ frames[early].type = "Reject" => frames[late].type = "Reject"

StreamsFollow(frames) ==
  \A n \in DOMAIN frames :
    /\ frames[n].type = "ManifestBegin" => n > 1 /\ frames[n - 1].type = "Welcome"
    /\ frames[n].type \in {"ManifestAsset", "ManifestEnd"} =>
         n > 1 /\ IsManifestMessage(frames[n - 1])

(* What an accepted Hello is granted.                                       *)
IsGrant(capabilities) ==
  \E hello \in Hellos : FirstFailure(hello) = NoReason /\ capabilities = Negotiated(hello)

(* The connection's identity: every Welcome of it grants the same, and a    *)
(* compatible player has exactly that.                                      *)
OneGrant(entry, frames) ==
  \A n \in DOMAIN frames :
    frames[n].type = "Welcome" =>
      /\ IsGrant(frames[n].capabilities)
      /\ \A k \in DOMAIN frames :
           frames[k].type = "Welcome" => frames[k].capabilities = frames[n].capabilities
      /\ entry.state = "Compatible" => entry.negotiated = frames[n].capabilities

(* The invariant of one player's entry and channel: nothing is sent while   *)
(* the handshake is pending, and after a Reject the player is rejected or,  *)
(* once reset() has emptied the map, unknown.                               *)
ChannelOK(entry, frames) ==
  /\ IsSequence(frames)
  /\ entry.state = "HandshakePending" => frames = <<>>
  /\ Carries(frames, "Reject") => entry.state \in {"Unknown", "Rejected"}
  /\ entry.state = "Compatible" => IsGrant(entry.negotiated)
  /\ RejectsLast(frames)
  /\ StreamsFollow(frames)
  /\ OneGrant(entry, frames)

(* A new connection starts with an empty channel.                           *)
LEMMA EmptyChannelOK ==
  ASSUME NEW entry, entry.state # "Compatible"
  PROVE  ChannelOK(entry, <<>>)
<1>1. <<>> \in Seq({}) /\ DOMAIN <<>> = {}
  OBVIOUS
<1> QED BY <1>1
        DEF ChannelOK, IsSequence, Carries, RejectsLast, StreamsFollow, OneGrant

(* Sending nothing is fine as long as the new entry is settled in the way   *)
(* the old frames ask for.                                                  *)
LEMMA QuietOK ==
  ASSUME NEW before, NEW after, NEW frames, ChannelOK(before, frames),
         \/ after.state = "Unknown"
         \/ after.state = "Rejected"
         \/ /\ after.state = "Compatible"
            /\ IsGrant(after.negotiated)
            /\ \/ before.state = "HandshakePending"
               \/ before.state = "Compatible" /\ after.negotiated = before.negotiated
  PROVE  ChannelOK(after, frames)
<1>1. DOMAIN <<>> = {}
  OBVIOUS
<1> QED BY <1>1
        DEF ChannelOK, Carries, OneGrant

(* A Welcome, alone or with the stream behind it, goes to a compatible      *)
(* player, who has never been sent a Reject.                                *)
LEMMA WelcomeOK ==
  ASSUME NEW entry, NEW frames, ChannelOK(entry, frames), entry.state = "Compatible",
         NEW stream, IsStream(stream)
  PROVE  ChannelOK(entry, frames \o (<<Response(entry)>> \o stream))
<1> DEFINE welcome == Response(entry)
           sent == Behind(frames, welcome, stream)
           past == Len(frames)
           size == Len(stream)
<1>1. IsSequence(frames) /\ IsSequence(stream)
  BY DEF ChannelOK, IsStream
<1>2. welcome.type = "Welcome" /\ welcome.capabilities = entry.negotiated
  BY DEF Response
<1> HIDE DEF welcome
<1>3. IsSequence(sent)
  BY <1>1, BehindPlaces
<1>4. past \in Nat /\ DOMAIN frames = 1..past /\ size \in Nat /\ DOMAIN stream = 1..size
  BY <1>1, BehindPlaces
<1>6. \A n \in DOMAIN frames : n \in DOMAIN sent /\ sent[n] = frames[n]
  BY <1>1, BehindPlaces
<1>7. past + 1 \in DOMAIN sent /\ sent[past + 1] = welcome
  BY <1>1, BehindPlaces
<1>8. \A n \in DOMAIN stream : past + 1 + n \in DOMAIN sent /\ sent[past + 1 + n] = stream[n]
  BY <1>1, BehindPlaces
<1>9. \A n \in DOMAIN sent :
        \/ n \in DOMAIN frames
        \/ n = past + 1
        \/ \E k \in DOMAIN stream : n = past + 1 + k
  BY <1>1, BehindPlaces
<1> HIDE DEF sent, past, size
<1>10. \A n \in DOMAIN stream : sent[past + 1 + n].type \notin {"Welcome", "Reject"}
  BY <1>8 DEF IsStream, IsManifestMessage
<1>11. ~Carries(frames, "Reject")
  BY DEF ChannelOK
<1>12. \A n \in DOMAIN sent : sent[n].type # "Reject"
  BY <1>2, <1>6, <1>7, <1>9, <1>10, <1>11 DEF Carries
<1>13. ~Carries(sent, "Reject") /\ RejectsLast(sent)
  BY <1>12 DEF Carries, RejectsLast
<1>14. \A n \in DOMAIN sent : sent[n].type = "Welcome" => n \in DOMAIN frames \/ n = past + 1
  BY <1>9, <1>10
<1>15. OneGrant(entry, sent)
  BY <1>2, <1>6, <1>7, <1>14 DEF ChannelOK, OneGrant
<1>16. StreamsFollow(sent)
  <2> DEFINE Follows(n) ==
               /\ sent[n].type = "ManifestBegin" => n > 1 /\ sent[n - 1].type = "Welcome"
               /\ sent[n].type \in {"ManifestAsset", "ManifestEnd"} =>
                    n > 1 /\ IsManifestMessage(sent[n - 1])
  <2> SUFFICES ASSUME NEW n \in DOMAIN sent PROVE Follows(n)
    BY DEF StreamsFollow
  <2>1. CASE n \in DOMAIN frames
    <3>1. n > 1 => n - 1 \in DOMAIN frames
      BY <1>4, <2>1
    <3> QED BY <1>6, <2>1, <3>1 DEF ChannelOK, StreamsFollow
  <2>2. CASE n = past + 1
    <3>1. sent[n].type = "Welcome"
      BY <1>2, <1>7, <2>2
    <3> QED BY <3>1
  <2>3. ASSUME NEW k \in DOMAIN stream, n = past + 1 + k
        PROVE  Follows(n)
    <3>1. n > 1 /\ (k = 1 => n - 1 = past + 1) /\ (k # 1 => k - 1 \in DOMAIN stream)
      BY <1>4, <2>3
    <3>2. sent[n] = stream[k] /\ (stream[k].type = "ManifestBegin" <=> k = 1)
      BY <1>8, <2>3 DEF IsStream
    <3>3. CASE k = 1
      <4>1. sent[n - 1].type = "Welcome" /\ sent[n].type = "ManifestBegin"
        BY <1>2, <1>7, <3>1, <3>2, <3>3
      <4> QED BY <3>1, <4>1
    <3>4. CASE k # 1
      <4>1. n - 1 = past + 1 + (k - 1)
        BY <1>4, <2>3
      <4>2. IsManifestMessage(sent[n - 1])
        BY <1>8, <3>1, <3>4, <4>1 DEF IsStream
      <4> QED BY <3>1, <3>2, <3>4, <4>2
    <3> QED BY <3>3, <3>4
  <2> HIDE DEF Follows
  <2> QED BY <1>9, <2>1, <2>2, <2>3
<1>17. ChannelOK(entry, sent)
  BY <1>3, <1>13, <1>15, <1>16 DEF ChannelOK
<1> QED BY <1>17 DEF sent, welcome, Behind

(* A Reject goes to a rejected player, and nothing but Rejects came after   *)
(* an earlier one.                                                          *)
LEMMA RejectOK ==
  ASSUME NEW entry, NEW frames, ChannelOK(entry, frames), entry.state = "Rejected",
         NEW reason
  PROVE  ChannelOK(entry, frames \o <<[type |-> "Reject", reason |-> reason]>>)
<1> DEFINE reject == [type |-> "Reject", reason |-> reason]
           sent == frames \o <<reject>>
           past == Len(frames)
<1>1. reject.type = "Reject"
  OBVIOUS
<1> HIDE DEF reject
<1>2. IsSequence(<<reject>>) /\ Len(<<reject>>) = 1 /\ <<reject>>[1] = reject
  BY Alone
<1>3. /\ IsSequence(sent)
      /\ past \in Nat /\ DOMAIN frames = 1..past /\ DOMAIN sent = 1..(past + 1)
      /\ \A n \in 1..(past + 1) :
           sent[n] = IF n <= past THEN frames[n] ELSE <<reject>>[n - past]
  BY <1>2, Joined DEF ChannelOK
<1> HIDE DEF sent, past
<1>4. \A n \in DOMAIN frames : n \in DOMAIN sent /\ sent[n] = frames[n]
  BY <1>3
<1>5. sent[past + 1] = reject
  BY <1>2, <1>3
<1>6. \A n \in DOMAIN sent : n \in DOMAIN frames \/ n = past + 1
  BY <1>3
<1>7. RejectsLast(sent)
  <2> SUFFICES ASSUME NEW early \in DOMAIN sent, NEW late \in DOMAIN sent,
                      early < late, sent[early].type = "Reject"
               PROVE  sent[late].type = "Reject"
    BY DEF RejectsLast
  <2>1. early \in DOMAIN frames
    BY <1>3
  <2>2. CASE late \in DOMAIN frames
    BY <1>4, <2>1, <2>2 DEF ChannelOK, RejectsLast
  <2>3. CASE late = past + 1
    BY <1>1, <1>5, <2>3
  <2> QED BY <1>6, <2>2, <2>3
<1>8. StreamsFollow(sent)
  <2> SUFFICES ASSUME NEW n \in DOMAIN sent
               PROVE  /\ sent[n].type = "ManifestBegin" => n > 1 /\ sent[n - 1].type = "Welcome"
                      /\ sent[n].type \in {"ManifestAsset", "ManifestEnd"} =>
                           n > 1 /\ IsManifestMessage(sent[n - 1])
    BY DEF StreamsFollow
  <2>1. CASE n \in DOMAIN frames
    <3>1. n > 1 => n - 1 \in DOMAIN frames
      BY <1>3, <2>1
    <3> QED BY <1>4, <2>1, <3>1 DEF ChannelOK, StreamsFollow
  <2>2. CASE n = past + 1
    <3>1. sent[n].type = "Reject"
      BY <1>1, <1>5, <2>2
    <3> QED BY <3>1
  <2> QED BY <1>6, <2>1, <2>2
<1>9. \A n \in DOMAIN sent : sent[n].type = "Welcome" => n \in DOMAIN frames
  BY <1>1, <1>5, <1>6
<1>10. OneGrant(entry, sent)
  BY <1>4, <1>9 DEF ChannelOK, OneGrant
<1>11. ChannelOK(entry, sent)
  BY <1>3, <1>7, <1>8, <1>10 DEF ChannelOK
<1> QED BY <1>11 DEF sent, reject

-----------------------------------------------------------------------------
(* The invariant of all the channels.                                       *)
ChannelsOK ==
  /\ outbox = [p \in Players |-> outbox[p]]
  /\ \A p \in Players : ChannelOK(players[p], outbox[p])

(* Every handler writes one player's entry and channel at most.             *)
LEMMA OneChannelChanges ==
  ASSUME IInv, ChannelsOK, NEW p \in Players, NEW entry, NEW frames,
         players' = [players EXCEPT ![p] = entry],
         outbox' = [outbox EXCEPT ![p] = frames],
         ChannelOK(entry, frames)
  PROVE  ChannelsOK'
<1>1. players'[p] = entry /\ outbox'[p] = frames
  BY DEF IInv, RecordsOK, ChannelsOK
<1>2. \A q \in Players \ {p} : players'[q] = players[q] /\ outbox'[q] = outbox[q]
  BY DEF IInv, RecordsOK, ChannelsOK
<1>3. outbox' = [q \in Players |-> outbox'[q]]
  BY DEF ChannelsOK
<1>4. ASSUME NEW q \in Players PROVE ChannelOK(players'[q], outbox'[q])
  <2>1. CASE q = p
    BY <1>1, <2>1
  <2>2. CASE q # p
    BY <1>2, <2>2 DEF ChannelsOK
  <2> QED BY <2>1, <2>2
<1> QED BY <1>3, <1>4 DEF ChannelsOK

(* A Hello's verdict in terms of the frames already sent.                   *)
LEMMA VerdictOK ==
  ASSUME NEW entry, EntryOK(entry), NEW hello \in Hellos,
         NEW frames, ChannelOK(entry, frames)
  PROVE  ChannelOK(AfterHello(entry, hello), frames)
<1> DEFINE after == AfterHello(entry, hello)
<1>1. CASE IsSettled(entry, hello)
  BY <1>1 DEF AfterHello
<1>2. CASE ~IsSettled(entry, hello)
  <2>1. after = Judged(hello, Refusal(entry, hello))
    BY <1>2 DEF AfterHello
  <2>2. after.state \in {"Compatible", "Rejected"}
    BY AfterHelloOK
  <2>3. ASSUME after.state = "Compatible"
        PROVE  /\ IsGrant(after.negotiated)
               /\ entry.state = "HandshakePending"
    <3>1. Refusal(entry, hello) = NoReason
      BY <2>1, <2>3 DEF Judged
    <3>2. entry.state = "HandshakePending" /\ FirstFailure(hello) = NoReason
      BY <3>1 DEF Refusal, NoReason
    <3>3. after.negotiated = Negotiated(hello)
      BY <2>1, <3>1 DEF Judged
    <3> QED BY <3>2, <3>3 DEF IsGrant
  <2> HIDE DEF after
  <2>4. ChannelOK(after, frames)
    BY <2>2, <2>3, QuietOK
  <2> QED BY <2>4 DEF after
<1> QED BY <1>1, <1>2

(* A Hello: the answer, and the manifest behind a Welcome, fit the verdict. *)
LEMMA HelloKeepsChannels ==
  ASSUME IInv, ChannelsOK, NEW p \in Players, NEW hello \in Hellos, ReceiveHello(p, hello)
  PROVE  ChannelsOK'
<1> DEFINE entry == AfterHello(players[p], hello)
           answer == Response(entry)
<1>1. ChannelOK(entry, outbox[p])
  BY VerdictOK DEF IInv, RecordsOK, ChannelsOK
<1>2. entry.state \in {"Compatible", "Rejected"}
  BY AfterHelloOK DEF IInv, RecordsOK
<1>3. players' = [players EXCEPT ![p] = entry]
  BY DEF ReceiveHello, HandleHello, IInv, RecordsOK
<1>4. entry.state = "Rejected" => answer = [type |-> "Reject", reason |-> entry.reason]
  BY DEF Response
<1>5. answer.type = "Welcome" => entry.state = "Compatible"
  BY <1>2, <1>4
<1>6. \/ UNCHANGED outbox
      \/ Transmit(p, <<answer>>)
      \/ answer.type = "Welcome" /\ \E delivered : OnPlayerCompatible(p, <<answer>>, delivered)
  BY DEF ReceiveHello
<1> HIDE DEF entry
<1>7. CASE UNCHANGED outbox
  <2>1. outbox' = [outbox EXCEPT ![p] = outbox[p]]
    BY <1>7 DEF ChannelsOK
  <2> QED BY <1>1, <1>3, <2>1, OneChannelChanges
<1>8. CASE Transmit(p, <<answer>>)
  <2>1. outbox' = [outbox EXCEPT ![p] = outbox[p] \o <<answer>>]
    BY <1>8 DEF Transmit, ChannelsOK
  <2>2. CASE entry.state = "Compatible"
    <3>1. IsStream(<<>>)
      BY DEF IsStream, IsSequence
    <3>2. <<answer>> \o <<>> = <<answer>>
      BY ConcatEmptySeq, Alone DEF IsSequence
    <3>3. ChannelOK(entry, outbox[p] \o (<<answer>> \o <<>>))
      BY <1>1, <2>2, <3>1, WelcomeOK
    <3> QED BY <1>3, <2>1, <3>2, <3>3, OneChannelChanges
  <2>3. CASE entry.state = "Rejected"
    <3>1. ChannelOK(entry, outbox[p] \o <<answer>>)
      BY <1>1, <1>4, <2>3, RejectOK
    <3> QED BY <1>3, <2>1, <3>1, OneChannelChanges
  <2> QED BY <1>2, <2>2, <2>3
<1>9. ASSUME answer.type = "Welcome", NEW delivered, OnPlayerCompatible(p, <<answer>>, delivered)
      PROVE  ChannelsOK'
  <2> DEFINE stream == SubSeq(ManifestStream(BuildManifest(registry)), 1, delivered)
  <2>1. IsStream(stream)
    BY <1>9, StreamShape, PartOfStream
       DEF OnPlayerCompatible, IInv, HostOK, RegistryOK, RegistryGood
  <2>2. outbox' = [outbox EXCEPT ![p] = outbox[p] \o (<<answer>> \o stream)]
    BY <1>9 DEF OnPlayerCompatible, Transmit, ChannelsOK
  <2> HIDE DEF stream
  <2>3. ChannelOK(entry, outbox[p] \o (<<answer>> \o stream))
    BY <1>1, <1>5, <1>9, <2>1, WelcomeOK
  <2> QED BY <1>3, <2>2, <2>3, OneChannelChanges
<1> QED BY <1>6, <1>7, <1>8, <1>9

(* A frame of the wrong shape: the player is rejected, told or not.         *)
LEMMA MisshapenKeepsChannels ==
  ASSUME IInv, ChannelsOK, NEW p \in Players, ReceiveMisshapen(p)
  PROVE  ChannelsOK'
<1> DEFINE entry == Entry("Rejected", "MalformedHandshake")
           reject == [type |-> "Reject", reason |-> "MalformedHandshake"]
<1>1. entry.state = "Rejected"
  BY DEF Entry
<1>2. players' = [players EXCEPT ![p] = entry]
  BY DEF ReceiveMisshapen, RejectPlayer
<1>3. \/ outbox' = [outbox EXCEPT ![p] = outbox[p]]
      \/ outbox' = [outbox EXCEPT ![p] = outbox[p] \o <<reject>>]
  BY DEF ReceiveMisshapen, Transmit, ChannelsOK
<1> HIDE DEF entry
<1>4. ChannelOK(entry, outbox[p])
  BY <1>1, QuietOK DEF ChannelsOK
<1>5. ChannelOK(entry, outbox[p] \o <<reject>>)
  BY <1>1, <1>4, RejectOK
<1> QED BY <1>2, <1>3, <1>4, <1>5, OneChannelChanges

(* The connect and disconnect events start over with an empty channel.      *)
LEMMA ConnectionKeepsChannels ==
  ASSUME IInv, ChannelsOK, NEW p \in Players, OnPlayerConnect(p) \/ OnPlayerDisconnect(p)
  PROVE  ChannelsOK'
<1>1. PICK entry \in {Entry("HandshakePending", NoReason), Untracked} :
        players' = [players EXCEPT ![p] = entry]
  BY DEF OnPlayerConnect, OnPlayerDisconnect, BeginHandshake, RemovePlayer
<1>2. entry.state # "Compatible"
  BY DEF Entry, Untracked
<1>3. outbox' = [outbox EXCEPT ![p] = <<>>]
  BY DEF OnPlayerConnect, OnPlayerDisconnect, ForgetChannel
<1> QED BY <1>1, <1>2, <1>3, EmptyChannelOK, OneChannelChanges

(* reset() and free() forget every entry and take no frame back.            *)
LEMMA ResetKeepsChannels ==
  ASSUME ChannelsOK, Reset \/ Free
  PROVE  ChannelsOK'
<1>1. outbox' = outbox /\ players' = [p \in Players |-> Untracked]
  BY DEF Reset, Free, TrackerReset
<1>2. Untracked.state = "Unknown"
  BY DEF Untracked, Entry
<1>3. ASSUME NEW p \in Players PROVE ChannelOK(players'[p], outbox'[p])
  BY <1>1, <1>2, QuietOK DEF ChannelsOK
<1> QED BY <1>1, <1>3 DEF ChannelsOK

(* Every handler keeps the channels in order.                               *)
LEMMA NextKeepsChannels == IInv /\ ChannelsOK /\ [Next]_vars => ChannelsOK'
<1> SUFFICES ASSUME IInv, ChannelsOK, [Next]_vars PROVE ChannelsOK'
  OBVIOUS
<1>1. CASE UNCHANGED <<players, outbox>>
  BY <1>1 DEF ChannelsOK
<1>2. CASE Reset \/ Free
  BY <1>2, ResetKeepsChannels
<1>3. ASSUME NEW p \in Players, OnPlayerConnect(p) \/ OnPlayerDisconnect(p)
      PROVE  ChannelsOK'
  BY <1>3, ConnectionKeepsChannels
<1>4. ASSUME NEW p \in Players, NEW hello \in Hellos, ReceiveHello(p, hello)
      PROVE  ChannelsOK'
  BY <1>4, HelloKeepsChannels
<1>5. ASSUME NEW p \in Players, ReceiveMisshapen(p)
      PROVE  ChannelsOK'
  BY <1>5, MisshapenKeepsChannels
<1>6. ASSUME \/ OnLoadAttach
             \/ \E asset \in Lines : OnLoadLine(asset)
             \/ OnLoadUnreadable
             \/ OnLoadRegister
             \/ \E p \in Players : \/ ReceiveUndecodable(p)
                                   \/ \E message \in Reports : ReceiveMessage(p, message)
             \/ UNCHANGED vars
      PROVE  UNCHANGED <<players, outbox>>
  BY <1>6 DEF OnLoadAttach, OnLoadLine, OnLoadUnreadable, OnLoadRegister,
              ReceiveUndecodable, ReceiveMessage, vars
<1> QED BY <1>1, <1>2, <1>3, <1>4, <1>5, <1>6 DEF Next

-----------------------------------------------------------------------------
(* The manifest on a connection.                                            *)

(* What holds of a connection's frames and its session: nothing is sent     *)
(* before the connect event, the stream of a session that could still take  *)
(* one has not begun, and what was sent of it is a run.                     *)
SentOK(stream, frames, session, known) ==
  /\ known \/ frames = <<>>
  /\ IsPublishable(session) => \A n \in DOMAIN frames : ~IsManifestMessage(frames[n])
  /\ \E start \in 0..Len(frames), size \in 0..Len(stream) :
       /\ HoldsRun(frames, stream, start, size)
       /\ AcceptsReports(session) => size = Len(stream)

Stream == ManifestStream(BuildManifest(registry))

(* The registry changes only while nobody is connected.                     *)
RunsOK ==
  /\ phase \in {"Unloaded", "Loading"} => connected = {}
  /\ \A p \in Players : SentOK(Stream, outbox[p], sessions[p], p \in connected)

(* An empty channel has sent no part of any stream.                         *)
LEMMA EmptyRunOK ==
  ASSUME NEW stream, IsSequence(stream), NEW session, ~AcceptsReports(session),
         NEW known
  PROVE  SentOK(stream, <<>>, session, known)
<1>1. /\ Len(stream) \in Nat /\ Len(<<>>) = 0 /\ DOMAIN <<>> = {}
  BY LenProperties DEF IsSequence
<1>2. HoldsRun(<<>>, stream, 0, 0)
  BY <1>1 DEF HoldsRun
<1>3. 0 \in 0..Len(<<>>) /\ 0 \in 0..Len(stream)
  BY <1>1
<1>4. \A n \in DOMAIN <<>> : ~IsManifestMessage(<<>>[n])
  BY <1>1
<1>5. \E start \in 0..Len(<<>>), size \in 0..Len(stream) :
        /\ HoldsRun(<<>>, stream, start, size)
        /\ AcceptsReports(session) => size = Len(stream)
  BY <1>2, <1>3
<1> QED BY <1>4, <1>5 DEF SentOK

(* A frame of another kind behind the others does not disturb the run.      *)
LEMMA AnswerKeepsRun ==
  ASSUME NEW stream, IsSequence(stream), NEW frames, IsSequence(frames), NEW session,
         SentOK(stream, frames, session, TRUE), NEW frame, ~IsManifestMessage(frame)
  PROVE  SentOK(stream, frames \o <<frame>>, session, TRUE)
<1> DEFINE sent == frames \o <<frame>>
           past == Len(frames)
<1>1. IsSequence(<<frame>>) /\ Len(<<frame>>) = 1 /\ <<frame>>[1] = frame
  BY Alone
<1>2. /\ past \in Nat /\ DOMAIN frames = 1..past
      /\ Len(sent) = past + 1 /\ DOMAIN sent = 1..(past + 1)
      /\ \A n \in 1..(past + 1) :
           sent[n] = IF n <= past THEN frames[n] ELSE <<frame>>[n - past]
  BY <1>1, Joined
<1> HIDE DEF sent, past
<1>3. /\ \A n \in DOMAIN frames : n \in DOMAIN sent /\ sent[n] = frames[n]
      /\ \A n \in DOMAIN sent : n \in DOMAIN frames \/ ~IsManifestMessage(sent[n])
  <2>1. sent[past + 1] = frame
    BY <1>1, <1>2
  <2> QED BY <1>2, <2>1
<1>4. PICK start \in 0..past, size \in 0..Len(stream) :
        /\ HoldsRun(frames, stream, start, size)
        /\ AcceptsReports(session) => size = Len(stream)
  BY DEF SentOK, past
<1>5. {n \in DOMAIN sent : IsManifestMessage(sent[n])}
        = {n \in DOMAIN frames : IsManifestMessage(frames[n])}
  BY <1>3
<1>6. Len(stream) \in Nat
  BY LenProperties DEF IsSequence
<1>7. \A k \in 1..size : start + k \in (start + 1)..(start + size)
  BY <1>2, <1>4, <1>6
<1>8. \A k \in 1..size : sent[start + k] = stream[k]
  BY <1>3, <1>4, <1>7 DEF HoldsRun
<1>9. HoldsRun(sent, stream, start, size) /\ start \in 0..Len(sent)
  BY <1>2, <1>4, <1>5, <1>8 DEF HoldsRun
<1>10. IsPublishable(session) => \A n \in DOMAIN sent : ~IsManifestMessage(sent[n])
  BY <1>3 DEF SentOK
<1>11. SentOK(stream, sent, session, TRUE)
  BY <1>4, <1>9, <1>10 DEF SentOK
<1> QED BY <1>11 DEF sent

(* A Welcome with a first part of the stream behind it starts the run.      *)
LEMMA StreamIsRun ==
  ASSUME NEW stream, IsStream(stream), NEW frames, IsSequence(frames),
         \A n \in DOMAIN frames : ~IsManifestMessage(frames[n]),
         NEW welcome, ~IsManifestMessage(welcome),
         NEW delivered \in 0..Len(stream), NEW session, ~IsPublishable(session),
         AcceptsReports(session) => delivered = Len(stream)
  PROVE  SentOK(stream, frames \o (<<welcome>> \o SubSeq(stream, 1, delivered)), session, TRUE)
<1> DEFINE part == SubSeq(stream, 1, delivered)
           sent == Behind(frames, welcome, part)
           past == Len(frames)
           size == Len(part)
<1>1. /\ IsStream(part) /\ size = delivered
      /\ \A n \in 1..delivered : part[n] = stream[n]
  BY PartOfStream
<1>2. IsSequence(part)
  BY <1>1 DEF IsStream
<1> HIDE DEF part
<1>3. /\ past \in Nat /\ DOMAIN frames = 1..past /\ size \in Nat /\ DOMAIN part = 1..size
      /\ DOMAIN sent = 1..(past + (1 + size)) /\ IsSequence(sent)
  BY <1>2, BehindPlaces
<1>4. /\ \A n \in DOMAIN frames : sent[n] = frames[n]
      /\ sent[past + 1] = welcome
      /\ \A k \in DOMAIN part : past + 1 + k \in DOMAIN sent /\ sent[past + 1 + k] = part[k]
  BY <1>2, BehindPlaces
<1>5. \A n \in DOMAIN sent :
        \/ n \in DOMAIN frames
        \/ n = past + 1
        \/ \E k \in DOMAIN part : n = past + 1 + k
  BY <1>2, BehindPlaces
<1> HIDE DEF sent, past, size
<1>6. Len(sent) = past + (1 + size)
  BY <1>3, LenProperties DEF IsSequence
<1>7. ASSUME NEW n \in DOMAIN sent
      PROVE  IsManifestMessage(sent[n]) <=> n \in (past + 1 + 1)..(past + 1 + size)
  <2>1. CASE n \in DOMAIN frames
    BY <1>3, <1>4, <2>1
  <2>2. CASE n = past + 1
    BY <1>3, <1>4, <2>2
  <2>3. ASSUME NEW k \in DOMAIN part, n = past + 1 + k
        PROVE  IsManifestMessage(sent[n]) /\ n \in (past + 1 + 1)..(past + 1 + size)
    BY <1>1, <1>3, <1>4, <2>3 DEF IsStream
  <2> QED BY <1>5, <2>1, <2>2, <2>3
<1>8. (past + 1 + 1)..(past + 1 + size) \subseteq DOMAIN sent
  BY <1>3
<1>9. {n \in DOMAIN sent : IsManifestMessage(sent[n])} = (past + 1 + 1)..(past + 1 + size)
  BY <1>7, <1>8
<1>10. HoldsRun(sent, stream, past + 1, delivered)
  BY <1>1, <1>3, <1>4, <1>9 DEF HoldsRun
<1>11. past + 1 \in 0..Len(sent)
  BY <1>3, <1>6
<1>12. SentOK(stream, sent, session, TRUE)
  BY <1>10, <1>11 DEF SentOK
<1> QED BY <1>12 DEF sent, part, Behind

(* Every handler writes one player's session and channel at most.           *)
LEMMA OneRunChanges ==
  ASSUME IInv, ChannelsOK, RunsOK, NEW p \in Players, NEW frames, NEW session,
         sessions' = [sessions EXCEPT ![p] = session],
         outbox' = [outbox EXCEPT ![p] = frames],
         registry' = registry, phase' = phase, phase = "Registered",
         \A q \in Players \ {p} : q \in connected' <=> q \in connected,
         SentOK(Stream, frames, session, p \in connected')
  PROVE  RunsOK'
<1>1. Stream' = Stream
  BY DEF Stream
<1>2. ASSUME NEW q \in Players
      PROVE  SentOK(Stream, outbox'[q], sessions'[q], q \in connected')
  <2>1. CASE q = p
    BY <2>1 DEF IInv, RecordsOK, ChannelsOK
  <2>2. CASE q # p
    <3>1. outbox'[q] = outbox[q] /\ sessions'[q] = sessions[q]
      BY <2>2 DEF IInv, RecordsOK, ChannelsOK
    <3>2. q \in connected' <=> q \in connected
      BY <2>2
    <3> QED BY <3>1, <3>2 DEF RunsOK, SentOK
  <2> QED BY <2>1, <2>2
<1>3. ASSUME NEW q \in Players
      PROVE  SentOK(Stream, outbox[q], sessions[q], q \in connected)'
  BY <1>1, <1>2 DEF SentOK
<1> QED BY <1>3 DEF RunsOK

(* A Hello: an answer leaves the run as it is, and a stream starts one that *)
(* the session says is whole only if it was sent to its end.                *)
LEMMA HelloKeepsRuns ==
  ASSUME IInv, ChannelsOK, RunsOK, NEW p \in Players, NEW hello \in Hellos,
         ReceiveHello(p, hello)
  PROVE  RunsOK'
<1> DEFINE answer == Response(AfterHello(players[p], hello))
<1>1. /\ p \in connected /\ connected' = connected
      /\ registry' = registry /\ phase' = phase /\ phase = "Registered"
  BY DEF ReceiveHello, Receiving, hostVars
<1>2. /\ IsStream(Stream) /\ Len(Stream) = Cardinality(registry.assets) + 2
      /\ IsSequence(Stream) /\ Len(Stream) \in Nat
  BY StreamShape, LenProperties DEF IInv, HostOK, RegistryOK, RegistryGood, Stream, IsStream, IsSequence
<1>3. ~IsManifestMessage(answer)
  BY DEF Response, IsManifestMessage
<1>4. IsSequence(outbox[p]) /\ SentOK(Stream, outbox[p], sessions[p], TRUE)
  BY <1>1 DEF ChannelsOK, ChannelOK, RunsOK, SentOK
<1>5. \/ UNCHANGED <<outbox, sessions>>
      \/ Transmit(p, <<answer>>) /\ UNCHANGED sessions
      \/ \E delivered : OnPlayerCompatible(p, <<answer>>, delivered)
  BY DEF ReceiveHello
<1> HIDE DEF answer
<1>6. CASE UNCHANGED <<outbox, sessions>>
  BY <1>1, <1>6 DEF RunsOK, SentOK, Stream
<1>7. CASE Transmit(p, <<answer>>) /\ UNCHANGED sessions
  <2>1. SentOK(Stream, outbox[p] \o <<answer>>, sessions[p], TRUE)
    BY <1>2, <1>3, <1>4, AnswerKeepsRun
  <2>2. /\ outbox' = [outbox EXCEPT ![p] = outbox[p] \o <<answer>>]
        /\ sessions' = [sessions EXCEPT ![p] = sessions[p]]
    BY <1>7 DEF Transmit, ChannelsOK, IInv, RecordsOK
  <2> QED BY <1>1, <2>1, <2>2, OneRunChanges DEF SentOK
<1>8. ASSUME NEW delivered, OnPlayerCompatible(p, <<answer>>, delivered)
      PROVE  RunsOK'
  <2> DEFINE session == AfterStream(registry, delivered)
             frames == outbox[p] \o (<<answer>> \o SubSeq(Stream, 1, delivered))
  <2>1. /\ IsPublishable(sessions[p])
        /\ delivered \in 0..Len(Stream)
        /\ sessions' = [sessions EXCEPT ![p] = session]
        /\ outbox' = [outbox EXCEPT ![p] = frames]
    BY <1>8 DEF OnPlayerCompatible, Transmit, ChannelsOK, Stream
  <2>2. ~IsPublishable(session) /\ (AcceptsReports(session) => delivered = Len(Stream))
    BY <1>2, <2>1 DEF AfterStream, IsPublishable, AcceptsReports
  <2>3. \A n \in DOMAIN outbox[p] : ~IsManifestMessage(outbox[p][n])
    BY <1>4, <2>1 DEF SentOK
  <2> HIDE DEF session
  <2>4. SentOK(Stream, frames, session, TRUE)
    BY <1>2, <1>3, <1>4, <2>1, <2>2, <2>3, StreamIsRun
  <2> HIDE DEF frames
  <2> QED BY <1>1, <2>1, <2>4, OneRunChanges DEF SentOK
<1> QED BY <1>5, <1>6, <1>7, <1>8

(* The other frames a client sends: a Reject at most, and no report opens a *)
(* session.                                                                 *)
LEMMA OtherFramesKeepRuns ==
  ASSUME IInv, ChannelsOK, RunsOK, NEW p \in Players,
         \/ ReceiveMisshapen(p)
         \/ ReceiveUndecodable(p)
         \/ \E message \in Reports : ReceiveMessage(p, message)
  PROVE  RunsOK'
<1> DEFINE reject == [type |-> "Reject", reason |-> "MalformedHandshake"]
<1>1. /\ p \in connected /\ connected' = connected
      /\ registry' = registry /\ phase' = phase /\ phase = "Registered"
  BY DEF ReceiveMisshapen, ReceiveUndecodable, ReceiveMessage, Receiving, hostVars
<1>2. IsSequence(Stream)
  BY StreamShape DEF IInv, HostOK, RegistryOK, RegistryGood, Stream, IsStream
<1>3. ~IsManifestMessage(reject)
  BY DEF IsManifestMessage
<1>4. IsSequence(outbox[p]) /\ SentOK(Stream, outbox[p], sessions[p], TRUE)
  BY <1>1 DEF ChannelsOK, ChannelOK, RunsOK, SentOK
<1>5. CASE UNCHANGED <<outbox, sessions>>
  BY <1>1, <1>5 DEF RunsOK, SentOK, Stream
<1>6. CASE Transmit(p, <<reject>>) /\ UNCHANGED sessions
  <2> HIDE DEF reject
  <2>1. SentOK(Stream, outbox[p] \o <<reject>>, sessions[p], TRUE)
    BY <1>2, <1>3, <1>4, AnswerKeepsRun
  <2>2. /\ outbox' = [outbox EXCEPT ![p] = outbox[p] \o <<reject>>]
        /\ sessions' = [sessions EXCEPT ![p] = sessions[p]]
    BY <1>6 DEF Transmit, ChannelsOK, IInv, RecordsOK
  <2> QED BY <1>1, <2>1, <2>2, OneRunChanges DEF SentOK
<1>7. ASSUME NEW message, ReceiveMessage(p, message)
      PROVE  RunsOK'
  <2> DEFINE session == AfterMessage(sessions[p], message)
  <2>1. session = sessions[p] \/ (AcceptsReports(sessions[p]) /\ AcceptsReports(session))
    BY AfterMessageOK DEF IInv, RecordsOK
  <2>2. /\ outbox' = [outbox EXCEPT ![p] = outbox[p]]
        /\ sessions' = [sessions EXCEPT ![p] = session]
    BY <1>7 DEF ReceiveMessage, HandleIncoming, ChannelsOK, IInv, RecordsOK
  <2> HIDE DEF session
  <2>3. SentOK(Stream, outbox[p], session, TRUE)
    BY <1>4, <2>1 DEF SentOK, AcceptsReports, IsPublishable
  <2> QED BY <1>1, <2>2, <2>3, OneRunChanges DEF SentOK
<1> QED BY <1>5, <1>6, <1>7 DEF ReceiveMisshapen, ReceiveUndecodable

(* Connecting and disconnecting start over.                                 *)
LEMMA ConnectionKeepsRuns ==
  ASSUME IInv, ChannelsOK, RunsOK, NEW p \in Players,
         OnPlayerConnect(p) \/ OnPlayerDisconnect(p)
  PROVE  RunsOK'
<1>1. PICK session \in {Session("HandshakePending"), NoSession} :
        sessions' = [sessions EXCEPT ![p] = session]
  BY DEF OnPlayerConnect, OnPlayerDisconnect, SessionConnected, SessionDisconnected
<1>2. /\ outbox' = [outbox EXCEPT ![p] = <<>>]
      /\ registry' = registry /\ phase' = phase /\ phase = "Registered"
      /\ \A q \in Players \ {p} : q \in connected' <=> q \in connected
  BY DEF OnPlayerConnect, OnPlayerDisconnect, ForgetChannel
<1>3. ~AcceptsReports(session)
  BY DEF Session, NoSession, AcceptsReports
<1>4. IsSequence(Stream)
  BY StreamShape DEF IInv, HostOK, RegistryOK, RegistryGood, Stream, IsStream
<1>5. SentOK(Stream, <<>>, session, p \in connected')
  BY <1>3, <1>4, EmptyRunOK
<1> QED BY <1>1, <1>2, <1>5, OneRunChanges

(* Loading changes the registry before the first connection; reset() and    *)
(* free() forget the sessions.                                              *)
LEMMA HostKeepsRuns ==
  ASSUME IInv, IInv', RunsOK,
         \/ OnLoadAttach
         \/ \E asset \in Lines : OnLoadLine(asset)
         \/ OnLoadUnreadable
         \/ OnLoadRegister
         \/ Reset
         \/ Free
  PROVE  RunsOK'
<1>1. CASE Reset \/ Free
  <2>1. /\ outbox' = outbox /\ Stream' = Stream /\ connected' = connected
        /\ phase' \notin {"Unloaded", "Loading"}
        /\ \A p \in Players : sessions'[p] = NoSession
    BY <1>1 DEF Reset, Free, PublicationReset, Stream
  <2>2. ~AcceptsReports(NoSession) /\ ~IsPublishable(NoSession)
    BY DEF NoSession, Session, AcceptsReports, IsPublishable
  <2>3. ASSUME NEW p \in Players
        PROVE  SentOK(Stream, outbox[p], sessions[p], p \in connected)'
    BY <2>1, <2>2 DEF RunsOK, SentOK
  <2> QED BY <2>1, <2>3 DEF RunsOK
<1>2. CASE ~(Reset \/ Free)
  <2>1. /\ phase \in {"Unloaded", "Loading"}
        /\ UNCHANGED <<outbox, sessions, connected>>
    BY <1>2 DEF OnLoadAttach, OnLoadLine, OnLoadUnreadable, OnLoadRegister
  <2>2. connected' = {}
    BY <2>1 DEF RunsOK
  <2>3. IsSequence(Stream)'
    <3>1. RegistryOK(registry')
      BY DEF IInv, HostOK, RegistryOK, RegistryGood
    <3>2. IsStream(ManifestStream(BuildManifest(registry')))
      BY <3>1, StreamShape DEF RegistryOK, RegistryGood
    <3>3. IsSequence(ManifestStream(BuildManifest(registry')))
      BY <3>2 DEF IsStream
    <3> QED BY <3>3 DEF Stream, IsSequence, ManifestStream, BuildManifest
  <2>4. ASSUME NEW p \in Players
        PROVE  SentOK(Stream, outbox[p], sessions[p], p \in connected)'
    <3>1. outbox'[p] = <<>> /\ sessions'[p] = NoSession
      BY <2>1, <2>2 DEF RunsOK, SentOK, IInv, SessionFollowsHandshake
    <3>2. ~AcceptsReports(NoSession)
      BY DEF NoSession, Session, AcceptsReports
    <3>3. SentOK(Stream', <<>>, NoSession, p \in connected')
      BY <2>3, <3>2, EmptyRunOK DEF IsSequence
    <3> QED BY <3>1, <3>3 DEF SentOK
  <2> QED BY <2>2, <2>4 DEF RunsOK
<1> QED BY <1>1, <1>2

(* Every handler keeps the runs.                                            *)
LEMMA NextKeepsRuns == IInv /\ IInv' /\ ChannelsOK /\ RunsOK /\ [Next]_vars => RunsOK'
<1> SUFFICES ASSUME IInv, IInv', ChannelsOK, RunsOK, [Next]_vars PROVE RunsOK'
  OBVIOUS
<1>1. CASE UNCHANGED vars
  BY <1>1 DEF vars, hostVars, RunsOK, SentOK, Stream
<1> QED BY <1>1, HelloKeepsRuns, OtherFramesKeepRuns, ConnectionKeepsRuns, HostKeepsRuns DEF Next

(* The channels are in order in every reachable state.                      *)
THEOREM ChannelsHold == Spec => []ChannelsOK
<1>1. Init => ChannelsOK
  <2> SUFFICES ASSUME Init PROVE ChannelsOK
    OBVIOUS
  <2>1. Untracked.state # "Compatible"
    BY DEF Untracked, Entry
  <2> QED BY <2>1, EmptyChannelOK DEF Init, TrackerInit, TransportInit, ChannelsOK
<1> QED BY <1>1, InvariantHolds, NextKeepsChannels, PTL DEF Spec

(* On one connection a Reject is final, whatever Hellos follow it and even  *)
(* across reset() (handshake_endpoint.cpp, SendResponse).                   *)
THEOREM RejectsAreFinal == Spec => []RejectIsFinal
<1>1. ChannelsOK => RejectIsFinal
  BY DEF ChannelsOK, ChannelOK, RejectsLast, RejectIsFinal
<1> QED BY <1>1, ChannelsHold, PTL

(* A manifest stream starts right behind the Welcome of the handler call    *)
(* that sends it, and nothing is sent inside it (component.cpp,             *)
(* DispatchProtocol; asset_publication.cpp, OnPlayerCompatible).            *)
THEOREM ManifestsFollowWelcomes == Spec => []ManifestFollowsWelcome
<1>1. ChannelsOK => ManifestFollowsWelcome
  BY DEF ChannelsOK, ChannelOK, StreamsFollow, ManifestFollowsWelcome
<1> QED BY <1>1, ChannelsHold, PTL

(* A connection is sent one manifest at most, in one piece and from its     *)
(* beginning, and reports are taken only for one that was sent to its end   *)
(* (asset_publication.cpp, OnPlayerCompatible and HandleIncoming).          *)
THEOREM OneManifest == Spec => []OneManifestPerConnection
<1>1. Init => RunsOK
  <2> SUFFICES ASSUME Init PROVE RunsOK
    OBVIOUS
  <2>1. IsSequence(Stream)
    BY InitHolds, StreamShape DEF IInv, HostOK, RegistryOK, RegistryGood, Stream, IsStream
  <2>2. ~AcceptsReports(NoSession)
    BY DEF NoSession, Session, AcceptsReports
  <2>3. ASSUME NEW p \in Players
        PROVE  SentOK(Stream, outbox[p], sessions[p], p \in connected)
    <3>1. outbox[p] = <<>> /\ sessions[p] = NoSession
      BY DEF Init, TransportInit, PublicationInit
    <3> QED BY <2>1, <2>2, <3>1, EmptyRunOK
  <2> QED BY <2>3 DEF RunsOK, Init
<1>2. RunsOK => OneManifestPerConnection
  BY DEF RunsOK, SentOK, Stream, OneManifestPerConnection
<1> QED BY <1>1, <1>2, InvariantHolds, ChannelsHold, NextKeepsRuns, PTL DEF Spec

(* Every Welcome of a connection grants the same capabilities, those of an  *)
(* accepted Hello, every required one among them (player_capabilities.cpp,  *)
(* HandleHello).                                                            *)
THEOREM OneIdentity == Spec => []OneIdentityPerConnection
<1>1. ASSUME NEW granted, IsGrant(granted) PROVE RequiredCapabilities \subseteq granted
  BY <1>1 DEF IsGrant, FirstFailure, NoReason
<1>2. ASSUME NEW p \in Players, OneGrant(players[p], outbox[p])
      PROVE  LET welcomes == {outbox[p][n].capabilities :
                                n \in {m \in DOMAIN outbox[p] : outbox[p][m].type = "Welcome"}} IN
             /\ Cardinality(welcomes) <= 1
             /\ \A granted \in welcomes :
                  /\ IsGrant(granted)
                  /\ players[p].state = "Compatible" => players[p].negotiated = granted
  <2> DEFINE answered == {m \in DOMAIN outbox[p] : outbox[p][m].type = "Welcome"}
             welcomes == {outbox[p][n].capabilities : n \in answered}
  <2>1. CASE answered = {}
    <3>1. welcomes = {}
      BY <2>1
    <3> QED BY <3>1, FS_EmptySet
  <2>2. ASSUME NEW n \in answered
        PROVE  /\ Cardinality(welcomes) <= 1
               /\ \A granted \in welcomes :
                    /\ IsGrant(granted)
                    /\ players[p].state = "Compatible" => players[p].negotiated = granted
    <3>1. \A k \in answered : outbox[p][k].capabilities = outbox[p][n].capabilities
      BY <1>2 DEF OneGrant
    <3>2. welcomes = {outbox[p][n].capabilities}
      BY <3>1
    <3> HIDE DEF welcomes
    <3>3. Cardinality(welcomes) = 1
      BY <3>2, FS_Singleton
    <3>4. /\ IsGrant(outbox[p][n].capabilities)
          /\ players[p].state = "Compatible"
               => players[p].negotiated = outbox[p][n].capabilities
      BY <1>2 DEF OneGrant
    <3> QED BY <3>2, <3>3, <3>4
  <2> QED BY <2>1, <2>2
<1>3. ChannelsOK => OneIdentityPerConnection
  <2> SUFFICES ASSUME ChannelsOK, NEW p \in Players
               PROVE  LET welcomes == {outbox[p][n].capabilities :
                            n \in {m \in DOMAIN outbox[p] : outbox[p][m].type = "Welcome"}} IN
                      /\ Cardinality(welcomes) <= 1
                      /\ \A granted \in welcomes :
                           /\ RequiredCapabilities \subseteq granted
                           /\ \E hello \in Hellos : /\ FirstFailure(hello) = NoReason
                                                    /\ granted = Negotiated(hello)
                           /\ players[p].state = "Compatible" => players[p].negotiated = granted
    BY DEF OneIdentityPerConnection
  <2>1. OneGrant(players[p], outbox[p])
    BY DEF ChannelsOK, ChannelOK
  <2> QED BY <1>1, <1>2, <2>1 DEF IsGrant
<1> QED BY <1>3, ChannelsHold, PTL

-----------------------------------------------------------------------------
(* The client by itself.                                                    *)
Undecided == \A id \in AssetIds : verdict[id] = "None"
AtRest == receiver = IdleReceiver /\ Undecided /\ events = <<>>
Decided(outcome) == {id \in AssetIds : verdict[id] = outcome}

(* Reports say what the client has decided.                                 *)
ReportsTrue(frames) ==
  \A n \in DOMAIN frames :
    /\ frames[n].type = "AssetReady" => frames[n].id \in Decided("Ready")
    /\ frames[n].type = "AssetError" => frames[n].id \in Decided("Failed")

(* The manager works only for a compatible client, and decides nothing      *)
(* before the manifest is complete: so a decision is final in a session.    *)
ClientOK ==
  /\ told \in {"Nothing", "Connected", "Disconnected"}
  /\ verdict \in [AssetIds -> {"None", "Pending", "Ready", "Failed"}]
  /\ IsSequence(events)
  /\ ReportsTrue(events)
  /\ \A n \in DOMAIN events : events[n].type # "Hello"
  /\ told # "Connected" => handshake = NoWelcome
  /\ told = "Connected" => handshake.state \in {"HelloSent", "Compatible", "Rejected"}
  /\ handshake.state # "Compatible" => AtRest
  /\ receiver.state # "Failed"
  /\ receiver.state # "Complete" => Undecided

(* What is on its way to the server.  The one Hello of a connection comes   *)
(* first, and the server has not answered before it arrives.                *)
UplinkOK ==
  /\ IsSequence(uplink)
  /\ told = "Nothing" => uplink = <<>>
  /\ told = "Connected" => ReportsTrue(uplink)
  /\ \A n \in DOMAIN uplink :
       uplink[n].type = "Hello" =>
         /\ n = 1
         /\ uplink[n] = HelloFrame
         /\ outbox[Me] = <<>>
         /\ players[Me].state \in {"Unknown", "HandshakePending"}

(* What the server holds for this client.                                   *)
SessionTrue ==
  /\ told = "Nothing" => /\ outbox[Me] = <<>>
                         /\ players[Me].state \in {"Unknown", "HandshakePending"}
                         /\ sessions[Me].ready = {}
                         /\ sessions[Me].failed = {}
  /\ told = "Connected" => /\ sessions[Me].ready \subseteq Decided("Ready")
                           /\ sessions[Me].failed \subseteq Decided("Failed")

(* One answer at most was sent: a Reject, or a Welcome and a part of the    *)
(* manifest stream from its beginning.                                      *)
Rejected(entry, frames) ==
  /\ Len(frames) = 1
  /\ frames[1].type = "Reject"
  /\ entry.state \in {"Unknown", "Rejected"}

Welcomed(entry, frames) ==
  /\ Len(frames) \in 1..(Len(Stream) + 1)
  /\ frames[1].type = "Welcome"
  /\ frames[1].capabilities \subseteq Identity.capabilities
  /\ entry.state \in {"Unknown", "Compatible"}
  /\ entry.state = "Compatible" => entry.negotiated = frames[1].capabilities
  /\ \A n \in 2..Len(frames) : frames[n] = Stream[n - 1]

AnswerOK ==
  /\ outbox = [p \in Players |-> outbox[p]]
  /\ IsSequence(outbox[Me])
  /\ \/ outbox[Me] = <<>>
     \/ Me \in connected /\ Rejected(players[Me], outbox[Me])
     \/ Me \in connected /\ Welcomed(players[Me], outbox[Me])

(* How far the client has read, and what it has made of it.                 *)
ReadingOK ==
  /\ cursor \in 0..Len(outbox[Me])
  /\ handshake.state = "HelloSent" => cursor = 0
  /\ Me \in connected /\ handshake.state = "Rejected" =>
       cursor > 0 /\ outbox[Me][1].type = "Reject"
  /\ Me \in connected /\ handshake.state = "Compatible" =>
       /\ cursor > 0
       /\ outbox[Me][1].type = "Welcome"
       /\ outbox[Me][1].capabilities = handshake.welcome
       /\ receiver = ReceiverAfter(BuildManifest(registry), cursor - 1)

BothOK ==
  /\ IInv
  /\ phase \in {"Unloaded", "Loading"} => connected = {}
  /\ ClientOK
  /\ UplinkOK
  /\ SessionTrue
  /\ AnswerOK
  /\ ReadingOK

-----------------------------------------------------------------------------
(* Frames that are taken off a queue and put on one.                        *)
LEMMA Taken ==
  ASSUME NEW s, IsSequence(s), s # <<>>
  PROVE  /\ IsSequence(Tail(s))
         /\ 1 \in DOMAIN s /\ Head(s) = s[1]
         /\ \A n \in DOMAIN Tail(s) : n + 1 \in DOMAIN s /\ n # 0 /\ Tail(s)[n] = s[n + 1]
<1>1. PICK S : s \in Seq(S)
  BY DEF IsSequence
<1>2. /\ Tail(s) \in Seq(S) /\ Len(Tail(s)) = Len(s) - 1
      /\ \A n \in 1..Len(Tail(s)) : Tail(s)[n] = s[n + 1]
      /\ Head(s) = s[1]
  BY <1>1, HeadTailProperties
<1>3. Len(s) \in Nat /\ Len(s) # 0 /\ DOMAIN s = 1..Len(s) /\ DOMAIN Tail(s) = 1..Len(Tail(s))
  BY <1>1, <1>2, LenProperties, EmptySeq
<1>4. IsSequence(Tail(s))
  BY <1>2 DEF IsSequence
<1> QED BY <1>2, <1>3, <1>4

LEMMA Appended ==
  ASSUME NEW s, IsSequence(s), NEW last
  PROVE  /\ IsSequence(Append(s, last))
         /\ \A n \in DOMAIN Append(s, last) :
              \/ n \in DOMAIN s /\ Append(s, last)[n] = s[n]
              \/ Append(s, last)[n] = last
<1>1. PICK S : s \in Seq(S)
  BY DEF IsSequence
<1>2. s \in Seq(S \cup {last})
  BY <1>1
<1>3. /\ Append(s, last) \in Seq(S \cup {last})
      /\ Len(Append(s, last)) = Len(s) + 1
      /\ \A n \in 1..Len(s) : Append(s, last)[n] = s[n]
      /\ Append(s, last)[Len(s) + 1] = last
  BY <1>2, AppendProperties
<1>4. /\ DOMAIN s = 1..Len(s) /\ Len(s) \in Nat
      /\ DOMAIN Append(s, last) = 1..(Len(s) + 1)
  BY <1>2, <1>3, LenProperties
<1> QED BY <1>3, <1>4 DEF IsSequence

(* What is sent of some frames is frames of theirs, and no more of them.    *)
SentOf(frames, s) ==
  /\ IsSequence(s)
  /\ Len(s) <= Len(frames)
  /\ uplink' = uplink \o s
  /\ \A n \in DOMAIN s : \E k \in DOMAIN frames : s[n] = frames[k]

LEMMA SentFrames ==
  ASSUME NEW frames, IsSequence(frames), IsSequence(uplink), SendEach(frames)
  PROVE  \E s : SentOf(frames, s)
<1>0. PICK sent \in 0..Len(frames) :
        \E place \in [1..sent -> DOMAIN frames] :
          uplink' = uplink \o [n \in 1..sent |-> frames[place[n]]]
  BY DEF SendEach
<1>1. PICK place \in [1..sent -> DOMAIN frames] :
        uplink' = uplink \o [n \in 1..sent |-> frames[place[n]]]
  BY <1>0
<1> DEFINE s == [n \in 1..sent |-> frames[place[n]]]
<1>2. Len(frames) \in Nat
  BY LenProperties DEF IsSequence
<1>3. sent \in Nat /\ sent <= Len(frames)
  BY <1>2
<1>4. IsSequence(s) /\ Len(s) = sent
  <2>1. s = [n \in 1..sent |-> s[n]]
    OBVIOUS
  <2> HIDE DEF s
  <2> QED BY <1>3, <2>1, Numbered
<1>5. \A n \in DOMAIN s : place[n] \in DOMAIN frames /\ s[n] = frames[place[n]]
  OBVIOUS
<1>6. SentOf(frames, s)
  <2>1. uplink' = uplink \o s
    BY <1>1
  <2> HIDE DEF s
  <2> QED BY <2>1, <1>3, <1>4, <1>5 DEF SentOf
<1> QED BY <1>6

(* So whatever holds of every frame holds of the queue afterwards.          *)
LEMMA ReportsSent ==
  ASSUME NEW frames, IsSequence(frames), IsSequence(uplink), SendEach(frames),
         ReportsTrue(uplink), ReportsTrue(frames),
         \A n \in DOMAIN frames : frames[n].type # "Hello"
  PROVE  /\ IsSequence(uplink')
         /\ ReportsTrue(uplink')
         /\ \A n \in DOMAIN uplink' :
              uplink'[n].type = "Hello" => n \in DOMAIN uplink /\ uplink'[n] = uplink[n]
<1>0. PICK s : SentOf(frames, s)
  BY SentFrames
<1>1. /\ IsSequence(s)
      /\ uplink' = uplink \o s
      /\ \A n \in DOMAIN s : \E k \in DOMAIN frames : s[n] = frames[k]
  BY <1>0 DEF SentOf
<1>2. /\ IsSequence(uplink')
      /\ \A n \in DOMAIN uplink' :
           \/ n \in DOMAIN uplink /\ uplink'[n] = uplink[n]
           \/ \E k \in DOMAIN s : uplink'[n] = s[k]
  <2>1. /\ IsSequence(uplink \o s)
        /\ Len(uplink) \in Nat /\ Len(s) \in Nat
        /\ DOMAIN uplink = 1..Len(uplink) /\ DOMAIN s = 1..Len(s)
        /\ DOMAIN (uplink \o s) = 1..(Len(uplink) + Len(s))
        /\ \A n \in 1..(Len(uplink) + Len(s)) :
             (uplink \o s)[n] = IF n <= Len(uplink) THEN uplink[n] ELSE s[n - Len(uplink)]
    BY <1>1, Joined
  <2> QED BY <1>1, <2>1
<1>3. \A n \in DOMAIN uplink' :
        \/ n \in DOMAIN uplink /\ uplink'[n] = uplink[n]
        \/ \E k \in DOMAIN frames : uplink'[n] = frames[k]
  BY <1>1, <1>2
<1> QED BY <1>2, <1>3 DEF ReportsTrue

-----------------------------------------------------------------------------
(* The host's steps.                                                        *)

(* Loading, reset() and free() leave the client, the channels and the       *)
(* connections alone, and the registry too once somebody is connected; they *)
(* may only forget what the server holds.                                   *)
LEMMA HostKeepsBoth ==
  ASSUME BothOK, HostStep
  PROVE  BothOK'
<1>1. IInv'
  BY LoadKeeps, ResetKeeps DEF BothOK, HostStep
<1>2. UNCHANGED <<clientVars, linkVars, outbox, connected>>
  BY DEF HostStep, OnLoadAttach, OnLoadLine, OnLoadUnreadable, OnLoadRegister, Reset, Free
<1>3. Me \in Players
  BY MeAssumption
<1>4. \/ /\ players'[Me] = players[Me]
         /\ sessions'[Me] = sessions[Me]
      \/ players'[Me] = Untracked /\ sessions'[Me] = NoSession
  BY <1>3 DEF HostStep, OnLoadAttach, OnLoadLine, OnLoadUnreadable, OnLoadRegister, Reset, Free,
              TrackerReset, PublicationReset
<1>5. /\ Untracked.state = "Unknown"
      /\ NoSession.ready = {} /\ NoSession.failed = {}
  BY DEF Untracked, Entry, NoSession, Session
<1>6. /\ phase' \in {"Unloaded", "Loading"} => phase \in {"Unloaded", "Loading"}
      /\ phase \notin {"Unloaded", "Loading"} => registry' = registry
  BY DEF HostStep, OnLoadAttach, OnLoadLine, OnLoadUnreadable, OnLoadRegister, Reset, Free
<1>7. Me \in connected => registry' = registry
  BY <1>6 DEF BothOK
<1>8. ClientOK'
  BY <1>2 DEF BothOK, ClientOK, AtRest, Undecided, ReportsTrue, Decided, clientVars, linkVars
<1>9. UplinkOK'
  BY <1>2, <1>4, <1>5 DEF BothOK, UplinkOK, ReportsTrue, Decided, clientVars, linkVars
<1>10. SessionTrue'
  BY <1>2, <1>4, <1>5 DEF BothOK, SessionTrue, Decided, clientVars, linkVars
<1>11. AnswerOK'
  <2>1. Me \in connected => Stream' = Stream
    BY <1>7 DEF Stream
  <2>2. CASE Rejected(players[Me], outbox[Me])
    BY <1>2, <1>4, <1>5, <2>2 DEF BothOK, AnswerOK, Rejected
  <2>3. CASE Me \in connected /\ Welcomed(players[Me], outbox[Me])
    BY <1>2, <1>4, <1>5, <2>1, <2>3 DEF BothOK, AnswerOK, Welcomed
  <2> QED BY <1>2, <2>2, <2>3 DEF BothOK, AnswerOK
<1>12. ReadingOK'
  BY <1>2, <1>7 DEF BothOK, ReadingOK, clientVars, linkVars
<1>13. phase' \in {"Unloaded", "Loading"} => connected' = {}
  BY <1>2, <1>6 DEF BothOK
<1> QED BY <1>1, <1>8, <1>9, <1>10, <1>11, <1>12, <1>13 DEF BothOK

(* A new connection starts with an empty channel on both sides, and nothing *)
(* has been said on it.                                                     *)
LEMMA JoinKeepsBoth ==
  ASSUME BothOK, Join
  PROVE  BothOK'
<1>1. IInv' /\ Me \in Players
  BY ConnectionKeeps, MeAssumption DEF BothOK, Join
<1>2. /\ players'[Me] = Entry("HandshakePending", NoReason)
      /\ sessions'[Me] = Session("HandshakePending")
      /\ outbox' = [outbox EXCEPT ![Me] = <<>>] /\ outbox'[Me] = <<>>
      /\ uplink' = <<>> /\ cursor' = 0 /\ told' = "Nothing" /\ told # "Connected"
      /\ phase' = "Registered"
      /\ UNCHANGED <<handshake, receiver, verdict, events>>
  BY <1>1 DEF Join, OnPlayerConnect, BeginHandshake, SessionConnected, ForgetChannel,
              BothOK, IInv, RecordsOK, AnswerOK
<1>3. IsSequence(<<>>) /\ Len(<<>>) = 0 /\ DOMAIN <<>> = {}
  <2>1. <<>> \in Seq({})
    OBVIOUS
  <2> QED BY <2>1 DEF IsSequence
<1>4. handshake = NoWelcome
  BY <1>2 DEF BothOK, ClientOK
<1>5. ClientOK'
  BY <1>2, <1>4 DEF BothOK, ClientOK, AtRest, Undecided, ReportsTrue, Decided
<1>6. UplinkOK'
  BY <1>2, <1>3 DEF UplinkOK, ReportsTrue
<1>7. SessionTrue'
  BY <1>2 DEF SessionTrue, Entry, Session
<1>8. AnswerOK'
  BY <1>2, <1>3 DEF BothOK, AnswerOK
<1>9. ReadingOK'
  BY <1>2, <1>3, <1>4 DEF ReadingOK, NoWelcome
<1> QED BY <1>1, <1>2, <1>5, <1>6, <1>7, <1>8, <1>9 DEF BothOK

(* The server forgets the player; the client need not have noticed.         *)
LEMMA NoticeKeepsBoth ==
  ASSUME BothOK, ServerNotices
  PROVE  BothOK'
<1>1. IInv' /\ Me \in Players
  BY ConnectionKeeps, MeAssumption DEF BothOK, ServerNotices
<1>2. /\ players'[Me] = Untracked
      /\ sessions'[Me] = NoSession
      /\ outbox' = [outbox EXCEPT ![Me] = <<>>] /\ outbox'[Me] = <<>>
      /\ cursor' = 0
      /\ phase' = "Registered"
      /\ Me \notin connected'
      /\ UNCHANGED <<clientVars, told>>
  BY <1>1 DEF ServerNotices, OnPlayerDisconnect, RemovePlayer, SessionDisconnected, ForgetChannel,
              BothOK, IInv, RecordsOK, AnswerOK
<1>3. IsSequence(<<>>) /\ Len(<<>>) = 0
  <2>1. <<>> \in Seq({})
    OBVIOUS
  <2> QED BY <2>1 DEF IsSequence
<1>4. ClientOK'
  BY <1>2 DEF BothOK, ClientOK, AtRest, Undecided, ReportsTrue, Decided, clientVars
<1>5. UplinkOK'
  BY <1>2 DEF BothOK, UplinkOK, ReportsTrue, Decided, clientVars, Untracked, Entry
<1>6. SessionTrue'
  BY <1>2 DEF SessionTrue, Untracked, Entry, NoSession, Session
<1>7. AnswerOK'
  BY <1>2, <1>3 DEF BothOK, AnswerOK
<1>8. ReadingOK'
  BY <1>2, <1>3 DEF ReadingOK
<1> QED BY <1>1, <1>2, <1>4, <1>5, <1>6, <1>7, <1>8 DEF BothOK

-----------------------------------------------------------------------------
(* The client's steps leave the server alone.                               *)
LEMMA ServerStands ==
  ASSUME BothOK, UNCHANGED vars
  PROVE  /\ IInv'
         /\ phase' \in {"Unloaded", "Loading"} => connected' = {}
         /\ UNCHANGED <<players, sessions, registry, outbox, connected>>
         /\ AnswerOK'
<1>1. IInv'
  BY NextKeeps DEF BothOK
<1>2. UNCHANGED <<players, sessions, registry, outbox, connected, phase>>
  BY DEF vars, hostVars
<1>3. Stream' = Stream
  BY <1>2 DEF Stream
<1>4. AnswerOK'
  BY <1>2, <1>3 DEF BothOK, AnswerOK, Rejected, Welcomed
<1> QED BY <1>1, <1>2, <1>4 DEF BothOK

(* The Connected event: one Hello at most goes out, on a connection nothing *)
(* has been said on.                                                        *)
LEMMA ConnectedKeepsBoth ==
  ASSUME BothOK, TellConnected
  PROVE  BothOK'
<1>1. /\ told = "Nothing" /\ told' = "Connected" /\ cursor' = cursor
      /\ HandleConnected /\ UNCHANGED vars
  BY DEF TellConnected
<1>2. handshake = NoWelcome /\ uplink = <<>> /\ IsSequence(uplink)
  BY <1>1 DEF BothOK, ClientOK, UplinkOK
<1>3. handshake.state = "Disconnected"
  BY <1>2 DEF NoWelcome
<1>4. /\ ResetSession
      /\ handshake' = [NoWelcome EXCEPT !.state = "HelloSent"]
      /\ SendEach(<<HelloFrame>>)
  BY <1>1, <1>3 DEF HandleConnected
<1>5. handshake'.state = "HelloSent"
  BY <1>4 DEF NoWelcome
<1>6. IsSequence(<<HelloFrame>>) /\ Len(<<HelloFrame>>) = 1 /\ <<HelloFrame>>[1] = HelloFrame
  BY Alone
<1>0. PICK s : SentOf(<<HelloFrame>>, s)
  BY <1>2, <1>4, <1>6, SentFrames
<1>7. /\ IsSequence(s)
      /\ Len(s) <= Len(<<HelloFrame>>)
      /\ uplink' = uplink \o s
      /\ \A n \in DOMAIN s : \E k \in DOMAIN <<HelloFrame>> : s[n] = <<HelloFrame>>[k]
  BY <1>0 DEF SentOf
<1>8. IsSequence(uplink') /\ \A n \in DOMAIN uplink' : n = 1 /\ uplink'[n] = HelloFrame
  <2>1. uplink' = s
    <3>1. PICK S : s \in Seq(S)
      BY <1>7 DEF IsSequence
    <3> QED BY <1>2, <1>7, <3>1
  <2>2. Len(s) \in Nat /\ DOMAIN s = 1..Len(s) /\ Len(s) <= 1
    BY <1>6, <1>7, LenProperties DEF IsSequence
  <2>3. DOMAIN <<HelloFrame>> = {1}
    OBVIOUS
  <2> QED BY <1>6, <1>7, <2>1, <2>2, <2>3
<1>9. HelloFrame.type = "Hello"
  BY DEF HelloFrame
<1>10. AtRest'
  BY <1>4 DEF ResetSession, AtRest, Undecided
<1>11. ClientOK'
  <2>1. IsSequence(<<>>) /\ DOMAIN <<>> = {}
    <3>1. <<>> \in Seq({})
      OBVIOUS
    <3> QED BY <3>1 DEF IsSequence
  <2>2. verdict' \in [AssetIds -> {"None", "Pending", "Ready", "Failed"}]
    BY <1>4 DEF ResetSession
  <2>3. receiver'.state = "Idle" /\ events' = <<>> /\ Undecided'
    BY <1>10 DEF AtRest, IdleReceiver
  <2> QED BY <1>1, <1>5, <1>10, <2>1, <2>2, <2>3 DEF ClientOK, ReportsTrue
<1>12. UplinkOK'
  <2>1. /\ outbox'[Me] = <<>>
        /\ players'[Me].state \in {"Unknown", "HandshakePending"}
    BY <1>1, ServerStands DEF BothOK, SessionTrue
  <2> QED BY <1>1, <1>8, <1>9, <2>1 DEF UplinkOK, ReportsTrue, HelloFrame
<1>13. SessionTrue'
  <2>1. sessions'[Me].ready = {} /\ sessions'[Me].failed = {}
    BY <1>1, ServerStands DEF BothOK, SessionTrue
  <2> QED BY <1>1, <2>1 DEF SessionTrue
<1>14. ReadingOK'
  <2>1. outbox' = outbox /\ outbox[Me] = <<>>
    BY <1>1, ServerStands DEF BothOK, SessionTrue
  <2>2. cursor = 0 /\ cursor' \in 0..Len(outbox'[Me])
    BY <1>1, <2>1 DEF BothOK, ReadingOK
  <2> QED BY <1>1, <1>5, <2>2 DEF ReadingOK
<1> QED BY <1>1, <1>11, <1>12, <1>13, <1>14, ServerStands DEF BothOK

(* The Disconnected event.                                                  *)
LEMMA DisconnectedKeepsBoth ==
  ASSUME BothOK, TellDisconnected
  PROVE  BothOK'
<1>1. /\ told' = "Disconnected" /\ cursor' = cursor /\ uplink' = uplink
      /\ handshake' = NoWelcome /\ ResetSession /\ UNCHANGED vars
  BY DEF TellDisconnected, HandleDisconnected
<1>2. AtRest'
  BY <1>1 DEF ResetSession, AtRest, Undecided
<1>3. ClientOK'
  <2>1. IsSequence(<<>>) /\ DOMAIN <<>> = {}
    <3>1. <<>> \in Seq({})
      OBVIOUS
    <3> QED BY <3>1 DEF IsSequence
  <2>2. verdict' \in [AssetIds -> {"None", "Pending", "Ready", "Failed"}]
    BY <1>1 DEF ResetSession
  <2>3. receiver'.state = "Idle" /\ events' = <<>> /\ Undecided'
    BY <1>2 DEF AtRest, IdleReceiver
  <2> QED BY <1>1, <1>2, <2>1, <2>2, <2>3 DEF ClientOK, ReportsTrue
<1>4. UplinkOK'
  BY <1>1, ServerStands DEF BothOK, UplinkOK
<1>5. SessionTrue'
  BY <1>1 DEF SessionTrue
<1>6. ReadingOK'
  BY <1>1, ServerStands DEF BothOK, ReadingOK, NoWelcome
<1> QED BY <1>1, <1>3, <1>4, <1>5, <1>6, ServerStands DEF BothOK

(* The connection breaks; neither side has noticed.                         *)
LEMMA LossKeepsBoth ==
  ASSUME BothOK, UNCHANGED <<vars, clientVars, told, cursor>>
  PROVE  BothOK'
<1>1. ClientOK'
  BY DEF BothOK, ClientOK, AtRest, Undecided, ReportsTrue, Decided, clientVars
<1>2. UplinkOK'
  BY ServerStands DEF BothOK, UplinkOK, ReportsTrue, Decided, clientVars
<1>3. SessionTrue'
  BY ServerStands DEF BothOK, SessionTrue, Decided, clientVars
<1>4. ReadingOK'
  BY ServerStands DEF BothOK, ReadingOK, clientVars
<1> QED BY <1>1, <1>2, <1>3, <1>4, ServerStands DEF BothOK

(* PumpAssetResults: the events say what was decided, and go out as they    *)
(* are or not at all.                                                       *)
LEMMA PumpKeepsBoth ==
  ASSUME BothOK, ClientPumps
  PROVE  BothOK'
<1>1. /\ told = "Connected" /\ UNCHANGED <<vars, link, told, cursor>>
      /\ handshake.state = "Compatible" /\ events' = <<>> /\ SendEach(events)
      /\ UNCHANGED <<handshake, receiver, verdict>>
  BY DEF ClientPumps, PumpAssetResults, linkVars
<1>2. /\ IsSequence(uplink) /\ IsSequence(events)
      /\ ReportsTrue(uplink) /\ ReportsTrue(events)
      /\ \A n \in DOMAIN events : events[n].type # "Hello"
  BY <1>1 DEF BothOK, ClientOK, UplinkOK
<1>3. /\ IsSequence(uplink')
      /\ \A n \in DOMAIN uplink' :
           /\ uplink'[n].type = "AssetReady" => uplink'[n].id \in Decided("Ready")
           /\ uplink'[n].type = "AssetError" => uplink'[n].id \in Decided("Failed")
      /\ \A n \in DOMAIN uplink' :
           uplink'[n].type = "Hello" => n \in DOMAIN uplink /\ uplink'[n] = uplink[n]
  BY <1>1, <1>2, ReportsSent DEF ReportsTrue
<1>4. ClientOK'
  <2>1. IsSequence(<<>>) /\ DOMAIN <<>> = {}
    <3>1. <<>> \in Seq({})
      OBVIOUS
    <3> QED BY <3>1 DEF IsSequence
  <2> QED BY <1>1, <2>1 DEF BothOK, ClientOK, AtRest, Undecided, ReportsTrue
<1>5. UplinkOK'
  BY <1>1, <1>3, ServerStands DEF BothOK, UplinkOK, ReportsTrue, Decided
<1>6. SessionTrue'
  BY <1>1, ServerStands DEF BothOK, SessionTrue, Decided
<1>7. ReadingOK'
  BY <1>1, ServerStands DEF BothOK, ReadingOK
<1> QED BY <1>1, <1>4, <1>5, <1>6, <1>7, ServerStands DEF BothOK

(* The worker decides what is pending, and nothing else: no decision that   *)
(* was reported changes.                                                    *)
LEMMA SettlementKeepsBoth ==
  ASSUME BothOK, NEW id \in AssetIds, WorkerSettles(id)
  PROVE  BothOK'
<1>1. /\ verdict[id] = "Pending"
      /\ UNCHANGED <<vars, link, told, cursor, handshake, receiver, uplink>>
  BY DEF WorkerSettles, Settle, linkVars
<1>2. PICK outcome \in {"Ready", "Failed"} :
        /\ verdict' = [verdict EXCEPT ![id] = outcome]
        /\ events' = Append(events, Report(IF outcome = "Ready" THEN "AssetReady" ELSE "AssetError",
                                           receiver.revision, id))
  BY DEF WorkerSettles, Settle
<1> DEFINE report == Report(IF outcome = "Ready" THEN "AssetReady" ELSE "AssetError",
                            receiver.revision, id)
<1>3. /\ report.type # "Hello"
      /\ report.type = "AssetReady" => outcome = "Ready" /\ report.id = id
      /\ report.type = "AssetError" => outcome = "Failed" /\ report.id = id
  BY DEF Report
<1> HIDE DEF report
<1>4. /\ Decided("Ready") \subseteq Decided("Ready")'
      /\ Decided("Failed") \subseteq Decided("Failed")'
      /\ id \in Decided(outcome)'
      /\ verdict' \in [AssetIds -> {"None", "Pending", "Ready", "Failed"}]
  BY <1>1, <1>2 DEF BothOK, ClientOK, Decided
<1>5. receiver.state = "Complete" /\ handshake.state = "Compatible"
  BY <1>1 DEF BothOK, ClientOK, AtRest, Undecided
<1>6. IsSequence(events) /\ events' = Append(events, report)
  BY <1>2 DEF BothOK, ClientOK, report
<1>7. /\ IsSequence(events')
      /\ \A n \in DOMAIN events' : \/ n \in DOMAIN events /\ events'[n] = events[n]
                                   \/ events'[n] = report
  BY <1>6, Appended
<1>8. ReportsTrue(events)' /\ \A n \in DOMAIN events' : events'[n].type # "Hello"
  <2>1. ReportsTrue(events) /\ \A n \in DOMAIN events : events[n].type # "Hello"
    BY DEF BothOK, ClientOK
  <2>2. \A n \in DOMAIN events' : events'[n].type # "Hello"
    BY <1>3, <1>7, <2>1
  <2>3. ASSUME NEW n \in DOMAIN events'
        PROVE  /\ events'[n].type = "AssetReady" => events'[n].id \in Decided("Ready")'
               /\ events'[n].type = "AssetError" => events'[n].id \in Decided("Failed")'
    BY <1>3, <1>4, <1>7, <2>1 DEF ReportsTrue
  <2> QED BY <2>2, <2>3 DEF ReportsTrue
<1>9. ClientOK'
  BY <1>1, <1>4, <1>5, <1>7, <1>8 DEF BothOK, ClientOK
<1>10. UplinkOK'
  BY <1>1, <1>4, ServerStands DEF BothOK, UplinkOK, ReportsTrue
<1>11. SessionTrue'
  BY <1>1, <1>4, ServerStands DEF BothOK, SessionTrue
<1>12. ReadingOK'
  BY <1>1, ServerStands DEF BothOK, ReadingOK
<1> QED BY <1>1, <1>9, <1>10, <1>11, <1>12, ServerStands DEF BothOK

-----------------------------------------------------------------------------
(* What the server receives.                                                *)

(* The frames of the first answer on a connection.                          *)
LEMMA AnswerPlaces ==
  ASSUME NEW answer, NEW run, IsSequence(run), NEW sent, sent = Behind(<<>>, answer, run)
  PROVE  /\ IsSequence(sent)
         /\ Len(run) \in Nat
         /\ Len(sent) = Len(run) + 1
         /\ sent[1] = answer
         /\ \A n \in 2..Len(sent) : sent[n] = run[n - 1]
<1>1. IsSequence(<<>>) /\ Len(<<>>) = 0 /\ DOMAIN <<>> = {}
  <2>1. <<>> \in Seq({})
    OBVIOUS
  <2> QED BY <2>1 DEF IsSequence
<1>2. /\ IsSequence(sent)
      /\ Len(run) \in Nat /\ DOMAIN run = 1..Len(run)
      /\ DOMAIN sent = 1..(Len(<<>>) + (1 + Len(run)))
      /\ sent[Len(<<>>) + 1] = answer
      /\ \A n \in DOMAIN run : sent[Len(<<>>) + 1 + n] = run[n]
  BY <1>1, BehindPlaces
<1>3. sent[1] = answer /\ \A n \in 1..Len(run) : sent[1 + n] = run[n]
  BY <1>1, <1>2
<1>4. Len(sent) = Len(run) + 1
  <2>1. Len(sent) \in Nat /\ DOMAIN sent = 1..Len(sent)
    BY <1>2, LenProperties DEF IsSequence
  <2>2. DOMAIN sent = 1..(Len(run) + 1)
    BY <1>1, <1>2
  <2> QED BY <1>2, <2>1, <2>2
<1>5. ASSUME NEW n \in 2..Len(sent) PROVE sent[n] = run[n - 1]
  <2>1. n - 1 \in 1..Len(run) /\ 1 + (n - 1) = n
    BY <1>2, <1>4
  <2> QED BY <1>3, <2>1
<1> QED BY <1>2, <1>3, <1>4, <1>5

(* The verdict on this client's Hello: reset() may have forgotten the       *)
(* handshake, and the Hello is then malformed.                              *)
LEMMA VerdictOnHello ==
  ASSUME NEW entry, EntryOK(entry), entry.state \in {"Unknown", "HandshakePending"},
         NEW after, after = AfterHello(entry, Identity)
  PROVE  \/ after.state = "Rejected" /\ Response(after).type = "Reject"
         \/ /\ after.state = "Compatible"
            /\ Response(after).type = "Welcome"
            /\ Response(after).capabilities = after.negotiated
            /\ after.negotiated \subseteq Identity.capabilities
<1>1. ~IsSettled(entry, Identity)
  BY DEF IsSettled
<1>2. after = Judged(Identity, Refusal(entry, Identity))
  BY <1>1 DEF AfterHello
<1> QED BY <1>2 DEF Judged, Response, Negotiated

(* The Hello is judged, and whatever of the answer goes out is all that is  *)
(* ever sent on this connection.                                            *)
LEMMA HelloKeepsBoth ==
  ASSUME BothOK, ServerReceives, Head(uplink).type = "Hello",
         ReceiveHello(Me, Head(uplink).hello)
  PROVE  BothOK'
<1>1. /\ uplink # <<>> /\ uplink' = Tail(uplink)
      /\ UNCHANGED <<handshake, receiver, verdict, events, told, cursor>>
  BY DEF ServerReceives, linkVars
<1>2. /\ IsSequence(uplink) /\ IsSequence(Tail(uplink))
      /\ 1 \in DOMAIN uplink /\ Head(uplink) = uplink[1]
      /\ \A n \in DOMAIN Tail(uplink) :
           n + 1 \in DOMAIN uplink /\ n # 0 /\ Tail(uplink)[n] = uplink[n + 1]
  BY <1>1, Taken DEF BothOK, UplinkOK
<1>3. /\ Head(uplink) = HelloFrame
      /\ outbox[Me] = <<>>
      /\ players[Me].state \in {"Unknown", "HandshakePending"}
  BY <1>2 DEF BothOK, UplinkOK
<1>4. ReceiveHello(Me, Identity)
  BY <1>3 DEF HelloFrame
<1>5. Me \in Players /\ IInv'
  BY <1>4, HelloKeeps, MeAssumption, IdentityAssumption DEF BothOK
<1>6. /\ Me \in connected /\ connected' = connected
      /\ registry' = registry /\ phase' = phase /\ phase = "Registered"
  BY <1>4 DEF ReceiveHello, Receiving, hostVars
<1>7. told # "Nothing"
  BY <1>1 DEF BothOK, UplinkOK
<1> DEFINE entry == AfterHello(players[Me], Identity)
           answer == Response(entry)
<1>8. players'[Me] = entry
  BY <1>4, <1>5 DEF ReceiveHello, HandleHello, BothOK, IInv, RecordsOK
<1>9. \/ entry.state = "Rejected" /\ answer.type = "Reject"
      \/ /\ entry.state = "Compatible"
         /\ answer.type = "Welcome"
         /\ answer.capabilities = entry.negotiated
         /\ entry.negotiated \subseteq Identity.capabilities
  BY <1>3, <1>5, VerdictOnHello DEF BothOK, IInv, RecordsOK
<1>10. \/ UNCHANGED <<outbox, sessions>>
       \/ Transmit(Me, <<answer>>) /\ UNCHANGED sessions
       \/ answer.type = "Welcome" /\ \E delivered : OnPlayerCompatible(Me, <<answer>>, delivered)
  BY <1>4 DEF ReceiveHello
<1> HIDE DEF entry, answer
<1>11. IsStream(Stream) /\ Len(Stream) \in Nat
  <2>1. IsStream(Stream)
    BY StreamShape DEF BothOK, IInv, HostOK, RegistryOK, RegistryGood, Stream
  <2> QED BY <2>1, LenProperties DEF IsStream, IsSequence
<1>12. \/ outbox' = outbox /\ sessions' = sessions
       \/ \E run : /\ outbox' = [outbox EXCEPT ![Me] = Behind(<<>>, answer, run)]
                   /\ IsSequence(run)
                   /\ Len(run) \in 0..Len(Stream)
                   /\ Len(run) # 0 => answer.type = "Welcome"
                   /\ \A n \in 1..Len(run) : run[n] = Stream[n]
                   /\ sessions' = sessions \/ (sessions'[Me].ready = {} /\ sessions'[Me].failed = {})
  <2>1. CASE UNCHANGED <<outbox, sessions>>
    BY <2>1
  <2>2. CASE Transmit(Me, <<answer>>) /\ UNCHANGED sessions
    <3>1. outbox' = [outbox EXCEPT ![Me] = <<>> \o <<answer>>]
      BY <1>3, <2>2 DEF Transmit, BothOK, AnswerOK
    <3>2. IsSequence(<<>>) /\ Len(<<>>) = 0
      <4>1. <<>> \in Seq({})
        OBVIOUS
      <4> QED BY <4>1 DEF IsSequence
    <3>3. <<answer>> \o <<>> = <<answer>>
      BY ConcatEmptySeq, Alone DEF IsSequence
    <3>4. outbox' = [outbox EXCEPT ![Me] = Behind(<<>>, answer, <<>>)]
      BY <3>1, <3>3 DEF Behind
    <3>5. Len(<<>>) \in 0..Len(Stream) /\ \A n \in 1..Len(<<>>) : FALSE
      BY <1>11, <3>2
    <3> QED BY <2>2, <3>2, <3>4, <3>5
  <2>3. ASSUME answer.type = "Welcome", NEW delivered, OnPlayerCompatible(Me, <<answer>>, delivered)
        PROVE  \E run : /\ outbox' = [outbox EXCEPT ![Me] = Behind(<<>>, answer, run)]
                        /\ IsSequence(run)
                        /\ Len(run) \in 0..Len(Stream)
                        /\ \A n \in 1..Len(run) : run[n] = Stream[n]
                        /\ sessions'[Me].ready = {} /\ sessions'[Me].failed = {}
    <3> DEFINE run == SubSeq(Stream, 1, delivered)
    <3>1. /\ delivered \in 0..Len(Stream)
          /\ outbox' = [outbox EXCEPT ![Me] = Behind(<<>>, answer, run)]
          /\ sessions' = [sessions EXCEPT ![Me] = AfterStream(registry, delivered)]
      BY <1>3, <2>3 DEF OnPlayerCompatible, Transmit, Behind, Stream, BothOK, AnswerOK
    <3>2. /\ IsSequence(run) /\ Len(run) = delivered
          /\ \A n \in 1..delivered : run[n] = Stream[n]
      BY <1>11, <3>1, PartOfStream DEF IsStream
    <3>3. sessions'[Me] = AfterStream(registry, delivered)
      BY <1>5, <3>1 DEF BothOK, IInv, RecordsOK
    <3>4. sessions'[Me].ready = {} /\ sessions'[Me].failed = {}
      BY <3>3 DEF AfterStream
    <3> HIDE DEF run
    <3> QED BY <3>1, <3>2, <3>4
  <2> QED BY <1>10, <2>1, <2>2, <2>3
<1>13. AnswerOK'
  <2>1. Stream' = Stream
    BY <1>6 DEF Stream
  <2>2. CASE outbox' = outbox
    BY <1>3, <2>2 DEF BothOK, AnswerOK
  <2>3. ASSUME NEW run, outbox' = [outbox EXCEPT ![Me] = Behind(<<>>, answer, run)],
               IsSequence(run), Len(run) \in 0..Len(Stream),
               Len(run) # 0 => answer.type = "Welcome",
               \A n \in 1..Len(run) : run[n] = Stream[n]
        PROVE  AnswerOK'
    <3>1. outbox'[Me] = Behind(<<>>, answer, run) /\ outbox' = [p \in Players |-> outbox'[p]]
      BY <1>5, <2>3 DEF BothOK, AnswerOK
    <3> DEFINE sent == outbox'[Me]
    <3>2. /\ IsSequence(sent) /\ Len(run) \in Nat
          /\ Len(sent) = Len(run) + 1
          /\ sent[1] = answer
          /\ \A n \in 2..Len(sent) : sent[n] = run[n - 1]
      BY <2>3, <3>1, AnswerPlaces
    <3> HIDE DEF sent
    <3>3. \A n \in 2..Len(sent) : sent[n] = Stream[n - 1]
      <4> SUFFICES ASSUME NEW n \in 2..Len(sent) PROVE sent[n] = Stream[n - 1]
        OBVIOUS
      <4>1. n - 1 \in 1..Len(run)
        BY <3>2
      <4> QED BY <2>3, <3>2, <4>1
    <3>4. CASE answer.type = "Reject"
      <4>1. Len(sent) = 1
        BY <2>3, <3>2, <3>4
      <4>2. sent[1].type = "Reject" /\ players'[Me].state = "Rejected"
        BY <1>8, <1>9, <3>2, <3>4
      <4>3. Rejected(players[Me], outbox[Me])'
        BY <4>1, <4>2 DEF Rejected, sent
      <4> QED BY <1>6, <3>1, <3>2, <4>3 DEF AnswerOK, sent
    <3>5. CASE answer.type = "Welcome"
      <4>1. /\ players'[Me].state = "Compatible"
            /\ players'[Me].negotiated = sent[1].capabilities
            /\ sent[1].type = "Welcome"
            /\ sent[1].capabilities \subseteq Identity.capabilities
        BY <1>8, <1>9, <3>2, <3>5
      <4>2. Len(sent) \in 1..(Len(Stream) + 1)
        BY <1>11, <2>3, <3>2
      <4>3. Welcomed(players[Me], outbox[Me])'
        BY <2>1, <3>3, <4>1, <4>2 DEF Welcomed, sent
      <4> QED BY <1>6, <3>1, <3>2, <4>3 DEF AnswerOK, sent
    <3> QED BY <1>9, <3>4, <3>5
  <2> QED BY <1>12, <2>2, <2>3
<1>14. ClientOK'
  BY <1>1 DEF BothOK, ClientOK, AtRest, Undecided, ReportsTrue, Decided
<1>15. UplinkOK'
  <2>1. ASSUME NEW n \in DOMAIN Tail(uplink)
        PROVE  Tail(uplink)[n].type # "Hello"
    <3>1. n + 1 # 1 \/ n + 1 \notin Nat
      BY <1>2
    <3>2. CASE Tail(uplink)[n].type = "Hello"
      <4>1. n + 1 \in DOMAIN uplink /\ uplink[n + 1].type = "Hello"
        BY <1>2, <3>2
      <4>2. n + 1 = 1
        BY <4>1 DEF BothOK, UplinkOK
      <4> QED BY <3>1, <4>2
    <3> QED BY <3>2
  <2>2. told = "Connected" => ReportsTrue(Tail(uplink))
    BY <1>2 DEF BothOK, UplinkOK, ReportsTrue
  <2> QED BY <1>1, <1>2, <1>7, <2>1, <2>2 DEF UplinkOK, ReportsTrue, Decided
<1>16. SessionTrue'
  <2>1. \/ sessions'[Me] = sessions[Me]
        \/ sessions'[Me].ready = {} /\ sessions'[Me].failed = {}
    BY <1>12
  <2> QED BY <1>1, <1>7, <2>1 DEF BothOK, SessionTrue, Decided
<1>17. ReadingOK'
  <2>1. cursor = 0
    <3>1. Len(<<>>) = 0
      OBVIOUS
    <3> QED BY <1>3, <3>1 DEF BothOK, ReadingOK
  <2>2. Len(outbox'[Me]) \in Nat
    BY <1>13, LenProperties DEF AnswerOK, IsSequence
  <2>3. handshake.state \notin {"Rejected", "Compatible"}
    BY <1>6, <2>1 DEF BothOK, ReadingOK
  <2> QED BY <1>1, <2>1, <2>2, <2>3 DEF ReadingOK
<1> QED BY <1>5, <1>6, <1>13, <1>14, <1>15, <1>16, <1>17 DEF BothOK

(* A report is recorded or not, and it was true when it was sent.           *)
LEMMA ReportKeepsBoth ==
  ASSUME BothOK, ServerReceives, Head(uplink).type # "Hello",
         ReceiveMessage(Me, Head(uplink))
  PROVE  BothOK'
<1>1. /\ uplink # <<>> /\ uplink' = Tail(uplink)
      /\ UNCHANGED <<handshake, receiver, verdict, events, told, cursor>>
  BY DEF ServerReceives, linkVars
<1>2. /\ IsSequence(uplink) /\ IsSequence(Tail(uplink))
      /\ 1 \in DOMAIN uplink /\ Head(uplink) = uplink[1]
      /\ \A n \in DOMAIN Tail(uplink) :
           n + 1 \in DOMAIN uplink /\ n # 0 /\ Tail(uplink)[n] = uplink[n + 1]
  BY <1>1, Taken DEF BothOK, UplinkOK
<1> DEFINE message == Head(uplink)
<1>3. Me \in Players /\ IInv'
  BY MessageKeeps, MeAssumption DEF BothOK
<1>4. /\ UNCHANGED <<players, registry, outbox, connected, phase>>
      /\ sessions'[Me] = AfterMessage(sessions[Me], message)
  BY <1>3 DEF ReceiveMessage, HandleIncoming, hostVars, BothOK, IInv, RecordsOK
<1>5. told = "Connected" =>
        /\ message.type = "AssetReady" => message.id \in Decided("Ready")
        /\ message.type = "AssetError" => message.id \in Decided("Failed")
  BY <1>2 DEF BothOK, UplinkOK, ReportsTrue
<1>6. sessions[Me] \in Sessions
  BY <1>3 DEF BothOK, IInv, RecordsOK
<1>7. /\ sessions'[Me].ready \subseteq
           sessions[Me].ready \cup (IF message.type = "AssetReady" THEN {message.id} ELSE {})
      /\ sessions'[Me].failed \subseteq
           sessions[Me].failed \cup (IF message.type = "AssetError" THEN {message.id} ELSE {})
  <2> HIDE DEF message
  <2> QED BY <1>4, <1>6 DEF AfterMessage, AfterReady, AfterError, Sessions
<1>8. told # "Nothing"
  BY <1>1 DEF BothOK, UplinkOK
<1>9. SessionTrue'
  <2> HIDE DEF message
  <2> QED BY <1>1, <1>5, <1>7, <1>8 DEF BothOK, SessionTrue, Decided
<1>10. ClientOK'
  BY <1>1 DEF BothOK, ClientOK, AtRest, Undecided, ReportsTrue, Decided
<1>11. UplinkOK'
  <2>1. ASSUME NEW n \in DOMAIN Tail(uplink)
        PROVE  Tail(uplink)[n].type # "Hello"
    <3>1. CASE Tail(uplink)[n].type = "Hello"
      <4>1. n + 1 \in DOMAIN uplink /\ uplink[n + 1].type = "Hello" /\ n # 0
        BY <1>2, <3>1
      <4>2. uplink[1].type = "Hello"
        BY <4>1 DEF BothOK, UplinkOK
      <4> QED BY <1>2, <4>2
    <3> QED BY <3>1
  <2>2. told = "Connected" => ReportsTrue(Tail(uplink))
    BY <1>2 DEF BothOK, UplinkOK, ReportsTrue
  <2> QED BY <1>1, <1>2, <1>8, <2>1, <2>2 DEF UplinkOK, ReportsTrue, Decided
<1>12. AnswerOK'
  <2>1. Stream' = Stream
    BY <1>4 DEF Stream
  <2> QED BY <1>4, <2>1 DEF BothOK, AnswerOK, Rejected, Welcomed
<1>13. ReadingOK'
  BY <1>1, <1>4 DEF BothOK, ReadingOK
<1> QED BY <1>3, <1>4, <1>9, <1>10, <1>11, <1>12, <1>13 DEF BothOK

-----------------------------------------------------------------------------
(* What the client receives.                                                *)

(* The next frame of the channel: the answer comes first, and behind a      *)
(* Welcome the next message of the manifest.                                *)
LEMMA NextFrame ==
  ASSUME BothOK, cursor < Len(outbox[Me])
  PROVE  /\ Me \in connected
         /\ cursor \in Nat
         /\ cursor = 0 =>
              \/ outbox[Me][1].type = "Reject"
              \/ /\ outbox[Me][1].type = "Welcome"
                 /\ outbox[Me][1].capabilities \subseteq Identity.capabilities
         /\ outbox[Me][1].type = "Reject" => cursor = 0
         /\ cursor # 0 => /\ cursor \in 1..(Cardinality(registry.assets) + 2)
                          /\ outbox[Me][cursor + 1] = Stream[cursor]
                          /\ IsManifestMessage(Stream[cursor])
<1>1. Len(outbox[Me]) \in Nat
  BY LenProperties DEF BothOK, AnswerOK, IsSequence
<1>2. cursor \in Nat /\ Len(outbox[Me]) # 0
  BY <1>1 DEF BothOK, ReadingOK
<1>3. outbox[Me] # <<>>
  <2>1. Len(<<>>) = 0
    OBVIOUS
  <2> QED BY <1>2, <2>1
<1>4. Me \in connected
  BY <1>3 DEF BothOK, AnswerOK
<1>5. /\ Cardinality(registry.assets) \in Nat
      /\ IsStream(Stream) /\ Len(Stream) = Cardinality(registry.assets) + 2
  BY StreamShape DEF BothOK, IInv, HostOK, RegistryOK, RegistryGood, Stream
<1>6. DOMAIN Stream = 1..(Cardinality(registry.assets) + 2)
  BY <1>5, LenProperties DEF IsStream, IsSequence
<1>7. CASE Rejected(players[Me], outbox[Me])
  BY <1>2, <1>4, <1>7 DEF Rejected
<1>8. CASE Welcomed(players[Me], outbox[Me])
  <2>1. /\ Len(outbox[Me]) \in 1..(Cardinality(registry.assets) + 3)
        /\ outbox[Me][1].type = "Welcome"
        /\ outbox[Me][1].capabilities \subseteq Identity.capabilities
        /\ \A n \in 2..Len(outbox[Me]) : outbox[Me][n] = Stream[n - 1]
    BY <1>5, <1>8 DEF Welcomed
  <2>2. ASSUME cursor # 0
        PROVE  /\ cursor \in 1..(Cardinality(registry.assets) + 2)
               /\ outbox[Me][cursor + 1] = Stream[cursor]
    <3>1. cursor + 1 \in 2..Len(outbox[Me]) /\ (cursor + 1) - 1 = cursor
      BY <1>1, <1>2, <2>2
    <3>2. cursor \in 1..(Cardinality(registry.assets) + 2)
      BY <1>2, <1>5, <2>1, <2>2
    <3> QED BY <2>1, <3>1, <3>2
  <2> QED BY <1>2, <1>4, <1>5, <1>6, <2>1, <2>2 DEF IsStream
<1> QED BY <1>3, <1>7, <1>8 DEF BothOK, AnswerOK

(* The answer, in HelloSent; later nothing changes but the place.           *)
LEMMA AnswerKeepsBoth ==
  ASSUME BothOK, ClientReceives, HandleAnswer(outbox[Me][cursor + 1])
  PROVE  BothOK'
<1> DEFINE message == outbox[Me][cursor + 1]
<1>1. /\ cursor < Len(outbox[Me]) /\ cursor' = cursor + 1
      /\ UNCHANGED <<vars, told, receiver, verdict, events, uplink>>
      /\ message.type \in {"Welcome", "Reject"}
      /\ handshake' = AfterAnswer(handshake, message)
  BY DEF ClientReceives, HandleAnswer
<1>2. cursor = 0
  BY <1>1, NextFrame DEF IsManifestMessage
<1>3. Me \in connected /\ message = outbox[Me][1]
  BY <1>1, <1>2, NextFrame
<1>4. handshake.state \notin {"Rejected", "Compatible"}
  BY <1>2, <1>3 DEF BothOK, ReadingOK
<1>5. AtRest
  BY <1>4 DEF BothOK, ClientOK
<1>6. \/ /\ told = "Connected" /\ handshake.state = "HelloSent"
         /\ message.type = "Reject"
         /\ handshake' = [state |-> "Rejected", welcome |-> {}]
      \/ /\ told = "Connected" /\ handshake.state = "HelloSent"
         /\ message.type = "Welcome"
         /\ handshake' = [state |-> "Compatible", welcome |-> message.capabilities]
      \/ /\ told # "Connected"
         /\ handshake' = handshake
  <2>1. CASE told = "Connected"
    <3>1. handshake.state = "HelloSent"
      BY <1>4, <2>1 DEF BothOK, ClientOK
    <3>2. \/ message.type = "Reject"
          \/ message.type = "Welcome" /\ message.capabilities \subseteq Identity.capabilities
      BY <1>1, <1>2, <1>3, NextFrame
    <3> HIDE DEF message
    <3> QED BY <1>1, <2>1, <3>1, <3>2 DEF AfterAnswer
  <2>2. CASE told # "Connected"
    <3>1. handshake.state = "Disconnected"
      BY <2>2 DEF BothOK, ClientOK, NoWelcome
    <3> HIDE DEF message
    <3> QED BY <1>1, <2>2, <3>1 DEF AfterAnswer
  <2> QED BY <2>1, <2>2
<1>7. ClientOK'
  BY <1>1, <1>5, <1>6 DEF BothOK, ClientOK, AtRest, Undecided, ReportsTrue, Decided
<1>8. UplinkOK'
  BY <1>1, ServerStands DEF BothOK, UplinkOK, ReportsTrue, Decided
<1>9. SessionTrue'
  BY <1>1, ServerStands DEF BothOK, SessionTrue, Decided
<1>10. ReadingOK'
  <2>1. Len(outbox[Me]) \in Nat
    BY LenProperties DEF BothOK, AnswerOK, IsSequence
  <2>2. cursor' = 1 /\ cursor' \in 0..Len(outbox'[Me]) /\ outbox' = outbox /\ registry' = registry
    BY <1>1, <1>2, <2>1, ServerStands
  <2>3. ReceiverAfter(BuildManifest(registry'), 0) = receiver'
    BY <1>1, <1>5 DEF ReceiverAfter, AtRest
  <2>4. told # "Connected" => handshake'.state = "Disconnected"
    BY <1>6 DEF BothOK, ClientOK, NoWelcome
  <2>5. handshake'.state # "HelloSent"
    BY <1>6, <2>4
  <2>6. handshake'.state = "Rejected" => outbox'[Me][1].type = "Reject"
    BY <1>3, <1>6, <2>2, <2>4
  <2>7. handshake'.state = "Compatible" => /\ outbox'[Me][1].type = "Welcome"
                                           /\ outbox'[Me][1].capabilities = handshake'.welcome
    BY <1>3, <1>6, <2>2, <2>4
  <2> QED BY <2>2, <2>3, <2>5, <2>6, <2>7 DEF ReadingOK
<1> QED BY <1>1, <1>7, <1>8, <1>9, <1>10, ServerStands DEF BothOK

(* A message of the manifest: it is never refused, so no error is reported  *)
(* for it; it completes the manifest only once, and nothing is decided      *)
(* before.                                                                  *)
LEMMA ManifestKeepsBoth ==
  ASSUME BothOK, ClientReceives, HandleManifest(outbox[Me][cursor + 1])
  PROVE  BothOK'
<1> DEFINE message == outbox[Me][cursor + 1]
           result == HandleResult(receiver, message)
           size == Cardinality(registry.assets)
           m == BuildManifest(registry)
<1>1. /\ cursor < Len(outbox[Me]) /\ cursor' = cursor + 1
      /\ UNCHANGED <<vars, told, handshake>>
      /\ message.type \notin {"Welcome", "Reject"}
  BY DEF ClientReceives, HandleManifest, clientVars
<1>2. Me \in connected /\ cursor \in Nat /\ cursor # 0
  BY <1>1, NextFrame
<1>3. /\ cursor \in 1..(size + 2) /\ cursor - 1 \in 0..(size + 1) /\ (cursor - 1) + 1 = cursor
      /\ message = ManifestStream(m)[cursor]
      /\ IsManifestMessage(message)
      /\ size \in Nat
  <2>1. size \in Nat
    BY StreamShape DEF BothOK, IInv, HostOK, RegistryOK, RegistryGood
  <2>2. cursor \in 1..(size + 2) /\ message = Stream[cursor] /\ IsManifestMessage(Stream[cursor])
    BY <1>1, <1>2, NextFrame
  <2> QED BY <1>2, <2>1, <2>2 DEF Stream
<1>4. Len(outbox[Me]) \in Nat /\ cursor' \in 0..Len(outbox'[Me])
  <2>1. Len(outbox[Me]) \in Nat
    BY LenProperties DEF BothOK, AnswerOK, IsSequence
  <2> QED BY <1>1, <1>2, <2>1, ServerStands
<1>5. CASE handshake.state # "Compatible"
  <2>1. UNCHANGED clientVars
    BY <1>5 DEF ClientReceives, HandleManifest
  <2>2. handshake.state # "HelloSent"
    BY <1>2 DEF BothOK, ReadingOK
  <2>3. ClientOK' /\ SessionTrue'
    BY <1>1, <2>1, ServerStands
    DEF BothOK, ClientOK, AtRest, Undecided, ReportsTrue, Decided, clientVars, SessionTrue
  <2>4. UplinkOK'
    BY <1>1, <2>1, ServerStands DEF BothOK, UplinkOK, ReportsTrue, Decided, clientVars
  <2>5. ReadingOK'
    BY <1>1, <1>2, <1>4, <1>5, <2>2, ServerStands DEF BothOK, ReadingOK
  <2> QED BY <1>1, <2>3, <2>4, <2>5, ServerStands DEF BothOK
<1>6. CASE handshake.state = "Compatible"
  <2>1. receiver = ReceiverAfter(m, cursor - 1)
    BY <1>2, <1>6 DEF BothOK, ReadingOK
  <2>2. RegistryGood(registry)
    BY DEF BothOK, IInv, HostOK, RegistryOK
  <2>3. /\ result = IF cursor - 1 = size + 1 THEN "Complete" ELSE "Accepted"
        /\ AfterHandle(receiver, message) = ReceiverAfter(m, cursor)
    BY <1>3, <2>1, <2>2, StreamTaken
  <2>4. told = "Connected"
    BY <1>6 DEF BothOK, ClientOK, NoWelcome
  <2>5. /\ receiver' = ReceiverAfter(m, cursor)
        /\ verdict' = [id \in AssetIds |->
                         IF result = "Complete" /\ id \in Announced(receiver)
                              /\ verdict[id] \in {"None", "Failed"}
                         THEN "Pending" ELSE verdict[id]]
        /\ SendEach((IF result \in {"InvalidOrder", "InvalidManifest"}
                          /\ message.type = "ManifestAsset"
                     THEN <<Report("AssetError", message.revision, message.asset.id)>>
                     ELSE <<>>) \o events)
        /\ events' = <<>>
    BY <1>6, <2>3 DEF ClientReceives, HandleManifest
  <2> HIDE DEF result, message
  <2>6. SendEach(events)
    <3>1. PICK S : events \in Seq(S)
      BY DEF BothOK, ClientOK, IsSequence
    <3>2. <<>> \o events = events
      BY <3>1
    <3>3. result \notin {"InvalidOrder", "InvalidManifest"}
      BY <2>3
    <3>4. SendEach(<<>> \o events)
      BY <2>5, <3>3
    <3> QED BY <3>2, <3>4
  <2>7. /\ Len(m.assets) = size
        /\ receiver.state = (IF cursor - 1 = 0 THEN "Idle" ELSE "Receiving")
        /\ receiver'.state = (IF cursor = size + 2 THEN "Complete" ELSE "Receiving")
    <3>1. Len(m.assets) = size
      BY <2>2, StreamShape DEF RegistryGood
    <3>2. cursor # 0 /\ cursor - 1 # size + 2
      BY <1>3
    <3> HIDE DEF m, size
    <3> QED BY <2>1, <2>5, <3>1, <3>2 DEF ReceiverAfter, IdleReceiver
  <2>8. Undecided
    BY <2>7 DEF BothOK, ClientOK
  <2>9. /\ verdict' \in [AssetIds -> {"None", "Pending", "Ready", "Failed"}]
        /\ result # "Complete" => verdict' = verdict
        /\ Decided("Ready") = {} /\ Decided("Failed") = {}
    <3>1. verdict \in [AssetIds -> {"None", "Pending", "Ready", "Failed"}]
      BY DEF BothOK, ClientOK
    <3> QED BY <2>5, <2>8, <3>1 DEF Undecided, Decided
  <2>10. /\ IsSequence(uplink')
         /\ \A n \in DOMAIN uplink' :
              /\ uplink'[n].type = "AssetReady" => uplink'[n].id \in Decided("Ready")
              /\ uplink'[n].type = "AssetError" => uplink'[n].id \in Decided("Failed")
         /\ \A n \in DOMAIN uplink' :
              uplink'[n].type = "Hello" => n \in DOMAIN uplink /\ uplink'[n] = uplink[n]
    <3>1. /\ IsSequence(uplink) /\ IsSequence(events)
          /\ ReportsTrue(uplink) /\ ReportsTrue(events)
          /\ \A n \in DOMAIN events : events[n].type # "Hello"
      BY <2>4 DEF BothOK, ClientOK, UplinkOK
    <3> QED BY <2>6, <3>1, ReportsSent DEF ReportsTrue
  <2>11. ClientOK'
    <3>1. IsSequence(<<>>) /\ DOMAIN <<>> = {}
      <4>1. <<>> \in Seq({})
        OBVIOUS
      <4> QED BY <4>1 DEF IsSequence
    <3>2. receiver'.state # "Complete" => Undecided'
      <4>1. receiver'.state # "Complete" => verdict' = verdict
        BY <1>3, <2>3, <2>7, <2>9
      <4> QED BY <2>8, <4>1 DEF Undecided
    <3>3. receiver'.state # "Failed"
      BY <2>7
    <3>4. events' = <<>> /\ handshake' = handshake /\ told' = told
      BY <1>1, <2>5
    <3> QED BY <1>6, <2>4, <2>9, <3>1, <3>2, <3>3, <3>4 DEF BothOK, ClientOK, ReportsTrue
  <2>12. UplinkOK'
    <3>1. \A n \in DOMAIN uplink' : uplink'[n].type \notin {"AssetReady", "AssetError"}
      BY <2>9, <2>10
    <3>2. told' = "Connected"
      BY <1>1, <2>4
    <3> QED BY <2>10, <3>1, <3>2, ServerStands, <1>1 DEF BothOK, UplinkOK, ReportsTrue
  <2>13. SessionTrue'
    <3>1. sessions'[Me].ready = {} /\ sessions'[Me].failed = {}
      BY <1>1, <2>4, <2>9, ServerStands DEF BothOK, SessionTrue
    <3> QED BY <1>1, <2>4, <3>1 DEF SessionTrue
  <2>14. ReadingOK'
    <3>1. /\ registry' = registry /\ outbox' = outbox /\ handshake' = handshake
          /\ cursor' > 0 /\ cursor' - 1 = cursor
      BY <1>1, <1>2, ServerStands
    <3>2. receiver' = ReceiverAfter(BuildManifest(registry'), cursor' - 1)
      BY <2>5, <3>1
    <3>3. /\ outbox[Me][1].type = "Welcome"
          /\ outbox[Me][1].capabilities = handshake.welcome
      BY <1>2, <1>6 DEF BothOK, ReadingOK
    <3> HIDE DEF m
    <3> QED BY <1>4, <1>6, <3>1, <3>2, <3>3 DEF ReadingOK
  <2> QED BY <1>1, <2>11, <2>12, <2>13, <2>14, ServerStands DEF BothOK
<1> QED BY <1>5, <1>6

-----------------------------------------------------------------------------
(* All steps.                                                               *)
LEMMA BothOKAtFirst == SystemInit => BothOK
<1> SUFFICES ASSUME SystemInit PROVE BothOK
  OBVIOUS
<1>1. IInv /\ phase = "Unloaded" /\ connected = {}
  BY InitHolds DEF SystemInit, Init
<1>2. /\ outbox = [p \in Players |-> <<>>] /\ outbox[Me] = <<>>
      /\ players[Me] = Untracked /\ sessions[Me] = NoSession
  BY MeAssumption DEF SystemInit, Init, TransportInit, TrackerInit, PublicationInit
<1>3. IsSequence(<<>>) /\ Len(<<>>) = 0 /\ DOMAIN <<>> = {}
  <2>1. <<>> \in Seq({})
    OBVIOUS
  <2> QED BY <2>1 DEF IsSequence
<1>4. /\ handshake = NoWelcome /\ AtRest /\ receiver.state = "Idle" /\ uplink = <<>>
      /\ verdict \in [AssetIds -> {"None", "Pending", "Ready", "Failed"}]
  BY DEF SystemInit, ClientInit, AtRest, Undecided, IdleReceiver
<1>5. told = "Nothing" /\ cursor = 0
  BY DEF SystemInit
<1>6. ClientOK
  BY <1>3, <1>4, <1>5 DEF ClientOK, ReportsTrue, AtRest
<1>7. UplinkOK
  BY <1>3, <1>4, <1>5 DEF UplinkOK
<1>8. SessionTrue
  BY <1>2, <1>5 DEF SessionTrue, Untracked, Entry, NoSession, Session
<1>9. AnswerOK
  BY <1>2, <1>3 DEF AnswerOK
<1>10. ReadingOK
  BY <1>2, <1>3, <1>4, <1>5 DEF ReadingOK, NoWelcome
<1> QED BY <1>1, <1>6, <1>7, <1>8, <1>9, <1>10 DEF BothOK

LEMMA BothOKNext == BothOK /\ [SystemNext]_systemVars => BothOK'
<1> SUFFICES ASSUME BothOK, [SystemNext]_systemVars PROVE BothOK'
  OBVIOUS
<1>1. CASE HostStep
  BY <1>1, HostKeepsBoth
<1>2. CASE Join
  BY <1>2, JoinKeepsBoth
<1>3. CASE LoseLink
  BY <1>3, LossKeepsBoth DEF LoseLink
<1>4. CASE TellConnected
  BY <1>4, ConnectedKeepsBoth
<1>5. CASE TellDisconnected
  BY <1>5, DisconnectedKeepsBoth
<1>6. CASE ServerNotices
  BY <1>6, NoticeKeepsBoth
<1>7. CASE ServerReceives
  BY <1>7, HelloKeepsBoth, ReportKeepsBoth DEF ServerReceives
<1>8. CASE ClientReceives
  BY <1>8, AnswerKeepsBoth, ManifestKeepsBoth DEF ClientReceives
<1>9. CASE ClientPumps
  BY <1>9, PumpKeepsBoth
<1>10. CASE \E id \in AssetIds : WorkerSettles(id)
  BY <1>10, SettlementKeepsBoth
<1>11. CASE UNCHANGED systemVars
  BY <1>11, LossKeepsBoth DEF systemVars, linkVars
<1> QED BY <1>1, <1>2, <1>3, <1>4, <1>5, <1>6, <1>7, <1>8, <1>9, <1>10, <1>11 DEF SystemNext

(* The two ends hold together in every reachable state.                     *)
THEOREM BothHold == SystemSpec => []BothOK
BY BothOKAtFirst, BothOKNext, PTL DEF SystemSpec

(* A compatible client was welcomed with the capabilities the server has on *)
(* record, and is not rejected afterwards on that connection                *)
(* (client/src/protocol/handshake.cpp, HandleIncoming;                      *)
(* server/src/player_capabilities.cpp, HandleHello).                        *)
THEOREM SidesAgree == SystemSpec => []BothSidesAgree
<1>1. BothOK => BothSidesAgree
  <2> SUFFICES ASSUME BothOK, Together PROVE
        /\ handshake.state = "Compatible" =>
             /\ players[Me].state \in {"Compatible", "Unknown"}
             /\ players[Me].state = "Compatible" => players[Me].negotiated = handshake.welcome
        /\ handshake.state = "Rejected" => players[Me].state # "Compatible"
    BY DEF BothSidesAgree
  <2>1. Me \in connected
    BY DEF Together
  <2>2. outbox[Me] = <<>> => cursor = 0
    <3>1. Len(<<>>) = 0
      OBVIOUS
    <3> QED BY <3>1 DEF BothOK, ReadingOK
  <2>3. handshake.state \in {"Compatible", "Rejected"} => outbox[Me] # <<>>
    BY <2>1, <2>2 DEF BothOK, ReadingOK
  <2> QED BY <2>1, <2>3 DEF BothOK, AnswerOK, ReadingOK, Rejected, Welcomed
<1> QED BY <1>1, BothHold, PTL

(* What the server records about a client's assets the client has decided   *)
(* in this session (server/src/asset_publication.cpp, HandleIncoming;       *)
(* client/src/core/runtime.cpp, PumpAssetResults).                          *)
THEOREM RecordsHold == SystemSpec => []RecordsAreTrue
<1>1. BothOK => RecordsAreTrue
  BY DEF BothOK, SessionTrue, Decided, RecordsAreTrue, Together
<1> QED BY <1>1, BothHold, PTL

(* The client's receiver refuses nothing this server sends it               *)
(* (client/src/assets/manager.cpp, ManifestReceiver::Handle;                *)
(* server/src/asset_publication.cpp, OnPlayerCompatible).                   *)
THEOREM ManifestIsTaken == SystemSpec => []ManifestNeverRefused
<1>1. BothOK => ManifestNeverRefused
  BY DEF BothOK, ClientOK, ManifestNeverRefused
<1> QED BY <1>1, BothHold, PTL

-----------------------------------------------------------------------------
(* The runtime uses the manager as AssetVerdicts describes it, which        *)
(* AssetManager implements: a manifest is announced once in a session and   *)
(* before any verdict.                                                      *)
Manager == INSTANCE AssetVerdicts WITH halted <- FALSE, lossy <- FALSE

THEOREM SystemImplementsVerdicts ==
  SystemSpec => Manager!Init /\ [][Manager!Next]_(Manager!abstractVars)
<1>1. SystemInit => Manager!Init
  BY DEF SystemInit, ClientInit, Manager!Init
<1>2. BothOK /\ [SystemNext]_systemVars => [Manager!Next]_(Manager!abstractVars)
  <2> SUFFICES ASSUME BothOK, [SystemNext]_systemVars
               PROVE  Manager!Next \/ verdict' = verdict
    BY DEF Manager!abstractVars
  <2>1. CASE TellConnected \/ TellDisconnected
    <3>1. verdict' = [id \in AssetIds |-> "None"]
      BY <2>1 DEF TellConnected, TellDisconnected, HandleConnected, HandleDisconnected, ResetSession
    <3> QED BY <3>1 DEF Manager!Next, Manager!NewSession
  <2>2. CASE \E id \in AssetIds : WorkerSettles(id)
    <3>1. PICK id \in AssetIds : Settle(id)
      BY <2>2 DEF WorkerSettles
    <3>2. Manager!Settle(id)
      BY <3>1 DEF Settle, Manager!Settle
    <3> QED BY <3>2 DEF Manager!Next
  <2>3. CASE ClientReceives /\ HandleManifest(outbox[Me][cursor + 1])
    <3> DEFINE message == outbox[Me][cursor + 1]
               complete == HandleResult(receiver, message) = "Complete"
               S == {id \in AssetIds : id \in Announced(receiver)}
    <3>1. \/ verdict' = verdict
          \/ verdict' = [id \in AssetIds |->
                           IF complete /\ id \in Announced(receiver)
                                /\ verdict[id] \in {"None", "Failed"}
                           THEN "Pending" ELSE verdict[id]]
      BY <2>3 DEF HandleManifest, clientVars
    <3>2. complete => receiver.state # "Complete"
      BY DEF HandleResult, EndInOrder
    <3> HIDE DEF complete
    <3>3. verdict = [id \in AssetIds |-> verdict[id]]
      BY DEF BothOK, ClientOK
    <3>4. CASE ~complete
      BY <3>1, <3>3, <3>4
    <3>5. CASE complete
      <4>1. \A id \in AssetIds : verdict[id] = "None"
        BY <3>2, <3>5 DEF BothOK, ClientOK, Undecided
      <4>2. verdict' = verdict \/ verdict' = [id \in AssetIds |-> IF id \in S THEN "Pending" ELSE "None"]
        BY <3>1, <3>5, <4>1
      <4>3. verdict' = verdict \/ Manager!Announce(S)
        BY <4>1, <4>2 DEF Manager!Announce
      <4>4. S \in SUBSET AssetIds
        OBVIOUS
      <4> QED BY <4>3, <4>4 DEF Manager!Next
    <3> QED BY <3>4, <3>5
  <2>4. CASE ClientReceives /\ HandleAnswer(outbox[Me][cursor + 1])
    BY <2>4 DEF HandleAnswer
  <2>5. CASE HostStep \/ Join \/ LoseLink \/ ServerNotices \/ ServerReceives \/ ClientPumps
             \/ UNCHANGED systemVars
    BY <2>5 DEF HostStep, Join, LoseLink, ServerNotices, ServerReceives, ClientPumps,
                PumpAssetResults, clientVars, systemVars
  <2> QED BY <2>1, <2>2, <2>3, <2>4, <2>5 DEF SystemNext, ClientReceives
<1> QED BY <1>1, <1>2, BothHold, PTL DEF SystemSpec
=============================================================================
