------------------------ MODULE LivePublicationProofs ------------------------
(***************************************************************************)
(* Publication from a registry that changes, for any number of players,    *)
(* any assets and reports, and every limit and word size.                  *)
(***************************************************************************)
EXTENDS LivePublication, ManifestProofs

-----------------------------------------------------------------------------
(* One player's channel.  It carries the first messages of the manifest of  *)
(* the registry as it was when the stream was built, `reg'; the client has  *)
(* read the first `count' of them and holds r.                              *)
Stream(reg) == ManifestStream(BuildManifest(reg))

ChannelOK(session, frames, count, r, reg) ==
  /\ IsSequence(frames)
  /\ Len(frames) <= Len(Stream(reg))
  /\ \A n \in 1..Len(frames) : frames[n] = Stream(reg)[n]
  /\ count \in 0..Len(frames)
  /\ r = ReceiverAfter(BuildManifest(reg), count)
  /\ IsPublishable(session) => frames = <<>>
  /\ AcceptsReports(session) <=> Len(frames) = Len(Stream(reg))
  /\ AcceptsReports(session) =>
       session.revision = reg.revision /\ session.expected = Ids(reg.assets)

(* A revision that is not the largest stands for one set of assets.         *)
SameRevisionSameAssets(old, new) ==
  old.revision = new.revision => old.assets = new.assets \/ new.revision = WordSize - 1

(* The registries the players' streams were built from.                     *)
SnapshotsOK(snap) ==
  /\ snap = [p \in Players |-> snap[p]]
  /\ \A p \in Players : /\ RegistryGood(snap[p])
                        /\ snap[p].revision <= registry.revision
                        /\ SameRevisionSameAssets(snap[p], registry)
  /\ \A p, q \in Players : SameRevisionSameAssets(snap[p], snap[q])

ChannelsOK(snap) ==
  \A p \in Players : ChannelOK(sessions[p], outbox[p], read[p], receiver[p], snap[p])

MapsOK ==
  /\ sessions \in [Players -> Sessions]
  /\ outbox = [p \in Players |-> outbox[p]]
  /\ read = [p \in Players |-> read[p]]
  /\ receiver = [p \in Players |-> receiver[p]]

IInv ==
  /\ RegistryGood(registry)
  /\ MapsOK
  /\ \E snap : SnapshotsOK(snap) /\ ChannelsOK(snap)

-----------------------------------------------------------------------------
(* The length of a stream.                                                  *)
LEMMA StreamLength ==
  ASSUME NEW reg, RegistryGood(reg)
  PROVE  /\ Cardinality(reg.assets) \in Nat
         /\ Len(Stream(reg)) = Cardinality(reg.assets) + 2
         /\ Len(BuildManifest(reg).assets) = Cardinality(reg.assets)
         /\ IsStream(Stream(reg))
BY StreamShape DEF RegistryGood, Stream

(* An empty channel may belong to any stream.                               *)
LEMMA EmptyChannelOK ==
  ASSUME NEW reg, RegistryGood(reg), NEW session, ~AcceptsReports(session)
  PROVE  ChannelOK(session, <<>>, 0, IdleReceiver, reg)
<1>1. IsSequence(<<>>) /\ Len(<<>>) = 0
  <2>1. <<>> \in Seq({})
    OBVIOUS
  <2> QED BY <2>1 DEF IsSequence
<1>2. ReceiverAfter(BuildManifest(reg), 0) = IdleReceiver
  BY DEF ReceiverAfter
<1> QED BY <1>1, <1>2, StreamLength DEF ChannelOK

(* OnPlayerCompatible fills it.                                             *)
LEMMA PublishedChannelOK ==
  ASSUME NEW reg, RegistryGood(reg), NEW delivered \in 0..Len(Stream(reg))
  PROVE  ChannelOK(AfterStream(reg, delivered),
                   <<>> \o (<<>> \o SubSeq(Stream(reg), 1, delivered)),
                   0, IdleReceiver, reg)
<1> DEFINE stream == Stream(reg)
           part == SubSeq(stream, 1, delivered)
           session == AfterStream(reg, delivered)
<1>1. /\ IsStream(part) /\ Len(part) = delivered
      /\ \A n \in 1..delivered : part[n] = stream[n]
  BY StreamLength, PartOfStream
<1>2. <<>> \o (<<>> \o part) = part
  BY <1>1, ConcatEmptySeq DEF IsStream, IsSequence
<1>3. /\ Len(stream) = Cardinality(reg.assets) + 2
      /\ Cardinality(reg.assets) \in Nat
  BY StreamLength
<1>4. AcceptsReports(session) <=> delivered = Len(stream)
  BY <1>3 DEF AfterStream, AcceptsReports
<1>5. ~IsPublishable(session)
  BY DEF AfterStream, IsPublishable
<1>6. session.revision = reg.revision /\ session.expected = Ids(reg.assets)
  BY DEF AfterStream
<1>7. ReceiverAfter(BuildManifest(reg), 0) = IdleReceiver
  BY DEF ReceiverAfter
<1> HIDE DEF part, session
<1>8. ChannelOK(session, part, 0, IdleReceiver, reg)
  BY <1>1, <1>3, <1>4, <1>5, <1>6, <1>7 DEF ChannelOK, IsStream
<1> QED BY <1>2, <1>8 DEF part, session

(* The client reads on.                                                     *)
LEMMA ReadChannelOK ==
  ASSUME NEW reg, RegistryGood(reg), NEW session, NEW frames, NEW count, NEW r,
         ChannelOK(session, frames, count, r, reg), count < Len(frames)
  PROVE  ChannelOK(session, frames, count + 1, AfterHandle(r, frames[count + 1]), reg)
<1>1. /\ Len(Stream(reg)) = Cardinality(reg.assets) + 2
      /\ Cardinality(reg.assets) \in Nat
  BY StreamLength
<1>2. Len(frames) \in Nat
  BY LenProperties DEF ChannelOK, IsSequence
<1>3. /\ count \in 0..(Cardinality(reg.assets) + 1)
      /\ count + 1 \in 1..Len(frames) /\ count + 1 \in 0..Len(frames)
  BY <1>1, <1>2 DEF ChannelOK
<1>4. frames[count + 1] = ManifestStream(BuildManifest(reg))[count + 1]
  BY <1>3 DEF ChannelOK, Stream
<1>5. AfterHandle(r, frames[count + 1]) = ReceiverAfter(BuildManifest(reg), count + 1)
  BY <1>3, <1>4, StreamTaken DEF ChannelOK
<1> QED BY <1>3, <1>5 DEF ChannelOK

(* Another session for the same channel.                                    *)
LEMMA ReportedChannelOK ==
  ASSUME NEW session, NEW frames, NEW count, NEW r, NEW reg,
         ChannelOK(session, frames, count, r, reg), NEW after,
         AcceptsReports(after) <=> AcceptsReports(session),
         IsPublishable(after) <=> IsPublishable(session),
         after.revision = session.revision, after.expected = session.expected
  PROVE  ChannelOK(after, frames, count, r, reg)
BY DEF ChannelOK

(* No message changes what a session has been sent.                         *)
LEMMA ReportedSession ==
  ASSUME NEW s \in Sessions, NEW message
  PROVE  LET after == AfterMessage(s, message) IN
         /\ after \in Sessions
         /\ AcceptsReports(after) <=> AcceptsReports(s)
         /\ IsPublishable(after) <=> IsPublishable(s)
         /\ after.revision = s.revision /\ after.expected = s.expected
<1>1. CASE AcceptsReports(s) /\ message.id \in s.expected
  <2> DEFINE ready == AfterReady(s, message.id)
             error == AfterError(s, message.id)
  <2>1. message.id \in Nat
    BY <1>1 DEF Sessions
  <2>2. /\ ready.state \in {"AssetsReady", "ManifestComplete"}
        /\ ready.revision = s.revision /\ ready.expected = s.expected
    BY <1>1 DEF AfterReady, AcceptsReports, Sessions
  <2>3. /\ error.state = "ManifestComplete"
        /\ error.revision = s.revision /\ error.expected = s.expected
    BY DEF AfterError, Sessions
  <2>4. ready \in Sessions
    BY <1>1, <2>1 DEF AfterReady, AcceptsReports, Sessions, SessionStates
  <2>5. error \in Sessions
    BY <2>1 DEF AfterError, Sessions, SessionStates
  <2>6. AfterMessage(s, message) \in {s, ready, error}
    BY DEF AfterMessage
  <2> HIDE DEF ready, error
  <2> QED BY <1>1, <2>2, <2>3, <2>4, <2>5, <2>6 DEF AcceptsReports, IsPublishable
<1>2. CASE ~(AcceptsReports(s) /\ message.id \in s.expected)
  BY <1>2 DEF AfterMessage, ConcernsManifest
<1> QED BY <1>1, <1>2

-----------------------------------------------------------------------------
(* A step of one player replaces that player's channel, perhaps by one that *)
(* belongs to the present registry.                                         *)
LEMMA OneChannelChanges ==
  ASSUME IInv, NEW p \in Players, NEW snap, SnapshotsOK(snap), ChannelsOK(snap),
         NEW reg \in {snap[p], registry},
         NEW session \in Sessions, NEW frames, NEW count, NEW r,
         ChannelOK(session, frames, count, r, reg),
         registry' = registry,
         sessions' = [sessions EXCEPT ![p] = session],
         outbox' = [outbox EXCEPT ![p] = frames],
         read' = [read EXCEPT ![p] = count],
         receiver' = [receiver EXCEPT ![p] = r]
  PROVE  IInv'
<1> DEFINE new == [snap EXCEPT ![p] = reg]
<1>1. MapsOK'
  BY DEF IInv, MapsOK
<1>2. /\ sessions'[p] = session /\ outbox'[p] = frames
      /\ read'[p] = count /\ receiver'[p] = r /\ new[p] = reg
  BY DEF IInv, MapsOK, SnapshotsOK
<1>3. \A q \in Players \ {p} :
        /\ sessions'[q] = sessions[q] /\ outbox'[q] = outbox[q]
        /\ read'[q] = read[q] /\ receiver'[q] = receiver[q] /\ new[q] = snap[q]
  BY DEF IInv, MapsOK, SnapshotsOK
<1>4. new = [q \in Players |-> new[q]]
  BY DEF SnapshotsOK
<1>5. RegistryGood(registry) /\ registry.revision \in Nat
  BY DEF IInv, RegistryGood
<1> HIDE DEF new
<1>6. ASSUME NEW q \in Players
      PROVE  /\ RegistryGood(new[q])
             /\ new[q].revision <= registry.revision
             /\ SameRevisionSameAssets(new[q], registry)
  <2>1. CASE new[q] = registry
    BY <1>5, <2>1 DEF SameRevisionSameAssets
  <2>2. CASE new[q] = snap[q]
    BY <2>2 DEF SnapshotsOK
  <2> QED BY <1>2, <1>3, <2>1, <2>2
<1>7. ASSUME NEW q \in Players, NEW o \in Players
      PROVE  SameRevisionSameAssets(new[q], new[o])
  <2>1. CASE new[q] = registry \/ new[o] = registry
    BY <1>6, <2>1 DEF SameRevisionSameAssets
  <2>2. CASE new[q] = snap[q] /\ new[o] = snap[o]
    BY <2>2 DEF SnapshotsOK
  <2> QED BY <1>2, <1>3, <2>1, <2>2
<1>8. SnapshotsOK(new)'
  BY <1>4, <1>6, <1>7 DEF SnapshotsOK
<1>9. ASSUME NEW q \in Players
      PROVE  ChannelOK(sessions'[q], outbox'[q], read'[q], receiver'[q], new[q])
  <2>1. CASE q = p
    BY <1>2, <2>1
  <2>2. CASE q # p
    BY <1>3, <2>2 DEF ChannelsOK
  <2> QED BY <2>1, <2>2
<1>10. ChannelsOK(new)'
  BY <1>9 DEF ChannelsOK
<1> QED BY <1>1, <1>5, <1>8, <1>10 DEF IInv, RegistryGood

(* The owner's changes advance the revision past every stream's.            *)
LEMMA OwnerKeepsInvariant ==
  ASSUME IInv, RegistryGood(registry'), Advanced(registry, registry'),
         UNCHANGED <<sessions, outbox, read, receiver>>
  PROVE  IInv'
<1>1. PICK snap : SnapshotsOK(snap) /\ ChannelsOK(snap)
  BY DEF IInv
<1>2. registry.revision \in Nat /\ registry'.revision \in Nat /\ WordSize \in Nat
  BY LimitsAssumption DEF IInv, RegistryGood
<1>3. ASSUME NEW p \in Players
      PROVE  /\ snap[p].revision <= registry'.revision
             /\ SameRevisionSameAssets(snap[p], registry')
  <2>1. snap[p].revision \in Nat /\ snap[p].revision <= registry.revision
    BY <1>1 DEF SnapshotsOK, RegistryGood
  <2>2. snap[p].revision <= registry'.revision
    BY <1>2, <2>1 DEF Advanced
  <2>3. snap[p].revision = registry'.revision => registry'.revision = registry.revision
    BY <1>2, <2>1 DEF Advanced
  <2> QED BY <2>2, <2>3 DEF Advanced, SameRevisionSameAssets
<1>4. SnapshotsOK(snap)'
  BY <1>1, <1>3 DEF SnapshotsOK
<1>5. ChannelsOK(snap)' /\ MapsOK'
  BY <1>1 DEF ChannelsOK, IInv, MapsOK
<1>6. RegistryGood(registry)'
  BY DEF RegistryGood
<1> QED BY <1>4, <1>5, <1>6 DEF IInv

(* Registering, removing and clearing.                                      *)
LEMMA OwnerSteps ==
  ASSUME IInv, \/ \E asset \in Catalogue : Register(asset)
               \/ \E id \in Ids(Catalogue) : Unregister(id)
               \/ Clear
  PROVE  IInv'
<1>1. RegistryGood(registry)
  BY DEF IInv
<1>2. UNCHANGED <<sessions, outbox, read, receiver>>
  BY DEF Register, Unregister, Clear, OwnerUnchanged, clientVars
<1>3. ASSUME NEW asset \in Catalogue, Register(asset)
      PROVE  RegistryGood(registry') /\ Advanced(registry, registry')
  BY <1>1, <1>3, RegisterKeepsGood, CatalogueAssumption DEF Register, RegisterAsset
<1>4. ASSUME NEW id, Unregister(id)
      PROVE  RegistryGood(registry') /\ Advanced(registry, registry')
  BY <1>1, <1>4, RemoveKeepsGood DEF Unregister, RemoveAsset
<1>5. ASSUME Clear
      PROVE  RegistryGood(registry') /\ Advanced(registry, registry')
  BY <1>1, <1>5, ClearKeepsGood DEF Clear, ClearAssets
<1> QED BY <1>2, <1>3, <1>4, <1>5, OwnerKeepsInvariant

(* Connecting and disconnecting start over.                                 *)
LEMMA ConnectionKeepsInvariant ==
  ASSUME IInv, NEW p \in Players, Connect(p) \/ Disconnect(p)
  PROVE  IInv'
<1>1. PICK snap : SnapshotsOK(snap) /\ ChannelsOK(snap)
  BY DEF IInv
<1>2. PICK session \in {Session("HandshakePending"), NoSession} :
        sessions' = [sessions EXCEPT ![p] = session]
  BY DEF Connect, Disconnect, SessionConnected, SessionDisconnected
<1>3. session \in Sessions /\ ~AcceptsReports(session)
  BY DEF Session, NoSession, Sessions, SessionStates, AcceptsReports
<1>4. /\ registry' = registry
      /\ outbox' = [outbox EXCEPT ![p] = <<>>]
      /\ read' = [read EXCEPT ![p] = 0]
      /\ receiver' = [receiver EXCEPT ![p] = IdleReceiver]
  BY DEF Connect, Disconnect, ForgetChannel, ClientStartsOver
<1>5. ChannelOK(session, <<>>, 0, IdleReceiver, snap[p])
  BY <1>1, <1>3, EmptyChannelOK DEF SnapshotsOK
<1> QED BY <1>1, <1>2, <1>3, <1>4, <1>5, OneChannelChanges

(* Publishing starts a stream of the present registry.                      *)
LEMMA PublishKeepsInvariant ==
  ASSUME IInv, NEW p \in Players, Publish(p)
  PROVE  IInv'
<1>1. PICK snap : SnapshotsOK(snap) /\ ChannelsOK(snap)
  BY DEF IInv
<1>2. PICK delivered : OnPlayerCompatible(p, <<>>, delivered)
  BY DEF Publish
<1> DEFINE session == AfterStream(registry, delivered)
           part == SubSeq(Stream(registry), 1, delivered)
<1>3. /\ IsPublishable(sessions[p])
      /\ delivered \in 0..Len(Stream(registry))
      /\ sessions' = [sessions EXCEPT ![p] = session]
      /\ outbox' = [outbox EXCEPT ![p] = outbox[p] \o (<<>> \o part)]
  BY <1>2 DEF OnPlayerCompatible, Transmit, Stream, IInv, MapsOK
<1>4. outbox[p] = <<>> /\ read[p] = 0 /\ receiver[p] = IdleReceiver
  <2>1. outbox[p] = <<>> /\ read[p] \in 0..Len(outbox[p])
        /\ receiver[p] = ReceiverAfter(BuildManifest(snap[p]), read[p])
    BY <1>1, <1>3 DEF ChannelsOK, ChannelOK
  <2>2. read[p] = 0
    BY <2>1
  <2> QED BY <2>1, <2>2 DEF ReceiverAfter
<1>5. /\ registry' = registry
      /\ read' = [read EXCEPT ![p] = 0]
      /\ receiver' = [receiver EXCEPT ![p] = IdleReceiver]
  BY <1>4 DEF Publish, clientVars, IInv, MapsOK
<1>6. session \in Sessions
  <2>1. /\ registry.revision \in Nat /\ Ids(registry.assets) \subseteq Nat
    BY DEF IInv, RegistryGood, Ids, AssetDescriptions
  <2> QED BY <2>1 DEF AfterStream, Sessions, SessionStates
<1>7. ChannelOK(session, <<>> \o (<<>> \o part), 0, IdleReceiver, registry)
  BY <1>3, PublishedChannelOK DEF IInv
<1> HIDE DEF session, part
<1> QED BY <1>1, <1>3, <1>4, <1>5, <1>6, <1>7, OneChannelChanges

(* Reading and reporting.                                                   *)
LEMMA ClientKeepsInvariant ==
  ASSUME IInv, NEW p \in Players, Receive(p) \/ \E message \in Reports : Report(p, message)
  PROVE  IInv'
<1>1. PICK snap : SnapshotsOK(snap) /\ ChannelsOK(snap)
  BY DEF IInv
<1>2. /\ RegistryGood(snap[p]) /\ sessions[p] \in Sessions
      /\ ChannelOK(sessions[p], outbox[p], read[p], receiver[p], snap[p])
  BY <1>1 DEF SnapshotsOK, ChannelsOK, IInv, MapsOK
<1>3. CASE Receive(p)
  <2>1. /\ registry' = registry
        /\ sessions' = [sessions EXCEPT ![p] = sessions[p]]
        /\ outbox' = [outbox EXCEPT ![p] = outbox[p]]
        /\ read' = [read EXCEPT ![p] = read[p] + 1]
        /\ receiver' = [receiver EXCEPT ![p] = AfterHandle(receiver[p], outbox[p][read[p] + 1])]
    BY <1>3 DEF Receive, IInv, MapsOK
  <2>2. ChannelOK(sessions[p], outbox[p], read[p] + 1,
                  AfterHandle(receiver[p], outbox[p][read[p] + 1]), snap[p])
    BY <1>2, <1>3, ReadChannelOK DEF Receive
  <2> QED BY <1>1, <1>2, <2>1, <2>2, OneChannelChanges
<1>4. ASSUME NEW message, Report(p, message)
      PROVE  IInv'
  <2> DEFINE session == AfterMessage(sessions[p], message)
  <2>1. /\ registry' = registry
        /\ sessions' = [sessions EXCEPT ![p] = session]
        /\ outbox' = [outbox EXCEPT ![p] = outbox[p]]
        /\ read' = [read EXCEPT ![p] = read[p]]
        /\ receiver' = [receiver EXCEPT ![p] = receiver[p]]
    BY <1>4 DEF Report, HandleIncoming, clientVars, IInv, MapsOK
  <2>2. /\ session \in Sessions
        /\ AcceptsReports(session) <=> AcceptsReports(sessions[p])
        /\ IsPublishable(session) <=> IsPublishable(sessions[p])
        /\ session.revision = sessions[p].revision
        /\ session.expected = sessions[p].expected
    BY <1>2, ReportedSession
  <2> HIDE DEF session
  <2>3. ChannelOK(session, outbox[p], read[p], receiver[p], snap[p])
    BY <1>2, <2>2, ReportedChannelOK
  <2> QED BY <1>1, <2>1, <2>2, <2>3, OneChannelChanges
<1> QED BY <1>3, <1>4

(* The invariant.                                                           *)
THEOREM InvariantHolds == Spec => []IInv
<1>1. Init => IInv
  <2> SUFFICES ASSUME Init PROVE IInv
    OBVIOUS
  <2>1. RegistryGood(registry) /\ registry.revision \in Nat
    BY EmptyRegistryGood DEF Init, RegistryInit, RegistryGood
  <2>2. NoSession \in Sessions /\ ~AcceptsReports(NoSession)
    BY DEF Session, NoSession, Sessions, SessionStates, AcceptsReports
  <2>3. MapsOK
    BY <2>2 DEF Init, PublicationInit, MapsOK
  <2>4. SnapshotsOK([p \in Players |-> registry])
    BY <2>1 DEF SnapshotsOK, SameRevisionSameAssets
  <2>5. ASSUME NEW p \in Players
        PROVE  ChannelOK(sessions[p], outbox[p], read[p], receiver[p], registry)
    <3>1. /\ sessions[p] = NoSession /\ outbox[p] = <<>> /\ read[p] = 0
          /\ receiver[p] = IdleReceiver
      BY DEF Init, PublicationInit
    <3> QED BY <2>1, <2>2, <3>1, EmptyChannelOK
  <2>6. ChannelsOK([p \in Players |-> registry])
    BY <2>5 DEF ChannelsOK
  <2> QED BY <2>1, <2>3, <2>4, <2>6 DEF IInv
<1>2. IInv /\ [Next]_vars => IInv'
  <2> SUFFICES ASSUME IInv, [Next]_vars PROVE IInv'
    OBVIOUS
  <2>1. CASE UNCHANGED vars
    BY <2>1 DEF vars, clientVars, IInv, MapsOK, SnapshotsOK, ChannelsOK
  <2> QED BY <2>1, OwnerSteps, ConnectionKeepsInvariant, PublishKeepsInvariant,
             ClientKeepsInvariant DEF Next
<1> QED BY <1>1, <1>2, PTL DEF Spec

-----------------------------------------------------------------------------
(* RegisterAsset, RemoveAsset and ClearAssets keep the registry's redundant *)
(* fields in agreement and within the client's limits, and its unsigned     *)
(* total never wraps (asset_registry.cpp).                                  *)
THEOREM RegistryIsConsistent == Spec => []RegistryConsistent
<1>1. IInv => RegistryConsistent
  <2> SUFFICES ASSUME IInv PROVE RegistryConsistent
    OBVIOUS
  <2> DEFINE assets == registry.assets
             names == {asset.name : asset \in assets}
             nameOf == [asset \in assets |-> asset.name]
             idOf == [asset \in assets |-> asset.id]
  <2>1. RegistryGood(registry)
    BY DEF IInv
  <2>2. registry.total = MapThenSumSet(LAMBDA asset : asset.size, registry.assets)
    <3>1. \A asset \in assets : asset.size \in Nat
      BY <2>1 DEF RegistryGood, AssetDescriptions
    <3> QED BY <2>1, <3>1, SumOfSizes DEF RegistryGood
  <2>3. nameOf \in Bijection(assets, names) /\ idOf \in Bijection(assets, Ids(assets))
    <3>1. nameOf \in [assets -> names] /\ idOf \in [assets -> Ids(assets)]
      BY DEF Ids
    <3>2. /\ \A a, b \in assets : nameOf[a] = nameOf[b] => a = b
          /\ \A a, b \in assets : idOf[a] = idOf[b] => a = b
      BY <2>1 DEF RegistryGood
    <3>3. /\ \A name \in names : \E a \in assets : nameOf[a] = name
          /\ \A id \in Ids(assets) : \E a \in assets : idOf[a] = id
      BY DEF Ids
    <3> HIDE DEF nameOf, idOf, names
    <3> QED BY <3>1, <3>2, <3>3, Fun_IsBij
  <2> HIDE DEF nameOf, idOf
  <2>4. Cardinality(names) = Cardinality(assets) /\ Cardinality(Ids(assets)) = Cardinality(assets)
    BY <2>1, <2>3, FS_Bijection DEF RegistryGood, ExistsBijection
  <2> QED BY <2>1, <2>2, <2>4 DEF RegistryGood, RegistryConsistent
<1> QED BY <1>1, InvariantHolds, PTL

(* A complete receiver has read a whole stream.                             *)
LEMMA CompleteMeansAll ==
  ASSUME NEW reg, RegistryGood(reg), NEW session, NEW frames, NEW count, NEW r,
         ChannelOK(session, frames, count, r, reg)
  PROVE  /\ r.state # "Failed"
         /\ r.state = "Complete" <=> count = Len(Stream(reg))
         /\ r.state = "Complete" =>
              /\ Len(frames) = Len(Stream(reg))
              /\ r.revision = reg.revision
              /\ r.assets = ManifestAssets(reg)
<1> DEFINE m == BuildManifest(reg)
<1>1. /\ Len(Stream(reg)) = Cardinality(reg.assets) + 2
      /\ Cardinality(reg.assets) \in Nat
      /\ Len(m.assets) = Cardinality(reg.assets)
  BY StreamLength
<1>2. /\ Len(frames) \in Nat /\ Len(frames) <= Len(Stream(reg))
      /\ count \in 0..Len(frames) /\ r = ReceiverAfter(m, count)
  BY LenProperties DEF ChannelOK, IsSequence
<1>3. m.revision = reg.revision /\ m.assets = ManifestAssets(reg)
  BY DEF BuildManifest
<1> HIDE DEF m
<1>4. CASE count = 0
  BY <1>1, <1>2, <1>4 DEF ReceiverAfter, IdleReceiver
<1>5. CASE count # 0
  BY <1>1, <1>2, <1>3, <1>5 DEF ReceiverAfter
<1> QED BY <1>4, <1>5

(* A session that takes reports records exactly those about its manifest.   *)
LEMMA ReportIsJudged ==
  ASSUME NEW s \in Sessions, AcceptsReports(s), NEW message \in Reports
  PROVE  IF message.revision = s.revision /\ message.id \in s.expected
         THEN message \in RecordedReports(AfterMessage(s, message), s.revision)
         ELSE AfterMessage(s, message) = s
<1>1. message \in [type : {"AssetReady", "AssetError"}, revision : Nat, id : Nat]
  BY ReportsAssumption
<1>2. CASE ~ConcernsManifest(s, message)
  BY <1>2 DEF AfterMessage, ConcernsManifest
<1>3. CASE ConcernsManifest(s, message) /\ message.type = "AssetReady"
  <2> DEFINE after == AfterReady(s, message.id)
  <2>1. message.id \in after.ready
    BY DEF AfterReady, Sessions
  <2>2. AfterMessage(s, message) = after
    BY <1>3 DEF AfterMessage
  <2> HIDE DEF after
  <2>3. message \in RecordedReports(after, s.revision)
    BY <1>1, <1>3, <2>1 DEF RecordedReports, ConcernsManifest
  <2> QED BY <1>3, <2>2, <2>3 DEF ConcernsManifest
<1>4. CASE ConcernsManifest(s, message) /\ message.type = "AssetError"
  <2> DEFINE after == AfterError(s, message.id)
  <2>1. message.id \in after.failed
    BY DEF AfterError, Sessions
  <2>2. AfterMessage(s, message) = after
    BY <1>4 DEF AfterMessage
  <2> HIDE DEF after
  <2>3. message \in RecordedReports(after, s.revision)
    BY <1>1, <1>4, <2>1 DEF RecordedReports, ConcernsManifest
  <2> QED BY <1>4, <2>2, <2>3 DEF ConcernsManifest
<1> QED BY <1>1, <1>2, <1>3, <1>4

(* However the registry changes behind a stream and wherever a refused Send *)
(* ends it, the client refuses no message of it, and the two sides agree on *)
(* what it announced: the server records exactly the reports about it       *)
(* (asset_publication.cpp, OnPlayerCompatible, HandleIncoming; manager.cpp,  *)
(* ManifestReceiver::Handle).                                               *)
THEOREM ReceiversAgree == Spec => []ReceiverAgrees
<1>1. IInv => ReceiverAgrees
  <2> SUFFICES ASSUME IInv, NEW p \in Players
               PROVE  /\ receiver[p].state # "Failed"
                      /\ receiver[p].state = "Complete" =>
                           /\ AcceptsReports(sessions[p])
                           /\ receiver[p].revision = sessions[p].revision
                           /\ {receiver[p].assets[n].id : n \in DOMAIN receiver[p].assets}
                                = sessions[p].expected
                      /\ AcceptsReports(sessions[p]) /\ read[p] = Len(outbox[p]) =>
                           receiver[p].state = "Complete"
    BY ReportIsJudged DEF ReceiverAgrees, IInv, MapsOK
  <2>1. PICK snap : SnapshotsOK(snap) /\ ChannelsOK(snap)
    BY DEF IInv
  <2> DEFINE reg == snap[p]
             list == ManifestAssets(reg)
  <2>2. /\ RegistryGood(reg)
        /\ ChannelOK(sessions[p], outbox[p], read[p], receiver[p], reg)
    BY <2>1 DEF SnapshotsOK, ChannelsOK
  <2> HIDE DEF reg
  <2>3. /\ receiver[p].state # "Failed"
        /\ receiver[p].state = "Complete" <=> read[p] = Len(Stream(reg))
        /\ receiver[p].state = "Complete" =>
             /\ Len(outbox[p]) = Len(Stream(reg))
             /\ receiver[p].revision = reg.revision
             /\ receiver[p].assets = list
    BY <2>2, CompleteMeansAll
  <2>4. {list[n].id : n \in DOMAIN list} = Ids(reg.assets)
    <3>1. list \in Bijection(1..Cardinality(reg.assets), reg.assets)
      BY <2>2, ListedOnce
    <3> HIDE DEF list
    <3>2. /\ DOMAIN list = 1..Cardinality(reg.assets)
          /\ \A n \in DOMAIN list : list[n] \in reg.assets
          /\ \A a \in reg.assets : \E n \in DOMAIN list : list[n] = a
      BY <3>1 DEF Bijection, Injection, Surjection
    <3> QED BY <3>2 DEF Ids
  <2> HIDE DEF list
  <2> QED BY <2>2, <2>3, <2>4 DEF ChannelOK
<1> QED BY <1>1, InvariantHolds, PTL

(* Until the revision saturates, every change of the registry gives it a    *)
(* new one, so two clients that hold one revision hold the same assets      *)
(* (asset_registry.cpp, AdvanceRevision; docs/assets.md).                   *)
THEOREM RevisionsIdentifyContent == Spec => []RevisionIdentifiesContent
<1>1. IInv => RevisionIdentifiesContent
  <2> SUFFICES ASSUME IInv, NEW p \in Players, NEW q \in Players,
                      receiver[p].state = "Complete", receiver[q].state = "Complete",
                      receiver[p].revision = receiver[q].revision
               PROVE  \/ receiver[p].assets = receiver[q].assets
                      \/ receiver[p].revision = WordSize - 1
    BY DEF RevisionIdentifiesContent
  <2>1. PICK snap : SnapshotsOK(snap) /\ ChannelsOK(snap)
    BY DEF IInv
  <2>2. ASSUME NEW o \in {p, q}
        PROVE  /\ receiver[o].revision = snap[o].revision
               /\ receiver[o].assets = ManifestAssets(snap[o])
    <3>1. /\ RegistryGood(snap[o])
          /\ ChannelOK(sessions[o], outbox[o], read[o], receiver[o], snap[o])
          /\ receiver[o].state = "Complete"
      BY <2>1 DEF SnapshotsOK, ChannelsOK
    <3> QED BY <3>1, CompleteMeansAll
  <2>3. SameRevisionSameAssets(snap[p], snap[q])
    BY <2>1 DEF SnapshotsOK
  <2>4. snap[p].assets = snap[q].assets => ManifestAssets(snap[p]) = ManifestAssets(snap[q])
    BY DEF ManifestAssets
  <2> QED BY <2>2, <2>3, <2>4 DEF SameRevisionSameAssets
<1> QED BY <1>1, InvariantHolds, PTL
=============================================================================
