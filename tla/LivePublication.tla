--------------------------- MODULE LivePublication ---------------------------
(***************************************************************************)
(* The asset half of the server core used as a library: the owner          *)
(* registers, removes and clears assets at any time between publications,  *)
(* as the registry's interface allows, while the players' clients read at  *)
(* their own pace what was sent to them.                                   *)
(***************************************************************************)
EXTENDS AssetPublication, ManifestReceiver

CONSTANTS Catalogue,   (* the assets the owner may register                  *)
          Reports      (* the asset messages clients may send                *)

ASSUME CatalogueAssumption == Catalogue \subseteq AssetDescriptions
ASSUME ReportsAssumption ==
  Reports \subseteq [type : {"AssetReady", "AssetError"}, revision : Nat, id : Nat]

VARIABLES read,      (* how many frames of outbox[p] player p's client has read *)
          receiver   (* the ManifestReceiver of player p's client               *)

clientVars == <<read, receiver>>
vars == <<registry, parsed, attached, outbox, sessions, clientVars>>

Init ==
  /\ RegistryInit
  /\ attached = TRUE
  /\ outbox = [p \in Players |-> <<>>]
  /\ PublicationInit
  /\ read = [p \in Players |-> 0]
  /\ receiver = [p \in Players |-> IdleReceiver]

OwnerUnchanged == UNCHANGED <<attached, outbox, sessions, clientVars>>
Register(asset) == RegisterAsset(asset) /\ OwnerUnchanged
Unregister(id) == RemoveAsset(id) /\ OwnerUnchanged
Clear == ClearAssets /\ OwnerUnchanged

(* The client resets its session with the connection.                       *)
ClientStartsOver(p) ==
  /\ read' = [read EXCEPT ![p] = 0]
  /\ receiver' = [receiver EXCEPT ![p] = IdleReceiver]

Connect(p) ==
  /\ sessions[p] = NoSession
  /\ SessionConnected(p)
  /\ ForgetChannel(p)
  /\ ClientStartsOver(p)
  /\ UNCHANGED <<registry, parsed, attached>>

Disconnect(p) ==
  /\ sessions[p] # NoSession
  /\ SessionDisconnected(p)
  /\ ForgetChannel(p)
  /\ ClientStartsOver(p)
  /\ UNCHANGED <<registry, parsed, attached>>

(* A session in any other state refuses the call and does not change.       *)
Publish(p) ==
  /\ \E delivered \in 0..(Cardinality(registry.assets) + 2) :
       OnPlayerCompatible(p, <<>>, delivered)
  /\ UNCHANGED <<registry, parsed, attached, clientVars>>

Receive(p) ==
  /\ read[p] < Len(outbox[p])
  /\ receiver' = [receiver EXCEPT ![p] = AfterHandle(@, outbox[p][read[p] + 1])]
  /\ read' = [read EXCEPT ![p] = @ + 1]
  /\ UNCHANGED <<registry, parsed, attached, outbox, sessions>>

Report(p, message) ==
  /\ HandleIncoming(p, message)
  /\ UNCHANGED <<registry, parsed, attached, outbox, clientVars>>

Next ==
  \/ \E asset \in Catalogue : Register(asset)
  \/ \E id \in Ids(Catalogue) : Unregister(id)
  \/ Clear
  \/ \E p \in Players :
       \/ Connect(p)
       \/ Disconnect(p)
       \/ Publish(p)
       \/ Receive(p)
       \/ \E message \in Reports : Report(p, message)

Spec == Init /\ [][Next]_vars
-----------------------------------------------------------------------------
(* The registry's redundant fields agree with its assets, and the limits    *)
(* the client will enforce hold, after any sequence of changes: total is    *)
(* kept by unsigned addition and subtraction and never wraps.               *)
RegistryConsistent ==
  /\ registry.total = MapThenSumSet(LAMBDA asset : asset.size, registry.assets)
  /\ registry.names = {asset.name : asset \in registry.assets}
  /\ Cardinality(registry.names) = Cardinality(registry.assets)
  /\ Cardinality(Ids(registry.assets)) = Cardinality(registry.assets)
  /\ Cardinality(registry.assets) <= MaximumAssets
  /\ \A asset \in registry.assets : IsAssetDescriptionValid(asset)

(* The reports that led to what a session has on record.                    *)
RecordedReports(session, revision) ==
  [type : {"AssetReady"}, revision : {revision}, id : session.ready]
    \cup [type : {"AssetError"}, revision : {revision}, id : session.failed]

(* Whatever the registry held when the stream was built, however it has     *)
(* changed since, and wherever Send stopped it, the client's receiver never *)
(* refuses a message of it.  It completes only if the server believes so    *)
(* too, and has completed once it has read everything such a server has     *)
(* sent.  From then on a report is recorded exactly if it concerns an asset *)
(* of the manifest the client holds, whatever the registry has become.      *)
ReceiverAgrees ==
  \A p \in Players :
    LET r == receiver[p]
        s == sessions[p]
        held == {r.assets[n].id : n \in DOMAIN r.assets} IN
    /\ r.state # "Failed"
    /\ r.state = "Complete" =>
         /\ AcceptsReports(s)
         /\ r.revision = s.revision
         /\ held = s.expected
         /\ \A message \in Reports :
              IF message.revision = r.revision /\ message.id \in held
              THEN message \in RecordedReports(AfterMessage(s, message), r.revision)
              ELSE AfterMessage(s, message) = s
    /\ AcceptsReports(s) /\ read[p] = Len(outbox[p]) => r.state = "Complete"

(* docs/assets.md: revisions "identify the manifest content for one         *)
(* component process".  Two players who received the same revision received *)
(* the same assets, unless the revision has saturated at its largest value. *)
RevisionIdentifiesContent ==
  \A p, q \in Players :
    LET r == receiver[p]
        s == receiver[q] IN
    r.state = "Complete" /\ s.state = "Complete" /\ r.revision = s.revision
      => r.assets = s.assets \/ r.revision = WordSize - 1
=============================================================================
