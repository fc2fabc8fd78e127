--------------------------- MODULE AssetPublication ---------------------------
(***************************************************************************)
(* Publishing the registry's manifest to a player and recording the        *)
(* player's reports about it (server/src/asset_publication.cpp).  A        *)
(* session belongs to a player id; it remembers the manifest revision and  *)
(* the asset ids that were sent, so a report is judged against what the    *)
(* player received and not against the registry of the moment.             *)
(***************************************************************************)
EXTENDS AssetRegistry, ServerTransport

VARIABLE sessions  (* AssetPublication::players_ *)

SessionStates == {"Unknown", "HandshakePending", "Compatible", "ManifestSending",
                  "ManifestComplete", "AssetsReady", "Rejected"}

Sessions == [state    : SessionStates,
             revision : Nat,
             expected : SUBSET Nat,
             ready    : SUBSET Nat,
             failed   : SUBSET Nat]

Session(state) ==
  [state |-> state, revision |-> 0, expected |-> {}, ready |-> {}, failed |-> {}]

(* GetState of an id that is not in the map.                                *)
NoSession == Session("Unknown")

(* What OnPlayerCompatible sends, in order.                                 *)
ManifestStream(m) ==
  <<ManifestBegin(m)>>
    \o [n \in 1..Len(m.assets) |-> ManifestAsset(m, n - 1)]
    \o <<ManifestEnd(m)>>

(* Mutant: the AlreadySent check is dropped.                                *)
IsPublishable_Again(session) ==
  session.state \in {"HandshakePending", "Compatible", "ManifestComplete", "AssetsReady"}

(* Only a session that has not been sent a manifest takes one.  The code    *)
(* passes through Compatible and ManifestSending inside the one call.       *)
IsPublishable(session) == session.state \in {"HandshakePending", "Compatible"}

AfterStream(reg, delivered) ==
  [state    |-> IF delivered < Cardinality(reg.assets) + 2 THEN "Rejected"
                ELSE IF reg.assets = {} THEN "AssetsReady"
                ELSE "ManifestComplete",
   revision |-> reg.revision,
   expected |-> Ids(reg.assets),
   ready    |-> {},
   failed   |-> {}]

AcceptsReports(session) == session.state \in {"ManifestComplete", "AssetsReady"}

ConcernsManifest(session, report) ==
  /\ report.revision = session.revision
  /\ report.id \in session.expected

AfterReady(session, id) ==
  LET ready == session.ready \cup {id} IN
  [session EXCEPT
     !.ready  = ready,
     !.failed = @ \ {id},
     !.state  = IF Cardinality(ready) = Cardinality(session.expected)
                THEN "AssetsReady" ELSE @]

(* Mutant: an Error does not take the asset out of the ready set.           *)
AfterError_StaysReady(session, id) ==
  [session EXCEPT !.failed = @ \cup {id}, !.state = "ManifestComplete"]

AfterError(session, id) ==
  [session EXCEPT !.ready  = @ \ {id},
                  !.failed = @ \cup {id},
                  !.state  = "ManifestComplete"]

(* Reports out of order, about another revision or an unannounced asset,    *)
(* and every other message type change nothing.                             *)
AfterMessage(session, message) ==
  IF AcceptsReports(session) /\ ConcernsManifest(session, message)
  THEN CASE message.type = "AssetReady" -> AfterReady(session, message.id)
         [] message.type = "AssetError" -> AfterError(session, message.id)
         [] OTHER -> session
  ELSE session
-----------------------------------------------------------------------------
PublicationInit == sessions = [p \in Players |-> NoSession]

SessionConnected(p) ==
  sessions' = [sessions EXCEPT ![p] = Session("HandshakePending")]

SessionDisconnected(p) ==
  sessions' = [sessions EXCEPT ![p] = NoSession]

(* Mutant: the manifest overtakes the Welcome.                              *)
OnPlayerCompatible_Early(p, first, delivered) ==
  LET stream == ManifestStream(BuildManifest(registry)) IN
  /\ IsPublishable(sessions[p])
  /\ delivered \in 0..Len(stream)
  /\ Transmit(p, SubSeq(stream, 1, delivered) \o first)
  /\ sessions' = [sessions EXCEPT ![p] = AfterStream(registry, delivered)]

(* The manifest goes out message by message; the first refused Send ends    *)
(* the stream, and the delivered messages are not taken back.               *)
(* `first' is what the same handler sent before.                            *)
OnPlayerCompatible(p, first, delivered) ==
  LET stream == ManifestStream(BuildManifest(registry)) IN
  /\ IsPublishable(sessions[p])
  /\ delivered \in 0..Len(stream)
  /\ Transmit(p, first \o SubSeq(stream, 1, delivered))
  /\ sessions' = [sessions EXCEPT ![p] = AfterStream(registry, delivered)]

HandleIncoming(p, message) ==
  sessions' = [sessions EXCEPT ![p] = AfterMessage(@, message)]

(* Mutant: reset() forgets the publication.                                 *)
PublicationReset_Forgotten == UNCHANGED sessions

PublicationReset == sessions' = [p \in Players |-> NoSession]
-----------------------------------------------------------------------------
PublicationTypeOK == sessions \in [Players -> Sessions]
=============================================================================
