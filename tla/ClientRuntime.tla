---------------------------- MODULE ClientRuntime ----------------------------
(***************************************************************************)
(* The client between its transport and its asset manager: the handshake   *)
(* (client/src/protocol/handshake.cpp) and the three callbacks the runtime *)
(* hands to the transport (client/src/core/runtime.cpp), which all run on  *)
(* the game's network thread.  Of the asset manager only what AssetManager *)
(* is shown to implement (AssetVerdicts) is kept: a verdict per asset id,  *)
(* which the worker thread settles, and the events that report it.         *)
(***************************************************************************)
EXTENDS ManifestReceiver, FiniteSets

CONSTANTS Identity,      (* the Hello of this client (HandshakeConfiguration) *)
          Catalogue      (* the assets manifests may describe                 *)

VARIABLES handshake,   (* ClientHandshake: state_, and the capabilities of welcome_ *)
          receiver,    (* the manager's receiver_                            *)
          verdict,     (* the manager's states_, by what was reported        *)
          events,      (* the manager's events_: Ready and Failed            *)
          uplink,      (* what the client has sent on this connection and    *)
                       (* the server has not received                        *)
          refusing     (* external: whether the transports may refuse to     *)
                       (* send, in this life of the system                   *)

clientVars == <<handshake, receiver, verdict, events, uplink>>

AssetIds == {asset.id : asset \in Catalogue}

NoWelcome == [state |-> "Disconnected", welcome |-> {}]

HelloFrame == [type |-> "Hello", hello |-> Identity]
Report(type, revision, id) == [type |-> type, revision |-> revision, id |-> id]

ClientInit ==
  /\ handshake = NoWelcome
  /\ receiver = IdleReceiver
  /\ verdict = [id \in AssetIds |-> "None"]
  /\ events = <<>>
  /\ uplink = <<>>
  /\ refusing \in BOOLEAN

(* Mutant: the events of the last session are kept.                         *)
ResetSession_KeepsEvents ==
  /\ receiver' = IdleReceiver
  /\ verdict' = [id \in AssetIds |-> "None"]
  /\ UNCHANGED events

(* Mutant: the receiver of the last session is kept.                        *)
ResetSession_KeepsReceiver ==
  /\ verdict' = [id \in AssetIds |-> "None"]
  /\ events' = <<>>
  /\ UNCHANGED receiver

ResetSession ==
  /\ receiver' = IdleReceiver
  /\ verdict' = [id \in AssetIds |-> "None"]
  /\ events' = <<>>

(* Each of the frames is sent or refused.  A refused one is lost: DrainEvents *)
(* has already emptied the manager's list, and TakeHello succeeds only once.  *)
(* place[n] is where the n-th frame that is sent stands among the frames.     *)
SendEach(frames) ==
  \E sent \in 0..Len(frames) :
    \E place \in [1..sent -> DOMAIN frames] :
      /\ \A m, n \in 1..sent : m < n => place[m] < place[n]
      /\ refusing \/ sent = Len(frames)
      /\ uplink' = uplink \o [n \in 1..sent |-> frames[place[n]]]
-----------------------------------------------------------------------------
(* HandleConnectionEvent(Connected): the session is reset whatever state    *)
(* the handshake is in, but OnConnected and TakeHello act only after a      *)
(* Disconnected event.                                                      *)
HandleConnected ==
  /\ ResetSession
  /\ \/ /\ handshake.state \in {"Disconnected", "Connected"}
        /\ handshake' = [NoWelcome EXCEPT !.state = "HelloSent"]
        /\ SendEach(<<HelloFrame>>)
     \/ /\ handshake.state \notin {"Disconnected", "Connected"}
        /\ UNCHANGED <<handshake, uplink>>

HandleDisconnected ==
  /\ ResetSession
  /\ handshake' = NoWelcome
  /\ UNCHANGED uplink

(* Mutants: an answer is taken in any state; a Reject is not noted.         *)
AfterAnswer_AnyState(h, message) ==
  IF message.type = "Welcome"
  THEN [state |-> "Compatible", welcome |-> message.capabilities]
  ELSE [state |-> "Rejected", welcome |-> {}]

AfterAnswer_WelcomeOnly(h, message) ==
  IF h.state = "HelloSent" /\ message.type = "Welcome"
  THEN [state |-> "Compatible", welcome |-> message.capabilities] ELSE h

(* HandleIncoming of a Welcome or a Reject, and ConfirmWelcome right after. *)
(* A Welcome with capabilities the client did not declare is dropped.       *)
AfterAnswer(h, message) ==
  CASE h.state = "HelloSent" /\ message.type = "Welcome"
         /\ message.capabilities \subseteq Identity.capabilities ->
         [state |-> "Compatible", welcome |-> message.capabilities]
    [] h.state = "HelloSent" /\ message.type = "Reject" ->
         [state |-> "Rejected", welcome |-> {}]
    [] OTHER -> h

HandleAnswer(message) ==
  /\ message.type \in {"Welcome", "Reject"}
  /\ handshake' = AfterAnswer(handshake, message)
  /\ UNCHANGED <<receiver, verdict, events, uplink>>

Announced(r) == {r.assets[n].id : n \in DOMAIN r.assets}

(* A message of another kind goes to the asset manager, once the handshake  *)
(* is through; the entry of a sequence it refuses is answered with an       *)
(* AssetError, and the waiting events are sent in the same call.            *)
HandleManifest(message) ==
  LET result == HandleResult(receiver, message)
      refused == result \in {"InvalidOrder", "InvalidManifest"}
                   /\ message.type = "ManifestAsset" IN
  /\ message.type \notin {"Welcome", "Reject"}
  /\ \/ /\ handshake.state # "Compatible"
        /\ UNCHANGED clientVars
     \/ /\ handshake.state = "Compatible"
        /\ receiver' = AfterHandle(receiver, message)
        /\ verdict' = [id \in AssetIds |->
                         IF result = "Complete" /\ id \in Announced(receiver)
                              /\ verdict[id] \in {"None", "Failed"}
                         THEN "Pending" ELSE verdict[id]]
        /\ SendEach((IF refused
                     THEN <<Report("AssetError", message.revision, message.asset.id)>>
                     ELSE <<>>) \o events)
        /\ events' = <<>>
        /\ UNCHANGED handshake

(* Mutant: the list is emptied after its first event is sent.               *)
PumpAssetResults_FirstOnly ==
  /\ handshake.state = "Compatible"
  /\ events # <<>>
  /\ SendEach(<<Head(events)>>)
  /\ events' = <<>>
  /\ UNCHANGED <<handshake, receiver, verdict>>

(* PumpAssetResults, at the start of a Receive call.                        *)
PumpAssetResults ==
  /\ handshake.state = "Compatible"
  /\ events # <<>>
  /\ SendEach(events)
  /\ events' = <<>>
  /\ UNCHANGED <<handshake, receiver, verdict>>

(* The worker thread.                                                       *)
Settle(id) ==
  /\ verdict[id] = "Pending"
  /\ \/ /\ verdict' = [verdict EXCEPT ![id] = "Ready"]
        /\ events' = Append(events, Report("AssetReady", receiver.revision, id))
     \/ /\ verdict' = [verdict EXCEPT ![id] = "Failed"]
        /\ events' = Append(events, Report("AssetError", receiver.revision, id))
  /\ UNCHANGED <<handshake, receiver, uplink>>
=============================================================================
