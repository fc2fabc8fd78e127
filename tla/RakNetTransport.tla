---------------------------- MODULE RakNetTransport ----------------------------
(***************************************************************************)
(* The Receive hook of the client's RakNet adapter                         *)
(* (client/src/samp/raknet_transport.cpp).  SA-MP calls Receive every      *)
(* frame and gets back one packet or none; RakNet's own thread changes the *)
(* connection and queues packets at any time, also while a call runs.  The *)
(* adapter turns this into Connected and Disconnected events and takes the *)
(* CMOD frames out of the stream.                                          *)
(***************************************************************************)
EXTENDS Naturals, Sequences

CONSTANTS MaximumConsumed,   (* kMaximumConsumedPacketsPerCall, 64           *)
          MaxInbox           (* bound of the model: packets RakNet holds     *)

ASSUME HookAssumption ==
  /\ MaximumConsumed \in Nat \ {0}
  /\ MaxInbox \in Nat

VARIABLES connected,                  (* connected_                          *)
          awaitingDisconnectedState,  (* awaitingDisconnectedState_          *)
          connectedEventPending,      (* connectedEventPending_              *)
          connectedEventSent,         (* connectedEventSent_                 *)
          consumed,    (* the loop counter of the running call, or NotInCall *)
          link,        (* external: what IsConnected returns                 *)
          closing,     (* external: no connection, or RakNet has queued the  *)
                       (* notification of its end                            *)
          inbox,       (* external: the packets the original Receive will return *)
          returned,    (* history: packets of this connection SA-MP was given, at most 2 *)
          processed,   (* history: and has called Receive again since        *)
          hellos       (* history: Connected events of this connection       *)

observerVars == <<connected, awaitingDisconnectedState, connectedEventPending,
                  connectedEventSent>>
networkVars == <<link, closing, inbox>>
historyVars == <<returned, processed, hellos>>
vars == <<observerVars, consumed, networkVars, historyVars>>

NotInCall == MaximumConsumed

Packets == {"Game", "Frame", "Notification"}

Init ==
  /\ connected = FALSE
  /\ awaitingDisconnectedState = FALSE
  /\ connectedEventPending = FALSE
  /\ connectedEventSent = FALSE
  /\ consumed = NotInCall
  /\ link = FALSE
  /\ closing = TRUE
  /\ inbox = <<>>
  /\ returned = 0
  /\ processed = FALSE
  /\ hellos = 0
-----------------------------------------------------------------------------
(* RakNet.                                                                  *)

(* SA-MP connects again only seconds after a connection ended, when it has  *)
(* called Receive with the connection down, and with an empty queue.  The   *)
(* state may turn true while a call runs that has seen it false.            *)
Connect ==
  /\ ~link /\ ~connected /\ ~awaitingDisconnectedState
  /\ link' = TRUE
  /\ closing' = FALSE
  /\ inbox' = <<>>
  /\ returned' = 0
  /\ processed' = FALSE
  /\ hellos' = 0
  /\ UNCHANGED <<observerVars, consumed>>

(* The server component sends frames only in answer to a Hello.  Packets    *)
(* that were under way may follow the notification of the end.              *)
Arrive(packet) ==
  /\ link
  /\ Len(inbox) < MaxInbox
  /\ packet = "Frame" => hellos > 0
  /\ packet = "Notification" => ~closing
  /\ inbox' = Append(inbox, packet)
  /\ closing' = (closing \/ packet = "Notification")
  /\ UNCHANGED <<observerVars, consumed, link, historyVars>>

(* The state may change before, after or without the notification.          *)
LoseLink ==
  /\ link
  /\ link' = FALSE
  /\ UNCHANGED <<observerVars, consumed, closing, inbox, historyVars>>

LateNotification ==
  /\ ~link /\ ~closing
  /\ Len(inbox) < MaxInbox
  /\ inbox' = Append(inbox, "Notification")
  /\ closing' = TRUE
  /\ UNCHANGED <<observerVars, consumed, link, historyVars>>
-----------------------------------------------------------------------------
(* The game thread.                                                         *)

(* Mutant: the events of the last connection stay in effect.                *)
ObserveConnection_KeepsSent ==
  /\ consumed = NotInCall
  /\ consumed' = 0
  /\ \/ /\ awaitingDisconnectedState
        /\ awaitingDisconnectedState' = link
        /\ UNCHANGED connected
     \/ /\ ~awaitingDisconnectedState
        /\ connected' = link
        /\ UNCHANGED awaitingDisconnectedState
  /\ processed' = (processed \/ returned > 0)
  /\ UNCHANGED <<networkVars, returned, hellos, connectedEventPending, connectedEventSent>>

(* Receive begins with ObserveConnection; PumpAssetResults follows.         *)
ObserveConnection ==
  /\ consumed = NotInCall
  /\ consumed' = 0
  /\ \/ /\ awaitingDisconnectedState
        /\ awaitingDisconnectedState' = link
        /\ UNCHANGED <<connected, connectedEventPending, connectedEventSent>>
     \/ /\ ~awaitingDisconnectedState
        /\ link = connected
        /\ UNCHANGED observerVars
     \/ /\ ~awaitingDisconnectedState
        /\ link # connected
        /\ connected' = link
        /\ connectedEventPending' = FALSE
        /\ connectedEventSent' = FALSE
        /\ UNCHANGED awaitingDisconnectedState
  /\ processed' = (processed \/ returned > 0)
  /\ UNCHANGED <<networkVars, returned, hellos>>

(* Mutant: the first edge of IsConnected is announced.                      *)
AnnouncesNow_AtOnce == connected /\ ~connectedEventSent

(* NotifyConnectedIfPending, which every pass of the loop begins with.      *)
AnnouncesNow == connected /\ connectedEventPending /\ ~connectedEventSent

Sent == connectedEventSent \/ AnnouncesNow

CountHello == hellos' = IF AnnouncesNow THEN hellos + 1 ELSE hellos

(* Mutant: no packet leaves the event pending.                              *)
PendingAfterPacket_Never == FALSE

(* The first packet of a connection leaves the Connected event pending.     *)
PendingAfterPacket == connected /\ ~Sent

OneMore(count) == IF count < 2 THEN count + 1 ELSE count

ReceiveNothing ==
  /\ consumed # NotInCall
  /\ inbox = <<>>
  /\ CountHello
  /\ connectedEventSent' = Sent
  /\ connectedEventPending' = (connectedEventPending /\ ~AnnouncesNow)
  /\ consumed' = NotInCall
  /\ UNCHANGED <<connected, awaitingDisconnectedState, networkVars, returned, processed>>

ReceiveGamePacket ==
  /\ consumed # NotInCall
  /\ inbox # <<>> /\ Head(inbox) = "Game"
  /\ CountHello
  /\ connectedEventSent' = Sent
  /\ connectedEventPending' = PendingAfterPacket
  /\ inbox' = Tail(inbox)
  /\ consumed' = NotInCall
  /\ returned' = OneMore(returned)
  /\ UNCHANGED <<connected, awaitingDisconnectedState, link, closing, processed>>

(* Mutant: NotifyDisconnected does not wait for the state to follow.        *)
ReceiveNotification_NoWait ==
  /\ consumed # NotInCall
  /\ inbox # <<>> /\ Head(inbox) = "Notification"
  /\ CountHello
  /\ connected' = FALSE
  /\ connectedEventPending' = FALSE
  /\ connectedEventSent' = FALSE
  /\ inbox' = Tail(inbox)
  /\ consumed' = NotInCall
  /\ returned' = OneMore(returned)
  /\ UNCHANGED <<awaitingDisconnectedState, link, closing, processed>>

(* A disconnection packet ends the session before IsConnected may say so.   *)
ReceiveNotification ==
  /\ consumed # NotInCall
  /\ inbox # <<>> /\ Head(inbox) = "Notification"
  /\ CountHello
  /\ connected' = FALSE
  /\ awaitingDisconnectedState' = (awaitingDisconnectedState \/ connected)
  /\ connectedEventPending' = FALSE
  /\ connectedEventSent' = FALSE
  /\ inbox' = Tail(inbox)
  /\ consumed' = NotInCall
  /\ returned' = OneMore(returned)
  /\ UNCHANGED <<link, closing, processed>>

(* A CMOD frame is dispatched and released, and the loop goes on to the     *)
(* next packet unless the call has consumed its share.                      *)
ConsumeFrame ==
  /\ consumed # NotInCall
  /\ inbox # <<>> /\ Head(inbox) = "Frame"
  /\ CountHello
  /\ connectedEventSent' = Sent
  /\ connectedEventPending' = PendingAfterPacket
  /\ inbox' = Tail(inbox)
  /\ consumed' = consumed + 1
  /\ UNCHANGED <<connected, awaitingDisconnectedState, link, closing, returned, processed>>

Receive ==
  \/ ObserveConnection
  \/ ReceiveNothing \/ ReceiveGamePacket \/ ReceiveNotification \/ ConsumeFrame

Network ==
  \/ Connect
  \/ \E packet \in Packets : Arrive(packet)
  \/ LoseLink
  \/ LateNotification

Next == Receive \/ Network

Spec == Init /\ [][Next]_vars

(* SA-MP's frame loop calls Receive for ever, and a call ends.              *)
FairSpec == Spec /\ WF_vars(Receive)
-----------------------------------------------------------------------------
FlagsOK ==
  /\ connected \in BOOLEAN /\ awaitingDisconnectedState \in BOOLEAN
  /\ connectedEventPending \in BOOLEAN /\ connectedEventSent \in BOOLEAN
  /\ link \in BOOLEAN /\ closing \in BOOLEAN
  /\ processed \in BOOLEAN

CountersOK ==
  /\ consumed \in 0..NotInCall
  /\ inbox \in Seq(Packets) /\ Len(inbox) <= MaxInbox
  /\ hellos \in Nat
  /\ returned \in 0..2
  /\ connectedEventPending \/ connectedEventSent => connected
  /\ ~(connectedEventPending /\ connectedEventSent)
  /\ awaitingDisconnectedState => ~connected

(* One announcement at most is waiting or in effect, and only for an        *)
(* observed connection.                                                     *)
TypeOK == FlagsOK /\ CountersOK

(* docs/protocol.md: "The client queues Hello only after SA-MP has received *)
(* and processed its first connected packet."  Otherwise open.mp drops the  *)
(* Hello, and the client never sends another.                               *)
HelloFollowsFirstPacket == hellos > 0 => processed

(* A connection is announced at most once, although IsConnected stays true  *)
(* for a while after the notification of its end: the client would start a  *)
(* second handshake on a connection that is over.                           *)
OneHelloPerConnection == hellos <= 1

(* A connection SA-MP has had two packets of is announced, unless it ends.  *)
(* One packet is not enough: where the connection comes up while a call     *)
(* runs, that call may return the first packet with connected_ still false, *)
(* and only the next one makes the announcement pending.                    *)
ConnectionIsAnnounced ==
  returned = 2 ~> hellos > 0 \/ ~link \/ closing

(* The end of an announced connection is announced too.                     *)
EndIsAnnounced == connectedEventSent /\ ~link ~> ~connectedEventSent
=============================================================================
