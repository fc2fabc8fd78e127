------------------------ MODULE RakNetTransportProofs ------------------------
(***************************************************************************)
(* The adapter's announcements, for every inbox bound and every cap on the *)
(* packets one call consumes.                                              *)
(***************************************************************************)
EXTENDS RakNetTransport, TLAPS

(* What the four flags of the adapter mean in terms of the connection.      *)
Announcement ==
  /\ processed => returned > 0
  /\ connectedEventPending => returned > 0 /\ (consumed = NotInCall \/ processed)
  /\ hellos > 0 /\ connected => connectedEventSent
  /\ hellos > 0 => connectedEventSent \/ awaitingDisconnectedState \/ ~link

(* The server speaks only after a Hello.                                    *)
FramesFollowHello == \A n \in 1..Len(inbox) : inbox[n] = "Frame" => hellos > 0

IInv ==
  /\ CountersOK
  /\ HelloFollowsFirstPacket
  /\ OneHelloPerConnection
  /\ Announcement
  /\ FramesFollowHello

(* Flags stay Boolean whatever step is taken.                               *)
LEMMA FlagsKept == FlagsOK /\ [Next]_vars => FlagsOK'
<1> SUFFICES ASSUME FlagsOK, [Next]_vars PROVE FlagsOK'
  OBVIOUS
<1>1. CASE Connect
  BY <1>1, Zenon DEF FlagsOK, Connect, observerVars
<1>2. ASSUME NEW packet \in Packets, Arrive(packet) PROVE FlagsOK'
  BY <1>2, Zenon DEF FlagsOK, Arrive, observerVars, historyVars
<1>3. CASE LoseLink
  BY <1>3, Zenon DEF FlagsOK, LoseLink, observerVars, historyVars
<1>4. CASE LateNotification
  BY <1>4, Zenon DEF FlagsOK, LateNotification, observerVars, historyVars
<1>5. CASE ObserveConnection
  BY <1>5, Zenon DEF FlagsOK, ObserveConnection, observerVars, networkVars
<1>6. CASE ReceiveNothing
  BY <1>6, Zenon DEF FlagsOK, ReceiveNothing, Sent, networkVars
<1>7. CASE ReceiveGamePacket
  BY <1>7, Zenon DEF FlagsOK, ReceiveGamePacket, Sent, PendingAfterPacket
<1>8. CASE ReceiveNotification
  BY <1>8, Zenon DEF FlagsOK, ReceiveNotification
<1>9. CASE ConsumeFrame
  BY <1>9, Zenon DEF FlagsOK, ConsumeFrame, Sent, PendingAfterPacket
<1>10. CASE UNCHANGED vars
  BY <1>10, Zenon DEF FlagsOK, vars, observerVars, networkVars, historyVars
<1> QED
  BY <1>1, <1>2, <1>3, <1>4, <1>5, <1>6, <1>7, <1>8, <1>9, <1>10
  DEF Next, Receive, Network

(* The strengthened invariant is inductive.                                 *)
LEMMA InvariantKept == FlagsOK /\ IInv /\ [Next]_vars => IInv'
<1> SUFFICES ASSUME FlagsOK, IInv, [Next]_vars PROVE IInv'
  OBVIOUS
<1> USE HookAssumption DEF FlagsOK, IInv, CountersOK, NotInCall, Packets, OneHelloPerConnection,
                           HelloFollowsFirstPacket, Announcement, FramesFollowHello,
                           CountHello, AnnouncesNow, Sent, PendingAfterPacket, OneMore
<1>1. CASE Connect
  BY <1>1 DEF Connect, observerVars
<1>2. ASSUME NEW packet \in Packets, Arrive(packet) PROVE IInv'
  BY <1>2 DEF Arrive, observerVars, historyVars
<1>3. CASE LoseLink
  BY <1>3 DEF LoseLink, observerVars, historyVars
<1>4. CASE LateNotification
  BY <1>4 DEF LateNotification, observerVars, historyVars
<1>5. CASE ObserveConnection
  BY <1>5 DEF ObserveConnection, observerVars, networkVars
<1>6. CASE ReceiveNothing
  BY <1>6 DEF ReceiveNothing, networkVars
<1>7. CASE ReceiveGamePacket
  BY <1>7 DEF ReceiveGamePacket
<1>8. CASE ReceiveNotification
  BY <1>8 DEF ReceiveNotification
<1>9. CASE ConsumeFrame
  BY <1>9 DEF ConsumeFrame
<1>10. CASE UNCHANGED vars
  BY <1>10 DEF vars, observerVars, networkVars, historyVars
<1> QED
  BY <1>1, <1>2, <1>3, <1>4, <1>5, <1>6, <1>7, <1>8, <1>9, <1>10
  DEF Next, Receive, Network

(* Both hold for ever.                                                      *)
THEOREM InvariantHolds == Spec => [](FlagsOK /\ IInv)
<1>1. Init => FlagsOK
  BY Zenon DEF Init, FlagsOK
<1>2. Init => IInv
  BY HookAssumption
  DEF Init, IInv, CountersOK, NotInCall, HelloFollowsFirstPacket, OneHelloPerConnection,
      Announcement, FramesFollowHello
<1> QED BY <1>1, <1>2, FlagsKept, InvariantKept, PTL DEF Spec

(* Adapter (raknet_transport.cpp, Receive): the flags keep their types and  *)
(* exclude each other.                                                      *)
THEOREM TypeCorrect == Spec => []TypeOK
<1>1. FlagsOK /\ IInv => TypeOK
  BY DEF IInv, TypeOK
<1> QED BY <1>1, InvariantHolds, PTL

(* Adapter: a Hello never overtakes the first packet SA-MP processes.       *)
THEOREM HelloAfterFirstPacket == Spec => []HelloFollowsFirstPacket
<1>1. IInv => HelloFollowsFirstPacket
  BY DEF IInv
<1> QED BY <1>1, InvariantHolds, PTL

(* Adapter: a connection is announced at most once.                         *)
THEOREM AtMostOneHello == Spec => []OneHelloPerConnection
<1>1. IInv => OneHelloPerConnection
  BY DEF IInv
<1> QED BY <1>1, InvariantHolds, PTL
=============================================================================
