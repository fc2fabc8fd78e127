------------------------------- MODULE EndToEnd -------------------------------
(***************************************************************************)
(* One client and the server component over one connection after another.  *)
(* The channels are reliable and ordered while a connection lasts and are  *)
(* emptied between connections; each side notices a lost connection on its *)
(* own.  What the transport adapter contributes is what RakNetTransport    *)
(* establishes: one Connected event per connection, after the server knows *)
(* the player.                                                             *)
(***************************************************************************)
EXTENDS ServerComponent, ClientRuntime

CONSTANT Me   (* the player id the server gives this client                  *)

ASSUME MeAssumption == Me \in Players

(* What the client sends is one of the Hellos the server may be sent.       *)
ASSUME IdentityAssumption == Identity \in Hellos

VARIABLES link,     (* the connection is up                                  *)
          told,     (* which event the client's callbacks were given last    *)
          cursor    (* how many frames of outbox[Me] the client has received *)

linkVars == <<link, told, cursor, refusing>>
systemVars == <<vars, clientVars, linkVars>>

SystemInit ==
  /\ Init
  /\ ClientInit
  /\ link = FALSE
  /\ told = "Nothing"
  /\ cursor = 0
-----------------------------------------------------------------------------
(* Loading, reset and free do not involve the client.                       *)
HostStep ==
  /\ \/ OnLoadAttach
     \/ \E asset \in Lines : OnLoadLine(asset)
     \/ OnLoadUnreadable
     \/ OnLoadRegister
     \/ Free
     \/ Reset
  /\ UNCHANGED <<clientVars, linkVars>>

(* A new connection, once both sides are through with the last one.         *)
Join ==
  /\ ~link
  /\ told # "Connected"
  /\ OnPlayerConnect(Me)
  /\ link' = TRUE
  /\ told' = "Nothing"
  /\ cursor' = 0
  /\ uplink' = <<>>
  /\ UNCHANGED <<handshake, receiver, verdict, events, refusing>>

LoseLink ==
  /\ link
  /\ link' = FALSE
  /\ UNCHANGED <<vars, clientVars, told, cursor, refusing>>

TellConnected ==
  /\ link
  /\ told = "Nothing"
  /\ HandleConnected
  /\ told' = "Connected"
  /\ UNCHANGED <<vars, link, cursor, refusing>>

TellDisconnected ==
  /\ ~link
  /\ told = "Connected"
  /\ HandleDisconnected
  /\ told' = "Disconnected"
  /\ UNCHANGED <<vars, link, cursor, refusing>>

ServerNotices ==
  /\ ~link
  /\ OnPlayerDisconnect(Me)
  /\ cursor' = 0
  /\ UNCHANGED <<clientVars, link, told, refusing>>

(* With a transport that refuses nothing, the answer and the manifest go    *)
(* out completely.                                                          *)
SendsSucceed ==
  \/ refusing
  \/ outbox'[Me] # outbox[Me] /\ sessions'[Me].state # "Rejected"

ServerReceives ==
  /\ uplink # <<>>
  /\ \/ /\ Head(uplink).type = "Hello"
        /\ ReceiveHello(Me, Head(uplink).hello)
        /\ SendsSucceed
     \/ /\ Head(uplink).type # "Hello"
        /\ ReceiveMessage(Me, Head(uplink))
  /\ uplink' = Tail(uplink)
  /\ UNCHANGED <<handshake, receiver, verdict, events, linkVars>>

ClientReceives ==
  /\ cursor < Len(outbox[Me])
  /\ LET message == outbox[Me][cursor + 1] IN
       HandleAnswer(message) \/ HandleManifest(message)
  /\ cursor' = cursor + 1
  /\ UNCHANGED <<vars, link, told, refusing>>

ClientPumps ==
  /\ told = "Connected"
  /\ PumpAssetResults
  /\ UNCHANGED <<vars, linkVars>>

WorkerSettles(id) ==
  /\ Settle(id)
  /\ UNCHANGED <<vars, linkVars>>

SystemNext ==
  \/ HostStep
  \/ Join \/ LoseLink \/ TellConnected \/ TellDisconnected \/ ServerNotices
  \/ ServerReceives \/ ClientReceives \/ ClientPumps
  \/ \E id \in AssetIds : WorkerSettles(id)

SystemSpec == SystemInit /\ [][SystemNext]_systemVars

(* The host and the game poll their networks, and the manager's worker runs  *)
(* (AssetManager).  Nothing makes a connection or the host's steps happen.   *)
FairSystemSpec ==
  /\ SystemSpec
  /\ WF_systemVars(TellConnected)
  /\ WF_systemVars(ServerReceives)
  /\ WF_systemVars(ClientReceives)
  /\ WF_systemVars(ClientPumps)
  /\ \A id \in AssetIds : WF_systemVars(WorkerSettles(id))
-----------------------------------------------------------------------------
Together == told = "Connected" /\ Me \in connected

(* The two state machines agree on the outcome: a client that takes itself  *)
(* for compatible was welcomed, is never rejected afterwards on the same    *)
(* connection, whatever reports and resets follow, and both ends hold the   *)
(* same negotiated capabilities; one that takes itself for rejected is not  *)
(* Compatible at the server.                                                *)
BothSidesAgree ==
  Together =>
    /\ handshake.state = "Compatible" =>
         /\ players[Me].state \in {"Compatible", "Unknown"}
         /\ players[Me].state = "Compatible" => players[Me].negotiated = handshake.welcome
    /\ handshake.state = "Rejected" => players[Me].state # "Compatible"

(* What the server has on record about this client's assets is what the     *)
(* client decided on this connection: no report of an earlier connection is *)
(* credited to a later one, though manifest revisions repeat, and ids and   *)
(* player ids are reused.                                                   *)
RecordsAreTrue ==
  Together =>
    /\ \A id \in sessions[Me].ready : verdict[id] = "Ready"
    /\ \A id \in sessions[Me].failed : verdict[id] = "Failed"

(* A client never refuses the manifest of this server, wherever the server's *)
(* sends fail and whatever connections came before.                         *)
ManifestNeverRefused == receiver.state # "Failed"

(* When no send is refused, every Hello is answered while the connection    *)
(* and the component last, across a reset() in between too.                 *)
HelloIsAnswered ==
  ~refusing /\ told = "Connected" ~>
    handshake.state \in {"Compatible", "Rejected"} \/ ~link \/ phase # "Registered"

(* When no send is refused, a manifest that was sent is answered for every  *)
(* asset, unless the connection or the session ends.                        *)
EveryAssetIsReported ==
  ~refusing /\ sessions[Me].state = "ManifestComplete" ~>
    \/ sessions[Me].ready \cup sessions[Me].failed = sessions[Me].expected
    \/ ~link \/ phase # "Registered"
=============================================================================
