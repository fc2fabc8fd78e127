--------------------------- MODULE ServerComponent ---------------------------
(***************************************************************************)
(* The open.mp component (server/openmp/component.cpp) with the handshake  *)
(* endpoint (server/src/handshake_endpoint.cpp), the capability tracker,   *)
(* the asset publication and the registry it owns.  The host calls it on   *)
(* one thread, so every handler is one action.  A frame the component does *)
(* not claim changes nothing and is not modelled.                          *)
(***************************************************************************)
EXTENDS PlayerCapabilityTracker, AssetPublication

CONSTANTS Lines,    (* the assets configuration lines may describe           *)
          Reports   (* the asset messages clients may send                   *)

ASSUME LinesAssumption == Lines \subseteq AssetDescriptions

VARIABLES phase,      (* where onLoad and free have taken the component      *)
          connected,  (* host: players whose connection the host announced   *)
          malformed   (* history: players whose present connection has sent  *)
                      (* a claimed frame that does not decode                *)

hostVars == <<phase, connected, malformed>>
vars == <<players, sessions, registry, parsed, attached, outbox, hostVars>>

Phases == {"Unloaded", "Loading", "Registered", "Inert", "Freed"}

Init ==
  /\ TrackerInit
  /\ RegistryInit
  /\ PublicationInit
  /\ TransportInit
  /\ phase = "Unloaded"
  /\ connected = {}
  /\ malformed = {}
-----------------------------------------------------------------------------
(* onLoad: the version check and the transport, then the configuration file *)
(* if there is one.  Until it ends nothing else runs.                       *)
OnLoadAttach ==
  /\ phase = "Unloaded"
  /\ \/ phase' = "Loading" /\ AttachTransport
     \/ phase' = "Inert" /\ UNCHANGED attached      \* wrong bit-stream version
  /\ UNCHANGED <<players, sessions, registry, parsed, outbox, connected, malformed>>

OnLoadLine(asset) ==
  /\ phase = "Loading"
  /\ \/ LoadLine(asset) /\ UNCHANGED <<phase, attached>>
     \/ LoadFails(asset) /\ phase' = "Inert" /\ ShutdownTransport
  /\ UNCHANGED <<players, sessions, outbox, connected, malformed>>

(* The path cannot be examined, or the file not opened or read to its end.  *)
OnLoadUnreadable ==
  /\ phase = "Loading"
  /\ LoadAbandoned
  /\ phase' = "Inert"
  /\ ShutdownTransport
  /\ UNCHANGED <<players, sessions, outbox, connected, malformed>>

OnLoadRegister ==
  /\ phase = "Loading"
  /\ LoadEnds
  /\ phase' = "Registered"
  /\ UNCHANGED <<players, sessions, attached, outbox, connected, malformed>>

(* free unregisters the handlers before it drops the state.                 *)
Free ==
  /\ phase \in {"Registered", "Inert"}
  /\ TrackerReset
  /\ PublicationReset
  /\ ShutdownTransport
  /\ phase' = "Freed"
  /\ UNCHANGED <<registry, parsed, outbox, connected, malformed>>

Reset ==
  /\ phase = "Registered"
  /\ TrackerReset
  /\ PublicationReset
  /\ malformed' = {}
  /\ UNCHANGED <<registry, parsed, attached, outbox, phase, connected>>
-----------------------------------------------------------------------------
OnPlayerConnect(p) ==
  /\ phase = "Registered"
  /\ p \notin connected
  /\ BeginHandshake(p)
  /\ SessionConnected(p)
  /\ ForgetChannel(p)
  /\ connected' = connected \cup {p}
  /\ UNCHANGED <<registry, parsed, attached, phase, malformed>>

OnPlayerDisconnect(p) ==
  /\ phase = "Registered"
  /\ p \in connected
  /\ RemovePlayer(p)
  /\ SessionDisconnected(p)
  /\ ForgetChannel(p)
  /\ connected' = connected \ {p}
  /\ malformed' = malformed \ {p}
  /\ UNCHANGED <<registry, parsed, attached, phase>>

Receiving(p) == phase = "Registered" /\ p \in connected

(* SendResponse: the tracker has changed before the answer is sent, and a   *)
(* refused Send does not change it back.  DecodePacket lets no Hello through *)
(* whose capabilities are not all declared.                                 *)
ReceiveHello(p, hello) ==
  LET answer == Response(AfterHello(players[p], hello)) IN
  /\ Receiving(p)
  /\ hello.capabilities \subseteq DeclaredCapabilities
  /\ HandleHello(p, hello)
  /\ \/ UNCHANGED <<outbox, sessions>>                       \* Send refused
     \/ /\ answer.type = "Reject" \/ ~IsPublishable(sessions[p])
        /\ Transmit(p, <<answer>>)
        /\ UNCHANGED sessions
     \/ /\ answer.type = "Welcome"
        /\ \E delivered \in 0..(Cardinality(registry.assets) + 2) :
             OnPlayerCompatible(p, <<answer>>, delivered)
  /\ UNCHANGED <<registry, parsed, attached, hostVars>>

(* A claimed frame that is not byte aligned or is too long (DispatchMalformed). *)
ReceiveMisshapen(p) ==
  /\ Receiving(p)
  /\ RejectPlayer(p, "MalformedHandshake")
  /\ \/ UNCHANGED outbox
     \/ Transmit(p, <<[type |-> "Reject", reason |-> "MalformedHandshake"]>>)
  /\ malformed' = malformed \cup {p}
  /\ UNCHANGED <<sessions, registry, parsed, attached, phase, connected>>

(* A claimed frame of whole bytes that DecodePacket refuses: DispatchProtocol *)
(* only notes the failure for the log.                                      *)
ReceiveUndecodable(p) ==
  /\ Receiving(p)
  /\ malformed' = malformed \cup {p}
  /\ UNCHANGED <<players, sessions, registry, parsed, attached, outbox, phase, connected>>

(* Every other message goes to the publication, whatever the tracker says.  *)
ReceiveMessage(p, message) ==
  /\ Receiving(p)
  /\ HandleIncoming(p, message)
  /\ UNCHANGED <<players, registry, parsed, attached, outbox, hostVars>>

Next ==
  \/ OnLoadAttach
  \/ \E asset \in Lines : OnLoadLine(asset)
  \/ OnLoadUnreadable
  \/ OnLoadRegister
  \/ Free
  \/ Reset
  \/ \E p \in Players :
       \/ OnPlayerConnect(p)
       \/ OnPlayerDisconnect(p)
       \/ \E hello \in Hellos : ReceiveHello(p, hello)
       \/ ReceiveMisshapen(p)
       \/ ReceiveUndecodable(p)
       \/ \E message \in Reports : ReceiveMessage(p, message)

Spec == Init /\ [][Next]_vars
-----------------------------------------------------------------------------
TypeOK ==
  /\ TrackerTypeOK
  /\ PublicationTypeOK
  /\ phase \in Phases
  /\ connected \subseteq Players
  /\ malformed \subseteq Players

(* The manifest messages among the frames are the first of the stream, one  *)
(* right behind another.                                                    *)
HoldsRun(frames, stream, start, size) ==
  /\ {n \in DOMAIN frames : IsManifestMessage(frames[n])} = (start + 1)..(start + size)
  /\ \A k \in 1..size : frames[start + k] = stream[k]

(* A connection is sent at most one manifest stream, in order and without   *)
(* gaps, and a session that records reports was sent all of it: repeated    *)
(* Hellos, refused Sends and a server reset in between never restart,       *)
(* duplicate or skip part of OnPlayerCompatible's stream.                   *)
OneManifestPerConnection ==
  \A p \in Players :
    LET stream == ManifestStream(BuildManifest(registry)) IN
    \E start \in 0..Len(outbox[p]), size \in 0..Len(stream) :
      /\ HoldsRun(outbox[p], stream, start, size)
      /\ AcceptsReports(sessions[p]) => size = Len(stream)

(* The frame before ManifestBegin is the Welcome of the same handler call,  *)
(* and no frame of another kind is sent inside the stream.                  *)
ManifestFollowsWelcome ==
  \A p \in Players :
    \A n \in DOMAIN outbox[p] :
      CASE outbox[p][n].type = "ManifestBegin" -> n > 1 /\ outbox[p][n - 1].type = "Welcome"
        [] outbox[p][n].type \in {"ManifestAsset", "ManifestEnd"} ->
             n > 1 /\ IsManifestMessage(outbox[p][n - 1])
        [] OTHER -> TRUE

(* On one connection a Reject is final: no later frame is a Welcome or part *)
(* of a manifest, whatever Hellos follow it and even across reset().        *)
RejectIsFinal ==
  \A p \in Players :
    \A early, late \in DOMAIN outbox[p] :
      early < late /\ outbox[p][early].type = "Reject" => outbox[p][late].type = "Reject"

(* Every Welcome of one connection announces the same capabilities, and     *)
(* they are what an accepted Hello declared, restricted to the server's and *)
(* including every required one.                                            *)
OneIdentityPerConnection ==
  \A p \in Players :
    LET welcomes == {outbox[p][n].capabilities :
                       n \in {m \in DOMAIN outbox[p] : outbox[p][m].type = "Welcome"}} IN
    /\ Cardinality(welcomes) <= 1
    /\ \A granted \in welcomes :
         /\ RequiredCapabilities \subseteq granted
         /\ \E hello \in Hellos : /\ FirstFailure(hello) = NoReason
                                  /\ granted = Negotiated(hello)
         /\ players[p].state = "Compatible" => players[p].negotiated = granted

(* The books of a session balance: an asset is never both ready and failed, *)
(* only announced assets are recorded, and AssetsReady, which the code      *)
(* decides by comparing two sizes, holds exactly when every announced asset *)
(* was last reported ready.                                                 *)
ReportsAddUp ==
  \A p \in Players :
    LET s == sessions[p] IN
    /\ s.ready \cap s.failed = {}
    /\ s.ready \cup s.failed \subseteq s.expected
    /\ AcceptsReports(s) => (s.state = "AssetsReady" <=> s.ready = s.expected)

(* The two maps that are kept side by side per player id, the tracker's and *)
(* the publication's, stay in step: a session that was published to belongs *)
(* to a player whose Hello was judged, and an id nobody is connected on has *)
(* an entry in neither.                                                     *)
SessionFollowsHandshake ==
  \A p \in Players :
    /\ sessions[p].state \notin {"Unknown", "HandshakePending"}
         => players[p].state \in {"Compatible", "Rejected"}
    /\ players[p].state = "HandshakePending" => sessions[p].state = "HandshakePending"
    /\ players[p].state = "Compatible" => sessions[p].state # "Unknown"
    /\ p \notin connected => players[p] = Untracked /\ sessions[p] = NoSession

(* docs/protocol.md, Reject: "A different Hello or malformed claimed frame  *)
(* rejects the session."                                                    *)
MalformedFrameRejects ==
  \A p \in malformed : players[p].state = "Rejected"
=============================================================================
