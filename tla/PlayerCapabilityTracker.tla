----------------------- MODULE PlayerCapabilityTracker -----------------------
(***************************************************************************)
(* The server's record of what each player's client has declared           *)
(* (server/src/player_capabilities.cpp).  One entry per player id moves    *)
(* Unknown -> HandshakePending -> Compatible | Rejected.  Every operation  *)
(* is written as a function of one player's entry, and the actions apply   *)
(* that function to the map.                                               *)
(***************************************************************************)
EXTENDS ServerTransport, Integers, FiniteSets

CONSTANTS Hellos,                (* the Hello messages clients may send             *)
          ServerCapabilities,    (* HandshakePolicy::serverCapabilities             *)
          RequiredCapabilities,  (* HandshakePolicy::requiredCapabilities           *)
          MinimumClientRuntime   (* HandshakePolicy::minimumClientRuntime           *)

VARIABLE players

DeclaredCapabilities ==
  {"CHAR_MODEL", "OBJECT_MODEL", "DFF", "TXD", "SHA256_CACHE"}

(* A capability word is a set of bits; UNDECLARED stands for any bit outside *)
(* kDeclaredCapabilities.                                                    *)
CapabilityWords == SUBSET (DeclaredCapabilities \cup {"UNDECLARED"})

SampVersions == {"Unknown", "R1", "R2", "R3", "R3_1", "R4", "R4_2", "R4Family"}

RejectReasons ==
  {"UnsupportedProtocol", "UnsupportedClientRuntime", "UnsupportedSampBuild",
   "MalformedHandshake", "UnsupportedCapabilities"}
NoReason == "None"

HandshakeStates == {"Unknown", "HandshakePending", "Compatible", "Rejected"}

ProtocolVersion == 1

RuntimeVersions == [major : Nat, minor : Nat, patch : Nat]
HelloMessages == [runtime      : RuntimeVersions,
                  protocol     : Nat,
                  build        : SampVersions,
                  capabilities : CapabilityWords]

ASSUME PolicyAssumption ==
  /\ Hellos \subseteq HelloMessages
  /\ ServerCapabilities \subseteq DeclaredCapabilities
  /\ RequiredCapabilities \subseteq DeclaredCapabilities
  /\ MinimumClientRuntime \in RuntimeVersions
-----------------------------------------------------------------------------
(* The identity fields of a default-constructed PlayerCapabilityState.      *)
NoHello == [runtime      |-> [major |-> 0, minor |-> 0, patch |-> 0],
            protocol     |-> 0,
            build        |-> "Unknown",
            capabilities |-> {}]

PlayerStates == [state      : HandshakeStates,
                 hello      : HelloMessages,
                 negotiated : CapabilityWords,
                 reason     : RejectReasons \cup {NoReason}]

Entry(state, reason) ==
  [state |-> state, hello |-> NoHello, negotiated |-> {}, reason |-> reason]

(* GetState of an id that is not in the map.                                *)
Untracked == Entry("Unknown", NoReason)

(* The builds whose RakNet layout the client can attach to; each of them is *)
(* also in the registry of recognized builds (shared/src/version.cpp).      *)
Phase2BBuilds == {"R1", "R3_1"}

IsRuntimeSupported(version) ==
  /\ version.major = MinimumClientRuntime.major
  /\ \/ version.minor > MinimumClientRuntime.minor
     \/ /\ version.minor = MinimumClientRuntime.minor
        /\ version.patch >= MinimumClientRuntime.patch

Negotiated(hello) == hello.capabilities \cap ServerCapabilities

(* The first check a pending player's Hello fails, in the code's order.     *)
FirstFailure(hello) ==
  IF hello.protocol # ProtocolVersion THEN "UnsupportedProtocol"
  ELSE IF ~IsRuntimeSupported(hello.runtime) THEN "UnsupportedClientRuntime"
  ELSE IF hello.build \notin Phase2BBuilds THEN "UnsupportedSampBuild"
  ELSE IF ~(hello.capabilities \subseteq DeclaredCapabilities) THEN "MalformedHandshake"
  ELSE IF ~(RequiredCapabilities \subseteq Negotiated(hello)) THEN "UnsupportedCapabilities"
  ELSE NoReason

(* A Hello that is answered from the entry without changing it: the same    *)
(* Hello again from a compatible player, or anything from a rejected one.   *)
IsSettled(entry, hello) ==
  \/ entry.state = "Compatible" /\ entry.hello = hello
  \/ entry.state = "Rejected" /\ entry.reason # NoReason

(* Mutant: any entry that is not settled is judged again.                   *)
Refusal_AnyState(entry, hello) == FirstFailure(hello)

(* Mutant: an id without a pending handshake is judged too.                 *)
Refusal_Untracked(entry, hello) ==
  IF entry.state = "Compatible" THEN "MalformedHandshake" ELSE FirstFailure(hello)

Refusal(entry, hello) ==
  IF entry.state = "HandshakePending" THEN FirstFailure(hello) ELSE "MalformedHandshake"

Judged(hello, reason) ==
  [state      |-> IF reason = NoReason THEN "Compatible" ELSE "Rejected",
   hello      |-> hello,
   negotiated |-> IF reason = NoReason THEN Negotiated(hello) ELSE {},
   reason     |-> reason]

AfterHello(entry, hello) ==
  IF IsSettled(entry, hello) THEN entry ELSE Judged(hello, Refusal(entry, hello))

(* The answer is always read off the entry the Hello leaves behind.         *)
Response(entry) ==
  IF entry.state = "Compatible"
  THEN [type |-> "Welcome", capabilities |-> entry.negotiated]
  ELSE [type |-> "Reject", reason |-> entry.reason]
-----------------------------------------------------------------------------
TrackerInit == players = [p \in Players |-> Untracked]

BeginHandshake(p) ==
  players' = [players EXCEPT ![p] = Entry("HandshakePending", NoReason)]

HandleHello(p, hello) ==
  players' = [players EXCEPT ![p] = AfterHello(@, hello)]

(* Mutant: the reason is not stored.                                        *)
RejectPlayer_NoReason(p, reason) ==
  players' = [players EXCEPT ![p] = Entry("Rejected", NoReason)]

RejectPlayer(p, reason) ==
  players' = [players EXCEPT ![p] = Entry("Rejected", reason)]

RemovePlayer(p) ==
  players' = [players EXCEPT ![p] = Untracked]

TrackerReset == players' = [p \in Players |-> Untracked]
-----------------------------------------------------------------------------
(* A reason is stored exactly in the Rejected state: HandleHello answers a  *)
(* rejected player from it.                                                 *)
TrackerTypeOK ==
  /\ players \in [Players -> PlayerStates]
  /\ \A p \in Players : players[p].state = "Rejected" <=> players[p].reason # NoReason
=============================================================================
