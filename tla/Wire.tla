--------------------------------- MODULE Wire ---------------------------------
(***************************************************************************)
(* The packet codec (shared/src/protocol.cpp) and the carrier around it    *)
(* (shared/src/transport_frame.cpp), byte by byte: a message is encoded,   *)
(* framed, possibly damaged on its way, inspected and decoded.  Field      *)
(* widths, field orders and the order of the tests are the code's; a byte  *)
(* has Base values instead of 256, and the lengths of texts and digests    *)
(* are constants, so that TLC can go through every damage of a packet.     *)
(***************************************************************************)
EXTENDS SharedAssets, Sequences

CONSTANTS Base,                 (* the values of a byte, 256                  *)
          MagicBytes,           (* 'C' 'M' 'O' 'D'                            *)
          kRakNetPacketId,      (* 0x5E                                       *)
          kMaximumPacketSize,   (* 4096                                       *)
          DigestSize,           (* kSha256Size, 32                            *)
          MaximumNameLength,    (* kMaximumLogicalNameLength, 96              *)
          MaximumUrlLength,     (* kMaximumUrlLength, 2048                    *)
          DeclaredFlags,        (* kDeclaredCapabilities + 1, a power of two  *)
          Outgoing              (* the messages the two programs may build    *)

Byte == 0..(Base - 1)

kHeaderSize == 12
kMaximumPayloadSize == kMaximumPacketSize - kHeaderSize
kMaximumFrameSize == 1 + kMaximumPacketSize
kProtocolVersion == 1

MessageTypes == <<"Hello", "Welcome", "Reject", "Ping", "Pong", "ManifestBegin",
                  "ManifestAsset", "ManifestEnd", "AssetReady", "AssetError">>

(* MessageType's numbers.                                                   *)
TypeOf(m) == CHOOSE n \in DOMAIN MessageTypes : MessageTypes[n] = m.type

IsKnownMessageType(n) == n \in DOMAIN MessageTypes
-----------------------------------------------------------------------------
(* Integers of 2, 4 and 8 bytes, network order.  A value that does not fit  *)
(* its width loses its high bytes, as a static_cast does.                   *)
Word == Base * Base
Long == Word * Word

Bytes16(value) == <<(value \div Base) % Base, value % Base>>
Bytes32(value) == Bytes16(value \div Word) \o Bytes16(value)
Bytes64(value) == Bytes32(value \div Long) \o Bytes32(value)

BytesOf(value, width) ==
  CASE width = 2 -> Bytes16(value)
    [] width = 4 -> Bytes32(value)
    [] width = 8 -> Bytes64(value)

(* The integer that starts after the first `offset' bytes.                  *)
Value16(bytes, offset) == Base * bytes[offset + 1] + bytes[offset + 2]
Value32(bytes, offset) == Word * Value16(bytes, offset) + Value16(bytes, offset + 2)
Value64(bytes, offset) == Long * Value32(bytes, offset) + Value32(bytes, offset + 4)

ValueAt(bytes, offset, width) ==
  CASE width = 2 -> Value16(bytes, offset)
    [] width = 4 -> Value32(bytes, offset)
    [] width = 8 -> Value64(bytes, offset)

(* Field kinds; size is a width, or the longest text a reader takes.        *)
U16(name) == [name |-> name, kind |-> "Int", size |-> 2]
U32(name) == [name |-> name, kind |-> "Int", size |-> 4]
U64(name) == [name |-> name, kind |-> "Int", size |-> 8]
Raw(name, size) == [name |-> name, kind |-> "Raw", size |-> size]
Text(name, longest) == [name |-> name, kind |-> "Text", size |-> longest]

NamesOf(fields) == {fields[n].name : n \in DOMAIN fields}

RuntimeVersion == <<U16("major"), U16("minor"), U16("patch")>>
Boundary == <<U64("revision"), U32("count"), U64("total")>>

WriteAssetDescription ==
  <<U32("assetId"), U16("assetType"), Text("name", MaximumNameLength),
    Text("url", MaximumUrlLength), U64("fileSize"), Raw("sha256", DigestSize)>>

(* The fields EncodePayload writes, in its order.                           *)
Written ==
  [Hello         |-> RuntimeVersion \o <<U16("protocol"), U16("samp"), U32("flags")>>,
   Welcome       |-> <<U16("accepted")>> \o RuntimeVersion
                       \o <<U16("protocol"), U32("flags")>>,
   Reject        |-> <<U16("reason")>>,
   Ping          |-> <<U64("nonce")>>,
   Pong          |-> <<U64("nonce")>>,
   ManifestBegin |-> Boundary,
   ManifestAsset |-> <<U64("revision"), U32("index")>> \o WriteAssetDescription,
   ManifestEnd   |-> Boundary,
   AssetReady    |-> <<U64("revision"), U32("assetId")>>,
   AssetError    |-> <<U64("revision"), U32("assetId"), U16("reason")>>]

(* Mutant: the reader takes the texts in the other order.                   *)
ReadAssetDescription_Swapped ==
  <<U32("assetId"), U16("assetType"), Text("url", MaximumUrlLength),
    Text("name", MaximumNameLength), U64("fileSize"), Raw("sha256", DigestSize)>>

ReadAssetDescription ==
  <<U32("assetId"), U16("assetType"), Text("name", MaximumNameLength),
    Text("url", MaximumUrlLength), U64("fileSize"), Raw("sha256", DigestSize)>>

(* The fields DecodePayload reads, in its order.                            *)
Expected ==
  [Hello         |-> RuntimeVersion \o <<U16("protocol"), U16("samp"), U32("flags")>>,
   Welcome       |-> <<U16("accepted")>> \o RuntimeVersion
                       \o <<U16("protocol"), U32("flags")>>,
   Reject        |-> <<U16("reason")>>,
   Ping          |-> <<U64("nonce")>>,
   Pong          |-> <<U64("nonce")>>,
   ManifestBegin |-> Boundary,
   ManifestAsset |-> <<U64("revision"), U32("index")>> \o ReadAssetDescription,
   ManifestEnd   |-> Boundary,
   AssetReady    |-> <<U64("revision"), U32("assetId")>>,
   AssetError    |-> <<U64("revision"), U32("assetId"), U16("reason")>>]
-----------------------------------------------------------------------------
(* What the fields' C++ types hold.                                         *)
Fits(field, value) ==
  CASE field.kind = "Int"  -> value \in 0..(CASE field.size = 2 -> Word - 1
                                             [] field.size = 4 -> Long - 1
                                             [] field.size = 8 -> Long * Long - 1)
    [] field.kind = "Raw"  -> value \in [1..field.size -> Byte]
    [] field.kind = "Text" -> value \in Seq(Byte)

IsMessage(m) ==
  /\ \E n \in DOMAIN MessageTypes : MessageTypes[n] = m.type
  /\ m = [name \in {"type"} \cup NamesOf(Written[m.type]) |-> m[name]]
  /\ \A n \in DOMAIN Written[m.type] :
       Fits(Written[m.type][n], m[Written[m.type][n].name])

(* The bytes of the longest message, a ManifestAsset.                       *)
LongestPayload == 30 + MaximumNameLength + MaximumUrlLength + DigestSize

(* The sizes are those of protocol.hpp and assets.hpp, or smaller ones in   *)
(* the same order.                                                          *)
ASSUME WireAssumption ==
  /\ Base \in Nat
  /\ MagicBytes \in [1..4 -> Byte]
  /\ kRakNetPacketId \in Byte
  /\ {kMaximumPacketSize, DigestSize, MaximumNameLength, MaximumUrlLength,
      DeclaredFlags} \subseteq Nat
  /\ Len(MessageTypes) < Word
  /\ MaximumNameLength < Word /\ MaximumUrlLength < Word
  /\ LongestPayload <= kMaximumPayloadSize
  /\ kMaximumPacketSize < Long

ASSUME OutgoingAssumption == \A m \in Outgoing : IsMessage(m)
-----------------------------------------------------------------------------
(* What the fields of a message may hold: EncodePayload tests it before it  *)
(* writes, DecodePayload after it has read.                                 *)

IsManifestBoundaryValid(m) ==
  /\ m.revision # 0
  /\ m.count <= MaximumAssets
  /\ m.total <= MaximumTotalSize
  /\ m.count # 0 \/ m.total = 0

(* The character rules are abstracted: byte 0 stands for every refused one. *)
IsTextValid(text, longest) ==
  /\ Len(text) \in 1..longest
  /\ \A n \in DOMAIN text : text[n] # 0

IsDescriptionValid(m) ==
  /\ m.assetId # 0
  /\ m.assetType \in 1..2
  /\ IsTextValid(m.name, MaximumNameLength)
  /\ IsTextValid(m.url, MaximumUrlLength)
  /\ m.fileSize \in 1..MaximumFileSize

AreFieldsValid(m) ==
  CASE m.type = "Hello"   -> m.samp <= 7 /\ m.flags < DeclaredFlags
    [] m.type = "Welcome" -> m.flags < DeclaredFlags
    [] m.type = "Reject"  -> m.reason \in 1..5
    [] m.type \in {"Ping", "Pong"} -> TRUE
    [] m.type \in {"ManifestBegin", "ManifestEnd"} -> IsManifestBoundaryValid(m)
    [] m.type = "ManifestAsset" ->
         m.revision # 0 /\ m.index < MaximumAssets /\ IsDescriptionValid(m)
    [] m.type = "AssetReady" -> m.revision # 0 /\ m.assetId # 0
    [] m.type = "AssetError" -> m.revision # 0 /\ m.assetId # 0 /\ m.reason \in 1..8
-----------------------------------------------------------------------------
(* The encoder.                                                             *)

FieldBytes(field, value) ==
  CASE field.kind = "Int"  -> BytesOf(value, field.size)
    [] field.kind = "Raw"  -> value
    [] field.kind = "Text" -> Bytes16(Len(value)) \o value

Refused(error) == [error |-> error, bytes |-> <<>>]

(* The bytes of the first n fields, for every n.                            *)
BytesAfter(fields, m) ==
  LET after[n \in 0..Len(fields)] ==
        IF n = 0 THEN <<>>
        ELSE after[n - 1] \o FieldBytes(fields[n], m[fields[n].name]) IN
  after

(* A writer takes no byte beyond kMaximumPacketSize and no text whose       *)
(* length a u16 does not hold.                                              *)
EncodePayload(m) ==
  LET fields == Written[m.type]
      bytes == BytesAfter(fields, m)[Len(fields)] IN
  IF ~AreFieldsValid(m) THEN Refused("InvalidField")
  ELSE IF \/ Len(bytes) > kMaximumPacketSize
          \/ \E n \in DOMAIN fields : fields[n].kind = "Text"
                                       /\ Len(m[fields[n].name]) >= Word
       THEN Refused("OversizedPayload")
       ELSE [error |-> "None", bytes |-> bytes]

EncodePacket(m, version) ==
  LET payload == EncodePayload(m) IN
  IF version # kProtocolVersion THEN Refused("InvalidField")
  ELSE IF payload.error # "None" THEN payload
  ELSE IF Len(payload.bytes) > kMaximumPayloadSize THEN Refused("OversizedPayload")
  ELSE [error |-> "None",
        bytes |-> MagicBytes \o Bytes16(version) \o Bytes16(TypeOf(m))
                    \o Bytes32(Len(payload.bytes)) \o payload.bytes]
-----------------------------------------------------------------------------
(* The decoder.                                                             *)

(* The bytes a field takes after the first `offset' ones, more than there   *)
(* are when the reader fails.  A text longer than its limit fails like a    *)
(* short one.                                                               *)
Extent(field, bytes, offset) ==
  IF field.kind # "Text" THEN field.size
  ELSE IF offset + 2 > Len(bytes) THEN 2
  ELSE LET length == Value16(bytes, offset) IN
       IF length > field.size THEN Len(bytes) + 1 ELSE 2 + length

ReadField(field, bytes, offset) ==
  CASE field.kind = "Int"  -> ValueAt(bytes, offset, field.size)
    [] field.kind = "Raw"  -> SubSeq(bytes, offset + 1, offset + field.size)
    [] field.kind = "Text" -> SubSeq(bytes, offset + 3, offset + Extent(field, bytes, offset))

(* ByteReader's offset_ after n fields, for every n.  The reader stops where *)
(* a field does not fit; here the offset is beyond the end from there on.   *)
OffsetsAfter(fields, bytes) ==
  LET after[n \in 0..Len(fields)] ==
        IF n = 0 THEN 0
        ELSE after[n - 1] + Extent(fields[n], bytes, after[n - 1]) IN
  after

MessageFrom(type, fields, bytes) ==
  LET Place(name) == CHOOSE n \in DOMAIN fields : fields[n].name = name
      before == OffsetsAfter(fields, bytes) IN
  [name \in {"type"} \cup NamesOf(fields) |->
     IF name = "type" THEN type
     ELSE ReadField(fields[Place(name)], bytes, before[Place(name) - 1])]

Failure(error) == [error |-> error, message |-> <<>>]

(* Mutant: bytes after the last field are ignored.                          *)
DecodePayload_IgnoresTrailing(type, payload) ==
  LET fields == Expected[type]
      read == OffsetsAfter(fields, payload)[Len(fields)]
      message == MessageFrom(type, fields, payload) IN
  IF read > Len(payload) THEN Failure("TruncatedPayload")
  ELSE IF ~AreFieldsValid(message) THEN Failure("InvalidField")
  ELSE [error |-> "None", message |-> message]

DecodePayload(type, payload) ==
  LET fields == Expected[type]
      read == OffsetsAfter(fields, payload)[Len(fields)]
      message == MessageFrom(type, fields, payload) IN
  IF read > Len(payload) THEN Failure("TruncatedPayload")
  ELSE IF ~AreFieldsValid(message) THEN Failure("InvalidField")
  ELSE IF read # Len(payload) THEN Failure("PayloadLengthMismatch")
  ELSE [error |-> "None", message |-> message]

DecodePacket(bytes) ==
  LET payloadSize == Value32(bytes, 8)
      payload == SubSeq(bytes, kHeaderSize + 1, Len(bytes)) IN
  IF Len(bytes) < kHeaderSize THEN Failure("TruncatedHeader")
  ELSE IF SubSeq(bytes, 1, 4) # MagicBytes THEN Failure("InvalidMagic")
  ELSE IF Value16(bytes, 4) # kProtocolVersion THEN Failure("UnsupportedProtocolVersion")
  ELSE IF payloadSize > kMaximumPayloadSize THEN Failure("OversizedPayload")
  ELSE IF payloadSize > Len(payload) THEN Failure("TruncatedPayload")
  ELSE IF payloadSize # Len(payload) THEN Failure("PayloadLengthMismatch")
  ELSE IF ~IsKnownMessageType(Value16(bytes, 6)) THEN Failure("UnknownMessageType")
  ELSE DecodePayload(MessageTypes[Value16(bytes, 6)], payload)
-----------------------------------------------------------------------------
(* The carrier: one packet id, then a packet that starts with the magic.    *)

HasProtocolMagic(bytes) == Len(bytes) >= 4 /\ SubSeq(bytes, 1, 4) = MagicBytes

EncodeFrame(bytes) ==
  IF HasProtocolMagic(bytes) /\ Len(bytes) <= kMaximumPacketSize
  THEN <<kRakNetPacketId>> \o bytes ELSE <<>>

(* Mutant: the packet id alone claims a frame.                              *)
IsClaimed_AnyMagic(frame) ==
  /\ Len(frame) > 1
  /\ frame[1] = kRakNetPacketId

(* What Inspect leaves to other receivers is SA-MP's own.                   *)
IsClaimed(frame) ==
  /\ Len(frame) > 1
  /\ frame[1] = kRakNetPacketId
  /\ HasProtocolMagic(Tail(frame))
-----------------------------------------------------------------------------
VARIABLES stage,     (* "Idle", "Flight" or "Done"                            *)
          sent,      (* the message given to the encoder                      *)
          frame,     (* the frame on its way                                  *)
          damage,    (* what happened to the frame, and where                 *)
          outcome    (* what the receiver made of it                          *)

vars == <<stage, sent, frame, damage, outcome>>

Unharmed == [kind |-> "None", at |-> 0]
Ignored == Failure("NotSent")
Unrelated == Failure("Unrelated")

Init ==
  /\ stage = "Idle"
  /\ sent \in Outgoing
  /\ frame = <<>>
  /\ damage = Unharmed
  /\ outcome = Ignored

(* The transports' Send: what is not encoded or framed is not sent.         *)
Send ==
  LET encoded == EncodePacket(sent, kProtocolVersion)
      framed == EncodeFrame(encoded.bytes) IN
  /\ stage = "Idle"
  /\ IF encoded.error = "None" /\ framed # <<>>
     THEN stage' = "Flight" /\ frame' = framed
     ELSE stage' = "Done" /\ frame' = <<>>
  /\ UNCHANGED <<sent, damage, outcome>>

(* Damage on the way, or a peer that writes a packet a little otherwise; a  *)
(* packet is damaged twice at most.                                         *)
Damage(kind, at, damaged) ==
  /\ stage = "Flight"
  /\ damage.kind # "Several"
  /\ damage' = IF damage = Unharmed THEN [kind |-> kind, at |-> at]
               ELSE [kind |-> "Several", at |-> 0]
  /\ frame' = damaged
  /\ UNCHANGED <<stage, sent, outcome>>

Cut == \E n \in 1..Len(frame) : Damage("Cut", n, SubSeq(frame, 1, n - 1))
Grow == \E byte \in Byte : Damage("Grown", Len(frame) + 1, Append(frame, byte))
Change == \E n \in DOMAIN frame, byte \in Byte :
            /\ byte # frame[n]
            /\ Damage("Changed", n, [frame EXCEPT ![n] = byte])

(* What a receiver makes of a frame: both ends drop a claimed one that is   *)
(* longer than any packet before they decode it.                            *)
Received(f) ==
  IF ~IsClaimed(f) THEN Unrelated
  ELSE IF Len(f) > kMaximumFrameSize THEN Failure("OversizedFrame")
  ELSE DecodePacket(Tail(f))

Receive ==
  /\ stage = "Flight"
  /\ outcome' = Received(frame)
  /\ stage' = "Done"
  /\ UNCHANGED <<sent, frame, damage>>

Next == Send \/ Cut \/ Grow \/ Change \/ Receive

Spec == Init /\ [][Next]_vars
-----------------------------------------------------------------------------
(* A message arrives as it was sent, whatever values its fields hold, or    *)
(* was refused by the encoder because a field is invalid: no valid message  *)
(* is too long for a packet or a frame, and no encoded one is refused by    *)
(* the other end's decoder.                                                 *)
RoundTrip ==
  stage = "Done" /\ damage = Unharmed =>
    outcome = IF AreFieldsValid(sent) THEN [error |-> "None", message |-> sent]
              ELSE Ignored

(* docs/protocol.md, Wire rules: trailing bytes, truncated data and unknown *)
(* values are rejected.  A packet is taken only if it is, byte for byte,    *)
(* what this end would have sent for the same message.                      *)
Canonical ==
  stage = "Done" /\ outcome.error = "None" =>
    EncodePacket(outcome.message, kProtocolVersion)
      = [error |-> "None", bytes |-> Tail(frame)]

(* A damaged packet gets the error its damage calls for: what no longer     *)
(* carries the packet id and the magic is left to SA-MP, what grew beyond   *)
(* the longest frame is dropped for it, "the payload size must equal the    *)
(* number of bytes remaining in the transport frame", and no cut or grown   *)
(* packet is ever taken.                                                    *)
RefusalNamesDamage ==
  stage = "Done" =>
    /\ damage.kind = "Cut" =>
         outcome.error = IF damage.at <= 5 THEN "Unrelated"
                         ELSE IF damage.at <= 13 THEN "TruncatedHeader"
                         ELSE "TruncatedPayload"
    /\ damage.kind = "Grown" =>
         outcome.error = IF damage.at > kMaximumFrameSize THEN "OversizedFrame"
                         ELSE "PayloadLengthMismatch"
    /\ damage.kind = "Changed" =>
         LET allowed ==
               IF damage.at <= 5 THEN {"Unrelated"}
               ELSE IF damage.at <= 7 THEN {"UnsupportedProtocolVersion"}
               ELSE IF damage.at \in 10..13
                    THEN {"OversizedPayload", "TruncatedPayload", "PayloadLengthMismatch"}
               ELSE {"None", "UnknownMessageType", "InvalidField", "TruncatedPayload",
                     "PayloadLengthMismatch"} IN
         outcome.error \in allowed
=============================================================================
