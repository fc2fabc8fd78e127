---------------------------- MODULE SharedAssets ----------------------------
(***************************************************************************)
(* Asset descriptions, their limits and the manifest messages, as both     *)
(* sides share them (shared/include/custommodel/assets.hpp,                *)
(* shared/src/assets.cpp, shared/include/custommodel/protocol.hpp).  Names *)
(* and URLs are tokens, and BadText stands for every text the shared rules *)
(* refuse.                                                                 *)
(***************************************************************************)
EXTENDS Integers, Sequences

CONSTANTS MaximumAssets,     (* kMaximumAssetsPerManifest, 256               *)
          MaximumFileSize,   (* kMaximumIndividualFileSize, 64 MiB           *)
          MaximumTotalSize,  (* kMaximumTotalDownloadSize, 512 MiB           *)
          WordSize           (* 2^64: sizes and revisions are uint64_t       *)

ASSUME LimitsAssumption ==
  /\ MaximumAssets \in Nat
  /\ MaximumFileSize \in Nat
  /\ MaximumTotalSize \in Nat
  /\ WordSize \in Nat
  /\ 1 < WordSize
  /\ MaximumTotalSize < WordSize

BadText == ""

(* content stands for the type and the digest, by which the client's cache  *)
(* is keyed.                                                                *)
AssetDescriptions == [id : Nat, name : STRING, url : STRING,
                      content : STRING, size : Nat]

IsAssetDescriptionValid(asset) ==
  /\ asset.id # 0
  /\ asset.name # BadText
  /\ asset.url # BadText
  /\ asset.size \in 1..MaximumFileSize

(* Wrapping uint64_t subtraction.                                           *)
Minus(a, b) == (a - b) % WordSize

ManifestBegin(m) == [type |-> "ManifestBegin", revision |-> m.revision,
                     count |-> Len(m.assets), total |-> m.total]
ManifestAsset(m, index) == [type |-> "ManifestAsset", revision |-> m.revision,
                            index |-> index, asset |-> m.assets[index + 1]]
ManifestEnd(m) == [type |-> "ManifestEnd", revision |-> m.revision,
                   count |-> Len(m.assets), total |-> m.total]

IsManifestMessage(message) ==
  message.type \in {"ManifestBegin", "ManifestAsset", "ManifestEnd"}
=============================================================================
