-------------------------- MODULE ManifestReceiver --------------------------
(***************************************************************************)
(* The client's validation of a manifest stream                            *)
(* (client/src/assets/manager.cpp, ManifestReceiver), as a function of the *)
(* receiver's state and the message.  assetIds_ and logicalNames_ are the  *)
(* ids and names of the entries accepted so far; the 1 MiB budget of       *)
(* manifestBytes_ is left out, because 256 entries of at most 2206 bytes   *)
(* never reach it.                                                         *)
(***************************************************************************)
EXTENDS SharedAssets, FiniteSetsExt

IdleReceiver ==
  [state |-> "Idle", revision |-> 0, total |-> 0, expected |-> 0, assets |-> <<>>]

(* What a failed receiver still holds is never read again before Reset.     *)
FailedReceiver == [IdleReceiver EXCEPT !.state = "Failed"]

BeginInOrder(r) == r.state = "Idle"

BeginValid(message) ==
  /\ message.revision # 0
  /\ message.count <= MaximumAssets
  /\ message.total <= MaximumTotalSize
  /\ message.count = 0 => message.total = 0

AssetInOrder(r, message) ==
  /\ r.state = "Receiving"
  /\ message.revision = r.revision
  /\ message.index = Len(r.assets)
  /\ Len(r.assets) < r.expected

AssetAcceptable(r, asset) ==
  /\ IsAssetDescriptionValid(asset)
  /\ \A n \in DOMAIN r.assets : /\ r.assets[n].id # asset.id
                                /\ r.assets[n].name # asset.name

EndInOrder(r, message) ==
  /\ r.state = "Receiving"
  /\ message.revision = r.revision
  /\ message.count = r.expected
  /\ message.count = Len(r.assets)
  /\ message.total = r.total

SizesUpTo(r, n) == MapThenSumSet(LAMBDA k : r.assets[k].size, 1..n)

(* The loop stops before the sum could pass the limit.                      *)
EndTotalsMatch(r) ==
  /\ \A n \in DOMAIN r.assets :
       r.assets[n].size <= Minus(MaximumTotalSize, SizesUpTo(r, n - 1))
  /\ SizesUpTo(r, Len(r.assets)) = r.total

(* ManifestInputResult of Handle.                                           *)
HandleResult(r, message) ==
  CASE message.type = "ManifestBegin" ->
         IF ~BeginInOrder(r) THEN "InvalidOrder"
         ELSE IF BeginValid(message) THEN "Accepted" ELSE "InvalidManifest"
    [] message.type = "ManifestAsset" ->
         IF ~AssetInOrder(r, message) THEN "InvalidOrder"
         ELSE IF AssetAcceptable(r, message.asset) THEN "Accepted" ELSE "InvalidManifest"
    [] message.type = "ManifestEnd" ->
         IF ~EndInOrder(r, message) THEN "InvalidOrder"
         ELSE IF EndTotalsMatch(r) THEN "Complete" ELSE "InvalidManifest"
    [] OTHER -> "Ignored"

AfterHandle(r, message) ==
  CASE HandleResult(r, message) = "Ignored" -> r
    [] HandleResult(r, message) \in {"InvalidOrder", "InvalidManifest"} -> FailedReceiver
    [] HandleResult(r, message) = "Complete" -> [r EXCEPT !.state = "Complete"]
    [] HandleResult(r, message) = "Accepted" /\ message.type = "ManifestBegin" ->
         [state |-> "Receiving", revision |-> message.revision, total |-> message.total,
          expected |-> message.count, assets |-> <<>>]
    [] HandleResult(r, message) = "Accepted" /\ message.type = "ManifestAsset" ->
         [r EXCEPT !.assets = Append(@, message.asset)]
=============================================================================
