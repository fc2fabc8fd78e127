---------------------------- MODULE AssetRegistry ----------------------------
(***************************************************************************)
(* The server's list of published assets (server/src/asset_registry.cpp)   *)
(* and the file it is loaded from (server/src/manifest_config.cpp).        *)
(***************************************************************************)
EXTENDS SharedAssets, FiniteSets

VARIABLES registry,  (* AssetRegistry: assets_, logicalNames_, totalSize_, revision_ *)
          parsed     (* the registry local to LoadManifestConfig                  *)

EmptyRegistry == [assets |-> {}, names |-> {}, total |-> 0, revision |-> 1]

Ids(assets) == {asset.id : asset \in assets}

AdvanceRevision(revision) ==
  IF revision = WordSize - 1 THEN revision ELSE revision + 1

(* Mutant: the total size is not limited.                                   *)
RegisterResult_AnyTotal(reg, asset) ==
  IF ~IsAssetDescriptionValid(asset) THEN "InvalidAsset"
  ELSE IF asset.id \in Ids(reg.assets) THEN "DuplicateAssetId"
  ELSE IF asset.name \in reg.names THEN "DuplicateLogicalName"
  ELSE IF Cardinality(reg.assets) >= MaximumAssets THEN "AssetLimitReached"
  ELSE "Added"

(* The first check RegisterAsset fails, in the code's order.                *)
RegisterResult(reg, asset) ==
  IF ~IsAssetDescriptionValid(asset) THEN "InvalidAsset"
  ELSE IF asset.id \in Ids(reg.assets) THEN "DuplicateAssetId"
  ELSE IF asset.name \in reg.names THEN "DuplicateLogicalName"
  ELSE IF Cardinality(reg.assets) >= MaximumAssets THEN "AssetLimitReached"
  ELSE IF asset.size > Minus(MaximumTotalSize, reg.total) THEN "TotalSizeExceeded"
  ELSE "Added"

AfterRegister(reg, asset) ==
  [assets   |-> reg.assets \cup {asset},
   names    |-> reg.names \cup {asset.name},
   total    |-> (reg.total + asset.size) % WordSize,
   revision |-> AdvanceRevision(reg.revision)]

(* Mutants: removal forgets the name index; removal keeps the revision.     *)
AfterRemove_KeepsName(reg, asset) ==
  [assets   |-> reg.assets \ {asset},
   names    |-> reg.names,
   total    |-> Minus(reg.total, asset.size),
   revision |-> AdvanceRevision(reg.revision)]

AfterRemove_KeepsRevision(reg, asset) ==
  [assets   |-> reg.assets \ {asset},
   names    |-> reg.names \ {asset.name},
   total    |-> Minus(reg.total, asset.size),
   revision |-> reg.revision]

AfterRemove(reg, asset) ==
  [assets   |-> reg.assets \ {asset},
   names    |-> reg.names \ {asset.name},
   total    |-> Minus(reg.total, asset.size),
   revision |-> AdvanceRevision(reg.revision)]

(* The asset with n - 1 smaller ids.                                        *)
InIdOrder(assets, n) ==
  CHOOSE asset \in assets : Cardinality({a \in assets : a.id < asset.id}) = n - 1

(* BuildManifest copies the assets in ascending id order.                   *)
ManifestAssets(reg) ==
  [n \in 1..Cardinality(reg.assets) |-> InIdOrder(reg.assets, n)]

BuildManifest(reg) ==
  [revision |-> reg.revision, total |-> reg.total, assets |-> ManifestAssets(reg)]
-----------------------------------------------------------------------------
RegistryInit == registry = EmptyRegistry /\ parsed = EmptyRegistry

(* A refused registration, an unknown id and clearing an empty registry     *)
(* leave everything unchanged.                                              *)
RegisterAsset(asset) ==
  /\ RegisterResult(registry, asset) = "Added"
  /\ registry' = AfterRegister(registry, asset)
  /\ UNCHANGED parsed

RemoveAsset(id) ==
  \E asset \in registry.assets :
    /\ asset.id = id
    /\ registry' = AfterRemove(registry, asset)
    /\ UNCHANGED parsed

ClearAssets ==
  /\ registry.assets # {}
  /\ registry' = [EmptyRegistry EXCEPT !.revision = AdvanceRevision(registry.revision)]
  /\ UNCHANGED parsed

(* LoadManifestConfig reads the file line by line into a fresh registry.  A *)
(* line that does not parse is a description IsAssetDescriptionValid        *)
(* refuses: both end the load, and neither touches the caller's registry.   *)
LoadLine(asset) ==
  /\ RegisterResult(parsed, asset) = "Added"
  /\ parsed' = AfterRegister(parsed, asset)
  /\ UNCHANGED registry

LoadAbandoned ==
  /\ parsed' = EmptyRegistry
  /\ UNCHANGED registry

LoadFails(asset) ==
  /\ RegisterResult(parsed, asset) # "Added"
  /\ LoadAbandoned

LoadEnds ==
  /\ registry' = parsed
  /\ parsed' = EmptyRegistry
=============================================================================
