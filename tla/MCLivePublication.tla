-------------------------- MODULE MCLivePublication --------------------------
(* Constants of the LivePublication run.                                    *)
EXTENDS LivePublication, TLC

MCAsset(id, name, url, size) ==
  [id |-> id, name |-> name, url |-> url, content |-> name, size |-> size]

(* Three assets that cannot all be published together (two is the limit),   *)
(* two of one id, two of one name, a pair over the total size, and an       *)
(* invalid one.                                                             *)
MixedCatalogue ==
  {MCAsset(1, "a", "u", 2), MCAsset(1, "b", "u", 1), MCAsset(2, "b", "u", 3),
   MCAsset(3, "c", "u", 4), MCAsset(4, "d", BadText, 1)}

FewReports == [type : {"AssetReady", "AssetError"}, revision : {2, 3}, id : {1}]

PlayerSymmetry == Permutations(Players)
=============================================================================
