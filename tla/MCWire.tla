-------------------------------- MODULE MCWire --------------------------------
(* Constants of the Wire run: bytes of four values, and messages whose      *)
(* fields are at, next to and beyond their limits.                          *)
EXTENDS Wire

Magic == <<3, 1, 3, 2>>

(* Messages of one type: one field at a time leaves the ordinary ones.      *)
Around(ordinary, corner) ==
  {ordinary} \cup UNION {{[ordinary EXCEPT ![name] = value] : value \in corner[name]}
                          : name \in DOMAIN corner}

Hellos == Around([type |-> "Hello", major |-> 0, minor |-> 3, patch |-> 7,
                  protocol |-> 1, samp |-> 4, flags |-> 28],
                 [major |-> {15}, protocol |-> {0, 2}, samp |-> {0, 7, 8},
                  flags |-> {0, 31, 32}])

Welcomes == Around([type |-> "Welcome", accepted |-> 1, major |-> 0, minor |-> 3,
                    patch |-> 0, protocol |-> 2, flags |-> 28],
                   [flags |-> {0, 31, 32, 255}])

Rejects == {[type |-> "Reject", reason |-> n] : n \in 0..6}

Nonces == {[type |-> type, nonce |-> n] : type \in {"Ping", "Pong"},
                                          n \in {0, 255, 256, 65535}}

Boundaries(type) == Around([type |-> type, revision |-> 1, count |-> 1, total |-> 3],
                           [revision |-> {0, 65535}, count |-> {0, 2, 3}, total |-> {0, 5, 6}])

(* Its packet is exactly kMaximumPacketSize long.                           *)
LongestAsset == [type |-> "ManifestAsset", revision |-> 1, index |-> 0, assetId |-> 7,
                 assetType |-> 1, name |-> <<1, 2, 1>>, url |-> <<3, 2, 1, 3>>,
                 fileSize |-> 2, sha256 |-> <<0, 3>>]

Assets == Around([type |-> "ManifestAsset", revision |-> 1, index |-> 0, assetId |-> 7,
                  assetType |-> 1, name |-> <<1, 2>>, url |-> <<3, 2, 1>>, fileSize |-> 2,
                  sha256 |-> <<0, 3>>],
                 [revision |-> {0, 65535}, index |-> {1, 2}, assetId |-> {0, 255},
                  assetType |-> {0, 2, 3}, name |-> {<<>>, <<3, 3, 3>>, <<1, 0>>, <<1, 1, 1, 1>>},
                  url |-> {<<>>, <<1>>, <<1, 2, 3, 1>>, <<0, 1>>, <<1, 1, 1, 1, 1>>},
                  fileSize |-> {0, 1, 4, 5}])
          \cup {LongestAsset}

Reports ==
  {[type |-> "AssetReady", revision |-> r, assetId |-> id] : r \in {0, 65535}, id \in {0, 255}}
    \cup {[type |-> "AssetError", revision |-> r, assetId |-> id, reason |-> n]
            : r \in {0, 1}, id \in {0, 1}, n \in {0, 1, 8, 9}}

AllMessages ==
  UNION {Hellos, Welcomes, Rejects, Nonces, Boundaries("ManifestBegin"), Assets,
         Boundaries("ManifestEnd"), Reports}
=============================================================================
