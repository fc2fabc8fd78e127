---------------------------- MODULE MCAssetManager ----------------------------
(* Constants of the AssetManager runs.                                      *)
EXTENDS AssetManager

MCAsset(id, content, size) ==
  [id |-> id, name |-> content, url |-> "url", content |-> content, size |-> size]

MessagesOf(m) ==
  {ManifestBegin(m), ManifestEnd(m)}
    \cup {ManifestAsset(m, index) : index \in 0..(Len(m.assets) - 1)}

TwoSizes == [c \in Contents |-> IF c = "dff" THEN 2 ELSE 3]

(* A server with two assets of two contents, and one whose two asset ids    *)
(* share a content; the second entry is named apart.                        *)
TwoContents ==
  MessagesOf([revision |-> 1, total |-> 5,
              assets |-> <<MCAsset(1, "dff", 2), MCAsset(2, "txd", 3)>>])
SharedContent ==
  MessagesOf([revision |-> 1, total |-> 4,
              assets |-> <<MCAsset(1, "dff", 2),
                           [MCAsset(2, "dff", 2) EXCEPT !.name = "copy"]>>])
EitherServer == TwoContents \cup SharedContent

(* Nothing is left over from earlier processes, so that every temporary     *)
(* file is of a download of this behaviour.                                 *)
CleanInit == Init /\ \A c \in Contents : tmp[c] = "Absent"
CleanSpec == CleanInit /\ [][Next]_vars
=============================================================================
