-------------------------- MODULE MCServerComponent --------------------------
(* Constants of the ServerComponent runs.                                   *)
EXTENDS ServerComponent

Phase3Required == {"DFF", "TXD", "SHA256_CACHE"}
Runtime030 == [major |-> 0, minor |-> 3, patch |-> 0]

MCHello(patch, protocol, build, capabilities) ==
  [runtime |-> [major |-> 0, minor |-> 3, patch |-> patch], protocol |-> protocol,
   build |-> build, capabilities |-> capabilities]

(* Two acceptable identities and one Hello per reason for a refusal that a  *)
(* decodable Hello can meet.                                                *)
TwoIdentities ==
  {MCHello(0, 1, "R1", Phase3Required),
   MCHello(0, 1, "R3_1", DeclaredCapabilities)}
EveryRefusal ==
  {MCHello(0, 2, "R1", Phase3Required),
   [MCHello(0, 1, "R1", Phase3Required) EXCEPT !.runtime.major = 1],
   MCHello(0, 1, "R4", Phase3Required),
   MCHello(0, 1, "R1", {"DFF"})}
OneIdentity == {MCHello(0, 1, "R1", Phase3Required)}
AllHellos == TwoIdentities \cup EveryRefusal

MCAsset(id, name, size) ==
  [id |-> id, name |-> name, url |-> "url", content |-> name, size |-> size]
TwoAssets == {MCAsset(1, "dff", 2), MCAsset(2, "txd", 3)}
TwoAssetsAndBadLine == TwoAssets \cup {MCAsset(0, "dff", 1)}
OneAsset == {MCAsset(1, "dff", 2)}

MCReports(revisions, ids) ==
  [type : {"AssetReady", "AssetError"}, revision : revisions, id : ids]
MixedReports == MCReports({3}, {1, 2}) \cup MCReports({2}, {1}) \cup MCReports({3}, {9})
                  \cup [type : {"Pong"}, revision : {3}, id : {1}]
FewReports == MCReports({2}, {1})
=============================================================================
