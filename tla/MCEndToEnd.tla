------------------------------ MODULE MCEndToEnd ------------------------------
(* Constants of the EndToEnd runs.                                          *)
EXTENDS EndToEnd

Phase3Required == {"DFF", "TXD", "SHA256_CACHE"}
Runtime030 == [major |-> 0, minor |-> 3, patch |-> 0]

MCHello(build) ==
  [runtime |-> Runtime030, protocol |-> 1, build |-> build,
   capabilities |-> DeclaredCapabilities]
Supported == MCHello("R1")
OneHello == {Supported}

MCAsset(id, name, size) ==
  [id |-> id, name |-> name, url |-> "url", content |-> name, size |-> size]
TwoAssets == {MCAsset(1, "dff", 2), MCAsset(2, "txd", 3)}
=============================================================================
