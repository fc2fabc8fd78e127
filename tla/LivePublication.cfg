SPECIFICATION Spec
CONSTANTS
  Players = {p1, p2}
  MaxOutbox = 4
  MaximumAssets = 2
  MaximumFileSize = 4
  MaximumTotalSize = 5
  WordSize = 6
  Catalogue <- MixedCatalogue
  Reports <- FewReports
SYMMETRY PlayerSymmetry
INVARIANTS RegistryConsistent ReceiverAgrees RevisionIdentifiesContent
