CONSTANTS
  Tag <- MCTag
  Digest <- MCDigest
  Blob <- MCBlob
  Layer <- MCLayer
  Denotes <- MCDenotes
  LayersOf <- MCLayersOf
  EntriesOf <- MCEntriesOf
  None = None
  Container = {c1, c2}
  Mutator = {p1, p2}
  Runner = {}
SPECIFICATION Spec
SYMMETRY Symmetry
INVARIANTS TypeOK SavedManifestsAreComplete PublishedLayersAreWhole ContainersResolve PruneReclaims
PROPERTIES ImplementsImageStore
