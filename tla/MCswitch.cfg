CONSTANTS
  Tag <- MCTag
  Digest <- MCDigest
  Blob <- MCBlob
  Layer <- MCLayer
  Denotes <- MCDenotes
  LayersOf <- MCLayersOf
  EntriesOf <- MCEntriesOf
  None = None
  Container = {c1}
  Mutator = {p1}
  Runner = {}
SPECIFICATION Spec
INVARIANTS SwitchedContainersResolve
