CONSTANTS
  Tag <- OneTag
  Digest <- TwoDigest
  Blob <- TwoBlob
  Layer <- TwoLayer
  Denotes <- TwoDenotes
  LayersOf <- TwoLayersOf
  EntriesOf <- OneEntriesOf
  None = None
  Container = {c1}
  Mutator = {p1}
  Runner = {r1, r2}
SPECIFICATION Spec
SYMMETRY Symmetry
PROPERTIES ReadersSeeStableStorage IntactSandboxStaysIntact
