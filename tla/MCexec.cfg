CONSTANTS
  Tag <- OneTag
  Digest <- OneDigest
  Blob <- OneBlob
  Layer <- OneLayer
  Denotes <- OneDenotes
  LayersOf <- OneLayersOf
  EntriesOf <- OneEntriesOf
  None = None
  Container = {c1}
  Mutator = {p1}
  Runner = {r1}
SPECIFICATION Spec
INVARIANTS RunningSandboxIsIntact
