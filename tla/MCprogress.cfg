CONSTANTS
  Tag <- OneTag
  Digest <- JunkDigest
  Blob <- JunkBlob
  Layer <- TwoLayer
  Denotes <- JunkDenotes
  LayersOf <- TwoLayersOf
  EntriesOf <- OneEntriesOf
  None = None
  Container = {c1}
  Mutator = {p1}
  Runner = {r1}
SPECIFICATION FairSpec
PROPERTIES LocalWorkEnds AnsweredCommandsEnd
