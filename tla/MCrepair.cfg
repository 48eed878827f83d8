CONSTANTS
  Tag <- OneTag
  Digest <- TwoDigest
  Blob <- JunkBlob
  Layer <- TwoLayer
  Denotes <- TwoDenotes
  LayersOf <- TwoLayersOf
  EntriesOf <- OneEntriesOf
  None = None
  Container = {c1, c2}
  Mutator = {p1}
  Runner = {}
SPECIFICATION CorruptibleSpec
SYMMETRY Symmetry
INVARIANTS RepairRestoresContainers PruneClearsWhatRepairReports
