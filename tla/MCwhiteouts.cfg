CONSTANTS
  Path <- MCPath
  Root <- MCRoot
  Parent <- MCParent
  Archive <- MCArchive
SPECIFICATION FairSpec
CHECK_DEADLOCK FALSE
INVARIANTS ConversionIsExact
PROPERTIES ExtractionEnds
