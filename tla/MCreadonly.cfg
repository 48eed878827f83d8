CONSTANTS
  Path <- MCPath
  Root <- MCRoot
  Parent <- MCParent
  Archive <- DeletingArchive
SPECIFICATION FairSpec
CHECK_DEADLOCK FALSE
INVARIANTS MarkersNeedNoPrivileges
