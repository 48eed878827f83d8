CONSTANTS
  Path <- MCPath
  Root <- MCRoot
  Parent <- MCParent
  Top = "t"
  Link <- MCLink
  MaxKills = 2
SPECIFICATION FairSpec
CHECK_DEADLOCK FALSE
INVARIANT RemovalSucceeds
PROPERTIES TreeIsRemoved OutsideIsUntouched
