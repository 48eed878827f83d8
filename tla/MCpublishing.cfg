CONSTANTS
  Container <- MCContainer
  Manifest <- MCManifest
  Value = {v1, v2}
  Torn = Torn
  None = None
SPECIFICATION Spec
PROPERTIES ImplementsCatalog StagingIsFree
