CONSTANTS
  Path <- MCPath
  Root <- MCRoot
  Parent <- MCParent
  Layer <- MCLayer
  MaxLayers = 3
SPECIFICATION Spec
CHECK_DEADLOCK FALSE
INVARIANTS EachLayerOnce OverlayShowsImage BindShowsLayer LatterOnTop
