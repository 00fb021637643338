SPECIFICATION Spec
CONSTANTS
  Snapshots <- SomeSnapshots
  GlowTicks = 2
INVARIANTS PanelReadable MatrixMatchesPanel
CHECK_DEADLOCK FALSE
