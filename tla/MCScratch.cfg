\* Nine bytes: both structs fit with a list each, and not with everything.
CONSTANTS
  Nothing = Nothing
  Capacity = 9
  Workspaces = {1, 2}
  MaxItems = 2
SPECIFICATION Spec
INVARIANTS
  LiveBlocksStand
  ReservedUnwinds
