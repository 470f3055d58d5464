SPECIFICATION Spec
CONSTANTS
  Handles = {0, 1}
  MaxLength = 2
  MaxCount = 2
  MaxPushBack = 1
  OffsetRange = 5
  Closed = Closed
INVARIANT OffsetTracksPosition
PROPERTY LabelsAreOffsets
