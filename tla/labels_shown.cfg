SPECIFICATION EditorSpec
CONSTANTS
  Label = {l1, l2}
  Char = {x, y}
  MaxLength = 4
  Piece <- Pieces
  Chapter <- Chapters
INVARIANT LabelsShown
CHECK_DEADLOCK FALSE
