SPECIFICATION Spec
CONSTANTS
  Label = {l1, l2, l3}
  Char = {x, y}
  MaxPiece = 2
  MaxLength = 4
  Piece <- Pieces
  Chapter <- Chapters
SYMMETRY Interchangeable
INVARIANT Tiles
PROPERTY ImplementsFlatLabels
CHECK_DEADLOCK FALSE
