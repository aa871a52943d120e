SPECIFICATION Spec
CONSTANTS
  NFrames = 9
  Usable = {1, 2, 3, 5, 6, 7, 8}
  Bitmap = {1}
  Counts = {0, 1, 2, 3}
  Aligns = {0, 1, 2}
INVARIANT FreeCountExact
