SPECIFICATION MCSpec
CONSTANTS
  NFrames = 9
  Usable <- HighUsable
  Bitmap <- HighBitmap
  Counts <- MCCounts
  Aligns <- MCAligns
  Units = 10
  MemoryMaps <- MCMaps
  PageSize = 2
  BitsPerPage = 2
  Modulus = 32
INVARIANTS BlocksExclusive CountersAgree RefusedOnlyIfFull BootLeavesPmm
PROPERTIES CallsReturn ImplementsFrameAllocator
