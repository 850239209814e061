SPECIFICATION Spec
CONSTANTS
  MaxChunk = 3
  Overhead = 2
  Split <- Splits
  MaxFrames = 3
  MaxPieces = 2
  MaxSealed = 5
INVARIANT ReceivedIsParsed
