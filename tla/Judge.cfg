SPECIFICATION AllSpec
CONSTANTS
  Char = {1, 32, 34, 35, 39, 48, 52, 92, 97, 120, 200}
  MaxStr = 4
  WordChar = {1, 9, 32, 34, 39, 48, 92, 97, 127}
  MaxWord = 2
  MaxWords = 2
  FirstCap = 2
  MaxLines = 3
  Byte = {0, 1}
  MaxSize = 5
  Chunk = 2
INVARIANTS
  RoundTrip
  InsideBuffers
  InfoRight
  CheckersRight
PROPERTIES
  CallsEnd
CHECK_DEADLOCK FALSE
