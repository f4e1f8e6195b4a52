SPECIFICATION PathSpec
CONSTANTS
  Length = 6
  Byte <- MCByte
  Bits = 2
  Flag = 1
  MaxBody = 1
  MaxPacket = 6
  crc8_table <- MCTable
  xor <- MCXor
  Writers = {w1, w2}
  Bodies <- MCBodies
  Junk <- MCJunk
  MaxPieces = 2
  MaxChunks = 2
  Null = Null
  Garbled = Garbled
SYMMETRY PathSymmetry
INVARIANTS
  LeftIsIncomplete
  CutsDoNotMatter
  WholeFramesArrive
PROPERTY ImplementsBuffer
CHECK_DEADLOCK FALSE
