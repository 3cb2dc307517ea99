SPECIFICATION Spec
CONSTANTS
  Byte = 8
  Opcodes = 2
  Xor <- BitXor
  MaxFrame = 66
  MaxMessage = 66
  ToServer <- FromClients
  ToClient <- FromServer
  MaxFrames = 3
INVARIANTS
  StreamKept
  CutsInTime
CHECK_DEADLOCK FALSE
