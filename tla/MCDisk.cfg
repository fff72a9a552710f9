SPECIFICATION Spec
CONSTANTS
  BLOCK_NUM = 2
  BLOCK_LEN = 2
  WORD_LEN = 2
  DISK_RETRY = 3
  FIFO_LEN = 2
  Addrs <- MCAddrs
  Bytes <- MCBytes
  Idle = Idle
INVARIANTS InStep
PROPERTIES ImplementsDevice CallsReturn
