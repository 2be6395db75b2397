SPECIFICATION Spec
CONSTANTS
  Cores = 1
  TxSize = 2
  RxSize = 1
  FifoSize = 1
  TooLong = {2}
  MaxWritten = 3
  MaxReceived = 3
  MaxErrors = 3
  MaxOutside = 3
INVARIANTS
  ReaderIsWoken
  NeverIdle
  RestartsEmpty
  SentInOrder
  ArrivalsAccounted
