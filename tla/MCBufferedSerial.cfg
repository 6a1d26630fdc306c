CONSTANTS
  TxSize = 3
  RxSize = 3
  MaxWrite = 3
  MaxTx = 4
  MaxRx = 3
  MaxFlush = 1
SPECIFICATION Spec
INVARIANTS TypeOK TxInOrder RxInOrder RxNeverRepeats NoLostWakeup
PROPERTIES TxDrains NoInterruptStorm
