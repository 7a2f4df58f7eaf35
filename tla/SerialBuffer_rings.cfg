CONSTANTS
  TxLen = 5
  RxLen = 5
  Numbers = 8
  Lengths = {1, 2, 4}
SPECIFICATION FairSpec
INVARIANT SentInOrder
INVARIANT NoStorm
INVARIANT ReadInOrder
PROPERTY OverwritesWhenFull
PROPERTY EverythingSent
