CONSTANTS
  CommSize = 4
  NumBuckets = 5
  AverageKeys = 2
  KeysPerBucket = 2
  TestArraySize = 1
SPECIFICATION Spec
INVARIANTS
  TypeOK
  KeysHaveOwner
  ExpectedIsRouted
  RangeIsRouted
  LesserIsLesserRanks
  LoadBalanced
