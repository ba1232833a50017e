SPECIFICATION Spec
CONSTANTS
  Size = 128
  Numbers <- MCNumbers
  Quantities <- MCQuantities
  Values <- MCValues
INVARIANTS ReadsReturnWrites FailsExactlyOutside
