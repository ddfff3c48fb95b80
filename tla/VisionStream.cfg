SPECIFICATION Spec
CONSTANTS
  MaxBytes = 3
  MaxContent = 2
  Block = 2
  Paddings = {0, 1}
  Commands = {0, 1, 2}
  Window = 5
INVARIANT TypeOK
PROPERTIES
  IsStream
  EverythingArrives
CHECK_DEADLOCK FALSE
