\* Any client, also one that fills the last slot.
SPECIFICATION Spec
CONSTANTS
  Size = 4
  BUFFER_INIT_PATTERN = pattern
  Byte = {x, y}
  MaxArray = 3
INVARIANTS TypeOK
PROPERTIES RingIsFifo
