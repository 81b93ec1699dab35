CONSTANTS
  Bytes = {0, 127, 128, 143, 144, 159, 160, 191, 192, 193, 194, 223, 224, 225, 237, 239, 240, 241, 244, 245, 255}
  MaxLen = 4
SPECIFICATION Spec
INVARIANT IsValidUtf8Correct
CHECK_DEADLOCK FALSE
