SPECIFICATION PS2Spec
CONSTANTS
  left = left
  right = right
  caps = caps
  Keys <- MCKeys
  LeftShift = left
  RightShift = right
  CapsLock = caps
  Extended = Extended
  Released = Released
  NoByte = NoByte
  MaxBufferLength = 4
  MaxEvents = 3
  ResendTimesCount = 1
  MaxRefusals = 2
  MaxKeys = 1
  MaxCalls = 1
INVARIANTS
  SetUpIsSound
  InputsAreTyped
  LengthCountsUnread
PROPERTIES
  SetUpEnds
  BufferDrains
\* nothing typed, nothing read; and the reset is not modelled
CHECK_DEADLOCK FALSE
