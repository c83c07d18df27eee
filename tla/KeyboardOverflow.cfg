SPECIFICATION Spec
CONSTANTS
  left = left
  right = right
  caps = caps
  Keys <- MCKeys
  LeftShift = left
  RightShift = right
  CapsLock = caps
  Extended = Extended
  Released = Released
  NoByte = NoByte
  MaxBufferLength = 2
  MaxEvents = 3
INVARIANT
  StaysInBuffer
CHECK_DEADLOCK FALSE
