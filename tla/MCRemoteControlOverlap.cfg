CONSTANTS
  c1 = c1
  c2 = c2
  Thread = {c1, c2}
  DeviceName = {"fernseher"}
  Brightness <- TwoDigitBrightness
  KeysOf <- RealKeysOf
  Keys <- RealKeys
  MaxWire = 4
SPECIFICATION Spec
INVARIANT PowerTracksState
CHECK_DEADLOCK FALSE
