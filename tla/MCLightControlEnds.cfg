CONSTANTS
  c1 = c1
  Thread = {c1}
  DeviceName = {"fernseher"}
  Brightness = {0, 14, 255}
  KeysOf <- RealKeysOf
  Keys <- RealKeys
  MaxWire = 5
  Requests <- JustSwitching
  Installed <- Television
  MayDisable = FALSE
  MaxAccept = 5
  MaxEarly = 1
  AfterStray = TRUE
SPECIFICATION LightSpec
INVARIANT RunsUntilInterrupted
