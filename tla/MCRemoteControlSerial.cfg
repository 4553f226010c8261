CONSTANTS
  c1 = c1
  Thread = {c1}
  Caller = c1
  DeviceName = {"fernseher", "lampe"}
  Brightness <- SomeBrightness
  KeysOf <- RealKeysOf
  Keys <- RealKeys
  MaxWire = 6
SPECIFICATION FairSpec
INVARIANT TypeOK
INVARIANT PowerTracksState
PROPERTY CommandsDelivered
CHECK_DEADLOCK FALSE
