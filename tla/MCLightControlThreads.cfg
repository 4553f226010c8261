CONSTANTS
  c1 = c1
  c2 = c2
  Thread = {c1, c2}
  DeviceName = {"fernseher", "lampe"}
  Brightness = {0, 14, 255}
  KeysOf <- RealKeysOf
  Keys <- RealKeys
  MaxWire = 5
  Requests <- OneDimmer
  Installed <- TwoDevices
  MayDisable = FALSE
  MaxAccept = 1
  MaxEarly = 1
  AfterStray = FALSE
SPECIFICATION FairLightSpec
INVARIANT LitHasBrightness
INVARIANT OnlyEarlyRequestsMiss
PROPERTY RequestsFinish
PROPERTY OnlyOverlapDesynchronises
PROPERTY OnlyOverlapMisleads
