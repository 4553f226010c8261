CONSTANTS
  c1 = c1
  Thread = {c1}
  DeviceName = {"fernseher"}
  Brightness = {0, 14, 255}
  KeysOf <- RealKeysOf
  Keys <- RealKeys
  MaxWire = 4
  Requests <- Everything
  Installed <- Television
  MayDisable = TRUE
  MaxAccept = 4
  MaxEarly = 1
  AfterStray = TRUE
SPECIFICATION FairLightSpec
INVARIANT LightTypeOK
INVARIANT TvFollowsLight
PROPERTY RequestsFinish
PROPERTY SwitchingDialsFullOnly
