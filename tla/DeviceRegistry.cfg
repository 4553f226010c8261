CONSTANTS
  tv = tv
  lamp = lamp
  own = own
  Name = {tv, lamp}
  Level = {7}
  OwnUniqueId = {own}
  IdMod = 4
  MaxDevices = 3
  MaxRemovals = 2
SPECIFICATION Spec
INVARIANT TypeOK
INVARIANT RepeatsNeedRemovals
PROPERTY CallsMeanWhatTheySay
