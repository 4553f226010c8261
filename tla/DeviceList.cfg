CONSTANTS
  d1 = d1
  d2 = d2
  d3 = d3
  Key = {d1, d2, d3}
  tv = tv
  lamp = lamp
  Name = {tv, lamp}
  p1 = p1
  p2 = p2
  p3 = p3
  Cell = {p1, p2, p3}
  IdMod = 3
  MaxDevices = 3
  MaxChanges = 2
SPECIFICATION FairSpec
INVARIANT TypeOK
INVARIANT QuietRepliesAreExact
INVARIANT IdsStayGood
PROPERTY RepliesEnd
PROPERTY MainIsAtomic
