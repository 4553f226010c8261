SPECIFICATION Spec
INVARIANT TableIsLinear
INVARIANT DigitsSpellNumber
INVARIANT FramesIdentifyChannel
INVARIANT CutRequestsAreBeginnings
INVARIANT AddressesSurvive
INVARIANT ReadsAddressesOnly
