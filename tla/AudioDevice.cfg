SPECIFICATION Spec
CONSTANTS
  Speaker = Speaker
  Codec = Codec
  Devs <- MCDevs
  MaxOpens = 3
  MaxInFlight = 2
INVARIANT NoLostStart
INVARIANT WokenByOwnStart
INVARIANT TimeBaseFresh
INVARIANT HandshakeGoesOn
CHECK_DEADLOCK FALSE
