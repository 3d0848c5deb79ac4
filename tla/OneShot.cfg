CONSTANTS
  Devices = {1,2}
  Trusted = {1}
  Paths <- Each
  PerIP = 1
  KnownPerIP = 2
  MaxUnauth = 2
  Room = 1
  MaxConns = 2
  MaxRounds = 2
  MaxEvents = 2
SPECIFICATION FairSpec
INVARIANT OneReceiver TalkKeepsItsTime PlacesAreHeld
PROPERTY ServeGoesOn
CHECK_DEADLOCK FALSE
