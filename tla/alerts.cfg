SPECIFICATION FairSpec
CONSTANT Emitter = {e1, e2}
INVARIANTS
  ConnectedKeepsLooking
  DisconnectedIsQuiet
PROPERTY EmittersAreFollowed
