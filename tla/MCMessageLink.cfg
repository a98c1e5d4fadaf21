SPECIFICATION Spec
CONSTANTS
  Kinds <- AllKinds
  MaxItems = 2
  Talkative = {"UQuery"}
  MaxSent = 3
  Stray = Stray
  MaxStray = 1
INVARIANTS TypeOK EncodesSchema SizeIsLength RoundTrip InitializedIsComplete ReceivedWasSent
PROPERTY ActsAsMessage
CHECK_DEADLOCK FALSE
