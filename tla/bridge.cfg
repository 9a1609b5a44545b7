SPECIFICATION FairSpec
CONSTANTS
  Capacity = 2
  Mapped = {"accel"}
  RosField = {"accel", "orientation"}
  Value = {0, 1}
  Default = 0
  Limits = {0, 1, 2}
  MaxAccepted = 4
  MaxFaults = 2
  NoItem = NoItem
INVARIANTS
  TypeOK
  PublishedInOrder
  PublishesWhatWasSent
  PublishedOnceUnlessAborted
PROPERTIES
  EveryMessageBridged
