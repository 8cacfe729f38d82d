SPECIFICATION Spec
CONSTANTS
  HalfRange = 3
  MaxOrdered = 8
  MaxRepeated = 5
  OrderedWindow = 6
  MaxSequenced = 7
  MaxLag = 3
CHECK_DEADLOCK FALSE
INVARIANTS OrderedDelivery BufferIsAhead
PROPERTIES SequencedDelivery ImplementsOrderedStream
