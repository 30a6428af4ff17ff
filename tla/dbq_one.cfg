SPECIFICATION Spec
CONSTANTS
  Reader = {r1}
  NoReader = NoReader
  MaxItems = 5
INVARIANT BoundedReorder
