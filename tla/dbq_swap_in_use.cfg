SPECIFICATION Spec
CONSTANTS
  Reader = {r1}
  NoReader = NoReader
  MaxItems = 2
INVARIANT NobodyUsesSwapped
