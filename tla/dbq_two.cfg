SPECIFICATION Spec
CONSTANTS
  Reader = {r1, r2}
  NoReader = NoReader
  MaxItems = 2
INVARIANTS TypeOK ExactlyOnce
PROPERTIES EventuallyHanded ImplementsHandoff
