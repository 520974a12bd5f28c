SPECIFICATION Spec
CONSTANTS
  Start = 7000
  End = 7009
  Step = 2
INVARIANTS
  NoPortTwice
  NoPortLost
  BlocksDisjoint
PROPERTY
  ImplementsPool
