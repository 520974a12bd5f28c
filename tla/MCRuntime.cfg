SPECIFICATION Spec
CONSTANTS
  Threads = {"a", "b"}
  Msgs = 3
  Scenarios <- McScenarios
  MaxTime = 1
  Workers = {w1, w2}
  Owner = owner
  MaxClosures = 3
  Lockers = {x, y, z}
  NoThread = none
  LockKinds = {"recursive", "spinning", "mutex", "global"}
  MaxSpins = 2
  MaxEnters = 4
INVARIANTS
  MessagesSettleOnce
  SleepersAreIdle
PROPERTIES
  SendReturns
  InvokerOutlivesClosures
  LocksExclude
CHECK_DEADLOCK FALSE
