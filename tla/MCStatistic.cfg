SPECIFICATION StatSpec
CONSTANTS
  t1 = t1
  t2 = t2
  Main = t1
  Threads = {t1, t2}
  s1 = s1
  s2 = s2
  Statistics = {s1, s2}
  StatLock = StatLock
  StatInfo = StatInfo
  c = c
  Statics = {StatLock, StatInfo, c}
  CreatorUses <- MCCreatorUses
  DeleterUses <- MCDeleterUses
  MaxObjects = 5
  MaxValue = 2
  None = None
INVARIANTS
  OneObject
  CompleteWhenUsed
  UsedOutlivesUser
  RegisteredOnce
  OneRegistrar
PROPERTIES
  NothingLeft
  AllPrinted
  CountEnds
CHECK_DEADLOCK FALSE
