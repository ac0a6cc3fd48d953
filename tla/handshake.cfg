\* A step may take longer than the lock lasts.
SPECIFICATION Spec
CONSTANTS
  e1 = e1
  e2 = e2
  e3 = e3
  t1 = t1
  t2 = t2
  t3 = t3
  t4 = t4
  t5 = t5
  Calls = {e1, e2, e3}
  Periodic = e1
  Tokens = {t1, t2, t3, t4, t5}
  NoCall = NoCall
  NoToken = NoToken
  LockTTL = 6
  RedisLimit = 1
  IssueLimit = 2
  Buffer = 3
  Life = 5
  Polls = 2
  Punctual = FALSE
SYMMETRY Names
INVARIANTS PublishOwnsLock
