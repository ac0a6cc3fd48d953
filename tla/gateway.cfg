\* Two calls for ever: they fail or die at any step, and what they leave is lost or late.
SPECIFICATION FairSpec
CONSTANTS
  e1 = e1
  e2 = e2
  t1 = t1
  t2 = t2
  t3 = t3
  Calls = {e1, e2}
  Periodic = e1
  Tokens = {t1, t2, t3}
  NoCall = NoCall
  NoToken = NoToken
  LockTTL = 5
  RedisLimit = 1
  IssueLimit = 1
  Buffer = 2
  Life = 2
  Polls = 2
  Punctual = TRUE
INVARIANTS TypeOK OneReplacement NoNeedlessIssue FreshIsUsable PublishOwnsLock
PROPERTIES CallsReturn StaysFresh
