\* An echo that comes at the same time as the command it is of.
SPECIFICATION Spec
CONSTANTS
  c1 = c1
  p1 = p1
  p2 = p2
  e1 = e1
  e2 = e2
  audit = audit
  None = None
  Commands = {c1}
  Copies = {p1, p2, e1, e2}
  Posts <- OnePost
  Echoes <- OneEcho
  Audits = {}
INVARIANT RejectedEchoIsDuplicate
