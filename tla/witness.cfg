\* Two deliveries of a command, two echoes of it, and an audit, again and again.
SPECIFICATION Spec
CONSTANTS
  c1 = c1
  p1 = p1
  p2 = p2
  e1 = e1
  e2 = e2
  audit = audit
  None = None
  Commands = {c1}
  Copies = {p1, p2, e1, e2}
  Posts <- TwoPosts
  Echoes <- TwoEchoes
  Audits = {audit}
SYMMETRY Names
INVARIANTS TypeOK ReplayIsOriginal AcknowledgedEchoIsStored GaugeIsCurrent
PROPERTY EvidenceIsFinal
