SPECIFICATION Spec
CONSTANTS
  NULL = NULL
  n1 = n1
  n2 = n2
  n3 = n3
  Node = {n1, n2, n3}
  Queue = {"qa", "qb"}
  Sender <- SenderOf
  Callers = {"careful", "any"}
INVARIANTS TypeOK Represents LinksAcyclic
