SPECIFICATION Spec
CONSTANTS
  Sockets = {s1, s2}
  Conns = {c1, c2}
  Kinds = {"snapshot"}
  Configs <- OpenOrClosed
  Nobody = Nobody
  ThreadsFail = FALSE
INVARIANTS OwnConnection
CHECK_DEADLOCK FALSE
