SPECIFICATION FairSpec
CONSTANTS
  Sockets = {s1}
  Conns = {c1, c2}
  Kinds = {"take", "stream", "command"}
  Configs <- OpenOrClosed
  Nobody = Nobody
  ThreadsFail = TRUE
INVARIANTS TypeOK AcceptedIsServed PasswordRespected
PROPERTIES ConnectionsEnd
CHECK_DEADLOCK FALSE
