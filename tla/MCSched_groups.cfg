SPECIFICATION Spec
CONSTANTS
  Threads = {t1, t2}
  Queues = {q1, q2}
  Events = {e1}
  Cmds = {c1, c2}
  NPrio = 2
  MaxDeq = 2
  Groups = {g1}
  GroupAll = GroupAll
  Pausers = {t1}
  Kinds = {"atomic"}
  None = None
SYMMETRY SymmData
INVARIANTS CommandLive NoLostWakeup
