SPECIFICATION Spec
CONSTANTS
  Threads = {t1, t2}
  Queues = {q1, q2}
  Events = {e1, e2}
  Cmds = {c1, c2}
  NPrio = 1
  MaxDeq = 2
  Groups = {}
  GroupAll = GroupAll
  Pausers = {}
  Kinds = {"poll", "atomic", "parallel"}
  None = None
SYMMETRY Symm
INVARIANTS TypeOK OneCommand CommandLive NoLostWakeup AtomicContext PriCountExact OneEvent
