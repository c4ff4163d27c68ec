SPECIFICATION Spec
CONSTANTS
  Apps = {a1, a2}
  Threads = {t1, t2}
  Jobs = {j1}
  Engines = {e1}
  Requests = {r1}
  Readers = {p1}
  QueueBuf = 1
  UpdateBuf = 1
  DelBuf = 1
  TaskBuf = 1
  None = None
  Free = Free
  Loop = Loop
INVARIANTS LoopMoves
PROPERTIES ListHolds RestartKeepsDeletes
SYMMETRY Alike
