\* Three jobs, two worker tasks (one cancelled or crashed) and two close() calls.
SPECIFICATION FairSpec
CONSTANTS
  Jobs = {j1, j2, j3}
  Closers = {c1, c2}
  Workers = {w1, w2}
  NoJob = NoJob
  NoWorker = NoWorker
  Sentinel = Sentinel
INVARIANT OneWriter
PROPERTIES ImplementsSerialWriter SubmitsSettle CloseSettles
\* The queue may stop: all jobs are settled and it is closed.
CHECK_DEADLOCK FALSE
