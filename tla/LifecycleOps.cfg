SPECIFICATION Spec
CONSTANTS
  Downloads = {1}
  Queues = {main}
  QueueNames = {main, NoQueue}
  Callers = {c1}
  Runners = {r1}
  Ops = {"cancel", "assign", "remove"}
  Concurrency <- MCConcurrency
  PausableQueues = {}
  SlowDownloads = {1}
  FlakyDownloads = {1}
  MaxPending = 1
  MaxStops = 0
  Worker = worker
  NoRecord = NoRecord
  NoRunner = NoRunner
  NoDownload = NoDownload
  NoQueue = NoQueue
INVARIANTS
  TypeOK
  NoBlankRecord
  HeldNotFinished
PROPERTY
  RemovedStaysRemoved
