SPECIFICATION Spec
CONSTANTS
  Downloads = {1}
  Queues = {main}
  QueueNames = {main}
  Callers = {c1}
  Runners = {r1, r2}
  Ops = {"start"}
  Concurrency <- MCConcurrency
  PausableQueues = {}
  SlowDownloads = {}
  FlakyDownloads = {}
  MaxPending = 0
  MaxStops = 0
  Worker = worker
  NoRecord = NoRecord
  NoRunner = NoRunner
  NoDownload = NoDownload
  NoQueue = NoQueue
INVARIANT
  OneRunnerPerDownload
