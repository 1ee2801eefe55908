SPECIFICATION FairSpec
CONSTANTS
  Downloads = {1, 2}
  Queues = {main}
  QueueNames = {main}
  Callers = {}
  Runners = {r1}
  Ops = {}
  Concurrency <- MCUnset
  PausableQueues = {main}
  SlowDownloads = {1, 2}
  FlakyDownloads = {}
  MaxPending = 0
  MaxStops = 1
  Worker = worker
  NoRecord = NoRecord
  NoRunner = NoRunner
  NoDownload = NoDownload
  NoQueue = NoQueue
PROPERTIES
  RunningEnds
  OnlyNewerHoldUp
