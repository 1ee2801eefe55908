SPECIFICATION Spec
CONSTANTS
  Ids = {1, 2}
  Queues <- MCQueues
  Statuses = {"queued", "paused"}
  PrefixOf <- MCPrefixOf
  Clients = {c1}
  Kinds = {"delete", "reassign", "status", "priority"}
  MaxBulks = 1
  NoQueue = NoQueue
  NoRecord = NoRecord
INVARIANT BulkWithinQueue
CHECK_DEADLOCK FALSE
