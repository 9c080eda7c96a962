CONSTANTS
  Clients = {c1, c2}
  Pages <- TwoPages
  Changes <- OneOrBoth
  MaxWorks = 1
  MaxFaults = 1
  None = None
  Database = Database
  Journal = Journal
SPECIFICATION WebSpec
INVARIANTS WorkerTypeOK Isolation FilesHoldTheLog
PROPERTIES Implements EveryRequestIsAnswered
CHECK_DEADLOCK FALSE
