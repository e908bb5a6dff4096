\* Two requests at a time, under the fairness of the pool and of PostgreSQL.
SPECIFICATION FairSpec
CONSTANTS
  w1 = w1 w2 = w2
  r1 = r1 r2 = r2 editor = editor publisher = publisher a = a b = b
  RecordId <- MCTwoRecords
  NoRecord = NoRecord
  Column <- MCColumn
  Value <- MCValue
  Null = Null
  UniqueColumn <- MCColumn
  RequiredColumn <- MCColumn
  Body <- MCBody
  Broken <- MCBroken
  Writer <- MCPublisher
  Publisher <- MCPublisher
  Source = {}
  RequiresDraft = FALSE
  AllowRetire = TRUE
  MaxChanges = 4
  Worker <- MCWorker
  Enabled = {"create", "edit", "delete", "revert", "publish", "retire"}
CHECK_DEADLOCK FALSE
PROPERTY RequestsEnd
