\* An edit of a draft and its publication.
SPECIFICATION TxnSpec
CONSTANTS
  w1 = w1 w2 = w2
  r1 = r1 r2 = r2 editor = editor publisher = publisher a = a b = b
  RecordId <- MCTwoRecords
  NoRecord = NoRecord
  Column <- MCColumn
  Value <- MCValue
  Null = Null
  UniqueColumn <- MCColumn
  RequiredColumn <- MCColumn
  Body <- MCBody
  Broken <- MCBroken
  Writer <- MCBoth
  Publisher <- MCPublisher
  Source = {}
  RequiresDraft = TRUE
  AllowRetire = TRUE
  MaxChanges = 4
  Worker <- MCWorker
  Enabled = {"create", "edit", "publish"}
CHECK_DEADLOCK FALSE
PROPERTY GoldenDataIsApproved
