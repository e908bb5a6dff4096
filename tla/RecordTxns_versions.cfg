\* Two edits of one draft.
SPECIFICATION TxnSpec
CONSTANTS
  w1 = w1 w2 = w2
  r1 = r1 r2 = r2 editor = editor publisher = publisher a = a b = b
  RecordId <- MCTwoRecords
  NoRecord = NoRecord
  Column <- MCColumn
  Value <- MCValue
  Null = Null
  UniqueColumn <- MCColumn
  RequiredColumn <- MCColumn
  Body <- MCBody
  Broken <- MCBroken
  Writer <- MCBoth
  Publisher <- MCPublisher
  Source = {}
  RequiresDraft = TRUE
  AllowRetire = TRUE
  MaxChanges = 3
  Worker <- MCWorker
  Enabled = {"create", "edit"}
CHECK_DEADLOCK FALSE
INVARIANT VersionsUnique
