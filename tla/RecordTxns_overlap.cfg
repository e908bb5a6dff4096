\* Two requests at a time.
SPECIFICATION TxnSpec
CONSTANTS
  w1 = w1 w2 = w2
  r1 = r1 r2 = r2 editor = editor publisher = publisher a = a b = b
  RecordId <- MCTwoRecords
  NoRecord = NoRecord
  Column <- MCColumn
  Value <- MCValue
  Null = Null
  UniqueColumn <- MCColumn
  RequiredColumn <- MCColumn
  Body <- MCBody
  Broken <- MCBroken
  Writer <- MCBoth
  Publisher <- MCPublisher
  Source = {}
  RequiresDraft = FALSE
  AllowRetire = TRUE
  MaxChanges = 5
  Worker <- MCWorker
  Enabled = {"create", "edit", "delete", "revert", "publish", "retire"}
SYMMETRY MCSymmetry
CHECK_DEADLOCK FALSE
INVARIANTS
  TxnTypeOK LiveHasOpenVersion OneGoldenPerKey AuditFollowsHistory DraftsPointAtMasters
PROPERTY SerialUnlessStale
