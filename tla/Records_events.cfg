\* New records need approval: what a publish announces.
SPECIFICATION Spec
CONSTANTS
  r1 = r1 r2 = r2 r3 = r3 editor = editor publisher = publisher a = a b = b
  RecordId <- MCRecordId
  NoRecord = NoRecord
  Column <- MCColumn
  Value <- MCValue
  Null = Null
  UniqueColumn <- MCColumn
  RequiredColumn <- MCColumn
  Body <- MCBody
  Broken <- MCBroken
  Writer <- MCWriter
  Publisher <- MCPublisher
  Source = {}
  RequiresDraft = TRUE
  AllowRetire = TRUE
  MaxChanges = 6
SYMMETRY Symmetry
CHECK_DEADLOCK FALSE
PROPERTY EventsAsDocumented
