\* New records need approval; two attributes, bodies that set one of them.
SPECIFICATION Spec
CONSTANTS
  r1 = r1 r2 = r2 r3 = r3 editor = editor publisher = publisher a = a b = b
  RecordId <- MCRecordId
  NoRecord = NoRecord
  Column <- MCTwoColumn
  Value <- MCValue
  Null = Null
  UniqueColumn <- MCKeyColumn
  RequiredColumn = {}
  Body <- MCPartialBody
  Broken <- MCNoteWithoutKey
  Writer <- MCWriter
  Publisher <- MCPublisher
  Source = {}
  RequiresDraft = TRUE
  AllowRetire = TRUE
  MaxChanges = 6
SYMMETRY Symmetry
CHECK_DEADLOCK FALSE
INVARIANTS
  TypeOK StatusFresh HistoryWellFormed HistoryTellsTheRecord OneGoldenPerKey SecondDraftWasReverted
PROPERTIES
  GoldenDataIsApproved PromiseKept
