\* Imports and pushes beside the record API; new records start as drafts.
SPECIFICATION FeedSpec
CONSTANTS
  r1 = r1 r2 = r2 r3 = r3 editor = editor publisher = publisher a = a b = b
  erp = erp shop = shop i1 = i1
  RecordId <- MCRecordId
  NoRecord = NoRecord
  Column <- MCColumn
  Value <- MCValue
  Null = Null
  UniqueColumn <- MCColumn
  RequiredColumn = {}
  Body <- MCBody
  Broken <- MCBroken
  Writer <- MCWriter
  Publisher <- MCPublisher
  Source <- MCSource
  RequiresDraft = TRUE
  AllowRetire = TRUE
  MaxChanges = 5
  SourceId = {i1}
  Emptied = Emptied
  Push <- MCPush
  PushBody <- MCPushBody
  MatchKey = "key"
  File <- MCFile
  UpsertKey <- MCUpsertKey
  ImportSource <- MCImportSource
  AllowDirectImport = TRUE
SYMMETRY Symmetry
CHECK_DEADLOCK FALSE
INVARIANTS
  FeedTypeOK HistoryTellsTheRecord AuditFollowsHistory DraftsPointAtMasters GoldenWasPublished
  FeedEventsFollow SourceIdNamesOneRecord ReimportKeepsGolden
PROPERTIES
  PushesLandAsDrafts LifecycleOrder MasterDataIsApproved ProvenanceIsRecorded
  FeedPromiseKept ApiKeepsThePromise
