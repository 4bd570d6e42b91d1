SPECIFICATION FairSpec
CONSTANTS
  Workers = {w1, w2}
  bucket = bucket
  pic = pic
  table = table
  name = name
  note = note
  memo = memo
  Keyed = {bucket, pic, table, name}
  Fresh = {note, memo}
  Users = {}
  Columns = {name}
  Files = {pic}
  Parent <- MCParent
  Pages <- MCPages
  None = None
  MaxRetries = 3
  MaxEarly = 1
  MaxFaults = 2
INVARIANTS OneImporter DuplicatesNeedInterruption CompletedIsWhole
PROPERTY MigrationSettles
CHECK_DEADLOCK FALSE
