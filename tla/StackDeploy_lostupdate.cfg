SPECIFICATION Spec
CONSTANTS
  plain = plain
  ordered = ordered
  web = web
  db = db
  r1 = r1
  r2 = r2
  j1 = j1
  j2 = j2
  Job = {j1, j2}
  Loop = loop
  Source = {plain, ordered}
  Levels <- MCLevels
  Service = {web, db}
  Repo = {r1, r2}
  NoRepo = none
  NoSource = nosource
  ErrorLimit = 2
  MaxRevs = 8
  Settings <- MCLostUpdate
PROPERTY SyncAppliesLatest
