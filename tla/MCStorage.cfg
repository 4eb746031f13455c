SPECIFICATION MCSpec
CONSTANTS
  Nodes = {n1}
  Values = {d1, d2}
  Readers = {r1}
  Nil = Nil
  MaxTxn = 3
  MaxClock = 5
  Labels = {"a", "b", "a:b"}
  ColonParts <- Colons
  Definitions <- Defined
  PropValues <- Saved
  LoggedLabels = {"a"}
  LoggedValues <- LoggedOnes
  IncrCompressions = {"gzip"}
  MillisPerSecond = 2
  MaxNodes = 2
  MaxEdges = 2
  MaxChanges = 4
  MaxLogged = 5
  MaxMillis = 3
  MaxStatements = 3
  MaxLives = 2
  MaxBackups = 2
  MaxTicks = 5
SYMMETRY Symmetry
INVARIANTS
  SnapshotInv
  NoDirtyRead
  FilesRoundTrip
  TornFilesRefused
  HistoryRestored
PROPERTIES
  SnapshotReadStable
  CleanupInvisible
  SavedGraphRestored
  NewestBackupKept
CHECK_DEADLOCK FALSE
