\* Three requests and a pool of one connection: one request under way when the
\* signal comes, one that slips in between wg.Wait and the end of Shutdown, and
\* one that never ends.
CONSTANTS
  Requests = {r1, r2, r3}
  PoolSize = 1
  Settings <- MCSettings
  Providers = {"google", "gitlab"}
  Texts = {"google", "gitlab", "url", "key", "x", "true", "false"}
  Secrets = {"key"}
  TrueWords = {"true"}
  FalseWords = {"false"}
  Empty = Empty
  Unset = Unset
  Unreadable = Unreadable
  Absent = Absent

SPECIFICATION ReplicaSpec
\* The process ends.
CHECK_DEADLOCK FALSE

INVARIANTS
  ReplicaTypeOK
  CutOnlyByTimeout
  ServesOnlyConfigured
  FileSurvivesEnvironment

PROPERTIES
  SignalEndsProcess
  OnlyIssuersStallStart
  PoolRecovers
