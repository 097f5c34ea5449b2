\* The upgrade pipeline for two concurrent connections and a peers file
\* the provisioning system rewrites: every dialled device passed all gates,
\* the process dies only of one of three unhandled exceptions,
\* every request that awaits verification is answered, and the pipeline
\* implements UpgradeOutcome.
CONSTANTS
  c1 = c1
  c2 = c2
  NullV = NullV
  AbsentV = AbsentV
  ProtoMemberV = ProtoMemberV
  NoTokenV = NoTokenV
  Conns <- MCConns
  DeviceIds <- MCDeviceIds
  ProtoKeys <- MCProtoKeys
  Addrs <- MCAddrs
  BadAddrs <- MCBadAddrs
  Null <- NullV
  Absent <- AbsentV
  ProtoMember <- ProtoMemberV
  NoToken <- NoTokenV
  Audience <- MCAudience
  Audiences <- MCAudiences
  Paths <- MCPaths
  RequestTokens <- MCRequestTokens
  SnapshotChoices <- MCSnapshotChoices
SPECIFICATION Spec
INVARIANTS
  TypeOK
  GatedSessions
  CrashesExplained
PROPERTIES
  UpgradeAnswered
  UpgradeRefinesOutcome
