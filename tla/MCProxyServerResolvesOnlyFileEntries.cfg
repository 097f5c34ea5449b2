\* Spec 4.2: unknown device ids resolve to not-found.
CONSTANTS
  c1 = c1
  c2 = c2
  NullV = NullV
  AbsentV = AbsentV
  ProtoMemberV = ProtoMemberV
  NoTokenV = NoTokenV
  Conns <- MCConns
  DeviceIds <- MCDeviceIds
  ProtoKeys <- MCProtoKeys
  Addrs <- MCAddrs
  BadAddrs <- MCBadAddrs
  Null <- NullV
  Absent <- AbsentV
  ProtoMember <- ProtoMemberV
  NoToken <- NoTokenV
  Audience <- MCAudience
  Audiences <- MCAudiences
  Paths <- MCPaths
  RequestTokens <- MCRequestTokens
  SnapshotChoices <- MCSnapshotChoices
SPECIFICATION Spec
INVARIANTS
  ResolvesOnlyFileEntries
