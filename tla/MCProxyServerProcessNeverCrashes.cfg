\* Spec 7: no error is fatal to the process; a request for a device whose entry does not form a valid URL.
CONSTANTS
  c1 = c1
  c2 = c2
  NullV = NullV
  AbsentV = AbsentV
  ProtoMemberV = ProtoMemberV
  NoTokenV = NoTokenV
  Conns <- MCConns
  DeviceIds <- MCDeviceIds
  ProtoKeys <- MCProtoKeys
  Addrs <- MCAddrs
  BadAddrs <- MCBadAddrs
  Null <- NullV
  Absent <- AbsentV
  ProtoMember <- ProtoMemberV
  NoToken <- NoTokenV
  Audience <- MCAudience
  Audiences <- MCAudiences
  Paths <- MCPaths
  RequestTokens <- MCRequestTokens
  SnapshotChoices <- MCSnapshotChoices
SPECIFICATION Spec
INVARIANTS
  ProcessNeverCrashes
