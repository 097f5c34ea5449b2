--------------------------- MODULE AddressResolver ---------------------------
(***************************************************************************)
(* createFileIpResolver (ipResolver.ts): resolve(deviceId) reads the peers *)
(* file, parses it with JSON.parse and returns peers[deviceId] ?? null; a   *)
(* throw from either is caught and turned into null.  Nothing is cached.   *)
(*                                                                         *)
(* A snapshot of the file is a record: kind says what reading and parsing  *)
(* yield ("missing": the file is absent, unreadable or not JSON; "null":   *)
(* the JSON literal null; "scalar": a number, string or boolean; "object": *)
(* a JSON object), and peers gives, for an object, the own property of     *)
(* each device id (Absent when there is none).  peers[deviceId] is a       *)
(* JavaScript property read, so ids named like members of                  *)
(* Object.prototype (ProtoKeys: constructor, toString, __proto__, ...)     *)
(* find the inherited member when the file has no own entry for them.      *)
(***************************************************************************)

CONSTANTS
  DeviceIds,    \* the device ids clients name in the model
  ProtoKeys,    \* ids that are names of Object.prototype members
  Addrs,        \* strings that are valid hosts of a ws:// URL
  BadAddrs,     \* JSON values that are not (an object, an IPv6 literal)
  Null,         \* JavaScript null (and JSON null in the file)
  Absent,       \* no property of that name
  ProtoMember   \* the inherited member: a function or an object

ASSUME ResolverAssumption ==
  /\ ProtoKeys \subseteq DeviceIds
  /\ Null \notin DeviceIds
  /\ Null \notin Addrs \cup BadAddrs
  /\ Absent \notin Addrs \cup BadAddrs \cup {Null}
  /\ ProtoMember \notin Addrs \cup BadAddrs \cup {Null, Absent}

\* The values a provisioned entry of the file can hold; "" is the empty
\* string.
PeerValues == Addrs \cup BadAddrs \cup {"", Null}

SnapshotKinds == {"missing", "null", "scalar", "object"}

\* Snapshots with no own entries unless the JSON is an object.
Snapshots ==
  {s \in [kind : SnapshotKinds, peers : [DeviceIds -> PeerValues \cup {Absent}]] :
     s.kind # "object" => \A d \in DeviceIds : s.peers[d] = Absent}

\* peers[deviceId] on a parsed value that is not null: the own property if
\* there is one, else the member inherited from the prototype, else
\* undefined.
PropertyRead(snap, deviceId) ==
  IF snap.peers[deviceId] # Absent THEN snap.peers[deviceId]
  ELSE IF deviceId \in ProtoKeys THEN ProtoMember
  ELSE Absent

\* resolve(deviceId): null when the file is missing or unparsable, or when
\* it is JSON null (the property read throws a TypeError); otherwise the
\* property read, with undefined turned into null by ??.
resolve(snap, deviceId) ==
  IF snap.kind \in {"missing", "null"} THEN Null
  ELSE IF PropertyRead(snap, deviceId) = Absent THEN Null
  ELSE PropertyRead(snap, deviceId)

=============================================================================
