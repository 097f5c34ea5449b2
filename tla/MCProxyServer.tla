--------------------------- MODULE MCProxyServer ---------------------------
(* Model-checking instance of ProxyServer.  Two connections are enough for *)
(* one request to affect another.  The ids are a provisioned device and   *)
(* "constructor", a member of Object.prototype; the addresses a valid     *)
(* IPv4 host and an IPv6 literal, which `ws://${ip}:port` turns into an   *)
(* invalid URL.                                                           *)
EXTENDS ProxyServer, TLC

CONSTANTS c1, c2, NullV, AbsentV, ProtoMemberV, NoTokenV

MCConns == {c1, c2}
MCDeviceIds == {"dev-001", "constructor"}
MCProtoKeys == {"constructor"}
MCAddrs == {"10.13.13.2"}
MCBadAddrs == {"fd00::2"}
MCAudience == "terminal-proxy"
MCAudiences == {"terminal-proxy", "other-service"}

\* The pathnames /terminal/dev-001, /terminal/constructor, /other, and
\* /terminal//dev-001/extra (empty parts are dropped, extra ones ignored).
\* A target new URL rejects, such as //, is OnUpgrade's other branch.
MCPaths == {<<"terminal", "dev-001">>, <<"terminal", "constructor">>,
            <<"other">>, <<"terminal", "", "dev-001", "extra">>}

\* A valid token, an expired one and one for another audience.
MCRequestTokens ==
  {[signed |-> TRUE, aud |-> "terminal-proxy", expired |-> FALSE],
   [signed |-> TRUE, aud |-> "terminal-proxy", expired |-> TRUE],
   [signed |-> TRUE, aud |-> "other-service", expired |-> FALSE]}

Peers(addr) == [d \in MCDeviceIds |-> IF d = "dev-001" THEN addr ELSE AbsentV]

NoPeers == [d \in MCDeviceIds |-> AbsentV]

\* A missing file, the device provisioned with an IPv4 address, with an
\* IPv6 address, with an empty address, and an empty mapping.
MCSnapshotChoices ==
  {[kind |-> "missing", peers |-> NoPeers],
   [kind |-> "object", peers |-> Peers("10.13.13.2")],
   [kind |-> "object", peers |-> Peers("fd00::2")],
   [kind |-> "object", peers |-> Peers("")],
   [kind |-> "object", peers |-> NoPeers]}


=============================================================================
