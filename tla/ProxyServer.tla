----------------------------- MODULE ProxyServer -----------------------------
(***************************************************************************)
(* The upgrade pipeline of createProxyServer (server.ts): the async        *)
(* "upgrade" handler of the HTTP server, for several connections at once,  *)
(* in one Node.js process.  It composes TokenVerifier (the verifyToken it  *)
(* awaits) and AddressResolver (the resolveIp it calls), and it shares the *)
(* peers file, which the provisioning system rewrites at any time, between *)
(* all connections.  A session, once the device dial has started, is       *)
(* abstracted to "session" here; RelaySession models what happens in it.   *)
(*                                                                         *)
(* The handler runs in two atomic steps separated by its only await: the   *)
(* synchronous route and token checks, then (when verifyToken settles)     *)
(* everything up to and including connect(ttydUrl).  The handler is an     *)
(* async function whose promise nobody awaits, so an exception it throws   *)
(* becomes an unhandled rejection, which ends the Node.js process.  Three  *)
(* exceptions do: new URL on a request target it rejects, an 'error' of   *)
(* the raw socket while the handler awaits (nobody listens for it then),  *)
(* and connect on a non-host address.                                     *)
(***************************************************************************)
EXTENDS Naturals, Sequences, TokenVerifier, AddressResolver

CONSTANTS
  Conns,          \* the connections (sockets) that send an upgrade request
  Paths,          \* request paths, as the segments between the slashes
  RequestTokens,  \* the tokens clients present (a subset of Tokens)
  NoToken,        \* the token query parameter is absent or empty
  SnapshotChoices \* the peers files the provisioning system writes

ASSUME ProxyAssumption ==
  /\ Paths \subseteq Seq(STRING)
  /\ RequestTokens \subseteq Tokens
  /\ NoToken \notin Tokens
  /\ SnapshotChoices \subseteq Snapshots
  /\ SnapshotChoices # {}

Requests == [path : Paths, token : RequestTokens \cup {NoToken}]

NoRequest == [path |-> <<>>, token |-> NoToken]

\* No resolution has happened yet for the connection.
NotResolved == Absent

Stages == {"idle",       \* no upgrade request yet
           "verifying",  \* awaiting deps.verifyToken(token)
           "rejected",   \* rejectUpgrade wrote a status and destroyed the socket
           "gone",       \* handleUpgrade found the socket closed: no session
           "session",    \* handleUpgrade called back and connect() started
           "ended",      \* the relay of the session has torn both sides down
           "killed"}     \* the connection died with the process

VARIABLES
  stage,       \* stage of each connection's upgrade handler
  request,     \* the request each connection sent
  status,      \* HTTP status written on the raw socket (0: none yet)
  jwks,        \* the key authority's reply to the request's key lookup
  resolved,    \* what resolveIp returned for the connection
  clientGone,  \* the client closed its socket while the handler awaited
  snapshot,    \* the current content of the peers file
  alive,       \* the Node.js process is running
  fatal        \* history: which connection's exception ended the process, where

vars == <<stage, request, status, jwks, resolved, clientGone,
          snapshot, alive, fatal>>

\* Where an exception nobody handles is raised: new URL (server.ts:74), an
\* 'error' event of the raw socket during the await (:90), connect (:106).
FatalSites == {"url", "socket", "connect"}

NoFault == [at |-> "none"]


ResolvedValues == PeerValues \cup {Null, ProtoMember, NotResolved}

TypeOK ==
  /\ stage \in [Conns -> Stages]
  /\ request \in [Conns -> Requests \cup {NoRequest}]
  /\ status \in [Conns -> {0, 101, 401, 404}]
  /\ jwks \in [Conns -> JwksReplies \cup {"pending"}]
  /\ resolved \in [Conns -> ResolvedValues]
  /\ clientGone \in [Conns -> BOOLEAN]
  /\ snapshot \in SnapshotChoices
  /\ alive \in BOOLEAN
  /\ fatal \in [conn : Conns, at : FatalSites] \cup {NoFault}

-----------------------------------------------------------------------------
(* Helpers of server.ts.                                                   *)

\* parseDeviceId: split the pathname on "/", drop the empty parts, and take
\* the second part when there are at least two and the first is "terminal".
ParseDeviceId(path) ==
  LET parts == SelectSeq(path, LAMBDA seg : seg # "")
  IN  IF Len(parts) >= 2 /\ parts[1] = "terminal" THEN parts[2] ELSE Null

\* Every route the model's requests take names one of the device ids the
\* model knows, or none.
ASSUME PathsAssumption ==
  \A p \in Paths : ParseDeviceId(p) \in DeviceIds \cup {Null}

\* Faulty variant (mutation check): `if (vpnIp === null)`, which lets the
\* empty string through.
FalsyNullOnly(v) == v = Null

\* `if (!vpnIp)`: null and the empty string are falsy.
Falsy(v) == v \in {Null, ""}

\* new WebSocket(`ws://${vpnIp}:${ttydPort}`) accepts the URL only when the
\* interpolated value is a valid host; otherwise the constructor throws.
ValidTtydUrl(v) == v \in Addrs

\* Faulty variant (mutation check): the status is written but the socket
\* is not destroyed, so the connection does not end with its answer.
RejectNoDestroy(c, code) ==
  /\ stage' = stage
  /\ status' = [status EXCEPT ![c] = code]

\* rejectUpgrade(socket, code, text): write the status line, destroy the
\* socket.
Reject(c, code) ==
  /\ stage' = [stage EXCEPT ![c] = "rejected"]
  /\ status' = [status EXCEPT ![c] = code]

\* Faulty variant (mutation check): a failed verification answered 403.
AuthRejectedForbidden(c) == Reject(c, 403)

\* The catch of the await: rejectUpgrade(socket, 401, "Unauthorized").
AuthRejected(c) == Reject(c, 401)

\* An exception of connection c's handler or socket, raised at site, ends
\* the process: c and every connection still being handled or relayed die.
Crash(c, site) ==
  /\ alive' = FALSE
  /\ stage' = [d \in Conns |->
                 IF d = c \/ stage[d] \in {"verifying", "session"} THEN "killed"
                 ELSE stage[d]]
  /\ fatal' = [conn |-> c, at |-> site]

-----------------------------------------------------------------------------
(* Actions.                                                                *)

\* new URL(rawUrl, "ws://localhost") throws on a target such as "//" (an
\* empty host), and the exception ends the process.
UrlRejected(c) ==
  /\ Crash(c, "url")
  /\ UNCHANGED <<request, status, jwks, resolved, clientGone, snapshot>>

\* The parsed request r: the route check, then the token check.
RouteChecked(c, r) ==
  /\ request' = [request EXCEPT ![c] = r]
  /\ IF ParseDeviceId(r.path) = Null THEN Reject(c, 404)
     ELSE IF r.token = NoToken THEN Reject(c, 401)
     ELSE /\ stage' = [stage EXCEPT ![c] = "verifying"]
          /\ UNCHANGED status
  /\ UNCHANGED <<jwks, resolved, clientGone, snapshot, alive, fatal>>

\* The "upgrade" handler up to the await.
OnUpgrade(c) ==
  /\ alive
  /\ stage[c] = "idle"
  /\ \/ UrlRejected(c)
     \/ \E r \in Requests : RouteChecked(c, r)

\* The key authority answers the key lookup that jwt.verify started for
\* the request, or jwks-rsa gives up on it.
KeyReply(c) ==
  \E reply \in JwksReplies :
    /\ stage[c] = "verifying"
    /\ jwks[c] = "pending"
    /\ jwks' = [jwks EXCEPT ![c] = reply]
    /\ UNCHANGED <<stage, request, status, resolved, clientGone, snapshot, alive,
                   fatal>>

\* verifyToken settles, and the handler runs on to its end: reject with 401,
\* or resolve the device against the peers file as it is now and reject
\* with 404, or hand the socket to wss.handleUpgrade.  When the client has
\* gone, ws destroys the socket without calling back; otherwise it writes
\* the 101 response and the callback calls connect(ttydUrl), which throws
\* for an invalid URL and so ends the process.
OnVerifySettled(c) ==
  LET key == resolveKey(jwks[c])
      ok  == verifyToken(request[c].token, key)
      ip  == resolve(snapshot, ParseDeviceId(request[c].path))
  IN
    /\ alive
    /\ stage[c] = "verifying"
    /\ jwks[c] # "pending"
    /\ key # "none"
    /\ resolved' = [resolved EXCEPT ![c] = IF ok THEN ip ELSE NotResolved]
    /\ IF ~ok THEN AuthRejected(c) /\ UNCHANGED <<alive, fatal>>
       ELSE IF Falsy(ip) THEN Reject(c, 404) /\ UNCHANGED <<alive, fatal>>
       ELSE IF clientGone[c] THEN /\ stage' = [stage EXCEPT ![c] = "gone"]
                                  /\ UNCHANGED <<status, alive, fatal>>
       ELSE /\ status' = [status EXCEPT ![c] = 101]
            /\ IF ValidTtydUrl(ip)
                 THEN /\ stage' = [stage EXCEPT ![c] = "session"]
                      /\ UNCHANGED <<alive, fatal>>
                 ELSE Crash(c, "connect")
    /\ UNCHANGED <<request, jwks, clientGone, snapshot>>

\* The client closes its socket while the handler awaits verifyToken.
ClientHangup(c) ==
  /\ stage[c] = "verifying"
  /\ ~clientGone[c]
  /\ clientGone' = [clientGone EXCEPT ![c] = TRUE]
  /\ UNCHANGED <<stage, request, status, jwks, resolved, snapshot, alive, fatal>>

\* The client's connection is reset while the handler awaits verifyToken.
\* Node removed its own 'error' listener from the socket when it emitted
\* "upgrade", and ws adds one only in handleUpgrade, so the 'error' event
\* has no listener, throws, and ends the process.
ClientReset(c) ==
  /\ alive
  /\ stage[c] = "verifying"
  /\ Crash(c, "socket")
  /\ UNCHANGED <<request, status, jwks, resolved, clientGone, snapshot>>

\* The relay of the session ends (RelaySession).
SessionEnd(c) ==
  /\ stage[c] = "session"
  /\ stage' = [stage EXCEPT ![c] = "ended"]
  /\ UNCHANGED <<request, status, jwks, resolved, clientGone, snapshot, alive,
                 fatal>>

\* The provisioning system rewrites the peers file.
ProvisionWrite ==
  \E s \in SnapshotChoices :
    /\ s # snapshot
    /\ snapshot' = s
    /\ UNCHANGED <<stage, request, status, jwks, resolved, clientGone, alive,
                   fatal>>

Init ==
  /\ stage = [c \in Conns |-> "idle"]
  /\ request = [c \in Conns |-> NoRequest]
  /\ status = [c \in Conns |-> 0]
  /\ jwks = [c \in Conns |-> "pending"]
  /\ resolved = [c \in Conns |-> NotResolved]
  /\ clientGone = [c \in Conns |-> FALSE]
  /\ snapshot \in SnapshotChoices
  /\ alive = TRUE
  /\ fatal = NoFault

Next ==
  \/ \E c \in Conns :
       \/ OnUpgrade(c)
       \/ KeyReply(c)
       \/ OnVerifySettled(c)
       \/ ClientHangup(c)
       \/ ClientReset(c)
       \/ SessionEnd(c)
  \/ ProvisionWrite

\* verifyToken always settles: jwks-rsa's request to the key authority has
\* a timeout and its rate limiter fails fast, and resolveKey calls back on
\* both branches.  Clients, sessions and the provisioning system act when
\* they like.
Fairness ==
  \A c \in Conns : WF_vars(KeyReply(c)) /\ WF_vars(OnVerifySettled(c))

Spec == Init /\ [][Next]_vars /\ Fairness

-----------------------------------------------------------------------------
(* Properties.                                                             *)

\* A device is dialled only for a request that passed every gate of spec
\* 4.3 steps 1-3 and 4.1: a /terminal/<id> route, a token that is present,
\* signed with a key the key authority handed out, for this audience and
\* not expired, and an id the peers file resolved to a usable address.
GatedSessions ==
  \A c \in Conns :
    stage[c] \in {"session", "ended"} =>
      /\ ParseDeviceId(request[c].path) # Null
      /\ request[c].token # NoToken
      /\ jwks[c] = "key"
      /\ request[c].token.signed
      /\ request[c].token.aud = Audience
      /\ ~request[c].token.expired
      /\ resolved[c] \in Addrs

\* Every upgrade request that reaches the await is answered: the handler
\* rejects it, upgrades it, finds the client gone, or the process dies.
UpgradeAnswered ==
  \A c \in Conns : (stage[c] = "verifying") ~> (stage[c] # "verifying")

\* Spec 7: no error is ever fatal to the server process; every error is
\* scoped to its own connection.
ProcessNeverCrashes == alive

\* The requests the pipeline may upgrade (spec 4.3 steps 1-2 and 4.1): a
\* /terminal/<id> route, a token, and claims jwt.verify accepts.
AdmissibleRequest(r) ==
  /\ ParseDeviceId(r.path) # Null
  /\ r.token # NoToken
  /\ ClaimsValid(r.token)

\* A stage of the handler, in the terms of UpgradeOutcome.
StagePhase(s) ==
  IF s = "verifying" THEN "waiting"
  ELSE IF s = "rejected" THEN "refused"
  ELSE IF s = "session" THEN "admitted"
  ELSE IF s \in {"gone", "ended", "killed"} THEN "over"
  ELSE "idle"

\* Where each connection is, in the terms of UpgradeOutcome.
PhaseOf == [c \in Conns |-> StagePhase(stage[c])]

Outcome == INSTANCE UpgradeOutcome
             WITH phase <- PhaseOf, req <- request, answer <- status,
                  up <- alive, Reqs <- Requests \cup {NoRequest},
                  Admissible <- AdmissibleRequest

\* The upgrade handler implements UpgradeOutcome: every connection's HTTP
\* answer (rejectUpgrade's status or handleUpgrade's 101) is written at
\* most once and never replaced, a rejection ends the connection, a 101 is
\* written only for an admissible request, nothing is answered once the
\* process has died, and its death ends every connection in flight.
UpgradeRefinesOutcome == Outcome!Spec

\* Connection c raised the exception that ended the process, and was in
\* the circumstances its site needs.
FatalCause(c) ==
  /\ stage[c] = "killed"
  /\ \/ /\ fatal = [conn |-> c, at |-> "url"]
        /\ status[c] = 0
        /\ request[c] = NoRequest
     \/ /\ fatal = [conn |-> c, at |-> "socket"]
        /\ status[c] = 0
        /\ ParseDeviceId(request[c].path) # Null
        /\ request[c].token # NoToken
     \/ /\ fatal = [conn |-> c, at |-> "connect"]
        /\ status[c] = 101
        /\ AdmissibleRequest(request[c])
        /\ resolved[c] \in BadAddrs \cup {ProtoMember}

\* The process dies of one exception nobody handles, and each needs its
\* own circumstances: new URL threw (server.ts:74) on a request that then
\* had no answer and no parsed request; the raw socket reported an error
\* (:90) while its handler awaited verifyToken, before any answer, for a
\* request with a /terminal/<id> route and a token; or connect threw
\* (:106) after the 101, for an admissible request whose address from the
\* peers file is a non-host value (a bad address or an inherited
\* Object.prototype member).  The connection that raised it was killed.
CrashesExplained == ~alive => \E c \in Conns : FatalCause(c)

\* Spec 4.2: resolve returns the address the peers file holds for the id,
\* or not-found; unknown ids resolve to not-found.
ResolvesOnlyFileEntries ==
  \A c \in Conns : resolved[c] \in PeerValues \cup {Null, NotResolved}

=============================================================================
