-------------------------- MODULE ProxyServerProofs --------------------------
(***************************************************************************)
(* Proofs about the upgrade pipeline (ProxyServer), for every set of       *)
(* connections, paths, tokens and peers files the assumptions allow.       *)
(***************************************************************************)
EXTENDS ProxyServer, TLAPS

\* resolve returns a value a provisioned entry can hold, null, or an
\* inherited member of Object.prototype.
LEMMA ResolveRange ==
  ASSUME NEW snap \in Snapshots, NEW d \in DeviceIds
  PROVE  resolve(snap, d) \in PeerValues \cup {Null, ProtoMember}
<1>1. snap.peers[d] \in PeerValues \cup {Absent}
  BY DEF Snapshots
<1>2. QED
  BY <1>1 DEF resolve, PropertyRead

\* The route and the token of a request that reaches the await: the route
\* check and the token check ran before it, on the request it keeps.
AwaitGate(c) ==
  /\ request[c] \in Requests
  /\ ParseDeviceId(request[c].path) \in DeviceIds
  /\ request[c].token \in RequestTokens

\* What a dialled connection passed: every gate of GatedSessions, stated
\* on the connection's own variables.
SessionGate(c) ==
  /\ AwaitGate(c)
  /\ jwks[c] = "key"
  /\ ClaimsValid(request[c].token)
  /\ resolved[c] \in Addrs

\* The gates a connection's stage has passed.
Gates(c) ==
  /\ stage[c] = "verifying" => AwaitGate(c)
  /\ stage[c] \in {"session", "ended"} => SessionGate(c)

\* The inductive invariant: the types, and the gates of every connection.
PInv == TypeOK /\ \A c \in Conns : Gates(c)

LEMMA PInvInit == Init => PInv
BY ProxyAssumption DEF Init, PInv, Gates, TypeOK, NoRequest, NotResolved,
                       ResolvedValues, Stages

\* Each step keeps the types; resolve is only called for a connection
\* whose route named a known device.
LEMMA TypeStep == PInv /\ [Next]_vars => TypeOK'
<1> SUFFICES ASSUME PInv, [Next]_vars PROVE TypeOK'
  OBVIOUS
<1> USE DEF PInv, TypeOK
<1>1. ASSUME NEW c \in Conns, OnUpgrade(c) PROVE TypeOK'
  <2>1. CASE UrlRejected(c)
    BY <2>1 DEF UrlRejected, Crash, Stages, FatalSites
  <2>2. ASSUME NEW r \in Requests, RouteChecked(c, r) PROVE TypeOK'
    <3>1. /\ stage' \in [Conns -> Stages]
          /\ status' \in [Conns -> {0, 101, 401, 404}]
      BY <2>2 DEF RouteChecked, Reject, Stages
    <3>2. QED
      BY <2>2, <3>1 DEF RouteChecked
  <2>3. QED
    BY <1>1, <2>1, <2>2 DEF OnUpgrade
<1>2. ASSUME NEW c \in Conns, KeyReply(c) PROVE TypeOK'
  BY <1>2 DEF KeyReply, JwksReplies
<1>3. ASSUME NEW c \in Conns, OnVerifySettled(c) PROVE TypeOK'
  <2> DEFINE key == resolveKey(jwks[c])
             ok  == verifyToken(request[c].token, key)
             ip  == resolve(snapshot, ParseDeviceId(request[c].path))
  <2>1. stage[c] = "verifying"
    BY <1>3 DEF OnVerifySettled
  <2>2. ip \in PeerValues \cup {Null, ProtoMember}
    <3>1. ParseDeviceId(request[c].path) \in DeviceIds
      BY <2>1 DEF Gates, AwaitGate
    <3>2. snapshot \in Snapshots
      BY ProxyAssumption
    <3>3. QED
      BY <3>1, <3>2, ResolveRange
  <2>3. resolved' \in [Conns -> ResolvedValues]
    BY <1>3, <2>2 DEF OnVerifySettled, ResolvedValues
  <2>4. /\ stage' \in [Conns -> Stages]
        /\ status' \in [Conns -> {0, 101, 401, 404}]
        /\ alive' \in BOOLEAN
        /\ fatal' \in [conn : Conns, at : FatalSites] \cup {NoFault}
    <3>1. CASE ~ok
      BY <1>3, <3>1 DEF OnVerifySettled, AuthRejected, Reject, Stages, ok, ip, key
    <3>2. CASE ok /\ Falsy(ip)
      <4>1. Reject(c, 404) /\ UNCHANGED <<alive, fatal>>
        BY <1>3, <3>2 DEF OnVerifySettled, ok, ip, key
      <4>2. QED
        BY <4>1 DEF Reject, Stages
    <3>3. CASE ok /\ ~Falsy(ip) /\ clientGone[c]
      <4>1. stage' = [stage EXCEPT ![c] = "gone"]
            /\ UNCHANGED <<status, alive, fatal>>
        BY <1>3, <3>3 DEF OnVerifySettled, ok, ip, key
      <4>2. QED
        BY <4>1 DEF Stages
    <3>4. CASE ok /\ ~Falsy(ip) /\ ~clientGone[c] /\ ~ValidTtydUrl(ip)
      <4>1. status' = [status EXCEPT ![c] = 101] /\ Crash(c, "connect")
        BY <1>3, <3>4 DEF OnVerifySettled, ok, ip, key
      <4>2. QED
        BY <4>1 DEF Crash, Stages, FatalSites
    <3>5. CASE ok /\ ~Falsy(ip) /\ ~clientGone[c] /\ ValidTtydUrl(ip)
      <4>1. /\ status' = [status EXCEPT ![c] = 101]
            /\ stage' = [stage EXCEPT ![c] = "session"]
            /\ UNCHANGED <<alive, fatal>>
        BY <1>3, <3>5 DEF OnVerifySettled, ok, ip, key
      <4>2. QED
        BY <4>1 DEF Stages
    <3>6. QED
      BY <3>1, <3>2, <3>3, <3>4, <3>5
  <2>5. QED
    BY <1>3, <2>3, <2>4 DEF OnVerifySettled
<1>4. ASSUME NEW c \in Conns, ClientHangup(c) PROVE TypeOK'
  BY <1>4 DEF ClientHangup
<1>9. ASSUME NEW c \in Conns, ClientReset(c) PROVE TypeOK'
  BY <1>9 DEF ClientReset, Crash, Stages, FatalSites
<1>8. ASSUME NEW c \in Conns, SessionEnd(c) PROVE TypeOK'
  BY <1>8 DEF SessionEnd, Stages
<1>5. CASE ProvisionWrite
  BY <1>5 DEF ProvisionWrite
<1>6. CASE UNCHANGED vars
  BY <1>6 DEF vars
<1>7. QED
  BY <1>1, <1>2, <1>3, <1>4, <1>5, <1>6, <1>8, <1>9 DEF Next

\* A connection's gates are its own: a step of another connection, a key
\* reply, a hang-up or a rewrite of the peers file leaves them alone.
LEMMA GatesFrame ==
  ASSUME NEW d \in Conns, Gates(d),
         stage'[d] = stage[d], request'[d] = request[d],
         jwks'[d] = jwks[d], resolved'[d] = resolved[d]
  PROVE  Gates(d)'
BY DEF Gates, AwaitGate, SessionGate

\* A crash keeps the gates: it kills the connections it touches, and any
\* other keeps its stage.
LEMMA CrashGates ==
  ASSUME TypeOK, NEW c \in Conns, NEW site, Crash(c, site),
         NEW d \in Conns, Gates(d),
         d # c => /\ request'[d] = request[d] /\ jwks'[d] = jwks[d]
                  /\ resolved'[d] = resolved[d]
  PROVE  Gates(d)'
<1>1. CASE stage'[d] = "killed"
  BY <1>1 DEF Gates
<1>2. CASE stage'[d] # "killed"
  <2>1. d # c /\ stage'[d] = stage[d]
    BY <1>2 DEF Crash, TypeOK
  <2>2. QED
    BY <2>1, GatesFrame
<1>3. QED
  BY <1>1, <1>2

\* Each step keeps the gates of every connection.
LEMMA GatesStep == PInv /\ [Next]_vars => \A d \in Conns : Gates(d)'
<1> SUFFICES ASSUME PInv, [Next]_vars, NEW d \in Conns PROVE Gates(d)'
  OBVIOUS
<1>0. Gates(d) /\ TypeOK
  BY DEF PInv
<1>1. ASSUME NEW c \in Conns, OnUpgrade(c) PROVE Gates(d)'
  <2>1. CASE UrlRejected(c)
    BY <2>1, <1>0, CrashGates DEF UrlRejected
  <2>2. ASSUME NEW r \in Requests, RouteChecked(c, r) PROVE Gates(d)'
    <3>0. stage[c] = "idle"
      BY <1>1 DEF OnUpgrade
    <3>1. CASE d # c
      <4>1. stage'[d] = stage[d]
        BY <2>2, <3>1, <1>0 DEF RouteChecked, Reject, TypeOK
      <4>2. QED
        BY <2>2, <3>1, <4>1, <1>0, GatesFrame DEF RouteChecked, TypeOK
    <3>2. CASE d = c /\ (ParseDeviceId(r.path) = Null \/ r.token = NoToken)
      <4>1. stage'[c] = "rejected"
        BY <2>2, <3>2, <1>0 DEF RouteChecked, Reject, TypeOK
      <4>2. QED
        BY <3>2, <4>1 DEF Gates
    <3>3. CASE d = c /\ ParseDeviceId(r.path) # Null /\ r.token # NoToken
      <4>1. stage'[c] = "verifying" /\ request'[c] = r
        BY <2>2, <3>3, <1>0 DEF RouteChecked, TypeOK
      <4>2. r.path \in Paths /\ r.token \in RequestTokens
        BY <3>3 DEF Requests
      <4>3. ParseDeviceId(r.path) \in DeviceIds
        BY <4>2, <3>3, PathsAssumption
      <4>4. QED
        BY <3>3, <4>1, <4>2, <4>3 DEF Gates, AwaitGate
    <3>4. QED
      BY <3>1, <3>2, <3>3
  <2>3. QED
    BY <1>1, <2>1, <2>2 DEF OnUpgrade
<1>2. ASSUME NEW c \in Conns, KeyReply(c) PROVE Gates(d)'
  <2>1. CASE d # c
    BY <1>2, <2>1, <1>0, GatesFrame DEF KeyReply, TypeOK
  <2>2. CASE d = c
    BY <1>2, <2>2, <1>0 DEF KeyReply, Gates, AwaitGate, SessionGate
  <2>3. QED
    BY <2>1, <2>2
<1>3. ASSUME NEW c \in Conns, OnVerifySettled(c) PROVE Gates(d)'
  <2> DEFINE key == resolveKey(jwks[c])
             ok  == verifyToken(request[c].token, key)
             ip  == resolve(snapshot, ParseDeviceId(request[c].path))
  <2>1. /\ stage[c] = "verifying"
        /\ UNCHANGED <<request, jwks>>
        /\ resolved' = [resolved EXCEPT ![c] = IF ok THEN ip ELSE NotResolved]
    BY <1>3 DEF OnVerifySettled, ok, ip, key
  <2>2. stage'[d] \in {stage[d], "rejected", "gone", "session", "killed"}
    <3>1. CASE ~ok \/ Falsy(ip)
      <4>1. Reject(c, 404) \/ AuthRejected(c)
        BY <1>3, <3>1 DEF OnVerifySettled, ok, ip, key
      <4>2. QED
        BY <4>1, <1>0 DEF AuthRejected, Reject, TypeOK
    <3>2. CASE ok /\ ~Falsy(ip) /\ clientGone[c]
      <4>1. stage' = [stage EXCEPT ![c] = "gone"]
        BY <1>3, <3>2 DEF OnVerifySettled, ok, ip, key
      <4>2. QED
        BY <4>1, <1>0 DEF TypeOK
    <3>3. CASE ok /\ ~Falsy(ip) /\ ~clientGone[c]
      <4>1. stage' = [stage EXCEPT ![c] = "session"] \/ Crash(c, "connect")
        BY <1>3, <3>3 DEF OnVerifySettled, ok, ip, key
      <4>2. QED
        BY <4>1, <1>0 DEF Crash, TypeOK
    <3>4. QED
      BY <3>1, <3>2, <3>3
  <2>3. CASE d # c
    <3>1. resolved'[d] = resolved[d]
      BY <2>1, <2>3, <1>0 DEF TypeOK
    <3>2. stage'[d] = stage[d] \/ stage'[d] = "killed" \/ stage'[d] = "rejected"
          \/ stage'[d] = "gone" \/ stage'[d] = "session"
      BY <2>2
    <3>3. stage'[d] \in {"rejected", "gone", "session", "killed"} => stage'[d] = stage[d] \/ stage'[d] = "killed"
      <4>1. CASE ~ok \/ Falsy(ip)
        BY <1>3, <4>1, <2>3, <1>0 DEF OnVerifySettled, ok, ip, key, AuthRejected, Reject, TypeOK
      <4>2. CASE ok /\ ~Falsy(ip) /\ clientGone[c]
        BY <1>3, <4>2, <2>3, <1>0 DEF OnVerifySettled, ok, ip, key, TypeOK
      <4>3. CASE ok /\ ~Falsy(ip) /\ ~clientGone[c]
        <5>1. stage' = [stage EXCEPT ![c] = "session"] \/ Crash(c, "connect")
          BY <1>3, <4>3 DEF OnVerifySettled, ok, ip, key
        <5>2. QED
          BY <5>1, <2>3, <1>0 DEF Crash, TypeOK
      <4>4. QED
        BY <4>1, <4>2, <4>3
    <3>4. QED
      BY <2>1, <3>1, <3>2, <3>3, <1>0, GatesFrame DEF Gates
  <2>4. CASE d = c
    <3>1. AwaitGate(c) /\ AwaitGate(c)'
      BY <2>1, <2>4, <1>0 DEF Gates, AwaitGate
    <3>2. CASE stage'[c] = "session"
      <4>1. ok /\ ~Falsy(ip) /\ ~clientGone[c] /\ ValidTtydUrl(ip)
        <5>1. ~ok \/ Falsy(ip) => stage'[c] = "rejected"
          BY <1>3, <1>0 DEF OnVerifySettled, ok, ip, key, AuthRejected, Reject, TypeOK
        <5>2. ok /\ ~Falsy(ip) /\ clientGone[c] => stage'[c] = "gone"
          BY <1>3, <1>0 DEF OnVerifySettled, ok, ip, key, TypeOK
        <5>3. ok /\ ~Falsy(ip) /\ ~clientGone[c] /\ ~ValidTtydUrl(ip) => stage'[c] = "killed"
          BY <1>3, <1>0, <2>1 DEF OnVerifySettled, ok, ip, key, Crash, TypeOK
        <5>4. QED
          BY <3>2, <5>1, <5>2, <5>3
      <4>2. jwks[c] = "key" /\ ClaimsValid(request[c].token)
        BY <4>1 DEF ok, key, verifyToken, resolveKey
      <4>3. resolved'[c] \in Addrs
        <5>1. resolved'[c] = ip
          BY <4>1, <2>1, <1>0 DEF TypeOK
        <5>2. QED
          BY <5>1, <4>1 DEF ValidTtydUrl
      <4>4. QED
        BY <2>4, <3>1, <4>2, <4>3, <2>1 DEF Gates, SessionGate
    <3>3. CASE stage'[c] # "session"
      BY <2>4, <3>1, <3>3, <2>2, <2>1 DEF Gates
    <3>4. QED
      BY <3>2, <3>3
  <2>5. QED
    BY <2>3, <2>4
<1>4. ASSUME NEW c \in Conns, ClientHangup(c) PROVE Gates(d)'
  BY <1>4, <1>0, GatesFrame DEF ClientHangup
<1>9. ASSUME NEW c \in Conns, ClientReset(c) PROVE Gates(d)'
  BY <1>9, <1>0, CrashGates DEF ClientReset
<1>5. ASSUME NEW c \in Conns, SessionEnd(c) PROVE Gates(d)'
  <2>1. CASE d # c
    BY <1>5, <2>1, <1>0, GatesFrame DEF SessionEnd, TypeOK
  <2>2. CASE d = c
    BY <1>5, <2>2, <1>0 DEF SessionEnd, Gates, AwaitGate, SessionGate, TypeOK
  <2>3. QED
    BY <2>1, <2>2
<1>6. CASE ProvisionWrite
  BY <1>6, <1>0, GatesFrame DEF ProvisionWrite
<1>7. CASE UNCHANGED vars
  BY <1>7, <1>0, GatesFrame DEF vars
<1>8. QED
  BY <1>1, <1>2, <1>3, <1>4, <1>5, <1>6, <1>7, <1>9 DEF Next

\* PInv holds in every reachable state.
LEMMA PInvSpec == Spec => []PInv
<1>1. PInv /\ [Next]_vars => PInv'
  BY TypeStep, GatesStep DEF PInv
<1>2. QED
  BY PInvInit, <1>1, PTL DEF Spec

\* Every reachable state of the pipeline has the types TypeOK states.
THEOREM ProxyTypeCorrect == Spec => []TypeOK
<1>1. PInv => TypeOK
  BY DEF PInv
<1>2. QED
  BY <1>1, PInvSpec, PTL

\* A device is dialled only for a request that passed every gate of the
\* upgrade handler (route, token present, key from the key authority,
\* audience, expiry, a resolved address that forms a valid ttyd URL), for
\* any number of concurrent connections and any rewrites of the peers file.
THEOREM SessionsGated == Spec => []GatedSessions
<1>1. PInv => GatedSessions
  BY ProxyAssumption, ResolverAssumption
  DEF PInv, Gates, SessionGate, AwaitGate, ClaimsValid, GatedSessions
<1>2. QED
  BY <1>1, PInvSpec, PTL


-----------------------------------------------------------------------------
(* The pipeline implements UpgradeOutcome.                                 *)

\* A step that moves one connection to a new stage changes only that
\* connection's phase.
LEMMA PhaseExcept ==
  ASSUME stage \in [Conns -> Stages], NEW c \in Conns, NEW s,
         stage' = [stage EXCEPT ![c] = s]
  PROVE  PhaseOf' = [PhaseOf EXCEPT ![c] = StagePhase(s)]
BY DEF PhaseOf

\* A request that reached the await and whose claims jwt.verify accepts
\* may be upgraded.
LEMMA AwaitAdmissible ==
  ASSUME NEW c \in Conns, AwaitGate(c), ClaimsValid(request[c].token)
  PROVE  AdmissibleRequest(request[c])
BY ProxyAssumption, ResolverAssumption DEF AwaitGate, AdmissibleRequest

\* The rejection of an idle or waiting connection is a refusal.
LEMMA RejectRefuses ==
  ASSUME TypeOK, NEW c \in Conns, NEW code \in {401, 404}, Reject(c, code)
  PROVE  /\ PhaseOf' = [PhaseOf EXCEPT ![c] = "refused"]
         /\ status' = [status EXCEPT ![c] = code]
BY PhaseExcept DEF Reject, TypeOK, StagePhase

\* A crash ends the connection that raised it and every connection that
\* was waiting or admitted.
LEMMA CrashEnds ==
  ASSUME TypeOK, NEW c \in Conns, NEW site, Crash(c, site)
  PROVE  PhaseOf' = Outcome!Ended({c})
BY DEF Crash, PhaseOf, StagePhase, Outcome!Ended, TypeOK, Stages

\* A crash raised by a waiting connection is a death that ends exactly
\* the connections in flight.
LEMMA WaitingCrashEnds ==
  ASSUME TypeOK, NEW c \in Conns, NEW site, Crash(c, site),
         stage[c] = "verifying"
  PROVE  PhaseOf' = Outcome!Ended({})
<1>1. PhaseOf' = Outcome!Ended({c})
  BY CrashEnds
<1>2. Outcome!Ended({c}) = Outcome!Ended({})
  BY DEF Outcome!Ended, PhaseOf, StagePhase
<1>3. QED
  BY <1>1, <1>2

LEMMA OutcomeStep == PInv /\ [Next]_vars => [Outcome!Next]_Outcome!vars
<1> SUFFICES ASSUME PInv, [Next]_vars PROVE [Outcome!Next]_Outcome!vars
  OBVIOUS
<1>0. TypeOK
  BY DEF PInv
<1>1. ASSUME NEW c \in Conns, OnUpgrade(c)
      PROVE  Outcome!Receive(c) \/ Outcome!Die
  <2>1. /\ alive
        /\ stage[c] = "idle"
        /\ PhaseOf[c] = "idle"
    BY <1>1 DEF OnUpgrade, PhaseOf, StagePhase
  <2>2. CASE UrlRejected(c)
    <3>1. PhaseOf' = Outcome!Ended({c})
      BY <2>2, <1>0, CrashEnds DEF UrlRejected
    <3>2. Outcome!Die
      BY <2>1, <2>2, <3>1 DEF UrlRejected, Crash, Outcome!Die
    <3>3. QED
      BY <3>2
  <2>3. ASSUME NEW r \in Requests, RouteChecked(c, r) PROVE Outcome!Receive(c)
    <3>1. CASE ParseDeviceId(r.path) = Null \/ r.token = NoToken
      <4>1. PICK code \in {401, 404} : Reject(c, code)
        BY <2>3, <3>1 DEF RouteChecked
      <4>2. /\ PhaseOf' = [PhaseOf EXCEPT ![c] = "refused"]
            /\ status' = [status EXCEPT ![c] = code]
        BY <4>1, <1>0, RejectRefuses
      <4>3. QED
        BY <2>1, <2>3, <4>2 DEF RouteChecked, Outcome!Receive,
                                Outcome!RejectCodes
    <3>2. CASE ParseDeviceId(r.path) # Null /\ r.token # NoToken
      <4>1. stage' = [stage EXCEPT ![c] = "verifying"] /\ UNCHANGED status
        BY <2>3, <3>2 DEF RouteChecked
      <4>2. PhaseOf' = [PhaseOf EXCEPT ![c] = "waiting"]
        BY <4>1, <1>0, PhaseExcept DEF TypeOK, StagePhase
      <4>3. QED
        BY <2>1, <2>3, <4>1, <4>2 DEF RouteChecked, Outcome!Receive
    <3>3. QED
      BY <3>1, <3>2
  <2>4. QED
    BY <1>1, <2>2, <2>3 DEF OnUpgrade
<1>2. ASSUME NEW c \in Conns, OnVerifySettled(c)
      PROVE  Outcome!Refuse(c) \/ Outcome!Admit(c) \/ Outcome!Abandon(c)
             \/ Outcome!Die
  <2> DEFINE key == resolveKey(jwks[c])
             ok  == verifyToken(request[c].token, key)
             ip  == resolve(snapshot, ParseDeviceId(request[c].path))
  <2>1. /\ alive
        /\ stage[c] = "verifying"
        /\ UNCHANGED request
        /\ PhaseOf[c] = "waiting"
    BY <1>2 DEF OnVerifySettled, PhaseOf, StagePhase
  <2>2. AwaitGate(c)
    BY <2>1 DEF PInv, Gates
  <2>3. CASE ~ok \/ Falsy(ip)
    <3>1. (AuthRejected(c) \/ Reject(c, 404)) /\ UNCHANGED alive
      BY <1>2, <2>3 DEF OnVerifySettled, ok, ip, key
    <3>2. PICK code \in {401, 404} : Reject(c, code)
      BY <3>1 DEF AuthRejected
    <3>3. Outcome!Refuse(c)
      BY <2>1, <3>1, <3>2, <1>0, RejectRefuses
      DEF Outcome!Refuse, Outcome!RejectCodes
    <3>4. QED
      BY <3>3
  <2>4. CASE ok /\ ~Falsy(ip) /\ clientGone[c]
    <3>1. stage' = [stage EXCEPT ![c] = "gone"] /\ UNCHANGED <<status, alive>>
      BY <1>2, <2>4 DEF OnVerifySettled, ok, ip, key
    <3>2. PhaseOf' = [PhaseOf EXCEPT ![c] = "over"]
      BY <3>1, <1>0, PhaseExcept DEF TypeOK, StagePhase
    <3>3. Outcome!Abandon(c)
      BY <2>1, <3>1, <3>2 DEF Outcome!Abandon
    <3>4. QED
      BY <3>3
  <2>5. CASE ok /\ ~Falsy(ip) /\ ~clientGone[c]
    <3>1. AdmissibleRequest(request[c])
      BY <2>2, <2>5, AwaitAdmissible DEF ok, key, verifyToken
    <3>2. status' = [status EXCEPT ![c] = 101]
      BY <1>2, <2>5 DEF OnVerifySettled, ok, ip, key
    <3>3. CASE ValidTtydUrl(ip)
      <4>1. stage' = [stage EXCEPT ![c] = "session"] /\ UNCHANGED alive
        BY <1>2, <2>5, <3>3 DEF OnVerifySettled, ok, ip, key
      <4>2. PhaseOf' = [PhaseOf EXCEPT ![c] = "admitted"]
        BY <4>1, <1>0, PhaseExcept DEF TypeOK, StagePhase
      <4>3. Outcome!Admit(c)
        BY <2>1, <3>1, <3>2, <4>1, <4>2 DEF Outcome!Admit
      <4>4. QED
        BY <4>3
    <3>4. CASE ~ValidTtydUrl(ip)
      <4>1. Crash(c, "connect")
        BY <1>2, <2>5, <3>4 DEF OnVerifySettled, ok, ip, key
      <4>2. PhaseOf' = Outcome!Ended({})
        BY <4>1, <2>1, <1>0, WaitingCrashEnds
      <4>3. Outcome!Die
        BY <2>1, <3>1, <3>2, <4>1, <4>2 DEF Outcome!Die, Crash
      <4>4. QED
        BY <4>3
    <3>5. QED
      BY <3>3, <3>4
  <2>6. QED
    BY <2>3, <2>4, <2>5
<1>3. ASSUME NEW c \in Conns, SessionEnd(c) PROVE Outcome!Finish(c)
  <2>1. PhaseOf' = [PhaseOf EXCEPT ![c] = "over"]
    BY <1>3, <1>0, PhaseExcept DEF SessionEnd, TypeOK, StagePhase
  <2>2. PhaseOf[c] = "admitted"
    BY <1>3 DEF SessionEnd, PhaseOf, StagePhase
  <2>3. QED
    BY <1>3, <2>1, <2>2 DEF SessionEnd, Outcome!Finish
<1>6. ASSUME NEW c \in Conns, ClientReset(c) PROVE Outcome!Die
  <2>1. PhaseOf' = Outcome!Ended({})
    BY <1>6, <1>0, WaitingCrashEnds DEF ClientReset
  <2>2. QED
    BY <1>6, <2>1 DEF ClientReset, Crash, Outcome!Die
<1>4. ASSUME UNCHANGED <<stage, request, status, alive>>
      PROVE  UNCHANGED Outcome!vars
  BY <1>4 DEF Outcome!vars, PhaseOf
<1>5. QED
  <2>1. CASE \E c \in Conns : \/ OnUpgrade(c) \/ OnVerifySettled(c)
                               \/ ClientReset(c) \/ SessionEnd(c)
    BY <2>1, <1>1, <1>2, <1>3, <1>6 DEF Outcome!Next
  <2>2. CASE \E c \in Conns : KeyReply(c) \/ ClientHangup(c)
    BY <2>2, <1>4 DEF KeyReply, ClientHangup
  <2>3. CASE ProvisionWrite \/ UNCHANGED vars
    BY <2>3, <1>4 DEF ProvisionWrite, vars
  <2>4. QED
    BY <2>1, <2>2, <2>3 DEF Next

\* The upgrade handler implements UpgradeOutcome for any number of
\* concurrent connections: each connection's HTTP answer is written once
\* and never replaced, a rejection ends the connection, the 101 is written
\* only for an admissible request, and the process's death ends every
\* connection in flight and answers nothing more.
THEOREM PipelineRefinement == Spec => UpgradeRefinesOutcome
<1>1. Init => Outcome!Init
  BY DEF Init, Outcome!Init, PhaseOf, StagePhase
<1>2. QED
  BY <1>1, PInvSpec, OutcomeStep, PTL
  DEF Spec, UpgradeRefinesOutcome, Outcome!Spec


-----------------------------------------------------------------------------
(* What ends the process.                                                  *)

\* Nothing has answered or parsed a connection that is still idle, and a
\* connection that awaits verifyToken has no answer yet.
UnansweredAt(c) ==
  /\ stage[c] = "idle" => request[c] = NoRequest /\ status[c] = 0
  /\ stage[c] = "verifying" => status[c] = 0

Unanswered == \A c \in Conns : UnansweredAt(c)

LEMMA UnansweredInit == Init => Unanswered
BY DEF Init, Unanswered, UnansweredAt

\* Only the route check leaves idle, it answers nothing on its way to the
\* await, and the await ends before anything is answered.
LEMMA UnansweredStep == TypeOK /\ Unanswered /\ [Next]_vars => Unanswered'
<1> SUFFICES ASSUME TypeOK, Unanswered, [Next]_vars, NEW d \in Conns
             PROVE  UnansweredAt(d)'
  BY DEF Unanswered
<1> USE DEF UnansweredAt
<1>1. ASSUME NEW c \in Conns, OnUpgrade(c) PROVE UnansweredAt(d)'
  <2>1. CASE UrlRejected(c)
    BY <2>1 DEF UrlRejected, Crash, Unanswered, UnansweredAt, TypeOK
  <2>2. ASSUME NEW r \in Requests, RouteChecked(c, r)
        PROVE UnansweredAt(d)'
    <3>1. stage[c] = "idle"
      BY <1>1 DEF OnUpgrade
    <3>2. CASE ParseDeviceId(r.path) = Null \/ r.token = NoToken
      BY <2>2, <3>2 DEF RouteChecked, Reject, Unanswered, TypeOK
    <3>3. CASE ParseDeviceId(r.path) # Null /\ r.token # NoToken
      BY <2>2, <3>1, <3>3 DEF RouteChecked, Unanswered, TypeOK
    <3>4. QED
      BY <3>2, <3>3
  <2>3. QED
    BY <1>1, <2>1, <2>2 DEF OnUpgrade
<1>2. ASSUME NEW c \in Conns, OnVerifySettled(c) PROVE UnansweredAt(d)'
  <2> DEFINE key == resolveKey(jwks[c])
             ok  == verifyToken(request[c].token, key)
             ip  == resolve(snapshot, ParseDeviceId(request[c].path))
  <2>1. stage[c] = "verifying" /\ UNCHANGED request
    BY <1>2 DEF OnVerifySettled
  <2>2. CASE ~ok \/ Falsy(ip)
    <3>1. Reject(c, 401) \/ Reject(c, 404)
      BY <1>2, <2>2 DEF OnVerifySettled, AuthRejected, ok, ip, key
    <3>2. QED
      BY <2>1, <3>1 DEF Reject, Unanswered, TypeOK
  <2>3. CASE ok /\ ~Falsy(ip) /\ clientGone[c]
    <3>1. stage' = [stage EXCEPT ![c] = "gone"] /\ UNCHANGED status
      BY <1>2, <2>3 DEF OnVerifySettled, ok, ip, key
    <3>2. QED
      BY <2>1, <3>1 DEF Unanswered, TypeOK
  <2>4. CASE ok /\ ~Falsy(ip) /\ ~clientGone[c]
    <3>1. /\ status' = [status EXCEPT ![c] = 101]
          /\ stage' = [stage EXCEPT ![c] = "session"] \/ Crash(c, "connect")
      BY <1>2, <2>4 DEF OnVerifySettled, ok, ip, key
    <3>2. QED
      BY <2>1, <3>1 DEF Crash, Unanswered, TypeOK
  <2>5. QED
    BY <2>2, <2>3, <2>4
<1>3. ASSUME NEW c \in Conns, ClientReset(c) PROVE UnansweredAt(d)'
  BY <1>3 DEF ClientReset, Crash, Unanswered, UnansweredAt, TypeOK
<1>4. ASSUME NEW c \in Conns, SessionEnd(c) PROVE UnansweredAt(d)'
  BY <1>4 DEF SessionEnd, Unanswered, TypeOK
<1>5. QED
  BY <1>1, <1>2, <1>3, <1>4 DEF Next, vars, KeyReply, ClientHangup,
                                 ProvisionWrite, Unanswered

\* Unanswered holds in every reachable state.
LEMMA UnansweredSpec == Spec => []Unanswered
BY UnansweredInit, UnansweredStep, ProxyTypeCorrect, PTL DEF Spec

\* A value resolve returns that `if (!vpnIp)` lets through and that is not
\* a valid host is a bad address or an inherited prototype member.
LEMMA NonHostRange ==
  ASSUME NEW v \in PeerValues \cup {Null, ProtoMember}, ~Falsy(v),
         ~ValidTtydUrl(v)
  PROVE  v \in BadAddrs \cup {ProtoMember}
BY DEF PeerValues, Falsy, ValidTtydUrl

\* A request that reached the await has a /terminal/<id> route and a token.
LEMMA AwaitRouted ==
  ASSUME NEW c \in Conns, AwaitGate(c)
  PROVE  ParseDeviceId(request[c].path) # Null /\ request[c].token # NoToken
BY ProxyAssumption, ResolverAssumption DEF AwaitGate

\* The connect that throws is that of an upgraded, admissible request
\* whose address is not a host.
LEMMA ConnectCrash ==
  ASSUME PInv, NEW c \in Conns, OnVerifySettled(c), ~alive'
  PROVE  /\ stage'[c] = "killed"
         /\ fatal' = [conn |-> c, at |-> "connect"]
         /\ status'[c] = 101
         /\ AdmissibleRequest(request'[c])
         /\ resolved'[c] \in BadAddrs \cup {ProtoMember}
<1>0. TypeOK
  BY DEF PInv
<1> DEFINE key == resolveKey(jwks[c])
           ok  == verifyToken(request[c].token, key)
           ip  == resolve(snapshot, ParseDeviceId(request[c].path))
<1>2. /\ stage[c] = "verifying"
      /\ UNCHANGED request
      /\ resolved' = [resolved EXCEPT ![c] = IF ok THEN ip ELSE NotResolved]
  BY DEF OnVerifySettled, ok, ip, key
<1>3. ok /\ ~Falsy(ip) /\ ~clientGone[c] /\ ~ValidTtydUrl(ip)
  <2>1. ~ok \/ Falsy(ip) \/ clientGone[c] \/ ValidTtydUrl(ip) => alive'
    BY DEF OnVerifySettled, ok, ip, key
  <2>2. QED
    BY <2>1
<1>4. status' = [status EXCEPT ![c] = 101] /\ Crash(c, "connect")
  BY <1>3 DEF OnVerifySettled, ok, ip, key
<1>5. /\ stage'[c] = "killed" /\ status'[c] = 101
      /\ fatal' = [conn |-> c, at |-> "connect"]
  BY <1>2, <1>4, <1>0 DEF Crash, TypeOK
<1>6. AwaitGate(c)
  BY <1>2 DEF PInv, Gates
<1>7. AdmissibleRequest(request'[c])
  BY <1>2, <1>3, <1>6, AwaitAdmissible DEF ok, key, verifyToken
<1>8. resolved'[c] \in BadAddrs \cup {ProtoMember}
  <2>1. ip \in PeerValues \cup {Null, ProtoMember}
    <3>1. ParseDeviceId(request[c].path) \in DeviceIds
      BY <1>6 DEF AwaitGate
    <3>2. snapshot \in Snapshots
      BY <1>0, ProxyAssumption DEF TypeOK
    <3>3. QED
      BY <3>1, <3>2, ResolveRange DEF ip
  <2>2. ip \in BadAddrs \cup {ProtoMember}
    BY <2>1, <1>3, NonHostRange
  <2>3. resolved'[c] = ip
    BY <1>2, <1>3, <1>0 DEF TypeOK
  <2>4. QED
    BY <2>2, <2>3
<1>9. QED
  BY <1>5, <1>7, <1>8

\* The step that ends the process raises one of the three exceptions, in
\* the circumstances CrashesExplained names.
LEMMA CrashStep ==
  ASSUME PInv, Unanswered, [Next]_vars, alive, ~alive'
  PROVE  CrashesExplained'
<1>0. TypeOK
  BY DEF PInv
<1>1. CASE \E c \in Conns : OnUpgrade(c) /\ UrlRejected(c)
  <2>1. PICK c \in Conns : OnUpgrade(c) /\ UrlRejected(c)
    BY <1>1
  <2>2. stage[c] = "idle"
    BY <2>1 DEF OnUpgrade
  <2>3. /\ stage'[c] = "killed"
        /\ fatal' = [conn |-> c, at |-> "url"]
        /\ status'[c] = 0
        /\ request'[c] = NoRequest
    BY <2>1, <2>2, <1>0 DEF UrlRejected, Crash, Unanswered, UnansweredAt, TypeOK
  <2>4. QED
    BY <2>3 DEF CrashesExplained, FatalCause
<1>2. CASE \E c \in Conns : ClientReset(c)
  <2>1. PICK c \in Conns : ClientReset(c)
    BY <1>2
  <2>2. stage[c] = "verifying"
    BY <2>1 DEF ClientReset
  <2>3. /\ stage'[c] = "killed"
        /\ fatal' = [conn |-> c, at |-> "socket"]
        /\ status'[c] = 0
        /\ request' = request
    BY <2>1, <2>2, <1>0 DEF ClientReset, Crash, Unanswered, UnansweredAt, TypeOK
  <2>4. ParseDeviceId(request[c].path) # Null /\ request[c].token # NoToken
    BY <2>2, AwaitRouted DEF PInv, Gates
  <2>5. QED
    BY <2>3, <2>4 DEF CrashesExplained, FatalCause
<1>3. CASE \E c \in Conns : OnVerifySettled(c)
  <2>1. PICK c \in Conns : OnVerifySettled(c)
    BY <1>3
  <2>2. QED
    BY <2>1, ConnectCrash DEF CrashesExplained, FatalCause
<1>4. QED
  <2>1. ASSUME NEW c \in Conns, OnUpgrade(c), ~UrlRejected(c) PROVE alive'
    BY <2>1 DEF OnUpgrade, RouteChecked
  <2>2. QED
    BY <1>1, <1>2, <1>3, <2>1 DEF Next, vars, KeyReply, ClientHangup,
                                  SessionEnd, ProvisionWrite

\* Once the process is dead, the connection that ended it keeps its stage,
\* answer, request and address, and the record of the exception stays:
\* nothing but the peers file, key replies and hang-ups of the dead
\* connections change.
LEMMA DeadStep ==
  ASSUME PInv, [Next]_vars, ~alive, CrashesExplained
  PROVE  CrashesExplained'
<1>0. TypeOK
  BY DEF PInv
<1>1. PICK c \in Conns : FatalCause(c)
  BY DEF CrashesExplained
<1>2. /\ ~alive'
      /\ stage'[c] = stage[c]
      /\ UNCHANGED <<status, request, resolved, fatal>>
  <2>1. ASSUME NEW d \in Conns, SessionEnd(d) PROVE stage'[c] = stage[c]
    BY <2>1, <1>1, <1>0 DEF SessionEnd, FatalCause, TypeOK
  <2>2. QED
    BY <2>1 DEF Next, vars, OnUpgrade, OnVerifySettled, KeyReply,
                ClientHangup, ClientReset, SessionEnd, ProvisionWrite
<1>3. QED
  BY <1>1, <1>2 DEF CrashesExplained, FatalCause

\* The Node.js process dies only of one of three exceptions nobody
\* handles, each in its own circumstances: new URL rejecting a request
\* target (server.ts:74) before anything is answered or checked; an error
\* of the raw socket of a connection awaiting verifyToken (:90), which had
\* a /terminal/<id> route and a token and no answer; or connect throwing
\* (:106) on a non-host address from the peers file, after the 101 of an
\* admissible request.  The connection that raised it was killed.
THEOREM CrashCause == Spec => []CrashesExplained
<1>1. Init => CrashesExplained
  BY DEF Init, CrashesExplained
<1>2. PInv /\ Unanswered /\ CrashesExplained /\ [Next]_vars
        => CrashesExplained'
  <2> SUFFICES ASSUME PInv, Unanswered, CrashesExplained, [Next]_vars
               PROVE  CrashesExplained'
    OBVIOUS
  <2>1. CASE alive /\ alive'
    BY <2>1 DEF CrashesExplained
  <2>2. CASE alive /\ ~alive'
    BY <2>2, CrashStep
  <2>3. CASE ~alive
    BY <2>3, DeadStep
  <2>4. QED
    BY <2>1, <2>2, <2>3
<1>3. QED
  BY <1>1, <1>2, PInvSpec, UnansweredSpec, PTL DEF Spec

=============================================================================
