# Formal model of the terminal proxy

This directory models `src/glue-services/terminal-proxy/src` in TLA+. The
proxy is a Node.js HTTP server. It authenticates a browser's WebSocket
upgrade request with a JWT, looks up the device's VPN address in a peers
file, and relays frames between the browser and the device's ttyd.

## The system

| Part | Source | State | Operations |
|---|---|---|---|
| Token verifier | `auth.ts` | none (the JWKS cache is inside jwks-rsa) | `verifyToken`, `resolveKey` |
| Address resolver | `ipResolver.ts` | none; it reads the peers file on each call | `resolve` |
| Upgrade pipeline | `server.ts` 70-104 | one async handler per connection, the shared peers file, the process itself | route check, token check, `await verifyToken`, `resolveIp`, `handleUpgrade`, `rejectUpgrade` |
| Relay session | `server.ts` 104-159 | two ws sockets, the `pending` array | client message/close/error; device open/message/close/error |
| Health endpoint | `server.ts` 60-68 | none | constant answer, not modelled |
| Config, bootstrap | `config.ts`, `index.ts` | start-up only | not modelled; their values are the modules' constants |

How the parts interact:
- The pipeline awaits the verifier once.
- The pipeline then reads the resolver, so a rewrite of the file by the provisioning system during that await changes the answer.
- It then hands the socket to a relay session.

All of it runs on one event loop. Every handler runs to completion, so each handler is one atomic step of the model. The await splits the upgrade handler into two steps.

The upgrade handler is an `async` function that nobody awaits. Anything it throws becomes an unhandled rejection, and that ends the process (Node 15 and later). Three exceptions can end it:
- `new URL` rejecting the request target (`server.ts:74`);
- an `'error'` of the raw socket while the handler awaits `verifyToken` (`:90`). Node removed its own listener when it emitted `upgrade`, and ws adds one only in `handleUpgrade`;
- `connect` on a non-host address (`:106`).

## Modules

- **RelaySession.tla**: one upgraded connection.
  - **Variables:** `clientWs` and `deviceWs` (ws readyStates), `pending`, the message counters, the histories `toDevice` and `toClient`, `closeCode` (the code of the proxy's `clientWs.close`) and two history variables: `deviceFailed` (ttyd's socket emitted `error`) and `deviceOpenedLate` (the dial opened when the browser socket was already CLOSED).
  - **Messages** are their arrival numbers.
  - **Actions:**
    - one action per registered handler, including the whole handler (the open handler's flush, its `pending.length = 0`, and the registration of the device message forwarder);
    - the dial failure, which is ws's `error` then `close` in one tick;
    - the peers' own closes, as environment actions.
- **PrefixRelay.tla**: the abstract promise of one direction of a session.
  - **Variables:** `arrived` (count), `delivered` (what was handed on) and `closed`.
  - **Actions:** `Hold` (a message arrives and is kept back or lost), `Pass` (a message arrives and is handed on when nothing is held), `Release` (all held messages are handed on) and `Close`.
  - RelaySession instantiates it twice:
    - `ToDevice` maps `clientRecvd`, `toDevice` and "deviceWs is CLOSING or CLOSED";
    - `ToClient` maps `deviceRecvd`, `toClient` and "clientWs is not OPEN".
- **TokenVerifier.tla**: the operators `resolveKey`, `ClaimsValid` and `verifyToken`.
  - A token is abstracted to the three facts `jwt.verify` checks: signature, `aud` and expiry.
- **AddressResolver.tla**: `resolve` over a snapshot of the file.
  - A snapshot's kind is one of: missing or unparsable, JSON `null`, a scalar, or an object.
  - `PropertyRead` models the JavaScript property read, including members inherited from `Object.prototype`.
- **ProxyServer.tla**: the upgrade pipeline for a set of connections. It composes TokenVerifier and AddressResolver.
  - **Variables:** per-connection `stage`, `request`, `status`, `jwks` (the key lookup's reply), `resolved` and `clientGone`; the shared `snapshot` of the peers file; `alive`, for the process; and the history variable `fatal`, which records which connection's exception ended the process, and where.
  - The upgrade and the settled-verification handlers are IF chains, one branch per early return of the code, in the code's order.
  - **Actions:**
    - `OnUpgrade`, up to the await. It is either `UrlRejected` (`new URL` throws, on a target such as `//`, and the process dies) or `RouteChecked` for a parsed request;
    - `KeyReply`;
    - `OnVerifySettled`, after the await, up to and including `connect`;
    - the environment actions: `ClientHangup` (a clean close during the await), `ClientReset` (a reset during the await, which kills the process), `ProvisionWrite` and `SessionEnd`.
  - `Crash(c, site)` is the process's death from connection `c`'s exception: `c` and every connection being handled or relayed are "killed".
  - A session is abstracted to one step, `SessionEnd`; RelaySession models its inside.
  - `AdmissibleRequest` names the requests that pass the route, token and claims checks.
- **UpgradeOutcome.tla**: the abstract promise of the pipeline to each connection (spec 4.3 and 6).
  - **Variables:** `phase` (idle, waiting, refused, admitted or over), `req`, `answer` (the HTTP status written, 0 for none) and `up`.
  - **Actions:**
    - `Receive`: a request arrives and waits, or is refused with 401 or 404 at once;
    - `Refuse`, `Admit`, `Abandon`: a waiting request is refused, upgraded (only if admissible) or left by its client;
    - `Finish`: an upgraded connection ends;
    - `Die`: the process ends every unfinished connection. The step may be the one that upgraded a waiting connection, or the arrival of a request on an idle connection, which then ends too.
  - ProxyServer instantiates it as `Outcome`:
    - `phase` is `StagePhase(stage[c])`: "verifying" is waiting, "rejected" refused, "session" admitted, and "gone", "ended" and "killed" over;
    - `req` is `request`, `answer` is `status` and `up` is `alive`.
- **MCRelaySession.tla** and **MCProxyServer.tla**: the TLC instances.
- **RelaySessionProofs.tla** and **ProxyServerProofs.tla**: the TLAPS proofs.

## Runs

| Run | Checks | Result |
|---|---|---|
| relay_core (`MCRelaySession.cfg`) | TypeOK, RelayInOrder, NoStrandedBuffer, CloseCodeNamesCause, OrphanOnlyFromLateOpen, DeviceEndLeadsToClientEnd, RelayRefinesPrefix | pass (918 states) |
| relay_orphan (`MCRelaySessionOrphan.cfg`) | NoOrphanedDevice | violated |
| proxy_pipeline (`MCProxyServer.cfg`) | TypeOK, GatedSessions, CrashesExplained, UpgradeAnswered, UpgradeRefinesOutcome | pass (about 126k states) |
| proxy_crash (`MCProxyServerProcessNeverCrashes.cfg`) | ProcessNeverCrashes | violated |
| resolver_unknown_ids (`MCProxyServerResolvesOnlyFileEntries.cfg`) | ResolvesOnlyFileEntries | violated |

What each property says:
- **RelayInOrder:** `toDevice \o pending` is exactly the browser's messages in order.
- **NoStrandedBuffer:** nothing waits in `pending` while the device is OPEN.
- **CloseCodeNamesCause:** once the proxy has closed the browser socket, the code is 1011 exactly when ttyd's socket failed (spec 6). It holds because ws emits `error` before `close`, and `close()` on a socket that is no longer OPEN does not change the code.
- **RelayRefinesPrefix:** both directions implement PrefixRelay. Each step of the session is a step of each direction's abstract relay, or leaves it unchanged. So nothing is sent twice, skipped or reordered, and nothing is sent once the far side has started closing. The abstract `Hold` has no guard, so that messages are held back only while dialling is NoStrandedBuffer's claim, not this one's.
- **OrphanOnlyFromLateOpen:** ttyd's socket is OPEN beside a CLOSED browser socket only if the dial opened after the browser's close handler ran. So the race of finding 1 is the only way to orphan the device end.
- **DeviceEndLeadsToClientEnd:** a CLOSED device socket leads to a CLOSED browser socket.
- **GatedSessions:** every dialled device belongs to a request that has all of these:
  - a valid route;
  - a token signed with a key the key authority gave;
  - the right audience;
  - not expired;
  - an address from the file that is a valid host.
- **UpgradeAnswered:** every awaited verification ends.
- **UpgradeRefinesOutcome:** the pipeline implements UpgradeOutcome. Each connection's answer is written at most once and never replaced, and a rejection ends the connection. A 101 is written only for an admissible request. A dead process answers nothing, and its death ends every connection in flight.
- **CrashesExplained:** if the process has died, some connection `c` is "killed", `fatal` names it and one of these holds:
  - the site is `new URL`, and `c` has no answer and no parsed request. No token is needed to kill the process this way;
  - the site is the socket, and `c` has no answer, a `/terminal/<id>` route and a token. That is, the reset hit the await window and no other;
  - the site is `connect`, and `c` has the 101, an admissible request and a resolved address that is a bad address or a prototype member.

**Bounds.**
- **relay_core:** 3 client messages and 2 device messages. This is enough for a message to be buffered, flushed and then followed by a directly forwarded one, and for messages to arrive after either side starts closing.
- **proxy_pipeline:** two connections, so that one request can interleave with another and with a file rewrite. The inputs are:
  - two ids: a provisioned one and `constructor`;
  - one valid address, one IPv6 address and the empty string;
  - three tokens: valid, expired, wrong audience;
  - five file contents: missing, the device with each of the three addresses, and an empty mapping;
  - four parsed paths, including `/terminal//dev-001/extra`, with empty and extra segments;
  - a target that `new URL` rejects (the other branch of `OnUpgrade`).
- **No symmetry:** the liveness property rules it out.

**Fairness.**
- **RelaySession:** weak fairness only on the two close handlers. ws destroys a CLOSING socket after its close timeout and then emits `close`.
- **ProxyServer:** weak fairness on `KeyReply` and `OnVerifySettled`. jwks-rsa's request has a timeout, and `resolveKey` calls back on both branches.
- **Nothing else is fair.** The browser, ttyd and the provisioning system act when they like, and the proxy's dial has no timeout.

## Findings

1. **Orphaned device socket** (`server.ts:138`, `:149`). If the browser leaves while the dial is CONNECTING, nothing ever closes `deviceWs`. When it opens, it receives the flushed messages and stays open. Spec 4.3 step 6 says every exit path closes both ends.
2. **Process crash.** Spec 7 says no error is fatal to the process. Three are:
   - `server.ts:74`: a request target such as `//` makes `new URL` throw, before any check. This is TLC's shortest counterexample.
   - `server.ts:90`: a connection reset while the handler awaits `verifyToken` emits `'error'` on a socket nobody listens to.
   - `server.ts:106`: an authenticated request for `/terminal/constructor` makes `resolve` return `Object.prototype.constructor`. A peers entry that is not a host (for example an IPv6 literal) has the same effect. Either way, `new WebSocket("ws://...")` throws.

   `CrashCause` proves that these three are the only ways the process dies.
3. **Unknown ids resolve** (`ipResolver.ts:31`). Ids named like prototype members resolve to a non-null value, but spec 4.2 says unknown ids are not found.

## Proofs

`RelaySessionProofs.tla` proves these theorems for every value of `MaxClientMsgs` and `MaxDeviceMsgs` in Nat:
- `TypeCorrect`: `Spec => []TypeOK`;
- `RelayOrdered`: `Spec => []RelayInOrder`;
- `BufferNeverStranded`: `Spec => []NoStrandedBuffer`;
- `CloseCodesDistinct`: `Spec => []CloseCodeNamesCause`;
- `RelayRefinement`: `Spec => RelayRefinesPrefix`, that is, RelaySession implements both PrefixRelay instances;
- `OrphanOnlyLate`: `Spec => []OrphanOnlyFromLateOpen`. With TypeOK it is inductive (`OrphanStep`). Only the client close handler makes the browser socket CLOSED, and it closes an OPEN deviceWs. Only the open handler makes deviceWs OPEN, and it records whether the browser socket was CLOSED.

RelayInOrder is not inductive on its own. A message forwarded directly is appended to `toDevice`, and that keeps the stream in order only if `pending` is empty at that moment. So the inductive invariant is `IInv == TypeOK /\ RelayInOrder /\ NoStrandedBuffer`. The proof takes one case per handler and rests on these lemmas:
- `IotaAppend`;
- `ConcatAppend`;
- SequenceTheorems' facts on `\o` and `Append`.

CloseCodeNamesCause is not inductive either. A later `OnDeviceClose` must not be able to overwrite a 1011, so the invariant `CodeInv` adds two facts:
- a 1001 means ttyd's socket is CLOSED;
- a failed device means the browser socket is no longer OPEN.

The refinement proof follows the usual shape:
- `Init` maps to each abstract `Init`;
- under `RInv`, each step of `Next` maps to a step or a stutter of `ToDevice!Next` and `ToClient!Next`.

`RInv` adds `ClientStreamIntact` to `IInv`: while the browser socket is OPEN, `toClient` is exactly the device's messages. This fact makes a forwarded device message a `Pass`.

`ProxyServerProofs.tla` proves, for every set of connections, paths, tokens and peers files the assumptions allow:
- `ProxyTypeCorrect`: `Spec => []TypeOK`;
- `SessionsGated`: `Spec => []GatedSessions`;
- `PipelineRefinement`: `Spec => UpgradeRefinesOutcome`;
- `CrashCause`: `Spec => []CrashesExplained`.

Its inductive invariant `PInv` adds per-connection gates to TypeOK:
- a "verifying" connection has a parsed device id and a token;
- a connection in "session" or "ended" has all of these:
  - the key authority's key;
  - valid claims;
  - an address from `Addrs`.

Those gates are what a connection carries across the await. `ResolveRange` bounds what `resolve` can return. Two assumptions are needed:
- `PathsAssumption`: `ParseDeviceId` maps the path inputs into the ids or `Null`;
- `ResolverAssumption`: `Null` is not an id.

The refinement needs nothing beyond `PInv`:
- `OutcomeStep` maps `RouteChecked` to `Receive`, and `UrlRejected` and `ClientReset` to `Die` (`CrashEnds` gives the phases a crash leaves). It maps the five branches of `OnVerifySettled` to `Refuse` (401 or 404), `Abandon`, `Admit` and `Die`;
- it maps `SessionEnd` to `Finish`;
- the key reply, the hang-up and the file rewrite are stutters.

`AwaitAdmissible` turns the await gate and the accepted claims into `AdmissibleRequest`. `PhaseExcept` says a one-connection stage change moves only that connection's phase.

`CrashesExplained` is not inductive given `PInv` alone. A reset or a `new URL` throw must find its connection unanswered, and an idle connection must have no parsed request. So the proof adds the invariant `Unanswered`: an idle connection has no request and no answer, and a "verifying" one has no answer. The proof has two lemmas:
- `CrashStep`: the step that clears `alive` is one of the three throws. `AwaitRouted` gives the route and token of a reset connection. `ConnectCrash`, with `ResolveRange` and `NonHostRange`, places the address of a failed `connect` among the bad addresses and the prototype members.
- `DeadStep`: once the process is dead, the killed connection and `fatal` stay as they are.

What only TLC checks:
- the liveness properties (`DeviceEndLeadsToClientEnd`, `UpgradeAnswered`), because TLAPS does not handle fairness;
- the violated properties;
- what `ParseDeviceId` returns for a path. It filters the segments with `SelectSeq`, a recursive definition, and what that computes for every input would need induction over data. So the proofs rest on `PathsAssumption`, which TLC evaluates on the instance's paths.

## Not modelled

- The health endpoint: a constant answer, with no state.
- Configuration (`config.ts`): it reads five environment variables once, at load. Their values are the modules' constants (`Audience`, the ttyd port inside `ValidTtydUrl`, the peers file behind `snapshot`).
- Bootstrap (`index.ts`): it builds the verifier, the resolver and the server once, then calls `listen`. ProxyServer already makes this composition, since it uses TokenVerifier and AddressResolver as operators.
- Frame payloads, binary flags, log output and the status texts.
- Memory growth of `pending`: the model bounds the messages.

## Plan for later work

Done so far:
- the abstract relay and the refinement;
- ProxyServer's proofs, its abstract answer protocol and the refinement;
- the close-code property.

Still open:
1. Compose RelaySession into ProxyServer in place of `SessionEnd`, so that a process crash also kills open relays.
2. The `new URL` normalisation of dot segments in the request path. The model takes the parsed pathname as its input, and only the parse failure is an action.
3. A dial timeout: the code has none (`server.ts:106`), so a hanging dial holds `pending` forever. A property would need a model of ws's handshake timer, which the code does not configure.
