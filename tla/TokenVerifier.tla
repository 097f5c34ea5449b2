---------------------------- MODULE TokenVerifier ----------------------------
(***************************************************************************)
(* The bearer-token check of auth.ts: createVerifier returns verifyToken,  *)
(* which lets jwt.verify fetch the signing key through resolveKey (a JWKS  *)
(* lookup, or the getKeyFn a test injects) and check the token against it *)
(* and the configured audience.  A token is abstracted to the three facts  *)
(* jwt.verify checks: its signature, its aud claim and whether exp has     *)
(* passed.  The verifier keeps no state of its own.                        *)
(***************************************************************************)

CONSTANTS
  Audience,      \* authConfig.audience, the expected aud claim
  Audiences      \* the aud claims tokens in the model carry

ASSUME AudienceAssumption == Audience \in Audiences

\* A token as far as jwt.verify is concerned.
Tokens == [signed : BOOLEAN, aud : Audiences, expired : BOOLEAN]

\* What client.getSigningKey reports for the token's kid: the key, or an
\* error (key authority unreachable, unknown kid, rate limit reached).
JwksReplies == {"key", "error"}

\* Faulty variant (mutation check): the error branch returns without
\* calling back, so jwt.verify waits forever.
resolveKeyNoErrorCallback(reply) == IF reply = "key" THEN "key" ELSE "none"

\* resolveKey: pass the public key, or the error, to jwt.verify's callback.
resolveKey(reply) == IF reply = "key" THEN "key" ELSE "keyError"

\* Faulty variant (mutation check): the audience option is not passed.
ClaimsValidNoAudience(token) == token.signed /\ ~token.expired

\* The claims jwt.verify accepts: a good signature, the configured
\* audience, an expiry in the future.
ClaimsValid(token) ==
  /\ token.signed
  /\ token.aud = Audience
  /\ ~token.expired

\* verifyToken(token) resolves exactly when the key was obtained and the
\* claims are valid; every other case rejects the promise, whatever the
\* cause.
verifyToken(token, keyCallback) ==
  /\ keyCallback = "key"
  /\ ClaimsValid(token)

=============================================================================
