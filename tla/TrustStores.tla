---- MODULE TrustStores ----
(* What the services of the rail trust, and on whose word: the capability verifier
   and its nonce memory (333-iam/src/capability.rs), the replicated revocation map
   (333-iam/src/revocation.rs) and the provenance chain of releases
   (333-release/src/lib.rs). The three stores share no state, so a behaviour is of
   one of them, chosen at the start. A signature is genuine or it is not; versions
   are numbers in their order; reasons and artifacts' bytes are model values. *)
EXTENDS Integers, Sequences, FiniteSets, FiniteSetsExt, Functions

CONSTANTS Services,    \* audiences, each with its own verifier
          Capabilities,
          Tokens,      \* issued tokens: [audience, nonce, caps, from, until, genuine]
          MaxTime,     \* last time of the clock
          MaxAccepted, \* bound on the tokens accepted
          Callers,     \* threads inside verify
          Skew,        \* how far the time a caller passes may lie behind the clock
          Replicas,    \* holders of a revocation map
          Nonces,
          Reasons,
          Manifests,   \* release manifests: [id, version, parent, signer, genuine]
          Signers,
          NoParent     \* the parent of a root release

VARIABLES store,    \* "tokens", "revocations" or "releases"
          clock,
          seen,     \* service -> its seen_nonces: nonce -> expiry
          calls,    \* caller -> the presentation whose audience and time it has checked
          accepted, \* tokens accepted, in order: [service, token, at]
          revoked,  \* replica -> its RevocationMap: nonce -> [at, reason]
          told,     \* replica -> the revocations it has been told of, by anyone
          trusted,  \* trusted_signers
          checked,  \* the manifest whose signer and signature append has checked
          releases  \* release id -> its manifest

trVars == <<store, clock, seen, calls, accepted, revoked, told, trusted, checked, releases>>
tokenVars == <<clock, seen, calls, accepted>>
revocationVars == <<revoked, told>>
releaseVars == <<trusted, checked, releases>>

Empty == [x \in {} |-> 0]
Nobody == {}

TokenInit == /\ clock = 0
             /\ seen = [s \in Services |-> Empty]
             /\ calls = [c \in Callers |-> Nobody]
             /\ accepted = <<>>
RevocationInit == revoked = [r \in Replicas |-> Empty] /\ told = [r \in Replicas |-> {}]
ReleaseInit == trusted = {} /\ checked = Nobody /\ releases = Empty

TrInit == /\ store \in {"tokens", "revocations", "releases"}
          /\ TokenInit /\ RevocationInit /\ ReleaseInit

----
(* InMemoryVerifier. *)
Tick == clock < MaxTime /\ clock' = clock + 1 /\ UNCHANGED <<seen, calls, accepted>>

\* The issuer signed exactly the fields of the token.
Issued(token) == token.genuine

\* The audience and the time, by the caller's clock, come before the lock on the nonces.
Presentable(token, service, now) ==
  token.audience = service /\ token.from <= now /\ now < token.until

CheckToken(c, token, service, need, now) ==
  /\ Len(accepted) < MaxAccepted /\ calls[c] = Nobody
  /\ Presentable(token, service, now)
  /\ calls' = [calls EXCEPT ![c] = {[token |-> token, service |-> service, need |-> need]}]
  /\ UNCHANGED <<clock, seen, accepted>>

Remembered(memory, token) ==
  [n \in DOMAIN memory \cup {token.nonce} |-> IF n = token.nonce THEN token.until ELSE memory[n]]

\* Under the lock. The nonce is remembered with the token's expiry before the
\* capability and the signature are looked at, so a refused token has used it up.
verify(c) ==
  \E p \in calls[c] :
    LET fresh == p.token.nonce \notin DOMAIN seen[p.service]
    IN /\ calls' = [calls EXCEPT ![c] = Nobody]
       /\ seen' = IF fresh THEN [seen EXCEPT ![p.service] = Remembered(@, p.token)] ELSE seen
       /\ accepted' = IF fresh /\ p.need \in p.token.caps /\ Issued(p.token)
                      THEN Append(accepted, [service |-> p.service, token |-> p.token, at |-> clock])
                      ELSE accepted
       /\ UNCHANGED clock

Kept(memory, now) == {n \in DOMAIN memory : memory[n] > now}

purge_expired(service, now) ==
  /\ Kept(seen[service], now) # DOMAIN seen[service]
  /\ seen' = [seen EXCEPT ![service] = Restrict(@, Kept(@, now))]
  /\ UNCHANGED <<clock, calls, accepted>>

TokenStep == \/ Tick
             \/ \E c \in Callers, token \in Tokens, service \in Services, need \in Capabilities,
                   lag \in 0..Skew : CheckToken(c, token, service, need, clock - lag)
             \/ \E c \in Callers : verify(c)
             \/ \E service \in Services, lag \in 0..Skew : purge_expired(service, clock - lag)

----
(* RevocationMap: the latest record of each nonce; on a tie the one already held. *)
Latest(held, entry, nonce) ==
  IF nonce \in DOMAIN held /\ entry.at <= held[nonce].at THEN held[nonce] ELSE entry

revoke(r, nonce, at, reason) ==
  LET entry == [at |-> at, reason |-> reason]
  IN /\ <<nonce, entry>> \notin told[r]
     /\ revoked' = [revoked EXCEPT ![r] = [n \in DOMAIN @ \cup {nonce} |->
                      IF n = nonce THEN Latest(@, entry, n) ELSE @[n]]]
     /\ told' = [told EXCEPT ![r] = @ \cup {<<nonce, entry>>}]

\* merge_remote of another replica's snapshot.
merge(r, s) ==
  /\ r # s
  /\ revoked' = [revoked EXCEPT ![r] = [n \in DOMAIN @ \cup DOMAIN revoked[s] |->
                   IF n \in DOMAIN revoked[s] THEN Latest(@, revoked[s][n], n) ELSE @[n]]]
  /\ told' = [told EXCEPT ![r] = @ \cup told[s]]

RevocationStep == \E r \in Replicas :
                    \/ \E n \in Nonces, at \in 1..MaxTime, reason \in Reasons : revoke(r, n, at, reason)
                    \/ \E s \in Replicas : merge(r, s)

----
(* ProvenanceChain. trust only ever adds; append looks at the trusted signers and
   the signature under one lock and at the chain under another. *)
trust(signer) == /\ trusted' = trusted \cup {signer}
                 /\ UNCHANGED <<checked, releases>>

\* The signer signed exactly the fields of the manifest.
Signed(m) == m.genuine

CheckSigner(m) == /\ checked = Nobody
                  /\ m.signer \in trusted /\ Signed(m)
                  /\ checked' = {m}
                  /\ UNCHANGED <<trusted, releases>>

Follows(m) == \/ m.parent = NoParent
              \/ m.parent \in DOMAIN releases /\ m.version > releases[m.parent].version

append == \E m \in checked :
            /\ releases' = IF m.id \notin DOMAIN releases /\ Follows(m)
                           THEN [i \in DOMAIN releases \cup {m.id} |-> IF i = m.id THEN m ELSE releases[i]]
                           ELSE releases
            /\ checked' = Nobody
            /\ UNCHANGED trusted

ReleaseStep == \/ \E signer \in Signers \ trusted : trust(signer)
               \/ \E m \in Manifests : CheckSigner(m)
               \/ append

TrNext == /\ UNCHANGED store
          /\ \/ store = "tokens" /\ TokenStep /\ UNCHANGED <<revocationVars, releaseVars>>
             \/ store = "revocations" /\ RevocationStep /\ UNCHANGED <<tokenVars, releaseVars>>
             \/ store = "releases" /\ ReleaseStep /\ UNCHANGED <<tokenVars, revocationVars>>

TrSpec == TrInit /\ [][TrNext]_trVars

----
latest == CHOOSE m \in {releases[i] : i \in DOMAIN releases} :
            \A i \in DOMAIN releases : releases[i].version <= m.version

RECURSIVE ancestry(_)
ancestry(id) == IF releases[id].parent = NoParent THEN <<id>>
                ELSE Append(ancestry(releases[id].parent), id)

(* While a token it accepted is valid, a service accepts no token with that nonce again,
   whatever is purged between the two steps of a verify and however late the callers'
   clocks are. Nothing is promised once the token has expired: a presentation checked
   in time and recorded after the nonce was purged is accepted a second time
   (verify, purge_expired). *)
TokensOnce ==
  \A i, k \in 1..Len(accepted) :
    /\ i < k
    /\ accepted[i].service = accepted[k].service
    /\ accepted[i].token.nonce = accepted[k].token.nonce
    => accepted[i].token.until <= accepted[k].at

(* What a replica was told stays revoked, under the latest time it was told, in
   whatever order revocations and merges reached it (RevocationMap). *)
RevocationsSettle ==
  \A r \in Replicas, n \in Nonces :
    LET of == {e \in told[r] : e[1] = n}
    IN /\ n \in DOMAIN revoked[r] <=> of # {}
       /\ of # {} => revoked[r][n].at = Max({e[2].at : e \in of})

(* Every release's ancestry reaches a root, its versions rise from there, and the
   latest release is nobody's parent (append, ancestry, latest). *)
ReleasesChained ==
  /\ \A id \in DOMAIN releases :
       LET a == ancestry(id)
       IN \A i \in 2..Len(a) : releases[a[i - 1]].version < releases[a[i]].version
  /\ releases # Empty => \A i \in DOMAIN releases : releases[i].parent # latest.id

(* The three stores keep what they promise. *)
TrustKept == TokensOnce /\ RevocationsSettle /\ ReleasesChained
====
