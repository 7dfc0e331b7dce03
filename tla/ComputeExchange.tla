-------------------------- MODULE ComputeExchange --------------------------
(***************************************************************************)
(* The consent-first compute exchange kernel (333-compute-exchange): one   *)
(* contributor's aggregate, the commands that move it, and the effects it  *)
(* asks an adapter to carry out.                                           *)
(*                                                                         *)
(* A command arrives in an envelope with an idempotency key and the        *)
(* generation its sender believes current.  Only a key that comes back is  *)
(* ever looked up, so the inbox is kept for Keys, the keys that do, and    *)
(* FreshKey stands for every key used once.  All the checks that a string  *)
(* is non-empty, and of the policy hash, are the field `ok' of the input.  *)
(* Reasons for a rejection are not told apart: nothing depends on them.    *)
(***************************************************************************)
EXTENDS Naturals, FiniteSets

CONSTANTS
    None,                \* no grant, lease, result or id
    Keys, FreshKey,      \* keys that come back, and any other
    MaxGeneration,       \* u64::MAX, where saturating_add stops
    MaxTime,             \* bound: the last clock reading observed
    Policy,              \* EnginePolicy: [maximum, foreground, outstanding]
    Grants,              \* [id, principal, issued, expires, foreground, caps, ok]
    Leases,              \* [id, grant, generation, mode, resources, ok]
    Assignments,         \* [id, lease, generation, mode, resources, ok]
    Attempts,            \* attempt ids senders may choose
    Results,             \* [producer, digest, usage]
    Principals,          \* who may verify
    Capabilities,        \* [subject, here, attempt, not_before, expires, ok]
    Settlements,         \* settlement ids senders may choose
    Credits              \* credit amounts

Caps == [workers : Nat, gpu : BOOLEAN]

ASSUME ExchangeAssumption ==
    /\ MaxGeneration \in Nat /\ MaxTime \in Nat
    /\ FreshKey \notin Keys
    /\ Policy.maximum \in Caps
    /\ \A g \in Grants : g.caps \in Caps /\ g.issued \in Nat /\ g.expires \in Nat
    /\ \A l \in Leases \cup Assignments : l.resources \in Caps
    /\ \A r \in Results : r.usage \in Caps

VARIABLES
    agg,         \* the Aggregate
    inbox,       \* inbox[k]: the intent and outcome recorded under key k
    dispatched,  \* dispatched[k]: effects ever handed out under key k
    sandbox,     \* attempts the adapter runs, if it performs effects in order
    posted,      \* credit postings handed out since the last StartSandbox
    seen         \* results ever submitted: what a verifier may have judged

vars == <<agg, inbox, dispatched, sandbox, posted, seen>>

Generations == 0..MaxGeneration

(***************************************************************************)
(* Resource caps: the coordinates that are counted, and those that are not *)
(***************************************************************************)
validate_nonzero(c) == c.workers > 0
require_within(c, upper) == c.workers <= upper.workers /\ (c.gpu => upper.gpu)

validate_mode(mode) == Policy.foreground => mode = "foreground"

validate_grant(g) ==
    /\ g.ok
    /\ g.issued < g.expires
    /\ Policy.foreground => g.foreground
    /\ validate_nonzero(g.caps)
    /\ require_within(g.caps, Policy.maximum)

(***************************************************************************)
(* The aggregate                                                           *)
(***************************************************************************)
NoAttempt ==
    [status |-> "None", assignment |-> None, id |-> None, producer |-> None,
     result |-> None, verifier |-> None]

NoSettlement == [status |-> "None", id |-> None, beneficiary |-> None, credits |-> 0]

Init ==
    /\ agg = [generation |-> 0, observed_at |-> 0, consent |-> "Unseen",
              grant |-> None, lease |-> None, attempt |-> NoAttempt,
              settlement |-> NoSettlement]
    /\ inbox = [k \in {} |-> None]
    /\ dispatched = [k \in Keys |-> 0]
    /\ sandbox = {} /\ posted = 0 /\ seen = {}

\* What one event makes of the aggregate, where that is more than one field.
Granted(n, g) ==
    [generation |-> n, observed_at |-> g.issued, consent |-> "Active", grant |-> g,
     lease |-> None, attempt |-> NoAttempt, settlement |-> NoSettlement]

Offered(s, a) ==
    [s EXCEPT !.attempt = [NoAttempt EXCEPT !.status = "Offered", !.assignment = a],
              !.settlement = NoSettlement]

Started(s, id) ==
    [s EXCEPT !.attempt.status = "Running", !.attempt.id = id,
              !.attempt.producer = s.grant.principal]

Verified(s, v) ==
    [s EXCEPT !.attempt.status = "Verified", !.attempt.verifier = v]

Failed(s) == [s EXCEPT !.attempt = [NoAttempt EXCEPT !.status = "Failed"]]

\* Mutant: an attempt whose credit was never posted no longer counts.
has_outstanding_assignmentForgets(s) == s.attempt.status \in {"Offered", "Running"}

has_outstanding_assignment(s) ==
    \/ s.attempt.status \in {"Offered", "Running", "ResultSubmitted"}
    \/ s.attempt.status = "Verified" /\ s.settlement.status # "Posted"

\* Consent was given and is not known to have ended.
active_grant(s) == s.consent = "Active" /\ s.observed_at < s.grant.expires

active_lease(s) == s.lease # None

(***************************************************************************)
(* Effects                                                                 *)
(***************************************************************************)
NoEffect == [kind |-> "none"]
StartSandbox(id, a) ==
    [kind |-> "StartSandbox", attempt |-> id, mode |-> a.mode, resources |-> a.resources]
StopSandbox(id) == [kind |-> "StopSandbox", attempt |-> id]
PostServiceCredit(plan) == [kind |-> "PostServiceCredit", plan |-> plan]

\* Mutant: the stop sent on revocation and expiry names no attempt.
stop_sandbox_effectUntargeted(s) == StopSandbox(None)

\* Whatever attempt the aggregate still names, running or not, is stopped.
stop_sandbox_effect(s) ==
    StopSandbox(IF s.attempt.status \in {"Running", "ResultSubmitted", "Verified"}
                THEN s.attempt.id ELSE None)

\* Revocation and expiry end the lease and fail work not yet submitted; what
\* was submitted stays for verification and settlement.
append_stop_events(s) ==
    LET stopped == [s EXCEPT !.lease = None] IN
    IF s.attempt.status \in {"Offered", "Running"} THEN Failed(stopped) ELSE stopped

(***************************************************************************)
(* ComputeExchange::handle: a decision on a key that was not used before,  *)
(* recorded under it, and a repeated key.                                  *)
(***************************************************************************)
Dispatch(k, e) ==
    /\ dispatched' = IF k = FreshKey \/ e = NoEffect THEN dispatched
                     ELSE [dispatched EXCEPT ![k] = @ + 1]
    /\ sandbox' = CASE e.kind = "StartSandbox" -> sandbox \cup {e}
                    [] e.kind = "StopSandbox"  -> {b \in sandbox : b.attempt # e.attempt}
                    [] OTHER -> sandbox
    /\ posted' = CASE e.kind = "StartSandbox" -> 0
                   [] e.kind = "PostServiceCredit" -> posted + 1
                   [] OTHER -> posted

\* check_generation: a grant names the generation it opens.
expected_generation(command) ==
    IF command.type # "GrantConsent" THEN agg.generation
    ELSE IF agg.generation < MaxGeneration THEN agg.generation + 1 ELSE MaxGeneration

Decide(k, generation, command, admissible, evolved, effect) ==
    LET accepted == generation = expected_generation(command) /\ admissible
        e == IF accepted THEN effect ELSE NoEffect IN
    /\ k \notin DOMAIN inbox
    /\ inbox' = IF k = FreshKey THEN inbox
                ELSE [q \in DOMAIN inbox \cup {k} |->
                        IF q = k THEN [generation |-> generation, command |-> command,
                                       accepted |-> accepted, effect |-> e]
                        ELSE inbox[q]]
    /\ agg' = IF accepted THEN evolved ELSE agg
    /\ Dispatch(k, e)

\* Mutant: the recorded decision is returned with its effects.
replay_receiptWhole(record) == record

\* The recorded decision without its effects.
replay_receipt(record) == [record EXCEPT !.effect = NoEffect]

\* The same key again: the same intent gets the receipt, another a conflict,
\* and neither decides anything.
Replay(k) ==
    /\ k \in DOMAIN inbox
    /\ Dispatch(k, replay_receipt(inbox[k]).effect)
    /\ UNCHANGED <<agg, inbox, seen>>

(***************************************************************************)
(* One action per command: its decide_ function and evolve on its events   *)
(***************************************************************************)
GrantConsent(k, n, g) ==
    /\ Decide(k, n, [type |-> "GrantConsent", grant |-> g],
           /\ agg.consent # "Active"
           /\ ~has_outstanding_assignment(agg)
           /\ agg.settlement.status # "Prepared"
           /\ validate_grant(g)
           /\ g.issued >= agg.observed_at,
           Granted(n, g), NoEffect)
    /\ UNCHANGED seen

ObserveTime(k, n, t) ==
    LET now == [agg EXCEPT !.observed_at = t]
        due == agg.consent = "Active" /\ t >= agg.grant.expires IN
    /\ Decide(k, n, [type |-> "ObserveTime", time |-> t],
           t >= agg.observed_at,
           IF due THEN append_stop_events([now EXCEPT !.consent = "Expired"]) ELSE now,
           IF due THEN stop_sandbox_effect(agg) ELSE NoEffect)
    /\ UNCHANGED seen

OpenLease(k, n, l) ==
    /\ Decide(k, n, [type |-> "OpenLease", lease |-> l],
           /\ active_grant(agg) /\ ~active_lease(agg)
           /\ l.grant = agg.grant.id /\ l.generation = agg.generation
           /\ l.ok /\ validate_mode(l.mode)
           /\ validate_nonzero(l.resources)
           /\ require_within(l.resources, agg.grant.caps),
           [agg EXCEPT !.lease = l], NoEffect)
    /\ UNCHANGED seen

OfferAssignment(k, n, a) ==
    /\ Decide(k, n, [type |-> "OfferAssignment", assignment |-> a],
           /\ active_grant(agg) /\ active_lease(agg)
           /\ ~has_outstanding_assignment(agg) /\ Policy.outstanding # 0
           /\ a.lease = agg.lease.id /\ a.generation = agg.generation
           /\ a.ok /\ validate_mode(a.mode)
           /\ validate_nonzero(a.resources)
           /\ require_within(a.resources, agg.lease.resources),
           Offered(agg, a), NoEffect)
    /\ UNCHANGED seen

StartAttempt(k, n, id, assignment_id) ==
    LET a == agg.attempt.assignment IN
    /\ Decide(k, n, [type |-> "StartAttempt", attempt |-> id, assignment_id |-> assignment_id],
           /\ active_grant(agg) /\ active_lease(agg)
           /\ agg.attempt.status = "Offered"
           /\ a.id = assignment_id /\ a.lease = agg.lease.id,
           Started(agg, id), StartSandbox(id, a))
    /\ UNCHANGED seen

SubmitResult(k, n, id, r) ==
    /\ Decide(k, n, [type |-> "SubmitResult", attempt |-> id, result |-> r],
           /\ active_grant(agg) /\ active_lease(agg)
           /\ agg.attempt.status = "Running" /\ agg.attempt.id = id
           /\ r.producer = agg.grant.principal /\ r.producer = agg.attempt.producer
           /\ validate_nonzero(r.usage)
           /\ require_within(r.usage, agg.attempt.assignment.resources),
           [agg EXCEPT !.attempt.status = "ResultSubmitted", !.attempt.result = r],
           StopSandbox(id))
    /\ seen' = IF agg'.attempt = agg.attempt THEN seen
               ELSE seen \cup {[attempt |-> id, digest |-> r.digest]}

\* decide_verify's checks on the verifier and its capability.
Capable(v, c, id) ==
    /\ c.ok /\ c.not_before < c.expires
    /\ v # agg.attempt.result.producer
    /\ c.subject = v /\ c.here /\ c.attempt = id
    /\ c.not_before <= agg.observed_at /\ agg.observed_at < c.expires

\* A verdict is on some submitted result, digest; the command names the attempt
\* only, so a delayed one applies to whatever was submitted since.
VerifyResult(k, n, id, v, c, verdict, digest) ==
    /\ [attempt |-> id, digest |-> digest] \in seen
    /\ Decide(k, n, [type |-> "VerifyResult", attempt |-> id, verifier |-> v,
                     capability |-> c, verdict |-> verdict],
           /\ agg.attempt.status = "ResultSubmitted" /\ agg.attempt.id = id
           /\ Capable(v, c, id),
           IF verdict = "Accept" THEN Verified(agg, v) ELSE Failed(agg),
           NoEffect)
    /\ UNCHANGED seen

\* Mutant: only a contributor whose consent is still active is paid.
CreditableActive(id) ==
    /\ agg.attempt.status = "Verified" /\ agg.attempt.id = id
    /\ agg.settlement.status = "None"
    /\ active_grant(agg)

\* Mutant: a settlement that was prepared may be prepared again.
CreditableAgain(id) ==
    /\ agg.attempt.status = "Verified" /\ agg.attempt.id = id
    /\ agg.settlement.status # "Posted"

Creditable(id) ==
    /\ agg.attempt.status = "Verified" /\ agg.attempt.id = id
    /\ agg.settlement.status = "None"

PrepareSettlement(k, n, sid, id, credits) ==
    LET plan == [status |-> "Prepared", id |-> sid, credits |-> credits,
                 beneficiary |-> agg.grant.principal] IN
    /\ Decide(k, n, [type |-> "PrepareSettlement", settlement |-> sid,
                     attempt |-> id, credits |-> credits],
           Creditable(id) /\ credits # 0,
           [agg EXCEPT !.settlement = plan], PostServiceCredit(plan))
    /\ UNCHANGED seen

RecordSettlementReceipt(k, n, sid, credits) ==
    /\ Decide(k, n, [type |-> "RecordSettlementReceipt", settlement |-> sid,
                     credits |-> credits],
           /\ agg.settlement.status = "Prepared"
           /\ agg.settlement.id = sid /\ agg.settlement.credits = credits,
           [agg EXCEPT !.settlement.status = "Posted"], NoEffect)
    /\ UNCHANGED seen

RevokeConsent(k, n, gid) ==
    /\ Decide(k, n, [type |-> "RevokeConsent", grant_id |-> gid],
           active_grant(agg) /\ agg.grant.id = gid,
           append_stop_events([agg EXCEPT !.consent = "Revoked"]),
           stop_sandbox_effect(agg))
    /\ UNCHANGED seen

Next ==
    \/ \E k \in Keys : Replay(k)
    \/ \E k \in Keys \cup {FreshKey}, n \in Generations :
        \/ \E g \in Grants : GrantConsent(k, n, g) \/ RevokeConsent(k, n, g.id)
        \/ \E t \in 0..MaxTime : ObserveTime(k, n, t)
        \/ \E l \in Leases : OpenLease(k, n, l)
        \/ \E a \in Assignments :
              \/ OfferAssignment(k, n, a)
              \/ \E id \in Attempts : StartAttempt(k, n, id, a.id)
        \/ \E id \in Attempts :
              \/ \E r \in Results : SubmitResult(k, n, id, r)
              \/ \E v \in Principals, c \in Capabilities, verdict \in {"Accept", "Reject"},
                    r \in Results : VerifyResult(k, n, id, v, c, verdict, r.digest)
              \/ \E sid \in Settlements, m \in Credits : PrepareSettlement(k, n, sid, id, m)
        \/ \E sid \in Settlements, m \in Credits : RecordSettlementReceipt(k, n, sid, m)

Spec == Init /\ [][Next]_vars

(***************************************************************************)
(* Fairness: what COMPUTE_EXCHANGE_FSM_SPEC.json assumes of the adapters   *)
(* for submitted work to settle, and nothing of the kernel's other users:  *)
(* a verdict, a settlement order and the matching receipt are eventually   *)
(* delivered, each under a new key.                                        *)
(***************************************************************************)
DeliverVerdict ==
    \E v \in Principals, c \in Capabilities, verdict \in {"Accept", "Reject"} :
        VerifyResult(FreshKey, agg.generation, agg.attempt.id, v, c, verdict,
                     agg.attempt.result.digest)
DeliverSettlement ==
    \E sid \in Settlements, m \in Credits :
        PrepareSettlement(FreshKey, agg.generation, sid, agg.attempt.id, m)
DeliverReceipt ==
    RecordSettlementReceipt(FreshKey, agg.generation, agg.settlement.id, agg.settlement.credits)

FairSpec ==
    /\ Spec
    /\ WF_vars(agg.attempt.status = "ResultSubmitted" /\ DeliverVerdict)
    /\ WF_vars(agg.attempt.status = "Verified" /\ DeliverSettlement)
    /\ WF_vars(agg.settlement.status = "Prepared" /\ DeliverReceipt)

(***************************************************************************)
(* Properties                                                              *)
(***************************************************************************)
\* A sandbox runs only for the attempt the aggregate calls running, while the
\* contributor's consent is active and unexpired, and within what was consented
\* to and what the policy allows (append_stop_events, stop_sandbox_effect).
SandboxConsented ==
    \A b \in sandbox :
        /\ agg.attempt.status = "Running" /\ agg.attempt.id = b.attempt
        /\ active_grant(agg) /\ active_lease(agg)
        /\ require_within(b.resources, agg.grant.caps)
        /\ require_within(b.resources, Policy.maximum)
        /\ validate_mode(b.mode)

\* A credit is posted at most once for each run of a sandbox, to the contributor
\* who ran it, and only after somebody else accepted its result.
CreditEarned ==
    /\ posted <= 1
    /\ agg.settlement.status # "None" =>
          /\ agg.attempt.status = "Verified" /\ posted = 1
          /\ agg.settlement.beneficiary = agg.attempt.producer
          /\ agg.attempt.verifier # agg.attempt.producer
          /\ require_within(agg.attempt.result.usage, agg.grant.caps)

\* However often a command is delivered, its effect is handed out once (inbox).
EffectsOnce == \A k \in Keys : dispatched[k] <= 1

\* Work in hand: submitted and neither rejected nor paid.
InHand(s) ==
    \/ s.attempt.status = "ResultSubmitted"
    \/ s.attempt.status = "Verified" /\ s.settlement.status # "Posted"

\* Revocation, expiry and a new grant never take away submitted work before it is
\* rejected by a verifier or paid (decide_grant, append_stop_events).
WorkPreserved ==
    [][InHand(agg) =>
         \/ agg'.attempt.result = agg.attempt.result /\ agg'.attempt.id = agg.attempt.id
         \/ agg.attempt.status = "ResultSubmitted" /\ agg'.attempt.status = "Failed"
            /\ agg'.consent = agg.consent]_vars

\* Submitted work is eventually paid or rejected, also when the contributor
\* revokes consent or the grant expires in the meantime.
SubmittedSettles ==
    agg.attempt.status = "ResultSubmitted" ~>
        agg.attempt.status = "Failed" \/ agg.settlement.status = "Posted"

=============================================================================
