----------------------- MODULE ComputeExchangeProofs -----------------------
(***************************************************************************)
(* What TLAPS proves of module ComputeExchange, for every policy and every *)
(* set of grants, leases, assignments, results, capabilities and keys.     *)
(***************************************************************************)
EXTENDS ComputeExchange, TLAPS

(***************************************************************************)
(* The inductive invariant                                                 *)
(***************************************************************************)
Owners == {g.principal : g \in Grants} \cup {None}

AttemptType ==
    [status : {"None", "Offered", "Running", "ResultSubmitted", "Verified", "Failed"},
     assignment : Assignments \cup {None}, id : Attempts \cup {None}, producer : Owners,
     result : Results \cup {None}, verifier : Principals \cup {None}]

SettlementType ==
    [status : {"None", "Prepared", "Posted"}, id : Settlements \cup {None},
     beneficiary : Owners, credits : Credits \cup {0}]

AggregateType ==
    [generation : Generations, observed_at : Nat,
     consent : {"Unseen", "Active", "Expired", "Revoked"},
     grant : Grants \cup {None}, lease : Leases \cup {None},
     attempt : AttemptType, settlement : SettlementType]

\* The grant was validated, and the clock has not passed the end of one that is
\* still called active.
GrantOK(s) ==
    /\ s.consent # "Unseen" =>
          s.grant \in Grants /\ require_within(s.grant.caps, Policy.maximum)
    /\ s.consent = "Active" => s.observed_at < s.grant.expires

\* A lease is open only under an active grant, and within its caps.
LeaseOK(s) ==
    s.lease # None =>
        /\ s.consent = "Active" /\ s.lease \in Leases
        /\ require_within(s.lease.resources, s.grant.caps)

\* What each status of the attempt says of the rest of the aggregate.
AttemptOK(s) ==
    /\ s.attempt.status \in {"Offered", "Running"} =>
          /\ s.lease # None /\ s.attempt.assignment \in Assignments
          /\ require_within(s.attempt.assignment.resources, s.lease.resources)
          /\ validate_mode(s.attempt.assignment.mode)
    /\ s.attempt.status \in {"ResultSubmitted", "Verified"} =>
          /\ s.consent # "Unseen" /\ s.attempt.result \in Results
          /\ s.attempt.result.producer = s.attempt.producer
          /\ require_within(s.attempt.result.usage, s.grant.caps)
    /\ s.attempt.status \in {"Running", "ResultSubmitted", "Verified"} =>
          s.attempt.producer = s.grant.principal
    /\ s.attempt.status = "Verified" => s.attempt.verifier # s.attempt.producer

SettlementOK(s) ==
    s.settlement.status # "None" =>
        s.attempt.status = "Verified" /\ s.settlement.beneficiary = s.attempt.producer

AggregateOK(s) == GrantOK(s) /\ LeaseOK(s) /\ AttemptOK(s) /\ SettlementOK(s)

\* The adapter's sandboxes are those of the running attempt.
SandboxOK ==
    \A b \in sandbox :
        /\ agg.attempt.status = "Running" /\ agg.attempt.id = b.attempt
        /\ b.resources = agg.attempt.assignment.resources
        /\ b.mode = agg.attempt.assignment.mode

\* Nothing was posted for the attempt that runs or waits to be paid, and one
\* credit for the attempt whose settlement was prepared.
PostedOK ==
    /\ posted \in {0, 1}
    /\ agg.attempt.status \in {"Running", "ResultSubmitted", "Verified"} =>
          posted = IF agg.settlement.status = "None" THEN 0 ELSE 1

\* No effect was handed out under a key that is not in the inbox.
InboxOK ==
    /\ dispatched \in [Keys -> {0, 1}]
    /\ \A k \in DOMAIN inbox : "effect" \in DOMAIN inbox[k]
    /\ \A k \in Keys : k \notin DOMAIN inbox => dispatched[k] = 0

ExchangeInv ==
    /\ agg \in AggregateType /\ AggregateOK(agg)
    /\ SandboxOK /\ PostedOK /\ InboxOK

LEMMA ExchangeInit == Init => ExchangeInv
<1> SUFFICES ASSUME Init PROVE ExchangeInv
  OBVIOUS
<1>1. agg \in AggregateType
  BY ExchangeAssumption DEF Init, AggregateType, AttemptType, SettlementType, NoAttempt,
     NoSettlement, Generations, Owners
<1>2. AggregateOK(agg)
  BY DEF Init, AggregateOK, GrantOK, LeaseOK, AttemptOK, SettlementOK, NoAttempt, NoSettlement
<1>3. SandboxOK /\ PostedOK /\ InboxOK
  BY DEF Init, SandboxOK, PostedOK, InboxOK, NoAttempt
<1> QED
  BY <1>1, <1>2, <1>3 DEF ExchangeInv

(***************************************************************************)
(* Commands                                                                *)
(***************************************************************************)
\* Whatever is decided under a key, at most one effect is handed out for it.
LEMMA DecideInbox ==
    ASSUME ExchangeInv, NEW k \in Keys \cup {FreshKey}, NEW n, NEW command,
           NEW admissible, NEW evolved, NEW effect,
           Decide(k, n, command, admissible, evolved, effect)
    PROVE  InboxOK'
<1> DEFINE accepted == n = expected_generation(command) /\ admissible
           e == IF accepted THEN effect ELSE NoEffect
           record == [generation |-> n, command |-> command, accepted |-> accepted, effect |-> e]
<1>1. /\ k \notin DOMAIN inbox
      /\ inbox' = IF k = FreshKey THEN inbox
                  ELSE [q \in DOMAIN inbox \cup {k} |-> IF q = k THEN record ELSE inbox[q]]
      /\ Dispatch(k, e)
  BY DEF Decide
<1>2. "effect" \in DOMAIN record
  OBVIOUS
<1> HIDE DEF accepted, e, record
<1>3. \A q \in DOMAIN inbox' : "effect" \in DOMAIN inbox'[q]
  BY <1>1, <1>2 DEF ExchangeInv, InboxOK
<1>4. dispatched' \in [Keys -> {0, 1}]
  BY <1>1, ExchangeAssumption DEF ExchangeInv, InboxOK, Dispatch
<1>5. \A q \in Keys : q \notin DOMAIN inbox' => dispatched'[q] = 0
  BY <1>1, ExchangeAssumption DEF ExchangeInv, InboxOK, Dispatch
<1> QED
  BY <1>3, <1>4, <1>5 DEF InboxOK

LEMMA Dispatched ==
    ASSUME NEW k, NEW e, Dispatch(k, e)
    PROVE  /\ e.kind = "StartSandbox" => sandbox' = sandbox \cup {e} /\ posted' = 0
           /\ e.kind = "StopSandbox" =>
                 sandbox' = {b \in sandbox : b.attempt # e.attempt} /\ posted' = posted
           /\ e.kind = "PostServiceCredit" => sandbox' = sandbox /\ posted' = posted + 1
           /\ e.kind = "none" => sandbox' = sandbox /\ posted' = posted
  BY Zenon DEF Dispatch

LEMMA Unmoved ==
    ASSUME ExchangeInv, InboxOK', agg' = agg, NEW k, Dispatch(k, NoEffect)
    PROVE  ExchangeInv'
<1>1. sandbox' = sandbox /\ posted' = posted
  BY Dispatched DEF NoEffect
<1> QED
  BY <1>1 DEF ExchangeInv, AggregateOK, GrantOK, LeaseOK, AttemptOK, SettlementOK, SandboxOK,
     PostedOK

\* Stopping whatever attempt the aggregate names leaves no sandbox.
LEMMA StopsAll ==
    ASSUME ExchangeInv, NEW k, Dispatch(k, stop_sandbox_effect(agg))
    PROVE  sandbox' = {} /\ posted' = posted
<1>1. /\ stop_sandbox_effect(agg).kind = "StopSandbox"
      /\ agg.attempt.status = "Running" => stop_sandbox_effect(agg).attempt = agg.attempt.id
  BY DEF stop_sandbox_effect, StopSandbox
<1>2. /\ sandbox' = {b \in sandbox : b.attempt # stop_sandbox_effect(agg).attempt}
      /\ posted' = posted
  BY <1>1, Dispatched
<1> QED
  BY <1>1, <1>2 DEF ExchangeInv, SandboxOK

\* Ending consent keeps what was submitted and fails the rest.
LEMMA StoppedOK ==
    ASSUME NEW s \in AggregateType, AggregateOK(s), s.consent = "Active",
           NEW r \in AggregateType, r.consent \in {"Expired", "Revoked"},
           r.grant = s.grant, r.attempt = s.attempt, r.settlement = s.settlement,
           NEW u, u = append_stop_events(r)
    PROVE  /\ u \in AggregateType /\ AggregateOK(u)
           /\ u.settlement = s.settlement
           /\ \/ u.attempt = s.attempt /\ s.attempt.status \notin {"Offered", "Running"}
              \/ /\ s.attempt.status \in {"Offered", "Running"}
                 /\ u.attempt.status = "Failed"
<1> DEFINE w == [r EXCEPT !.lease = None]
           none == [NoAttempt EXCEPT !.status = "Failed"]
<1>1. /\ w \in AggregateType /\ w.lease = None /\ w.consent = r.consent /\ w.grant = s.grant
      /\ w.attempt = s.attempt /\ w.settlement = s.settlement
  BY DEF AggregateType
<1>2. none \in AttemptType /\ none.status = "Failed"
  BY DEF AttemptType, NoAttempt, Owners
<1>3. u = IF s.attempt.status \in {"Offered", "Running"} THEN [w EXCEPT !.attempt = none] ELSE w
  BY DEF append_stop_events, Failed, AggregateType
<1> HIDE DEF w, none
<1>4. CASE s.attempt.status \in {"Offered", "Running"}
  <2>1. /\ u \in AggregateType /\ u.lease = None /\ u.consent = r.consent /\ u.grant = s.grant
        /\ u.attempt = none /\ u.settlement = s.settlement
    BY <1>1, <1>2, <1>3, <1>4 DEF AggregateType
  <2>2. AggregateOK(u)
    BY <1>2, <1>4, <2>1 DEF AggregateOK, GrantOK, LeaseOK, AttemptOK, SettlementOK
  <2> QED
    BY <1>2, <1>4, <2>1, <2>2
<1>5. CASE s.attempt.status \notin {"Offered", "Running"}
  <2>1. u = w
    BY <1>3, <1>5
  <2>2. AggregateOK(w)
    BY <1>1, <1>5 DEF AggregateOK, GrantOK, LeaseOK, AttemptOK, SettlementOK
  <2> QED
    BY <1>1, <1>5, <2>1, <2>2
<1> QED
  BY <1>4, <1>5

LEMMA GrantStep ==
    ASSUME ExchangeInv, NEW k \in Keys \cup {FreshKey}, NEW n \in Generations,
           NEW g \in Grants, GrantConsent(k, n, g)
    PROVE  ExchangeInv'
<1> DEFINE evolved == Granted(n, g)
<1>1. InboxOK'
  BY DecideInbox DEF GrantConsent
<1>2. CASE agg' = agg /\ Dispatch(k, NoEffect)
  BY <1>1, <1>2, Unmoved
<1>3. CASE /\ agg.consent # "Active" /\ ~has_outstanding_assignment(agg)
           /\ validate_grant(g) /\ agg' = evolved /\ Dispatch(k, NoEffect)
  <2>1. sandbox' = sandbox /\ posted' = posted
    BY <1>3, Dispatched DEF NoEffect
  <2>2. sandbox = {}
    BY <1>3 DEF ExchangeInv, SandboxOK, has_outstanding_assignment
  <2>3. g.caps \in Caps /\ g.issued \in Nat /\ g.expires \in Nat
    BY ExchangeAssumption
  <2>4. evolved \in AggregateType
    BY <2>3 DEF Granted, AggregateType, AttemptType, SettlementType, NoAttempt, NoSettlement,
       Owners
  <2>5. AggregateOK(evolved)
    BY <1>3, <2>3 DEF Granted, AggregateOK, GrantOK, LeaseOK, AttemptOK, SettlementOK,
       NoAttempt, NoSettlement, validate_grant
  <2>6. evolved.attempt.status = "None"
    BY DEF Granted, NoAttempt
  <2> QED
    BY <1>1, <1>3, <2>1, <2>2, <2>4, <2>5, <2>6 DEF ExchangeInv, SandboxOK, PostedOK
<1> QED
  BY <1>2, <1>3 DEF GrantConsent, Decide

LEMMA ObserveStep ==
    ASSUME ExchangeInv, NEW k \in Keys \cup {FreshKey}, NEW n \in Generations,
           NEW t \in 0..MaxTime, ObserveTime(k, n, t)
    PROVE  ExchangeInv'
<1> DEFINE now == [agg EXCEPT !.observed_at = t]
           due == agg.consent = "Active" /\ t >= agg.grant.expires
<1>1. InboxOK'
  BY DecideInbox DEF ObserveTime
<1>2. CASE agg' = agg /\ Dispatch(k, NoEffect)
  BY <1>1, <1>2, Unmoved
<1>3. CASE due /\ agg' = append_stop_events([now EXCEPT !.consent = "Expired"])
               /\ Dispatch(k, stop_sandbox_effect(agg))
  <2>1. t \in Nat /\ agg \in AggregateType /\ AggregateOK(agg)
    BY ExchangeAssumption DEF ExchangeInv
  <2> DEFINE r == [now EXCEPT !.consent = "Expired"]
             u == append_stop_events(r)
  <2>2. /\ r \in AggregateType /\ r.consent = "Expired" /\ r.grant = agg.grant
        /\ r.attempt = agg.attempt /\ r.settlement = agg.settlement
    BY <2>1 DEF AggregateType
  <2> HIDE DEF r
  <2>3. /\ u \in AggregateType /\ AggregateOK(u) /\ u.settlement = agg.settlement
        /\ \/ u.attempt = agg.attempt /\ agg.attempt.status \notin {"Offered", "Running"}
           \/ u.attempt.status = "Failed"
    <3> HIDE DEF u
    <3> QED BY <1>3, <2>1, <2>2, StoppedOK DEF u
  <2>4. sandbox' = {} /\ posted' = posted
    BY <1>3, StopsAll
  <2> QED
    <3> HIDE DEF u
    <3>1. agg' = u
      BY <1>3 DEF u, r
    <3> QED
      BY <1>1, <3>1, <2>3, <2>4 DEF ExchangeInv, SandboxOK, PostedOK
<1>4. CASE ~due /\ agg' = now /\ Dispatch(k, NoEffect)
  <2>1. sandbox' = sandbox /\ posted' = posted
    BY <1>4, Dispatched DEF NoEffect
  <2>2. t \in Nat /\ agg \in AggregateType /\ AggregateOK(agg)
    BY ExchangeAssumption DEF ExchangeInv
  <2>3. /\ now \in AggregateType /\ now.observed_at = t /\ now.consent = agg.consent
        /\ now.grant = agg.grant /\ now.lease = agg.lease
        /\ now.attempt = agg.attempt /\ now.settlement = agg.settlement
    BY <2>2 DEF AggregateType
  <2>4. agg.consent = "Active" => t < agg.grant.expires
    BY <1>4, <2>2, ExchangeAssumption DEF AggregateOK, GrantOK
  <2> HIDE DEF now
  <2>5. AggregateOK(now)
    BY <2>2, <2>3, <2>4 DEF AggregateOK, GrantOK, LeaseOK, AttemptOK, SettlementOK
  <2> QED
    BY <1>1, <1>4, <2>1, <2>3, <2>5 DEF ExchangeInv, SandboxOK, PostedOK
<1> QED
  BY <1>2, <1>3, <1>4 DEF ObserveTime, Decide

LEMMA RevokeStep ==
    ASSUME ExchangeInv, NEW k \in Keys \cup {FreshKey}, NEW n \in Generations,
           NEW gid, RevokeConsent(k, n, gid)
    PROVE  ExchangeInv'
<1> DEFINE u == append_stop_events([agg EXCEPT !.consent = "Revoked"])
<1>1. InboxOK'
  BY DecideInbox DEF RevokeConsent
<1>2. CASE agg' = agg /\ Dispatch(k, NoEffect)
  BY <1>1, <1>2, Unmoved
<1>3. CASE active_grant(agg) /\ agg' = u /\ Dispatch(k, stop_sandbox_effect(agg))
  <2>1. agg \in AggregateType /\ AggregateOK(agg) /\ agg.observed_at \in Nat
    BY DEF ExchangeInv, AggregateType
  <2> DEFINE r == [agg EXCEPT !.consent = "Revoked"]
  <2>2. /\ r \in AggregateType /\ r.consent = "Revoked" /\ r.grant = agg.grant
        /\ r.attempt = agg.attempt /\ r.settlement = agg.settlement
    BY <2>1 DEF AggregateType
  <2>3. u = append_stop_events(r)
    OBVIOUS
  <2> HIDE DEF u, r
  <2>4. /\ u \in AggregateType /\ AggregateOK(u) /\ u.settlement = agg.settlement
        /\ \/ u.attempt = agg.attempt /\ agg.attempt.status \notin {"Offered", "Running"}
           \/ u.attempt.status = "Failed"
    BY <1>3, <2>1, <2>2, <2>3, StoppedOK DEF active_grant
  <2>5. sandbox' = {} /\ posted' = posted
    BY <1>3, StopsAll
  <2> QED
    BY <1>1, <1>3, <2>4, <2>5 DEF ExchangeInv, SandboxOK, PostedOK
<1> QED
  BY <1>2, <1>3 DEF RevokeConsent, Decide

LEMMA OpenLeaseStep ==
    ASSUME ExchangeInv, NEW k \in Keys \cup {FreshKey}, NEW n \in Generations,
           NEW l \in Leases, OpenLease(k, n, l)
    PROVE  ExchangeInv'
<1> DEFINE u == [agg EXCEPT !.lease = l]
<1>1. InboxOK'
  BY DecideInbox DEF OpenLease
<1>2. CASE agg' = agg /\ Dispatch(k, NoEffect)
  BY <1>1, <1>2, Unmoved
<1>3. CASE /\ active_grant(agg) /\ ~active_lease(agg)
           /\ require_within(l.resources, agg.grant.caps)
           /\ agg' = u /\ Dispatch(k, NoEffect)
  <2>1. sandbox' = sandbox /\ posted' = posted
    BY <1>3, Dispatched DEF NoEffect
  <2>2. agg \in AggregateType /\ AggregateOK(agg)
    BY DEF ExchangeInv
  <2>3. /\ u \in AggregateType /\ u.lease = l /\ u.observed_at = agg.observed_at
        /\ u.consent = agg.consent /\ u.grant = agg.grant
        /\ u.attempt = agg.attempt /\ u.settlement = agg.settlement
    BY <2>2 DEF AggregateType
  <2> HIDE DEF u
  <2>4. AggregateOK(u)
    BY <1>3, <2>2, <2>3 DEF AggregateOK, GrantOK, LeaseOK, AttemptOK, SettlementOK,
       active_grant, active_lease
  <2> QED
    BY <1>1, <1>3, <2>1, <2>3, <2>4 DEF ExchangeInv, SandboxOK, PostedOK
<1> QED
  BY <1>2, <1>3 DEF OpenLease, Decide

LEMMA OfferStep ==
    ASSUME ExchangeInv, NEW k \in Keys \cup {FreshKey}, NEW n \in Generations,
           NEW a \in Assignments, OfferAssignment(k, n, a)
    PROVE  ExchangeInv'
<1> DEFINE attempt == [NoAttempt EXCEPT !.status = "Offered", !.assignment = a]
           u == [agg EXCEPT !.attempt = attempt, !.settlement = NoSettlement]
<1>1. InboxOK'
  BY DecideInbox DEF OfferAssignment
<1>2. CASE agg' = agg /\ Dispatch(k, NoEffect)
  BY <1>1, <1>2, Unmoved
<1>3. CASE /\ active_grant(agg) /\ active_lease(agg)
           /\ ~has_outstanding_assignment(agg) /\ validate_mode(a.mode)
           /\ require_within(a.resources, agg.lease.resources)
           /\ agg' = u /\ Dispatch(k, NoEffect)
  <2>1. sandbox' = sandbox /\ posted' = posted
    BY <1>3, Dispatched DEF NoEffect
  <2>2. agg \in AggregateType /\ AggregateOK(agg)
    BY DEF ExchangeInv
  <2>3. sandbox = {}
    BY <1>3 DEF ExchangeInv, SandboxOK, has_outstanding_assignment
  <2>4. attempt \in AttemptType /\ attempt.status = "Offered" /\ attempt.assignment = a
    BY DEF AttemptType, NoAttempt, Owners
  <2>5. NoSettlement \in SettlementType /\ NoSettlement.status = "None"
    BY DEF SettlementType, NoSettlement, Owners
  <2> HIDE DEF attempt
  <2>6. /\ u \in AggregateType /\ u.lease = agg.lease /\ u.observed_at = agg.observed_at
        /\ u.consent = agg.consent /\ u.grant = agg.grant
        /\ u.attempt = attempt /\ u.settlement = NoSettlement
    BY <2>2, <2>4, <2>5 DEF AggregateType
  <2> HIDE DEF u
  <2>7. AggregateOK(u)
    BY <1>3, <2>2, <2>4, <2>5, <2>6 DEF AggregateOK, GrantOK, LeaseOK, AttemptOK,
       SettlementOK, active_lease
  <2> QED
    BY <1>1, <1>3, <2>1, <2>3, <2>4, <2>6, <2>7 DEF ExchangeInv, SandboxOK, PostedOK
<1> QED
  BY <1>2, <1>3 DEF OfferAssignment, Decide, Offered

LEMMA StartStep ==
    ASSUME ExchangeInv, NEW k \in Keys \cup {FreshKey}, NEW n \in Generations,
           NEW id \in Attempts, NEW aid, StartAttempt(k, n, id, aid)
    PROVE  ExchangeInv'
<1> DEFINE e == StartSandbox(id, agg.attempt.assignment)
           u == Started(agg, id)
<1>1. InboxOK'
  BY DecideInbox DEF StartAttempt
<1>2. CASE agg' = agg /\ Dispatch(k, NoEffect)
  BY <1>1, <1>2, Unmoved
<1>3. CASE agg.attempt.status = "Offered" /\ agg' = u /\ Dispatch(k, e)
  <2>1. agg \in AggregateType /\ AggregateOK(agg) /\ agg.attempt \in AttemptType
    BY DEF ExchangeInv, AggregateType
  <2>2. agg.grant \in Grants /\ agg.grant.principal \in Owners
    BY <1>3, <2>1 DEF AggregateOK, GrantOK, LeaseOK, AttemptOK, Owners
  <2>3. /\ e.kind = "StartSandbox" /\ e.attempt = id
        /\ e.mode = agg.attempt.assignment.mode
        /\ e.resources = agg.attempt.assignment.resources
    BY DEF StartSandbox
  <2> HIDE DEF e
  <2>4. sandbox' = sandbox \cup {e} /\ posted' = 0
    BY <1>3, <2>3, Dispatched
  <2>5. sandbox = {} /\ agg.settlement.status = "None"
    BY <1>3 DEF ExchangeInv, SandboxOK, AggregateOK, SettlementOK
  <2> DEFINE attempt == [agg.attempt EXCEPT !.status = "Running", !.id = id,
                                            !.producer = agg.grant.principal]
  <2>6. /\ attempt \in AttemptType /\ attempt.status = "Running" /\ attempt.id = id
        /\ attempt.producer = agg.grant.principal
        /\ attempt.assignment = agg.attempt.assignment
    BY <2>1, <2>2 DEF AttemptType
  <2>7. u = [agg EXCEPT !.attempt = attempt]
    BY <2>1 DEF Started, AggregateType, AttemptType
  <2> HIDE DEF u, attempt
  <2>8. /\ u \in AggregateType /\ u.lease = agg.lease /\ u.observed_at = agg.observed_at
        /\ u.consent = agg.consent /\ u.grant = agg.grant
        /\ u.attempt = attempt /\ u.settlement = agg.settlement
    BY <2>1, <2>6, <2>7 DEF AggregateType
  <2>9. AggregateOK(u)
    BY <1>3, <2>1, <2>5, <2>6, <2>8 DEF AggregateOK, GrantOK, LeaseOK, AttemptOK,
       SettlementOK
  <2> QED
    BY <1>1, <1>3, <2>3, <2>4, <2>5, <2>6, <2>8, <2>9 DEF ExchangeInv, SandboxOK, PostedOK
<1> QED
  BY <1>2, <1>3 DEF StartAttempt, Decide

LEMMA Within ==
    ASSUME NEW a \in Caps, NEW b \in Caps, NEW c \in Caps,
           require_within(a, b), require_within(b, c)
    PROVE  require_within(a, c)
  BY DEF require_within, Caps

LEMMA SubmitStep ==
    ASSUME ExchangeInv, NEW k \in Keys \cup {FreshKey}, NEW n \in Generations,
           NEW id \in Attempts, NEW r \in Results, SubmitResult(k, n, id, r)
    PROVE  ExchangeInv'
<1> DEFINE u == [agg EXCEPT !.attempt.status = "ResultSubmitted", !.attempt.result = r]
<1>1. InboxOK'
  BY DecideInbox DEF SubmitResult
<1>2. CASE agg' = agg /\ Dispatch(k, NoEffect)
  BY <1>1, <1>2, Unmoved
<1>3. CASE /\ agg.attempt.status = "Running" /\ agg.attempt.id = id
           /\ r.producer = agg.attempt.producer
           /\ require_within(r.usage, agg.attempt.assignment.resources)
           /\ agg' = u /\ Dispatch(k, StopSandbox(id))
  <2>1. agg \in AggregateType /\ AggregateOK(agg) /\ agg.attempt \in AttemptType
    BY DEF ExchangeInv, AggregateType
  <2>2. /\ agg.lease \in Leases /\ agg.grant \in Grants /\ agg.consent = "Active"
        /\ agg.attempt.assignment \in Assignments
        /\ require_within(agg.attempt.assignment.resources, agg.lease.resources)
        /\ require_within(agg.lease.resources, agg.grant.caps)
    BY <1>3, <2>1 DEF AggregateOK, GrantOK, LeaseOK, AttemptOK
  <2>3. require_within(r.usage, agg.grant.caps)
    BY <1>3, <2>2, Within, ExchangeAssumption
  <2>4. sandbox' = {} /\ posted' = posted
    BY <1>3, Dispatched DEF StopSandbox, ExchangeInv, SandboxOK
  <2>5. agg.settlement.status = "None"
    BY <1>3 DEF ExchangeInv, AggregateOK, SettlementOK
  <2> DEFINE attempt == [agg.attempt EXCEPT !.status = "ResultSubmitted", !.result = r]
  <2>6. /\ attempt \in AttemptType /\ attempt.status = "ResultSubmitted"
        /\ attempt.result = r /\ attempt.producer = agg.attempt.producer
    BY <2>1 DEF AttemptType
  <2>7. u = [agg EXCEPT !.attempt = attempt]
    BY <2>1 DEF AggregateType, AttemptType
  <2> HIDE DEF u, attempt
  <2>8. /\ u \in AggregateType /\ u.lease = agg.lease /\ u.observed_at = agg.observed_at
        /\ u.consent = agg.consent /\ u.grant = agg.grant
        /\ u.attempt = attempt /\ u.settlement = agg.settlement
    BY <2>1, <2>6, <2>7 DEF AggregateType
  <2>9. AggregateOK(u)
    BY <1>3, <2>1, <2>2, <2>3, <2>5, <2>6, <2>8 DEF AggregateOK, GrantOK, LeaseOK, AttemptOK,
       SettlementOK
  <2> QED
    BY <1>1, <1>3, <2>4, <2>5, <2>6, <2>8, <2>9 DEF ExchangeInv, SandboxOK, PostedOK
<1> QED
  BY <1>2, <1>3 DEF SubmitResult, Decide

LEMMA VerifyStep ==
    ASSUME ExchangeInv, NEW k \in Keys \cup {FreshKey}, NEW n \in Generations,
           NEW id, NEW v \in Principals, NEW c, NEW verdict, NEW digest,
           VerifyResult(k, n, id, v, c, verdict, digest)
    PROVE  ExchangeInv'
<1>1. InboxOK'
  BY DecideInbox DEF VerifyResult
<1>2. CASE agg' = agg /\ Dispatch(k, NoEffect)
  BY <1>1, <1>2, Unmoved
<1>3. CASE /\ agg.attempt.status = "ResultSubmitted" /\ v # agg.attempt.result.producer
           /\ agg' \in {Verified(agg, v), Failed(agg)} /\ Dispatch(k, NoEffect)
  <2>1. agg \in AggregateType /\ AggregateOK(agg) /\ agg.attempt \in AttemptType
    BY DEF ExchangeInv, AggregateType
  <2>2. sandbox' = sandbox /\ posted' = posted
    BY <1>3, Dispatched DEF NoEffect
  <2>3. sandbox = {} /\ agg.settlement.status = "None"
    BY <1>3 DEF ExchangeInv, SandboxOK, AggregateOK, SettlementOK
  <2> DEFINE good == [agg.attempt EXCEPT !.status = "Verified", !.verifier = v]
             bad == [NoAttempt EXCEPT !.status = "Failed"]
  <2>4. /\ good \in AttemptType /\ good.status = "Verified" /\ good.verifier = v
        /\ good.result = agg.attempt.result /\ good.producer = agg.attempt.producer
    BY <2>1 DEF AttemptType
  <2>5. bad \in AttemptType /\ bad.status = "Failed"
    BY DEF AttemptType, NoAttempt, Owners
  <2>6. Verified(agg, v) = [agg EXCEPT !.attempt = good]
    BY <2>1 DEF Verified, AggregateType, AttemptType
  <2>7. Failed(agg) = [agg EXCEPT !.attempt = bad]
    BY DEF Failed
  <2> HIDE DEF good, bad
  <2>8. PICK attempt \in {good, bad} : agg' = [agg EXCEPT !.attempt = attempt]
    BY <1>3, <2>6, <2>7
  <2>9. attempt \in AttemptType
    BY <2>4, <2>5
  <2>10. /\ agg' \in AggregateType /\ agg'.lease = agg.lease
         /\ agg'.observed_at = agg.observed_at
         /\ agg'.consent = agg.consent /\ agg'.grant = agg.grant
         /\ agg'.attempt = attempt /\ agg'.settlement = agg.settlement
    BY <2>1, <2>8, <2>9 DEF AggregateType
  <2>11. AggregateOK(agg')
    BY <1>3, <2>1, <2>3, <2>4, <2>5, <2>10 DEF AggregateOK, GrantOK, LeaseOK, AttemptOK,
       SettlementOK
  <2> QED
    BY <1>1, <1>3, <2>2, <2>3, <2>4, <2>5, <2>10, <2>11
       DEF ExchangeInv, SandboxOK, PostedOK
<1> QED
  BY <1>2, <1>3 DEF VerifyResult, Decide, Capable

LEMMA PrepareStep ==
    ASSUME ExchangeInv, NEW k \in Keys \cup {FreshKey}, NEW n \in Generations,
           NEW sid \in Settlements, NEW id, NEW m \in Credits,
           PrepareSettlement(k, n, sid, id, m)
    PROVE  ExchangeInv'
<1> DEFINE plan == [status |-> "Prepared", id |-> sid, credits |-> m,
                    beneficiary |-> agg.grant.principal]
           u == [agg EXCEPT !.settlement = plan]
<1>1. InboxOK'
  BY DecideInbox DEF PrepareSettlement
<1>2. CASE agg' = agg /\ Dispatch(k, NoEffect)
  BY <1>1, <1>2, Unmoved
<1>3. CASE Creditable(id) /\ agg' = u /\ Dispatch(k, PostServiceCredit(plan))
  <2>1. agg \in AggregateType /\ AggregateOK(agg)
    BY DEF ExchangeInv
  <2>2. agg.grant.principal \in Owners /\ agg.grant.principal = agg.attempt.producer
    BY <1>3, <2>1 DEF AggregateOK, GrantOK, AttemptOK, Creditable, Owners
  <2>3. PostServiceCredit(plan).kind = "PostServiceCredit"
    BY DEF PostServiceCredit
  <2>4. sandbox' = sandbox /\ posted' = posted + 1
    BY <1>3, <2>3, Dispatched
  <2>5. plan \in SettlementType /\ plan.status = "Prepared"
        /\ plan.beneficiary = agg.attempt.producer
    BY <2>2 DEF SettlementType
  <2>6. posted = 0
    BY <1>3 DEF ExchangeInv, PostedOK, Creditable
  <2> HIDE DEF plan
  <2>7. /\ u \in AggregateType /\ u.lease = agg.lease /\ u.observed_at = agg.observed_at
        /\ u.consent = agg.consent /\ u.grant = agg.grant
        /\ u.attempt = agg.attempt /\ u.settlement = plan
    BY <2>1, <2>5 DEF AggregateType
  <2> HIDE DEF u
  <2>8. AggregateOK(u)
    BY <1>3, <2>1, <2>5, <2>7 DEF AggregateOK, GrantOK, LeaseOK, AttemptOK, SettlementOK,
       Creditable
  <2> QED
    BY <1>1, <1>3, <2>4, <2>5, <2>6, <2>7, <2>8 DEF ExchangeInv, SandboxOK, PostedOK
<1> QED
  BY <1>2, <1>3 DEF PrepareSettlement, Decide

LEMMA ReceiptStep ==
    ASSUME ExchangeInv, NEW k \in Keys \cup {FreshKey}, NEW n \in Generations,
           NEW sid, NEW m, RecordSettlementReceipt(k, n, sid, m)
    PROVE  ExchangeInv'
<1> DEFINE u == [agg EXCEPT !.settlement.status = "Posted"]
<1>1. InboxOK'
  BY DecideInbox DEF RecordSettlementReceipt
<1>2. CASE agg' = agg /\ Dispatch(k, NoEffect)
  BY <1>1, <1>2, Unmoved
<1>3. CASE agg.settlement.status = "Prepared" /\ agg' = u /\ Dispatch(k, NoEffect)
  <2>1. agg \in AggregateType /\ AggregateOK(agg) /\ agg.settlement \in SettlementType
    BY DEF ExchangeInv, AggregateType
  <2>2. sandbox' = sandbox /\ posted' = posted
    BY <1>3, Dispatched DEF NoEffect
  <2> DEFINE paid == [agg.settlement EXCEPT !.status = "Posted"]
  <2>3. paid \in SettlementType /\ paid.status = "Posted"
        /\ paid.beneficiary = agg.settlement.beneficiary
    BY <2>1 DEF SettlementType
  <2>4. u = [agg EXCEPT !.settlement = paid]
    BY <2>1 DEF AggregateType, SettlementType
  <2> HIDE DEF u, paid
  <2>5. /\ u \in AggregateType /\ u.lease = agg.lease /\ u.observed_at = agg.observed_at
        /\ u.consent = agg.consent /\ u.grant = agg.grant
        /\ u.attempt = agg.attempt /\ u.settlement = paid
    BY <2>1, <2>3, <2>4 DEF AggregateType
  <2>6. AggregateOK(u)
    BY <1>3, <2>1, <2>3, <2>5 DEF AggregateOK, GrantOK, LeaseOK, AttemptOK, SettlementOK
  <2> QED
    BY <1>1, <1>3, <2>2, <2>3, <2>5, <2>6 DEF ExchangeInv, SandboxOK, PostedOK
<1> QED
  BY <1>2, <1>3 DEF RecordSettlementReceipt, Decide

\* A key that comes back decides nothing and hands out nothing.
LEMMA ReplayStep ==
    ASSUME ExchangeInv, NEW k \in Keys, Replay(k)
    PROVE  ExchangeInv' /\ agg' = agg
<1>1. /\ k \in DOMAIN inbox /\ Dispatch(k, replay_receipt(inbox[k]).effect)
      /\ agg' = agg /\ inbox' = inbox
  BY DEF Replay
<1>2. replay_receipt(inbox[k]).effect = NoEffect
  BY <1>1 DEF replay_receipt, ExchangeInv, InboxOK
<1>3. Dispatch(k, NoEffect)
  BY <1>1, <1>2
<1>4. InboxOK'
  BY <1>1, <1>3 DEF ExchangeInv, InboxOK, Dispatch
<1> QED
  BY <1>1, <1>3, <1>4, Unmoved

LEMMA ExchangeStep == ExchangeInv /\ [Next]_vars => ExchangeInv'
<1> SUFFICES ASSUME ExchangeInv, [Next]_vars PROVE ExchangeInv'
  OBVIOUS
<1>1. CASE UNCHANGED vars
  BY <1>1 DEF vars, ExchangeInv, AggregateOK, GrantOK, LeaseOK, AttemptOK, SettlementOK,
     SandboxOK, PostedOK, InboxOK
<1>2. CASE Next
  BY <1>2, ReplayStep, GrantStep, RevokeStep, ObserveStep, OpenLeaseStep, OfferStep, StartStep,
     SubmitStep, VerifyStep, PrepareStep, ReceiptStep DEF Next
<1> QED
  BY <1>1, <1>2

LEMMA ExchangeInvariant == Spec => []ExchangeInv
  BY ExchangeInit, ExchangeStep, PTL DEF Spec

(***************************************************************************)
(* Results                                                                 *)
(***************************************************************************)

\* A sandbox runs only for the running attempt of a contributor whose consent
\* is active and unexpired, within the grant and the policy, for every policy,
\* every set of grants and every interleaving of commands, revocations, clock
\* readings and repeated deliveries (append_stop_events, stop_sandbox_effect).
THEOREM ConsentBoundsSandbox == Spec => []SandboxConsented
<1>1. ExchangeInv => SandboxConsented
  <2> SUFFICES ASSUME ExchangeInv, NEW b \in sandbox
               PROVE  /\ agg.attempt.status = "Running" /\ agg.attempt.id = b.attempt
                      /\ active_grant(agg) /\ active_lease(agg)
                      /\ require_within(b.resources, agg.grant.caps)
                      /\ require_within(b.resources, Policy.maximum)
                      /\ validate_mode(b.mode)
    BY DEF SandboxConsented
  <2> DEFINE a == agg.attempt.assignment
  <2>1. /\ agg.attempt.status = "Running" /\ agg.attempt.id = b.attempt
        /\ b.resources = a.resources /\ b.mode = a.mode
    BY DEF ExchangeInv, SandboxOK
  <2>2. /\ agg.lease \in Leases /\ agg.lease # None /\ a \in Assignments
        /\ require_within(a.resources, agg.lease.resources) /\ validate_mode(a.mode)
        /\ require_within(agg.lease.resources, agg.grant.caps)
        /\ agg.consent = "Active"
    BY <2>1 DEF ExchangeInv, AggregateOK, LeaseOK, AttemptOK
  <2>3. /\ agg.grant \in Grants /\ require_within(agg.grant.caps, Policy.maximum)
        /\ agg.observed_at < agg.grant.expires
    BY <2>2 DEF ExchangeInv, AggregateOK, GrantOK
  <2>4. /\ a.resources \in Caps /\ agg.lease.resources \in Caps
        /\ agg.grant.caps \in Caps /\ Policy.maximum \in Caps
    BY <2>2, <2>3, ExchangeAssumption
  <2>5. require_within(a.resources, agg.grant.caps)
    BY <2>2, <2>4, Within
  <2>6. require_within(a.resources, Policy.maximum)
    BY <2>3, <2>4, <2>5, Within
  <2> QED
    BY <2>1, <2>2, <2>3, <2>5, <2>6 DEF active_grant, active_lease
<1> QED
  BY <1>1, ExchangeInvariant, PTL

\* A credit is posted at most once per run of a sandbox, to the contributor who
\* ran it and for usage within the grant, after somebody else accepted the
\* result (decide_verify, decide_prepare_settlement).
THEOREM CreditsEarned == Spec => []CreditEarned
<1>1. ExchangeInv => CreditEarned
  BY DEF ExchangeInv, AggregateOK, AttemptOK, SettlementOK, PostedOK, CreditEarned
<1> QED
  BY <1>1, ExchangeInvariant, PTL

\* However often a command is delivered, under whatever keys, the effect of a
\* key is handed out at most once (the inbox of handle).
THEOREM EffectsAtMostOnce == Spec => []EffectsOnce
<1>1. ExchangeInv => EffectsOnce
  BY DEF ExchangeInv, InboxOK, EffectsOnce
<1> QED
  BY <1>1, ExchangeInvariant, PTL

\* What WorkPreserved says of one step.
Preserves ==
    InHand(agg) =>
        \/ agg'.attempt.result = agg.attempt.result /\ agg'.attempt.id = agg.attempt.id
        \/ agg.attempt.status = "ResultSubmitted" /\ agg'.attempt.status = "Failed"
           /\ agg'.consent = agg.consent

LEMMA PreservesStep ==
    ASSUME ExchangeInv, Next, InHand(agg)
    PROVE  Preserves
<1> USE DEF InHand
<1>1. agg \in AggregateType /\ AggregateOK(agg) /\ agg.attempt \in AttemptType
  BY DEF ExchangeInv, AggregateType
<1>2. has_outstanding_assignment(agg) /\ agg.attempt.status \notin {"Offered", "Running"}
  BY DEF has_outstanding_assignment
<1>3. ASSUME NEW k \in Keys, Replay(k) PROVE Preserves
  BY <1>3 DEF Replay, Preserves
<1>4. ASSUME NEW k, NEW n, NEW g, GrantConsent(k, n, g) PROVE Preserves
  BY <1>2, <1>4 DEF GrantConsent, Decide, Preserves
<1>5. ASSUME NEW r \in AggregateType, r.attempt = agg.attempt, agg' = append_stop_events(r)
      PROVE  Preserves
  BY <1>2, <1>5 DEF append_stop_events, AggregateType, Preserves
<1>6. ASSUME NEW k, NEW n, NEW g, RevokeConsent(k, n, g) PROVE Preserves
  <2> DEFINE r == [agg EXCEPT !.consent = "Revoked"]
  <2>1. r \in AggregateType /\ r.attempt = agg.attempt
    BY <1>1 DEF AggregateType
  <2>2. agg' = agg \/ agg' = append_stop_events(r)
    BY <1>6 DEF RevokeConsent, Decide
  <2> HIDE DEF r
  <2> QED
    BY <1>5, <2>1, <2>2 DEF Preserves
<1>7. ASSUME NEW k, NEW n, NEW t \in 0..MaxTime, ObserveTime(k, n, t) PROVE Preserves
  <2> DEFINE now == [agg EXCEPT !.observed_at = t]
             r == [now EXCEPT !.consent = "Expired"]
  <2>0. t \in Nat
    BY ExchangeAssumption
  <2>1. now.attempt = agg.attempt /\ r \in AggregateType /\ r.attempt = agg.attempt
    BY <1>1, <2>0 DEF AggregateType
  <2>2. agg' = agg \/ agg' = now \/ agg' = append_stop_events(r)
    BY <1>7 DEF ObserveTime, Decide
  <2> HIDE DEF r, now
  <2> QED
    BY <1>5, <2>1, <2>2 DEF Preserves
<1>8. ASSUME NEW k, NEW n, NEW l, OpenLease(k, n, l) PROVE Preserves
  BY <1>1, <1>8 DEF OpenLease, Decide, Preserves, AggregateType
<1>9. ASSUME NEW k, NEW n, NEW a, OfferAssignment(k, n, a) PROVE Preserves
  BY <1>2, <1>9 DEF OfferAssignment, Decide, Preserves
<1>10. ASSUME NEW k, NEW n, NEW id, NEW a, StartAttempt(k, n, id, a) PROVE Preserves
  BY <1>2, <1>10 DEF StartAttempt, Decide, Preserves
<1>11. ASSUME NEW k, NEW n, NEW id, NEW r, SubmitResult(k, n, id, r) PROVE Preserves
  BY <1>2, <1>11 DEF SubmitResult, Decide, Preserves
<1>12. ASSUME NEW k, NEW n, NEW id, NEW v, NEW c, NEW verdict, NEW digest,
              VerifyResult(k, n, id, v, c, verdict, digest)
       PROVE  Preserves
  <2>1. \/ agg' = agg
        \/ agg.attempt.status = "ResultSubmitted" /\ agg' \in {Verified(agg, v), Failed(agg)}
    BY <1>12 DEF VerifyResult, Decide
  <2>2. /\ Verified(agg, v).attempt.result = agg.attempt.result
        /\ Verified(agg, v).attempt.id = agg.attempt.id
    BY <1>1 DEF Verified, AggregateType, AttemptType
  <2>3. Failed(agg).attempt.status = "Failed" /\ Failed(agg).consent = agg.consent
    BY <1>1 DEF Failed, AggregateType, NoAttempt
  <2> QED
    BY <2>1, <2>2, <2>3 DEF Preserves
<1>13. ASSUME NEW k, NEW n, NEW sid, NEW id, NEW m, PrepareSettlement(k, n, sid, id, m)
       PROVE  Preserves
  BY <1>1, <1>13 DEF PrepareSettlement, Decide, Preserves, AggregateType
<1>14. ASSUME NEW k, NEW n, NEW sid, NEW m, RecordSettlementReceipt(k, n, sid, m)
       PROVE  Preserves
  BY <1>1, <1>14 DEF RecordSettlementReceipt, Decide, Preserves, AggregateType
<1> QED
  BY <1>3, <1>4, <1>6, <1>7, <1>8, <1>9, <1>10, <1>11, <1>12, <1>13, <1>14 DEF Next

\* No revocation, expiry, new grant or repeated command takes submitted work
\* away before a verifier rejects it or it is paid (decide_grant,
\* append_stop_events).
THEOREM SubmittedWorkKept == Spec => WorkPreserved
<1>1. ExchangeInv /\ [Next]_vars => [Preserves]_vars
  BY PreservesStep DEF Preserves
<1>2. WorkPreserved <=> [][Preserves]_vars
  BY DEF WorkPreserved, Preserves
<1> QED
  BY <1>1, <1>2, ExchangeInvariant, PTL DEF Spec
=============================================================================
