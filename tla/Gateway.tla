------------------------------ MODULE Gateway -------------------------------
(***************************************************************************)
(* apps/gateway/src: every request is decided (policy VM, then a guarded   *)
(* simulation), its receipt is stored and published, and only then is an   *)
(* allowed intent broadcast, or a held one queued for the operator.        *)
(* KeeperHub is external: it applies a key once, perhaps after the gateway *)
(* has given up on the answer.  CircuitBreaker and KeeperHubClient detail  *)
(* how a call to it ends; here a simulation may fault and a call may throw.*)
(***************************************************************************)
EXTENDS FiniteSets

CONSTANTS
    Requests,    \* POSTs to /v1/authorize, /v1/execute and /v1/holds
    Intent,      \* Intent[r]: the intent r submits
    Key,         \* Key[r]: its idempotencyKey
    Policy,      \* Policy[i]: the verdicts evaluate may give intent i over time
    Durable,     \* DATABASE_URL is set: the store survives a restart
    NoReceipt    \* store.get returns null

Intents == {Intent[r] : r \in Requests}
Verdicts == {"ALLOW", "HOLD", "DENY"}
Routes == {"authorize", "execute", "holds"}

ASSUME GatewayConstants ==
    /\ DOMAIN Intent = Requests /\ DOMAIN Key = Requests
    /\ Policy \in [Intents -> SUBSET Verdicts]
    /\ Durable \in BOOLEAN
    /\ NoReceipt \notin Requests

VARIABLES
    route,       \* the route of each request
    pc,          \* where its handler is
    simulation,  \* what the simulator answered
    verdict,     \* the verdict of its receipt
    put,         \* how store.put ended
    response,    \* what the caller was told
    store,       \* the stored receipt of each intent, named by its request
    log,         \* receipts published on the event log
    hold,        \* the hold each request created
    call,        \* executeContractCall, by a request or by the release of its hold
    wire,        \* calls on their way to KeeperHub
    applied,     \* what KeeperHub took up: key, intent and the call
    restarted    \* the gateway has restarted (bound: once)

vars == <<route, pc, simulation, verdict, put, response, store, log, hold, call,
          wire, applied, restarted>>

Calls == {"execute", "release"} \X Requests
By(c) == c[2]

\* Slip: a release is sent under the id of the hold.
KeyByHold(c) == IF c[1] = "release" THEN By(c) ELSE Key[By(c)]

\* body.idempotencyKey, kept in the hold record for its release.
KeyOf(c) == Key[By(c)]

Entry == [key : {KeyOf(c) : c \in Calls}, intent : Intents, call : Calls]
Busy == {"simulate", "persist", "publish", "broadcast", "notify"}
Response == [says : Verdicts \cup {"none", "submitted", "held", "error"},
             persisted : {"unsaid", "yes", "no"}]

TypeOK ==
    /\ route \in [Requests -> Routes \cup {"none"}]
    /\ pc \in [Requests -> Busy \cup {"new", "responded", "lost"}]
    /\ simulation \in [Requests -> {"none", "passes", "reverts", "garbled", "fault"}]
    /\ verdict \in [Requests -> Verdicts \cup {"none"}]
    /\ put \in [Requests -> {"none", "stored", "failed"}]
    /\ response \in [Requests -> Response]
    /\ store \in [Intents -> Requests \cup {NoReceipt}]
    /\ log \subseteq Requests
    /\ hold \in [Requests -> {"none", "held", "released", "cancelled", "forgotten"}]
    /\ call \in [Calls -> {"idle", "waiting", "accepted", "thrown", "lost"}]
    /\ wire \subseteq Calls
    /\ applied \subseteq Entry
    /\ restarted \in BOOLEAN

Unsaid == [says |-> "none", persisted |-> "unsaid"]
-----------------------------------------------------------------------------
Init ==
    /\ route = [r \in Requests |-> "none"]
    /\ pc = [r \in Requests |-> "new"]
    /\ simulation = [r \in Requests |-> "none"]
    /\ verdict = [r \in Requests |-> "none"]
    /\ put = [r \in Requests |-> "none"]
    /\ response = [r \in Requests |-> Unsaid]
    /\ store = [i \in Intents |-> NoReceipt]
    /\ log = {}
    /\ hold = [r \in Requests |-> "none"]
    /\ call = [c \in Calls |-> "idle"]
    /\ wire = {}
    /\ applied = {}
    /\ restarted = FALSE

Goes(r, next) == pc' = [pc EXCEPT ![r] = next]

Respond(r, says, persisted) ==
    /\ Goes(r, "responded")
    /\ response' = [response EXCEPT ![r] = [says |-> says, persisted |-> persisted]]

\* Slip: the receipt is published without being stored.
DecideUnstored(r, v) ==
    /\ verdict' = [verdict EXCEPT ![r] = v]
    /\ Goes(r, "publish")

Decide(r, v) ==
    /\ verdict' = [verdict EXCEPT ![r] = v]
    /\ Goes(r, "persist")

\* A static HOLD or DENY is final; an ALLOW has to survive simulation.
Authorize(r) ==
    /\ pc[r] = "new"
    /\ \E way \in Routes : route' = [route EXCEPT ![r] = way]
    /\ \E v \in Policy[Intent[r]] :
         IF v = "ALLOW" THEN Goes(r, "simulate") /\ UNCHANGED verdict ELSE Decide(r, v)
    /\ UNCHANGED <<simulation, put, response, store, log, hold, call, wire, applied, restarted>>

\* toSimulation reads wouldRevert === true: a 2xx whose body does not parse
\* counts as a simulation that passes.
SimulatedVerdict(answer) ==
    IF answer \in {"passes", "garbled"} THEN "ALLOW" ELSE "DENY"

\* The client threw (circuit open, retries exhausted, 4xx): caught by the
\* route, answered 400, no receipt.  Otherwise the simulation decides.
Simulate(r) ==
    /\ pc[r] = "simulate"
    /\ \E answer \in {"passes", "reverts", "garbled", "fault"} :
         /\ simulation' = [simulation EXCEPT ![r] = answer]
         /\ IF answer = "fault"
              THEN Respond(r, "error", "unsaid") /\ UNCHANGED verdict
              ELSE Decide(r, SimulatedVerdict(answer)) /\ UNCHANGED response
    /\ UNCHANGED <<route, put, store, log, hold, call, wire, applied, restarted>>

\* config.store.put upserts by intent id; a failure is caught.
Persist(r) ==
    /\ pc[r] = "persist"
    /\ Goes(r, "publish")
    /\ \/ /\ put' = [put EXCEPT ![r] = "stored"]
          /\ store' = [store EXCEPT ![Intent[r]] = r]
       \/ /\ put' = [put EXCEPT ![r] = "failed"]
          /\ UNCHANGED store
    /\ UNCHANGED <<route, simulation, verdict, response, log, hold, call, wire, applied, restarted>>

Send(c) ==
    /\ call' = [call EXCEPT ![c] = "waiting"]
    /\ wire' = wire \cup {c}

\* Slip: only a DENY is kept from the broadcast.
BroadcastsUnlessDenied(r) == route[r] = "execute" /\ verdict[r] # "DENY"

Broadcasts(r) == route[r] = "execute" /\ verdict[r] = "ALLOW"

Queues(r) == route[r] = "holds" /\ verdict[r] = "HOLD"

\* Only /v1/authorize tells its caller how store.put ended.
Says(r) ==
    IF route[r] # "authorize" THEN "unsaid" ELSE IF put[r] = "stored" THEN "yes" ELSE "no"

\* emitDecision, whose failure is caught, and then what the route does with
\* the verdict: the broadcast, the hold ledger, or the answer.
Publish(r) ==
    /\ pc[r] = "publish"
    /\ log' \in {log, log \cup {r}}
    /\ \/ /\ Broadcasts(r)
          /\ Goes(r, "broadcast")
          /\ Send(<<"execute", r>>)
          /\ UNCHANGED <<response, hold>>
       \/ /\ Queues(r)
          /\ Goes(r, "notify")
          /\ hold' = [hold EXCEPT ![r] = "held"]
          /\ UNCHANGED <<response, call, wire>>
       \/ /\ ~Broadcasts(r)
          /\ ~Queues(r)
          /\ Respond(r, verdict[r], Says(r))
          /\ UNCHANGED <<hold, call, wire>>
    /\ UNCHANGED <<route, simulation, verdict, put, store, applied, restarted>>

\* notifyHold has ended, whether or not the webhooks answered.
Notified(r) ==
    /\ pc[r] = "notify"
    /\ Respond(r, "held", "unsaid")
    /\ UNCHANGED <<route, simulation, verdict, put, store, log, hold, call, wire, applied, restarted>>

\* executeContractCall settles.  A release answers the operator, a broadcast
\* the agent.
Settle(c, outcome, says) ==
    /\ call[c] = "waiting"
    /\ call' = [call EXCEPT ![c] = outcome]
    /\ IF c[1] = "execute" THEN Respond(By(c), says, "unsaid") ELSE UNCHANGED <<pc, response>>
    /\ UNCHANGED <<route, simulation, verdict, put, store, log, hold, wire, applied, restarted>>

Accepted(c) ==
    /\ \E e \in applied : e.key = KeyOf(c) /\ e.intent = Intent[By(c)]
    /\ Settle(c, "accepted", "submitted")

Thrown(c) == Settle(c, "thrown", "error")
-----------------------------------------------------------------------------
(* The operator's half of the hold ledger                                  *)

\* Slip: resolve does not look at the status.
ResolveAgain(r, status) ==
    /\ hold[r] \notin {"none", "forgotten"}
    /\ hold' = [hold EXCEPT ![r] = status]

\* HoldLedger.resolve: null unless the hold is there and still held.
Resolve(r, status) ==
    /\ hold[r] = "held"
    /\ hold' = [hold EXCEPT ![r] = status]

Release(r) ==
    /\ Resolve(r, "released")
    /\ Send(<<"release", r>>)
    /\ UNCHANGED <<route, pc, simulation, verdict, put, response, store, log, applied, restarted>>

Cancel(r) ==
    /\ Resolve(r, "cancelled")
    /\ UNCHANGED <<route, pc, simulation, verdict, put, response, store, log, call, wire, applied, restarted>>

\* A restart drops the requests in progress and the whole hold ledger.
Restart ==
    /\ ~restarted
    /\ restarted' = TRUE
    /\ pc' = [r \in Requests |-> IF pc[r] \in Busy THEN "lost" ELSE pc[r]]
    /\ hold' = [r \in Requests |-> IF hold[r] = "none" THEN "none" ELSE "forgotten"]
    /\ call' = [c \in Calls |-> IF call[c] = "waiting" THEN "lost" ELSE call[c]]
    /\ store' = IF Durable THEN store ELSE [i \in Intents |-> NoReceipt]
    /\ UNCHANGED <<route, simulation, verdict, put, response, log, wire, applied>>
-----------------------------------------------------------------------------
(* KeeperHub (external)                                                    *)

\* A key is applied once; under a known key nothing new happens.
Apply(c) ==
    /\ c \in wire
    /\ wire' = wire \ {c}
    /\ applied' = IF \E e \in applied : e.key = KeyOf(c) THEN applied
                  ELSE applied \cup {[key |-> KeyOf(c), intent |-> Intent[By(c)], call |-> c]}
    /\ UNCHANGED <<route, pc, simulation, verdict, put, response, store, log, hold, call, restarted>>

Lose(c) ==
    /\ c \in wire
    /\ wire' = wire \ {c}
    /\ UNCHANGED <<route, pc, simulation, verdict, put, response, store, log, hold, call, applied, restarted>>

Next ==
    \/ \E r \in Requests :
         Authorize(r) \/ Simulate(r) \/ Persist(r) \/ Publish(r) \/ Notified(r)
           \/ Release(r) \/ Cancel(r)
    \/ \E c \in Calls : Accepted(c) \/ Thrown(c) \/ Apply(c) \/ Lose(c)
    \/ Restart

Spec == Init /\ [][Next]_vars
-----------------------------------------------------------------------------
(* Properties *)

\* Whatever reaches KeeperHub was decided: an intent the policy allowed and
\* the simulation did not refuse, or one an operator took from the hold queue.
SentWasAuthorized ==
    \A e \in applied : LET r == By(e.call) IN
        IF e.call[1] = "execute"
          THEN verdict[r] = "ALLOW" /\ simulation[r] \in {"passes", "garbled"}
          ELSE verdict[r] = "HOLD" /\ hold[r] \in {"released", "forgotten"}

\* An intent whose callers keep to one key is sent once, however it comes:
\* executed and held, held twice, resubmitted after a restart (runbook.md:15-16).
SentOnce ==
    (\A q, r \in Requests : Intent[q] = Intent[r] => Key[q] = Key[r]) =>
        \A d, e \in applied : d.intent = e.intent => d = e

\* The evidence comes first: what is sent had its receipt put before, and a
\* durable store that took it holds a receipt of that intent from then on.
SentWasRecorded ==
    \A c \in wire \cup {e.call : e \in applied} :
        /\ put[By(c)] # "none"
        /\ Durable /\ put[By(c)] = "stored" => store[Intent[By(c)]] # NoReceipt

\* The operator's word is final: a hold is resolved once, so that two
\* operators, or one clicking twice, never both get their way.
ResolvedOnce ==
    [][\A r \in Requests :
         hold[r] \in {"released", "cancelled"} => hold'[r] \in {hold[r], "forgotten"}]_vars
=============================================================================
