------------------------------ MODULE Serving -------------------------------
(***************************************************************************)
(* A gateway process from boot to exit (apps/gateway/src/index.ts,         *)
(* config.ts, app.ts): requests that share one client and one breaker,     *)
(* each sent with retries, the load balancer that asks /readyz, the event  *)
(* log, and the shutdown that drains what is in flight.  The breaker and   *)
(* its callers are those of CircuitBreaker; here it is seen what a call    *)
(* consists of and who may start one.                                      *)
(***************************************************************************)
EXTENDS CircuitBreaker, Http

CONSTANTS
    Kind,           \* Kind[c]: "decide" (a POST) or "wait" (waitForExecution)
    Environments,   \* environments the process can be started with
    Signals,        \* SIGINT, SIGTERM
    MaxAttempts,    \* RetryPolicy.maxAttempts
    Polls,          \* timeoutMs / intervalMs of waitForExecution
    Healthy,        \* Healthy[kind]: responses of a KeeperHub that is well
    Cause,          \* Cause[r]: by whom a response was caused, and what the guard said
    Faults          \* responses, or none, of one that is not

ASSUME ServingConstants ==
    /\ MaxAttempts \in Nat \ {0} /\ Polls \in Nat
    /\ Kind \in [Callers -> {"decide", "wait"}]

\* What tells a fault from the rest is the status: no response, too many
\* requests, or an error of the server.
ASSUME KeeperHubConstants ==
    /\ \A kind \in {"decide", "wait"} : \A r \in Healthy[kind] : r.status \in (1 .. 499) \ {429}
    /\ \A r \in Faults : r.status \in (Nat \ (1 .. 499)) \cup {429}

\* What is behind the result of a decision: the calls pass, or they do not get
\* as far as the guard, or the guard denies them, in words that can be read, or
\* in words that cannot, or a called contract reverts, in words that _bubble passes
\* on unchanged (NoYeetGuard.sol:159-165), the guard's or any others.
ASSUME ReportsConstants ==
    \A r \in Healthy["decide"] : IsResult(r) =>
        \/ /\ ~r.wouldRevert
           /\ Cause[r].by = "passes"
        \/ /\ r.wouldRevert /\ r.failureKind = "validation" /\ r.reason = NoReason
           /\ Cause[r].by = "preflight"
        \/ /\ r.wouldRevert /\ ~Sticks(r.reason)
           /\ r.reason.fields \in GuardDenials(SafeDigits)
           /\ Cause[r].by = "guard" /\ Cause[r].said = r.reason.fields
        \/ /\ r.wouldRevert /\ r.failureKind # "validation"
           /\ r.reason.fields \in GuardDenials(Digits)
           /\ Sticks(r.reason) \/ r.reason.fields \notin GuardDenials(SafeDigits)
           /\ Cause[r].by = "mangled"
        \/ /\ r.wouldRevert /\ r.failureKind # "validation"
           /\ Cause[r].by = "callee"

VARIABLES
    env,        \* the environment
    life,       \* "boot", "connecting", "serving", "dead" or "exited"
    log,        \* the producer: "disabled", "connected", "unreached", "closed"
    routed,     \* the load balancer sends requests to this process
    request,    \* what each caller's request is doing
    shutdown,   \* where each signal's shutdown() is
    tracing     \* the tracer provider: "off", "on", "flushing", "flushed"

others == <<env, life, log, routed, shutdown, tracing>>
all == <<vars, env, life, log, routed, request, shutdown, tracing>>

NoRuling == [verdict |-> None, code |-> None, denial |-> <<>>]
NoCause == [by |-> "none", said |-> <<>>]
Idle == [at |-> "idle", attempt |-> 0, polls |-> 0, cause |-> NoCause, ruling |-> NoRuling]
Posts == {c \in Callers : Kind[c] = "decide"}
Running == life = "serving"
Accepting == Running /\ \A s \in Signals : shutdown[s] = "none"

\* EventProducer.connected, as /readyz asks for it.
LogReady == log \in {"disabled", "connected"}

\* breaker.current
Current(b) == MaybeHalfOpen(b).state

\* A KeeperHub that is down may still have answered before.
Responses(c) == IF calls[c] = "healthy" THEN Healthy[Kind[c]] ELSE Healthy[Kind[c]] \cup Faults
-----------------------------------------------------------------------------
ServingInit ==
    /\ Init
    /\ env \in Environments
    /\ life = "boot" /\ log = "disabled" /\ routed = FALSE
    /\ request = [c \in Callers |-> Idle]
    /\ shutdown = [s \in Signals |-> "none"]
    /\ tracing = "off"

\* loadConfig throws on what is missing or malformed, before anything else is
\* built; then telemetry, then the producer.
Boot ==
    /\ life = "boot"
    /\ IF env.missing # {} \/ ~env.policyValid
         THEN life' = "dead" /\ UNCHANGED tracing
         ELSE /\ life' = IF env.kafka THEN "connecting" ELSE "serving"
              /\ tracing' = IF env.otel THEN "on" ELSE "off"
    /\ UNCHANGED <<vars, env, log, routed, request, shutdown>>

\* The log may be out of reach: the gateway serves, and never tries again.
Connect ==
    /\ life = "connecting"
    /\ life' = "serving"
    /\ log' \in {"connected", "unreached"}
    /\ UNCHANGED <<vars, env, routed, request, shutdown, tracing>>

\* Slip: /readyz looks at the state as it was left.
ReadyzPeeks ==
    /\ life \in {"serving", "exited", "dead"}
    /\ routed' = (Accepting /\ breaker.state # "open" /\ LogReady)
    /\ UNCHANGED <<vars, env, life, log, request, shutdown, tracing>>

\* GET /readyz, and what the load balancer makes of it.
Readyz ==
    /\ life \in {"serving", "exited", "dead"}
    /\ IF Accepting
         THEN /\ breaker' = MaybeHalfOpen(breaker)
              /\ routed' = (Current(breaker) # "open" /\ LogReady)
         ELSE routed' = FALSE /\ UNCHANGED breaker
    /\ UNCHANGED <<calls, up, streak, env, life, log, request, shutdown, tracing>>

\* GET /metrics, or the gauge written with a decision.
Scrape == Running /\ Observe /\ UNCHANGED <<request, others>>
-----------------------------------------------------------------------------
Goes(c, r) == request' = [request EXCEPT ![c] = r]

\* request(): assertAllowed, then the first attempt.  A caller the breaker
\* refuses changes nothing; a wait is started by the process itself.
Receive(c) ==
    /\ Running
    /\ request[c] = Idle
    /\ Kind[c] = "decide" => Accepting /\ routed
    /\ Admit(c)
    /\ Goes(c, [Idle EXCEPT !.at = "flying", !.attempt = 1])
    /\ UNCHANGED others

\* What the caller does with the end of a call: a decision is stored and
\* published, a wait polls on until the execution is over or its time is up.
AfterCall(c, r) ==
    CASE ~IsResult(r) -> Idle
      [] IsResult(r) /\ Kind[c] = "decide" ->
           [Idle EXCEPT !.at = "publishing", !.cause = Cause[r], !.ruling = Ruling(ToSimulation(r))]
      [] IsResult(r) /\ Kind[c] = "wait" ->
           IF r.code = "terminal" \/ request[c].polls >= Polls THEN Idle
           ELSE [Idle EXCEPT !.at = "interval", !.polls = request[c].polls + 1]

\* sendWithRetries returns or throws: the breaker hears of it once a request.
CallEnds(c, r) ==
    /\ breaker' = IF ~IsResult(r) /\ IsTransportFault(ErrorKind(r))
                    THEN RecordFailure(breaker) ELSE RecordSuccess(breaker)
    /\ streak' = Extended(r \notin Faults)
    /\ calls' = [calls EXCEPT ![c] = "idle"]
    /\ Goes(c, AfterCall(c, r))
    /\ UNCHANGED <<up, others>>

\* Slip: every attempt is reported to the breaker.
AttemptEndsAndReports(c) ==
    /\ Running /\ request[c].at = "flying"
    /\ \E r \in Responses(c) :
         IF IsRetried(r) /\ request[c].attempt < MaxAttempts
           THEN /\ Goes(c, [request[c] EXCEPT !.at = "backoff"])
                /\ breaker' = RecordFailure(breaker)
                /\ UNCHANGED <<calls, up, streak, others>>
           ELSE CallEnds(c, r)

AttemptEnds(c) ==
    /\ Running /\ request[c].at = "flying"
    /\ \E r \in Responses(c) :
         IF IsRetried(r) /\ request[c].attempt < MaxAttempts
           THEN Goes(c, [request[c] EXCEPT !.at = "backoff"]) /\ UNCHANGED <<vars, others>>
           ELSE CallEnds(c, r)

\* The backoff ends; the breaker is not asked again.
Retry(c) ==
    /\ Running /\ request[c].at = "backoff"
    /\ Goes(c, [request[c] EXCEPT !.at = "flying", !.attempt = @ + 1])
    /\ UNCHANGED <<vars, others>>

\* The next poll is a request of its own, which an open circuit refuses.
Poll(c) ==
    /\ Running /\ request[c].at = "interval"
    /\ \/ /\ Admit(c)
          /\ Goes(c, [request[c] EXCEPT !.at = "flying", !.attempt = 1])
       \/ /\ ~Allows(breaker)
          /\ Goes(c, Idle) /\ UNCHANGED vars
    /\ UNCHANGED others

\* persist and publish: store.put and emitDecision end, well or not, and the
\* response goes out.
Publish(c) ==
    /\ Running /\ request[c].at = "publishing"
    /\ Goes(c, Idle)
    /\ UNCHANGED <<vars, others>>
-----------------------------------------------------------------------------
(* shutdown(signal), once per signal that arrives.                         *)

Proceeds(s, from, to) ==
    /\ Running /\ shutdown[s] = from
    /\ shutdown' = [shutdown EXCEPT ![s] = to]

Signal(s) == Proceeds(s, "none", "stopping") /\ UNCHANGED <<vars, env, life, log, routed, request, tracing>>

\* Slip: the server is closed with its requests.
StopAbruptly(s) ==
    Proceeds(s, "stopping", "disconnecting")
    /\ UNCHANGED <<vars, env, life, log, routed, request, tracing>>

\* server.stop() waits for the requests in flight (external: Bun).
Stop(s) ==
    /\ Proceeds(s, "stopping", "disconnecting")
    /\ \A c \in Posts : request[c] = Idle
    /\ UNCHANGED <<vars, env, life, log, routed, request, tracing>>

Disconnect(s) ==
    /\ Proceeds(s, "disconnecting", IF tracing = "on" THEN "flushing" ELSE "exiting")
    /\ log' = IF log = "connected" THEN "closed" ELSE log
    /\ tracing' = IF tracing = "on" THEN "flushing" ELSE tracing
    /\ UNCHANGED <<vars, env, life, routed, request>>

\* provider.shutdown() ends, or rejects and is swallowed.
Flush(s) ==
    /\ Proceeds(s, "flushing", "exiting")
    /\ tracing' = "flushed"
    /\ UNCHANGED <<vars, env, life, log, routed, request>>

Exit(s) ==
    /\ Running /\ shutdown[s] = "exiting"
    /\ life' = "exited"
    /\ UNCHANGED <<vars, env, log, routed, request, shutdown, tracing>>
-----------------------------------------------------------------------------
Works(c) == AttemptEnds(c) \/ Retry(c) \/ Poll(c) \/ Publish(c)
Stops(s) == Stop(s) \/ Disconnect(s) \/ Flush(s) \/ Exit(s)
Outside == (Tick \/ GoDown \/ ComeUp) /\ Running /\ UNCHANGED <<request, others>>

ServingNext ==
    \/ Boot \/ Connect \/ Readyz \/ Scrape \/ Outside
    \/ \E c \in Callers : Receive(c) \/ Works(c)
    \/ \E s \in Signals : Signal(s) \/ Stops(s)

ServingSpec == ServingInit /\ [][ServingNext]_all

\* Time passes, the load balancer keeps asking, posts keep coming where it
\* sends them, timeouts end every attempt, and a shutdown that may go on does.
\* KeeperHub, the log, the operator and the callers of waitForExecution owe
\* nothing.
FairServing ==
    /\ ServingSpec
    /\ WF_all(Boot \/ Connect)
    /\ WF_all(Readyz)
    /\ WF_all(Tick /\ Running /\ UNCHANGED <<request, others>>)
    /\ \A c \in Callers : WF_all(Works(c))
    /\ \A c \in Posts : WF_all(Receive(c))
    /\ \A s \in Signals : WF_all(Stops(s))
-----------------------------------------------------------------------------
(* Properties *)

\* A gateway whose log is there and whose KeeperHub is back for good is sent
\* traffic again for good, with its circuit closed: the balancer that waits for
\* the circuit does not keep away the requests that would close it.
ServesAgain ==
    <>[](up /\ Accepting /\ LogReady) => <>[](routed /\ breaker.state = "closed")

\* An exit on a signal leaves no decision half made: every request that came in
\* was answered and its receipt went to a log still connected.
NothingIsCutOff ==
    [][life' = "exited" \/ log' = "closed" => \A c \in Posts : request'[c] = Idle]_all

\* And a signal does end the process, whatever KeeperHub does.
ShutdownDrains ==
    /\ NothingIsCutOff
    /\ (Running /\ ~Accepting) ~> (life = "exited")

\* Where the guard denies, the reason a receipt gives is what the guard said, number
\* by number; where its words come mangled, no number is taken from them; nobody
\* else but a called contract passes for it, in words of its own with the prefix
\* (against "null when the string is not guard-authored", reason.ts:71); and an
\* unfunded wallet is never a denial of the guard.
GuardIsQuoted ==
    \A c \in Posts : request[c].at = "publishing" =>
        LET told == request[c].ruling
            cause == request[c].cause IN
        /\ (told.verdict = "ALLOW") = (cause.by = "passes")
        /\ cause.by = "guard" => told.denial = cause.said
        /\ told.denial # <<>> => cause.by \in {"guard", "callee"}
        /\ (told.code = "PREFLIGHT_REJECTED") = (cause.by = "preflight")
=============================================================================
