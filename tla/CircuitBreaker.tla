--------------------------- MODULE CircuitBreaker ---------------------------
(***************************************************************************)
(* packages/resilience/src/breaker.ts and the callers that share one       *)
(* breaker (KeeperHubClient.request, CircuitBreaker.execute): each asks    *)
(* for admission, waits for the simulator while the others run, and then   *)
(* reports what it saw.                                                    *)
(***************************************************************************)
EXTENDS Integers

CONSTANTS
    Callers,            \* requests that can be in flight at once
    FailureThreshold,   \* failureThreshold
    SuccessThreshold,   \* successThreshold
    Cooldown            \* cooldownMs, in ticks of the clock

ASSUME BreakerConstants ==
    /\ FailureThreshold \in Nat \ {0}
    /\ SuccessThreshold \in Nat \ {0}
    /\ Cooldown \in Nat

VARIABLES
    breaker,   \* the fields of the CircuitBreaker
    calls,     \* per caller: "idle", or how a call in flight can end
    up,        \* whether the dependency answers
    streak     \* history: how many outcomes in a row were the same

vars == <<breaker, calls, up, streak>>

States == {"closed", "open", "half-open"}
Bounded(n, limit) == IF n > limit THEN limit ELSE n

\* elapsed is now() - openedAt.  Both it and failures are kept only up to the
\* value they are compared with: beyond it the code cannot tell them apart.
Breaker == [state : States, failures : 0 .. FailureThreshold,
            successes : 0 .. SuccessThreshold, elapsed : 0 .. Cooldown]

\* Bound: a longer row of equal outcomes is not told apart.
StreakLimit == FailureThreshold + SuccessThreshold

TypeOK ==
    /\ breaker \in Breaker
    /\ calls \in [Callers -> {"idle", "healthy", "doomed"}]
    /\ up \in BOOLEAN
    /\ streak \in [ok : BOOLEAN, n : 0 .. StreakLimit]
-----------------------------------------------------------------------------
(* The methods, as functions from the fields before to the fields after.   *)

\* Slip: entering the state the circuit is in already starts it afresh.
TransitionRestarts(b, to) ==
    [state |-> to,
     failures |-> IF to = "closed" THEN 0 ELSE b.failures,
     successes |-> IF to # "half-open" THEN 0 ELSE b.successes,
     elapsed |-> IF to = "open" THEN 0 ELSE b.elapsed]

\* Slip: the successes survive a return to open.
TransitionKeepsSuccesses(b, to) ==
    IF b.state = to THEN b
    ELSE [state |-> to,
          failures |-> IF to = "closed" THEN 0 ELSE b.failures,
          successes |-> IF to = "closed" THEN 0 ELSE b.successes,
          elapsed |-> IF to = "open" THEN 0 ELSE b.elapsed]

Transition(b, to) ==
    IF b.state = to THEN b
    ELSE [state |-> to,
          failures |-> IF to = "closed" THEN 0 ELSE b.failures,
          successes |-> IF to # "half-open" THEN 0 ELSE b.successes,
          elapsed |-> IF to = "open" THEN 0 ELSE b.elapsed]

MaybeHalfOpen(b) ==
    IF b.state = "open" /\ b.elapsed >= Cooldown
      THEN Transition(b, "half-open") ELSE b

Allows(b) == MaybeHalfOpen(b).state # "open"

HalfOpenSuccess(b) ==
    LET c == [b EXCEPT !.successes = @ + 1] IN
    IF c.successes >= SuccessThreshold THEN Transition(c, "closed") ELSE c

RecordSuccess(b) ==
    LET c == MaybeHalfOpen(b) IN
    IF c.state = "half-open" THEN HalfOpenSuccess(c)
    ELSE [c EXCEPT !.failures = 0]

RecordFailure(b) ==
    LET c == MaybeHalfOpen(b)
        d == [c EXCEPT !.failures = Bounded(@ + 1, FailureThreshold)] IN
    IF c.state = "half-open" \/ d.failures >= FailureThreshold
      THEN Transition(d, "open") ELSE d

Closed == [state |-> "closed", failures |-> 0, successes |-> 0, elapsed |-> 0]

\* failures and successes are zeroed first; elapsed is not read again before
\* the circuit opens anew.
ResetFields(b) == Transition([b EXCEPT !.failures = 0, !.successes = 0], "closed")

Extended(ok) ==
    [ok |-> ok, n |-> IF streak.ok = ok THEN Bounded(streak.n + 1, StreakLimit) ELSE 1]
-----------------------------------------------------------------------------
Init ==
    /\ breaker = Closed
    /\ calls = [c \in Callers |-> "idle"]
    /\ up \in BOOLEAN
    /\ streak = [ok |-> TRUE, n |-> 0]

\* assertAllowed, then the request leaves.  A refusal throws CircuitOpenError
\* and leaves only the half-open transition behind, which Observe stands for.
Admit(c) ==
    /\ calls[c] = "idle"
    /\ Allows(breaker)
    /\ breaker' = MaybeHalfOpen(breaker)
    /\ calls' = [calls EXCEPT ![c] = IF up THEN "healthy" ELSE "doomed"]
    /\ UNCHANGED <<up, streak>>

\* The result, or an error that is not a transport fault, is recorded.
Succeed(c) ==
    /\ calls[c] # "idle"
    /\ breaker' = RecordSuccess(breaker)
    /\ calls' = [calls EXCEPT ![c] = "idle"]
    /\ streak' = Extended(TRUE)
    /\ UNCHANGED up

\* A transport fault, which only a call that met the dependency down can have.
Fail(c) ==
    /\ calls[c] = "doomed"
    /\ breaker' = RecordFailure(breaker)
    /\ calls' = [calls EXCEPT ![c] = "idle"]
    /\ streak' = Extended(FALSE)
    /\ UNCHANGED up

\* A read of current, code or retryAfterMs (a gauge, a refused caller).
Observe ==
    /\ breaker' = MaybeHalfOpen(breaker)
    /\ UNCHANGED <<calls, up, streak>>

Reset ==
    /\ breaker' = ResetFields(breaker)
    /\ streak' = [ok |-> TRUE, n |-> 0]
    /\ UNCHANGED <<calls, up>>

Tick ==
    /\ breaker.state = "open"
    /\ breaker.elapsed < Cooldown
    /\ breaker' = [breaker EXCEPT !.elapsed = @ + 1]
    /\ UNCHANGED <<calls, up, streak>>

\* The dependency goes down, and with it the calls in flight, or comes back.
GoDown ==
    /\ up
    /\ up' = FALSE
    /\ calls' = [c \in Callers |-> IF calls[c] = "idle" THEN "idle" ELSE "doomed"]
    /\ UNCHANGED <<breaker, streak>>

ComeUp ==
    /\ ~up
    /\ up' = TRUE
    /\ UNCHANGED <<breaker, calls, streak>>

Settle(c) == Succeed(c) \/ Fail(c)

Next ==
    \/ \E c \in Callers : Admit(c) \/ Settle(c)
    \/ Observe \/ Reset \/ Tick \/ GoDown \/ ComeUp

Spec == Init /\ [][Next]_vars
-----------------------------------------------------------------------------
(* Properties *)

\* The counters never sit at a threshold they should have acted on, the
\* successes of one half-open period never leak into the next, and while the
\* circuit is closed the failure count is exactly the faults in a row.
CountersAgree ==
    /\ breaker.state = "closed" =>
         /\ breaker.failures < FailureThreshold
         /\ breaker.failures = IF streak.ok THEN 0 ELSE streak.n
    /\ breaker.state = "half-open" => breaker.successes < SuccessThreshold
    /\ breaker.state # "half-open" => breaker.successes = 0

\* A closed circuit opens on FailureThreshold faults in a row, whoever had
\* them, never on a fault among successes ("Consecutive transport failures").
OpensOnConsecutiveFaults ==
    [][breaker.state = "closed" /\ breaker'.state = "open" =>
         ~streak'.ok /\ streak'.n >= FailureThreshold]_vars

\* The circuit never closes on its own without SuccessThreshold successes in a
\* row: a fault in between starts the count again.
ClosesOnConsecutiveSuccesses ==
    [][breaker.state # "closed" /\ breaker'.state = "closed" =>
         \/ streak'.ok /\ streak'.n >= SuccessThreshold
         \/ Reset]_vars

\* Faults of calls admitted before the circuit opened do not push the end of
\* the cooldown away while it runs.
LateFaultsKeepCooldown ==
    [][breaker.state = "open" /\ breaker.elapsed < Cooldown =>
         breaker'.state # "open" \/ breaker'.elapsed >= breaker.elapsed]_vars
=============================================================================
