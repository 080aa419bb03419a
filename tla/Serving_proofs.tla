--------------------------- MODULE Serving_proofs ---------------------------
(***************************************************************************)
(* A gateway's requests, with their retries and polls, and its readiness   *)
(* use the breaker as CircuitBreaker has it used, so what holds of any     *)
(* callers holds of them; and a shutdown cuts nothing off.                 *)
(***************************************************************************)
EXTENDS Serving, TLAPS

\* The successes counted while half-open are the last outcomes, in a row.
ProbesInARow ==
    breaker.successes > 0 => streak.ok /\ streak.n >= breaker.successes

IInv == TypeOK /\ CountersAgree /\ ProbesInARow
-----------------------------------------------------------------------------
\* Reading the state keeps the fields in range; only open can become half-open.
LEMMA MaybeHalfOpenFacts ==
    ASSUME NEW b \in Breaker
    PROVE  LET c == MaybeHalfOpen(b) IN
           /\ c \in Breaker
           /\ c.failures = b.failures
           /\ c.successes = b.successes
           /\ c.elapsed = b.elapsed
           /\ c.state # b.state => b.state = "open" /\ b.elapsed >= Cooldown
                                   /\ c.state = "half-open"
BY BreakerConstants DEF MaybeHalfOpen, Transition, Breaker, States

\* What a success does to the fields.
LEMMA RecordSuccessFacts ==
    ASSUME NEW b \in Breaker, b.state # "closed" \/ b.failures < FailureThreshold,
           b.successes < SuccessThreshold, b.state # "half-open" => b.successes = 0
    PROVE  LET d == RecordSuccess(b)
               c == MaybeHalfOpen(b) IN
           /\ d \in Breaker
           /\ \/ /\ c.state = "half-open"
                 /\ d.state = "half-open"
                 /\ d.successes = b.successes + 1
                 /\ d.successes < SuccessThreshold
              \/ /\ c.state = "half-open"
                 /\ b.successes + 1 >= SuccessThreshold
                 /\ d.state = "closed"
                 /\ d.successes = 0 /\ d.failures = 0
              \/ /\ c.state = b.state
                 /\ c.state # "half-open"
                 /\ d.state = b.state
                 /\ d.failures = 0 /\ d.successes = 0
                 /\ d.elapsed = b.elapsed
<1> DEFINE c == MaybeHalfOpen(b)
<1>1. /\ c \in Breaker
      /\ c.successes = b.successes
      /\ c.elapsed = b.elapsed
      /\ c.state # b.state => b.state = "open" /\ c.state = "half-open"
  BY MaybeHalfOpenFacts
<1> HIDE DEF c
<1>2. CASE c.state = "half-open"
  <2>1. RecordSuccess(b) = HalfOpenSuccess(c)
    BY <1>2 DEF RecordSuccess, c
  <2> QED
    BY <1>1, <1>2, <2>1, BreakerConstants DEF HalfOpenSuccess, Transition, Breaker, States, c
<1>3. CASE c.state # "half-open"
  <2>1. RecordSuccess(b) = [c EXCEPT !.failures = 0]
    BY <1>3 DEF RecordSuccess, c
  <2> QED
    BY <1>1, <1>3, <2>1, BreakerConstants DEF Breaker, States, c
<1> QED
  BY <1>2, <1>3

\* What a fault does to the fields.
LEMMA RecordFailureFacts ==
    ASSUME NEW b \in Breaker, b.state = "closed" => b.failures < FailureThreshold,
           b.state # "half-open" => b.successes = 0
    PROVE  LET d == RecordFailure(b)
               c == MaybeHalfOpen(b) IN
           /\ d \in Breaker
           /\ \/ /\ b.state = "closed"
                 /\ d.state = "closed"
                 /\ d.failures = b.failures + 1
                 /\ d.failures < FailureThreshold
                 /\ d.successes = 0
              \/ /\ b.state = "closed"
                 /\ b.failures + 1 >= FailureThreshold
                 /\ d.state = "open"
                 /\ d.successes = 0
              \/ /\ c.state = "half-open"
                 /\ d.state = "open"
                 /\ d.successes = 0
              \/ /\ c.state = "open" /\ b.state = "open"
                 /\ d.state = "open"
                 /\ d.successes = 0
                 /\ d.elapsed = b.elapsed
<1> DEFINE c == MaybeHalfOpen(b)
           e == [c EXCEPT !.failures = Bounded(@ + 1, FailureThreshold)]
<1>1. /\ c \in Breaker
      /\ c.failures = b.failures
      /\ c.successes = b.successes
      /\ c.elapsed = b.elapsed
      /\ c.state # b.state => b.state = "open" /\ c.state = "half-open"
  BY MaybeHalfOpenFacts
<1> HIDE DEF c
<1>2. Bounded(c.failures + 1, FailureThreshold) \in 0 .. FailureThreshold
  BY <1>1, BreakerConstants DEF Bounded, Breaker
<1>3. /\ e \in Breaker
      /\ e.state = c.state /\ e.successes = c.successes /\ e.elapsed = c.elapsed
      /\ e.failures = Bounded(c.failures + 1, FailureThreshold)
  BY <1>1, <1>2 DEF Breaker
<1>4. RecordFailure(b) = IF c.state = "half-open" \/ e.failures >= FailureThreshold
                           THEN Transition(e, "open") ELSE e
  BY DEF RecordFailure, c
<1> HIDE DEF e
<1>5. CASE c.state = "half-open"
  BY <1>1, <1>3, <1>4, <1>5, BreakerConstants DEF Transition, Breaker, States, c
<1>6. CASE c.state = "closed"
  <2>1. b.state = "closed" /\ c.failures + 1 <= FailureThreshold
    BY <1>1, <1>6, BreakerConstants DEF Breaker
  <2>2. e.failures = b.failures + 1
    BY <1>1, <1>3, <2>1, BreakerConstants DEF Bounded, Breaker
  <2> QED
    BY <1>1, <1>3, <1>4, <1>6, <2>1, <2>2, BreakerConstants DEF Transition, Breaker, States, c
<1>7. CASE c.state = "open"
  BY <1>1, <1>3, <1>4, <1>7, BreakerConstants DEF Transition, Breaker, States, c
<1> QED
  BY <1>1, <1>5, <1>6, <1>7 DEF Breaker, States

\* One more equal outcome makes the row longer, up to the limit.
LEMMA ExtendedFacts ==
    ASSUME TypeOK
    PROVE  /\ Extended(TRUE) \in [ok : BOOLEAN, n : 0 .. StreakLimit]
           /\ Extended(FALSE) \in [ok : BOOLEAN, n : 0 .. StreakLimit]
           /\ Extended(TRUE).ok /\ Extended(TRUE).n >= 1
           /\ ~Extended(FALSE).ok /\ Extended(FALSE).n >= 1
           /\ streak.ok => /\ Extended(TRUE).n = Bounded(streak.n + 1, StreakLimit)
                           /\ Extended(FALSE).n = 1
           /\ ~streak.ok => /\ Extended(TRUE).n = 1
                            /\ Extended(FALSE).n = Bounded(streak.n + 1, StreakLimit)
BY BreakerConstants DEF TypeOK, Extended, Bounded, StreakLimit
-----------------------------------------------------------------------------
\* The circuit starts closed.
LEMMA InitIInv == Init => IInv
BY BreakerConstants DEF Init, IInv, TypeOK, CountersAgree, ProbesInARow, Closed,
                        Breaker, States, StreakLimit

\* Every step keeps the invariant.
LEMMA NextIInv == IInv /\ [Next]_vars => IInv'
<1> SUFFICES ASSUME IInv, [Next]_vars PROVE IInv'
  OBVIOUS
<1>0. /\ breaker \in Breaker
      /\ breaker.state = "closed" => breaker.failures < FailureThreshold
      /\ breaker.successes < SuccessThreshold
      /\ breaker.state # "half-open" => breaker.successes = 0
  BY BreakerConstants DEF IInv, TypeOK, CountersAgree, Breaker, States
<1>1. ASSUME NEW c \in Callers, Admit(c) PROVE IInv'
  <2>1. breaker' \in Breaker
    BY <1>0, <1>1, MaybeHalfOpenFacts DEF Admit
  <2>2. TypeOK'
    BY <1>1, <2>1 DEF Admit, IInv, TypeOK
  <2> QED
    BY <1>0, <1>1, <2>2, MaybeHalfOpenFacts DEF Admit, IInv, CountersAgree, ProbesInARow
<1>2. ASSUME NEW c \in Callers, Succeed(c) PROVE IInv'
  <2>1. breaker' \in Breaker /\ streak' = Extended(TRUE)
    BY <1>0, <1>2, RecordSuccessFacts DEF Succeed
  <2>2. streak' \in [ok : BOOLEAN, n : 0 .. StreakLimit] /\ streak'.ok
    BY <2>1, ExtendedFacts DEF IInv
  <2>3. TypeOK'
    BY <1>2, <2>1, <2>2 DEF Succeed, IInv, TypeOK
  <2>4. CountersAgree'
    <3>1. /\ breaker'.state = "closed" => breaker'.failures = 0
          /\ breaker'.state = "half-open" => breaker'.successes < SuccessThreshold
          /\ breaker'.state # "half-open" => breaker'.successes = 0
      BY <1>0, <1>2, RecordSuccessFacts DEF Succeed
    <3> QED
      BY <2>2, <3>1, BreakerConstants DEF CountersAgree
  <2>5. ProbesInARow'
    <3>1. breaker'.successes > 0 => breaker'.successes = breaker.successes + 1
      BY <1>0, <1>2, RecordSuccessFacts DEF Succeed
    <3>2. CASE breaker.successes = 0
      <4>1. streak'.ok /\ streak'.n >= 1
        BY <2>1, ExtendedFacts DEF IInv
      <4> QED
        BY <3>1, <3>2, <4>1 DEF ProbesInARow
    <3>3. CASE breaker.successes > 0
      <4>1. streak.ok /\ streak.n >= breaker.successes
        BY <3>3 DEF IInv, ProbesInARow
      <4>2. streak'.n = Bounded(streak.n + 1, StreakLimit)
        BY <2>1, <4>1, ExtendedFacts DEF IInv
      <4>3. breaker.successes + 1 <= StreakLimit
        BY <1>0, BreakerConstants DEF Breaker, StreakLimit
      <4> QED
        BY <1>0, <2>2, <3>1, <4>1, <4>2, <4>3, BreakerConstants
           DEF Bounded, StreakLimit, IInv, TypeOK, ProbesInARow, Breaker
    <3> QED
      BY <1>0, <3>2, <3>3, BreakerConstants DEF Breaker
  <2> QED
    BY <2>3, <2>4, <2>5 DEF IInv
<1>3. ASSUME NEW c \in Callers, Fail(c) PROVE IInv'
  <2>1. breaker' \in Breaker /\ streak' = Extended(FALSE)
    BY <1>0, <1>3, RecordFailureFacts DEF Fail
  <2>2. /\ streak' \in [ok : BOOLEAN, n : 0 .. StreakLimit]
        /\ ~streak'.ok
    BY <2>1, ExtendedFacts DEF IInv
  <2>3. TypeOK'
    BY <1>3, <2>1, <2>2 DEF Fail, IInv, TypeOK
  <2>4. breaker'.successes = 0
    BY <1>0, <1>3, RecordFailureFacts DEF Fail
  <2>5. ASSUME breaker'.state = "closed"
        PROVE  breaker'.failures < FailureThreshold /\ breaker'.failures = streak'.n
    <3>1. /\ breaker.state = "closed"
          /\ breaker'.failures = breaker.failures + 1
          /\ breaker'.failures < FailureThreshold
      BY <1>0, <1>3, <2>5, RecordFailureFacts DEF Fail
    <3>2. breaker.failures = IF streak.ok THEN 0 ELSE streak.n
      BY <3>1 DEF IInv, CountersAgree
    <3>3. CASE streak.ok
      <4>1. streak'.n = 1
        BY <2>1, <3>3, ExtendedFacts DEF IInv
      <4> QED
        BY <3>1, <3>2, <3>3, <4>1
    <3>4. CASE ~streak.ok
      <4>1. streak'.n = Bounded(streak.n + 1, StreakLimit)
        BY <2>1, <3>4, ExtendedFacts DEF IInv, TypeOK
      <4> QED
        BY <3>1, <3>2, <3>4, <4>1, BreakerConstants DEF Bounded, StreakLimit, IInv, TypeOK
    <3> QED
      BY <3>3, <3>4
  <2>6. CountersAgree'
    BY <2>2, <2>4, <2>5, BreakerConstants DEF CountersAgree
  <2>7. ProbesInARow'
    BY <2>4 DEF ProbesInARow
  <2> QED
    BY <2>3, <2>6, <2>7 DEF IInv
<1>4. CASE Observe
  <2>1. TypeOK'
    BY <1>0, <1>4, MaybeHalfOpenFacts DEF Observe, IInv, TypeOK
  <2> QED
    BY <1>0, <1>4, <2>1, MaybeHalfOpenFacts DEF Observe, IInv, CountersAgree, ProbesInARow
<1>5. CASE Reset
  <2> DEFINE a == [breaker EXCEPT !.failures = 0]
             e == [a EXCEPT !.successes = 0]
  <2>0. /\ e \in Breaker
        /\ e.failures = 0 /\ e.successes = 0
    <3>1. 0 \in 0 .. FailureThreshold /\ 0 \in 0 .. SuccessThreshold
      BY BreakerConstants
    <3>2. a \in Breaker /\ a.failures = 0
      BY <1>0, <3>1 DEF Breaker
    <3> HIDE DEF a
    <3> QED
      BY <3>1, <3>2 DEF Breaker
  <2>1. /\ breaker' \in Breaker
        /\ breaker'.state = "closed" /\ breaker'.failures = 0 /\ breaker'.successes = 0
    <3>1. breaker' = Transition(e, "closed")
      BY <1>5 DEF Reset, ResetFields
    <3> HIDE DEF e
    <3> QED
      BY <2>0, <3>1, BreakerConstants DEF Transition, Breaker, States
  <2>2. streak' \in [ok : BOOLEAN, n : 0 .. StreakLimit] /\ streak'.ok
    BY <1>5, BreakerConstants DEF Reset, StreakLimit
  <2>3. TypeOK'
    BY <1>5, <2>1, <2>2 DEF Reset, IInv, TypeOK
  <2>4. CountersAgree' /\ ProbesInARow'
    BY <2>1, <2>2, BreakerConstants DEF CountersAgree, ProbesInARow
  <2> QED
    BY <2>3, <2>4 DEF IInv
<1>6. CASE Tick
  <2>1. /\ breaker'.state = breaker.state
        /\ breaker'.failures = breaker.failures
        /\ breaker'.successes = breaker.successes
        /\ breaker' \in Breaker
    BY <1>0, <1>6, BreakerConstants DEF Tick, Breaker
  <2> QED
    BY <1>6, <2>1 DEF Tick, IInv, TypeOK, CountersAgree, ProbesInARow
<1>7. CASE GoDown
  BY <1>7 DEF GoDown, IInv, TypeOK, CountersAgree, ProbesInARow
<1>8. CASE ComeUp
  BY <1>8 DEF ComeUp, IInv, TypeOK, CountersAgree, ProbesInARow
<1>9. CASE UNCHANGED vars
  BY <1>9 DEF vars, IInv, TypeOK, CountersAgree, ProbesInARow
<1> QED
  BY <1>1, <1>2, <1>3, <1>4, <1>5, <1>6, <1>7, <1>8, <1>9 DEF Next, Settle

\* Every reachable state of the breaker satisfies the inductive invariant.
LEMMA Invariance == Spec => []IInv
BY InitIInv, NextIInv, PTL DEF Spec
-----------------------------------------------------------------------------
\* Types are right for every choice of the thresholds.
THEOREM TypeCorrect == Spec => []TypeOK
BY Invariance, PTL DEF IInv

\* The counters agree with the history of outcomes, for all thresholds.
THEOREM CountersCorrect == Spec => []CountersAgree
BY Invariance, PTL DEF IInv

\* A closed circuit opens only on FailureThreshold faults in a row.
THEOREM OpensCorrectly == Spec => OpensOnConsecutiveFaults
<1> DEFINE A == breaker.state = "closed" /\ breaker'.state = "open" =>
                  ~streak'.ok /\ streak'.n >= FailureThreshold
<1>1. IInv /\ IInv' /\ [Next]_vars => [A]_vars
  <2> SUFFICES ASSUME IInv, [Next]_vars, breaker.state = "closed", breaker'.state = "open"
               PROVE  ~streak'.ok /\ streak'.n >= FailureThreshold
    OBVIOUS
  <2>0. /\ breaker \in Breaker
        /\ breaker.failures < FailureThreshold
        /\ breaker.successes = 0
        /\ breaker.failures = IF streak.ok THEN 0 ELSE streak.n
    BY DEF IInv, TypeOK, CountersAgree
  <2>1. ASSUME NEW c \in Callers, Fail(c) PROVE ~streak'.ok /\ streak'.n >= FailureThreshold
    <3>1. breaker.failures + 1 >= FailureThreshold
      BY <2>0, <2>1, MaybeHalfOpenFacts, RecordFailureFacts DEF Fail
    <3>2. streak' = Extended(FALSE)
      BY <2>1 DEF Fail
    <3>3. CASE streak.ok
      <4>1. streak'.n = 1 /\ ~streak'.ok
        BY <3>2, <3>3, ExtendedFacts DEF IInv
      <4> QED
        BY <2>0, <3>1, <3>3, <4>1, BreakerConstants
    <3>4. CASE ~streak.ok
      <4>1. streak'.n = Bounded(streak.n + 1, StreakLimit) /\ ~streak'.ok
        BY <3>2, <3>4, ExtendedFacts DEF IInv, TypeOK
      <4> QED
        BY <2>0, <3>1, <3>4, <4>1, BreakerConstants DEF Bounded, StreakLimit, IInv, TypeOK
    <3> QED
      BY <3>3, <3>4
  <2>2. ASSUME NEW c \in Callers, Admit(c) PROVE FALSE
    BY <2>0, <2>2, MaybeHalfOpenFacts DEF Admit
  <2>3. ASSUME NEW c \in Callers, Succeed(c) PROVE FALSE
    BY <2>0, <2>3, RecordSuccessFacts, MaybeHalfOpenFacts, BreakerConstants DEF Succeed
  <2>4. ASSUME Observe PROVE FALSE
    BY <2>0, <2>4, MaybeHalfOpenFacts DEF Observe
  <2>5. ASSUME Reset PROVE FALSE
    BY <2>0, <2>5 DEF Reset, ResetFields, Transition, Breaker
  <2> QED
    BY <2>1, <2>2, <2>3, <2>4, <2>5 DEF Next, Settle, Tick, GoDown, ComeUp, vars
<1> QED
  BY <1>1, Invariance, PTL DEF Spec, OpensOnConsecutiveFaults

\* The circuit closes by itself only on SuccessThreshold successes in a row.
THEOREM ClosesCorrectly == Spec => ClosesOnConsecutiveSuccesses
<1> DEFINE A == breaker.state # "closed" /\ breaker'.state = "closed" =>
                  (streak'.ok /\ streak'.n >= SuccessThreshold) \/ Reset
<1>1. IInv /\ IInv' /\ [Next]_vars => [A]_vars
  <2> SUFFICES ASSUME IInv, [Next]_vars, breaker.state # "closed",
                      breaker'.state = "closed", ~Reset
               PROVE  streak'.ok /\ streak'.n >= SuccessThreshold
    OBVIOUS
  <2>0. /\ breaker \in Breaker
        /\ breaker.successes < SuccessThreshold
        /\ breaker.state # "half-open" => breaker.successes = 0
        /\ breaker.successes > 0 => streak.ok /\ streak.n >= breaker.successes
    BY BreakerConstants DEF IInv, TypeOK, CountersAgree, ProbesInARow, Breaker, States
  <2>1. ASSUME NEW c \in Callers, Succeed(c)
        PROVE  streak'.ok /\ streak'.n >= SuccessThreshold
    <3>1. breaker.successes + 1 >= SuccessThreshold
      BY <2>0, <2>1, RecordSuccessFacts DEF Succeed
    <3>2. streak' = Extended(TRUE)
      BY <2>1 DEF Succeed
    <3>3. streak'.ok /\ streak'.n >= 1
      BY <3>2, ExtendedFacts DEF IInv
    <3>4. CASE breaker.successes = 0
      BY <3>1, <3>3, <3>4, BreakerConstants DEF IInv, TypeOK
    <3>5. CASE breaker.successes > 0
      <4>1. streak'.n = Bounded(streak.n + 1, StreakLimit)
        BY <2>0, <3>2, <3>5, ExtendedFacts DEF IInv
      <4> QED
        BY <2>0, <3>1, <3>3, <3>5, <4>1, BreakerConstants
           DEF Bounded, StreakLimit, IInv, TypeOK, Breaker
    <3> QED
      BY <2>0, <3>4, <3>5, BreakerConstants DEF Breaker
  <2>2. ASSUME NEW c \in Callers, Fail(c) PROVE FALSE
    BY <2>0, <2>2, RecordFailureFacts, MaybeHalfOpenFacts DEF Fail
  <2>3. ASSUME NEW c \in Callers, Admit(c) PROVE FALSE
    BY <2>0, <2>3, MaybeHalfOpenFacts DEF Admit
  <2>4. ASSUME Observe PROVE FALSE
    BY <2>0, <2>4, MaybeHalfOpenFacts DEF Observe
  <2>5. ASSUME Tick PROVE FALSE
    BY <2>0, <2>5 DEF Tick, Breaker
  <2> QED
    BY <2>1, <2>2, <2>3, <2>4, <2>5 DEF Next, Settle, GoDown, ComeUp, vars
<1> QED
  BY <1>1, Invariance, PTL DEF Spec, ClosesOnConsecutiveSuccesses

\* A running cooldown is not pushed away by late results.
THEOREM CooldownKept == Spec => LateFaultsKeepCooldown
<1> DEFINE A == breaker.state = "open" /\ breaker.elapsed < Cooldown =>
                  breaker'.state # "open" \/ breaker'.elapsed >= breaker.elapsed
<1>1. IInv /\ IInv' /\ [Next]_vars => [A]_vars
  <2> SUFFICES ASSUME IInv, [Next]_vars, breaker.state = "open",
                      breaker.elapsed < Cooldown, breaker'.state = "open"
               PROVE  breaker'.elapsed >= breaker.elapsed
    OBVIOUS
  <2>0. /\ breaker \in Breaker
        /\ breaker.successes = 0 /\ breaker.successes < SuccessThreshold
        /\ breaker.elapsed \in Nat
    BY BreakerConstants DEF IInv, TypeOK, CountersAgree, Breaker
  <2>1. MaybeHalfOpen(breaker) = breaker
    BY <2>0, BreakerConstants DEF MaybeHalfOpen
  <2>2. ASSUME NEW c \in Callers, Admit(c) PROVE FALSE
    BY <2>1, <2>2 DEF Admit, Allows
  <2>3. ASSUME NEW c \in Callers, Succeed(c) PROVE breaker'.elapsed = breaker.elapsed
    BY <2>0, <2>1, <2>3, RecordSuccessFacts DEF Succeed
  <2>4. ASSUME NEW c \in Callers, Fail(c) PROVE breaker'.elapsed = breaker.elapsed
    BY <2>0, <2>1, <2>4, RecordFailureFacts DEF Fail
  <2>5. ASSUME Observe PROVE breaker'.elapsed = breaker.elapsed
    BY <2>1, <2>5 DEF Observe
  <2>6. ASSUME Reset PROVE FALSE
    <3>1. breaker' = [state |-> "closed", failures |-> 0, successes |-> 0,
                      elapsed |-> breaker.elapsed]
      BY <2>0, <2>6 DEF Reset, ResetFields, Transition, Breaker
    <3> QED
      BY <3>1
  <2>7. ASSUME Tick PROVE breaker'.elapsed = breaker.elapsed + 1
    BY <2>0, <2>7 DEF Tick, Breaker
  <2> QED
    BY <2>0, <2>2, <2>3, <2>4, <2>5, <2>6, <2>7 DEF Next, Settle, GoDown, ComeUp, vars
<1> QED
  BY <1>1, Invariance, PTL DEF Spec, LateFaultsKeepCooldown
-----------------------------------------------------------------------------
\* A request being sent is a call the breaker knows of.
SendsAreCalls ==
    /\ request = [c \in Callers |-> request[c]]
    /\ \A c \in Callers :
         /\ "at" \in DOMAIN request[c]
         /\ request[c].at \in {"flying", "backoff"} => calls[c] # "idle"

PastStop == {"disconnecting", "flushing", "exiting"}

\* Behind server.stop() there is no request, and none comes in.
StopWaited ==
    /\ shutdown \in [Signals -> {"none", "stopping"} \cup PastStop]
    /\ (\E s \in Signals : shutdown[s] \in PastStop) => \A c \in Posts : request[c] = Idle
    /\ life = "exited" \/ log = "closed" => \E s \in Signals : shutdown[s] \in PastStop

SInv == IInv /\ SendsAreCalls /\ StopWaited
-----------------------------------------------------------------------------
\* The kind of an error is that of its status: what the transport is at fault
\* for is told from what the request is.
LEMMA KindsByStatus ==
    ASSUME NEW r
    PROVE  /\ r.status \in (1 .. 499) \ {429} => ~IsTransportFault(ErrorKind(r))
           /\ r.status \in (Nat \ (1 .. 499)) \cup {429} =>
                IsTransportFault(ErrorKind(r)) /\ ~IsResult(r)
<1>1. ASSUME r.status \in (1 .. 499) \ {429} PROVE ~IsTransportFault(ErrorKind(r))
  <2>1. r.status # 0 /\ r.status # 429 /\ ~(r.status >= 500)
    BY <1>1
  <2> QED
    BY <2>1 DEF ErrorKind, IsTransportFault
<1>2. ASSUME r.status \in (Nat \ (1 .. 499)) \cup {429}
      PROVE  IsTransportFault(ErrorKind(r)) /\ ~IsResult(r)
  <2>1. r.status = 0 \/ r.status = 429 \/ (r.status \in Nat /\ r.status >= 500)
    BY <1>2
  <2> QED
    BY <2>1 DEF ErrorKind, IsTransportFault, IsResult
<1> QED
  BY <1>1, <1>2

\* The end of a call is a success or a failure of the breaker's caller.
LEMMA CallEndsSettles ==
    ASSUME SInv, NEW c \in Callers, NEW r \in Responses(c),
           request[c].at = "flying", CallEnds(c, r)
    PROVE  Settle(c)
<1>1. calls[c] \in {"healthy", "doomed"}
  BY DEF SInv, IInv, TypeOK, SendsAreCalls
<1>2. Kind[c] \in {"decide", "wait"}
  BY ServingConstants
<1>3. CASE r \in Faults
  <2>1. r.status \in (Nat \ (1 .. 499)) \cup {429}
    BY <1>3, KeeperHubConstants
  <2>2. r \notin Healthy[Kind[c]]
    BY <1>2, <2>1, KeeperHubConstants
  <2>3. calls[c] = "doomed"
    BY <1>1, <2>2 DEF Responses
  <2>4. breaker' = RecordFailure(breaker)
    BY <2>1, KindsByStatus DEF CallEnds
  <2>5. (r \notin Faults) = FALSE
    BY <1>3
  <2>6. streak' = Extended(FALSE)
    BY <2>5 DEF CallEnds
  <2> QED
    BY <2>3, <2>4, <2>6 DEF CallEnds, Settle, Fail
<1>4. CASE r \notin Faults
  <2>1. r \in Healthy[Kind[c]]
    BY <1>4 DEF Responses
  <2>2. ~IsTransportFault(ErrorKind(r))
    BY <1>2, <2>1, KeeperHubConstants, KindsByStatus
  <2>3. breaker' = RecordSuccess(breaker)
    BY <2>2 DEF CallEnds
  <2>4. (r \notin Faults) = TRUE
    BY <1>4
  <2>5. streak' = Extended(TRUE)
    BY <2>4 DEF CallEnds
  <2> QED
    BY <1>1, <2>3, <2>5 DEF CallEnds, Settle, Succeed
<1> QED
  BY <1>3, <1>4

\* The steps that leave the breaker and its callers alone.
Apart ==
    \/ Boot \/ Connect
    \/ \E c \in Callers : Retry(c) \/ Publish(c)
    \/ \E s \in Signals : Signal(s) \/ Stops(s)

LEMMA ApartStutters == Apart => UNCHANGED vars
BY DEF Apart, Boot, Connect, Retry, Publish, Signal, Stops, Stop, Disconnect, Flush, Exit

\* Every step of the gateway is one of the breaker's callers, or none.
LEMMA StepsOfCallers == SInv /\ [ServingNext]_all => [Next]_vars
<1> SUFFICES ASSUME SInv, [ServingNext]_all PROVE [Next]_vars
  OBVIOUS
<1>1. ASSUME Apart PROVE [Next]_vars
  BY <1>1, ApartStutters
<1>2. ASSUME Readyz PROVE [Next]_vars
  BY <1>2 DEF Readyz, Next, Observe, vars
<1>3. ASSUME Scrape PROVE [Next]_vars
  BY <1>3 DEF Scrape, Next
<1>4. ASSUME Outside PROVE [Next]_vars
  BY <1>4 DEF Outside, Next
<1>5. ASSUME NEW c \in Callers, Receive(c) PROVE [Next]_vars
  BY <1>5 DEF Receive, Next
<1>6. ASSUME NEW c \in Callers, Poll(c) PROVE [Next]_vars
  BY <1>6 DEF Poll, Next
<1>7. ASSUME NEW c \in Callers, AttemptEnds(c) PROVE [Next]_vars
  <2> PICK r \in Responses(c) :
        IF IsRetried(r) /\ request[c].attempt < MaxAttempts
          THEN Goes(c, [request[c] EXCEPT !.at = "backoff"]) /\ UNCHANGED <<vars, others>>
          ELSE CallEnds(c, r)
    BY <1>7 DEF AttemptEnds
  <2>1. request[c].at = "flying"
    BY <1>7 DEF AttemptEnds
  <2>2. CASE IsRetried(r) /\ request[c].attempt < MaxAttempts
    BY <2>2
  <2>3. CASE ~(IsRetried(r) /\ request[c].attempt < MaxAttempts)
    BY <2>1, <2>3, CallEndsSettles DEF Next
  <2> QED
    BY <2>2, <2>3
<1>8. CASE UNCHANGED all
  BY <1>8 DEF all
<1> QED
  BY <1>1, <1>2, <1>3, <1>4, <1>5, <1>6, <1>7, <1>8 DEF ServingNext, Works, Apart

LEMMA InitSInv == ServingInit => SInv
<1> SUFFICES ASSUME ServingInit PROVE SInv
  OBVIOUS
<1>1. IInv
  BY InitIInv DEF ServingInit
<1>2. SendsAreCalls
  BY DEF ServingInit, SendsAreCalls, Idle
<1>3. StopWaited
  BY DEF ServingInit, StopWaited, PastStop
<1> QED
  BY <1>1, <1>2, <1>3 DEF SInv

\* A request goes on with its call, or is no longer being sent when it ends.
LEMMA SendsStayCalls == SInv /\ [ServingNext]_all => SendsAreCalls'
<1> SUFFICES ASSUME SInv, [ServingNext]_all PROVE SendsAreCalls'
  OBVIOUS
<1> USE DEF SInv, SendsAreCalls
<1>0. calls \in [Callers -> {"idle", "healthy", "doomed"}]
  BY DEF IInv, TypeOK
<1>1. ASSUME UNCHANGED <<calls, request>> PROVE SendsAreCalls'
  BY <1>1
<1>2. ASSUME NEW c \in Callers, Admit(c), Goes(c, [Idle EXCEPT !.at = "flying", !.attempt = 1])
      PROVE  SendsAreCalls'
  BY <1>0, <1>2 DEF Admit, Goes, Idle
<1>3. ASSUME NEW c \in Callers, UNCHANGED calls, Goes(c, Idle) PROVE SendsAreCalls'
  BY <1>3 DEF Goes, Idle
<1>4. ASSUME NEW c \in Callers, Retry(c) PROVE SendsAreCalls'
  <2>1. /\ "at" \in DOMAIN request'[c]
        /\ calls[c] # "idle"
    BY <1>4 DEF Retry, Goes
  <2> QED
    BY <1>4, <2>1 DEF Retry, Goes, vars
<1>5. ASSUME NEW c \in Callers, AttemptEnds(c) PROVE SendsAreCalls'
  <2> PICK r \in Responses(c) :
        IF IsRetried(r) /\ request[c].attempt < MaxAttempts
          THEN Goes(c, [request[c] EXCEPT !.at = "backoff"]) /\ UNCHANGED <<vars, others>>
          ELSE CallEnds(c, r)
    BY <1>5 DEF AttemptEnds
  <2>1. request[c].at = "flying"
    BY <1>5 DEF AttemptEnds
  <2>2. CASE IsRetried(r) /\ request[c].attempt < MaxAttempts
    BY <2>1, <2>2 DEF Goes, vars
  <2>3. CASE ~(IsRetried(r) /\ request[c].attempt < MaxAttempts)
    <3>1. /\ calls' = [calls EXCEPT ![c] = "idle"]
          /\ request' = [request EXCEPT ![c] = AfterCall(c, r)]
      BY <2>3 DEF CallEnds, Goes
    <3>2. /\ "at" \in DOMAIN AfterCall(c, r)
          /\ AfterCall(c, r).at \notin {"flying", "backoff"}
      BY ServingConstants DEF AfterCall, Idle
    <3> QED
      BY <1>0, <3>1, <3>2
  <2> QED
    BY <2>2, <2>3
<1>6. ASSUME Outside PROVE SendsAreCalls'
  BY <1>0, <1>6 DEF Outside, Tick, GoDown, ComeUp
<1>7. ASSUME NEW c \in Callers, Poll(c) PROVE SendsAreCalls'
  <2>1. \/ Admit(c) /\ Goes(c, [request[c] EXCEPT !.at = "flying", !.attempt = 1])
        \/ Goes(c, Idle) /\ UNCHANGED vars
    BY <1>7 DEF Poll
  <2>2. CASE Admit(c) /\ Goes(c, [request[c] EXCEPT !.at = "flying", !.attempt = 1])
    BY <1>0, <2>2 DEF Admit, Goes
  <2> QED
    BY <1>3, <2>1, <2>2 DEF vars
<1> QED
  BY <1>1, <1>2, <1>3, <1>4, <1>5, <1>6, <1>7
     DEF ServingNext, Works, Stops, Boot, Connect, Readyz, Scrape, Observe, Receive, Publish,
         Signal, Stop, Disconnect, Flush, Exit, vars, all

\* Requests come in only before a signal, and end; signals do not go back.
LEMMA StopKeepsWaiting == SInv /\ [ServingNext]_all => StopWaited'
<1> SUFFICES ASSUME SInv, [ServingNext]_all PROVE StopWaited'
  OBVIOUS
<1> USE DEF SInv, StopWaited, PastStop
<1>1. ASSUME UNCHANGED <<shutdown, request, log>>, life' = life \/ life' # "exited" PROVE StopWaited'
  BY <1>1
<1>2. ASSUME NEW c \in Callers, Receive(c) PROVE StopWaited'
  <2>1. CASE c \in Posts
    BY <1>2, <2>1 DEF Receive, others, Accepting, Posts
  <2>2. CASE c \notin Posts
    BY <1>2, <2>2 DEF Receive, others, Goes, Posts
  <2> QED
    BY <2>1, <2>2
<1>3. ASSUME NEW c \in Callers, Works(c) PROVE StopWaited'
  <2>1. UNCHANGED <<shutdown, life, log>>
    BY <1>3 DEF Works, AttemptEnds, CallEnds, Retry, Poll, Publish, others
  <2>2. c \in Posts => request[c] # Idle
    BY <1>3 DEF Works, AttemptEnds, Retry, Poll, Publish, Idle
  <2>3. \A d \in Callers \ {c} : request'[d] = request[d]
    <3>1. \E to : Goes(c, to)
      BY <1>3 DEF Works, AttemptEnds, CallEnds, Retry, Poll, Publish
    <3> QED
      BY <3>1 DEF Goes, SendsAreCalls
  <2> QED
    BY <2>1, <2>2, <2>3 DEF Posts
<1>4. ASSUME NEW s \in Signals, Signal(s) PROVE StopWaited'
  BY <1>4 DEF Signal, Proceeds
<1>5. ASSUME NEW s \in Signals, Stops(s) PROVE StopWaited'
  <2>1. \A c \in Posts : request[c] = Idle
    BY <1>5 DEF Stops, Stop, Disconnect, Flush, Exit, Proceeds
  <2>2. shutdown' \in [Signals -> {"none", "stopping"} \cup PastStop] /\ request' = request
    BY <1>5 DEF Stops, Stop, Disconnect, Flush, Exit, Proceeds
  <2>3. shutdown'[s] \in PastStop
    BY <1>5 DEF Stops, Stop, Disconnect, Flush, Exit, Proceeds
  <2> QED
    BY <2>1, <2>2, <2>3 DEF Posts
<1> QED
  BY <1>1, <1>2, <1>3, <1>4, <1>5
     DEF ServingNext, Boot, Connect, Readyz, Scrape, Outside, others, all

LEMMA NextSInv == SInv /\ [ServingNext]_all => SInv'
BY StepsOfCallers, NextIInv, SendsStayCalls, StopKeepsWaiting DEF SInv
-----------------------------------------------------------------------------
\* The gateway's requests, retried and polled, are callers of the breaker as
\* CircuitBreaker has them: one outcome per request, and none without it.
THEOREM ServingImplementsBreaker == ServingSpec => Spec
<1>1. ServingInit => Init
  BY DEF ServingInit
<1> QED
  BY <1>1, InitSInv, NextSInv, StepsOfCallers, PTL DEF ServingSpec, Spec

\* The breaker of a gateway opens only on faulty requests in a row, however
\* many attempts each of them made.
THEOREM OpensOnFaultyRequests == ServingSpec => OpensOnConsecutiveFaults
BY ServingImplementsBreaker, OpensCorrectly, PTL

\* It closes only on good requests in a row.
THEOREM ClosesOnGoodRequests == ServingSpec => ClosesOnConsecutiveSuccesses
BY ServingImplementsBreaker, ClosesCorrectly, PTL

\* Requests that end late, after any number of attempts, keep its cooldown.
THEOREM LateRequestsKeepCooldown == ServingSpec => LateFaultsKeepCooldown
BY ServingImplementsBreaker, CooldownKept, PTL

\* The process exits, and leaves the log, with every request answered.
THEOREM ShutdownWaits == ServingSpec => NothingIsCutOff
<1> DEFINE A == life' = "exited" \/ log' = "closed" => \A c \in Posts : request'[c] = Idle
<1>1. SInv' => [A]_all
  BY DEF SInv, StopWaited, Posts
<1> QED
  BY <1>1, InitSInv, NextSInv, PTL DEF ServingSpec, NothingIsCutOff
-----------------------------------------------------------------------------
\* The payload behind the prefix, and what is glued to it, whatever came before.
LEMMA PayloadOf ==
    ASSUME NEW reason, reason.fields # <<>>
    PROVE  ExtractPayload(reason) =
             IF Sticks(reason) THEN [reason.fields EXCEPT ![Len(reason.fields)] = "glued"]
             ELSE reason.fields
BY DEF ExtractPayload, Glued

\* A payload marked INV is a denial of three numbers, or none if one is missing.
LEMMA BrokenInvariant ==
    ASSUME NEW reason, Field(ExtractPayload(reason), 1) = "INV",
           NEW index, index = ToIndex(Field(ExtractPayload(reason), 2)),
           NEW got, got = ToBig(Field(ExtractPayload(reason), 3)),
           NEW want, want = ToBig(Field(ExtractPayload(reason), 4))
    PROVE  ParseGuardDenial(reason) =
             IF index = "null" \/ got = "null" \/ want = "null" THEN <<>>
             ELSE <<"INV", index, got, want>>
<1> DEFINE d == <<"INV", index, got, want>>
<1>1. ParseGuardDenial(reason) = IF \E n \in DOMAIN d : d[n] = "null" THEN <<>> ELSE d
  <2>1. /\ "INV" # "PROBE_FAILED" /\ "INV" # "PROBE_SHORT" /\ "INV" \notin Bare
    BY DEF Bare
  <2>2. ParseGuardDenial(reason) = Denial(d)
    BY <2>1 DEF ParseGuardDenial
  <2> QED
    BY <2>2 DEF Denial, None
<1>2. (\E n \in DOMAIN d : d[n] = "null") <=> (index = "null" \/ got = "null" \/ want = "null")
  <2>1. DOMAIN d = 1 .. 4 /\ d[1] = "INV" /\ d[2] = index /\ d[3] = got /\ d[4] = want
    OBVIOUS
  <2>2. 1 .. 4 = {1, 2, 3, 4} /\ "INV" # "null"
    OBVIOUS
  <2> HIDE DEF d
  <2> QED
    BY <2>1, <2>2
<1> QED
  BY <1>1, <1>2

\* Whatever stands before the prefix, wrapped or not, blanks behind it or fields
\* beyond its own, a broken invariant is read back number by number; where anything
\* sticks to its last number, the reason is no denial and no number is taken from it.
THEOREM InvariantsAreReadBack ==
    ASSUME NEW i \in SafeDigits, NEW got \in Digits, NEW want \in Digits,
           NEW wrapped \in BOOLEAN, NEW before, NEW after
    PROVE  ParseGuardDenial(Text(wrapped, before, <<"INV", i, got, want>>, after)) =
             IF \/ after \in {"", "blank"} /\ (wrapped => before = "")
                \/ after = "more"
               THEN <<"INV", i, got, want>> ELSE <<>>
<1> DEFINE d == <<"INV", i, got, want>>
           text == Text(wrapped, before, d, after)
           p == ExtractPayload(text)
<1>0. /\ i \in Digits /\ i # "null" /\ got # "null" /\ want # "null"
      /\ "glued" \notin Digits /\ "INV" \notin Bare
  BY DigitsAssumption DEF Bare
<1>1. d # <<>> /\ Len(d) = 4 /\ text.fields = d
  BY DEF Text
<1>2. Sticks(text) <=> ~(\/ after \in {"", "blank"} /\ (wrapped => before = "")
                         \/ after = "more")
  BY DEF Sticks, Text
<1>3. p = IF Sticks(text) THEN [d EXCEPT ![4] = "glued"] ELSE d
  <2>1. p = IF Sticks(text) THEN [text.fields EXCEPT ![Len(text.fields)] = "glued"] ELSE text.fields
    <3> HIDE DEF text
    <3> QED
      BY <1>1, PayloadOf
  <2> QED
    BY <1>1, <2>1
<1> HIDE DEF p, text
<1>4. CASE ~Sticks(text)
  <2>1. p = <<"INV", i, got, want>>
    BY <1>3, <1>4
  <2>2. /\ Field(p, 1) = "INV" /\ ToIndex(Field(p, 2)) = i
        /\ ToBig(Field(p, 3)) = got /\ ToBig(Field(p, 4)) = want
    BY <2>1 DEF Field, ToIndex, ToBig
  <2>3. ParseGuardDenial(text) = d
    BY <1>0, <2>2, BrokenInvariant DEF p
  <2> QED
    BY <1>2, <1>4, <2>3 DEF text
<1>5. CASE Sticks(text)
  <2>1. p = <<"INV", i, got, "glued">>
    BY <1>3, <1>5
  <2>2. Field(p, 1) = "INV" /\ ToBig(Field(p, 4)) = "null"
    BY <1>0, <2>1 DEF Field, ToBig, None
  <2>3. ParseGuardDenial(text) = <<>>
    BY <2>2, BrokenInvariant DEF p
  <2> QED
    BY <1>2, <1>5, <2>3 DEF text
<1> QED
  BY <1>4, <1>5
-----------------------------------------------------------------------------
\* What is made of a payload, by its kind.
LEMMA BareKinds ==
    ASSUME NEW reason, Field(ExtractPayload(reason), 1) \in Bare
    PROVE  ParseGuardDenial(reason) = <<Field(ExtractPayload(reason), 1)>>
<1>1. "INV" \notin Bare /\ "PROBE_FAILED" \notin Bare /\ "PROBE_SHORT" \notin Bare
  BY DEF Bare
<1> QED
  BY <1>1 DEF ParseGuardDenial

LEMMA OtherKinds ==
    ASSUME NEW reason,
           Field(ExtractPayload(reason), 1) \notin {"INV", "PROBE_FAILED", "PROBE_SHORT"} \cup Bare
    PROVE  ParseGuardDenial(reason) = <<>>
BY DEF ParseGuardDenial

LEMMA FailedProbe ==
    ASSUME NEW reason, Field(ExtractPayload(reason), 1) = "PROBE_FAILED",
           NEW index, index = ToIndex(Field(ExtractPayload(reason), 2))
    PROVE  ParseGuardDenial(reason) = IF index = "null" THEN <<>> ELSE <<"PROBE_FAILED", index>>
<1> DEFINE d == <<"PROBE_FAILED", index>>
<1>1. ParseGuardDenial(reason) = IF \E n \in DOMAIN d : d[n] = "null" THEN <<>> ELSE d
  <2>1. /\ "INV" # "PROBE_FAILED" /\ "PROBE_SHORT" # "PROBE_FAILED" /\ "PROBE_FAILED" \notin Bare
    BY DEF Bare
  <2>2. ParseGuardDenial(reason) = Denial(d)
    BY <2>1 DEF ParseGuardDenial
  <2> QED
    BY <2>2 DEF Denial, None
<1>2. (\E n \in DOMAIN d : d[n] = "null") <=> index = "null"
  <2>1. DOMAIN d = 1 .. 2 /\ d[1] = "PROBE_FAILED" /\ d[2] = index
    OBVIOUS
  <2>2. 1 .. 2 = {1, 2} /\ "PROBE_FAILED" # "null"
    OBVIOUS
  <2> HIDE DEF d
  <2> QED
    BY <2>1, <2>2
<1> QED
  BY <1>1, <1>2

LEMMA ShortProbe ==
    ASSUME NEW reason, Field(ExtractPayload(reason), 1) = "PROBE_SHORT",
           NEW index, index = ToIndex(Field(ExtractPayload(reason), 2)),
           NEW length, length = ToIndex(Field(ExtractPayload(reason), 3)),
           NEW needed, needed = ToIndex(Field(ExtractPayload(reason), 4))
    PROVE  ParseGuardDenial(reason) =
             IF index = "null" \/ length = "null" \/ needed = "null" THEN <<>>
             ELSE <<"PROBE_SHORT", index, length, needed>>
<1> DEFINE d == <<"PROBE_SHORT", index, length, needed>>
<1>1. ParseGuardDenial(reason) = IF \E n \in DOMAIN d : d[n] = "null" THEN <<>> ELSE d
  <2>1. /\ "INV" # "PROBE_SHORT" /\ "PROBE_SHORT" # "PROBE_FAILED" /\ "PROBE_SHORT" \notin Bare
    BY DEF Bare
  <2>2. ParseGuardDenial(reason) = Denial(d)
    BY <2>1 DEF ParseGuardDenial
  <2> QED
    BY <2>2 DEF Denial, None
<1>2. (\E n \in DOMAIN d : d[n] = "null") <=> (index = "null" \/ length = "null" \/ needed = "null")
  <2>1. DOMAIN d = 1 .. 4 /\ d[1] = "PROBE_SHORT" /\ d[2] = index /\ d[3] = length /\ d[4] = needed
    OBVIOUS
  <2>2. 1 .. 4 = {1, 2, 3, 4} /\ "PROBE_SHORT" # "null"
    OBVIOUS
  <2> HIDE DEF d
  <2> QED
    BY <2>1, <2>2
<1> QED
  BY <1>1, <1>2

\* A text has its three parts; a denial of the guard has the numbers of its kind.
LEMMA NumbersAre ==
    ASSUME NEW numbers, NEW d \in GuardDenials(numbers)
    PROVE  \/ \E i \in numbers, got \in Digits, want \in Digits : d = <<"INV", i, got, want>>
           \/ \E i \in numbers : d = <<"PROBE_FAILED", i>>
           \/ \E i, length, needed \in numbers : d = <<"PROBE_SHORT", i, length, needed>>
           \/ \E kind \in Bare : d = <<kind>>
BY DEF GuardDenials

\* What the guard said is read back, kind and numbers, where nothing sticks to it.
LEMMA DenialsAreReadBack ==
    ASSUME NEW reason, ~Sticks(reason), reason.fields \in GuardDenials(SafeDigits)
    PROVE  ParseGuardDenial(reason) = reason.fields
<1> DEFINE d == reason.fields
           p == ExtractPayload(reason)
<1>0. SafeDigits \subseteq Digits /\ "null" \notin Digits
  BY DigitsAssumption
<1>1. d \in GuardDenials(SafeDigits)
  OBVIOUS
<1>2. d # <<>> => p = d
  BY PayloadOf
<1> HIDE DEF d, p
<1>3. ASSUME NEW i \in SafeDigits, NEW got \in Digits, NEW want \in Digits, d = <<"INV", i, got, want>>
      PROVE  ParseGuardDenial(reason) = d
  <2>1. p = <<"INV", i, got, want>>
    BY <1>2, <1>3
  <2>2. Field(p, 1) = "INV" /\ ToIndex(Field(p, 2)) = i /\ ToBig(Field(p, 3)) = got /\ ToBig(Field(p, 4)) = want
    BY <2>1 DEF Field, ToIndex, ToBig
  <2>3. i # "null" /\ got # "null" /\ want # "null"
    BY <1>0
  <2> QED
    BY <1>3, <2>2, <2>3, BrokenInvariant DEF p
<1>4. ASSUME NEW i \in SafeDigits, d = <<"PROBE_FAILED", i>> PROVE ParseGuardDenial(reason) = d
  <2>1. p = <<"PROBE_FAILED", i>>
    BY <1>2, <1>4
  <2>2. Field(p, 1) = "PROBE_FAILED" /\ ToIndex(Field(p, 2)) = i /\ i # "null"
    BY <1>0, <2>1 DEF Field, ToIndex
  <2> QED
    BY <1>4, <2>2, FailedProbe DEF p
<1>5. ASSUME NEW i \in SafeDigits, NEW length \in SafeDigits, NEW needed \in SafeDigits,
             d = <<"PROBE_SHORT", i, length, needed>>
      PROVE  ParseGuardDenial(reason) = d
  <2>1. p = <<"PROBE_SHORT", i, length, needed>>
    BY <1>2, <1>5
  <2>2. /\ Field(p, 1) = "PROBE_SHORT" /\ ToIndex(Field(p, 2)) = i
        /\ ToIndex(Field(p, 3)) = length /\ ToIndex(Field(p, 4)) = needed
    BY <2>1 DEF Field, ToIndex
  <2>3. i # "null" /\ length # "null" /\ needed # "null"
    BY <1>0
  <2> QED
    BY <1>5, <2>2, <2>3, ShortProbe DEF p
<1>6. ASSUME NEW kind \in Bare, d = <<kind>> PROVE ParseGuardDenial(reason) = d
  <2>1. p = <<kind>>
    BY <1>2, <1>6
  <2>2. Field(p, 1) = kind
    BY <2>1 DEF Field
  <2> QED
    BY <1>6, <2>2, BareKinds DEF p
<1>7. ParseGuardDenial(reason) = d
  BY <1>1, <1>3, <1>4, <1>5, <1>6, NumbersAre
<1> QED
  BY <1>7 DEF d

\* What cannot be read, for its wrapper or its numbers, is no denial.
LEMMA UnreadIsNone ==
    ASSUME NEW reason, reason.fields \in GuardDenials(Digits),
           Sticks(reason) \/ reason.fields \notin GuardDenials(SafeDigits)
    PROVE  ParseGuardDenial(reason) = <<>>
<1> DEFINE d == reason.fields
           p == ExtractPayload(reason)
           known == ~Sticks(reason)
<1>0. "glued" \notin Digits /\ "glued" \notin SafeDigits /\ "glued" \notin Bare
  BY DigitsAssumption DEF Bare
<1>1. d \in GuardDenials(Digits) /\ (known => d \notin GuardDenials(SafeDigits))
  OBVIOUS
<1>2. d # <<>> => p = IF known THEN d ELSE [d EXCEPT ![Len(d)] = "glued"]
  BY PayloadOf
<1> HIDE DEF d, p, known
<1>3. ASSUME NEW i \in Digits, NEW got \in Digits, NEW want \in Digits, d = <<"INV", i, got, want>>
      PROVE  ParseGuardDenial(reason) = <<>>
  <2>1. p = IF known THEN d ELSE <<"INV", i, got, "glued">>
    BY <1>2, <1>3
  <2>2. known => i \notin SafeDigits
    BY <1>1, <1>3 DEF GuardDenials
  <2>3. Field(p, 1) = "INV" /\ (ToIndex(Field(p, 2)) = "null" \/ ToBig(Field(p, 4)) = "null")
    BY <1>0, <1>3, <2>1, <2>2 DEF Field, ToIndex, ToBig, None
  <2> QED
    BY <2>3, BrokenInvariant DEF p
<1>4. ASSUME NEW i \in Digits, d = <<"PROBE_FAILED", i>> PROVE ParseGuardDenial(reason) = <<>>
  <2>1. p = IF known THEN d ELSE <<"PROBE_FAILED", "glued">>
    BY <1>2, <1>4
  <2>2. known => i \notin SafeDigits
    BY <1>1, <1>4 DEF GuardDenials
  <2>3. Field(p, 1) = "PROBE_FAILED" /\ ToIndex(Field(p, 2)) = "null"
    BY <1>0, <1>4, <2>1, <2>2 DEF Field, ToIndex, None
  <2> QED
    BY <2>3, FailedProbe DEF p
<1>5. ASSUME NEW i \in Digits, NEW length \in Digits, NEW needed \in Digits,
             d = <<"PROBE_SHORT", i, length, needed>>
      PROVE  ParseGuardDenial(reason) = <<>>
  <2>1. p = IF known THEN d ELSE <<"PROBE_SHORT", i, length, "glued">>
    BY <1>2, <1>5
  <2>2. known => i \notin SafeDigits \/ length \notin SafeDigits \/ needed \notin SafeDigits
    BY <1>1, <1>5 DEF GuardDenials
  <2>3. /\ Field(p, 1) = "PROBE_SHORT"
        /\ \/ ToIndex(Field(p, 2)) = "null" \/ ToIndex(Field(p, 3)) = "null"
           \/ ToIndex(Field(p, 4)) = "null"
    BY <1>0, <1>5, <2>1, <2>2 DEF Field, ToIndex, None
  <2> QED
    BY <2>3, ShortProbe DEF p
<1>6. ASSUME NEW kind \in Bare, d = <<kind>> PROVE ParseGuardDenial(reason) = <<>>
  <2>1. ~known
    BY <1>1, <1>6 DEF GuardDenials
  <2>2. p = <<"glued">>
    BY <1>2, <1>6, <2>1
  <2>3. Field(p, 1) = "glued"
    BY <2>2 DEF Field
  <2> QED
    BY <1>0, <2>3, OtherKinds DEF p
<1> QED
  BY <1>1, <1>3, <1>4, <1>5, <1>6, NumbersAre

\* A decision being published was ruled on by a result that KeeperHub gave.
RuledByResults ==
    \A c \in Posts : request[c].at = "publishing" =>
        \E r \in Healthy["decide"] :
            /\ IsResult(r)
            /\ request[c].cause = Cause[r]
            /\ request[c].ruling = Ruling(ToSimulation(r))

\* A fault is no result.
LEMMA FaultsAreNoResults ==
    ASSUME NEW r \in Faults
    PROVE  ~IsResult(r)
BY KeeperHubConstants DEF IsResult

\* Only the end of a call makes a ruling; other steps of a request make none.
LEMMA RulingSteps ==
    ASSUME SInv, RuledByResults, [ServingNext]_all
    PROVE  RuledByResults'
<1> USE DEF RuledByResults
<1>0. request = [c \in Callers |-> request[c]] /\ \A c \in Posts : c \in Callers /\ Kind[c] = "decide"
  BY DEF SInv, SendsAreCalls, Posts
<1>1. ASSUME UNCHANGED request PROVE RuledByResults'
  BY <1>1 DEF Posts
<1>2. ASSUME NEW c \in Callers, NEW to, Goes(c, to), to.at # "publishing" PROVE RuledByResults'
  BY <1>0, <1>2 DEF Goes, Posts
<1>3. ASSUME NEW c \in Callers, Receive(c) PROVE RuledByResults'
  <2>1. [Idle EXCEPT !.at = "flying", !.attempt = 1].at = "flying"
    BY DEF Idle
  <2> QED
    BY <1>2, <1>3, <2>1 DEF Receive
<1>4. ASSUME NEW c \in Callers, Retry(c) PROVE RuledByResults'
  <2>1. "at" \in DOMAIN request[c]
    BY DEF SInv, SendsAreCalls
  <2>2. [request[c] EXCEPT !.at = "flying", !.attempt = @ + 1].at # "publishing"
    BY <2>1
  <2> QED
    BY <1>2, <1>4, <2>2 DEF Retry
<1>5. ASSUME NEW c \in Callers, Poll(c) PROVE RuledByResults'
  <2>1. "at" \in DOMAIN request[c]
    BY DEF SInv, SendsAreCalls
  <2>2. [request[c] EXCEPT !.at = "flying", !.attempt = 1].at # "publishing" /\ Idle.at # "publishing"
    BY <2>1 DEF Idle
  <2> QED
    BY <1>2, <1>5, <2>2 DEF Poll
<1>6. ASSUME NEW c \in Callers, Publish(c) PROVE RuledByResults'
  <2>1. Idle.at # "publishing"
    BY DEF Idle
  <2> QED
    BY <1>2, <1>6, <2>1 DEF Publish
<1>7. ASSUME NEW c \in Callers, AttemptEnds(c) PROVE RuledByResults'
  <2> PICK r \in Responses(c) :
        IF IsRetried(r) /\ request[c].attempt < MaxAttempts
          THEN Goes(c, [request[c] EXCEPT !.at = "backoff"]) /\ UNCHANGED <<vars, others>>
          ELSE CallEnds(c, r)
    BY <1>7 DEF AttemptEnds
  <2>1. CASE IsRetried(r) /\ request[c].attempt < MaxAttempts
    <3>1. "at" \in DOMAIN request[c]
      BY DEF SInv, SendsAreCalls
    <3>2. [request[c] EXCEPT !.at = "backoff"].at # "publishing"
      BY <3>1
    <3> QED
      BY <1>2, <2>1, <3>2
  <2>2. CASE CallEnds(c, r)
    <3>1. Goes(c, AfterCall(c, r))
      BY <2>2 DEF CallEnds
    <3>2. CASE ~IsResult(r) \/ Kind[c] # "decide"
      <4>1. Kind[c] \in {"decide", "wait"}
        BY ServingConstants
      <4>2. AfterCall(c, r).at # "publishing"
        BY <3>2, <4>1 DEF AfterCall, Idle
      <4> QED
        BY <1>2, <3>1, <4>2
    <3>3. CASE IsResult(r) /\ Kind[c] = "decide"
      <4>1. r \in Healthy["decide"]
        BY <3>3, FaultsAreNoResults DEF Responses
      <4>2. /\ AfterCall(c, r).cause = Cause[r]
            /\ AfterCall(c, r).ruling = Ruling(ToSimulation(r))
        BY <3>3 DEF AfterCall, Idle
      <4>3. \A d \in Posts : request'[d] = AfterCall(c, r) \/ request'[d] = request[d]
        BY <1>0, <3>1 DEF Goes
      <4> HIDE DEF RuledByResults
      <4>4. ASSUME NEW d \in Posts, request'[d].at = "publishing"
            PROVE  \E q \in Healthy["decide"] : /\ IsResult(q)
                                                /\ request'[d].cause = Cause[q]
                                                /\ request'[d].ruling = Ruling(ToSimulation(q))
        <5>1. CASE request'[d] = AfterCall(c, r)
          BY <3>3, <4>1, <4>2, <5>1
        <5>2. CASE request'[d] = request[d]
          BY <4>4, <5>2 DEF RuledByResults
        <5> QED
          BY <4>3, <5>1, <5>2
      <4> QED
        BY <4>4 DEF RuledByResults, Posts
    <3> QED
      BY <3>2, <3>3
  <2> QED
    BY <2>1, <2>2
<1> QED
  BY <1>1, <1>3, <1>4, <1>5, <1>6, <1>7
     DEF ServingNext, Works, Stops, Boot, Connect, Readyz, Scrape, Outside, Signal, Stop,
         Disconnect, Flush, Exit, others, all

\* A ruling that is what its cause was, as GuardIsQuoted has it.
TrueTo(told, cause) ==
    /\ (told.verdict = "ALLOW") = (cause.by = "passes")
    /\ cause.by = "guard" => told.denial = cause.said
    /\ told.denial # <<>> => cause.by \in {"guard", "callee"}
    /\ (told.code = "PREFLIGHT_REJECTED") = (cause.by = "preflight")

\* The ruling of each kind of result.
LEMMA RulingsAreTrue ==
    ASSUME NEW r \in Healthy["decide"], IsResult(r), NEW told, told = Ruling(ToSimulation(r)),
           NEW cause, cause = Cause[r]
    PROVE  TrueTo(told, cause)
<1> USE DEF TrueTo
<1> DEFINE denial == ParseGuardDenial(r.reason)
<1>1. told = IF ~r.wouldRevert THEN [verdict |-> "ALLOW", code |-> None, denial |-> <<>>]
             ELSE IF denial # <<>>
               THEN [verdict |-> "DENY", denial |-> denial,
                     code |-> IF denial[1] = "INV" THEN "INVARIANT_BROKEN" ELSE "GUARD"]
             ELSE [verdict |-> "DENY", denial |-> <<>>,
                   code |-> IF r.failureKind = "validation" THEN "PREFLIGHT_REJECTED"
                            ELSE "SIMULATION_REVERTED"]
  BY DEF Ruling, ToSimulation
<1>2. CASE ~r.wouldRevert /\ cause.by = "passes"
  BY <1>1, <1>2 DEF None
<1>3. CASE r.wouldRevert /\ r.failureKind = "validation" /\ r.reason = NoReason /\ cause.by = "preflight"
  <2>1. denial = <<>>
    <3>1. r.reason.fields = <<>>
      <4>1. NoReason.fields = <<>>
        BY DEF NoReason, Text
      <4> QED
        BY <1>3, <4>1
    <3>2. Field(ExtractPayload(r.reason), 1) = "null"
      BY <3>1 DEF ExtractPayload, Field, None
    <3>3. "null" \notin {"INV", "PROBE_FAILED", "PROBE_SHORT"} \cup Bare
      BY DEF Bare
    <3> QED
      BY <3>2, <3>3, OtherKinds
  <2> HIDE DEF denial
  <2> QED
    BY <1>1, <1>3, <2>1
<1>4. CASE /\ r.wouldRevert /\ ~Sticks(r.reason)
           /\ r.reason.fields \in GuardDenials(SafeDigits)
           /\ cause.by = "guard" /\ cause.said = r.reason.fields
  <2>1. denial = cause.said
    BY <1>4, DenialsAreReadBack
  <2>2. denial # <<>>
    <3>1. cause.said \in GuardDenials(SafeDigits)
      BY <1>4
    <3>2. \A a, b, c, k : <<k>> # <<>> /\ <<k, a>> # <<>> /\ <<k, a, b, c>> # <<>>
      OBVIOUS
    <3>3. cause.said # <<>>
      BY <3>1, <3>2, NumbersAre
    <3> QED
      BY <2>1, <3>3
  <2> HIDE DEF denial
  <2> QED
    BY <1>1, <1>4, <2>1, <2>2
<1>5. CASE /\ r.wouldRevert /\ r.failureKind # "validation"
           /\ r.reason.fields \in GuardDenials(Digits)
           /\ Sticks(r.reason) \/ r.reason.fields \notin GuardDenials(SafeDigits)
           /\ cause.by = "mangled"
  <2>1. denial = <<>>
    BY <1>5, UnreadIsNone
  <2> HIDE DEF denial
  <2> QED
    BY <1>1, <1>5, <2>1
<1>6. CASE r.wouldRevert /\ r.failureKind # "validation" /\ cause.by = "callee"
  <2> HIDE DEF denial
  <2> QED
    BY <1>1, <1>6
<1> QED
  BY <1>2, <1>3, <1>4, <1>5, <1>6, ReportsConstants

\* Where the guard denies, the receipt quotes it number by number, whatever it was
\* wrapped in; mangled words are no denial; no one else passes for the guard but a
\* called contract that spells its words, for which nothing is promised.
THEOREM GuardsWordsAreQuoted == ServingSpec => []GuardIsQuoted
<1>1. ServingInit => RuledByResults
  BY DEF ServingInit, RuledByResults, Idle, Posts
<1>2. SInv /\ RuledByResults /\ [ServingNext]_all => RuledByResults'
  BY RulingSteps
<1>3. RuledByResults => GuardIsQuoted
  <2> SUFFICES ASSUME RuledByResults, NEW c \in Posts, request[c].at = "publishing"
               PROVE  TrueTo(request[c].ruling, request[c].cause)
    BY DEF GuardIsQuoted, TrueTo
  <2> QED
    BY RulingsAreTrue DEF RuledByResults
<1> QED
  BY <1>1, <1>2, <1>3, InitSInv, NextSInv, PTL DEF ServingSpec
=============================================================================
