---------------------------- MODULE Keeper_proofs ----------------------------
(***************************************************************************)
(* Proofs about the keeper, for every pool scale, floor and target.        *)
(***************************************************************************)
EXTENDS Keeper, TLAPS
-----------------------------------------------------------------------------
(* The repay *)

\* What div means.
LEMMA Quotient ==
  ASSUME NEW a \in Nat, NEW d \in Nat \ {0}
  PROVE  /\ a \div d \in Nat
         /\ d * (a \div d) <= a
         /\ a < d * (a \div d) + d
  BY SMT

\* Products keep order.
LEMMA Products ==
  ASSUME NEW d \in Nat, NEW x \in Nat, NEW y \in Nat, x <= y
  PROVE  d * x <= d * y
  BY SMT

\* A quotient is at least t just when the divisor is at most the quotient by
\* t: the health factor reaches the target just when the debt is at most the
\* debt at the target, although both are rounded.
LEMMA QuotientsSwap ==
  ASSUME NEW a \in Nat, NEW d \in Nat \ {0}, NEW t \in Nat \ {0}
  PROVE  (a \div d >= t) <=> (d <= a \div t)
<1> DEFINE q == a \div d
           e == a \div t
<1>1. q \in Nat /\ d * q <= a /\ a < d * q + d
  BY Quotient
<1>2. e \in Nat /\ t * e <= a /\ a < t * e + t
  BY Quotient
<1> HIDE DEF q, e
<1>3. ASSUME q >= t PROVE d <= e
  <2>1. d * t <= d * q
    BY <1>1, <1>3, Products
  <2>2. SUFFICES ASSUME d >= e + 1 PROVE FALSE
    BY <1>2
  <2>3. t * (e + 1) <= t * d
    BY <1>2, <2>2, Products
  <2>4. t * (e + 1) = t * e + t /\ t * d = d * t
    BY <1>2, SMT
  <2>5. QED
    BY <1>1, <1>2, <2>1, <2>3, <2>4
<1>4. ASSUME d <= e PROVE q >= t
  <2>1. t * d <= t * e
    BY <1>2, <1>4, Products
  <2>2. SUFFICES ASSUME t >= q + 1 PROVE FALSE
    BY <1>1
  <2>3. d * (q + 1) <= d * t
    BY <1>1, <2>2, Products
  <2>4. d * (q + 1) = d * q + d /\ t * d = d * t
    BY <1>1, SMT
  <2>5. QED
    BY <1>1, <1>2, <2>1, <2>3, <2>4
<1>5. QED
  BY <1>3, <1>4 DEF q, e
\* decide: what it returns, of any position that can be read.
LEMMA DecideIsExact ==
  ASSUME NEW p \in Position
  PROVE  /\ Decide(p) \in Nat
         /\ Health(p) < Floor => Decide(p) > 0
         /\ Decide(p) > 0 =>
              /\ Decide(p) \in 1 .. p.debt
              /\ Health(Repaid(p, Decide(p))) >= Target
              /\ \A less \in 0 .. Decide(p) - 1 : Health(Repaid(p, less)) < Target
<1> DEFINE k == ((p.collateral * LtvBps) \div Bps) * Unit
           d == DebtAtTarget(p)
<1>1. p.collateral \in Nat /\ p.debt \in Nat
  BY PoolConstants DEF Position, Uint
<1>2. (p.collateral * LtvBps) \div Bps \in Nat
  BY <1>1, PoolConstants, Quotient
<1>3. k \in Nat
  BY <1>2, PoolConstants
<1>4. d = k \div Target /\ d \in Nat
  BY <1>3, KeeperConstants, Quotient DEF DebtAtTarget
<1>5. ASSUME NEW n \in Nat
      PROVE  LET h == Health([p EXCEPT !.debt = n])
             IN  /\ h \in Int
                 /\ h >= Target <=> n <= d
  <2> DEFINE h == Health([p EXCEPT !.debt = n])
  <2>1. h = IF n = 0 THEN MaxUint ELSE k \div n
    BY DEF Health, Position
  <2>2. CASE n = 0
    BY <1>4, <2>1, <2>2, PoolConstants, KeeperConstants
  <2>3. CASE n # 0
    <3>1. h = k \div n
      BY <2>1, <2>3
    <3> HIDE DEF h, k, d
    <3>2. h \in Nat
      BY <1>3, <2>3, <3>1, Quotient
    <3>3. (k \div n >= Target) <=> (n <= k \div Target)
      BY <1>3, <2>3, KeeperConstants, QuotientsSwap
    <3>4. QED
      BY <1>4, <3>1, <3>2, <3>3 DEF h
  <2>4. QED
    BY <2>2, <2>3
<1>6. p = [p EXCEPT !.debt = p.debt]
  BY DEF Position
<1>7. Health(p) \in Int /\ (Health(p) >= Target <=> p.debt <= d)
  BY <1>1, <1>5, <1>6
<1> HIDE DEF k, d
<1>8. Decide(p) = IF Health(p) >= Floor \/ p.debt <= d THEN 0 ELSE p.debt - d
  BY DEF Decide, d
<1>9. Decide(p) \in Nat /\ (Health(p) < Floor => Decide(p) > 0)
  BY <1>1, <1>4, <1>7, <1>8, KeeperConstants
<1>10. ASSUME Decide(p) > 0
       PROVE  /\ Decide(p) \in 1 .. p.debt
              /\ Health(Repaid(p, Decide(p))) >= Target
              /\ \A less \in 0 .. Decide(p) - 1 : Health(Repaid(p, less)) < Target
  <2>1. Decide(p) = p.debt - d /\ Decide(p) \in 1 .. p.debt
    BY <1>1, <1>4, <1>8, <1>10
  <2>2. Health(Repaid(p, Decide(p))) >= Target
    BY <1>1, <1>4, <1>5, <2>1 DEF Repaid
  <2>3. ASSUME NEW less \in 0 .. Decide(p) - 1
        PROVE  Health(Repaid(p, less)) < Target
    <3>1. p.debt - less \in Nat /\ ~(p.debt - less <= d)
      BY <1>1, <1>4, <2>1
    <3>2. QED
      BY <1>5, <3>1, KeeperConstants DEF Repaid
  <2>4. QED
    BY <2>1, <2>2, <2>3
<1>11. QED
  BY <1>9, <1>10
\* The health factor of a position is a number.
LEMMA HealthIsInteger ==
  ASSUME NEW p \in Position
  PROVE  Health(p) \in Int
<1>1. p.collateral \in Nat /\ p.debt \in Nat
  BY PoolConstants DEF Position, Uint
<1>2. (p.collateral * LtvBps) \div Bps \in Nat
  BY <1>1, PoolConstants, Quotient
<1>3. ((p.collateral * LtvBps) \div Bps) * Unit \in Nat
  BY <1>2, PoolConstants
<1>4. p.debt # 0 => (((p.collateral * LtvBps) \div Bps) * Unit) \div p.debt \in Nat
  BY <1>1, <1>3, Quotient
<1>5. QED
  BY <1>1, <1>4, PoolConstants DEF Health

\* The pool keeps positions in their type, whoever calls it.
LEMMA PoolKeepsType ==
  ASSUME NEW p \in Position, NEW c, c.fn \in PoolFunctions,
         c.amount \in Nat, c.value \in Nat, PoolAccepts(c, p)
  PROVE  PoolEffect(c, p) \in Position
<1> DEFINE q == PoolEffect(c, p)
<1>1. q.collateral <= MaxUint /\ q.debt <= MaxUint
  BY DEF PoolAccepts
<1>2. CASE c.fn = "depositCollateral"
  BY <1>1, <1>2, PoolConstants DEF PoolEffect, Position, Uint
<1>3. CASE c.fn = "borrowMore"
  <2>1. q = [p EXCEPT !.collateral = @ + c.value, !.debt = @ + c.amount]
    BY <1>3 DEF PoolEffect
  <2>2. q = [collateral |-> p.collateral + c.value, debt |-> p.debt + c.amount]
    BY <2>1 DEF Position
  <2>3. p.collateral \in Nat /\ p.debt \in Nat
    BY PoolConstants DEF Position, Uint
  <2>4. p.collateral + c.value \in Uint /\ p.debt + c.amount \in Uint
    <3>1. p.collateral + c.value <= MaxUint /\ p.debt + c.amount <= MaxUint
      BY <1>1, <2>2
    <3>2. QED
      BY <2>3, <3>1, PoolConstants DEF Uint
  <2>5. QED
    BY <2>2, <2>4 DEF Position
<1>4. CASE c.fn = "repay"
  BY <1>4, PoolConstants DEF PoolEffect, Position, Uint, AtMost
<1>5. QED
  BY <1>2, <1>3, <1>4 DEF PoolFunctions
-----------------------------------------------------------------------------
(* Sequences of requests and transactions *)

\* What is left when one element is taken out.
LEMMA Removed ==
  ASSUME NEW S, NEW s \in Seq(S), NEW k \in DOMAIN s
  PROVE  /\ RemoveAt(s, k) \in Seq(S)
         /\ DOMAIN RemoveAt(s, k) = 1 .. Len(s) - 1
         /\ \A j \in DOMAIN RemoveAt(s, k) :
               RemoveAt(s, k)[j] = IF j < k THEN s[j] ELSE s[j + 1]
<1>1. k \in 1 .. Len(s) /\ Len(s) \in Nat
  OBVIOUS
<1> DEFINE left == SubSeq(s, 1, k - 1)
           right == SubSeq(s, k + 1, Len(s))
<1>2. left \in Seq(S) /\ Len(left) = k - 1
  BY <1>1
<1>3. right \in Seq(S) /\ Len(right) = Len(s) - k
  BY <1>1
<1>4. \A j \in 1 .. k - 1 : left[j] = s[j]
  BY <1>1
<1>5. \A j \in 1 .. Len(s) - k : right[j] = s[k + j]
  BY <1>1
<1>6. RemoveAt(s, k) = left \o right
  BY DEF RemoveAt
<1> HIDE DEF left, right
<1>7. /\ left \o right \in Seq(S)
      /\ Len(left \o right) = Len(s) - 1
      /\ \A j \in 1 .. Len(s) - 1 :
            (left \o right)[j] = IF j <= k - 1 THEN left[j] ELSE right[j - (k - 1)]
  BY <1>1, <1>2, <1>3, SMTT(30)
<1>8. \A j \in 1 .. Len(s) - 1 :
         (left \o right)[j] = IF j < k THEN s[j] ELSE s[j + 1]
  <2>1. SUFFICES ASSUME NEW j \in 1 .. Len(s) - 1
                 PROVE  (left \o right)[j] = IF j < k THEN s[j] ELSE s[j + 1]
    OBVIOUS
  <2>2. CASE j < k
    <3>1. j \in 1 .. k - 1
      BY <1>1, <2>2
    <3>2. left[j] = s[j]
      BY <1>4, <3>1
    <3>3. QED
      BY <1>1, <1>7, <2>2, <3>1, <3>2
  <2>3. CASE j >= k
    <3>1. j - (k - 1) \in 1 .. Len(s) - k /\ k + (j - (k - 1)) = j + 1
      BY <1>1, <2>3
    <3>2. right[j - (k - 1)] = s[j + 1]
      BY <1>5, <3>1
    <3>3. QED
      BY <1>1, <1>7, <2>3, <3>2
  <2>4. j < k \/ j >= k
    BY <1>1
  <2>5. QED
    BY <2>2, <2>3, <2>4
<1>9. DOMAIN (left \o right) = 1 .. Len(s) - 1
  BY <1>1, <1>7
<1>10. QED
  BY <1>6, <1>7, <1>8, <1>9

\* At most one request is awaited, and it proposes what its tick has read.
AwaitedIsRead ==
    /\ \A j, k \in DOMAIN requests :
          requests[j].awaited /\ requests[k].awaited => j = k
    /\ \A k \in DOMAIN requests :
          requests[k].awaited => requests[k].amount = Decide(read) /\ Decide(read) > 0

\* The part of the invariant that concerns the loop and the requests.
Loop ==
    /\ pc \in {"sleeping", "deciding", "waiting"}
    /\ read \in Position \cup {Nothing}
    /\ pc = "sleeping" <=> read = Nothing
    /\ requests \in Seq(Request)
    /\ pc = "waiting" <=> \E k \in DOMAIN requests : requests[k].awaited
    /\ AwaitedIsRead

\* An answer ends the tick that waits for it and no other.
LEMMA AnswerKeepsLoop ==
  ASSUME Loop, NEW k \in DOMAIN requests, Answer(k)
  PROVE  Loop'
<1>1. /\ requests' = RemoveAt(requests, k)
      /\ requests' \in Seq(Request)
      /\ DOMAIN requests' = 1 .. Len(requests) - 1
      /\ \A j \in DOMAIN requests' :
            requests'[j] = IF j < k THEN requests[j] ELSE requests[j + 1]
  BY Removed DEF Loop, Answer
<1>2. DOMAIN requests = 1 .. Len(requests) /\ Len(requests) \in Nat
  BY DEF Loop
<1>3. CASE requests[k].awaited
  <2>1. pc' = "sleeping" /\ read' = Nothing
    BY <1>3 DEF Answer
  <2>2. \A j \in DOMAIN requests : requests[j].awaited => j = k
    BY <1>3 DEF Loop, AwaitedIsRead
  <2>3. \A j \in DOMAIN requests' : ~requests'[j].awaited
    BY <1>1, <1>2, <2>2
  <2>4. QED
    BY <1>1, <2>1, <2>3 DEF Loop, AwaitedIsRead
<1>4. CASE ~requests[k].awaited
  <2>1. pc' = pc /\ read' = read
    BY <1>4 DEF Answer
  <2>2. \A j \in DOMAIN requests' :
          /\ (IF j < k THEN j ELSE j + 1) \in DOMAIN requests
          /\ requests'[j] = requests[IF j < k THEN j ELSE j + 1]
    BY <1>1, <1>2
  <2>3. (\E j \in DOMAIN requests : requests[j].awaited)
          => \E j \in DOMAIN requests' : requests'[j].awaited
    <3>1. SUFFICES ASSUME NEW i \in DOMAIN requests, requests[i].awaited
                   PROVE  \E j \in DOMAIN requests' : requests'[j].awaited
      OBVIOUS
    <3>2. CASE i < k
      BY <1>1, <1>2, <3>1, <3>2
    <3>3. CASE i > k
      <4>1. i - 1 \in DOMAIN requests' /\ requests'[i - 1] = requests[i]
        BY <1>1, <1>2, <3>3
      <4>2. QED
        BY <3>1, <4>1
    <3>4. QED
      BY <1>2, <1>4, <3>1, <3>2, <3>3
  <2>4. AwaitedIsRead'
    <3>1. ASSUME NEW i \in DOMAIN requests', NEW j \in DOMAIN requests',
                 requests'[i].awaited, requests'[j].awaited
          PROVE  i = j
      <4>1. (IF i < k THEN i ELSE i + 1) = (IF j < k THEN j ELSE j + 1)
        BY <2>2, <3>1 DEF Loop, AwaitedIsRead
      <4>2. QED
        BY <1>1, <1>2, <4>1
    <3>2. ASSUME NEW j \in DOMAIN requests', requests'[j].awaited
          PROVE  requests'[j].amount = Decide(read') /\ Decide(read') > 0
      BY <2>1, <2>2, <3>2 DEF Loop, AwaitedIsRead
    <3>3. QED
      BY <3>1, <3>2 DEF AwaitedIsRead
  <2>5. QED
    BY <1>1, <2>1, <2>2, <2>3, <2>4 DEF Loop
<1>5. QED
  BY <1>3, <1>4-----------------------------------------------------------------------------
(* The invariant *)

Data ==
    /\ position \in Position
    /\ nonce \in Ids
    /\ known \in [0 .. MaxNonce - 1 -> Nat \cup {Nothing}]
    /\ pending \in Seq(Nat)
    /\ moves \in 0 .. MaxMoves
    /\ faults \in 0 .. MaxFaults
    /\ restarts \in 0 .. MaxRestarts

IInv == Loop /\ Data

\* The invariant holds when the keeper starts.
LEMMA InitialState == Init => IInv
<1> SUFFICES ASSUME Init PROVE IInv
  OBVIOUS
<1>1. Loop
  BY DEF Init, Loop, AwaitedIsRead
<1>2. Data
  BY KeeperConstants DEF Init, Data, Ids
<1>3. QED
  BY <1>1, <1>2 DEF IInv

\* A fault keeps to its bound.
LEMMA FaultKeepsType ==
  ASSUME faults \in 0 .. MaxFaults, Fault \/ UNCHANGED faults
  PROVE  faults' \in 0 .. MaxFaults
  BY KeeperConstants DEF Fault

\* The counter stays in its range.
LEMMA NonceKeepsType ==
  ASSUME NEW n \in Ids
  PROVE  NonceAfter(n) \in Ids
  BY KeeperConstants DEF NonceAfter, Ids

\* Nobody waits for a request of a tick given up.
LEMMA UnawaitedKeepsLoop ==
  ASSUME Loop, pc' = "sleeping", read' = Nothing, requests' = Unawaited
  PROVE  Loop'
<1>1. DOMAIN requests = 1 .. Len(requests) /\ Len(requests) \in Nat
  BY DEF Loop
<1>2. \A k \in DOMAIN requests : requests[k] \in Request
  BY <1>1 DEF Loop
<1>3. ASSUME NEW k \in DOMAIN requests
      PROVE  requests'[k] \in Request /\ requests'[k].awaited = FALSE
  <2>1. requests'[k] = [requests[k] EXCEPT !.awaited = FALSE]
    BY DEF Unawaited
  <2>2. QED
    BY <1>2, <2>1 DEF Request
<1>4. requests' \in [1 .. Len(requests) -> Request]
  <2>1. requests' = [k \in 1 .. Len(requests) |-> requests'[k]]
    BY <1>1 DEF Unawaited
  <2>2. QED
    BY <1>1, <1>3, <2>1
<1>5. requests' \in Seq(Request) /\ DOMAIN requests' = DOMAIN requests
  BY <1>1, <1>4
<1>6. QED
  BY <1>3, <1>5 DEF Loop, AwaitedIsRead

\* A new request is the one awaited, and proposes what was read.
LEMMA SubmitKeepsLoop ==
  ASSUME Loop, Data, Submit
  PROVE  Loop'
<1> DEFINE r == [id |-> nonce, amount |-> Decide(read), allowed |-> FALSE, awaited |-> TRUE]
<1>1. /\ pc' = "waiting" /\ read' = read /\ requests' = Append(requests, r)
      /\ pc = "deciding" /\ Decide(read) > 0
  BY DEF Submit
<1>2. read \in Position /\ read # Nothing
  BY <1>1 DEF Loop
<1>3. Decide(read) \in Nat
  BY <1>2, DecideIsExact
<1>4. r \in Request
  BY <1>3 DEF Request, Data
<1>5. \A k \in DOMAIN requests : ~requests[k].awaited
  BY <1>1 DEF Loop
<1>6. /\ requests \in Seq(Request) /\ Len(requests) \in Nat
      /\ DOMAIN requests = 1 .. Len(requests)
  BY DEF Loop
<1> HIDE DEF r
<1>7. /\ requests' \in Seq(Request)
      /\ DOMAIN requests' = 1 .. Len(requests) + 1
      /\ \A k \in 1 .. Len(requests) : requests'[k] = requests[k]
      /\ requests'[Len(requests) + 1] = r
  BY <1>1, <1>4, <1>6
<1>8. \A k \in DOMAIN requests' : requests'[k].awaited <=> k = Len(requests) + 1
  BY <1>5, <1>6, <1>7 DEF r
<1>9. r.amount = Decide(read') /\ Decide(read') > 0
  BY <1>1 DEF r
<1>10. AwaitedIsRead'
  BY <1>7, <1>8, <1>9 DEF AwaitedIsRead
<1>11. \E k \in DOMAIN requests' : requests'[k].awaited
  BY <1>6, <1>7, <1>8
<1>12. QED
  BY <1>1, <1>2, <1>7, <1>10, <1>11 DEF Loop

\* A verdict changes neither who waits nor what was proposed.
LEMMA AllowKeepsLoop ==
  ASSUME Loop, NEW k \in DOMAIN requests, Allow(k)
  PROVE  Loop'
<1>1. DOMAIN requests = 1 .. Len(requests) /\ Len(requests) \in Nat
  BY DEF Loop
<1>2. /\ requests' = [requests EXCEPT ![k].allowed = TRUE]
      /\ pc' = pc /\ read' = read
  BY DEF Allow
<1>3. requests' \in Seq(Request) /\ DOMAIN requests' = DOMAIN requests
  <2>1. requests[k] \in Request
    BY <1>1 DEF Loop
  <2>2. [requests[k] EXCEPT !.allowed = TRUE] \in Request
    BY <2>1 DEF Request
  <2>3. QED
    BY <1>1, <1>2, <2>2 DEF Loop
<1>4. \A j \in DOMAIN requests : /\ requests'[j].awaited = requests[j].awaited
                                /\ requests'[j].amount = requests[j].amount
  BY <1>1, <1>2 DEF Loop, Request
<1>5. AwaitedIsRead'
  BY <1>2, <1>3, <1>4 DEF Loop, AwaitedIsRead
<1>6. QED
  BY <1>2, <1>3, <1>4, <1>5 DEF Loop
\* A repay keeps the position in its type, whatever came of its amount.
LEMMA RepayKeepsType ==
  ASSUME position \in Position, NEW amount \in Nat, Passes(amount)
  PROVE  PoolEffect(RepayCall(amount), position) \in Position
  BY PoolKeepsType DEF Passes, RepayCall, PoolFunctions

\* What KeeperHub takes is an amount.
LEMMA TakeKeepsData ==
  ASSUME Loop, Data, NEW k \in DOMAIN requests, Take(k)
  PROVE  Data'
<1>1. requests[k].amount \in Nat
  <2>1. requests[k] \in Request
    BY DEF Loop
  <2>2. QED
    BY <2>1 DEF Request
<1>2. known' \in [0 .. MaxNonce - 1 -> Nat \cup {Nothing}]
  <2>1. \A id \in 0 .. MaxNonce - 1 : known[id] \in Nat \cup {Nothing}
    BY DEF Data
  <2>2. known' = [id \in 0 .. MaxNonce - 1 |->
                    IF id = requests[k].id THEN requests[k].amount ELSE known[id]]
    BY DEF Take, Data
  <2>3. QED
    BY <1>1, <2>1, <2>2
<1>3. pending' \in Seq(Nat)
  BY <1>1 DEF Take, Data
<1>4. QED
  BY <1>2, <1>3 DEF Take, Data

\* A transaction mined keeps the types.
LEMMA MineKeepsData ==
  ASSUME Data, NEW k \in DOMAIN pending, Mine(k)
  PROVE  Data'
<1>1. pending[k] \in Nat
  BY DEF Data
<1>2. pending' \in Seq(Nat)
  BY Removed DEF Mine, Data
<1>3. position' \in Position
  BY <1>1, RepayKeepsType DEF Mine, Data
<1>4. QED
  BY <1>2, <1>3 DEF Mine, Data

\* Every step keeps the invariant.
LEMMA Step == IInv /\ [Next]_vars => IInv'
<1> SUFFICES ASSUME Loop, Data, [Next]_vars PROVE Loop' /\ Data'
  BY DEF IInv
<1>1. faults \in 0 .. MaxFaults /\ nonce \in Ids
  BY DEF Data
<1>2. CASE ReadPosition
  <2>1. position \in Position /\ position # Nothing
    BY KeeperConstants DEF Data
  <2>2. Loop'
    BY <1>2, <2>1 DEF ReadPosition, Loop, AwaitedIsRead
  <2>3. QED
    BY <1>2, <2>2 DEF ReadPosition, Data
<1>3. CASE ReadFails
  <2>1. Loop'
    BY <1>3 DEF ReadFails, Loop, AwaitedIsRead
  <2>2. faults' \in 0 .. MaxFaults /\ nonce' \in Ids
    BY <1>1, <1>3, FaultKeepsType, NonceKeepsType DEF ReadFails
  <2>3. QED
    BY <1>3, <2>1, <2>2 DEF ReadFails, Data
<1>4. CASE Noop
  <2>1. Loop'
    BY <1>4 DEF Noop, Loop, AwaitedIsRead
  <2>2. nonce' \in Ids
    BY <1>1, <1>4, NonceKeepsType DEF Noop
  <2>3. QED
    BY <1>4, <2>1, <2>2 DEF Noop, Data
<1>5. CASE Submit
  <2>1. nonce' \in Ids
    BY <1>1, <1>5, NonceKeepsType DEF Submit
  <2>2. Data'
    BY <1>5, <2>1 DEF Submit, Data
  <2>3. QED
    BY <1>5, <2>2, SubmitKeepsLoop
<1>6. CASE GiveUp
  <2>1. Loop'
    BY <1>6, UnawaitedKeepsLoop DEF GiveUp
  <2>2. faults' \in 0 .. MaxFaults
    BY <1>1, <1>6, FaultKeepsType DEF GiveUp
  <2>3. QED
    BY <1>6, <2>1, <2>2 DEF GiveUp, Data
<1>7. CASE Restart
  <2>1. Loop'
    BY <1>7, UnawaitedKeepsLoop DEF Restart
  <2>2. nonce' \in Ids /\ restarts' \in 0 .. MaxRestarts
    BY <1>7, KeeperConstants DEF Restart, Ids, Data
  <2>3. QED
    BY <1>7, <2>1, <2>2 DEF Restart, Data
<1>8. CASE Handle
  <2>1. PICK k \in DOMAIN requests : Allow(k) \/ Refuse(k) \/ Take(k) \/ Known(k)
    BY <1>8 DEF Handle
  <2>2. CASE Allow(k)
    BY <2>2, AllowKeepsLoop DEF Allow, Data
  <2>3. CASE Refuse(k)
    <3>1. Loop'
      BY <2>3, AnswerKeepsLoop DEF Refuse
    <3>2. faults' \in 0 .. MaxFaults
      BY <1>1, <2>3, FaultKeepsType DEF Refuse
    <3>3. QED
      BY <2>3, <3>1, <3>2 DEF Refuse, Data
  <2>4. CASE Take(k)
    <3>1. Loop'
      BY <2>4, AnswerKeepsLoop DEF Take
    <3>2. QED
      BY <2>4, <3>1, TakeKeepsData
  <2>5. CASE Known(k)
    <3>1. Loop'
      BY <2>5, AnswerKeepsLoop DEF Known
    <3>2. QED
      BY <2>5, <3>1 DEF Known, Data
  <2>6. QED
    BY <2>1, <2>2, <2>3, <2>4, <2>5
<1>9. CASE \E k \in DOMAIN pending : Mine(k) \/ Drop(k)
  <2>1. PICK k \in DOMAIN pending : Mine(k) \/ Drop(k)
    BY <1>9
  <2>2. Loop'
    BY <2>1 DEF Mine, Drop, Loop, AwaitedIsRead
  <2>3. CASE Mine(k)
    BY <2>2, <2>3, MineKeepsData
  <2>4. CASE Drop(k)
    <3>1. faults' \in 0 .. MaxFaults
      BY <1>1, <2>4, FaultKeepsType DEF Drop
    <3>2. pending' \in Seq(Nat)
      BY <2>4, Removed DEF Drop, Data
    <3>3. QED
      BY <2>2, <2>4, <3>1, <3>2 DEF Drop, Data
  <2>5. QED
    BY <2>1, <2>3, <2>4
<1>10. CASE \E c \in Moves : Move(c)
  <2>1. PICK c \in Moves : Move(c)
    BY <1>10
  <2>2. c.fn \in PoolFunctions /\ c.amount \in Nat /\ c.value \in Nat
    BY KeeperConstants, PoolConstants DEF Uint
  <2>3. position' \in Position
    BY <2>1, <2>2, PoolKeepsType DEF Move, Data
  <2>4. moves' \in 0 .. MaxMoves
    BY <2>1, KeeperConstants DEF Move, Data
  <2>5. Loop'
    BY <2>1 DEF Move, Loop, AwaitedIsRead
  <2>6. QED
    BY <2>1, <2>3, <2>4, <2>5 DEF Move, Data
<1>11. CASE UNCHANGED vars
  BY <1>11 DEF vars, Loop, AwaitedIsRead, Data
<1>12. QED
  BY <1>2, <1>3, <1>4, <1>5, <1>6, <1>7, <1>8, <1>9, <1>10, <1>11 DEF Next

\* The invariant holds throughout: one request is awaited at most, and it
\* proposes what decide makes of the position its tick has read.
THEOREM InvariantHolds == Spec => []IInv
  BY InitialState, Step, PTL DEF Spec

\* Every variable of the keeper, the gateway and KeeperHub stays in its type,
\* and the loop waits just when one of its requests is unanswered.
THEOREM TypeCorrect == Spec => []TypeOK
<1>1. IInv => TypeOK
  BY DEF IInv, Loop, Data, TypeOK
<1>2. QED
  BY <1>1, InvariantHolds, PTL

\* Whatever the scale, the floor and the target, and however its divisions
\* round: what the keeper proposes is the least repay that restores the target.
THEOREM ProposesTheLeastRepay == Spec => []ProposalsAreExact
<1>1. IInv => ProposalsAreExact
  <2>1. SUFFICES ASSUME IInv PROVE ProposalsAreExact
    OBVIOUS
  <2>2. ASSUME pc = "waiting"
        PROVE  \E k \in DOMAIN requests :
                 LET amount == requests[k].amount
                 IN  /\ requests[k].awaited
                     /\ amount \in 1 .. read.debt
                     /\ Health(Repaid(read, amount)) >= Target
                     /\ \A less \in 0 .. amount - 1 : Health(Repaid(read, less)) < Target
    <3>1. read \in Position
      BY <2>1, <2>2 DEF IInv, Loop
    <3>2. PICK k \in DOMAIN requests : requests[k].awaited
      BY <2>1, <2>2 DEF IInv, Loop
    <3>3. requests[k].amount = Decide(read) /\ Decide(read) > 0
      BY <2>1, <3>2 DEF IInv, Loop, AwaitedIsRead
    <3>4. QED
      BY <3>1, <3>2, <3>3, DecideIsExact
  <2>3. ASSUME pc = "deciding", Health(read) < Floor
        PROVE  Decide(read) > 0
    <3>1. read \in Position
      BY <2>1, <2>3 DEF IInv, Loop
    <3>2. QED
      BY <2>3, <3>1, DecideIsExact
  <2>4. QED
    BY <2>2, <2>3 DEF ProposalsAreExact
<1>2. QED
  BY <1>1, InvariantHolds, PTL

\* Whatever the pool, the others' calls and the delays: a repay of the keeper
\* that is mined leaves the position at the floor or above, or as it was.
THEOREM FloorIsKept == Spec => LateRepaysKeepTheFloor
<1> DEFINE Kept == pending' # pending /\ position' # position =>
                     ~HealthReverts(position') /\ Health(position') >= Floor
<1>1. IInv /\ [Next]_vars => [Kept]_vars
  <2>1. SUFFICES ASSUME IInv, Next, pending' # pending, position' # position
                 PROVE  ~HealthReverts(position') /\ Health(position') >= Floor
    BY DEF vars
  <2>2. PICK k \in DOMAIN pending : Mine(k)
    BY <2>1 DEF Next, ReadPosition, ReadFails, Noop, Submit, GiveUp, Restart, Handle, Allow,
                Refuse, Take, Known, Drop, Move
  <2>3. Passes(pending[k]) /\ position' = PoolEffect(RepayCall(pending[k]), position)
    BY <2>1, <2>2 DEF Mine
  <2>4. Respects(Invariants, position, position')
    BY <2>3 DEF Passes
  <2>5. /\ 1 \in DOMAIN Invariants
        /\ Invariants[1] = [word |-> 5, op |-> "GTE", threshold |-> Floor]
    BY DEF Invariants
  <2>6. ~ProbeReverts(Invariants[1], position')
        /\ ~Broken(Invariants[1], Probe(Invariants[1], position), Probe(Invariants[1], position'))
    BY <2>4, <2>5 DEF Respects
  <2>7. Probe(Invariants[1], position') = Health(position')
    BY <2>5 DEF Probe
  <2>8. ~HealthReverts(position') /\ ~(Health(position') < Floor)
    BY <2>5, <2>6, <2>7 DEF ProbeReverts, Broken
  <2>9. position' \in Position
    BY <2>1, Step DEF IInv, Data
  <2>10. Health(position') \in Int
    BY <2>9, HealthIsInteger
  <2>11. QED
    BY <2>8, <2>10, KeeperConstants
<1>2. QED
  BY <1>1, InvariantHolds, PTL DEF Spec, LateRepaysKeepTheFloor
=============================================================================
