---------------------------- MODULE PositionPool ----------------------------
(***************************************************************************)
(* The lending position the guard holds (packages/guard/src/               *)
(* PositionPool.sol), as operators on one borrower's position.  Solidity   *)
(* arithmetic is checked: an intermediate result above MaxUint reverts the *)
(* call, and a revert is the FALSE of the "Accepts" operators below.       *)
(***************************************************************************)
EXTENDS Integers

CONSTANTS
    MaxUint,   \* type(uint256).max
    LtvBps,    \* LTV_BPS, 7500 in the source
    Bps,       \* 10000 in the source
    Unit       \* 1e18, the scale of the health factor

ASSUME PoolConstants ==
    /\ MaxUint \in Nat
    /\ LtvBps \in Nat
    /\ Bps \in Nat \ {0}
    /\ Unit \in Nat

Uint == 0 .. MaxUint

Position == [collateral : Uint, debt : Uint]

\* healthFactorOf reverts when a product overflows, which it only computes
\* when there is debt.
HealthReverts(p) ==
    /\ p.debt # 0
    /\ \/ p.collateral * LtvBps > MaxUint
       \/ ((p.collateral * LtvBps) \div Bps) * Unit > MaxUint

Health(p) ==
    IF p.debt = 0
      THEN MaxUint
      ELSE (((p.collateral * LtvBps) \div Bps) * Unit) \div p.debt

AtMost(n, limit) == IF n > limit THEN limit ELSE n

\* A call of the pool by the position's holder: a record with the function,
\* the amount argument and the wei sent with it.
PoolFunctions == {"depositCollateral", "borrowMore", "repay"}

PoolEffect(c, p) ==
    CASE c.fn = "depositCollateral" -> [p EXCEPT !.collateral = @ + c.value]
      [] c.fn = "borrowMore" -> [p EXCEPT !.collateral = @ + c.value,
                                          !.debt = @ + c.amount]
      [] c.fn = "repay" -> [p EXCEPT !.debt = @ - AtMost(c.amount, @)]

\* The call does not revert: repay is not payable, sums do not overflow, and
\* the event of borrowMore and repay can be computed.
PoolAccepts(c, p) ==
    LET q == PoolEffect(c, p) IN
    /\ c.fn = "repay" => c.value = 0
    /\ q.collateral <= MaxUint
    /\ q.debt <= MaxUint
    /\ c.fn # "depositCollateral" => ~HealthReverts(q)
=============================================================================
