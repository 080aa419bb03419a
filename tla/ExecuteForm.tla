---------------------------- MODULE ExecuteForm -----------------------------
(***************************************************************************)
(* What the dashboard makes of its execute form (apps/dashboard/lib/       *)
(* execute.ts, components/execute-panel.tsx): a borrow with native value   *)
(* attached, both typed in ETH, and what its demo policy says to it.  A    *)
(* typed amount is its digits before and after the point.                  *)
(***************************************************************************)
EXTENDS PolicyVM

CONSTANTS
    Decimals,    \* digits of an ETH behind the point, 18 in the source
    Forms        \* what somebody may have typed: [amount, value]

ASSUME FormConstants == Decimals \in Nat \ {0, 1}

Typed(whole, fraction) == [whole |-> whole, fraction |-> fraction]
Empty == Typed(<<>>, <<>>)
Ether == 10 ^ Decimals

Numeral(digits) == FoldLeft(LAMBDA n, digit : 10 * n + digit, 0, digits)

\* Digits, and a point only with digits behind it.
IsAmount(typed) == typed.whole # <<>> /\ Len(typed.fraction) <= Decimals

\* The fraction is padded with zeros on the right.
EthToWei(typed) ==
    LET padding == [k \in 1 .. Decimals - Len(typed.fraction) |-> 0]
    IN  Numeral(typed.whole) * Ether + Numeral(typed.fraction \o padding)

\* No amount is a 400; an empty value is none.
Accepted(form) == IsAmount(form.amount) /\ (form.value = Empty \/ IsAmount(form.value))
ValueWei(form) == IF form.value = Empty THEN 0 ELSE EthToWei(form.value)

\* One call of borrowMore on the target, with the health factor as invariant.
BuildIntent(form) ==
    [chain |-> "home",
     calls |-> <<[target |-> "target", spelling |-> "configured", selector |-> "borrowMore",
                  value |-> ValueWei(form), approval |-> Absent]>>,
     invariants |-> 1]

\* The policy when NOYEET_POLICY is not set: 1 ETH an intent, 3 an hour, and a
\* person from 0.01 ETH on.
PolicyFromConfig ==
    [chains |-> {"home"}, allow |-> {"target"},
     selectors |-> [key \in {<<"target", "configured">>} |-> {"borrowMore", "repay"}],
     maxValuePerIntent |-> Ether, maxValuePerWindow |-> 3 * Ether, window |-> 1,
     maxIntentsPerWindow |-> 5, maxGas |-> 1500000, holdAboveValue |-> Ether \div 100,
     holdUnknown |-> FALSE, schedule |-> Absent, maxApproval |-> 1000000000, minInvariants |-> 1]

\* runIntent passes no history, no known counterparty and no gas.
FormContext == [now |-> 0, history |-> <<>>, known |-> {}, gasEstimate |-> Absent]
FormVerdict(form) == Evaluate(BuildIntent(form), PolicyFromConfig, FormContext)

Zeros(digits) == \A k \in DOMAIN digits : digits[k] = 0

\* "0.01 ETH or more waits for a human to approve it first", the form says
\* (execute-panel.tsx:138): digit by digit, nothing smaller waits and nothing
\* from there on goes unasked.  What it does not say: above one ETH all is denied.
ASSUME FormTellsTheTruth ==
    \A form \in {f \in Forms : Accepted(f)} :
        LET value == form.value
            cents == SubSeq(value.fraction, 1, IF Len(value.fraction) < 2 THEN Len(value.fraction) ELSE 2)
            small == Zeros(value.whole) /\ Zeros(cents)
            above == \/ Len(value.whole) > 1 /\ ~Zeros(Front(value.whole))
                     \/ value.whole # <<>> /\ Last(value.whole) > 1
                     \/ ~Zeros(value.whole) /\ ~Zeros(value.fraction)
        IN  FormVerdict(form) = IF small THEN "ALLOW" ELSE IF above THEN "DENY" ELSE "HOLD"
=============================================================================
