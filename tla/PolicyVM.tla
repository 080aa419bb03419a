------------------------------ MODULE PolicyVM ------------------------------
(***************************************************************************)
(* packages/policy/src: the rules, and evaluate over them.  A rule is the  *)
(* set of the reason codes it raises; their index, wording and detail are  *)
(* left out.  Values, gas and approvals are bigints, so natural numbers.   *)
(***************************************************************************)
EXTENDS Integers, SequencesExt

CONSTANTS
    Absent,      \* an optional field that is not there
    HoursOfDay   \* 24 in the source

AddValue(total, call) == total + call.value
SumValues(calls) == FoldLeft(AddValue, 0, calls)

Raise(code, condition) == IF condition THEN {code} ELSE {}

ChainAllowed(intent, policy) ==
    Raise("CHAIN_NOT_ALLOWED", intent.chain \notin policy.chains)

\* Addresses are compared without their case.
TargetAllowlist(intent, policy) ==
    Raise("TARGET_NOT_ALLOWED", \E call \in ToSet(intent.calls) : call.target \notin policy.allow)

\* The selectors of a target are looked up in lower case, then as the call
\* spells it; a target without an entry is not restricted.
SelectorEntry(call, policy) ==
    LET keys == {<<call.target, "lower">>, <<call.target, call.spelling>>} \cap DOMAIN policy.selectors
    IN  IF keys = {} THEN Absent
        ELSE IF <<call.target, "lower">> \in keys THEN policy.selectors[<<call.target, "lower">>]
        ELSE policy.selectors[<<call.target, call.spelling>>]

SelectorAllowlist(intent, policy) ==
    Raise("SELECTOR_NOT_ALLOWED",
        \E call \in ToSet(intent.calls) :
            LET entry == SelectorEntry(call, policy)
            IN  entry # Absent /\ "*" \notin entry /\ call.selector \notin entry)

ValueCap(intent, policy) ==
    Raise("VALUE_CAP_EXCEEDED", SumValues(intent.calls) > policy.maxValuePerIntent)

\* The entries of the history, by their places, that are not too old.
Recent(policy, ctx) ==
    {k \in DOMAIN ctx.history :
        ctx.history[k].verdict # "DENY" /\ ctx.history[k].at >= ctx.now - policy.window}

\* What the entries at these places sum up to.
ValueOf(history, places) ==
    SumValues([k \in DOMAIN history |-> [value |-> IF k \in places THEN history[k].value ELSE 0]])

WindowedLimits(intent, policy, ctx) ==
    Raise("RATE_LIMIT_EXCEEDED", Cardinality(Recent(policy, ctx)) + 1 > policy.maxIntentsPerWindow)
    \cup
    Raise("WINDOW_VALUE_EXCEEDED",
        ValueOf(ctx.history, Recent(policy, ctx)) + SumValues(intent.calls) > policy.maxValuePerWindow)

\* Slip: a schedule over midnight is not wrapped.
InsideDaytime(hour, start, end) == hour >= start /\ hour < end

Inside(hour, start, end) ==
    IF start <= end THEN hour >= start /\ hour < end ELSE hour >= start \/ hour < end

ScheduleWindow(policy, ctx) ==
    Raise("OUTSIDE_SCHEDULE",
        policy.schedule # Absent
        /\ ~Inside(ctx.now % HoursOfDay, policy.schedule[1], policy.schedule[2]))

\* Only approve(address,uint256) with its two words has an amount.
ApprovalBound(intent, policy) ==
    Raise("APPROVAL_TOO_LARGE",
        \E call \in ToSet(intent.calls) :
            call.approval # Absent /\ call.approval > policy.maxApproval)

GasCeiling(policy, ctx) ==
    Raise("GAS_CEILING_EXCEEDED", ctx.gasEstimate # Absent /\ ctx.gasEstimate > policy.maxGas)

InvariantsRequired(intent, policy) ==
    Raise("TOO_FEW_INVARIANTS", intent.invariants < policy.minInvariants)

HoldOnLargeValue(intent, policy) ==
    Raise("HOLD_LARGE_VALUE", SumValues(intent.calls) >= policy.holdAboveValue)

HoldOnUnknownCounterparty(intent, policy, ctx) ==
    Raise("HOLD_UNKNOWN_COUNTERPARTY",
        policy.holdUnknown /\ \E call \in ToSet(intent.calls) : call.target \notin ctx.known)

Denials(intent, policy, ctx) ==
    UNION {ChainAllowed(intent, policy), TargetAllowlist(intent, policy),
           SelectorAllowlist(intent, policy), ValueCap(intent, policy),
           WindowedLimits(intent, policy, ctx), ScheduleWindow(policy, ctx),
           ApprovalBound(intent, policy), GasCeiling(policy, ctx),
           InvariantsRequired(intent, policy)}

Holds(intent, policy, ctx) ==
    HoldOnLargeValue(intent, policy) \cup HoldOnUnknownCounterparty(intent, policy, ctx)

\* DENY dominates HOLD; HOLD dominates ALLOW.
Verdict(denied, held) ==
    IF denied # {} THEN "DENY" ELSE IF held # {} THEN "HOLD" ELSE "ALLOW"

Evaluate(intent, policy, ctx) ==
    Verdict(Denials(intent, policy, ctx), Holds(intent, policy, ctx))
=============================================================================
