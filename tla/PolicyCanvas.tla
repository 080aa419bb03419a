---------------------------- MODULE PolicyCanvas ----------------------------
(***************************************************************************)
(* The dashboard's canvas (apps/dashboard/lib/canvas): a policy is opened  *)
(* as blocks and compiled to a policy again.  An address is a pair, the    *)
(* target and how it is spelled; an allowlist opened from a policy counts  *)
(* as lower case, because nothing compares its spelling.  Where a block is *)
(* drawn, its title and its invariant tuple are left out, as is the        *)
(* policy's name; numbers stand for the strings that spell them.           *)
(***************************************************************************)
EXTENDS PolicyVM

CONSTANTS
    Blank,        \* a field somebody emptied
    Malformed,    \* text that is no address, selector or number
    HomeChain,    \* 11155111
    DefaultGas    \* 2000000

\* What parsePolicy returns.
IsPolicy(p) ==
    /\ p = [chains |-> p.chains, allow |-> p.allow, selectors |-> p.selectors,
            maxValuePerIntent |-> p.maxValuePerIntent, maxValuePerWindow |-> p.maxValuePerWindow,
            window |-> p.window, maxIntentsPerWindow |-> p.maxIntentsPerWindow,
            maxGas |-> p.maxGas, holdAboveValue |-> p.holdAboveValue,
            holdUnknown |-> p.holdUnknown, schedule |-> p.schedule,
            maxApproval |-> p.maxApproval, minInvariants |-> p.minInvariants]
    /\ p.chains # Absent /\ p.maxGas # Absent /\ p.holdUnknown # Absent /\ p.minInvariants # Absent
    /\ {p.maxValuePerIntent, p.maxValuePerWindow, p.window, p.maxIntentsPerWindow,
        p.holdAboveValue, p.maxApproval} \subseteq Nat
    /\ p.window > 0 /\ p.maxIntentsPerWindow > 0
    /\ p.schedule # Absent =>
         p.schedule[1] \in 0 .. HoursOfDay - 1 /\ p.schedule[2] \in 0 .. HoursOfDay
    /\ IsFiniteSet(p.allow)
    /\ IsFiniteSet(DOMAIN p.selectors) /\ Blank \notin DOMAIN p.selectors
    /\ p.selectors = [a \in DOMAIN p.selectors |-> p.selectors[a]]
    /\ \A a \in DOMAIN p.selectors : IsFiniteSet(p.selectors[a]) /\ Blank \notin p.selectors[a]

Block(kind, values) == [kind |-> kind, values |-> values]

\* Where the blocks of a kind lie in the order they were placed.
Placed(blocks, kind) == {k \in DOMAIN blocks : blocks[k].kind = kind}
Invariants(blocks) == {k \in DOMAIN blocks : blocks[k].kind \in {"invariantFloor", "invariantDrop"}}

Filled(block, key) == block.values[key] # Blank

\* A field of the first block of a kind.
Value(blocks, kind, key, fallback) ==
    LET first == blocks[Min(Placed(blocks, kind))]
    IN  IF Placed(blocks, kind) # {} /\ Filled(first, key) THEN first.values[key] ELSE fallback

Addresses(blocks, kind) ==
    {blocks[k].values.address : k \in {j \in Placed(blocks, kind) : Filled(blocks[j], "address")}}

\* The selectors placed for one address, as it is spelled, add up.
Selectors(blocks) ==
    LET placed == {k \in Placed(blocks, "selector") :
                      Filled(blocks[k], "address") /\ Filled(blocks[k], "selector")}
    IN  [a \in {blocks[k].values.address : k \in placed} |->
            {blocks[k].values.selector : k \in {j \in placed : blocks[j].values.address = a}}]

\* Slip: without a cap an intent may spend what a window may.
CapOfWindow(blocks) ==
    Value(blocks, "valueCap", "maxPerIntent", Value(blocks, "rateLimit", "maxValue", 0))

Cap(blocks) == Value(blocks, "valueCap", "maxPerIntent", 0)

\* mergeInto: what no block shows is carried over from the policy opened.
Carried(field, compiled) == IF field = Absent THEN compiled ELSE field

Compile(blocks, carryOver) ==
    [chains |-> Carried(carryOver.chains, {HomeChain}),
     allow |-> {a[1] : a \in Addresses(blocks, "target")},
     selectors |-> Selectors(blocks),
     maxValuePerIntent |-> Cap(blocks),
     maxValuePerWindow |-> Value(blocks, "rateLimit", "maxValue", 0),
     window |-> Value(blocks, "rateLimit", "window", 1),
     maxIntentsPerWindow |-> Value(blocks, "rateLimit", "maxIntents", 1),
     maxGas |-> Carried(carryOver.maxGas, DefaultGas),
     holdAboveValue |-> Value(blocks, "holdAbove", "nativeValue", 0),
     holdUnknown |-> Carried(carryOver.holdUnknown, TRUE),
     schedule |->
        IF Placed(blocks, "schedule") = {} THEN Absent
        ELSE <<Value(blocks, "schedule", "startHour", 0), Value(blocks, "schedule", "endHour", HoursOfDay)>>,
     maxApproval |-> Value(blocks, "approvalBound", "maxApproval", 0),
     minInvariants |->
        Carried(carryOver.minInvariants, IF Invariants(blocks) = {} THEN 1 ELSE Cardinality(Invariants(blocks)))]

\* Slip: every address is compared as it is spelled.
UnlistedAsSpelled(blocks) ==
    {k \in Placed(blocks, "selector") :
        Filled(blocks[k], "address") /\ blocks[k].values.address \notin Addresses(blocks, "target")}

\* The selector blocks warned of as scoped to a contract that is not allowed.
Unlisted(blocks) ==
    {k \in Placed(blocks, "selector") :
        /\ Filled(blocks[k], "address")
        /\ blocks[k].values.address[1] \notin {a[1] : a \in Addresses(blocks, "target")}}

\* The canvas warns that the review threshold is above the value cap.
HoldAboveCap(blocks) ==
    /\ Placed(blocks, "valueCap") # {} /\ Placed(blocks, "holdAbove") # {}
    /\ Cap(blocks) # Malformed
    /\ Value(blocks, "holdAbove", "nativeValue", 0) # Malformed
    /\ Value(blocks, "holdAbove", "nativeValue", 0) > Cap(blocks)

\* A field with nothing in it or of the wrong format; "*" is no selector.
Invalid(block) ==
    \/ \E key \in DOMAIN block.values : block.values[key] \in {Blank, Malformed}
    \/ block.kind = "selector" /\ block.values.selector = "*"
    \/ block.kind = "schedule" /\ \E key \in DOMAIN block.values : block.values[key] > HoursOfDay

Deployable(blocks) ==
    /\ \A b \in ToSet(blocks) : ~Invalid(b)
    /\ Placed(blocks, "target") # {}
    /\ Invariants(blocks) # {}

\* parsePolicy of a policy compiled; what is carried over passed it before.
Accepted(policy) ==
    /\ \A codes \in Range(policy.selectors) : Malformed \notin codes
    /\ Malformed \notin {policy.maxValuePerIntent, policy.maxValuePerWindow, policy.window,
                       policy.maxIntentsPerWindow, policy.holdAboveValue, policy.maxApproval}
    /\ policy.window > 0 /\ policy.maxIntentsPerWindow > 0
    /\ policy.schedule # Absent =>
         LET hours == policy.schedule
         IN  Malformed \notin {hours[1], hours[2]} /\ hours[1] < HoursOfDay /\ hours[2] <= HoursOfDay
-----------------------------------------------------------------------------
(* policyToBlocks: there is no block for a schedule, and none for a target *)
(* with no selector.                                                       *)

SelectorBlocks(selectors) ==
    SetToSeq(UNION {{Block("selector", [address |-> a, selector |-> s]) : s \in selectors[a]} :
                    a \in DOMAIN selectors})

PolicyToBlocks(policy) ==
    SetToSeq({Block("target", [address |-> <<t, "lower">>]) : t \in policy.allow})
    \o SelectorBlocks(policy.selectors)
    \o <<Block("valueCap", [maxPerIntent |-> policy.maxValuePerIntent]),
         Block("rateLimit", [maxValue |-> policy.maxValuePerWindow, window |-> policy.window,
                             maxIntents |-> policy.maxIntentsPerWindow]),
         Block("approvalBound", [maxApproval |-> policy.maxApproval]),
         Block("holdAbove", [nativeValue |-> policy.holdAboveValue])>>

\* Slip: unknownCounterparty is reported as unmapped, but not carried over.
CarryOverForgetful(policy) ==
    [chains |-> policy.chains, maxGas |-> policy.maxGas, holdUnknown |-> Absent,
     minInvariants |-> policy.minInvariants]

CarryOver(policy) ==
    [chains |-> policy.chains, maxGas |-> policy.maxGas, holdUnknown |-> policy.holdUnknown,
     minInvariants |-> policy.minInvariants]

\* A canvas that was opened without a policy.
NothingCarried == [chains |-> Absent, maxGas |-> Absent, holdUnknown |-> Absent, minInvariants |-> Absent]
=============================================================================
