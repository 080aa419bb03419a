--------------------------- MODULE MCPolicyWindow ---------------------------
(***************************************************************************)
(* Three policies (no schedule, by day, over midnight; the last placed on  *)
(* the canvas), intents of one or two calls that differ in everything a    *)
(* rule looks at, two edits that may put one thing wrong each, and         *)
(* contexts with and without a history, as the tests of evaluate pass it.  *)
(***************************************************************************)
EXTENDS PolicyWindow

Call(target, spelling, selector, value, approval) ==
    [target |-> target, spelling |-> spelling, selector |-> selector, value |-> value,
     approval |-> approval]

MCCalls ==
    {Call("pool", "lower", "repay", v, Absent) : v \in {0, 2}}
    \cup {Call("pool", "mixed", "borrow", 0, Absent), Call("token", "mixed", "approve", 0, 2),
          Call("token", "lower", "approve", 0, 9), Call("other", "lower", "repay", 0, Absent)}

MCSubmitted ==
    {[chain |-> 1, calls |-> <<call>>, invariants |-> 1] : call \in MCCalls}
    \cup {[chain |-> c, calls |-> <<Call("pool", "mixed", "repay", 1, Absent),
                                    Call("token", "lower", "transfer", 1, Absent)>>,
           invariants |-> 2 - c] : c \in 1 .. 2}
    \cup {[chain |-> 1, calls |-> <<>>, invariants |-> 1]}

Policy(schedule, unknown) ==
    [chains |-> {1}, allow |-> {"pool", "token"},
     selectors |-> (<<"pool", "mixed">> :> {"repay"} @@ <<"token", "lower">> :> {"*"}),
     maxValuePerIntent |-> 2, maxValuePerWindow |-> 3, window |-> 1, maxIntentsPerWindow |-> 2,
     maxGas |-> 5, holdAboveValue |-> 2, holdUnknown |-> unknown, schedule |-> schedule,
     maxApproval |-> 5, minInvariants |-> 1]

Target(t, spelling) == Block("target", [address |-> <<t, spelling>>])
Selector(t, spelling, selector) == Block("selector", [address |-> <<t, spelling>>, selector |-> selector])

\* A policy placed block by block, with a schedule over midnight.
Overnight ==
    Compile(<<Target("pool", "mixed"), Target("token", "lower"), Selector("pool", "mixed", "repay"),
              Selector("token", "lower", "approve"), Block("valueCap", [maxPerIntent |-> 2]),
              Block("rateLimit", [maxIntents |-> 2, window |-> 1, maxValue |-> 3]),
              Block("holdAbove", [nativeValue |-> 2]), Block("approvalBound", [maxApproval |-> 5]),
              Block("schedule", [startHour |-> 3, endHour |-> 1])>>,
            [NothingCarried EXCEPT !.holdUnknown = FALSE])

MCPolicies == {Policy(Absent, TRUE), Policy(<<1, 3>>, FALSE), Overnight}
MCFloor == <<Block("invariantFloor", [word |-> 5, threshold |-> 14])>>
MCTarget == <<"pool", "mixed">>

Numbers == {Blank, Malformed, 0, 3}
MCFillings ==
    [address |-> {Blank, <<"pool", "lower">>, <<"other", "lower">>},
     selector |-> {Blank, Malformed, "*", "transfer"},
     maxPerIntent |-> Numbers, maxApproval |-> {Blank, 0}, maxIntents |-> {0, 1}, window |-> {Malformed, 0, 3},
     maxValue |-> {Blank, 3}, nativeValue |-> Numbers, startHour |-> {HoursOfDay}, endHour |-> {1},
     word |-> {Malformed}, threshold |-> {Blank, 0}]

\* Nothing passed before, or an intent long ago or right now.
Context(time, known, past) ==
    [now |-> time, history |-> [k \in DOMAIN past |-> [at |-> past[k], verdict |-> "ALLOW", value |-> 1]],
     known |-> known, gasEstimate |-> Absent]
MCContexts ==
    {Context(2, {"pool"}, past) : past \in {<<>>, <<0>>, <<2>>}}
    \cup {Context(2, {}, <<>>), Context(3, {"pool"}, <<0>>)}
    \cup {[Context(2, {"pool"}, <<>>) EXCEPT !.gasEstimate = 6]}
=============================================================================
