----------------------------- MODULE MCServing ------------------------------
(***************************************************************************)
(* A post and a wait; a response of each kind; every denial of the guard,  *)
(* one of them in each wrapper that can be read; some in wrappers that     *)
(* cannot, and one whose index is no safe integer; and a called contract   *)
(* that reverts without a reason, with a denial of the guard's form, and   *)
(* with what only begins like one.                                         *)
(***************************************************************************)
EXTENDS Serving

MCDigits == {"0", "5", "7", "huge"}
MCSafeDigits == MCDigits \ {"huge"}
MCKind == [c \in Callers |-> IF c = "script" THEN "wait" ELSE "decide"]
MCEnvironments ==
    {[missing |-> {}, policyValid |-> TRUE, kafka |-> kafka, otel |-> kafka] : kafka \in BOOLEAN}
        \cup {[missing |-> {"NOYEET_POLICY"}, policyValid |-> FALSE, kafka |-> FALSE, otel |-> FALSE],
              [missing |-> {}, policyValid |-> FALSE, kafka |-> FALSE, otel |-> FALSE]}

Broken == <<"INV", "0", "5", "huge">>
Unread == {<<"PROBE_FAILED", "0">>, <<"PROBE_SHORT", "0", "5", "7">>, <<"CALL_FAILED">>}
Wrapped(d) == Text(TRUE, "", d, "")
Readable(d) ==
    {Text(FALSE, "", d, ""), Wrapped(d), Text(FALSE, "execution reverted: ", d, "blank"),
     Text(TRUE, "", d, "blank"), Text(TRUE, "reverted: ", d, "more")}

Passes == Plain(200, None)
Unfunded == Reverts("validation", NoReason)
Mangled ==
    {Reverts("revert", Text(FALSE, "reverted: '", <<"INV", "0", "5", "7">>, "'")),
     Reverts("revert", Text(TRUE, "reverted: ", <<"INV", "0", "5", "7">>, "")),
     Reverts("revert", Wrapped(<<"INV", "huge", "5", "7">>))}
Callees ==
    {Reverts("revert", NoReason), Reverts("revert", Wrapped(<<"INV", "7", "0", "5">>)),
     Reverts("revert", Wrapped(<<"INV", "all">>))}
DeniedResponses ==
    {Reverts("revert", text) : text \in Readable(Broken) \cup {Wrapped(d) : d \in Unread}}
Refusals == {Plain(400, None), Plain(401, None), Plain(409, "idempotency_conflict")}
Busy == Plain(409, "idempotency_in_progress")

MCHealthy ==
    [decide |-> {Passes, Unfunded, Busy} \cup Callees \cup Mangled \cup DeniedResponses \cup Refusals,
     wait |-> {Plain(200, "terminal"), Plain(200, "running"), Plain(404, None)}]
MCFaults ==
    {Plain(0, "TimeoutError"), Plain(0, "TypeError"), Plain(429, None), Plain(500, None),
     Plain(503, "upstream_cold_start")}
MCCause ==
    [r \in MCHealthy.decide \cup MCHealthy.wait \cup MCFaults |->
        [by |-> CASE r = Passes -> "passes"
                  [] r = Unfunded -> "preflight"
                  [] r \in DeniedResponses -> "guard"
                  [] r \in Mangled -> "mangled"
                  [] OTHER -> "callee",
         said |-> r.reason.fields]]
=============================================================================
