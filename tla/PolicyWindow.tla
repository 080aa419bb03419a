---------------------------- MODULE PolicyWindow ----------------------------
(***************************************************************************)
(* A policy in force over time: intents come one after the other and are   *)
(* evaluated in the context that the gateway and the dashboard build.      *)
(* Time is counted in hours.  The canvas of the dashboard edits such a     *)
(* policy; what it does to one is stated for every context, also for those *)
(* with a history, which evaluate takes and only its tests pass.           *)
(***************************************************************************)
EXTENDS CanvasEditor

CONSTANTS
    Submitted,
    Contexts,         \* contexts that evaluate may be given
    Start,            \* the hour at which the policy comes into force
    MaxHours,         \* bound on the time
    MaxDecisions      \* bound on the intents submitted

ASSUME WindowConstants ==
    /\ Start \in Nat /\ MaxHours \in Nat /\ MaxDecisions \in Nat
    /\ \A intent \in Submitted :
         /\ intent.calls \in Seq(Range(intent.calls))
         /\ \A k \in DOMAIN intent.calls :
              intent.calls[k].value \in Nat /\ intent.calls[k].approval \in Nat \cup {Absent}
    /\ \A ctx \in Contexts :
         /\ ctx.now \in Nat
         /\ ctx.history \in Seq(Range(ctx.history))
         /\ \A k \in DOMAIN ctx.history : ctx.history[k].value \in Nat /\ ctx.history[k].at \in Nat

VARIABLES
    now,
    decided    \* what was decided, and when

windowVars == <<policy, pageVars, now, decided>>

WindowInit ==
    /\ EditorInit
    /\ now = Start
    /\ decided = <<>>

\* Bound: the page is used before the first intent, and intents are followed
\* under the policies of Policies only.
Followed == ~IsOpen /\ policy \in Policies

\* contextFor of the gateway, and the context of runIntent: no history, nobody known
\* and no gas, so that the limits of a window are those of one intent, against "Max
\* native value across the rolling window" (schema.ts:30-33).
ContextFor(time) == [now |-> time, history |-> <<>>, known |-> {}, gasEstimate |-> Absent]

Submits(intent) ==
    /\ Followed
    /\ Len(decided) < MaxDecisions
    /\ decided' = Append(decided, [at |-> now, verdict |-> Evaluate(intent, policy, ContextFor(now))])
    /\ UNCHANGED <<policy, pageVars, now>>

Tick ==
    /\ Followed
    /\ now < Start + MaxHours
    /\ now' = now + 1
    /\ UNCHANGED <<policy, pageVars, decided>>

EditPolicy ==
    /\ decided = <<>> /\ now = Start
    /\ EditorNext
    /\ UNCHANGED <<now, decided>>

WindowNext ==
    \/ \E intent \in Submitted : Submits(intent)
    \/ Tick
    \/ EditPolicy

WindowSpec == WindowInit /\ [][WindowNext]_windowVars
-----------------------------------------------------------------------------
(* Properties *)

\* The hours of a schedule, walked one by one from its start to its end.
Scheduled ==
    LET start == policy.schedule[1]
        length == policy.schedule[2] - start
        hours == IF length >= 0 THEN length ELSE length + HoursOfDay
    IN  {(start + k) % HoursOfDay : k \in 0 .. hours - 1}

\* Nothing passes outside the schedule, also when it goes over midnight, and
\* within it no intent is refused because of it.
ScheduleIsKept ==
    policy.schedule # Absent =>
        /\ \A k \in DOMAIN decided :
             decided[k].verdict # "DENY" => decided[k].at % HoursOfDay \in Scheduled
        /\ now % HoursOfDay \in Scheduled => ScheduleWindow(policy, ContextFor(now)) = {}

Verdicts(rules, ctx) == [intent \in Submitted |-> Evaluate(intent, rules, ctx)]

\* A policy opened on the canvas and deployed again decides every intent as it
\* did, but for its schedule, for which there is no way back to a block, and
\* wherever no target is left without a selector.  So it is for a policy that
\* was edited there before, too.
ReopeningKeepsTheRules ==
    {} \notin Range(policy.selectors) =>
        LET reopened == Compile(PolicyToBlocks(policy) \o Floor, CarryOver(policy))
        IN  \A ctx \in Contexts :
                Verdicts(reopened, ctx) = Verdicts([policy EXCEPT !.schedule = Absent], ctx)

\* The fields whose values the canvas takes and parsePolicy does not: no
\* window, no intents, and a day that begins at its end.
OddNumbers(rules) ==
    \/ rules.window = 0 \/ rules.maxIntentsPerWindow = 0
    \/ rules.schedule # Absent /\ rules.schedule[1] = HoursOfDay

\* Of what the canvas reports, this is so, however it was edited and over any number
\* of deployments: a function reported as one that can never run never does; with no
\* target no call runs; above the cap, the review threshold holds nothing; and what is
\* reported as deployable parsePolicy accepts, but for OddNumbers.  The last two are
\* less than the canvas says: an intent may still "reach a human" (compile.ts:176), for
\* an unknown counterparty, and a deployable policy is not always one that "would be
\* accepted" (compile.ts:46).
ReportsAreTrue ==
    IsOpen =>
        LET rules == Compile(canvas, carry)
            unlisted == {canvas[k].values.address[1] : k \in Unlisted(canvas)}
        IN  /\ Deployable(canvas) => Accepted(rules) \/ OddNumbers(rules)
            /\ Accepted(rules) =>
                 \A intent \in Submitted, ctx \in Contexts :
                    \/ Denials(intent, rules, ctx) # {}
                    \/ /\ unlisted \cap {call.target : call \in ToSet(intent.calls)} = {}
                       /\ intent.calls # <<>> => Placed(canvas, "target") # {}
                       /\ HoldAboveCap(canvas) => HoldOnLargeValue(intent, rules) = {}

\* The intents, and what they are evaluated in, on which a policy rules so.
Ruled(rules, verdict) ==
    {c \in Submitted \X Contexts : Evaluate(c[1], rules, c[2]) = verdict}

\* The blocks that cannot be removed to loosen a policy: a target, and the only
\* cap, rate limit, approval bound or review threshold.  Not so a selector, a
\* schedule or an invariant; one of two of a kind, behind which the other counts;
\* and a rate limit whose window is longer than the one the canvas falls back to.
Tightening(rules) ==
    {k \in DOMAIN canvas :
        LET kind == canvas[k].kind
        IN  /\ kind \in {"target", "valueCap", "rateLimit", "approvalBound", "holdAbove"}
            /\ kind # "target" => Placed(canvas, kind) = {k}
            /\ kind = "rateLimit" => rules.window <= Compile(RemoveAt(canvas, k), carry).window}

\* Removing such a block from the canvas never loosens the policy it compiles to:
\* what stands in for the missing field (compile.ts:202-211) is no laxer than any
\* value that was there.
RemovalsNeverLoosen ==
    IsOpen =>
        LET rules == Compile(canvas, carry)
            denied == Ruled(rules, "DENY")
            held == Ruled(rules, "HOLD")
        IN  Accepted(rules) =>
                \A k \in Tightening(rules) :
                    LET without == Compile(RemoveAt(canvas, k), carry)
                    IN  /\ \A c \in denied : Evaluate(c[1], without, c[2]) = "DENY"
                        /\ \A c \in held : Evaluate(c[1], without, c[2]) # "ALLOW"
=============================================================================
