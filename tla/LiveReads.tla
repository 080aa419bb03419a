----------------------------- MODULE LiveReads ------------------------------
(***************************************************************************)
(* The dashboard's live endpoints and pages: /readyz, /api/metrics,        *)
(* /api/health, /api/position, the overview and guard pages, the probe     *)
(* (lib/probe.ts) and the collector.  Each cuts one answer out of several  *)
(* reads of KeeperHub, of the chain through an RPC node, and of the store, *)
(* while all of these change between the reads.                            *)
(***************************************************************************)
EXTENDS Collect, PositionPool, Sequences, FiniteSetsExt

CONSTANTS
    Environments,  \* the environments a deployment can be given
    Wallets,       \* "hub", the wallet KeeperHub signs with, and others
    Positions,     \* positions the guard can hold in the pool
    Floor,         \* healthFactorFloor
    Small, Large,  \* what the probe borrows
    Safe, Unsafe,  \* what the collector borrows
    ListLimit,     \* listTransactions asks for 200 receipts
    MaxReceipts,   \* bound: receipts in the store
    MaxMoves,      \* bound: changes of the world within one request
    Seconds,       \* what a wall-clock difference can be
    Thrown         \* what a fetch that rejects brings

ASSUME ReadsConstants ==
    /\ Positions \subseteq Position
    /\ Floor \in Nat \ {0}
    /\ {Small, Large, Safe, Unsafe} \subseteq Nat \ {0}
    /\ Seconds \subseteq Int /\ LatencyBounds \subseteq Int
    /\ Thrown \notin {"found", "unauthorized", "refused", "yes", "no", "admin"}

VARIABLES
    env,       \* this deployment's configuration
    world,     \* KeeperHub, the RPC node, the chain and the store
    request,   \* the request in flight: its kind and the reads it waits for
    got,       \* what the reads of it that ended brought
    registry,  \* the collector's registry
    reply,     \* the last answer
    seen       \* history: the worlds there were since the request came in

readsVars == <<env, world, request, got, registry, reply, seen>>

\* KeeperHub "unfunded" refuses in preflight; "erroring" answers without a
\* verdict.
Hubs == {"up", "unfunded", "unauthorized", "erroring", "down"}
Kinds == {"readyz", "metrics", "health", "overview", "guardPage", "position", "probe", "collect"}
Idle == [kind |-> "none", stage |-> 0, waiting |-> {}]
Nothing == [f \in {} |-> 0]
NoReply == [kind |-> "none", status |-> 0, says |-> Nothing]
-----------------------------------------------------------------------------
(* loadConfig: an empty variable is an unset one, and a seed without label *)
(* and hash is dropped.  The executor is a wallet, or "" when unset.       *)

Given(e, name) == e[name] \notin {"unset", ""}

LoadConfig(e) ==
    [guard |-> Given(e, "guard"), target |-> Given(e, "target") /\ Given(e, "floor"),
     key |-> Given(e, "key"), anchor |-> Given(e, "anchor"),
     database |-> Given(e, "database"), token |-> Given(e, "token"),
     executor |-> IF Given(e, "executor") THEN e.executor ELSE "",
     seeds |-> Len(SelectSeq(e.seeds, LAMBDA s : s = "whole"))]
-----------------------------------------------------------------------------
(* What each read answers in a world.                                      *)

Hub(w) == IF w.hub # "down" /\ ~env.key THEN "unauthorized" ELSE w.hub

\* /api/user, as executorInfo and the collector's check see it.
UserAnswer(w) ==
    CASE Hub(w) \in {"up", "unfunded"} -> "found"
      [] Hub(w) = "unauthorized" -> "unauthorized"
      [] Hub(w) = "erroring" -> "refused"
      [] Hub(w) = "down" -> Thrown

\* Slip: any word that came back is a yes.
IsExecutorAnswered(w) ==
    CASE w.rpc = "up" -> "yes"
      [] w.rpc = "erroring" -> "no"
      [] w.rpc = "down" -> Thrown

\* isExecutor through execute.ts' rpcCall, which takes an error answer for "0x".
IsExecutor(w) ==
    CASE w.rpc = "up" -> (IF "hub" \in w.executors THEN "yes" ELSE "no")
      [] w.rpc = "erroring" -> "no"
      [] w.rpc = "down" -> Thrown

\* lib/live.ts' rpcCall throws on an error answer and on a failed fetch.
ConfiguredExecutor(w) ==
    IF w.rpc # "up" THEN Thrown
    ELSE IF env.executor \in w.executors THEN "yes" ELSE "no"

\* Slip: the seeds stand in for a store that has nothing.
ListedInstead(w) ==
    LET stored == IF env.database /\ w.store = "up" THEN AtMost(w.receipts, ListLimit) ELSE 0 IN
    IF stored = 0 THEN env.seeds ELSE stored

\* listTransactions: the store's newest receipts, none when it fails, and the seeds.
Listed(w) ==
    env.seeds + (IF env.database /\ w.store = "up" THEN AtMost(w.receipts, ListLimit) ELSE 0)

\* The gauge asks for one batch; an error answer has root 0.
AnchorBatches(w) == IF w.rpc = "up" /\ w.anchored THEN 1 ELSE 0

\* positions(address): an error answer reads as an empty position.
PositionAnswer(w) ==
    CASE w.rpc = "up" -> w.position
      [] w.rpc = "erroring" -> [collateral |-> 0, debt |-> 0]
      [] w.rpc = "down" -> Thrown

\* Slip: the health factor is projected without the borrow.
ProjectedNow(p, amount) ==
    IF p.debt = 0 THEN 0 ELSE (((p.collateral * LtvBps) \div Bps) * Unit) \div p.debt

\* projectHealthFactor; the sum of debt and amount is zero for no amount used.
Projected(p, amount) ==
    IF p.debt + amount = 0 THEN 0
    ELSE (((p.collateral * LtvBps) \div Bps) * Unit) \div (p.debt + amount)

Projection(w, amount) ==
    IF w.rpc = "down" THEN Thrown ELSE Projected(PositionAnswer(w), amount)

\* The guard's simulation of [borrowMore(amount)] under [health >= Floor].
GuardAnswer(w, amount) ==
    LET borrow == [fn |-> "borrowMore", value |-> 0, amount |-> amount]
        after == PoolEffect(borrow, w.position) IN
    IF "hub" \notin w.executors \/ ~PoolAccepts(borrow, w.position)
      THEN [reason |-> "reverted", margin |-> 0]
    ELSE IF Health(after) < Floor
      THEN [reason |-> "invariant", margin |-> Floor - Health(after)]
    ELSE [reason |-> "passes", margin |-> 0]

\* KeeperHub's answer to it.
Simulated(w, amount) ==
    CASE Hub(w) = "up" -> GuardAnswer(w, amount)
      [] Hub(w) = "unfunded" -> [reason |-> "preflight", margin |-> 0]
      [] Hub(w) \in {"unauthorized", "erroring"} -> [reason |-> "noVerdict", margin |-> 0]
      [] Hub(w) = "down" -> [reason |-> "threw", margin |-> 0]

Read(r, w) ==
    CASE r \in {"wallet", "auth"} -> UserAnswer(w)
      [] r = "isExecutor" -> IsExecutor(w)
      [] r = "admin" -> IF w.rpc = "up" THEN "admin" ELSE Thrown
      [] r = "configured" -> ConfiguredExecutor(w)
      [] r = "list" -> Listed(w)
      [] r = "anchors" -> AnchorBatches(w)
      [] r = "position" -> PositionAnswer(w)
      [] r = "projectSmall" -> Projection(w, Small)
      [] r = "projectLarge" -> Projection(w, Large)
      [] r = "probeSmall" -> Simulated(w, Small)
      [] r = "probeLarge" -> Simulated(w, Large)
      [] r = "permitted" -> Simulated(w, Safe)
      [] r = "refused" -> Simulated(w, Unsafe)
-----------------------------------------------------------------------------
(* What each endpoint reads: stages one after the other, the reads of one  *)
(* stage together (Promise.all).                                           *)

Threw(g, r) == g[r] = Thrown

ExecutorInfo == <<{"wallet"}, {"isExecutor"}>>

Stages(kind) ==
    CASE kind = "readyz" -> ExecutorInfo
      [] kind \in {"health", "overview"} -> ExecutorInfo \o <<{"list"}>>
      [] kind = "metrics" -> ExecutorInfo \o <<{"list"}, {"anchors"}>>
      [] kind = "guardPage" -> <<{"admin", "configured"}>>
      [] kind = "position" -> <<{"position"}>>
      [] kind = "probe" -> <<{"projectSmall", "projectLarge"}, {"probeSmall", "probeLarge"}>>
      [] kind = "collect" -> <<{"permitted", "refused"}, {"auth"}>>

\* executorInfo stops without a wallet or a guard; the probe when a
\* projection threw.
Skipped(r, g) ==
    CASE r = "isExecutor" -> g["wallet"] # "found" \/ ~env.guard
      [] r = "anchors" -> ~env.anchor
      [] r \in {"probeSmall", "probeLarge"} -> Threw(g, "projectSmall") \/ Threw(g, "projectLarge")
      [] OTHER -> FALSE

\* The stages still to come that ask for something.
StagesLeft(kind, stage, g) ==
    {i \in stage + 1 .. Len(Stages(kind)) : \E r \in Stages(kind)[i] : ~Skipped(r, g)}

\* executorInfo: null, or whether the wallet is registered.
Executor(g) ==
    IF g["wallet"] # "found" \/ ~env.guard THEN "null"
    ELSE IF Threw(g, "isExecutor") THEN "null" ELSE g["isExecutor"]

Registered(g) == Executor(g) = "yes"
Reachable(g) == env.guard /\ Executor(g) # "null"
-----------------------------------------------------------------------------
(* The answers.                                                            *)

Readyz(g) ==
    [kind |-> "readyz", status |-> IF Reachable(g) /\ Registered(g) THEN 200 ELSE 503,
     says |-> [reachable |-> Reachable(g), registered |-> Registered(g)]]

\* /api/health answers ok and one anchored batch whatever it read.
Health200(g) ==
    [kind |-> "health", status |-> 200,
     says |-> [reachable |-> Reachable(g), registered |-> Registered(g),
               transactions |-> g["list"], batches |-> 1]]

\* "the guard would refuse every broadcast" is said of an unregistered wallet,
\* "read failed" of no answer.
Overview(g) ==
    [kind |-> "overview", status |-> 200,
     says |-> [reachable |-> Executor(g) # "null", registered |-> Registered(g),
               transactions |-> g["list"], positive |-> g["list"] > 0]]

Metrics(g) ==
    [kind |-> "metrics", status |-> 200,
     says |-> [reachable |-> Reachable(g), registered |-> Registered(g),
               transactions |-> g["list"],
               batches |-> IF env.anchor THEN g["anchors"] ELSE 0, key |-> env.key]]

Unauthorized == [kind |-> "metrics", status |-> 401, says |-> Nothing]

\* readGuardConfig: no facts unless both reads succeed.
GuardPage(g) ==
    [kind |-> "guardPage", status |-> 200,
     says |-> IF Threw(g, "admin") \/ Threw(g, "configured") THEN Nothing
              ELSE [executor |-> g["configured"]]]

\* The route divides as the pool does, and shows no factor without debt.
HealthShown(p) == IF p.debt = 0 THEN "none" ELSE Health(p)

PositionRoute(g) ==
    LET p == g["position"] IN
    IF p = Thrown THEN [kind |-> "position", status |-> 502, says |-> Nothing]
    ELSE [kind |-> "position", status |-> 200,
          says |-> [held |-> p.collateral > 0 \/ p.debt > 0, position |-> p,
                    health |-> HealthShown(p)]]

\* A verdict of simulate in lib/probe.ts: DENY on wouldRevert, else ALLOW.
ProbeVerdict(a) == IF a.reason \in {"invariant", "preflight", "reverted"} THEN "DENY" ELSE "ALLOW"

\* runProbe: not live when a projection or a simulation could not be reached.
ProbeAnswer(g) ==
    LET live == "probeSmall" \in DOMAIN g /\ \A r \in {"probeSmall", "probeLarge"} : g[r].reason # "threw"
        Result(projection, a) ==
            [health |-> projection, verdict |-> ProbeVerdict(a), reason |-> a.reason] IN
    [kind |-> "probe", status |-> 200,
     says |-> IF live THEN [small |-> Result(g["projectSmall"], g["probeSmall"]),
                            large |-> Result(g["projectLarge"], g["probeLarge"])]
              ELSE Nothing]

Collected == [kind |-> "collect", status |-> 200, says |-> Render(registry)]

Answer(kind, g) ==
    CASE kind = "readyz" -> Readyz(g)
      [] kind = "health" -> Health200(g)
      [] kind = "overview" -> Overview(g)
      [] kind = "metrics" -> Metrics(g)
      [] kind = "guardPage" -> GuardPage(g)
      [] kind = "position" -> PositionRoute(g)
      [] kind = "probe" -> ProbeAnswer(g)
      [] kind = "collect" -> Collected
-----------------------------------------------------------------------------
ReadsInit ==
    /\ env \in {LoadConfig(e) : e \in Environments}
    /\ world \in [hub : {"up"}, rpc : {"up"}, executors : SUBSET Wallets, anchored : BOOLEAN,
                  position : Positions, store : {"up"}, receipts : {0}]
    /\ request = Idle
    /\ got = Nothing
    /\ registry = Fresh
    /\ reply = NoReply
    /\ seen = {}

\* The checks an endpoint makes before its first read.
Refusal(kind, presented) ==
    CASE kind = "metrics" /\ env.token /\ ~presented -> Unauthorized
      [] kind = "guardPage" /\ (~env.guard \/ env.executor = "") ->
           [kind |-> kind, status |-> 200, says |-> Nothing]
      [] kind = "position" /\ ~env.target -> [kind |-> kind, status |-> 502, says |-> Nothing]
      [] kind = "probe" /\ ~(env.key /\ env.guard /\ env.target) ->
           [kind |-> kind, status |-> 200, says |-> Nothing]
      [] OTHER -> NoReply

Ask(kind) ==
    /\ request = Idle
    /\ got' = Nothing
    /\ registry' = Fresh
    /\ seen' = {world}
    /\ \E presented \in BOOLEAN :
         IF Refusal(kind, presented) # NoReply
           THEN reply' = Refusal(kind, presented) /\ UNCHANGED request
           ELSE /\ reply' = NoReply
                /\ request' = [kind |-> kind, stage |-> 1, waiting |-> Stages(kind)[1]]
    /\ UNCHANGED <<env, world>>

\* What the collector feeds its registry when the read ends.
Fed(r, a, seconds) ==
    CASE r \in Outcomes -> AfterSimulation(registry, r, a, seconds)
      [] r = "auth" -> AfterAuth(registry, IF a = Thrown THEN "threw" ELSE a)
      [] OTHER -> registry

\* A read ends, and with the last one of its stage the next stage begins.
ReadEnds(r) ==
    LET a == Read(r, world)
        g == [q \in DOMAIN got \cup {r} |-> IF q = r THEN a ELSE got[q]]
        waiting == request.waiting \ {r}
        left == StagesLeft(request.kind, request.stage, g)
        next == CHOOSE i \in left : \A j \in left : i <= j IN
    /\ r \in request.waiting
    /\ got' = g
    /\ \E seconds \in IF r \in Outcomes THEN Seconds ELSE {0} :
         LET fed == Fed(r, a, seconds) IN
         registry' = IF waiting = {} /\ r \in Outcomes THEN Judged(fed) ELSE fed
    /\ request' = IF waiting # {} \/ left = {} THEN [request EXCEPT !.waiting = waiting]
                  ELSE [request EXCEPT !.stage = next,
                            !.waiting = {q \in Stages(request.kind)[next] : ~Skipped(q, g)}]
    /\ UNCHANGED <<env, world, reply, seen>>

Respond ==
    /\ request # Idle
    /\ request.waiting = {}
    /\ reply' = Answer(request.kind, got)
    /\ request' = Idle
    /\ got' = Nothing
    /\ registry' = Fresh
    /\ UNCHANGED <<env, world, seen>>

\* Bound: MaxMoves changes while a request is in flight.
Becomes(w) ==
    /\ world' = w
    /\ w # world
    /\ IF request = Idle THEN seen' = {} /\ reply' = NoReply
       ELSE Cardinality(seen) <= MaxMoves /\ seen' = seen \cup {w} /\ UNCHANGED reply
    /\ UNCHANGED <<env, request, got, registry>>

KeeperHubChanges == \E h \in Hubs : Becomes([world EXCEPT !.hub = h])
RpcChanges == \E s \in {"up", "erroring", "down"} : Becomes([world EXCEPT !.rpc = s])
AdminSetsExecutor(a) ==
    \E ok \in BOOLEAN :
        Becomes([world EXCEPT !.executors = IF ok THEN @ \cup {a} ELSE @ \ {a}])
BatchIsAnchored == Becomes([world EXCEPT !.anchored = TRUE])
PositionMoves == \E p \in Positions : Becomes([world EXCEPT !.position = p])
StoreChanges ==
    \/ \E s \in {"up", "down"} : Becomes([world EXCEPT !.store = s])
    \/ /\ world.receipts < MaxReceipts
       /\ Becomes([world EXCEPT !.receipts = @ + 1])

ReadsNext ==
    \/ \E kind \in Kinds : Ask(kind)
    \/ \E r \in request.waiting : ReadEnds(r)
    \/ Respond
    \/ KeeperHubChanges \/ RpcChanges \/ BatchIsAnchored \/ PositionMoves \/ StoreChanges
    \/ \E a \in Wallets : AdminSetsExecutor(a)

ReadsSpec == ReadsInit /\ [][ReadsNext]_readsVars
-----------------------------------------------------------------------------
(* Properties.  An answer is judged by the worlds its request lived in.    *)

Sometime(P(_)) == \E w \in seen : P(w)
Steady(P(_)) == \A w \in seen : P(w)

AllUp(w) == Hub(w) \in {"up", "unfunded"} /\ w.rpc = "up"
Ready(w) == AllUp(w) /\ "hub" \in w.executors

\* No page, probe or gauge says the executor is registered unless it was while
\* the answer was made: KeeperHub named its wallet and the guard's word was
\* one.  And none of them raises a false alarm: with everything up and
\* registered throughout, /readyz is 200 and the gauges are 1.
ReadinessIsTrue ==
    /\ reply.says.registered =>
         /\ Sometime(LAMBDA w : "hub" \in w.executors /\ w.rpc = "up")
         /\ Sometime(LAMBDA w : Hub(w) \in {"up", "unfunded"})
    /\ env.guard /\ Steady(Ready) => reply.says.registered /\ reply.says.reachable
    /\ reply.status = 200 \/ ~(env.guard /\ Steady(Ready))

\* The receipts counted are the store's at some moment of the request, up to
\* the limit of the listing, unless the store failed in it.
CountsAreOfTheStore ==
    reply.kind # "readyz" /\ Steady(LAMBDA w : w.store = "up") =>
        Sometime(LAMBDA w : reply.says.transactions
            = env.seeds + (IF env.database THEN AtMost(w.receipts, ListLimit) ELSE 0))

\* What /readyz, /api/health, the metrics and the overview answer was so while
\* they answered: the executor they call registered, the receipts they count.
AnswersAreTrue ==
    reply.kind \in {"readyz", "metrics", "health", "overview"} /\ reply.status # 401 =>
        ReadinessIsTrue /\ CountsAreOfTheStore

\* A position that is shown was the guard's, with the health factor the guard
\* reads; and when nothing moves while the probe runs, its projection and its
\* verdict agree on the floor, however the divisions round.
ProjectionsDecide ==
    /\ reply.kind = "position" /\ reply.status = 200 /\ reply.says.held =>
         Sometime(LAMBDA w : /\ w.position = reply.says.position
                             /\ w.position.debt # 0 => reply.says.health = Health(w.position))
    /\ reply.kind = "probe" /\ reply.says # Nothing /\ Cardinality(seen) = 1
         /\ Steady(LAMBDA w : Ready(w) /\ Hub(w) = "up") =>
            \A r \in {reply.says.small, reply.says.large} :
                (r.verdict = "ALLOW") = (r.health >= Floor)

Sample(name) == reply.says[name]
Labelled(name, label, value) ==
    {s \in Sample(name) : label \in DOMAIN s.labels /\ s.labels[label] = value}
Denials(code) == Labelled("denialReasons", "code", code)

\* A denial is told for what it was: the guard's invariant with its margin
\* when the guard broke it in a world of the scrape, a preflight rejection only
\* when KeeperHub rejected.  An unfunded wallet is never an unsafe position.
DenialsAreTold ==
    /\ \A s \in Denials("INVARIANT_BROKEN") :
         \E w \in seen, amount \in {Safe, Unsafe} : Simulated(w, amount).reason = "invariant"
    /\ \A s \in Sample("invariantMargin") :
         \E w \in seen, amount \in {Safe, Unsafe} :
            Health(PoolEffect([fn |-> "borrowMore", value |-> 0, amount |-> amount], w.position))
                + s.value = Floor
    /\ Denials("PREFLIGHT_REJECTED") # {} => Sometime(LAMBDA w : Hub(w) = "unfunded")

SumOfValues(samples) == MapThenSumSet(LAMBDA s : s.value, samples)
Networks == Labelled("upstreamFailures", "kind", "network")
Tallied == SumOfValues(Sample("decisions")) + SumOfValues(Networks)

\* Each simulation is timed once and is one decision or one failure, whatever
\* came back, and so is an authentication check that threw; buckets are
\* cumulative and close with the count.
EverySimulationCountsOnce ==
    /\ {s.labels.outcome : s \in Sample("latency")} = Outcomes
    /\ \A s \in Sample("latency") :
         /\ s.count = 1 /\ s.inf = s.count
         /\ \A b, c \in DOMAIN s.buckets : b <= c => s.buckets[b] <= s.buckets[c]
         /\ \A b \in DOMAIN s.buckets : (s.buckets[b] = 1) = (s.sum <= b)
    /\ Tallied \in {2, 3}
    /\ Steady(LAMBDA w : Hub(w) = "down") => Tallied = 3
    /\ Steady(LAMBDA w : Hub(w) # "down") => Tallied = 2

\* What a collection counts, times and labels is what happened in it, but for an
\* answer without a verdict, such as an HTTP error: that counts as an ALLOW
\* (collect.ts:145-147), where collect.ts:10-12 has it be a failure.
CollectionsAreTrue ==
    reply.kind = "collect" => DenialsAreTold /\ EverySimulationCountsOnce
=============================================================================
