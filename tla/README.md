# noyeet: specifications, model checking and proofs

noyeet stands between an agent and a wallet. An agent submits an *intent*: calls, and
the invariants the position must satisfy afterwards. A policy and a simulation decide
it (ALLOW, HOLD, DENY), an allowed one is broadcast through KeeperHub as one call of
`NoYeetGuard.executeGuarded`, a held one waits for an operator, and every decision
leaves a receipt whose digest is later anchored on chain.

This directory holds TLA+ modules of those parts, the TLC configurations that check
them on small instances, and proofs of the most important properties for every
instance, checked by TLAPS. `PROJECT.json` maps each definition to the lines it models.

    tlc -workers 2 -config MCGuard.cfg MCGuard      # one run; others below
    tlapm Guard_proofs.tla                          # one proof module

## The system

| part | state | operations | hard behaviour |
|---|---|---|---|
| `NoYeetGuard.sol` | executors, reentrancy lock, its position and ether | `executeGuarded`, `setExecutor`, `receive` | callees that reenter, revert, swallow reverts, burn gas; rollback |
| `PositionPool.sol` | collateral and debt per borrower | deposit, borrow, repay, `initialize` | checked arithmetic at the limits, no debt |
| `AnchorStore.sol` | admin, root per batch | `anchor`, `setAdmin` | idempotent or conflicting re-anchoring, handover |
| circuit breaker (`packages/resilience`) | state, failures, successes, openedAt | admission, success, failure, reset | callers admitted in one state answer in another |
| KeeperHub client (`packages/keeperhub`) | a promise chain per target, the retry loop | simulate, execute | lost and late answers, retries, restart |
| gateway (`apps/gateway`) | hold ledger, receipt store, event log | authorize, execute, hold, release, cancel | interleaved requests and operators, outages, failing store, restart |
| gateway process (`apps/gateway/src/index.ts`) | boot, connection to the log, shutdown | `/readyz`, `/metrics`, signals | a circuit only traffic can close, behind a balancer that waits for it; a signal amid requests |
| responses of KeeperHub (`http.ts`, `reason.ts`) | none | classify a response, read a denial | what may be retried, what is a fault of the transport, whose reason it is |
| receipts (`packages/receipts`), verifier pages | a digest, the text somebody edits | canonical JSON, digest, hash of an intent, verify | members that are absent, null or reordered; three implementations |
| receipt store (`packages/store`) | a receipt per intent | put (upsert), list | a later put replaces an earlier one |
| anchoring script (`scripts/anchoring.ts`) | the batch in progress | read, send one root per hour, mark | crash between marks, late receipts, two policies |
| dashboard (`apps/dashboard`) | hold ledger per instance, browser copies | run an intent, release, cancel | instances without shared state, double clicks, lost answers |
| policy VM (`packages/policy`) | none: rules over an intent, a policy and a context | `evaluate` | schedules over midnight; rolling windows over a history that no caller passes |
| event log, anchor consumer (`packages/events`, `apps/anchor`) | offsets, retries, the open batch | handle a record, seal by size, age, shutdown | timer and handler share a batch; retries, failed sends, crashes |
| keeper (`apps/keeper`) | a counter, the tick in progress | read the position, propose a repay | stale reads, late repays, identifiers that start again with the process |
| policy canvas (`apps/dashboard/lib/canvas`, `components/canvas`) | the blocks placed | open a policy, drop, fill in, remove, compile, validate | what has no block is lost or has to be carried over; limits that are taken away |
| execute form (`execute-panel.tsx`, `/api/execute`) | none | parse amounts, build an intent, the demo policy | the boundary between allowed, held and denied |
| dashboard's reads (`/readyz`, `/api/*`, `lib/live.ts`, `probe.ts`, `collect.ts`) and metrics (`packages/observability`) | a registry per scrape | readiness, position, receipts, probe, scrape | one answer out of several reads, between which everything moves or fails |

The gateway calls the policy VM, then the client (through the breaker), then the store
and the log; the dashboard has a pipeline of its own that calls KeeperHub directly. The
script reads the store the gateway writes, and anchors through the same client. KeeperHub
is not in the repository: wherever it appears it is external, modelled by what the client
relies on (`client.ts:208-218`): an idempotency key takes effect once, the same request
is replayed, and another body under a known key is a conflict. It may lose or refuse
anything and answer after nobody listens any more.

## Modules

`PositionPool`, `PostState` - operators. One borrower's position, with `Accepts`
operators that are FALSE where checked arithmetic reverts; and the words, comparisons
and relative bounds of an invariant list (`Respects`).

`Guard` - one transaction at a time, cut at every point where control leaves the guard.
`frames` is the stack of open `executeGuarded` calls, each with its snapshot and a
checkpoint of everything a revert undoes. `ExecuteGuarded` is the modifiers and
`_snapshot`, `CallPool`/`CallContract`/`CallFails` one iteration of `_execute`,
`Finish`/`Deny` are `_assert`, and `OutOfGas` undoes the transaction anywhere. A contract
that was called may do anything an account may, then return or revert. The admin may be
such a contract.

`AtomicGuard` - what the guard promises: a guarded call is one step that applies exactly
its calls and respects its invariants, or nothing. `Guard` instantiates it with the state of
the last checkpoint (`Settled`, ...); a run checks `ImplementsAtomicGuard`, and
`Guard_proofs` proves it.

`CircuitBreaker` - the methods are functions from the fields before to the fields after;
actions are callers that share the breaker and report what they saw, whenever it comes.
`elapsed` replaces `now() - openedAt`; it and `failures` are kept up to the value they
are compared with. `streak` is a history variable. It is run through `Serving`; `Reset`
has no caller in the gateway, so it is an action of this module and of the proofs about it only.

`Http` - what the client makes of one response: the kind of error (`ErrorKind`), whether to
retry it, whether the breaker hears of it, and `ParseGuardDenial`, the denial of the guard that a
revert reason spells. A reason is the text before the denial, its fields, and what follows, which
spoils the last field if it sticks to it (`Sticks`: blanks and further fields do not). Its cause
is the guard, in words that can be read or that cannot, or a called contract, which may revert
with any words, the guard's own form included, since `_bubble` passes them on.

`Serving` - a gateway process. `Boot` reads the environment, `Connect` the event log,
`Receive` a post or a `waitForExecution`, `AttemptEnds`, `Retry` and `Poll` are the client's
loops under the breaker of `CircuitBreaker`, `Publish` the answer with its receipt; `Readyz`
is the balancer, which routes posts or does not; `Signal`, `Stop`, `Disconnect`, `Flush` and
`Exit` the shutdown.

`KeeperHubClient` - `Enqueue` chains a send to the last promise of its target, `Start`
when that one settled, `Transmit`, `TransportFails`, `Handle` and `Retry` are the loop of
`sendWithRetries`, and `Crash` a restart. `ledger` is KeeperHub's idempotency record,
whose entries may still be running.

`Gateway` - each request goes through `Authorize`, `Simulate`, `Persist`, `Publish` and
then what its route does with the verdict. `Release` and `Cancel` are the operator. A
call to KeeperHub (`call`, `wire`, `applied`) may be applied after the gateway has given
up on it; `Restart` forgets requests and holds, and the store unless `Durable`.

`Dashboard` - `Submit` and `Simulate` are `runIntent`, `BroadcastEnds` its end, whatever
KeeperHub answered; `Release`, `Released`, `ReleaseFails` and `Cancel` the routes, which read
the ledger before an await and write it after. `ledger` is per instance and `browser` is the
copy in localStorage, which the execute page writes when the answer reaches it (`Shows`). What
`Release` broadcasts is the hold of its instance, the browser's copy, or any pair of `Bodies`
that a client puts into its request. An id is its agent's choice and may be repeated with other
content; ids that differ only by the prefix that `createHold` replaces are one here.

`ExecuteForm` - the form of that page: `EthToWei` on digits, `BuildIntent`, the demo policy
(`PolicyFromConfig`) and what `PolicyVM` says to them. `MCDashboard` takes its intents and
their verdicts from it. `FormTellsTheTruth` compares the verdict, digit by digit, with what
the form promises; it is an assumption about values, so TLC evaluates it.

`AnchorStore`, `Anchoring` - the contract; and the script run against it and the store.
Trees, proofs and their verification come from `Merkle`, so a mark stores the proof the
script stores, and `Verify` is what the contract does with it. `Decide` is the gateway
putting receipts meanwhile, `Execute` KeeperHub's transaction, which may fail after it was
accepted, come late or be mined twice; `HandOver` is any `setAdmin`.

`Folding` - no part of the system: induction over the natural numbers, by a set instead of a
predicate, and what `FoldLeft` computes for any operator. The proofs instantiate it with the
operators the modules fold.

`Merkle` - `buildTree`, `getProof`, `processProof`. A pair's hash is the pair itself, as a
set since pairs are sorted: keccak is taken to be injective, and nothing else is. Each loop of
`merkle.ts` is a fold: a level is `Parents` folded over the ones below, with an odd node
promoted, a proof is `Climb` folded over the levels, and its check `HashPair` over the proof.
The order in which a batch's digests are sorted is a constant (`DigestRank`).

`Receipts` - `canonicalize` on JSON values, `receiptDigest`, `hashIntent`, and what recomputes a
digest: the gateway's and the dashboard's `/v1/verify`, and the two verifier pages. A value is a
record of its type, its parts (an object keeps its members in the order they were written) and
its canonical text, which its constructor (`Str`, `Num`, `Arr`, `Obj`) makes of the texts of the
parts as `serialize` does, so that nothing recurses. The sorted members of an object are a set:
one order, whichever it is. What `serialize` refuses has the text `Throws`, and so has whatever
it is part of; a digest is the text with a mark of keccak.

`Evidence` - one receipt with them: `Finish`, `Put`, `Mark`, `HandOut` as a document, the
edits of whoever holds it (`EditField`, `DropField`, `Reorder`, `EditReasons`), and what the
verifiers show (`ComputeOnPage`, `ComputeInApp`).

`AnchorConsumer` - the consumer's `eachMessage` and the batch of `apps/anchor`. `Receive`,
`Retry` and `DeadLetter` are the loop over a record, `Tick` the age timer, whose flush nobody
awaits, `Emitted` the broker's answer to a send, which may be an error although the record is
on the topic. `Terminate` flushes at SIGTERM, `Crash` forgets the batch, `StartUp` comes in at
the committed offset or at the end of the log, and `Rejoin` does so in a process that was lost
to its group and still has its batch.

`PolicyVM` - the eleven rules and `evaluate` as operators; a rule is the set of the codes it
raises, and sums over a history are folds. `PolicyWindow` puts them in time: intents come one
after the other, each evaluated in the context the gateway and the dashboard build, which has the
time and no history (`ContextFor`). What the canvas does to a policy is compared in `Contexts`,
with and without a history, since `evaluate` takes one although only its tests pass it.

`PolicyCanvas` - `compile`, `validate` and `policyToBlocks`: blocks to a policy, the errors
and warnings on the way, and a policy opened as blocks with what is carried over; `Accepted`
is `parsePolicy` on what a canvas compiles to, and `IsPolicy` what it returns.
`CanvasEditor` - the policy page: `OpenPage` opens the deployed policy,
`Drop`, `UpdateValue` and `RemoveNode` edit its blocks, `Deploy` puts what they compile to in
its place if it parses, `ClosePage` gives them up. Their properties are about what `PolicyVM`
decides under the compiled policy, so they are in `PolicyWindow`, where there are intents and
contexts and the policy in force is the one the editor deploys. `Tightening` lists the blocks
whose removal may only tighten a policy, since what `compile.ts:202-211` puts for a missing
field is no laxer than any value: a target, and the only cap, approval bound, review threshold or
rate limit. It leaves out a rate limit of a longer window than the hour the code falls back to
(`compile.ts:204`), one of two blocks of a kind, and selectors, schedules and invariants.

`Registry`, `Collect` - the metrics registry as functions from label sets to values, and what
`collectMetrics` puts into it for the answers of its three requests.

`LiveReads` - a deployment's endpoints and pages: each request reads KeeperHub, the chain and
the store (`Ask`, a `ReadEnds` for each, `Respond`), while receipts are put, positions move and
each of the three goes down. An answer is kept with what was so while it was
made, and the properties compare the two. A scrape's auth check that throws is a network
failure of its own beside those of the two simulations (`collect.ts:198-200`), so with KeeperHub
down throughout three things are counted, and two when it never was.

`Keeper` - `ReadPosition`, `ReadFails`, `Noop` and `Submit` are a tick; `GiveUp` its failure
while the gateway goes on, `Restart` a new process that counts from 0. `Allow`, `Refuse`,
`Take` and `Known` are `/v1/execute`: the simulation against the position of that moment,
and KeeperHub's record under the intent's id. `Mine` is the guarded call, with `Respects`
of `PostState` deciding it, and `Move` a guarded call of somebody else. What a tick is
answered is only logged, so an answer only ends it.

Properties are below the line at the end of each module. Each definition whose comment
begins with "Slip:" is a plausible mistake in the code next to it. No specification uses
them: they show that the properties would notice (`PROJECT.json`, `mutants`).

## Runs

Runs that pass:

| configuration | shows | bounds |
|---|---|---|
| `MCGuard.cfg` | one open guarded call, committed moves within their bounds, implements `AtomicGuard` | 2 accounts, one of them a contract that is executor, callee and admin; 8 programs (every operator, a missing word, no invariant, a failing call, reentry); words of 0..12, so that sums and the health factor overflow; 1 wei |
| `Serving.cfg` | the circuit opens and closes on requests in a row, late ones keep its cooldown; traffic comes back; a signal drains; a denial of the guard is quoted, and only a called contract can pass for one | a post and a wait, thresholds 2, a cooldown of 2 ticks, 2 attempts, one more poll, two signals; four environments (whole with and without log and traces, one that lacks a variable, one with an invalid policy); every denial, one of them in every wrapper that can be read, some in wrappers that cannot, a number that is no safe integer, and a called contract that reverts with nothing, with a denial's form, or with what begins like one |
| `KeeperHubClient.cfg` | at most one effect, own answers, one send per target, no wedge | 3 sends of one target: a send, its resubmission, and another body under its key; 2 attempts, one restart |
| `Gateway.cfg` | what is sent was decided and recorded, once; a hold is resolved once | 2 requests for one intent and key on any routes, any verdict each time, one restart |
| `Dashboard.cfg` | what runs and holds send was decided, once, what a body hands in comes once more; a released hold was sent; the form's promise | one typed intent per verdict of the demo policy, all under one id, any of them in the body of a release, 2 runs, 2 clicks, 2 instances, one recycled; forms with up to 2 digits before and 3 behind the point, on both sides of 0.01 and 1 |
| `Anchoring.cfg` | proofs stored with receipts verify on chain, a receipt verifies only where it belongs, permanence | 5 receipts over 2 hours: two decisions on one intent, two policies in one hour, an odd level in the tree; one fault, 3 addresses, 2 blocks |
| `AnchorConsumer.cfg` | leaves in arrival order until a rejoin and none missing after, no decision becomes a dead letter, the partition moves, quiet batches are sealed | 3 records of any kind, batches of 2, 2 attempts, one restart, one rejoin in the life of a process |
| `Evidence.cfg` | a digest changes just with its evidence, the verifiers agree, the receipt names its calls | 6 intents that differ in one thing each, or in where a value ends and its data begin, a decision per verdict, one edit to another value, or none, of each member |
| `LiveReads.cfg` | what an answer says of executor, receipts, position and simulations was so while it was made; projections decide as the guard; a scrape counts each simulation once | one whole and one bare deployment, 3 positions on both sides of every amount probed, 2 receipts with a list limit of 1, one move |
| `PolicyWindow.cfg` | schedules; a policy opened on the canvas and deployed again decides as before; what of the canvas's reports is true; removing a block of `Tightening` never loosens | 3 policies (no schedule, by day, over midnight), 9 intents, a day of 4 hours of which 3 pass after the first, 3 decisions; 6 contexts, 3 of them with an earlier intent in or out of the window and one with a gas estimate; 2 edits over any number of openings and deployments, with wrong, empty, zero and lawful values for the fields |
| `Keeper.cfg` | proposals are the least repay, late ones keep the floor, the position is restored | a health factor in tenths; 3 positions where it is rounded, is as good as 0, or may overflow; 2 calls of others, one fault, one restart, identifiers remembered of the first 2 ticks, 2 transactions on their way |

Two of everything is enough for the interleavings at stake: each property relates two
requests, two sends, two runs or clicks, or a batch and its rerun, and the third send of
the client is the conflicting body. One id is enough for the dashboard: every rule of it
reads and writes under one id, and a body that names another one touches only that one's key.
The counters that are cut (`Bounded`, `MaxEth`,
`MaxBlock`, `MaxFaults`, `MaxEdits`, `MaxMoves`, `Polls`, one restart, one rejoin, one recycled
instance) are named where they are declared. Intents are followed under the three policies a
run begins with only, and the page is used before the first of them (`Followed`,
`EditPolicy`): the verdicts under every policy the editor makes are compared in the
properties. Deadlock is checked where the system never stops (guard); elsewhere a run ends
when every request has been answered or the process has exited.

A run that shows a disagreement between the code and what it says of itself:

| configuration | statement | what happens |
|---|---|---|
| `NoDecisionIsLeftOut.cfg` | `apps/anchor/src/index.ts:19-21` no published decision is left out of a root | `seal` empties the batch before the emit: the leaves of an emit that fails are in no root |

Disagreements met while modelling for which no run is kept; the models contain the
behaviour, so that a property of one line shows each:

- a cancel during a release is answered "cancelled" and the intent is sent, where
  `cancel/route.ts:6` says that a cancel never broadcasts: `release/route.ts:29-47` reads the
  ledger before the broadcast and resolves it after (`Dashboard`, `Cancel`, `Released`);
- after a crash between two marks a rerun anchors the rest (`docs/runbook.md:30-31`), but the
  rest has a smaller root, which conflicts under the batch's key for ever (`Anchoring`,
  `Conflicts`);
- an outage of the simulator is answered 400 with an error, without verdict or receipt
  (`app.ts:109`), where `ISA.md:65-66,121` has it resolve to DENY (`Gateway`, `Simulate`);
- a simulation answer that does not parse is an ALLOW (`client.ts:163`), where
  `README.md:104` asks for a simulation that passes (`Gateway`, `SimulatedVerdict`);
- the dashboard reports a refused broadcast as "submitted" (`execute.ts:427`) and one whose
  answer is lost as "denied" (`execute.ts:456`) (`Dashboard`, `BroadcastEnds`);
- the release route broadcasts whatever object stands in the `intent` of its body when the hold
  is not held on its instance: with no policy, simulation or ledger in between, under any id
  (`release/route.ts:28-34,47`), where `holds-ledger.ts:4` says that nothing is broadcast while
  held. So a denied intent, one never submitted, or a cancelled hold can be sent
  (`Dashboard`, `Release`; `SentWasDecided` excepts it);
- "can never double-broadcast" (`release/route.ts:8-10`; also `execute.ts:465-467` and
  `hold-actions.tsx:8-9`) holds of releases among themselves: an allowed intent that went out as
  `noyeet-dapp-<id>` and is handed to the release route goes out again as
  `noyeet-hold-release-<id>` (`SentOnce` excepts it). All intents without an `intentId` (the
  agents' own `Intent` type calls it `id`) share the key that ends in "undefined", so that the
  second of them meets the first one's key; one that the policy holds fails in
  `createHold`, which slices the id. Under a repeated id with other content, a hold may be shown
  as released when it was the other content that was sent (`Dashboard`, `KeyOf`, `CreateHold`);
- a called contract that reverts with `NOYEET/1:...` is reported as a denial of the guard, which
  passes its words on (`NoYeetGuard.sol:159-165`), where `reason.ts:71` promises null for what
  the guard did not write (`Serving`, `GuardIsQuoted`);
- a 400 that predicts a revert is returned to whoever executes, as an accepted execution without
  an id (`client.ts:332-334`): `app.ts:135-150` would answer "submitted" and the script mark a
  batch with an empty `executionId`. KeeperHub predicts reverts for simulations only, so
  `KeeperHubClient` has the answer (`wouldRevert`) and `Gateway` and `Anchoring` do not;
- receipts are marked anchored when the call is accepted, before its transaction ends
  (`anchoring.ts:119`), and marking writes back the receipt read at the start, over a newer
  decision on the same intent (`Anchoring`, `Mark`, `Execute`);
- half-open admits every caller, not a bounded number of probes, where `breaker.ts:134-136`
  says that it does not leak the failure budget (`CircuitBreaker`, `Allows`);
- `docs/threat-model.md:67` has a lost receipt reported as `persisted: false`; only
  `/v1/authorize` answers it (`Gateway`, `Persist`, `Publish`);
- `client.ts:230` promises one send in flight per wallet; queues are per target, and targets
  share the wallet (`KeeperHubClient`, `TurnOf`);
- the gateway evaluates every intent with an empty history (`app.ts:367`; so does the
  dashboard, `execute.ts:214`), so the limits of `schema.ts:30-33` ("across the rolling
  window", "max intents per window") are limits of a single intent. No property is about them:
  no caller of `evaluate` but its tests passes what they need (`PolicyWindow`, `ContextFor`);
- after a crash, decisions whose offsets were committed but whose digests waited in memory
  are in no root, and a consumer without a committed offset skips what came while it was
  down (`AnchorConsumer`, `Crash`, `StartUp`);
- "the leaf index is therefore reproducible from the log" (`index.ts:29`): a consumer that its
  group lost and that joins again handles what was not committed a second time, into the batch
  that still holds it, so a decision is in two leaves or out of order (`AnchorConsumer`, `Rejoin`);
- no caller passes a gas estimate to `evaluate`, so `maxGas` is never applied
  (`app.ts:367`; `PolicyVM`, `GasCeiling`), and the selectors of a target written in mixed
  case apply only to calls that spell it the same (`rules.ts:48-49`), although targets are
  compared without their case (`PolicyVM`, `SelectorEntry`): other calls are unrestricted;
- opening a policy on the canvas drops its `schedule`, and an empty list of selectors, which
  permits nothing, becomes no restriction, where `policy-to-blocks.ts:4-7` says that nothing
  is silently dropped: `ReopeningKeepsTheRules` excepts both. A selector "*" is lost on the
  way to being deployable, because no selector block accepts it;
- `compile.ts:46` calls a policy deployable when it "would be accepted", but a window or a
  number of intents of 0, or a start hour of 24, pass `validate` and not `schema.ts`
  (`OddNumbers`, which `ReportsAreTrue` excepts);
- the page carries `minInvariants` over from the policy it opened, so `compile.ts:210`, which
  asks for as many invariants as there are blocks, never applies there, and a second invariant
  block is not required of anybody (`PolicyCanvas`, `Compile`); `blocks.ts:42` says the rail
  disables a singleton once it is used, and the palette does not: the first of two counts
  (`CanvasEditor`, `Drop`). The page's own chips "matches the deployed policy" and
  "deployable" (`page.tsx:168,171`) are constants;
- with the threshold above the cap, "nothing will ever reach a human" (`compile.ts:176`), but
  unknown counterparties still do (`PolicyCanvas`, `HoldAboveCap`; `ReportsAreTrue` claims the
  threshold only);
- the comment at `compile.ts:243-247` has a probe's argument be the guard; the code passes the
  block's own target, so the compiled floor reads the pool's position in itself;
- the keeper expects "held" and "denied" of `/v1/execute` (`index.ts:83-92`), which answers
  "hold" and "deny" (`app.ts:129`): the tick ends in an error instead of the logged outcome
  that `index.ts:4-7` describes. The position is restored all the same (`Keeper`, `Refuse`);
- "a HOLD goes to the human gate" (`core.ts:7`), but `/v1/execute` puts nothing in the hold
  ledger (`Gateway`, `Respond`; `Keeper`, `Refuse`);
- while a repay is on its way the next tick reads the old position and proposes it again under
  another id; both are mined, and the position is repaid beyond the target (`Keeper`, `Take`);
- "0.01 ETH or more waits for a human" (`execute-panel.tsx:138`, `holds/page.tsx:40`): above
  1 ETH it is denied (`ExecuteForm`, `FormTellsTheTruth`). A hold that was resolved before its
  answer reached the page is kept by the browser as held (`Dashboard`, `Shows`);
- `execute.ts:213` takes an empty `NOYEET_POLICY` for a policy, where the policy page and the
  gateway take it for none;
- `index.ts:14-17` has a log that is down show up on `/readyz`: a broker that goes down after
  the connection does not, and a connection that failed at boot is never tried again, so that
  gateway is never ready (`Serving`, `Connect`, `Readyz`). The gauge `dependency_up` is set by
  `/readyz` only, and a second signal may exit while the first one's traces are flushed;
- `guard_reachable` is 1 although the RPC node answered an error, and 0 when KeeperHub alone is
  down (`metrics/route.ts:41-42,74-75`); `position/route.ts` shows an RPC error as no position;
  `/api/health` says `ok: true` and one batch whatever there is; the anchors gauge is that of
  one hard-coded batch; receipts "executed by the guard, all on chain" count denied ones and
  seeds and stop at 200 (`LiveReads`);
- `collect.ts:135,183-189` passes health factors as amounts to borrow, so the "safe" borrow is
  the larger of the two, and `noyeet_guard_healthy` is 1 only if something changes between the
  two simulations; an HTTP error is counted as an ALLOW (`collect.ts:145-147`), as it is by
  the probe (`probe.ts:146-151`) (`Collect`);
- of the gateway's metrics `authorizationDuration`, `simulationDuration` and
  `upstreamFailures` are never observed; `runProbe`, `guardReachable`, `collectMetrics`,
  `waitForExecution`, `getUser`, `weiToEth` and `withSpan` are called by tests only;
- a receipt as it is stored has `digest` and `anchor` members, and the verifier pages digest
  them too: pasted there it mismatches, where `verifier/src/main.ts:4` says "exactly the
  receipts package pipeline"; that page keeps an old MATCH while its text is edited; and a
  missing `simulation` reads as null (`Receipts`, `Evidence`);
- `hashIntent` leaves out the invariants, although they are executed with the calls
  (`authorize.ts:43-59`) and the hash is of "the intent's executable content"
  (`authorize.ts:141`): intents that differ in them alone share one (`ReceiptNamesItsCalls`).

## Fairness

Four specifications have it, each no more than the code justifies. Client: an attempt ends
by `AbortSignal.timeout`, a backoff ends, a task whose turn has come runs; KeeperHub owes
nothing, so `NoWedge` holds against a silent one. Serving: boot and the connection end, time
passes, the balancer keeps asking, posts keep coming where it routes them, timeouts end every
attempt, and a shutdown that may go on does; KeeperHub, the log, the operator and whoever waits
for an execution owe nothing, so `ServesAgain` supposes KeeperHub back for good and the log
there. Anchor consumer: the event loop runs what is due (a record, a retry, the timer), and
every send ends, since kafkajs gives up on it; the gateway, the operator and the commit of
offsets owe nothing. Keeper: the timer fires, the read and the gateway answer, and KeeperHub ends
what it took; faults are as many as `MaxFaults`, at any moment.

Liveness is model-checked and not proved: it is outside what the
prover handles, as is ENABLED.

## Proofs

A run checks a property on a small instance; here it is proved for every value of the
constants, from their named assumptions, which TLC evaluates in the runs. Each module of
proofs states the strengthened invariant, proves it step by step, and draws the theorems from
it. Every safety property of the runs has its theorem.

`Guard_proofs`, first about `Guard` (every set of accounts, contracts and programs, every word
size):

- `TypeCorrect`. The facts it rests on are that the pool's operators and the checkpoint
  of a frame stay in their types.
- `LockHolds` (`OneGuardedCall`). The invariant has to say more than that at most one
  frame is open: an open frame's checkpoint was taken with the lock free, since a revert
  restores the lock from it.
- `BoundsHold` (`CommittedMovesRespectBounds`). Inductive together with: the snapshot of
  an open frame is that of its checkpointed position, its probes did not revert, and the
  event a revert restores was itself within bounds.
- `Refinement` (`ImplementsAtomicGuard`): `Guard` implements `AtomicGuard`. Seen from its last
  checkpoint (`Settled`) every step is a stutter but a commit and an account's own move. What a
  commit needs is `Progress`: the position inside an open frame is the checkpointed one with the
  calls so far folded over it (`Atomic!After`), and only a call of the admin's code can have
  changed who is an executor. That a call more is one more application of the fold is
  `FoldLeftPrefix` of `Folding`; that nested calls leave this alone is the lock again.

and about `LiveReads` (every deployment, position, amount, bucket and duration):

- `AnswersHold` (`AnswersAreTrue`): whatever changes between the reads. The invariant
  (`RequestOK`) says that every read that ended brought what some world of the request answers
  (`ReadIn`), and that the stages go on without a gap: what a stage needs of an earlier one has
  been read, and a read is missing only where it is skipped (`ReadingGoesOn`).
- `ProjectionsHold` (`ProjectionsDecide`): the probe's quotient reaches the floor just when the
  guard accepts, and a borrow at which the debt itself overflows is below it. It assumes
  `CollateralFits`: the collateral times the loan-to-value and the unit is a word. Collateral
  is ether, whose whole supply is far below that; without it the probe's unbounded arithmetic and
  the guard's would differ.
- `CollectionsHold` (`CollectionsAreTrue`): by an invariant over the registry (`MetricsOK`) that
  gives each metric's series from the reads that ended. The sums are over sets of samples, whose
  weights two lemmas add up.

`Serving_proofs`, about `CircuitBreaker` (every threshold, cooldown and set of callers):
`TypeCorrect`, `CountersCorrect`, and the action properties `OpensCorrectly`, `ClosesCorrectly`
and `CooldownKept`. `CountersAgree` is not inductive by itself: `ProbesInARow` adds that the
successes counted while half-open are the last outcomes, without interruption. Lemmas
state what `MaybeHalfOpen`, `RecordSuccess` and `RecordFailure` do to the fields. About
`Serving` (every environment, response, threshold, number of attempts and signals):

- `ServingImplementsBreaker`: a step of the gateway is a step or a stutter of `CircuitBreaker`,
  so one outcome per request reaches the breaker, whatever its attempts were. Inductive with
  `SendsAreCalls`: a request on its way is a call the breaker knows of. What is proved of the
  breaker then holds of the gateway: `OpensOnFaultyRequests`, `ClosesOnGoodRequests`,
  `LateRequestsKeepCooldown`. It rests on `KeeperHubConstants`, which says by status which
  responses are faults.
- `ShutdownWaits`: the process leaves the log and exits only with every post answered
  (`StopWaited`), for any number of signals.
- `GuardsWordsAreQuoted` (`GuardIsQuoted`), with `InvariantsAreReadBack`: the parser returns the
  numbers of a broken invariant exactly where nothing sticks to the last of them, and what is
  published is ruled by a response that was received (`RuledByResults`). `ReportsConstants` says
  what may be behind a response: the guard in words that can be read, or that cannot, or a
  called contract in any words at all.

`Dashboard_proofs`, about `Dashboard` (any runs, clicks, instances, intents, policies):
`TypeCorrect`, `OnlyDecidedOrHandedIsSent`, `OnceUnlessHandedIn`, `ReleasesWereSent`, for any
bodies clients hand to the release route. The invariant adds
what a run that simulates or broadcasts was decided (`RunsAreDecided`), that holds, and what
releases send but for bodies, are of intents that were submitted and that the policy holds
(`HoldsAreHeld`, `ReleasesAreDecided`), and that KeeperHub's ledger has one entry per key, of
the call it was taken from (`LedgerIsKeyed`). That an intent is sent once follows: its verdict
leaves it one way to be sent, and each way has one key, a body's included. About `PolicyWindow` (any
policies that parse, intents, fillings, and any number of edits, openings and deployments):

- `SchedulesAreKept`: the hours of a schedule, walked one by one, are those its comparisons let
  pass, over midnight too.
- `ReopeningIsKept`: a policy opened on the canvas compiles back to the same rules
  (`ReopenedIsTheSame`), block by block. It needs that the policy in force always parses
  (`IsPolicy`, kept by every deployment) and `BlankIsNoAddress`: an address is not the empty text.
  A policy with an empty list of selectors is outside it, since reopening lifts that list.
- `ReportsHold` (`ReportsAreTrue`) and `RemovalsTighten` (`RemovalsNeverLoosen`): for every canvas
  whose blocks hold their kind's fields (`CanvasOK`), in any contexts. That a shorter window counts
  no more than a longer one, and sums no more value, is lemmas on folds.

`KeeperHubClient_proofs` (any sends, targets, keys, bodies and attempts):

- `TypeCorrect`, together with the number of attempts each phase can have.
- `SendsAtMostOnce` and `AcceptedIsTheSendsOwn`. An effect at most once needs that equal
  bodies come with equal keys, as callers derive the key from the intent: it is an assumption
  of the theorem, since a caller that changes the key of a body does send it twice. The
  invariant says of every request and answer on the wire whose send it is and which entry
  of the ledger it was taken from.
- `TargetsAreSerialised`. What is not obvious is that a chain of promises is a queue: the
  invariant is that there is an order of the queued sends in which each waits for the one
  before it of its target.

`Gateway_proofs` (any requests, intents, keys, policies): `TypeCorrect`,
`OnlyAuthorizedIsSent`, `IntentsAreSentOnce` (of an intent whose requests keep to one key),
`EvidenceComesFirst`, and the action property `ResolutionIsFinal`. The invariant has a part
for each stage: what a request knows of its decision, what a hold in the ledger was decided
from, what a call on its way or applied was authorized by, that it was put before, and which
key it carries.

`Gateway_proofs`, then about `Receipts` and `Evidence` (any intents and decisions, any values
written into a handed-out receipt, any number of edits):

- `TheDigestIsTheEvidence` (`DigestIsTheEvidence`). Its heart is `DigestTells`: two documents of
  which one has a digest have the same just when they say the same, member by member. It rests
  on `OnlyTheseAgree` (texts of objects are equal just when those of their members are), on the
  payload of each record of a receipt (`ReasonsAgree`, `SimulationsAgree`, `ExecutionsAgree`),
  and on what rewriting does: `WithIs`, `WithoutIs`, `ReversedIs` and `EditedIs` say that no
  edit makes an object with a key twice, of which `DigestTells` would be false.
- `TheVerifiersAgree` (`VerifiersAgree`). The pages hash the text itself, not the payload:
  `ReceiptIsWhole` says that for a receipt of the gateway both are one, `ShapedTells` that
  among documents with its members the text alone tells the evidence.
- `ReceiptsNameTheirCalls` (`ReceiptNamesItsCalls`), from `HashTells`: hashes of intents are
  equal just when id, chain, time and calls are, although value and data are joined to one text
  (`authorize.ts:156`). They cannot be cut in another place: that takes a value with a colon in
  it, and `evaluate`, which comes before the hash, throws on one (`BigInt`, `rules.ts:10-12`).
  This is the assumption `ValuesAreSummed`.

They assume `EvidenceConstants`: intents are records with a list of calls, a decision's reasons
and simulation are JSON with the members the gateway writes, and an editor writes JSON. That
neither the texts of two values nor the hashes of two texts are confused is how `Receipts`
models them.

`Anchoring_proofs`:

- About `AnchorStore`, with any admin and any callers: `StoreTypeCorrect`, `RecordsArePermanent`.
- `ProofsLeadToTheRoot`: the proof of any leaf of a tree of any size leads to the tree's root.
  By induction over the levels: the node above a leaf at each level is what the proof up to
  there computes, and a promoted node adds nothing to either.
- About `Anchoring` (any receipts, hours, policies, faults and handovers): `InvariantHolds`,
  `AnchoringUsesStore` (the script, the gateway and KeeperHub change the contract only as
  `AnchorStore` allows), hence `AnchoringIsPermanent`; and `MarkedReceiptsVerify`
  (`MarksVerify`), whose heart is `OneRootPerHour`: all requests of an hour, by their key, are
  one, so a mark made from an accepted call and a root mined later agree.
- `OwnReceiptsOnly`: any proof whatever that verifies for a receipt is of its own hour and
  policy. It assumes `HashesAreNoDigests`, that the hash of a pair is no receipt's digest
  (one is the keccak of 64 bytes, the other of a JSON text).
- About `AnchorConsumer` (any log, batch size, attempts and restarts): `DecisionsAreKept`, since
  a decision's handler can fail just once (`FirstTries`): the failed flush leaves an empty
  batch, into which the retry fits; and `ArrivalOrderHolds`, where the sealed batches and the
  open one, laid end to end, are in order and hold exactly what came (`Ordered`, `Members`), or
  at least that once the process has joined its group again.
  That the timer and the handler never seal the same leaves is `OneFlush`: the flush a
  full batch caused is the handler's, and it waits for it.

`Keeper_proofs` (any pool scale, floor, target, positions and calls of others): `TypeCorrect`;
`ProposesTheLeastRepay`, whose heart is `QuotientsSwap` (a rounded health factor reaches the
target just when the debt is at most the rounded debt at the target), together with the
invariant that one request at most is awaited and proposes what `decide` makes of its tick's
read; and the action property `FloorIsKept`.

The type invariants of the guard, the breaker, the client, the gateway, the dashboard, the
keeper and the contract are proved here, so their runs do not check them again.

Model-checked only:

- the liveness properties (`ServesAgain`, `ShutdownDrains`, `NoWedge`, `PartitionMoves`,
  `QuietBatchesAreSealed`, `Restored`): liveness under fairness, like ENABLED, is outside what
  the prover handles;
- `FormTellsTheTruth` of `ExecuteForm`, an assumption about the values of one form.

## Not modelled

- keccak and the strings of canonical JSON: a digest is taken to be injective, a string is a
  token. Spans, the text format of metrics, the gateway's own counters, notifications' text and
  rendering: no property depends on them.
- The policy's verdict inside the gateway: there it is an input, any per request; the rules
  are in `PolicyVM`.
- A second signal during the consumer's shutdown, and batches of two processes of one group.
- The tuples an invariant block compiles to, the selection, wires and layout of a canvas, a
  policy document that leaves out fields with defaults, and more than one keeper.
- Several wallets, chains or pools: the guard's properties are per position, and nothing
  else in the code relates two of them.
- `store.list(50_000)`: taken to return every receipt.
- Backoff lengths and timeouts as durations: a timeout may strike at any moment.

## Plan

Done, in this order: the guard, which everything else relies on; the way to it (breaker,
client, gateway); the human gate (dashboard); the evidence (anchoring, its other path
`AnchorConsumer`, and proofs in place of sets, `Merkle`); the rules and the agent that lives on
them (`PolicyVM`, `PolicyWindow`, `Keeper`); the gateway as a process (`Http`, `Serving`); the
receipts themselves (`Receipts`, `Evidence`); what is read of all of it (`LiveReads`,
`Collect`, `Registry`); and the two forms (`ExecuteForm`, `CanvasEditor`).

What would be worth doing next:

1. An abstract specification of at-most-once sending, which `KeeperHubClient`, `Gateway` and
   `Dashboard` would each be shown to implement; their properties say it one by one.
