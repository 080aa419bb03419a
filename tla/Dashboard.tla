----------------------------- MODULE Dashboard ------------------------------
(***************************************************************************)
(* The dashboard's own pipeline (apps/dashboard/lib/execute.ts) and human  *)
(* gate (lib/holds-ledger.ts, app/v1/holds/[id]): serverless instances,    *)
(* each with a hold ledger of its own, and a browser that keeps a copy of  *)
(* the holds its execute page caused and hands it back on release.  A hold *)
(* has the id of its intent (with hold_ for int_).  KeeperHub is external  *)
(* and applies an idempotency key once.                                    *)
(***************************************************************************)
CONSTANTS
    Runs,         \* POSTs to /v1/execute, /v1/authorize and /api/execute
    Clicks,       \* POSTs to /v1/holds/:id/release and /cancel
    Instances,    \* serverless instances of the deployment
    Ids,          \* intent ids; "undefined", for a missing one, may be of them
    Intents,      \* what an intent asks for
    Bodies,       \* what clients hand the release route: ids and intents
    Policy,       \* Policy[i]: the verdict of evaluate on i
    NoId,
    NoIntent,
    NoInstance

ASSUME DashboardConstants ==
    /\ Policy \in [Intents -> {"ALLOW", "HOLD", "DENY"}]
    /\ Bodies \subseteq Ids \X Intents
    /\ NoIntent \notin Intents /\ NoId \notin Ids

VARIABLES
    run,        \* each run: its intent and the id it goes by, its instance, whether
                \* it may broadcast, and whether the execute page waits for it
    pc,         \* where runIntent is
    simulation, \* what its simulation answered
    ledger,     \* holds: each hold on each instance, its status and intent
    browser,    \* localStorage: the browser's copies
    click,      \* each release: its instance, and the intent it broadcasts, the id of
                \* that and where it is from
    phase,      \* where its handler is
    sending,    \* each broadcast: on its way to KeeperHub, or taken up
    applied,    \* what KeeperHub took up
    recycled    \* an instance has been recycled (bound: once)

vars == <<run, pc, simulation, ledger, browser, click, phase, sending, applied, recycled>>

Statuses == {"none", "held", "released", "cancelled"}
Calls == ({"run"} \X Runs) \cup ({"release"} \X Clicks)
Keys == {"dapp", "release"} \X Ids
Run == [id : Ids \cup {NoId}, intent : Intents \cup {NoIntent},
        at : Instances \cup {NoInstance}, broadcast : BOOLEAN, page : BOOLEAN]
Hold == [status : Statuses, intent : Intents \cup {NoIntent}]
Click == [at : Instances \cup {NoInstance}, from : {"none", "ledger", "copy", "body"},
          id : Ids \cup {NoId}, intent : Intents \cup {NoIntent}]

TypeOK ==
    /\ run \in [Runs -> Run]
    /\ pc \in [Runs -> {"new", "simulate", "broadcast", "held", "done", "shown"}]
    /\ simulation \in [Runs -> {"none", "passes", "refuses", "throws"}]
    /\ ledger \in [Instances -> [Ids -> Hold]]
    /\ browser \in [Ids -> Hold]
    /\ click \in [Clicks -> Click]
    /\ phase \in [Clicks -> {"idle", "broadcast", "done"}]
    /\ sending \in [Calls -> {"idle", "wire", "taken"}]
    /\ applied \subseteq [key : Keys, by : Calls]
    /\ recycled \in BOOLEAN

NoHold == [status |-> "none", intent |-> NoIntent]
-----------------------------------------------------------------------------
Init ==
    /\ run = [r \in Runs |->
                [id |-> NoId, intent |-> NoIntent, at |-> NoInstance,
                 broadcast |-> FALSE, page |-> FALSE]]
    /\ pc = [r \in Runs |-> "new"]
    /\ simulation = [r \in Runs |-> "none"]
    /\ ledger = [n \in Instances |-> [h \in Ids |-> NoHold]]
    /\ browser = [h \in Ids |-> NoHold]
    /\ click = [c \in Clicks |->
                  [at |-> NoInstance, from |-> "none", id |-> NoId, intent |-> NoIntent]]
    /\ phase = [c \in Clicks |-> "idle"]
    /\ sending = [c \in Calls |-> "idle"]
    /\ applied = {}
    /\ recycled = FALSE

IdOf(c) == IF c[1] = "run" THEN run[c[2]].id ELSE click[c[2]].id
IntentOf(c) == IF c[1] = "run" THEN run[c[2]].intent ELSE click[c[2]].intent

\* Slip: the key names the attempt to release, not the intent.
KeyPerClick(c) == IF c[1] = "run" THEN <<"dapp", IdOf(c)>> ELSE c

\* noyeet-dapp-<id> and noyeet-hold-release-<id>.
KeyOf(c) == <<IF c[1] = "run" THEN "dapp" ELSE "release", IdOf(c)>>

Send(c) == sending' = [sending EXCEPT ![c] = "wire"]

Taken(c) == \E e \in applied : e.key = KeyOf(c)

Moves(r, place) == pc' = [pc EXCEPT ![r] = place]

\* createHold overwrites whatever the ledger held under this id.
CreateHold(n, h, i) == ledger' = [ledger EXCEPT ![n][h] = [status |-> "held", intent |-> i]]

\* runIntent up to the simulation.  Agents choose the intent's id and may
\* repeat it, with whatever content; the execute page makes a fresh one and
\* always broadcasts.
Submit(r, h, i, n) ==
    /\ pc[r] = "new"
    /\ \E broadcast, page \in BOOLEAN :
         /\ page => broadcast /\ \A q \in Runs : run[q].id # h
         /\ run' = [run EXCEPT ![r] = [id |-> h, intent |-> i, at |-> n,
                                      broadcast |-> broadcast, page |-> page]]
    /\ \/ /\ Policy[i] = "HOLD"
          /\ CreateHold(n, h, i)
          /\ Moves(r, "held")
       \/ /\ Policy[i] = "DENY"
          /\ Moves(r, "done")
          /\ UNCHANGED ledger
       \/ /\ Policy[i] = "ALLOW"
          /\ Moves(r, "simulate")
          /\ UNCHANGED ledger
    /\ UNCHANGED <<simulation, browser, click, phase, sending, applied, recycled>>

\* The answer reaches the page, which keeps a copy of the hold as held, whatever
\* became of it meanwhile; if storage is blocked, it does not.
Shows(r) ==
    /\ run[r].page /\ pc[r] = "held"
    /\ Moves(r, "shown")
    /\ browser' = [browser EXCEPT ![run[r].id] = [status |-> "held", intent |-> run[r].intent]]
    /\ UNCHANGED <<run, simulation, ledger, click, phase, sending, applied, recycled>>

\* Slip: any answer that parses passes.
PassesUnlessReverting(s) == s # "throws"

\* wouldRevert !== false: an answer without it is a refusal too.
Passes(s) == s = "passes"

\* Without a broadcast the run is answered "allowed", or "denied" if the
\* simulation refused it or its fetch threw.
Simulate(r) ==
    /\ pc[r] = "simulate"
    /\ \E s \in {"passes", "refuses", "throws"} :
         /\ simulation' = [simulation EXCEPT ![r] = s]
         /\ IF Passes(s) /\ run[r].broadcast
              THEN Moves(r, "broadcast") /\ Send(<<"run", r>>)
              ELSE Moves(r, "done") /\ UNCHANGED sending
    /\ UNCHANGED <<run, ledger, browser, click, phase, applied, recycled>>

\* KeeperHub's answer, an error or an executionId, leaves the run "submitted"; a
\* fetch that throws leaves it "denied", whatever becomes of the request.
BroadcastEnds(r) ==
    /\ pc[r] = "broadcast"
    /\ Moves(r, "done")
    /\ UNCHANGED <<run, simulation, ledger, browser, click, phase, sending, applied, recycled>>
-----------------------------------------------------------------------------
(* The operator *)

Broadcasts(c, n, from, id, i) ==
    /\ click' = [click EXCEPT ![c] = [at |-> n, from |-> from, id |-> id, intent |-> i]]
    /\ phase' = [phase EXCEPT ![c] = "broadcast"]
    /\ Send(<<"release", c>>)

\* The page's copy, if it has one, follows an answer that reached it, unless
\* storage is blocked.
CopyStatus(h, status) ==
    \/ UNCHANGED browser
    \/ /\ browser[h].status # "none"
       /\ browser' = [browser EXCEPT ![h] = [status |-> status, intent |-> browser[h].intent]]

Resolves(n, h, status) ==
    ledger' = IF ledger[n][h].status = "held"
                THEN [ledger EXCEPT ![n][h] = [status |-> status, intent |-> ledger[n][h].intent]]
                ELSE ledger

\* Slip: the hold is released before it is broadcast.
ReleaseAtOnce(c, h, n) ==
    /\ phase[c] = "idle"
    /\ ledger[n][h].status = "held"
    /\ Broadcasts(c, n, "ledger", h, ledger[n][h].intent)
    /\ Resolves(n, h, "released")
    /\ UNCHANGED <<run, pc, simulation, browser, applied, recycled>>

\* What is broadcast is the hold of this instance, or else what the body hands
\* in: the browser's list hands in its copy, and any other client any object,
\* under any id, which nothing compares with a hold, a decision or the hold's
\* id.  With neither, 404.
Release(c, h, n) ==
    /\ phase[c] = "idle"
    /\ \/ /\ ledger[n][h].status = "held"
          /\ Broadcasts(c, n, "ledger", h, ledger[n][h].intent)
       \/ /\ ledger[n][h].status # "held"
          /\ \/ /\ browser[h].status # "none"
                /\ Broadcasts(c, n, "copy", h, browser[h].intent)
             \/ \E body \in Bodies : Broadcasts(c, n, "body", body[1], body[2])
             \/ /\ phase' = [phase EXCEPT ![c] = "done"]
                /\ UNCHANGED <<click, sending>>
    /\ UNCHANGED <<run, pc, simulation, ledger, browser, applied, recycled>>

\* broadcastIntent returned an executionId: the hold, if getHold showed it
\* held and it still is, is marked released, and so is the browser's copy.
Released(c) ==
    /\ phase[c] = "broadcast"
    /\ sending[<<"release", c>>] = "taken"
    /\ phase' = [phase EXCEPT ![c] = "done"]
    /\ IF click[c].from = "ledger"
         THEN Resolves(click[c].at, click[c].id, "released") ELSE UNCHANGED ledger
    /\ IF click[c].from = "body"
         THEN UNCHANGED browser ELSE CopyStatus(click[c].id, "released")
    /\ UNCHANGED <<run, pc, simulation, click, sending, applied, recycled>>

\* 502: the hold stays as it is.
ReleaseFails(c) ==
    /\ phase[c] = "broadcast"
    /\ phase' = [phase EXCEPT ![c] = "done"]
    /\ UNCHANGED <<run, pc, simulation, ledger, browser, click, sending, applied, recycled>>

\* cancelHold on this instance, or 404 and 409.
Cancel(c, h, n) ==
    /\ phase[c] = "idle"
    /\ phase' = [phase EXCEPT ![c] = "done"]
    /\ IF ledger[n][h].status = "held"
         THEN Resolves(n, h, "cancelled") /\ CopyStatus(h, "cancelled")
         ELSE UNCHANGED <<ledger, browser>>
    /\ UNCHANGED <<run, pc, simulation, click, sending, applied, recycled>>

\* The Dismiss button of the browser's list.
Dismiss(h) ==
    /\ browser[h].status # "none"
    /\ browser' = [browser EXCEPT ![h] = NoHold]
    /\ UNCHANGED <<run, pc, simulation, ledger, click, phase, sending, applied, recycled>>

\* An instance goes, with its ledger and the handlers it was running.
Recycle(n) ==
    /\ ~recycled
    /\ recycled' = TRUE
    /\ ledger' = [ledger EXCEPT ![n] = [h \in Ids |-> NoHold]]
    /\ pc' = [r \in Runs |-> IF run[r].at = n /\ pc[r] \in {"simulate", "broadcast"}
                               THEN "done" ELSE pc[r]]
    /\ phase' = [c \in Clicks |-> IF click[c].at = n /\ phase[c] = "broadcast"
                                    THEN "done" ELSE phase[c]]
    /\ UNCHANGED <<run, simulation, browser, click, sending, applied>>
-----------------------------------------------------------------------------
(* KeeperHub (external) *)

\* A new key is taken up; a known one is answered with what it did before.  What
\* gets lost or is turned away stays on its way.
Apply(c) ==
    /\ sending[c] = "wire"
    /\ sending' = [sending EXCEPT ![c] = "taken"]
    /\ applied' = IF Taken(c) THEN applied ELSE applied \cup {[key |-> KeyOf(c), by |-> c]}
    /\ UNCHANGED <<run, pc, simulation, ledger, browser, click, phase, recycled>>

Next ==
    \/ \E r \in Runs :
         \/ \E h \in Ids, i \in Intents, n \in Instances : Submit(r, h, i, n)
         \/ Shows(r) \/ Simulate(r) \/ BroadcastEnds(r)
    \/ \E c \in Clicks :
         \/ \E h \in Ids, n \in Instances : Release(c, h, n) \/ Cancel(c, h, n)
         \/ Released(c) \/ ReleaseFails(c)
    \/ \E h \in Ids : Dismiss(h)
    \/ \E n \in Instances : Recycle(n)
    \/ \E c \in Calls : Apply(c)

Spec == Init /\ [][Next]_vars
-----------------------------------------------------------------------------
(* Properties *)

WasSubmitted(id, i) == \E r \in Runs : pc[r] # "new" /\ run[r].id = id /\ run[r].intent = i

\* A run sends nothing but an allowed intent whose simulation said it would not
\* revert, and a release nothing but an intent somebody submitted under this id
\* and the policy holds, unless a client's body handed the release its intent:
\* that one need never have been decided (release/route.ts:28-34, against "Nothing
\* is broadcast while held", holds-ledger.ts:4).
SentWasDecided ==
    \A e \in applied :
        IF e.by[1] = "run"
          THEN /\ Policy[IntentOf(e.by)] = "ALLOW"
               /\ run[e.by[2]].broadcast
               /\ simulation[e.by[2]] = "passes"
          ELSE \/ click[e.by[2]].from = "body"
               \/ Policy[IntentOf(e.by)] = "HOLD" /\ WasSubmitted(IdOf(e.by), IntentOf(e.by))

\* However often an intent is submitted, released from either list, on any
\* instance, or answered too late, it is sent once under its id, unless a body
\* hands it to the release route: whatever a run sent, that sends once more,
\* under a key of its own (against release/route.ts:9-10).
SentOnce ==
    \A d, e \in applied :
        /\ d # e
        /\ IdOf(d.by) = IdOf(e.by) /\ IntentOf(d.by) = IntentOf(e.by)
        => {d.by[1], e.by[1]} = {"run", "release"}
           /\ \E c \in {d.by, e.by} : c[1] = "release" /\ click[c[2]].from = "body"

\* Where a hold is shown as released, a release was taken up under the hold's id: one
\* that failed leaves the hold waiting, for the operator to try again.  Under a
\* repeated id it may be of other content.
ReleasedWasSent ==
    \A h \in Ids :
        browser[h].status = "released" \/ (\E n \in Instances : ledger[n][h].status = "released") =>
            \E e \in applied : e.key = <<"release", h>>
=============================================================================
