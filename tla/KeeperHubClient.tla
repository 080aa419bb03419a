-------------------------- MODULE KeeperHubClient ---------------------------
(***************************************************************************)
(* packages/keeperhub/src/client.ts: sends queue per target, each attempt  *)
(* may be answered, refused, time out or be applied without an answer, and *)
(* is retried under one idempotency key.  KeeperHub itself is external and *)
(* modelled by the contract the client relies on (client.ts:208-218).      *)
(* The circuit breaker has a module of its own; here it refuses at will.   *)
(***************************************************************************)
EXTENDS Integers, FiniteSets

CONSTANTS
    Sends,         \* calls of executeTransfer and executeContractCall
    Target,        \* Target[s]: the walletKey s is queued under
    Key,           \* Key[s]: its idempotency key
    Body,          \* Body[s]: the request body, one per intended effect
    MaxAttempts,   \* RetryPolicy.maxAttempts
    NoSend         \* stands for Promise.resolve(), the queue's first link

ASSUME ClientConstants ==
    /\ MaxAttempts \in Nat \ {0}
    /\ NoSend \notin Sends
    /\ DOMAIN Target = Sends /\ DOMAIN Key = Sends /\ DOMAIN Body = Sends

Targets == {Target[s] : s \in Sends}
Bodies == {Body[s] : s \in Sends}

VARIABLES
    phase,      \* what each send is doing
    attempt,    \* its attempt counter
    previous,   \* the promise it was chained to
    tail,       \* walletQueues: the last promise of each target
    answer,     \* the response its current attempt has received
    wire,       \* requests on their way to KeeperHub, <<send, attempt>>
    ledger,     \* KeeperHub's requests by idempotency key
    crashed     \* the client process has restarted (bound: once)

vars == <<phase, attempt, previous, tail, answer, wire, ledger, crashed>>

Running == {"flying", "backoff"}
Outcomes == {"accepted", "wouldRevert", "conflict", "refused", "unwell", "inProgress", "circuitOpen",
             "lost"}
Answers == {"ok", "wouldRevert", "conflict", "refused", "unwell", "inProgress"}
Attempts == 1 .. MaxAttempts

\* Slip: a new key per attempt.
KeyOfAttemptFresh(s, n) == <<Key[s], n>>

KeyOfAttempt(s, n) == Key[s]

\* waiter: the attempt whose connection is open while the request runs.
Entry == [key : {KeyOfAttempt(s, n) : s \in Sends, n \in Attempts}, body : Bodies,
          status : {"running", "done"}, waiter : (Sends \X Attempts) \cup {<<>>}]

TypeOK ==
    /\ phase \in [Sends -> {"idle", "queued"} \cup Running \cup Outcomes]
    /\ attempt \in [Sends -> 0 .. MaxAttempts]
    /\ previous \in [Sends -> Sends \cup {NoSend}]
    /\ tail \in [Targets -> Sends \cup {NoSend}]
    /\ answer \in [Sends -> Answers \cup {"none"}]
    /\ wire \subseteq Sends \X Attempts
    /\ ledger \subseteq Entry
    /\ crashed \in BOOLEAN

Settled(s) == IF s = NoSend THEN TRUE ELSE phase[s] \in Outcomes
-----------------------------------------------------------------------------
Init ==
    /\ phase = [s \in Sends |-> "idle"]
    /\ attempt = [s \in Sends |-> 0]
    /\ previous = [s \in Sends |-> NoSend]
    /\ tail = [t \in Targets |-> NoSend]
    /\ answer = [s \in Sends |-> "none"]
    /\ wire = {}
    /\ ledger = {}
    /\ crashed = FALSE

\* enqueue: chain to the target's last promise and become it.
Enqueue(s) ==
    /\ phase[s] = "idle"
    /\ phase' = [phase EXCEPT ![s] = "queued"]
    /\ previous' = [previous EXCEPT ![s] = tail[Target[s]]]
    /\ tail' = [tail EXCEPT ![Target[s]] = s]
    /\ UNCHANGED <<attempt, answer, wire, ledger, crashed>>

Goes(s, next) == phase' = [phase EXCEPT ![s] = next]

\* The promise settles, and with it end the locals of sendWithRetries.
Settle(s, outcome) ==
    /\ Goes(s, outcome)
    /\ attempt' = [attempt EXCEPT ![s] = 0]
    /\ answer' = [answer EXCEPT ![s] = "none"]

Transmit(s) ==
    /\ attempt' = [attempt EXCEPT ![s] = @ + 1]
    /\ wire' = wire \cup {<<s, attempt'[s]>>}
    /\ answer' = [answer EXCEPT ![s] = "none"]
    /\ Goes(s, "flying")

\* Slip: chaining with then(task) alone.
TurnAfterSuccess(s) ==
    IF previous[s] = NoSend THEN TRUE ELSE phase[previous[s]] = "accepted"

\* Slip: the chain is not followed.
TurnAtOnce(s) == TRUE

\* then(task, task): the send's turn comes when the one before has settled.
TurnOf(s) == Settled(previous[s])

Start(s) ==
    /\ phase[s] = "queued"
    /\ TurnOf(s)
    /\ Transmit(s)
    /\ UNCHANGED <<previous, tail, ledger, crashed>>

\* assertAllowed throws in the task, before the first attempt.
RefusedByCircuit(s) ==
    /\ phase[s] = "queued"
    /\ TurnOf(s)
    /\ Settle(s, "circuitOpen")
    /\ UNCHANGED <<previous, tail, wire, ledger, crashed>>

\* A fault that may be retried, or the error of the last attempt.
RetryOrThrow(s, outcome) ==
    IF attempt[s] = MaxAttempts
      THEN Settle(s, outcome)
      ELSE /\ Goes(s, "backoff")
           /\ answer' = [answer EXCEPT ![s] = "none"]
           /\ UNCHANGED attempt

\* The transport throws: a timeout or a dead socket, whatever happened upstream.
TransportFails(s) ==
    /\ phase[s] = "flying"
    /\ RetryOrThrow(s, "unwell")
    /\ UNCHANGED <<previous, tail, wire, ledger, crashed>>

\* Slip: an error after a lost answer is taken for an acceptance.
HandleOptimistically(s) ==
    /\ phase[s] = "flying"
    /\ answer[s] # "none"
    /\ Settle(s, IF answer[s] \in {"ok", "inProgress", "conflict"} THEN "accepted" ELSE answer[s])
    /\ UNCHANGED <<previous, tail, wire, ledger, crashed>>

\* The response of the attempt in flight: 2xx, a 400 that predicts a revert, 409 of
\* either kind, another 4xx, or 429 and 5xx.  The first two are returned, the second
\* as an ExecutionAccepted without an execution; the others are thrown.
Handle(s) ==
    /\ phase[s] = "flying"
    /\ answer[s] # "none"
    /\ CASE answer[s] = "ok" -> Settle(s, "accepted")
         [] answer[s] \in {"wouldRevert", "conflict", "refused"} -> Settle(s, answer[s])
         [] answer[s] \in {"inProgress", "unwell"} -> RetryOrThrow(s, answer[s])
    /\ UNCHANGED <<previous, tail, wire, ledger, crashed>>

\* The backoff sleep ends.
Retry(s) ==
    /\ phase[s] = "backoff"
    /\ Transmit(s)
    /\ UNCHANGED <<previous, tail, ledger, crashed>>

\* The process restarts: its queues and the sends it had not settled are gone.
Crash ==
    /\ ~crashed
    /\ crashed' = TRUE
    /\ phase' = [s \in Sends |->
                   IF phase[s] \in Running \cup {"queued"} THEN "lost" ELSE phase[s]]
    /\ attempt' = [s \in Sends |-> 0]
    /\ answer' = [s \in Sends |-> "none"]
    /\ tail' = [t \in Targets |-> NoSend]
    /\ UNCHANGED <<previous, wire, ledger>>
-----------------------------------------------------------------------------
(* KeeperHub (external)                                                    *)

\* A response reaches the client only while that very attempt waits for it.
Respond(s, n, a) ==
    answer' = IF phase[s] = "flying" /\ attempt[s] = n
                THEN [answer EXCEPT ![s] = a] ELSE answer

EntriesFor(s, n) == {e \in ledger : e.key = KeyOfAttempt(s, n)}

\* A key seen for the first time starts work; a known one is replayed, is
\* still in progress, or conflicts with another body.
TakeUp(s, n) ==
    /\ <<s, n>> \in wire
    /\ wire' = wire \ {<<s, n>>}
    /\ IF EntriesFor(s, n) = {}
         THEN /\ ledger' = ledger \cup {[key |-> KeyOfAttempt(s, n), body |-> Body[s],
                                         status |-> "running", waiter |-> <<s, n>>]}
              /\ UNCHANGED answer
         ELSE /\ \E e \in EntriesFor(s, n) :
                   Respond(s, n, IF e.body # Body[s] THEN "conflict"
                                 ELSE IF e.status = "done" THEN "ok" ELSE "inProgress")
              /\ UNCHANGED ledger
    /\ UNCHANGED <<phase, attempt, previous, tail, crashed>>

\* Rate limit, cold start, authentication, spending cap, a revert foreseen: nothing
\* was done.
TurnAway(s, n) ==
    /\ <<s, n>> \in wire
    /\ wire' = wire \ {<<s, n>>}
    /\ \E a \in {"wouldRevert", "refused", "unwell"} : Respond(s, n, a)
    /\ UNCHANGED <<phase, attempt, previous, tail, ledger, crashed>>

\* The request is executed, and its answer may be on its way for the client.
Complete(e) ==
    /\ e.status = "running"
    /\ ledger' = (ledger \ {e}) \cup {[e EXCEPT !.status = "done", !.waiter = <<>>]}
    /\ Respond(e.waiter[1], e.waiter[2], "ok")
    /\ UNCHANGED <<phase, attempt, previous, tail, wire, crashed>>

\* Upstream breaks before executing: the key is free again.
Abandon(e) ==
    /\ e.status = "running"
    /\ ledger' = ledger \ {e}
    /\ Respond(e.waiter[1], e.waiter[2], "unwell")
    /\ UNCHANGED <<phase, attempt, previous, tail, wire, crashed>>

Client(s) ==
    Start(s) \/ RefusedByCircuit(s) \/ TransportFails(s) \/ Handle(s) \/ Retry(s)

KeeperHub ==
    \/ \E s \in Sends, n \in Attempts : TakeUp(s, n) \/ TurnAway(s, n)
    \/ \E e \in ledger : Complete(e) \/ Abandon(e)

Next ==
    \/ \E s \in Sends : Enqueue(s) \/ Client(s)
    \/ Crash
    \/ KeeperHub

Spec == Init /\ [][Next]_vars

\* AbortSignal.timeout ends every attempt and every backoff ends, so a task
\* that may run does.  KeeperHub owes the client nothing.
FairSpec == Spec /\ \A s \in Sends : WF_vars(Client(s))
-----------------------------------------------------------------------------
(* Properties *)

\* However often a send is retried, resubmitted or answered too late, its
\* effect happens once ("the idempotency key makes a duplicate send a no-op").
AtMostOnce ==
    \A d, e \in ledger : d.body = e.body => d = e

\* A send answered as accepted (below 400) was taken up with its own body: a replay
\* of another body's result is never mistaken for it.
AcceptedIsOwn ==
    \A s \in Sends : phase[s] = "accepted" =>
        \E e \in ledger : e.body = Body[s] /\ e.status = "done"

\* Sends of one target never run at the same time.
OneSendPerTarget ==
    \A s, t \in Sends :
        s # t /\ Target[s] = Target[t] => ~(phase[s] \in Running /\ phase[t] \in Running)

\* Every send that was queued settles: a failed send, an open circuit or a
\* silent KeeperHub cannot wedge the queue behind it.
NoWedge == \A s \in Sends : phase[s] = "queued" ~> Settled(s)
=============================================================================
