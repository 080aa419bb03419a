-------------------------- MODULE AnchorConsumer ----------------------------
(***************************************************************************)
(* apps/anchor/src/index.ts over packages/events/src/consumer.ts: decision *)
(* records are taken off the log one at a time, their digests batched, and *)
(* each batch's root published when it is full, old, or at shutdown.  A    *)
(* root is its sequence of leaves.  The broker and kafkajs are external:   *)
(* a send ends (maxRetryTime), perhaps with an error although the record   *)
(* is on the topic, offsets are committed some time after the handler, and *)
(* a member that the group lost joins it again without a restart.          *)
(***************************************************************************)
EXTENDS SequencesExt

CONSTANTS
    MaxRecords,    \* bound on the log
    BatchSize,
    MaxAttempts,   \* options.maxAttempts of the consumer
    MaxRestarts    \* bound on how often the service starts again

Offsets == 1 .. MaxRecords   \* where a record is, and the name of its digest

ASSUME ConsumerConstants ==
    /\ BatchSize \in Nat \ {0}
    /\ MaxAttempts \in Nat \ {0}
    /\ MaxRecords \in Nat
    /\ MaxRestarts \in Nat

VARIABLES
    log,         \* the decisions topic, one partition: the kinds of its records
    committed,   \* the group's offset, 0 when it never committed
    status,      \* the process: "down", "up" or "stopping"
    offset,      \* the offset to handle, or being handled
    handler,     \* eachMessage: "idle", "flushing", "backoff" or "dead-letter"
    attempt,     \* which run of the handler the record at offset is in
    unsealed,    \* ReceiptBatch.leaves
    aged,        \* maxAgeMs has passed since the first of them
    batches,     \* the batches this process has sealed, and how their emit went
    deadLetters, \* the records it sent to the dead-letter topic
    cameIn,      \* the offset it came in at
    rejoined,    \* it has joined the group again since (bound: once)
    starts

consumerVars == <<log, committed, status, offset, handler, attempt, unsealed, aged, batches,
                  deadLetters, cameIn, rejoined, starts>>

Kinds == {"decision", "other event", "malformed"}
Reasons == {"size", "age", "shutdown"}
Batch == [reason : Reasons, leaves : Seq(Offsets),
          sent : {"sending", "acknowledged", "unacknowledged", "failed"}]

ConsumerInit ==
    /\ log = <<>>
    /\ committed = 0
    /\ status = "down"
    /\ offset = 1
    /\ handler = "idle" /\ attempt = 0
    /\ unsealed = <<>> /\ aged = FALSE
    /\ batches = <<>>
    /\ deadLetters = {}
    /\ cameIn = 1 /\ rejoined = FALSE
    /\ starts = 0
-----------------------------------------------------------------------------
(* ReceiptBatch                                                            *)

\* Slip: only a full batch flushes.
ShouldFlushFull(batch, old) == Len(batch) >= BatchSize

ShouldFlush(batch, old) == batch # <<>> /\ (Len(batch) >= BatchSize \/ old)

\* Slip: the leaves stay in the batch while their root is being sent.
SealKeeping(batch, reason) ==
    /\ batches' = Append(batches, [reason |-> reason, leaves |-> batch, sent |-> "sending"])
    /\ unsealed' = batch
    /\ aged' = FALSE

\* seal, and the emit of its root begins.
Seal(batch, reason) ==
    /\ batches' = Append(batches, [reason |-> reason, leaves |-> batch, sent |-> "sending"])
    /\ unsealed' = <<>>
    /\ aged' = FALSE

\* Time passes: the open batch reaches maxAgeMs.
Age ==
    /\ status # "down"
    /\ unsealed # <<>> /\ ~aged
    /\ aged' = TRUE
    /\ UNCHANGED <<log, committed, status, offset, handler, attempt, unsealed,
                   batches, deadLetters, cameIn, rejoined, starts>>

\* The interval: its flush is not awaited by anyone.
Tick ==
    /\ status = "up"
    /\ ShouldFlush(unsealed, aged)
    /\ Seal(unsealed, "age")
    /\ UNCHANGED <<log, committed, status, offset, handler, attempt, deadLetters, cameIn,
                   rejoined, starts>>
-----------------------------------------------------------------------------
(* eachMessage                                                             *)

Handled ==
    /\ offset' = offset + 1
    /\ handler' = "idle"
    /\ attempt' = 0

\* The handler: add, and flush a batch that is due.
Handle(digest) ==
    LET batch == Append(unsealed, digest)
    IN  IF ShouldFlush(batch, aged)
          THEN /\ Seal(batch, "size")
               /\ handler' = "flushing"
               /\ attempt' = attempt + 1
               /\ UNCHANGED offset
          ELSE /\ unsealed' = batch
               /\ Handled
               /\ UNCHANGED <<aged, batches>>

\* Slip: decodeEvent throws, and kafkajs delivers the record again.
RefuseForever ==
    /\ log[offset] = "malformed"
    /\ UNCHANGED <<offset, handler, attempt, unsealed, aged, batches>>

\* A record that does not parse goes to the dead letters at once.
Refuse ==
    /\ log[offset] = "malformed"
    /\ handler' = "dead-letter"
    /\ UNCHANGED <<offset, attempt, unsealed, aged, batches>>

Receive ==
    /\ status # "down"
    /\ handler = "idle"
    /\ offset <= Len(log)
    /\ \/ log[offset] = "decision" /\ Handle(offset)
       \/ log[offset] = "other event" /\ Handled /\ UNCHANGED <<unsealed, aged, batches>>
       \/ Refuse
    /\ UNCHANGED <<log, committed, status, deadLetters, cameIn, rejoined, starts>>

\* The backoff sleep ends: the handler runs again, from its start.
Retry ==
    /\ status # "down"
    /\ handler = "backoff"
    /\ Handle(offset)
    /\ UNCHANGED <<log, committed, status, deadLetters, cameIn, rejoined, starts>>

\* Slip: the first failure is the last.
AfterFailureAtOnce == handler' = "dead-letter" /\ UNCHANGED <<offset, attempt>>

\* The handler threw.
AfterFailure ==
    /\ handler' = IF attempt < MaxAttempts THEN "backoff" ELSE "dead-letter"
    /\ UNCHANGED <<offset, attempt>>

\* The emit of batch k ends.  Only the handler's own is awaited: what happens
\* to the others is logged.
Emitted(k, sent) ==
    /\ status # "down"
    /\ batches[k].sent = "sending"
    /\ batches' = [batches EXCEPT ![k].sent = sent]
    /\ IF batches[k].reason # "size" THEN UNCHANGED <<offset, handler, attempt>>
       ELSE IF sent = "acknowledged" THEN Handled ELSE AfterFailure
    /\ UNCHANGED <<log, committed, status, unsealed, aged, deadLetters, cameIn, rejoined,
                   starts>>

\* deadLetter catches its own failure: the partition moves on.
DeadLetter ==
    /\ status # "down"
    /\ handler = "dead-letter"
    /\ deadLetters' \in {deadLetters, deadLetters \cup {offset}}
    /\ Handled
    /\ UNCHANGED <<log, committed, status, unsealed, aged, batches, cameIn, rejoined, starts>>
-----------------------------------------------------------------------------
(* The process                                                             *)

\* Records are fetched from the committed offset, or from the end of the log
\* (fromBeginning: false) when there is none.
Fetch == offset' = IF committed = 0 THEN Len(log) + 1 ELSE committed

\* consumer.run.
StartUp ==
    /\ status = "down"
    /\ starts <= MaxRestarts
    /\ status' = "up"
    /\ Fetch
    /\ cameIn' = offset'
    /\ starts' = starts + 1
    /\ UNCHANGED <<log, committed, handler, attempt, unsealed, aged, batches, deadLetters,
                   rejoined>>

\* The group took the process for dead (its handler waited longer than the session
\* timeout, or the broker moved): once the handler is done kafkajs joins again and
\* begins where the group is, and what was handled but not committed is handled
\* again by a process that still has it in its batch.
Rejoin ==
    /\ status # "down"
    /\ handler = "idle"
    /\ ~rejoined
    /\ rejoined' = TRUE
    /\ Fetch
    /\ cameIn' = IF committed = 0 THEN offset' ELSE cameIn
    /\ UNCHANGED <<log, committed, status, handler, attempt, unsealed, aged, batches,
                   deadLetters, starts>>

\* The process is gone, with all it held in memory.
Gone ==
    /\ status' = "down"
    /\ handler' = "idle" /\ attempt' = 0
    /\ unsealed' = <<>> /\ aged' = FALSE
    /\ batches' = <<>> /\ deadLetters' = {}
    /\ rejoined' = FALSE

Crash ==
    /\ status # "down"
    /\ Gone
    /\ UNCHANGED <<log, committed, offset, cameIn, starts>>

\* SIGTERM: stop the interval and flush what is in hand.  (A second signal is
\* not modelled.)
Terminate ==
    /\ status = "up"
    /\ status' = "stopping"
    /\ IF unsealed = <<>> THEN UNCHANGED <<unsealed, aged, batches>> ELSE Seal(unsealed, "shutdown")
    /\ UNCHANGED <<log, committed, offset, handler, attempt, deadLetters, cameIn,
                   rejoined, starts>>

\* That flush has ended: consumer.disconnect lets the handler finish and
\* commits, and the process exits.
ShutDown ==
    /\ status = "stopping"
    /\ handler = "idle"
    /\ \A k \in DOMAIN batches : batches[k].reason = "shutdown" => batches[k].sent # "sending"
    /\ committed' = IF offset > cameIn THEN offset ELSE committed
    /\ Gone
    /\ UNCHANGED <<log, offset, cameIn, starts>>

\* kafkajs commits what has been handled, at some point.
Commit ==
    /\ status # "down"
    /\ offset > cameIn
    /\ committed # offset
    /\ committed' = offset
    /\ UNCHANGED <<log, status, offset, handler, attempt, unsealed, aged,
                   batches, deadLetters, cameIn, rejoined, starts>>

\* The gateway publishes a decision, or somebody a record that is none.
Publish ==
    /\ Len(log) < MaxRecords
    /\ \E kind \in Kinds : log' = Append(log, kind)
    /\ UNCHANGED <<committed, status, offset, handler, attempt, unsealed, aged,
                   batches, deadLetters, cameIn, rejoined, starts>>

Consumer == Receive \/ Retry \/ DeadLetter

Broker == \E k \in DOMAIN batches, sent \in {"acknowledged", "unacknowledged", "failed"} :
    Emitted(k, sent)

ConsumerNext ==
    \/ Consumer \/ Broker \/ Commit
    \/ Age \/ Tick
    \/ StartUp \/ Rejoin \/ Crash \/ Terminate \/ ShutDown
    \/ Publish

ConsumerSpec == ConsumerInit /\ [][ConsumerNext]_consumerVars

\* The event loop runs what is due, and every send ends one way or another.
FairConsumerSpec ==
    /\ ConsumerSpec
    /\ WF_consumerVars(Consumer) /\ WF_consumerVars(Broker)
    /\ WF_consumerVars(Age) /\ WF_consumerVars(Tick)
-----------------------------------------------------------------------------
(* Properties *)

\* The batches in the order they were begun, the open one last.
Batched == Append([k \in DOMAIN batches |-> batches[k].leaves], unsealed)

\* "Ordering within the tree is arrival order": what a process has batched is
\* what it was given, nothing skipped, reordered or batched twice, but for the
\* record whose handler is being retried; the timer's flushes cut the stream
\* anywhere without disturbing it.  Once it has joined the group again, nothing
\* is skipped, but records may be batched a second time: the leaf index is not
\* "reproducible from the log" then (index.ts:29).
ArrivalOrder ==
    status # "down" =>
        LET given == {i \in cameIn .. (IF attempt = 0 THEN offset - 1 ELSE offset) :
                        log[i] = "decision"}
            members == UNION {Range(Batched[b]) : b \in DOMAIN Batched}
        IN  /\ given \subseteq members
            /\ ~rejoined =>
                 /\ members \subseteq given
                 /\ \A b \in DOMAIN Batched : \A i, j \in DOMAIN Batched[b] :
                      i < j => Batched[b][i] < Batched[b][j]
                 /\ \A b, c \in DOMAIN Batched :
                      b < c => \A i \in Range(Batched[b]), j \in Range(Batched[c]) : i <= j

\* Retries and batches together: the handler that runs again begins with an
\* empty batch and returns without a flush, so however often sends fail, no
\* decision becomes a dead letter (the other leaves of the failed root are what
\* is lost: NoDecisionIsLeftOut).
DecisionsAreNotDeadLettered ==
    BatchSize > 1 /\ MaxAttempts > 1 =>
        \A i \in deadLetters : log[i] = "malformed"

\* No record blocks the partition: malformed, or failing for ever, it is
\* behind the consumer at last.
PartitionMoves ==
    \A i \in Offsets :
        (status = "up" /\ offset = i /\ i <= Len(log)) ~> (offset > i \/ status # "up")

\* A quiet period does not leave the last receipts without a root: an open
\* batch is sealed although no record follows.
QuietBatchesAreSealed == (status = "up" /\ unsealed # <<>>) ~> (unsealed = <<>> \/ status # "up")

\* apps/anchor/src/index.ts:18-19: "no decision that was published is left out
\* of a root".  Less than that: none that this process has handled, and that
\* is neither waiting nor in the dead letters.
NoDecisionIsLeftOut ==
    status # "down" =>
        \A i \in cameIn .. offset - 1 :
            \/ log[i] # "decision" \/ i \in deadLetters \/ Contains(unsealed, i)
            \/ \E k \in DOMAIN batches :
                 batches[k].sent # "failed" /\ Contains(batches[k].leaves, i)
=============================================================================
