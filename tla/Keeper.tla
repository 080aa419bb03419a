------------------------------- MODULE Keeper -------------------------------
(***************************************************************************)
(* The keeper (apps/keeper/src): every tick it reads the guard's position  *)
(* and, below the floor, proposes the repay that restores the target.  The *)
(* proposal goes through the gateway's /v1/execute and KeeperHub to the    *)
(* guard, where it may arrive after the position has moved.  What a tick   *)
(* is answered is only logged.                                             *)
(***************************************************************************)
EXTENDS PostState, SequencesExt

CONSTANTS
    Floor,         \* floorWei
    Target,        \* targetWei
    Positions,     \* where the position may begin
    Moves,         \* calls of the pool by guarded calls of others
    Nothing,       \* no read, no request under an id
    MaxNonce,      \* bound: an id from here on was never used before
    MaxMoves,      \* bound on the calls of others
    MaxFaults,     \* bound on outages, refusals by policy, lost answers, failed transactions
    MaxRestarts,   \* bound on restarts of the keeper
    MaxPending     \* bound on the transactions on their way

ASSUME KeeperConstants ==
    /\ Floor \in Nat /\ Target \in Nat \ {0} /\ Floor <= Target /\ Target <= MaxUint
    /\ Positions \subseteq Position
    /\ Moves \subseteq [fn : PoolFunctions, amount : Uint, value : Uint]
    /\ Nothing \notin Nat /\ Nothing \notin Position
    /\ MaxNonce \in Nat /\ MaxMoves \in Nat /\ MaxFaults \in Nat
    /\ MaxRestarts \in Nat /\ MaxPending \in Nat

VARIABLES
    position,   \* of the guard, on chain
    pc,         \* of the keeper's loop: "sleeping", "deciding" or "waiting"
    nonce,      \* of the next tick; all of MaxNonce and above is one
    read,       \* the position this tick has read
    requests,   \* at the gateway, as Request
    known,      \* KeeperHub's idempotency records: the amount accepted under an id
    pending,    \* the amounts of the transactions on their way
    moves, faults, restarts

vars == <<position, pc, nonce, read, requests, known, pending, moves, faults, restarts>>

Ids == 0 .. MaxNonce
Request == [id : Ids, amount : Nat, allowed : BOOLEAN, awaited : BOOLEAN]

TypeOK ==
    /\ position \in Position
    /\ pc \in {"sleeping", "deciding", "waiting"}
    /\ nonce \in Ids
    /\ read \in Position \cup {Nothing}
    /\ pc = "sleeping" <=> read = Nothing
    /\ requests \in Seq(Request)
    /\ pc = "waiting" <=> \E k \in DOMAIN requests : requests[k].awaited
    /\ known \in [0 .. MaxNonce - 1 -> Nat \cup {Nothing}]
    /\ pending \in Seq(Nat)
    /\ moves \in 0 .. MaxMoves
    /\ faults \in 0 .. MaxFaults
    /\ restarts \in 0 .. MaxRestarts

Init ==
    /\ position \in Positions
    /\ pc = "sleeping" /\ nonce = 0 /\ read = Nothing
    /\ requests = <<>>
    /\ known = [id \in 0 .. MaxNonce - 1 |-> Nothing]
    /\ pending = <<>>
    /\ moves = 0 /\ faults = 0 /\ restarts = 0

Fault ==
    /\ faults < MaxFaults
    /\ faults' = faults + 1
-----------------------------------------------------------------------------
(* The repay *)

\* Slip: the debt at the target is rounded up.
DebtAtTargetAbove(p) ==
    (((p.collateral * LtvBps) \div Bps) * Unit + Target - 1) \div Target

DebtAtTarget(p) == (((p.collateral * LtvBps) \div Bps) * Unit) \div Target

\* decide: 0 where the source has null.
Decide(p) ==
    IF Health(p) >= Floor \/ p.debt <= DebtAtTarget(p) THEN 0 ELSE p.debt - DebtAtTarget(p)

\* Slip: the floor bounds the fall of the health factor, not where it ends.
InvariantsRelative == <<[word |-> 5, op |-> "REL_DEC_MAX", threshold |-> Floor]>>

\* buildIntent: one call of the pool and the floor.
Invariants == <<[word |-> 5, op |-> "GTE", threshold |-> Floor]>>

RepayCall(amount) == [fn |-> "repay", amount |-> amount, value |-> 0]

\* The guarded call goes through: in a simulation, and when it is mined.
Passes(amount) ==
    /\ PoolAccepts(RepayCall(amount), position)
    /\ Respects(Invariants, position, PoolEffect(RepayCall(amount), position))
-----------------------------------------------------------------------------
(* The keeper *)

\* Slip: the counter is passed on and not counted up.
NonceKept(n) == n

NonceAfter(n) == IF n = MaxNonce THEN n ELSE n + 1

\* The loop begins a tick, which takes a number whatever becomes of it; the
\* answer of the chain is on its way back while the position may move on.
ReadPosition ==
    /\ pc = "sleeping"
    /\ ~HealthReverts(position)
    /\ pc' = "deciding" /\ read' = position
    /\ UNCHANGED <<position, nonce, requests, known, pending, moves, faults, restarts>>

\* The read fails, or getUserAccountData reverts.
ReadFails ==
    /\ pc = "sleeping"
    /\ (HealthReverts(position) /\ UNCHANGED faults) \/ Fault
    /\ nonce' = NonceAfter(nonce)
    /\ UNCHANGED <<position, pc, read, requests, known, pending, moves, restarts>>

\* Above the floor, or nothing to repay.
Noop ==
    /\ pc = "deciding" /\ Decide(read) = 0
    /\ pc' = "sleeping" /\ read' = Nothing /\ nonce' = NonceAfter(nonce)
    /\ UNCHANGED <<position, requests, known, pending, moves, faults, restarts>>

Submit ==
    /\ pc = "deciding" /\ Decide(read) > 0
    /\ requests' = Append(requests,
        [id |-> nonce, amount |-> Decide(read), allowed |-> FALSE, awaited |-> TRUE])
    /\ pc' = "waiting" /\ nonce' = NonceAfter(nonce)
    /\ UNCHANGED <<position, read, known, pending, moves, faults, restarts>>

Unawaited == [k \in DOMAIN requests |-> [requests[k] EXCEPT !.awaited = FALSE]]

\* The answer is lost or too late for the keeper; the gateway goes on.
GiveUp ==
    /\ pc = "waiting" /\ Fault
    /\ pc' = "sleeping" /\ read' = Nothing
    /\ requests' = Unawaited
    /\ UNCHANGED <<position, nonce, known, pending, moves, restarts>>

\* The process starts anew and counts from 0.
Restart ==
    /\ restarts < MaxRestarts /\ nonce < MaxNonce
    /\ restarts' = restarts + 1
    /\ pc' = "sleeping" /\ read' = Nothing /\ nonce' = 0
    /\ requests' = Unawaited
    /\ UNCHANGED <<position, known, pending, moves, faults>>
-----------------------------------------------------------------------------
(* The gateway *)

\* The gateway answers a request; every answer ends the tick that waits for it.
Answer(k) ==
    /\ requests' = RemoveAt(requests, k)
    /\ IF requests[k].awaited THEN pc' = "sleeping" /\ read' = Nothing ELSE UNCHANGED <<pc, read>>

\* ALLOW: the policy allows, and the simulation of the guarded call passes.
Allow(k) ==
    /\ ~requests[k].allowed /\ Passes(requests[k].amount)
    /\ requests' = [requests EXCEPT ![k].allowed = TRUE]
    /\ UNCHANGED <<position, pc, nonce, read, known, pending, moves, faults, restarts>>

\* DENY by the simulation; HOLD or DENY by the policy; or an outage.
Refuse(k) ==
    /\ ~requests[k].allowed
    /\ (~Passes(requests[k].amount) /\ UNCHANGED faults) \/ Fault
    /\ Answer(k)
    /\ UNCHANGED <<position, nonce, known, pending, moves, restarts>>

Fresh(id) == id \notin {i \in DOMAIN known : known[i] # Nothing}

\* executeContractCall under the intent's id: KeeperHub takes it,
Take(k) ==
    /\ requests[k].allowed /\ Fresh(requests[k].id)
    /\ Len(pending) < MaxPending
    /\ pending' = Append(pending, requests[k].amount)
    /\ known' = [id \in DOMAIN known |->
                    IF id = requests[k].id THEN requests[k].amount ELSE known[id]]
    /\ Answer(k)
    /\ UNCHANGED <<position, nonce, moves, faults, restarts>>

\* or replays an earlier request or answers a conflict, and nothing is sent.
Known(k) ==
    /\ requests[k].allowed /\ ~Fresh(requests[k].id)
    /\ Answer(k)
    /\ UNCHANGED <<position, nonce, known, pending, moves, faults, restarts>>
-----------------------------------------------------------------------------
(* The chain *)

\* A transaction ends; the guard lets the repay through or reverts.
Mine(k) ==
    /\ pending' = RemoveAt(pending, k)
    /\ position' = IF Passes(pending[k]) THEN PoolEffect(RepayCall(pending[k]), position) ELSE position
    /\ UNCHANGED <<pc, nonce, read, requests, known, moves, faults, restarts>>

\* It is never mined.
Drop(k) ==
    /\ Fault
    /\ pending' = RemoveAt(pending, k)
    /\ UNCHANGED <<position, pc, nonce, read, requests, known, moves, restarts>>

\* A guarded call of somebody else, under other invariants.
Move(c) ==
    /\ moves < MaxMoves /\ PoolAccepts(c, position)
    /\ position' = PoolEffect(c, position) /\ moves' = moves + 1
    /\ UNCHANGED <<pc, nonce, read, requests, known, pending, faults, restarts>>

Handle == \E k \in DOMAIN requests : Allow(k) \/ Refuse(k) \/ Take(k) \/ Known(k)

Next ==
    \/ ReadPosition \/ ReadFails \/ Noop \/ Submit \/ GiveUp \/ Restart
    \/ Handle
    \/ \E k \in DOMAIN pending : Mine(k) \/ Drop(k)
    \/ \E c \in Moves : Move(c)

Spec == Init /\ [][Next]_vars

\* The timer fires, the read and the gateway answer, and KeeperHub ends what it
\* took.
FairSpec ==
    /\ Spec
    /\ WF_vars(ReadPosition \/ ReadFails)
    /\ WF_vars(Noop \/ Submit)
    /\ WF_vars(Handle)
    /\ WF_vars(\E k \in DOMAIN pending : Mine(k))
-----------------------------------------------------------------------------
(* Properties *)

Repaid(p, amount) == [p EXCEPT !.debt = @ - amount]

\* apps/keeper/src/core.ts:91-95: a proposal is the least repay that brings the
\* position it was read at to the target, whatever is rounded; and below the
\* floor there always is one.
ProposalsAreExact ==
    /\ pc = "waiting" => \E k \in DOMAIN requests :
        LET amount == requests[k].amount
        IN  /\ requests[k].awaited
            /\ amount \in 1 .. read.debt
            /\ Health(Repaid(read, amount)) >= Target
            /\ \A less \in 0 .. amount - 1 : Health(Repaid(read, less)) < Target
    /\ pc = "deciding" /\ Health(read) < Floor => Decide(read) > 0

\* core.ts:7, 12: however late a repay is mined, and whatever others did to the
\* position since it was decided, it leaves the position at the floor or above,
\* or as it was.
LateRepaysKeepTheFloor ==
    [][pending' # pending /\ position' # position =>
        ~HealthReverts(position') /\ Health(position') >= Floor]_vars

Below == ~HealthReverts(position) /\ Health(position) < Floor

\* A position below the floor does not stay there: not because a process that
\* started again counts from 0 and meets its own earlier identifiers, nor
\* because a proposal was refused, lost or overtaken.  Refusals, failures and
\* outages are at most MaxFaults: a policy that never lets a repay pass leaves
\* the position where it is.
Restored == Below ~> ~Below
=============================================================================
