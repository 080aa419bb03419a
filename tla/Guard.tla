------------------------------- MODULE Guard --------------------------------
(***************************************************************************)
(* NoYeetGuard.sol, call by call.  One transaction runs at a time, but a   *)
(* guarded call may hand control to a contract, which may call the guard   *)
(* again, send it ether, catch or throw a revert, or burn all the gas.     *)
(* Everything a transaction changes is undone when the call that changed   *)
(* it reverts.                                                             *)
(***************************************************************************)
EXTENDS PostState

CONSTANTS
    Accounts,    \* addresses that send transactions or hold code
    Contracts,   \* those that hold code: a guarded call may reach them
    Admin,       \* NoYeetGuard.admin
    PoolOwner,   \* PositionPool.owner
    Programs,    \* the arguments <calls, inv> executeGuarded is tried with
    Seeds,       \* positions the pool's owner writes
    Wei,         \* the values of msg.value
    MaxEth       \* bound: all the ether there is

ASSUME GuardConstants ==
    /\ Contracts \subseteq Accounts
    /\ Contracts \cap PoolFunctions = {}
    /\ Admin \in Accounts
    /\ PoolOwner \in Accounts \ Contracts
    /\ Seeds \subseteq Position
    /\ Wei \subseteq Nat
    /\ MaxEth \in Nat

Call == [fn : PoolFunctions \cup Contracts \cup {"failing"},
         amount : Uint, value : Nat]
Program == [calls : Seq(Call), inv : Seq(Invariant)]

ASSUME ProgramsAreArguments == Programs \subseteq Program

VARIABLES
    isExecutor,   \* mapping(address => bool) isExecutor
    lock,         \* _lock
    position,     \* the guard's entry of PositionPool.positions
    eth,          \* the guard's balance
    event,        \* the last Guarded event, as a set of at most one record
    frames        \* the open executeGuarded calls, innermost last

vars == <<isExecutor, lock, position, eth, event, frames>>

NoCallee == "none"
ASSUME NoCalleeIsNoAccount == NoCallee \notin Accounts

Checkpoint == [isExecutor : [Accounts -> BOOLEAN], lock : {1, 2},
               position : Position, eth : 0 .. MaxEth]
Event == [sender : Accounts, prog : Programs, before : Position, after : Position]
Frame == [sender : Accounts, prog : Programs, snap : Seq(Int), pc : Nat \ {0},
          callee : Contracts \cup {NoCallee}, saved : Checkpoint,
          event : SUBSET Event]

TypeOK ==
    /\ isExecutor \in [Accounts -> BOOLEAN]
    /\ lock \in {1, 2}
    /\ position \in Position
    /\ eth \in 0 .. MaxEth
    /\ event \in SUBSET Event
    /\ frames \in Seq(Frame)
-----------------------------------------------------------------------------
Init ==
    /\ isExecutor \in [Accounts -> BOOLEAN]
    /\ lock = 1
    /\ position \in Seeds
    /\ eth = 0
    /\ event = {}
    /\ frames = <<>>

Top == frames[Len(frames)]

\* Whose code is running: any account starts a transaction, and the contract
\* a guarded call reached goes on inside one.
Runs(a) == IF frames = <<>> THEN TRUE ELSE Top.callee = a

SetTop(f) == frames' = [frames EXCEPT ![Len(frames)] = f]
Pop == frames' = SubSeq(frames, 1, Len(frames) - 1)

Restore(f) ==
    /\ isExecutor' = f.saved.isExecutor
    /\ lock' = f.saved.lock
    /\ position' = f.saved.position
    /\ eth' = f.saved.eth
    /\ event' = f.event

\* The innermost executeGuarded reverts.  Its caller, if it is a contract,
\* sees the revert and goes on or throws in a later step.
Revert == frames # <<>> /\ Restore(Top) /\ Pop

\* _snapshot
SnapshotReverts(inv, p) ==
    \E k \in DOMAIN inv : inv[k].op \in Relative /\ ProbeReverts(inv[k], p)

\* Slip: only one of the relative operators is snapshotted.
SnapshotIncreasesOnly(inv, p) ==
    [k \in DOMAIN inv |-> IF inv[k].op = "REL_INC_MAX" THEN Probe(inv[k], p) ELSE 0]

Snapshot(inv, p) ==
    [k \in DOMAIN inv |-> IF inv[k].op \in Relative THEN Probe(inv[k], p) ELSE 0]

\* Slip: no nonReentrant.
AdmitsReentry(s) == isExecutor[s]

\* Slip: no onlyExecutor.
AdmitsAnyone(s) == lock = 1

\* onlyExecutor and nonReentrant let the call in.
Admits(s) == isExecutor[s] /\ lock = 1

\* executeGuarded up to the end of _snapshot.  A refused call reverts and
\* leaves everything as it was.
ExecuteGuarded(s, wei, prog) ==
    /\ Runs(s)
    /\ eth + wei <= MaxEth
    /\ Admits(s)
    /\ ~SnapshotReverts(prog.inv, position)
    /\ frames' = Append(frames,
         [sender |-> s, prog |-> prog, snap |-> Snapshot(prog.inv, position),
          pc |-> 1, callee |-> NoCallee, event |-> event,
          saved |-> [isExecutor |-> isExecutor, lock |-> lock,
                     position |-> position, eth |-> eth]])
    /\ lock' = 2
    /\ eth' = eth + wei
    /\ UNCHANGED <<isExecutor, position, event>>

\* One iteration of _execute
Executing ==
    /\ frames # <<>>
    /\ Top.callee = NoCallee
    /\ Top.pc <= Len(Top.prog.calls)
CurrentCall == Top.prog.calls[Top.pc]

CallSucceeds(c) ==
    /\ c.value <= eth
    /\ c.fn \in PoolFunctions => PoolAccepts(c, position)
    /\ c.fn # "failing"

CallPool ==
    /\ Executing
    /\ CurrentCall.fn \in PoolFunctions
    /\ CallSucceeds(CurrentCall)
    /\ position' = PoolEffect(CurrentCall, position)
    /\ eth' = eth - CurrentCall.value
    /\ SetTop([Top EXCEPT !.pc = @ + 1])
    /\ UNCHANGED <<isExecutor, lock, event>>

CallContract ==
    /\ Executing
    /\ CurrentCall.fn \in Contracts
    /\ CallSucceeds(CurrentCall)
    /\ eth' = eth - CurrentCall.value
    /\ SetTop([Top EXCEPT !.callee = CurrentCall.fn])
    /\ UNCHANGED <<isExecutor, lock, position, event>>

\* _bubble
CallFails ==
    /\ Executing
    /\ ~CallSucceeds(CurrentCall)
    /\ Revert

ContractReturns ==
    /\ frames # <<>>
    /\ Top.callee # NoCallee
    /\ SetTop([Top EXCEPT !.callee = NoCallee, !.pc = @ + 1])
    /\ UNCHANGED <<isExecutor, lock, position, eth, event>>

ContractReverts ==
    /\ frames # <<>>
    /\ Top.callee # NoCallee
    /\ Revert

\* _assert and the end of executeGuarded
Asserting ==
    /\ frames # <<>>
    /\ Top.callee = NoCallee
    /\ Top.pc > Len(Top.prog.calls)

AssertHolds(f) ==
    \A k \in DOMAIN f.prog.inv :
        LET iv == f.prog.inv[k] IN
        /\ ~ProbeReverts(iv, position)
        /\ ~Broken(iv, f.snap[k], Probe(iv, position))

Finish ==
    /\ Asserting
    /\ AssertHolds(Top)
    /\ lock' = 1
    /\ event' = {[sender |-> Top.sender, prog |-> Top.prog,
                  before |-> Top.saved.position, after |-> position]}
    /\ Pop
    /\ UNCHANGED <<isExecutor, position, eth>>

Deny ==
    /\ Asserting
    /\ ~AssertHolds(Top)
    /\ Revert

\* The transaction runs out of gas anywhere: all of it is undone.
OutOfGas ==
    /\ frames # <<>>
    /\ Restore(frames[1])
    /\ frames' = <<>>

\* setExecutor, which does not take the lock
SetExecutor(s, e, allowed) ==
    /\ Runs(s)
    /\ s = Admin
    /\ isExecutor' = [isExecutor EXCEPT ![e] = allowed]
    /\ UNCHANGED <<lock, position, eth, event, frames>>

\* receive()
Receive(wei) ==
    /\ \E s \in Accounts : Runs(s)
    /\ eth + wei <= MaxEth
    /\ eth' = eth + wei
    /\ UNCHANGED <<isExecutor, lock, position, event, frames>>

\* PositionPool.initialize, for the guard's own entry
Initialize(s, p) ==
    /\ Runs(s)
    /\ s = PoolOwner
    /\ position' = p
    /\ UNCHANGED <<isExecutor, lock, eth, event, frames>>

Next ==
    \/ \E s \in Accounts, wei \in Wei, prog \in Programs : ExecuteGuarded(s, wei, prog)
    \/ CallPool \/ CallContract \/ CallFails
    \/ ContractReturns \/ ContractReverts
    \/ Finish \/ Deny \/ OutOfGas
    \/ \E s \in Accounts, e \in Accounts, allowed \in BOOLEAN : SetExecutor(s, e, allowed)
    \/ \E wei \in Wei : Receive(wei)
    \/ \E s \in Accounts, p \in Seeds : Initialize(s, p)

Spec == Init /\ [][Next]_vars
-----------------------------------------------------------------------------
(* Properties *)

\* The nonReentrant lock: it is taken exactly while an executeGuarded is open,
\* so a contract reached by a guarded call never opens a second one, whatever
\* it does with the reverts it gets.
OneGuardedCall ==
    /\ Len(frames) <= 1
    /\ lock = 2 <=> frames # <<>>

\* A guarded call that went through moved the position, from what it was when
\* the transaction began to what it is when it ends, within every invariant it
\* was sent with: the snapshots of REL bounds are the transaction's own start.
CommittedMovesRespectBounds ==
    \A ev \in event : Respects(ev.prog.inv, ev.before, ev.after)

\* The chain outside a transaction sees the state of its last checkpoint.
Settled == IF frames = <<>> THEN position ELSE frames[1].saved.position
SettledExecutors == IF frames = <<>> THEN isExecutor ELSE frames[1].saved.isExecutor
SettledEvent == IF frames = <<>> THEN event ELSE frames[1].event

Atomic == INSTANCE AtomicGuard WITH
    position <- Settled, isExecutor <- SettledExecutors, event <- SettledEvent

\* Guard implements AtomicGuard: seen between transactions, every guarded call
\* is one indivisible step that applies exactly its own calls and respects its
\* invariants, or nothing at all.
ImplementsAtomicGuard == Atomic!Spec
=============================================================================
