---------------------------- MODULE AtomicGuard -----------------------------
(***************************************************************************)
(* What NoYeetGuard promises its users: the position moves in one          *)
(* indivisible step, by exactly the calls of one executeGuarded, sent by   *)
(* an executor, and only to a position that respects the invariants sent   *)
(* with them.  Otherwise only the pool's owner moves it.                   *)
(***************************************************************************)
EXTENDS PostState, SequencesExt

CONSTANTS Accounts, Contracts, Admin, Programs, Seeds

VARIABLES position, isExecutor, event

vars == <<position, isExecutor, event>>

\* The position after a call, and after a list of them; a call of another
\* contract leaves it alone, for the pool files positions under msg.sender.
Moved(p, c) == IF c.fn \in PoolFunctions THEN PoolEffect(c, p) ELSE p
After(calls, p) == FoldLeft(Moved, p, calls)

Init ==
    /\ position \in Seeds
    /\ isExecutor \in [Accounts -> BOOLEAN]
    /\ event = {}

\* A whole transaction.  An admin that is a contract may rotate executors in
\* the middle of one that calls it.
Execute(s, prog) ==
    /\ isExecutor[s]
    /\ Respects(prog.inv, position, After(prog.calls, position))
    /\ position' = After(prog.calls, position)
    /\ event' = {[sender |-> s, prog |-> prog,
                  before |-> position, after |-> position']}
    /\ \/ isExecutor' = isExecutor
       \/ /\ \E k \in DOMAIN prog.calls : prog.calls[k].fn = Admin
          /\ isExecutor' \in [Accounts -> BOOLEAN]

SetExecutor ==
    /\ \E e \in Accounts, allowed \in BOOLEAN :
          isExecutor' = [isExecutor EXCEPT ![e] = allowed]
    /\ UNCHANGED <<position, event>>

Initialize ==
    /\ position' \in Seeds
    /\ UNCHANGED <<isExecutor, event>>

Next ==
    \/ \E s \in Accounts, prog \in Programs : Execute(s, prog)
    \/ SetExecutor
    \/ Initialize

Spec == Init /\ [][Next]_vars
=============================================================================
