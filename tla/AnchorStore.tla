---------------------------- MODULE AnchorStore -----------------------------
(***************************************************************************)
(* packages/guard/src/AnchorStore.sol: roots by batch, written once by the *)
(* admin, who may hand the right over.  A call that reverts leaves the     *)
(* state alone, so only the calls that do not are steps.  verify, a view,  *)
(* is what Anchoring's properties check.                                   *)
(***************************************************************************)
EXTENDS Integers

CONSTANTS
    Accounts,      \* callers, and what setAdmin may be given
    ZeroAddress,
    BatchIds,
    Roots,         \* what may be committed, NoRoot (bytes32(0)) included
    NoRoot,
    PolicyHashes,
    NoPolicy,      \* policyHash of a batch not written yet
    MaxBlock       \* bound on block.number

ASSUME StoreConstants ==
    /\ ZeroAddress \in Accounts
    /\ NoRoot \in Roots
    /\ NoPolicy \in PolicyHashes
    /\ MaxBlock \in Nat

VARIABLES
    admin,
    anchors,
    block          \* block.number

storeVars == <<admin, anchors, block>>

Anchor == [root : Roots, policyHash : PolicyHashes, blockNumber : Nat]
Empty == [root |-> NoRoot, policyHash |-> NoPolicy, blockNumber |-> 0]

StoreTypeOK ==
    /\ admin \in Accounts
    /\ anchors \in [BatchIds -> Anchor]
    /\ block \in Nat

StoreInit ==
    /\ admin \in Accounts
    /\ anchors = [b \in BatchIds |-> Empty]
    /\ block = 1

SetAdmin(sender, next) ==
    /\ sender = admin
    /\ next # ZeroAddress
    /\ admin' = next
    /\ UNCHANGED <<anchors, block>>

\* Nobody calls from the zero address.
Senders == Accounts \ {ZeroAddress}

Committed(b) == anchors[b].root # NoRoot

\* anchor does not revert: the admin calls, and on a batch that has a root
\* root and policy hash are the ones it has.
Accepts(sender, b, root, policyHash) ==
    /\ sender = admin
    /\ Committed(b) => anchors[b].root = root /\ anchors[b].policyHash = policyHash

\* Slip: an accepted batch is written again.
RecordAgain(b, root, policyHash) ==
    anchors' = [anchors EXCEPT ![b] =
                  [root |-> root, policyHash |-> policyHash, blockNumber |-> block]]

\* A batch that has a root keeps its record.
Record(b, root, policyHash) ==
    anchors' = IF Committed(b) THEN anchors
               ELSE [anchors EXCEPT ![b] =
                      [root |-> root, policyHash |-> policyHash, blockNumber |-> block]]

AnchorRoot(sender, b, root, policyHash) ==
    /\ Accepts(sender, b, root, policyHash)
    /\ Record(b, root, policyHash)
    /\ UNCHANGED <<admin, block>>

Mine ==
    /\ block < MaxBlock
    /\ block' = block + 1
    /\ UNCHANGED <<admin, anchors>>

StoreNext ==
    \/ \E sender \in Senders, next \in Accounts : SetAdmin(sender, next)
    \/ \E sender \in Senders, b \in BatchIds, root \in Roots, policyHash \in PolicyHashes :
         AnchorRoot(sender, b, root, policyHash)
    \/ Mine

StoreSpec == StoreInit /\ [][StoreNext]_storeVars
-----------------------------------------------------------------------------
(* Properties *)

\* "There is no update path": root, policy hash and block of a batch are
\* those of its first root, whoever is admin and whatever is anchored later.
Permanent ==
    [][\A b \in BatchIds : Committed(b) => anchors'[b] = anchors[b]]_storeVars
=============================================================================
