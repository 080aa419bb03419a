----------------------------- MODULE Anchoring ------------------------------
(***************************************************************************)
(* scripts/anchoring.ts run against the receipt store and AnchorStore: the *)
(* gateway keeps putting receipts while the script reads the unanchored    *)
(* ones, sends one root per hour through KeeperHub and marks each member   *)
(* with its proof.                                                         *)
(***************************************************************************)
EXTENDS AnchorStore, Merkle

CONSTANTS
    Receipts,      \* the decisions, numbered in their order
    Digest,        \* Digest[r], the leaf
    DigestRank,    \* DigestRank[r], its place in the order of the digests
    Intent,        \* Intent[r]: store.put upserts under it
    PolicyHash,    \* PolicyHash[r]
    Hour,          \* Hour[r]: batchIdFor(r.at)
    Wallet,        \* the account KeeperHub signs with
    MaxFaults      \* bound on calls and puts that throw, and on crashes

NoReceipt == 0     \* store.get returns null
Intents == {Intent[r] : r \in Receipts}
-----------------------------------------------------------------------------
(* buildAnchorBatch: a tree over the digests of a batch, in their order.   *)

LeafIndex(batch, r) == Cardinality({q \in batch : DigestRank[q] < DigestRank[r]})

Leaves(batch) == [k \in 1 .. Cardinality(batch) |->
    Digest[CHOOSE r \in batch : LeafIndex(batch, r) = k - 1]]
\* groupByBatch: what may be batched together is of one hour.
Batches == {batch \in SUBSET Receipts : \E b \in BatchIds : batch # {} /\ \A r \in batch : Hour[r] = b}
BatchRoot == [batch \in Batches |-> BuildTree(Leaves(batch))]

Proof == [batch \in Batches |-> [r \in batch |-> GetProof(Leaves(batch), LeafIndex(batch, r))]]
-----------------------------------------------------------------------------
ASSUME AnchoringConstants ==
    /\ Roots = {BatchRoot[batch] : batch \in Batches} \cup {NoRoot}
    /\ DigestRank \in [Receipts -> Nat]
    /\ \A r, q \in Receipts : r # q => Digest[r] # Digest[q] /\ DigestRank[r] # DigestRank[q]
    /\ IsFiniteSet(Receipts)
    /\ Hour \in [Receipts -> BatchIds]
    /\ PolicyHash \in [Receipts -> PolicyHashes \ {NoPolicy}]
    /\ DOMAIN Intent = Receipts
    /\ Receipts \subseteq Nat \ {NoReceipt}
    /\ Wallet \in Accounts \ {ZeroAddress}
    /\ BatchIds \subseteq Int
    /\ MaxFaults \in Nat

VARIABLES
    store,     \* the receipt of each intent, and its anchor field's root and proof
    latest,    \* the decision last put by the gateway, for each intent
    pending,   \* the script: unanchored receipts it still has to send
    members,   \* the batch in progress: receipts it still has to mark
    sent,      \* the batch in progress: its leaves
    pc,        \* "idle", "sending" or "marking"
    answer,    \* what KeeperHub answered to the call in progress
    requests,  \* KeeperHub's requests, one per idempotency key
    faults

scriptVars == <<pending, members, sent, pc, answer>>
vars == <<storeVars, store, latest, scriptVars, requests, faults>>

\* Slip: the key names the root, not the batch.
KeyByRoot(b, root) == <<b, root>>

\* noyeet-anchor-<batchId>
KeyOf(b, root) == <<b>>

IsRequest(q) ==
    /\ q.batch \in BatchIds /\ q.key = KeyOf(q.batch, q.root)
    /\ q.policyHash \in PolicyHashes \ {NoPolicy}

Stored(r, root, proof) == [receipt |-> r, root |-> root, proof |-> proof]

Init ==
    /\ StoreInit
    /\ store = [i \in Intents |-> Stored(NoReceipt, NoRoot, <<>>)]
    /\ latest = [i \in Intents |-> NoReceipt]
    /\ pending = {} /\ members = {} /\ sent = {}
    /\ pc = "idle"
    /\ answer = "none"
    /\ requests = {}
    /\ faults = 0
-----------------------------------------------------------------------------
Put(row) == store' = [store EXCEPT ![Intent[row.receipt]] = row]

\* The gateway persists a decision: whatever is stored under that intent goes.
Decide(r) ==
    /\ latest[Intent[r]] < r
    /\ Put(Stored(r, NoRoot, <<>>))
    /\ latest' = [latest EXCEPT ![Intent[r]] = r]
    /\ UNCHANGED <<storeVars, scriptVars, requests, faults>>

Unanchored == {store[i].receipt : i \in {j \in Intents : store[j].root = NoRoot}} \ {NoReceipt}

\* Slip: the policies of a batch are not compared.
ProceedMixed(left) ==
    LET first == {r \in left : \A q \in left : Hour[r] <= Hour[q]}
        goes == left # {}
    IN  /\ pending' = IF goes THEN left ELSE {}
        /\ sent' = IF goes THEN first ELSE {}
        /\ pc' = IF goes THEN "sending" ELSE "idle"

\* Batches go in ascending order, those of one policy hash only: another
\* ends the script, as does having no batch left.
Proceed(left) ==
    LET first == {r \in left : \A q \in left : Hour[r] <= Hour[q]}
        goes == Cardinality({PolicyHash[r] : r \in first}) = 1
    IN  /\ pending' = IF goes THEN left ELSE {}
        /\ sent' = IF goes THEN first ELSE {}
        /\ pc' = IF goes THEN "sending" ELSE "idle"

\* bun run anchor: read the store once, and start with the first hour.
Start ==
    /\ pc = "idle"
    /\ Unanchored # {}
    /\ Proceed(Unanchored)
    /\ UNCHANGED <<storeVars, store, latest, members, answer, requests, faults>>

HourOf(leaves) == CHOOSE b \in BatchIds : \A r \in leaves : Hour[r] = b
PolicyOf(leaves) == CHOOSE p \in PolicyHashes : \E r \in leaves : PolicyHash[r] = p

\* KeeperHub takes the call up (external): a new key is a new request, the
\* same request is replayed, and another one under the key conflicts.
TakeUp ==
    /\ pc = "sending" /\ answer = "none"
    /\ LET b == HourOf(sent)
           root == BatchRoot[sent]
           known == {q \in requests : q.key = KeyOf(b, root)}
           new == [key |-> KeyOf(b, root), batch |-> b, root |-> root,
                   policyHash |-> PolicyOf(sent)]
       IN  /\ requests' = IF known = {} THEN requests \cup {new} ELSE requests
           /\ answer' = IF \A q \in known : q.root = root THEN "accepted" ELSE "conflict"
    /\ UNCHANGED <<storeVars, store, latest, pending, members, sent, pc, faults>>

\* executeContractCall returns: acceptance is enough to mark the members.
Returns ==
    /\ answer = "accepted"
    /\ answer' = "none"
    /\ pc' = "marking"
    /\ members' = sent
    /\ UNCHANGED <<storeVars, store, latest, pending, sent, requests, faults>>

Exit ==
    /\ pc' = "idle"
    /\ pending' = {} /\ members' = {} /\ sent' = {}
    /\ answer' = "none"

\* idempotency_conflict: the call throws, and with it main.
Conflicts ==
    /\ answer = "conflict"
    /\ Exit
    /\ UNCHANGED <<storeVars, store, latest, requests, faults>>

\* The script is killed, or a call or a put throws.
Fails ==
    /\ pc # "idle"
    /\ faults < MaxFaults
    /\ faults' = faults + 1
    /\ Exit
    /\ UNCHANGED <<storeVars, store, latest, requests>>

\* One member is put back as it was read, with its anchor.
Mark(r) ==
    /\ pc = "marking"
    /\ r \in members
    /\ Put(Stored(r, BatchRoot[sent], Proof[sent][r]))
    /\ members' = members \ {r}
    /\ UNCHANGED <<storeVars, latest, pending, sent, pc, answer, requests, faults>>

\* The loop goes on to the next batch.
NextBatch ==
    /\ pc = "marking"
    /\ members = {}
    /\ Proceed(pending \ sent)
    /\ UNCHANGED <<storeVars, store, latest, members, answer, requests, faults>>

\* KeeperHub sends the transaction (external) and it is mined, late or even
\* twice; or it fails (reverted, unfunded, dropped), and nothing happens.
Execute(q) ==
    /\ AnchorRoot(Wallet, q.batch, q.root, q.policyHash)
    /\ UNCHANGED <<store, latest, scriptVars, requests, faults>>

\* The right to anchor is handed on, to the signing wallet or away from it.
HandOver ==
    /\ \E sender \in Senders, next \in Accounts : SetAdmin(sender, next)
    /\ UNCHANGED <<store, latest, scriptVars, requests, faults>>

NewBlock == Mine /\ UNCHANGED <<store, latest, scriptVars, requests, faults>>

Script == Start \/ Returns \/ Conflicts \/ (\E r \in Receipts : Mark(r)) \/ NextBatch

Next ==
    \/ \E r \in Receipts : Decide(r)
    \/ Script \/ Fails
    \/ TakeUp
    \/ \E q \in requests : Execute(q)
    \/ HandOver \/ NewBlock

Spec == Init /\ [][Next]_vars
-----------------------------------------------------------------------------
\* AnchorStore.verify; its index is not used.
Verify(b, leaf, proof) ==
    anchors[b].root # NoRoot /\ ProcessProof(leaf, proof) = anchors[b].root
-----------------------------------------------------------------------------
(* Properties *)

\* A receipt marked anchored verifies, with the proof stored beside it,
\* against the root its batch has or will have: reruns, crashes halfway and
\* late receipts never leave a mark whose proof fails on chain.
MarksVerify ==
    \A i \in Intents :
        LET row == store[i]
            b == Hour[row.receipt]
            leaf == Digest[row.receipt]
        IN  row.root # NoRoot =>
                /\ Committed(b) => Verify(b, leaf, row.proof)
                /\ \A q \in requests : q.batch = b => ProcessProof(leaf, row.proof) = q.root

Nodes == UNION {ToSet(Level(Leaves(batch), k)) : batch \in Batches, k \in 0 .. 1}
Proofs == {<<>>} \cup {<<x>> : x \in Nodes} \cup {<<x, y>> : x, y \in Nodes}

\* The receipts for which some proof leads to root.
Provable == [root \in Roots |->
    {r \in Receipts : \E proof \in Proofs : ProcessProof(Digest[r], proof) = root}]

\* Whatever proof is presented, a receipt verifies against a batch only if it
\* is of that hour, and was decided under the policy the batch names.
OnlyOwnReceiptsVerify ==
    \A b \in BatchIds : Committed(b) =>
        \A r \in Provable[anchors[b].root] :
            Hour[r] = b /\ PolicyHash[r] = anchors[b].policyHash
=============================================================================
