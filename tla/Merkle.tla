------------------------------- MODULE Merkle -------------------------------
(***************************************************************************)
(* packages/receipts/src/merkle.ts: the tree, its proofs and their check.  *)
(* keccak is taken to be injective, so the hash of a pair is the pair; it  *)
(* is sorted before hashing, so it is an unordered one.                    *)
(***************************************************************************)
EXTENDS Integers, SequencesExt

HashPair(a, b) == {a, b}

\* Slip: an odd node is paired with itself.
ParentsDoubled(nodes) ==
    [i \in 1 .. (Len(nodes) + 1) \div 2 |->
        IF 2 * i <= Len(nodes) THEN HashPair(nodes[2 * i - 1], nodes[2 * i])
        ELSE HashPair(nodes[2 * i - 1], nodes[2 * i - 1])]

\* The level above: an odd node is promoted as it is.
Parents(nodes) ==
    [i \in 1 .. (Len(nodes) + 1) \div 2 |->
        IF 2 * i <= Len(nodes) THEN HashPair(nodes[2 * i - 1], nodes[2 * i])
        ELSE nodes[2 * i - 1]]

\* Level k of the tree, the leaves being level 0: k times the level above.
Level(leaves, k) ==
    FoldLeft(LAMBDA nodes, j : Parents(nodes), leaves, [j \in 1 .. k |-> j])

\* Levels are added while the last has more than one node.
Height(leaves) == CHOOSE h \in 0 .. Len(leaves) :
    /\ Len(Level(leaves, h)) = 1
    /\ \A k \in 0 .. h - 1 : Len(Level(leaves, k)) > 1

BuildTree(leaves) == Level(leaves, Height(leaves))[1]

\* Indices are from 0, as in the code.
Sibling(position) == IF position % 2 = 1 THEN position - 1 ELSE position + 1

\* One level of getProof: a promoted node has no sibling and adds nothing.
Climb(path, nodes) ==
    LET sibling == Sibling(path.position)
    IN  [position |-> path.position \div 2,
         proof |-> IF sibling < Len(nodes) THEN Append(path.proof, nodes[sibling + 1])
                   ELSE path.proof]

\* The levels below the root, bottom-up.
Below(leaves, k) == [j \in 1 .. k |-> Level(leaves, j - 1)]
Path(leaves, index, k) ==
    FoldLeft(Climb, [position |-> index, proof |-> <<>>], Below(leaves, k))

\* Sibling hashes, bottom-up.
GetProof(leaves, index) == Path(leaves, index, Height(leaves)).proof

ProcessProof(leaf, proof) == FoldLeft(HashPair, leaf, proof)
=============================================================================
