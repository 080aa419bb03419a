-------------------------- MODULE Anchoring_proofs --------------------------
(***************************************************************************)
(* Theorems about AnchorStore, the Merkle tree and Anchoring, for every    *)
(* set of accounts, batches, receipts and policy hashes, and about the     *)
(* anchor consumer, for every log, batch size and number of attempts.      *)
(***************************************************************************)
EXTENDS Anchoring, AnchorConsumer, FiniteSetTheorems, SequenceTheorems, TLAPS

\* The level above, as a step of a fold.
Rise(nodes, j) == Parents(nodes)

Levels == INSTANCE Folding WITH Op <- Rise
Climbs == INSTANCE Folding WITH Op <- Climb
Hashes == INSTANCE Folding WITH Op <- HashPair
-----------------------------------------------------------------------------
LEMMA LevelIsFold ==
    ASSUME NEW leaves, NEW k \in Nat
    PROVE  Level(leaves, k) = Levels!FoldLeft(Rise, leaves, [j \in 1 .. k |-> j])
  BY DEF Level, Rise, FoldLeft, Levels!FoldLeft, MapThenFoldSet, Levels!MapThenFoldSet,
         Max, Levels!Max

LEMMA ClimbIsFold ==
    ASSUME NEW path, NEW seq
    PROVE  FoldLeft(Climb, path, seq) = Climbs!FoldLeft(Climb, path, seq)
  BY DEF FoldLeft, Climbs!FoldLeft, MapThenFoldSet, Climbs!MapThenFoldSet, Max, Climbs!Max

LEMMA HashIsFold ==
    ASSUME NEW leaf, NEW proof
    PROVE  ProcessProof(leaf, proof) = Hashes!FoldLeft(HashPair, leaf, proof)
  BY DEF ProcessProof, FoldLeft, Hashes!FoldLeft, MapThenFoldSet, Hashes!MapThenFoldSet,
         Max, Hashes!Max

LEMMA LevelZero ==
    ASSUME NEW leaves
    PROVE  Level(leaves, 0) = leaves
<1>1. [j \in 1 .. 0 |-> j] = <<>>
  OBVIOUS
<1> QED
  BY <1>1, LevelIsFold, Levels!FoldLeftEmpty

LEMMA LevelAbove ==
    ASSUME NEW leaves, NEW k \in Nat
    PROVE  Level(leaves, k + 1) = Parents(Level(leaves, k))
<1> DEFINE up(n) == [j \in 1 .. n |-> j]
<1>1. up(k + 1) \in Seq(Nat) /\ Len(up(k + 1)) = k + 1 /\ up(k + 1)[k + 1] = k + 1
  OBVIOUS
<1>2. SubSeq(up(k + 1), 1, k + 1) = up(k + 1)
  BY <1>1, SubSeqFull
<1>3. SubSeq(up(k + 1), 1, k) = up(k)
  OBVIOUS
<1>4. k + 1 \in 1 .. k + 1 /\ (k + 1) - 1 = k /\ k + 1 \in Nat
  OBVIOUS
<1>5. Level(leaves, k + 1) = Levels!FoldLeft(Rise, leaves, up(k + 1)) /\
      Level(leaves, k) = Levels!FoldLeft(Rise, leaves, up(k))
  BY <1>4, LevelIsFold
<1> HIDE DEF up
<1>6. Levels!FoldLeft(Rise, leaves, SubSeq(up(k + 1), 1, k + 1)) =
        Rise(Levels!FoldLeft(Rise, leaves, SubSeq(up(k + 1), 1, (k + 1) - 1)), up(k + 1)[k + 1])
  BY <1>1, <1>4, Levels!FoldLeftPrefix
<1> QED
  BY <1>2, <1>3, <1>4, <1>5, <1>6 DEF Rise

\* A proof is read one sibling at a time.
LEMMA ProofGrows ==
    ASSUME NEW leaf, NEW S, NEW proof \in Seq(S), NEW sibling \in S
    PROVE  ProcessProof(leaf, Append(proof, sibling)) = HashPair(ProcessProof(leaf, proof), sibling)
  BY HashIsFold, Hashes!FoldLeftAppend

LEMMA EmptyProof ==
    ASSUME NEW leaf
    PROVE  ProcessProof(leaf, <<>>) = leaf
  BY HashIsFold, Hashes!FoldLeftEmpty
-----------------------------------------------------------------------------
LEMMA ParentsShape ==
    ASSUME NEW T, NEW nodes \in Seq(T), Len(nodes) >= 1
    PROVE  /\ DOMAIN Parents(nodes) = 1 .. (Len(nodes) + 1) \div 2
           /\ Len(Parents(nodes)) = (Len(nodes) + 1) \div 2
           /\ Len(Parents(nodes)) >= 1
           /\ \E V : Parents(nodes) \in Seq(V)
<1> DEFINE n == (Len(nodes) + 1) \div 2
           ups == Parents(nodes)
           V == {ups[i] : i \in 1 .. n}
<1>1. n \in Nat /\ n >= 1
  OBVIOUS
<1>2. ups = [i \in 1 .. n |-> ups[i]]
  BY DEF Parents
<1> HIDE DEF n, ups
<1>3. \A i \in 1 .. n : ups[i] \in V
  OBVIOUS
<1> HIDE DEF V
<1>4. ups \in [1 .. n -> V]
  BY <1>2, <1>3
<1>5. ups \in Seq(V) /\ Len(ups) = n /\ DOMAIN ups = 1 .. n
  BY <1>1, <1>4
<1> QED
  BY <1>1, <1>5 DEF n, ups

\* Every level has a node, ...
LEMMA LevelShape ==
    ASSUME NEW T, NEW leaves \in Seq(T), leaves # <<>>, NEW k \in Nat
    PROVE  /\ \E V : Level(leaves, k) \in Seq(V)
           /\ Len(Level(leaves, k)) \in Nat
           /\ Len(Level(leaves, k)) >= 1
<1> DEFINE Good == {j \in Nat : /\ \E V : Level(leaves, j) \in Seq(V)
                                /\ Len(Level(leaves, j)) >= 1}
<1>1. 0 \in Good
  BY LevelZero
<1>2. ASSUME NEW j \in Nat, j \in Good PROVE j + 1 \in Good
  BY <1>2, LevelAbove, ParentsShape
<1> HIDE DEF Good
<1>3. k \in Good
  BY <1>1, <1>2, Levels!SetInduction
<1>4. PICK V : Level(leaves, k) \in Seq(V)
  BY <1>3 DEF Good
<1> QED
  BY <1>3, <1>4 DEF Good

\* ... and fewer than the level below, until it has one.
LEMMA LevelsShrink ==
    ASSUME NEW T, NEW leaves \in Seq(T), leaves # <<>>, NEW k \in Nat
    PROVE  Len(Level(leaves, k)) = 1 \/ Len(Level(leaves, k)) + k <= Len(leaves)
<1> DEFINE Good == {j \in Nat : \/ Len(Level(leaves, j)) = 1
                                \/ Len(Level(leaves, j)) + j <= Len(leaves)}
<1>1. 0 \in Good
  BY LevelZero
<1>2. ASSUME NEW j \in Nat, j \in Good PROVE j + 1 \in Good
  <2> DEFINE n == Len(Level(leaves, j))
             m == Len(Level(leaves, j + 1))
  <2>1. n \in Nat /\ n >= 1 /\ \E V : Level(leaves, j) \in Seq(V)
    BY LevelShape
  <2>2. m = (n + 1) \div 2
    BY <2>1, LevelAbove, ParentsShape
  <2>3. Len(leaves) \in Nat /\ (n = 1 \/ n + j <= Len(leaves))
    BY <1>2
  <2> HIDE DEF n
  <2>4. (n + 1) \div 2 = 1 \/ (n + 1) \div 2 + (j + 1) <= Len(leaves)
    BY <2>1, <2>3
  <2> HIDE DEF m
  <2>5. m = 1 \/ m + (j + 1) <= Len(leaves)
    BY <2>2, <2>4
  <2> QED
    BY <2>5 DEF m
<1> HIDE DEF Good
<1>3. k \in Good
  BY <1>1, <1>2, Levels!SetInduction
<1> QED
  BY <1>3 DEF Good

\* The tree has a top.
LEMMA HeightIs ==
    ASSUME NEW T, NEW leaves \in Seq(T), leaves # <<>>
    PROVE  /\ Height(leaves) \in Nat
           /\ Len(Level(leaves, Height(leaves))) = 1
           /\ \A k \in 0 .. Height(leaves) - 1 : Len(Level(leaves, k)) > 1
<1> DEFINE n == Len(leaves)
           Tops == {k \in 0 .. n : Len(Level(leaves, k)) = 1}
<1>1. n \in Nat
  OBVIOUS
<1>2. n \in Tops
  <2>1. Len(Level(leaves, n)) \in Nat /\ Len(Level(leaves, n)) >= 1
    BY <1>1, LevelShape
  <2>2. Len(Level(leaves, n)) = 1 \/ Len(Level(leaves, n)) + n <= n
    BY <1>1, LevelsShrink
  <2> QED
    BY <1>1, <2>1, <2>2
<1>3. PICK h \in Tops : \A k \in Tops : h <= k
  <2>1. Tops \subseteq Nat /\ Tops # {}
    BY <1>1, <1>2
  <2> HIDE DEF Tops
  <2> QED
    BY <2>1, Levels!LeastNatural
<1>4. \A k \in 0 .. h - 1 : Len(Level(leaves, k)) > 1
  <2> TAKE k \in 0 .. h - 1
  <2>1. k \in 0 .. n /\ ~ h <= k
    BY <1>1, <1>3
  <2> DEFINE m == Len(Level(leaves, k))
  <2>2. m # 1
    BY <1>3, <2>1
  <2>3. m \in Nat /\ m >= 1
    BY <2>1, LevelShape
  <2> HIDE DEF m
  <2>4. m > 1
    BY <2>2, <2>3
  <2> QED
    BY <2>4 DEF m
<1>5. \E x \in 0 .. Len(leaves) : /\ Len(Level(leaves, x)) = 1
                                  /\ \A k \in 0 .. x - 1 : Len(Level(leaves, k)) > 1
  BY <1>3, <1>4
<1>6. /\ Height(leaves) \in 0 .. Len(leaves)
      /\ Len(Level(leaves, Height(leaves))) = 1
      /\ \A k \in 0 .. Height(leaves) - 1 : Len(Level(leaves, k)) > 1
  BY <1>5 DEF Height
<1> QED
  BY <1>1, <1>6
-----------------------------------------------------------------------------
\* getProof climbs one level at a time.
LEMMA PathZero ==
    ASSUME NEW leaves, NEW index
    PROVE  Path(leaves, index, 0) = [position |-> index, proof |-> <<>>]
<1>1. Below(leaves, 0) = <<>>
  BY DEF Below
<1> QED
  BY <1>1, ClimbIsFold, Climbs!FoldLeftEmpty DEF Path

LEMMA PathAbove ==
    ASSUME NEW leaves, NEW index, NEW k \in Nat
    PROVE  Path(leaves, index, k + 1) = Climb(Path(leaves, index, k), Level(leaves, k))
<1> DEFINE from == [position |-> index, proof |-> <<>>]
           level(j) == Level(leaves, j - 1)
           long == [j \in 1 .. k + 1 |-> level(j)]
           short == [j \in 1 .. k |-> level(j)]
           S == {level(j) : j \in 1 .. k + 1}
<1>1. Below(leaves, k + 1) = long /\ Below(leaves, k) = short
  BY DEF Below
<1>2. level(k + 1) = Level(leaves, k)
  <2>1. (k + 1) - 1 = k
    OBVIOUS
  <2> QED
    BY <2>1
<1> HIDE DEF level
<1>3. long \in Seq(S) /\ Len(long) = k + 1 /\ long[k + 1] = level(k + 1)
  OBVIOUS
<1>4. SubSeq(long, 1, k + 1) = long
  BY <1>3, SubSeqFull
<1>5. SubSeq(long, 1, k) = short
  OBVIOUS
<1>6. k + 1 \in 1 .. k + 1 /\ (k + 1) - 1 = k
  OBVIOUS
<1> HIDE DEF from, long, short, S
<1>7. Climbs!FoldLeft(Climb, from, SubSeq(long, 1, k + 1)) =
        Climb(Climbs!FoldLeft(Climb, from, SubSeq(long, 1, (k + 1) - 1)), long[k + 1])
  BY <1>3, <1>6, Climbs!FoldLeftPrefix
<1>8. Climbs!FoldLeft(Climb, from, long) = Climb(Climbs!FoldLeft(Climb, from, short), level(k + 1))
  BY <1>3, <1>4, <1>5, <1>6, <1>7
<1>9. Path(leaves, index, k + 1) = Climbs!FoldLeft(Climb, from, long) /\
      Path(leaves, index, k) = Climbs!FoldLeft(Climb, from, short)
  BY <1>1, ClimbIsFold DEF Path, from
<1> QED
  BY <1>2, <1>8, <1>9

\* One level up: the node at the path's position is hashed with its sibling
\* into its parent, or is promoted.
LEMMA ClimbFinds ==
    ASSUME NEW T, NEW nodes \in Seq(T), Len(nodes) >= 1, NEW leaf,
           NEW path, path.position \in 0 .. Len(nodes) - 1, path.proof \in Seq(T),
           ProcessProof(leaf, path.proof) = nodes[path.position + 1]
    PROVE  /\ Climb(path, nodes).position \in 0 .. Len(Parents(nodes)) - 1
           /\ Climb(path, nodes).proof \in Seq(T)
           /\ ProcessProof(leaf, Climb(path, nodes).proof) =
                Parents(nodes)[Climb(path, nodes).position + 1]
<1> DEFINE n == Len(nodes)
           p == path.position
           proof == path.proof
           i == p \div 2 + 1
           up == Parents(nodes)
           higher == Climb(path, nodes)
<1>1. n \in Nat /\ n >= 1 /\ p \in 0 .. n - 1 /\ p \in Nat /\ proof \in Seq(T)
  OBVIOUS
<1>2. Len(up) = (n + 1) \div 2
  BY ParentsShape
<1>3. \A j \in 1 .. (n + 1) \div 2 :
        up[j] = IF 2 * j <= n THEN HashPair(nodes[2 * j - 1], nodes[2 * j]) ELSE nodes[2 * j - 1]
  BY DEF Parents
<1>4. higher.position = p \div 2
  BY DEF Climb
<1>5. higher.proof = IF Sibling(p) < n THEN Append(proof, nodes[Sibling(p) + 1]) ELSE proof
  BY DEF Climb
<1>6. ProcessProof(leaf, proof) = nodes[p + 1]
  OBVIOUS
<1> HIDE DEF n, p, proof, up, higher
<1>7. p \div 2 \in 0 .. (n + 1) \div 2 - 1
  BY <1>1
<1>8. i \in 1 .. (n + 1) \div 2
  BY <1>1
<1>9. CASE p % 2 = 1
  <2>1. Sibling(p) = p - 1 /\ p - 1 < n /\ p \in 1 .. n
    BY <1>1, <1>9, SMTT(30) DEF Sibling
  <2>2. 2 * i = p + 1 /\ 2 * i <= n /\ 2 * i - 1 = p
    BY <1>1, <1>9
  <2>3. up[i] = HashPair(nodes[p], nodes[p + 1])
    BY <1>3, <1>8, <2>2
  <2>4. nodes[p] \in T
    BY <2>1 DEF n
  <2>5. higher.proof = Append(proof, nodes[p])
    <3>1. (p - 1) + 1 = p
      BY <1>1
    <3> QED
      BY <1>5, <2>1, <3>1
  <2>6. higher.proof \in Seq(T)
    BY <1>1, <2>4, <2>5
  <2>7. ProcessProof(leaf, higher.proof) = HashPair(nodes[p + 1], nodes[p])
    BY <1>1, <1>6, <2>4, <2>5, ProofGrows
  <2>8. ProcessProof(leaf, higher.proof) = up[i]
    BY <2>3, <2>7 DEF HashPair
  <2> QED
    BY <1>2, <1>4, <1>7, <2>6, <2>8 DEF up, higher
<1>10. CASE p % 2 = 0 /\ p + 1 < n
  <2>1. Sibling(p) = p + 1 /\ p + 2 \in 1 .. n
    BY <1>1, <1>10 DEF Sibling
  <2>2. 2 * i = p + 2 /\ 2 * i <= n /\ 2 * i - 1 = p + 1
    BY <1>1, <1>10
  <2>3. up[i] = HashPair(nodes[p + 1], nodes[p + 2])
    BY <1>3, <1>8, <2>2
  <2>4. nodes[p + 2] \in T
    BY <2>1 DEF n
  <2>5. higher.proof = Append(proof, nodes[p + 2])
    <3>1. (p + 1) + 1 = p + 2
      BY <1>1
    <3> QED
      BY <1>5, <1>10, <2>1, <3>1
  <2>6. higher.proof \in Seq(T)
    BY <1>1, <2>4, <2>5
  <2>7. ProcessProof(leaf, higher.proof) = up[i]
    BY <1>1, <1>6, <2>3, <2>4, <2>5, ProofGrows
  <2> QED
    BY <1>2, <1>4, <1>7, <2>6, <2>7 DEF up, higher
<1>11. CASE p % 2 = 0 /\ ~ (p + 1 < n)
  <2>1. Sibling(p) = p + 1
    BY <1>1, <1>11 DEF Sibling
  <2>2. ~ (2 * i <= n) /\ 2 * i - 1 = p + 1
    BY <1>1, <1>11
  <2>3. up[i] = nodes[p + 1]
    BY <1>3, <1>8, <2>2
  <2>4. higher.proof = proof
    BY <1>5, <1>11, <2>1
  <2> QED
    BY <1>1, <1>2, <1>4, <1>6, <1>7, <2>3, <2>4 DEF up, higher
<1>12. p % 2 = 0 \/ p % 2 = 1
  BY <1>1
<1> QED
  BY <1>9, <1>10, <1>11, <1>12

\* merkle.ts and AnchorStore agree: the proof getProof gives for a leaf leads
\* from the leaf to buildTree's root, whatever the leaves and however many.
THEOREM ProofsLeadToTheRoot ==
    ASSUME NEW T, NEW leaves \in Seq(T), leaves # <<>>, NEW index \in 0 .. Len(leaves) - 1
    PROVE  ProcessProof(leaves[index + 1], GetProof(leaves, index)) = BuildTree(leaves)
<1> DEFINE h == Height(leaves)
           U == UNION {{Level(leaves, k)[i] : i \in 1 .. Len(Level(leaves, k))} : k \in Nat}
           leaf == leaves[index + 1]
           Good == {k \in Nat : k <= h =>
                      /\ Path(leaves, index, k).position \in 0 .. Len(Level(leaves, k)) - 1
                      /\ Path(leaves, index, k).proof \in Seq(U)
                      /\ ProcessProof(leaf, Path(leaves, index, k).proof) =
                           Level(leaves, k)[Path(leaves, index, k).position + 1]}
<1>1. h \in Nat /\ Len(Level(leaves, h)) = 1
  BY HeightIs
<1>2. ASSUME NEW k \in Nat PROVE Level(leaves, k) \in Seq(U) /\ Len(Level(leaves, k)) >= 1
  <2> DEFINE nodes == Level(leaves, k)
  <2>1. PICK V : nodes \in Seq(V)
    BY LevelShape
  <2>2. Len(nodes) >= 1
    BY LevelShape
  <2>3. \A i \in 1 .. Len(nodes) : nodes[i] \in U
    OBVIOUS
  <2> HIDE DEF nodes, U
  <2>4. nodes \in Seq(U)
    BY <2>1, <2>3
  <2> QED
    BY <2>2, <2>4 DEF nodes
<1> HIDE DEF h, U
<1>3. 0 \in Good
  <2>1. Path(leaves, index, 0).position = index /\ Path(leaves, index, 0).proof = <<>>
    BY PathZero
  <2>2. Level(leaves, 0) = leaves
    BY LevelZero
  <2>3. ProcessProof(leaf, <<>>) = leaf
    BY EmptyProof
  <2>4. leaf = Level(leaves, 0)[index + 1] /\ index \in 0 .. Len(Level(leaves, 0)) - 1
    BY <2>2
  <2>5. <<>> \in Seq(U)
    OBVIOUS
  <2> HIDE DEF leaf
  <2> QED
    BY <2>1, <2>3, <2>4, <2>5
<1>4. ASSUME NEW k \in Nat, k \in Good PROVE k + 1 \in Good
  <2> SUFFICES ASSUME k + 1 <= h
      PROVE  /\ Path(leaves, index, k + 1).position \in 0 .. Len(Level(leaves, k + 1)) - 1
             /\ Path(leaves, index, k + 1).proof \in Seq(U)
             /\ ProcessProof(leaf, Path(leaves, index, k + 1).proof) =
                  Level(leaves, k + 1)[Path(leaves, index, k + 1).position + 1]
    OBVIOUS
  <2> DEFINE path == Path(leaves, index, k)
             nodes == Level(leaves, k)
  <2>1. k <= h
    BY <1>1
  <2>2. /\ path.position \in 0 .. Len(nodes) - 1
        /\ path.proof \in Seq(U)
        /\ ProcessProof(leaf, path.proof) = nodes[path.position + 1]
    BY <1>4, <2>1
  <2>3. nodes \in Seq(U) /\ Len(nodes) >= 1
    BY <1>2
  <2>4. Path(leaves, index, k + 1) = Climb(path, nodes) /\ Level(leaves, k + 1) = Parents(nodes)
    BY PathAbove, LevelAbove
  <2> HIDE DEF path, nodes, leaf, Good
  <2>5. /\ Climb(path, nodes).position \in 0 .. Len(Parents(nodes)) - 1
        /\ Climb(path, nodes).proof \in Seq(U)
        /\ ProcessProof(leaf, Climb(path, nodes).proof) =
             Parents(nodes)[Climb(path, nodes).position + 1]
    BY <2>2, <2>3, ClimbFinds, ZenonT(40)
  <2> QED
    BY <2>4, <2>5
<1> HIDE DEF Good
<1>5. h \in Good
  BY <1>1, <1>3, <1>4, Levels!SetInduction
<1> USE DEF Good
<1>6. Path(leaves, index, h).position = 0
  <2> DEFINE position == Path(leaves, index, h).position
             n == Len(Level(leaves, h))
  <2>1. position \in 0 .. n - 1 /\ n = 1
    <3>1. h <= h
      BY <1>1
    <3>2. position \in 0 .. n - 1
      BY <1>5, <3>1
    <3> QED
      BY <1>1, <3>2
  <2> HIDE DEF position, n
  <2>2. position = 0
    BY <2>1
  <2> QED
    BY <2>2 DEF position
<1>7. ProcessProof(leaf, Path(leaves, index, h).proof) = Level(leaves, h)[Path(leaves, index, h).position + 1]
  BY <1>1, <1>5
<1>8. 0 + 1 = 1
  OBVIOUS
<1> HIDE DEF Good
<1>9. ProcessProof(leaf, Path(leaves, index, h).proof) = Level(leaves, h)[1]
  BY <1>6, <1>7, <1>8
<1> QED
  BY <1>9 DEF GetProof, BuildTree, h
-----------------------------------------------------------------------------
\* A step leaves the types alone.
LEMMA StoreTypeStep ==
    ASSUME StoreTypeOK, StoreNext
    PROVE  StoreTypeOK'
<1> USE DEF StoreTypeOK
<1>1. ASSUME NEW sender \in Senders, NEW next \in Accounts, SetAdmin(sender, next)
      PROVE  StoreTypeOK'
  BY <1>1 DEF SetAdmin
<1>2. ASSUME NEW sender \in Senders, NEW b \in BatchIds, NEW root \in Roots,
             NEW policyHash \in PolicyHashes, AnchorRoot(sender, b, root, policyHash)
      PROVE  StoreTypeOK'
  <2>1. [root |-> root, policyHash |-> policyHash, blockNumber |-> block] \in Anchor
    BY DEF Anchor
  <2> QED
    BY <1>2, <2>1 DEF AnchorRoot, Record
<1>3. CASE Mine
  BY <1>3, StoreConstants DEF Mine
<1> QED
  BY <1>1, <1>2, <1>3 DEF StoreNext

\* admin, the records and the block number stay in their types.
THEOREM StoreTypeCorrect == StoreSpec => []StoreTypeOK
<1>1. StoreInit => StoreTypeOK
  BY StoreConstants DEF StoreInit, StoreTypeOK, Anchor, Empty
<1>2. StoreTypeOK /\ [StoreNext]_storeVars => StoreTypeOK'
  <2> SUFFICES ASSUME StoreTypeOK, [StoreNext]_storeVars PROVE StoreTypeOK'
    OBVIOUS
  <2>1. CASE StoreNext
    BY <2>1, StoreTypeStep
  <2>2. CASE UNCHANGED storeVars
    BY <2>2 DEF StoreTypeOK, storeVars
  <2> QED
    BY <2>1, <2>2
<1> QED
  BY <1>1, <1>2, PTL DEF StoreSpec

\* The record of a committed batch is the same after every step, whoever is
\* admin: AnchorStore.anchor has no path that writes it again.
THEOREM RecordsArePermanent == StoreSpec => Permanent
<1>1. StoreTypeOK /\ [StoreNext]_storeVars =>
          [\A b \in BatchIds : Committed(b) => anchors'[b] = anchors[b]]_storeVars
  <2> SUFFICES ASSUME StoreTypeOK, StoreNext, NEW c \in BatchIds, Committed(c)
               PROVE  anchors'[c] = anchors[c]
    OBVIOUS
  <2>1. ASSUME NEW sender \in Senders, NEW next \in Accounts, SetAdmin(sender, next)
        PROVE  anchors'[c] = anchors[c]
    BY <2>1 DEF SetAdmin
  <2>2. ASSUME NEW sender \in Senders, NEW b \in BatchIds, NEW root \in Roots,
               NEW policyHash \in PolicyHashes, AnchorRoot(sender, b, root, policyHash)
        PROVE  anchors'[c] = anchors[c]
    \* Either b is committed and nothing is written, or b is not c.
    BY <2>2 DEF AnchorRoot, Record, StoreTypeOK
  <2>3. CASE Mine
    BY <2>3 DEF Mine
  <2> QED
    BY <2>1, <2>2, <2>3 DEF StoreNext
<1> QED
  BY <1>1, StoreTypeCorrect, PTL DEF StoreSpec, Permanent
-----------------------------------------------------------------------------
LEMMA BatchIs ==
    ASSUME NEW batch \in Batches
    PROVE  /\ batch \subseteq Receipts /\ batch # {} /\ IsFiniteSet(batch)
           /\ Cardinality(batch) \in Nat \ {0}
<1>1. batch \subseteq Receipts /\ batch # {}
  BY DEF Batches
<1>2. IsFiniteSet(batch)
  BY <1>1, AnchoringConstants, FS_Subset
<1> QED
  BY <1>1, <1>2, FS_CardinalityType, FS_EmptySet

\* The digests of a batch have places of their own, from 0.
LEMMA LeafIndices ==
    ASSUME NEW batch \in Batches, NEW r \in batch
    PROVE  /\ LeafIndex(batch, r) \in 0 .. Cardinality(batch) - 1
           /\ \A q \in batch : LeafIndex(batch, q) = LeafIndex(batch, r) => q = r
<1> DEFINE Under(q) == {x \in batch : DigestRank[x] < DigestRank[q]}
<1>1. batch \subseteq Receipts /\ IsFiniteSet(batch) /\ Cardinality(batch) \in Nat
  BY BatchIs
<1>2. \A q \in batch : DigestRank[q] \in Nat
  BY <1>1, AnchoringConstants
<1>3. ASSUME NEW q \in batch
      PROVE  /\ IsFiniteSet(Under(q)) /\ Cardinality(Under(q)) \in Nat /\ q \notin Under(q)
             /\ LeafIndex(batch, q) = Cardinality(Under(q))
  <2>1. Under(q) \subseteq batch
    OBVIOUS
  <2>2. q \notin Under(q)
    BY <1>2
  <2>3. LeafIndex(batch, q) = Cardinality(Under(q))
    BY DEF LeafIndex
  <2> QED
    BY <1>1, <2>1, <2>2, <2>3, FS_Subset, FS_CardinalityType
<1>4. ASSUME NEW x \in batch, NEW y \in batch, DigestRank[x] < DigestRank[y]
      PROVE  LeafIndex(batch, x) < LeafIndex(batch, y)
  <2>1. Under(x) \subseteq Under(y) /\ x \in Under(y) /\ x \notin Under(x)
    BY <1>2, <1>4
  <2>2. IsFiniteSet(Under(y))
    BY <1>3
  <2> HIDE DEF Under
  <2>3. Cardinality(Under(x)) < Cardinality(Under(y))
    BY <2>1, <2>2, FS_Subset, FS_CardinalityType
  <2> QED
    BY <1>3, <2>3
<1>5. LeafIndex(batch, r) \in 0 .. Cardinality(batch) - 1
  <2>1. Under(r) \in SUBSET batch /\ Under(r) # batch
    BY <1>3
  <2>2. Cardinality(Under(r)) \in Nat /\ LeafIndex(batch, r) = Cardinality(Under(r))
    BY <1>3
  <2> HIDE DEF Under
  <2>3. Cardinality(Under(r)) <= Cardinality(batch) /\ Cardinality(Under(r)) # Cardinality(batch)
    BY <1>1, <2>1, FS_Subset
  <2> QED
    BY <1>1, <2>2, <2>3
<1>6. ASSUME NEW q \in batch, LeafIndex(batch, q) = LeafIndex(batch, r), q # r PROVE FALSE
  <2>1. DigestRank[q] # DigestRank[r]
    BY <1>1, <1>6, AnchoringConstants
  <2>2. DigestRank[q] < DigestRank[r] \/ DigestRank[r] < DigestRank[q]
    BY <1>2, <2>1
  <2>3. LeafIndex(batch, q) < LeafIndex(batch, r) \/ LeafIndex(batch, r) < LeafIndex(batch, q)
    BY <1>4, <2>2
  <2>4. LeafIndex(batch, r) \in Nat
    BY <1>3
  <2> QED
    BY <1>6, <2>3, <2>4
<1> QED
  BY <1>5, <1>6

\* Every place is taken, there being as many as receipts.
LEMMA PlacesAreTaken ==
    ASSUME NEW batch \in Batches, NEW k \in 0 .. Cardinality(batch) - 1
    PROVE  \E r \in batch : LeafIndex(batch, r) = k
<1> DEFINE n == Cardinality(batch)
           place == [r \in batch |-> LeafIndex(batch, r)]
<1>1. IsFiniteSet(batch) /\ n \in Nat
  BY BatchIs
<1>2. place \in Injection(batch, 0 .. n - 1)
  BY LeafIndices DEF Injection, IsInjective
<1>3. IsFiniteSet(0 .. n - 1) /\ Cardinality(0 .. n - 1) = n
  <2>1. n - 1 \in Int /\ (0 > n - 1 => n = 0) /\ (n - 1) - 0 + 1 = n
    BY <1>1
  <2> HIDE DEF n
  <2> QED
    BY <2>1, FS_Interval
<1> HIDE DEF place
<1>4. place \in Surjection(batch, 0 .. n - 1)
  BY <1>1, <1>2, <1>3, FS_Injection
<1>5. PICK r \in batch : place[r] = k
  BY <1>4 DEF Surjection
<1> QED
  BY <1>5 DEF place

\* The leaves are the digests of the batch, ...
LEMMA LeavesAre ==
    ASSUME NEW batch \in Batches
    PROVE  /\ Leaves(batch) \in Seq({Digest[r] : r \in batch})
           /\ Len(Leaves(batch)) = Cardinality(batch)
           /\ Leaves(batch) # <<>>
<1> DEFINE n == Cardinality(batch)
           at(k) == CHOOSE r \in batch : LeafIndex(batch, r) = k - 1
           D == {Digest[r] : r \in batch}
<1>1. n \in Nat \ {0}
  BY BatchIs
<1>2. ASSUME NEW k \in 1 .. n PROVE at(k) \in batch
  <2>1. k - 1 \in 0 .. Cardinality(batch) - 1
    BY <1>1
  <2>2. \E r \in batch : LeafIndex(batch, r) = k - 1
    BY <2>1, PlacesAreTaken
  <2> QED
    BY <2>2
<1>3. Leaves(batch) = [k \in 1 .. n |-> Digest[at(k)]]
  BY DEF Leaves
<1> HIDE DEF at, n
<1>4. Leaves(batch) \in [1 .. n -> D]
  BY <1>2, <1>3
<1> HIDE DEF D
<1>5. Leaves(batch) \in Seq(D) /\ Len(Leaves(batch)) = n
  BY <1>1, <1>4
<1> QED
  BY <1>1, <1>5 DEF n, D

\* ... and the one at a receipt's place is its own.
LEMMA LeafOfReceipt ==
    ASSUME NEW batch \in Batches, NEW r \in batch
    PROVE  /\ LeafIndex(batch, r) \in 0 .. Len(Leaves(batch)) - 1
           /\ Leaves(batch)[LeafIndex(batch, r) + 1] = Digest[r]
<1> DEFINE i == LeafIndex(batch, r)
           n == Cardinality(batch)
<1>1. i \in 0 .. n - 1 /\ n \in Nat
  BY LeafIndices, BatchIs
<1>2. \A q \in batch : LeafIndex(batch, q) = i => q = r
  BY LeafIndices
<1>3. i = LeafIndex(batch, r)
  OBVIOUS
<1> HIDE DEF i
<1>4. i + 1 \in 1 .. n /\ (i + 1) - 1 = i
  BY <1>1
<1>5. (CHOOSE q \in batch : LeafIndex(batch, q) = (i + 1) - 1) = r
  BY <1>2, <1>3, <1>4
<1>6. Leaves(batch)[i + 1] = Digest[r]
  BY <1>4, <1>5 DEF Leaves
<1> QED
  BY <1>1, <1>3, <1>6, LeavesAre
-----------------------------------------------------------------------------
\* A batch of receipts is of hour b and policy p.
Uniform(batch, b, p) == \A r \in batch : Hour[r] = b /\ PolicyHash[r] = p

\* KeeperHub holds the request for this batch.
Requested(batch) == \E q \in requests : q.batch = HourOf(batch) /\ q.root = BatchRoot[batch]

\* A request carries the root of a batch of its hour and policy, ...
RequestsNameBatches ==
    \A q \in requests :
        /\ q.batch \in BatchIds
        /\ q.key = KeyOf(q.batch, q.root)
        /\ \E batch \in Batches : q.root = BatchRoot[batch] /\ Uniform(batch, q.batch, q.policyHash)

\* ... and an hour never has two roots: the second would conflict.
OneRootPerHour ==
    \A q1, q2 \in requests : q1.batch = q2.batch => q1.root = q2.root

\* What is on chain was requested.
AnchoredWasRequested ==
    \A b \in BatchIds : Committed(b) =>
        \E q \in requests : /\ q.batch = b
                            /\ q.root = anchors[b].root
                            /\ q.policyHash = anchors[b].policyHash

\* What is marked was requested, in a batch that its proof is of.
MarkedWasRequested ==
    \A i \in Intents : store[i].root # NoRoot =>
        \E batch \in Batches :
            /\ store[i].receipt \in batch
            /\ store[i].root = BatchRoot[batch]
            /\ store[i].proof = Proof[batch][store[i].receipt]
            /\ Requested(batch)

\* The script's variables, at each point of its loop.
ScriptOK ==
    /\ pending \subseteq Receipts
    /\ members \subseteq sent
    /\ pc # "marking" => members = {}
    /\ pc # "idle" => sent \in Batches /\ \E p \in PolicyHashes : \A r \in sent : PolicyHash[r] = p
    /\ answer = "accepted" => pc = "sending"
    /\ answer = "accepted" \/ pc = "marking" => Requested(sent)

StoreOK ==
    /\ store = [i \in Intents |-> store[i]]
    /\ \A i \in Intents : store[i].receipt \in Receipts \cup {NoReceipt}

IInv ==
    /\ StoreOK
    /\ ScriptOK
    /\ RequestsNameBatches
    /\ OneRootPerHour
    /\ AnchoredWasRequested
    /\ MarkedWasRequested
-----------------------------------------------------------------------------
LEMMA HourIs ==
    ASSUME NEW batch \in Batches, NEW r \in batch
    PROVE  HourOf(batch) = Hour[r] /\ HourOf(batch) \in BatchIds
<1>1. PICK b \in BatchIds : \A q \in batch : Hour[q] = b
  BY DEF Batches
<1>2. HourOf(batch) \in BatchIds /\ \A q \in batch : Hour[q] = HourOf(batch)
  BY <1>1 DEF HourOf
<1> QED
  BY <1>2

\* A marked receipt's proof leads to the root of its batch.
LEMMA ProofOfReceipt ==
    ASSUME NEW batch \in Batches, NEW r \in batch
    PROVE  ProcessProof(Digest[r], Proof[batch][r]) = BatchRoot[batch]
<1> DEFINE leaves == Leaves(batch)
           i == LeafIndex(batch, r)
           T == {Digest[q] : q \in batch}
<1>1. /\ leaves \in Seq(T) /\ leaves # <<>>
      /\ i \in 0 .. Len(leaves) - 1
      /\ leaves[i + 1] = Digest[r]
  BY LeavesAre, LeafOfReceipt
<1>2. Proof[batch][r] = GetProof(leaves, i) /\ BatchRoot[batch] = BuildTree(leaves)
  BY DEF Proof, BatchRoot
<1> HIDE DEF leaves, i, T
<1> QED
  BY <1>1, <1>2, ProofsLeadToTheRoot

\* What the script may send next is a batch, under one policy.
LEMMA NextBatchIs ==
    ASSUME NEW left, left \subseteq Receipts, Proceed(left)
    PROVE  /\ pending' \subseteq Receipts
           /\ pc' \in {"idle", "sending"}
           /\ pc' # "idle" => sent' \in Batches /\ \E p \in PolicyHashes : \A r \in sent' : PolicyHash[r] = p
<1> DEFINE first == {r \in left : \A q \in left : Hour[r] <= Hour[q]}
           policies == {PolicyHash[r] : r \in first}
<1>1. first \subseteq Receipts
  OBVIOUS
<1>2. ASSUME Cardinality(policies) = 1
      PROVE  first \in Batches /\ \E p \in PolicyHashes : \A r \in first : PolicyHash[r] = p
  <2>1. IsFiniteSet(first)
    BY <1>1, AnchoringConstants, FS_Subset
  <2>2. IsFiniteSet(policies)
    <3> DEFINE policy == [r \in first |-> PolicyHash[r]]
    <3>1. policy \in Surjection(first, policies)
      BY DEF Surjection
    <3> HIDE DEF policy, first, policies
    <3> QED
      BY <2>1, <3>1, FS_Surjection
  <2>3. PICK p : policies = {p}
    BY <1>2, <2>2, FS_Singleton
  <2>4. PICK r \in first : PolicyHash[r] = p
    BY <2>3
  <2>5. \A q \in first : PolicyHash[q] = p
    BY <2>3
  <2>6. \A q \in first : Hour[q] <= Hour[r] /\ Hour[r] <= Hour[q] /\ Hour[q] \in Int /\ Hour[r] \in Int
    BY <1>1, <2>4, AnchoringConstants
  <2>7. \A q \in first : Hour[q] = Hour[r]
    BY <2>6
  <2>8. Hour[r] \in BatchIds /\ PolicyHash[r] \in PolicyHashes
    BY <1>1, <2>4, AnchoringConstants
  <2> HIDE DEF first, policies
  <2> QED
    BY <1>1, <2>4, <2>5, <2>7, <2>8 DEF Batches
<1>3. /\ pending' = IF Cardinality(policies) = 1 THEN left ELSE {}
      /\ sent' = IF Cardinality(policies) = 1 THEN first ELSE {}
      /\ pc' = IF Cardinality(policies) = 1 THEN "sending" ELSE "idle"
  BY DEF Proceed
<1> HIDE DEF first, policies
<1> QED
  BY <1>2, <1>3

LEMMA IInvInit == Init => IInv
<1> SUFFICES ASSUME Init PROVE IInv
  OBVIOUS
<1>1. StoreOK
  BY DEF Init, StoreOK, Stored
<1>2. ScriptOK
  BY DEF Init, ScriptOK
<1>3. RequestsNameBatches /\ OneRootPerHour
  BY DEF Init, RequestsNameBatches, OneRootPerHour
<1>4. AnchoredWasRequested
  BY DEF Init, StoreInit, AnchoredWasRequested, Committed, Empty
<1>5. MarkedWasRequested
  BY DEF Init, Stored, MarkedWasRequested
<1> QED
  BY <1>1, <1>2, <1>3, <1>4, <1>5 DEF IInv

\* What a step must leave alone for each part of the invariant, or restore.
LEMMA StoreSteps ==
    ASSUME IInv, [Next]_vars
    PROVE  StoreOK'
<1> USE DEF StoreOK, IInv
<1>1. ASSUME NEW r \in Receipts, NEW root, NEW proof, Put(Stored(r, root, proof))
      PROVE  StoreOK'
  <2> DEFINE row == Stored(r, root, proof)
  <2>1. row.receipt = r
    BY DEF Stored
  <2> HIDE DEF row
  <2>2. store' = [store EXCEPT ![Intent[r]] = row]
    BY <1>1, <2>1 DEF Put, row
  <2>3. \A i \in Intents : store'[i] = IF i = Intent[r] THEN row ELSE store[i]
    BY <2>2
  <2>4. store' = [i \in Intents |-> store'[i]]
    BY <2>2
  <2> QED
    BY <2>1, <2>3, <2>4
<1>2. ASSUME NEW r \in Receipts, Decide(r) PROVE StoreOK'
  BY <1>1, <1>2 DEF Decide
<1>3. ASSUME NEW r \in Receipts, Mark(r) PROVE StoreOK'
  BY <1>1, <1>3 DEF Mark
<1>4. ASSUME UNCHANGED store PROVE StoreOK'
  BY <1>4
<1> QED
  BY <1>2, <1>3, <1>4 DEF Next, Script, Start, Returns, Conflicts, NextBatch, Fails, TakeUp,
     Execute, HandOver, NewBlock, vars

\* The script's own variables.
LEMMA ScriptSteps ==
    ASSUME IInv, [Next]_vars
    PROVE  ScriptOK'
<1> USE DEF IInv, ScriptOK
<1>1. CASE Start
  <2>1. Unanchored \subseteq Receipts
    BY DEF Unanchored, StoreOK
  <2>2. Proceed(Unanchored)
    BY <1>1 DEF Start
  <2>3. /\ pending' \subseteq Receipts
        /\ pc' \in {"idle", "sending"}
        /\ pc' # "idle" => sent' \in Batches /\ \E p \in PolicyHashes : \A r \in sent' : PolicyHash[r] = p
    BY <2>1, <2>2, NextBatchIs
  <2>4. members' = {} /\ answer' # "accepted"
    BY <1>1 DEF Start
  <2> QED
    BY <2>3, <2>4
<1>2. CASE NextBatch
  <2>1. pending \ sent \subseteq Receipts
    OBVIOUS
  <2>2. Proceed(pending \ sent)
    BY <1>2 DEF NextBatch
  <2>3. /\ pending' \subseteq Receipts
        /\ pc' \in {"idle", "sending"}
        /\ pc' # "idle" => sent' \in Batches /\ \E p \in PolicyHashes : \A r \in sent' : PolicyHash[r] = p
    BY <2>1, <2>2, NextBatchIs
  <2>4. members' = {} /\ answer' # "accepted"
    BY <1>2 DEF NextBatch
  <2> QED
    BY <2>3, <2>4
<1>3. CASE TakeUp
  <2>1. ASSUME answer' = "accepted" PROVE Requested(sent)'
    <3> DEFINE b == HourOf(sent)
               root == BatchRoot[sent]
               known == {q \in requests : q.key = KeyOf(b, root)}
               new == [key |-> KeyOf(b, root), batch |-> b, root |-> root, policyHash |-> PolicyOf(sent)]
    <3>1. requests' = IF known = {} THEN requests \cup {new} ELSE requests
      BY <1>3 DEF TakeUp
    <3>2. \A q \in known : q.root = root
      BY <1>3, <2>1 DEF TakeUp
    <3>3. \A q \in known : q \in requests /\ q.batch = b
      BY DEF RequestsNameBatches, KeyOf
    <3>4. new.batch = b /\ new.root = root
      OBVIOUS
    <3>5. sent' = sent
      BY <1>3 DEF TakeUp
    <3> HIDE DEF known, new
    <3>6. \E q \in requests' : q.batch = b /\ q.root = root
      BY <3>1, <3>2, <3>3, <3>4
    <3> QED
      BY <3>5, <3>6 DEF Requested
  <2> QED
    BY <1>3, <2>1 DEF TakeUp
<1>4. CASE Returns
  BY <1>4 DEF Returns, Requested
<1>5. CASE Conflicts \/ Fails
  BY <1>5 DEF Conflicts, Fails, Exit
<1>6. ASSUME NEW r \in Receipts, Mark(r) PROVE ScriptOK'
  BY <1>6 DEF Mark, Requested
<1>7. ASSUME UNCHANGED <<scriptVars, requests>> PROVE ScriptOK'
  BY <1>7 DEF scriptVars, Requested
<1> QED
  BY <1>1, <1>2, <1>3, <1>4, <1>5, <1>6, <1>7
     DEF Next, Script, Decide, Execute, HandOver, NewBlock, vars

\* KeeperHub's requests: only TakeUp adds one, under a key that is new.
LEMMA RequestSteps ==
    ASSUME IInv, [Next]_vars
    PROVE  RequestsNameBatches' /\ OneRootPerHour' /\ requests \subseteq requests'
<1> USE DEF IInv, RequestsNameBatches, OneRootPerHour
<1>1. CASE TakeUp
  <2> DEFINE b == HourOf(sent)
             root == BatchRoot[sent]
             known == {q \in requests : q.key = KeyOf(b, root)}
             new == [key |-> KeyOf(b, root), batch |-> b, root |-> root, policyHash |-> PolicyOf(sent)]
  <2>1. sent \in Batches /\ \E p \in PolicyHashes : \A r \in sent : PolicyHash[r] = p
    BY <1>1 DEF TakeUp, ScriptOK
  <2>2. PICK r \in sent : TRUE
    BY <2>1, BatchIs
  <2>3. b \in BatchIds /\ \A q \in sent : Hour[q] = b
    BY <2>1, <2>2, HourIs
  <2>4. \A q \in sent : PolicyHash[q] = PolicyOf(sent)
    BY <2>1, <2>2 DEF PolicyOf
  <2>5. requests' = IF known = {} THEN requests \cup {new} ELSE requests
    BY <1>1 DEF TakeUp
  <2>6. new.batch = b /\ new.root = root /\ new.key = KeyOf(b, root) /\ new.policyHash = PolicyOf(sent)
    OBVIOUS
  <2>7. root = BatchRoot[sent]
    OBVIOUS
  <2>8. \A q \in requests : q \notin known => q.batch # b
    BY DEF KeyOf
  <2> HIDE DEF b, root, known, new
  <2>9. Uniform(sent, new.batch, new.policyHash)
    BY <2>3, <2>4, <2>6 DEF Uniform
  <2>10. RequestsNameBatches'
    BY <2>1, <2>3, <2>5, <2>6, <2>7, <2>9
  <2>11. OneRootPerHour'
    BY <2>5, <2>6, <2>8
  <2> QED
    BY <2>5, <2>10, <2>11
<1>2. ASSUME UNCHANGED requests
      PROVE  RequestsNameBatches' /\ OneRootPerHour' /\ requests \subseteq requests'
  BY <1>2
<1> QED
  BY <1>1, <1>2 DEF Next, Script, Start, Returns, Conflicts, Mark, NextBatch, Fails, Decide,
     Execute, HandOver, NewBlock, vars

\* Execute anchors what a request says; nothing else writes a record.
LEMMA AnchorSteps ==
    ASSUME IInv, StoreTypeOK, [Next]_vars
    PROVE  AnchoredWasRequested'
<1> USE DEF IInv, AnchoredWasRequested, Committed
<1>1. requests \subseteq requests'
  BY RequestSteps
<1>2. ASSUME NEW q \in requests, Execute(q) PROVE AnchoredWasRequested'
  <2> DEFINE new == [root |-> q.root, policyHash |-> q.policyHash, blockNumber |-> block]
  <2>1. q.batch \in BatchIds
    BY DEF RequestsNameBatches
  <2>2. anchors' = anchors \/ anchors' = [anchors EXCEPT ![q.batch] = new]
    BY <1>2 DEF Execute, AnchorRoot, Record
  <2>3. requests' = requests
    BY <1>2 DEF Execute
  <2>4. new.root = q.root /\ new.policyHash = q.policyHash
    OBVIOUS
  <2> HIDE DEF new
  <2>5. \A c \in BatchIds : anchors'[c] = anchors[c] \/ (c = q.batch /\ anchors'[c] = new)
    BY <2>1, <2>2 DEF StoreTypeOK
  <2> QED
    BY <2>3, <2>4, <2>5
<1>3. ASSUME UNCHANGED anchors PROVE AnchoredWasRequested'
  BY <1>1, <1>3
<1> QED
  BY <1>2, <1>3 DEF Next, Script, Start, Returns, Conflicts, Mark, NextBatch, Fails, Decide,
     TakeUp, HandOver, NewBlock, SetAdmin, Mine, vars, storeVars

\* Mark writes a row once the batch's request is there, Decide clears one.
LEMMA MarkSteps ==
    ASSUME IInv, [Next]_vars
    PROVE  MarkedWasRequested'
<1> USE DEF IInv, MarkedWasRequested
<1>1. requests \subseteq requests'
  BY RequestSteps
<1>2. \A batch : Requested(batch) => Requested(batch)'
  BY <1>1 DEF Requested
<1>3. ASSUME NEW r \in Receipts, Mark(r) PROVE MarkedWasRequested'
  <2> DEFINE row == Stored(r, BatchRoot[sent], Proof[sent][r])
  <2>1. row.receipt = r /\ row.root = BatchRoot[sent] /\ row.proof = Proof[sent][r]
    BY DEF Stored
  <2>2. sent \in Batches /\ r \in sent /\ Requested(sent)
    BY <1>3 DEF Mark, ScriptOK
  <2>3. \A i \in Intents : store'[i] = row \/ store'[i] = store[i]
    BY <1>3 DEF Mark, Put, Stored, StoreOK
  <2> HIDE DEF row
  <2> QED
    BY <1>2, <2>1, <2>2, <2>3
<1>4. ASSUME NEW r \in Receipts, Decide(r) PROVE MarkedWasRequested'
  <2>1. \A i \in Intents : store'[i].root = NoRoot \/ store'[i] = store[i]
    BY <1>4 DEF Decide, Put, Stored, StoreOK
  <2> QED
    BY <1>2, <2>1
<1>5. ASSUME UNCHANGED store PROVE MarkedWasRequested'
  BY <1>2, <1>5
<1> QED
  BY <1>3, <1>4, <1>5 DEF Next, Script, Start, Returns, Conflicts, NextBatch, Fails, TakeUp,
     Execute, HandOver, NewBlock, vars

LEMMA IInvHoldsMarks == IInv => MarksVerify
<1> SUFFICES ASSUME IInv, NEW i \in Intents, store[i].root # NoRoot
             PROVE  LET b == Hour[store[i].receipt]
                        leaf == Digest[store[i].receipt]
                    IN  /\ Committed(b) => Verify(b, leaf, store[i].proof)
                        /\ \A q \in requests : q.batch = b => ProcessProof(leaf, store[i].proof) = q.root
  BY DEF MarksVerify
<1> DEFINE r == store[i].receipt
           b == Hour[r]
<1>1. PICK batch \in Batches :
        /\ r \in batch
        /\ store[i].proof = Proof[batch][r]
        /\ Requested(batch)
  BY DEF IInv, MarkedWasRequested
<1>2. ProcessProof(Digest[r], store[i].proof) = BatchRoot[batch]
  BY <1>1, ProofOfReceipt
<1>3. HourOf(batch) = b /\ b \in BatchIds
  BY <1>1, HourIs
<1>4. PICK asked \in requests : asked.batch = b /\ asked.root = BatchRoot[batch]
  BY <1>1, <1>3 DEF Requested
<1>5. \A q \in requests : q.batch = b => q.root = BatchRoot[batch]
  BY <1>4 DEF IInv, OneRootPerHour
<1>6. Committed(b) => anchors[b].root = BatchRoot[batch]
  BY <1>3, <1>5 DEF IInv, AnchoredWasRequested
<1> QED
  BY <1>2, <1>5, <1>6 DEF Verify, Committed

\* Every step of Anchoring is one AnchorStore allows, or none of it.
LEMMA AnchoringStoreStep ==
    ASSUME IInv, [Next]_vars
    PROVE  [StoreNext]_storeVars
<1>1. ASSUME NEW q \in requests, Execute(q) PROVE StoreNext
  <2>1. PICK batch \in Batches : q.root = BatchRoot[batch] /\ Uniform(batch, q.batch, q.policyHash)
    BY DEF IInv, RequestsNameBatches
  <2>2. PICK r \in batch : r \in Receipts /\ PolicyHash[r] = q.policyHash
    BY <2>1, BatchIs DEF Uniform
  <2>3. q.batch \in BatchIds /\ q.root \in Roots /\ q.policyHash \in PolicyHashes /\ Wallet \in Senders
    BY <2>1, <2>2, AnchoringConstants DEF IInv, RequestsNameBatches, Senders
  <2> QED
    BY <1>1, <2>3 DEF Execute, StoreNext
<1>2. HandOver => StoreNext
  BY DEF HandOver, StoreNext
<1>3. NewBlock => StoreNext
  BY DEF NewBlock, StoreNext
<1> QED
  BY <1>1, <1>2, <1>3 DEF Next, Script, Start, Returns, Conflicts, Mark, NextBatch, Fails, Decide,
     TakeUp, vars

\* What the script, the gateway and KeeperHub do together keeps IInv.
THEOREM InvariantHolds == Spec => [](IInv /\ StoreTypeOK)
<1>1. Init => IInv /\ StoreTypeOK
  BY IInvInit, StoreConstants DEF Init, StoreInit, StoreTypeOK, Anchor, Empty
<1>2. IInv /\ StoreTypeOK /\ [Next]_vars => (IInv /\ StoreTypeOK)'
  <2> SUFFICES ASSUME IInv, StoreTypeOK, [Next]_vars PROVE (IInv /\ StoreTypeOK)'
    OBVIOUS
  <2>1. IInv'
    BY StoreSteps, ScriptSteps, RequestSteps, AnchorSteps, MarkSteps DEF IInv
  <2>2. [StoreNext]_storeVars
    BY AnchoringStoreStep
  <2>3. CASE StoreNext
    BY <2>1, <2>3, StoreTypeStep
  <2>4. CASE UNCHANGED storeVars
    BY <2>1, <2>4 DEF StoreTypeOK, storeVars
  <2> QED
    BY <2>2, <2>3, <2>4
<1> QED
  BY <1>1, <1>2, PTL DEF Spec

\* A receipt marked anchored verifies against the root of its hour that is on
\* chain or on its way there, whatever was retried, decided again or late.
THEOREM MarkedReceiptsVerify == Spec => []MarksVerify
<1>1. IInv => MarksVerify
  BY IInvHoldsMarks
<1> QED
  BY <1>1, InvariantHolds, PTL

\* Anchoring implements AnchorStore: ...
THEOREM AnchoringUsesStore == Spec => StoreSpec
<1>1. Init => StoreInit
  BY DEF Init
<1>2. IInv /\ [Next]_vars => [StoreNext]_storeVars
  BY AnchoringStoreStep
<1> QED
  BY <1>1, <1>2, InvariantHolds, PTL DEF Spec, StoreSpec

\* ... so the records it makes are permanent.
THEOREM AnchoringIsPermanent == Spec => Permanent
  BY AnchoringUsesStore, RecordsArePermanent, PTL
-----------------------------------------------------------------------------
\* The nodes of a tree, the leaves among them.
TreeOf(leaves) ==
    UNION {{Level(leaves, k)[i] : i \in 1 .. Len(Level(leaves, k))} : k \in Nat}

\* keccak gives no digest of a receipt for a pair of nodes.
HashesAreNoDigests == \A r \in Receipts : \A a, b : Digest[r] # HashPair(a, b)

\* A node is a leaf or the hash of two nodes.
LEMMA NodeIs ==
    ASSUME NEW T, NEW leaves \in Seq(T), leaves # <<>>, NEW x \in TreeOf(leaves)
    PROVE  x \in T \/ \E a, b \in TreeOf(leaves) : x = HashPair(a, b)
<1> DEFINE IsNode(y) == y \in T \/ \E a, b \in TreeOf(leaves) : y = HashPair(a, b)
           Good == {k \in Nat : \A i \in 1 .. Len(Level(leaves, k)) : IsNode(Level(leaves, k)[i])}
<1>1. 0 \in Good
  BY LevelZero
<1>2. ASSUME NEW k \in Nat, k \in Good PROVE k + 1 \in Good
  <2> DEFINE nodes == Level(leaves, k)
             n == Len(nodes)
             up == Parents(nodes)
  <2>1. n \in Nat /\ n >= 1 /\ \E V : nodes \in Seq(V)
    BY LevelShape
  <2>2. Len(up) = (n + 1) \div 2
    BY <2>1, ParentsShape
  <2>3. \A j \in 1 .. (n + 1) \div 2 :
          up[j] = IF 2 * j <= n THEN HashPair(nodes[2 * j - 1], nodes[2 * j]) ELSE nodes[2 * j - 1]
    BY DEF Parents
  <2>4. \A i \in 1 .. n : IsNode(nodes[i]) /\ nodes[i] \in TreeOf(leaves)
    BY <1>2, SMTT(30) DEF TreeOf
  <2>5. Level(leaves, k + 1) = up
    BY LevelAbove
  <2> HIDE DEF n, up, nodes, IsNode
  <2>6. ASSUME NEW j \in 1 .. (n + 1) \div 2 PROVE IsNode(up[j])
    <3>1. 2 * j - 1 \in 1 .. n /\ (2 * j <= n => 2 * j \in 1 .. n)
      BY <2>1
    <3>2. CASE 2 * j <= n
      <4>1. up[j] = HashPair(nodes[2 * j - 1], nodes[2 * j])
        BY <2>3, <3>2
      <4>2. nodes[2 * j - 1] \in TreeOf(leaves) /\ nodes[2 * j] \in TreeOf(leaves)
        BY <2>4, <3>1, <3>2
      <4> QED
        BY <4>1, <4>2 DEF IsNode
    <3>3. CASE ~ (2 * j <= n)
      BY <2>3, <2>4, <3>1, <3>3
    <3> QED
      BY <3>2, <3>3
  <2>7. \A i \in 1 .. Len(Level(leaves, k + 1)) : IsNode(Level(leaves, k + 1)[i])
    BY <2>2, <2>5, <2>6
  <2> QED
    BY <2>7
<1>3. PICK k \in Nat : \E i \in 1 .. Len(Level(leaves, k)) : x = Level(leaves, k)[i]
  BY DEF TreeOf
<1> HIDE DEF Good, IsNode
<1>4. k \in Good
  BY <1>1, <1>2, Levels!SetInduction
<1>5. IsNode(x)
  BY <1>3, <1>4 DEF Good
<1> QED
  BY <1>5 DEF IsNode

\* A digest that some proof leads into a batch's tree is one of its leaves.
LEMMA OnlyMembersVerify ==
    ASSUME HashesAreNoDigests, NEW batch \in Batches, NEW r \in Receipts,
           NEW W, NEW proof \in Seq(W), ProcessProof(Digest[r], proof) = BatchRoot[batch]
    PROVE  r \in batch
<1> DEFINE leaves == Leaves(batch)
           tree == TreeOf(leaves)
           D == {Digest[q] : q \in batch}
           up(k) == ProcessProof(Digest[r], SubSeq(proof, 1, k))
           Good == {k \in Nat : k <= Len(proof) /\ up(k) \in tree => r \in batch}
<1>1. leaves \in Seq(D) /\ leaves # <<>> /\ batch \subseteq Receipts
  BY LeavesAre, BatchIs
<1>2. ASSUME NEW x \in tree PROVE x \in D \/ \E a, b \in tree : x = HashPair(a, b)
  <2> HIDE DEF leaves, D
  <2> QED
    BY <1>1, NodeIs
<1>3. 0 \in Good
  <2> SUFFICES ASSUME up(0) \in tree PROVE r \in batch
    OBVIOUS
  <2>1. SubSeq(proof, 1, 0) = <<>>
    OBVIOUS
  <2>2. up(0) = Digest[r]
    BY <2>1, EmptyProof
  <2>3. Digest[r] \in D
    BY <1>2, <2>2 DEF HashesAreNoDigests
  <2> QED
    BY <1>1, <2>3, AnchoringConstants
<1>4. ASSUME NEW k \in Nat, k \in Good PROVE k + 1 \in Good
  <2> SUFFICES ASSUME k + 1 <= Len(proof), up(k + 1) \in tree PROVE r \in batch
    OBVIOUS
  <2>1. k + 1 \in 1 .. Len(proof) /\ (k + 1) - 1 = k
    OBVIOUS
  <2>2. Hashes!FoldLeft(HashPair, Digest[r], SubSeq(proof, 1, k + 1)) =
          HashPair(Hashes!FoldLeft(HashPair, Digest[r], SubSeq(proof, 1, (k + 1) - 1)), proof[k + 1])
    BY <2>1, Hashes!FoldLeftPrefix
  <2>3. up(k + 1) = HashPair(up(k), proof[k + 1])
    BY <2>1, <2>2, HashIsFold
  <2>4. up(k + 1) \notin D
    BY <1>1, <2>3 DEF HashesAreNoDigests
  <2>5. PICK a \in tree, b \in tree : up(k + 1) = HashPair(a, b)
    BY <1>2, <2>4
  <2>6. up(k) \in tree
    BY <2>3, <2>5 DEF HashPair
  <2> QED
    BY <1>4, <2>1, <2>6
<1>5. up(Len(proof)) \in tree
  <2>1. SubSeq(proof, 1, Len(proof)) = proof
    BY SubSeqFull
  <2>2. ProcessProof(Digest[r], proof) = Level(leaves, Height(leaves))[1]
    BY DEF BatchRoot, BuildTree
  <2>3. Height(leaves) \in Nat /\ Len(Level(leaves, Height(leaves))) = 1
    <3> HIDE DEF leaves, D
    <3> QED
      BY <1>1, HeightIs
  <2> DEFINE top == Level(leaves, Height(leaves))
  <2>4. top[1] \in {top[i] : i \in 1 .. Len(top)}
    BY <2>3
  <2>5. top[1] \in tree
    <3> HIDE DEF leaves
    <3> QED
      BY <2>3, <2>4 DEF TreeOf
  <2> QED
    BY <2>1, <2>2, <2>5
<1>6. Len(proof) \in Nat
  OBVIOUS
<1> HIDE DEF Good, up, tree
<1>7. Len(proof) \in Good
  BY <1>3, <1>4, <1>6, Levels!SetInduction
<1> QED
  BY <1>5, <1>6, <1>7 DEF Good

\* What verifies against an hour's root was decided in it, under its policy.
LEMMA IInvHoldsOwn ==
    ASSUME HashesAreNoDigests, IInv, NEW b \in BatchIds, Committed(b),
           NEW r \in Receipts, NEW W, NEW proof \in Seq(W),
           ProcessProof(Digest[r], proof) = anchors[b].root
    PROVE  Hour[r] = b /\ PolicyHash[r] = anchors[b].policyHash
<1>1. PICK q \in requests : /\ q.batch = b
                            /\ q.root = anchors[b].root
                            /\ q.policyHash = anchors[b].policyHash
  BY DEF IInv, AnchoredWasRequested
<1>2. PICK batch \in Batches : q.root = BatchRoot[batch] /\ Uniform(batch, q.batch, q.policyHash)
  BY DEF IInv, RequestsNameBatches
<1>3. r \in batch
  BY <1>1, <1>2, OnlyMembersVerify
<1> QED
  BY <1>1, <1>2, <1>3 DEF Uniform

\* Whatever proof is presented, a receipt verifies only against a root of its
\* own hour and policy, provided no hash of a pair is a receipt's digest.
THEOREM OwnReceiptsOnly ==
    ASSUME HashesAreNoDigests
    PROVE  Spec => []OnlyOwnReceiptsVerify
<1>1. IInv /\ StoreTypeOK => OnlyOwnReceiptsVerify
  <2> SUFFICES ASSUME IInv, StoreTypeOK, NEW b \in BatchIds, Committed(b),
                      NEW r \in Provable[anchors[b].root]
               PROVE  Hour[r] = b /\ PolicyHash[r] = anchors[b].policyHash
    BY DEF OnlyOwnReceiptsVerify
  <2>1. anchors[b].root \in Roots
    BY DEF StoreTypeOK, Anchor
  <2>2. r \in Receipts /\ \E proof \in Proofs : ProcessProof(Digest[r], proof) = anchors[b].root
    BY <2>1 DEF Provable
  <2>3. PICK proof \in Proofs : ProcessProof(Digest[r], proof) = anchors[b].root
    BY <2>2
  <2>4. proof \in Seq(Nodes)
    <3>1. CASE proof = <<>>
      BY <3>1
    <3>2. CASE \E x \in Nodes : proof = <<x>>
      BY <3>2
    <3>3. CASE \E x, y \in Nodes : proof = <<x, y>>
      BY <3>3
    <3> QED
      BY <3>1, <3>2, <3>3 DEF Proofs
  <2> QED
    BY <2>2, <2>3, <2>4, IInvHoldsOwn
<1> QED
  BY <1>1, InvariantHolds, PTL
-----------------------------------------------------------------------------
(* AnchorConsumer: types, and where the handler is.                        *)

ConsumerTypeOK ==
    /\ log \in Seq(Kinds) /\ Len(log) <= MaxRecords
    /\ committed \in 0 .. Len(log) + 1
    /\ status \in {"down", "up", "stopping"}
    /\ offset \in 1 .. Len(log) + 1 /\ cameIn \in 1 .. offset
    /\ handler \in {"idle", "flushing", "backoff", "dead-letter"}
    /\ attempt \in Nat
    /\ unsealed \in Seq(Offsets)
    /\ batches \in Seq(Batch)
    /\ deadLetters \subseteq 1 .. Len(log)
    /\ rejoined \in BOOLEAN

\* The handler has a record in hand until it is behind the consumer; while it
\* waits for a flush, to try again or for the dead letters, the batch is empty.
HandlerOK ==
    /\ status = "down" => handler = "idle" /\ unsealed = <<>> /\ batches = <<>> /\ deadLetters = {}
    /\ handler = "idle" => attempt = 0
    /\ handler \in {"flushing", "backoff"} => attempt > 0
    /\ handler # "idle" => offset <= Len(log)
    /\ attempt > 0 => unsealed = <<>> /\ log[offset] = "decision"
    /\ handler = "dead-letter" /\ attempt = 0 => log[offset] = "malformed"
    /\ unsealed = <<>> => aged = FALSE

\* The flush a handler waits for is the only one of a full batch.
OneFlush ==
    \A k \in DOMAIN batches :
        batches[k].reason = "size" /\ batches[k].sent = "sending" =>
            /\ handler = "flushing"
            /\ \A j \in DOMAIN batches :
                 batches[j].reason = "size" /\ batches[j].sent = "sending" => j = k

ConsumerInv == ConsumerTypeOK /\ HandlerOK /\ OneFlush

\* The group is between where a process came in and where it is.
CommittedOK == status # "down" /\ committed # 0 => committed \in cameIn .. offset

LEMMA Sealed ==
    ASSUME batches \in Seq(Batch), NEW batch \in Seq(Offsets), NEW reason \in Reasons,
           Seal(batch, reason)
    PROVE  /\ batches' \in Seq(Batch) /\ unsealed' = <<>> /\ unsealed' \in Seq(Offsets)
           /\ aged' = FALSE
           /\ DOMAIN batches' = 1 .. Len(batches) + 1 /\ Len(batches) \in Nat
           /\ batches'[Len(batches) + 1] = [reason |-> reason, leaves |-> batch, sent |-> "sending"]
           /\ \A k \in DOMAIN batches : k \in 1 .. Len(batches) /\ batches'[k] = batches[k]
<1> DEFINE b == [reason |-> reason, leaves |-> batch, sent |-> "sending"]
<1>1. b \in Batch
  BY DEF Batch
<1>2. batches' = Append(batches, b) /\ unsealed' = <<>> /\ aged' = FALSE
  BY DEF Seal
<1> HIDE DEF b
<1>3. batches' \in Seq(Batch) /\ Len(batches) \in Nat /\ DOMAIN batches' = 1 .. Len(batches) + 1
  BY <1>1, <1>2
<1>4. batches'[Len(batches) + 1] = b
  BY <1>2
<1>5. \A k \in DOMAIN batches : k \in 1 .. Len(batches) /\ batches'[k] = batches[k]
  BY <1>2
<1> QED
  BY <1>2, <1>3, <1>4, <1>5 DEF b

\* Both times a handler begins: with a record just received, or one again.
LEMMA HandleKeeps ==
    ASSUME ConsumerInv, status # "down", status' = status, handler \in {"idle", "backoff"},
           offset <= Len(log), log[offset] = "decision", Handle(offset),
           UNCHANGED <<log, committed, deadLetters, cameIn, rejoined>>
    PROVE  ConsumerInv'
<1> DEFINE batch == Append(unsealed, offset)
<1>1. offset \in Offsets /\ offset \in 1 .. Len(log) /\ Len(log) \in Nat
  BY ConsumerConstants DEF ConsumerInv, ConsumerTypeOK, Offsets
<1>2. batch \in Seq(Offsets) /\ batch # <<>>
  <2>1. unsealed \in Seq(Offsets)
    BY DEF ConsumerInv, ConsumerTypeOK
  <2> QED
    BY <1>1, <2>1
<1>3. \A k \in DOMAIN batches : ~ (batches[k].reason = "size" /\ batches[k].sent = "sending")
  BY DEF ConsumerInv, OneFlush
<1> HIDE DEF batch
<1>4. CASE ShouldFlush(batch, aged)
  <2>1. /\ Seal(batch, "size") /\ handler' = "flushing"
        /\ attempt' = attempt + 1 /\ offset' = offset
    BY <1>4 DEF Handle, batch
  <2>2. /\ batches' \in Seq(Batch) /\ unsealed' = <<>> /\ unsealed' \in Seq(Offsets)
        /\ aged' = FALSE
        /\ DOMAIN batches' = 1 .. Len(batches) + 1 /\ Len(batches) \in Nat
        /\ \A k \in DOMAIN batches : k \in 1 .. Len(batches) /\ batches'[k] = batches[k]
    BY <1>2, <2>1, Sealed DEF ConsumerInv, ConsumerTypeOK, Reasons
  <2>3. ConsumerTypeOK'
    BY <2>1, <2>2 DEF ConsumerInv, ConsumerTypeOK
  <2>4. HandlerOK'
    BY <1>1, <2>1, <2>2 DEF ConsumerInv, ConsumerTypeOK, HandlerOK
  <2>5. OneFlush'
    <3>1. \A k \in DOMAIN batches' :
            batches'[k].reason = "size" /\ batches'[k].sent = "sending" => k = Len(batches) + 1
      <4>1. DOMAIN batches = 1 .. Len(batches)
        BY DEF ConsumerInv, ConsumerTypeOK
      <4> QED
        BY <1>3, <2>2, <4>1
    <3> QED
      BY <2>1, <3>1 DEF OneFlush
  <2> QED
    BY <2>3, <2>4, <2>5 DEF ConsumerInv
<1>5. CASE ~ ShouldFlush(batch, aged)
  <2>1. /\ unsealed' = batch /\ aged' = aged /\ batches' = batches
        /\ offset' = offset + 1 /\ handler' = "idle" /\ attempt' = 0
    BY <1>5 DEF Handle, Handled, batch
  <2>2. ConsumerTypeOK'
    BY <1>1, <1>2, <2>1 DEF ConsumerInv, ConsumerTypeOK
  <2>3. HandlerOK'
    BY <1>2, <2>1 DEF HandlerOK
  <2>4. OneFlush'
    BY <1>3, <2>1 DEF OneFlush
  <2> QED
    BY <2>2, <2>3, <2>4 DEF ConsumerInv
<1> QED
  BY <1>4, <1>5

LEMMA ReceiveKeeps == ASSUME ConsumerInv, Receive PROVE ConsumerInv'
<1>1. CASE log[offset] = "decision" /\ Handle(offset)
  BY <1>1, HandleKeeps DEF Receive
<1>2. CASE log[offset] = "other event" /\ Handled /\ UNCHANGED <<unsealed, aged, batches>>
  <2>1. ConsumerTypeOK'
    <3>1. /\ offset' = offset + 1 /\ handler' = "idle" /\ attempt' = 0 /\ offset <= Len(log)
          /\ UNCHANGED <<log, committed, status, unsealed, batches, deadLetters, cameIn, rejoined>>
      BY <1>2 DEF Receive, Handled
    <3> QED
      BY <3>1 DEF ConsumerInv, ConsumerTypeOK
  <2>2. HandlerOK'
    BY <1>2 DEF Receive, Handled, ConsumerInv, HandlerOK
  <2>3. OneFlush'
    BY <1>2 DEF Receive, Handled, ConsumerInv, OneFlush
  <2> QED
    BY <2>1, <2>2, <2>3 DEF ConsumerInv
<1>3. CASE Refuse
  <2>1. ConsumerTypeOK'
    BY <1>3 DEF Receive, Refuse, ConsumerInv, ConsumerTypeOK
  <2>2. HandlerOK'
    BY <1>3 DEF Receive, Refuse, ConsumerInv, HandlerOK
  <2>3. OneFlush'
    BY <1>3 DEF Receive, Refuse, ConsumerInv, OneFlush
  <2> QED
    BY <2>1, <2>2, <2>3 DEF ConsumerInv
<1> QED
  BY <1>1, <1>2, <1>3 DEF Receive

LEMMA RetryKeeps == ASSUME ConsumerInv, Retry PROVE ConsumerInv'
<1>1. offset <= Len(log) /\ attempt > 0 /\ log[offset] = "decision"
  BY DEF Retry, ConsumerInv, HandlerOK
<1> QED
  BY <1>1, HandleKeeps DEF Retry

LEMMA EmittedKeeps ==
    ASSUME ConsumerInv, NEW k \in DOMAIN batches,
           NEW outcome \in {"acknowledged", "unacknowledged", "failed"},
           Emitted(k, outcome)
    PROVE  ConsumerInv'
<1> DEFINE b == [batches[k] EXCEPT !.sent = outcome]
<1>1. batches[k] \in Batch
  BY DEF ConsumerInv, ConsumerTypeOK
<1>2. b \in Batch /\ b.reason = batches[k].reason /\ b.sent = outcome /\ b.leaves = batches[k].leaves
  BY <1>1 DEF Batch
<1>3. batches' = [batches EXCEPT ![k] = b] /\ batches[k].sent = "sending"
  BY DEF Emitted
<1> HIDE DEF b
<1>4. batches' \in Seq(Batch) /\ DOMAIN batches' = DOMAIN batches /\ batches'[k] = b
      /\ \A j \in DOMAIN batches : j # k => batches'[j] = batches[j]
  BY <1>2, <1>3 DEF ConsumerInv, ConsumerTypeOK
<1>5. CASE batches[k].reason # "size"
  <2>1. UNCHANGED <<log, committed, status, offset, handler, attempt, unsealed, aged,
                   deadLetters, cameIn, rejoined>>
    BY <1>5 DEF Emitted
  <2>2. ConsumerTypeOK'
    BY <1>4, <2>1 DEF ConsumerInv, ConsumerTypeOK
  <2>3. HandlerOK'
    BY <1>4, <2>1 DEF ConsumerInv, HandlerOK, Emitted
  <2>4. OneFlush'
    BY <1>2, <1>4, <1>5, <2>1 DEF ConsumerInv, OneFlush
  <2> QED
    BY <2>2, <2>3, <2>4 DEF ConsumerInv
<1>6. CASE batches[k].reason = "size"
  <2>1. /\ handler = "flushing"
        /\ \A j \in DOMAIN batches :
             batches[j].reason = "size" /\ batches[j].sent = "sending" => j = k
    BY <1>3, <1>6 DEF ConsumerInv, OneFlush
  <2>2. OneFlush'
    BY <1>2, <1>4, <2>1 DEF OneFlush
  <2>3. /\ UNCHANGED <<log, committed, status, unsealed, aged,
                   deadLetters, cameIn, rejoined>>
        /\ \/ offset' = offset + 1 /\ handler' = "idle" /\ attempt' = 0
           \/ offset' = offset /\ attempt' = attempt /\ handler' \in {"backoff", "dead-letter"}
    BY <1>6 DEF Emitted, Handled, AfterFailure
  <2>4. /\ offset <= Len(log) /\ attempt > 0 /\ status # "down"
    BY <2>1 DEF ConsumerInv, HandlerOK, Emitted
  <2>5. ConsumerTypeOK'
    BY <1>4, <2>3, <2>4 DEF ConsumerInv, ConsumerTypeOK
  <2>6. HandlerOK'
    BY <2>3, <2>4 DEF ConsumerInv, HandlerOK
  <2> QED
    BY <2>2, <2>5, <2>6 DEF ConsumerInv
<1> QED
  BY <1>5, <1>6

LEMMA SealingKeeps ==
    ASSUME ConsumerInv, status # "down", unsealed # <<>>, NEW reason \in {"age", "shutdown"},
           Seal(unsealed, reason),
           status' \in {"up", "stopping"},
           UNCHANGED <<log, committed, offset, handler, attempt, deadLetters, cameIn, rejoined>>
    PROVE  ConsumerInv'
<1>1. /\ batches' \in Seq(Batch) /\ unsealed' = <<>> /\ unsealed' \in Seq(Offsets) /\ aged' = FALSE
      /\ DOMAIN batches' = 1 .. Len(batches) + 1 /\ Len(batches) \in Nat
      /\ batches'[Len(batches) + 1] = [reason |-> reason, leaves |-> unsealed, sent |-> "sending"]
      /\ \A k \in DOMAIN batches : k \in 1 .. Len(batches) /\ batches'[k] = batches[k]
  BY Sealed DEF ConsumerInv, ConsumerTypeOK, Reasons
<1>2. DOMAIN batches = 1 .. Len(batches)
  BY DEF ConsumerInv, ConsumerTypeOK
<1>3. \A k \in DOMAIN batches' :
        batches'[k].reason = "size" => k \in DOMAIN batches /\ batches'[k] = batches[k]
  BY <1>1, <1>2
<1>4. OneFlush'
  BY <1>3 DEF ConsumerInv, OneFlush
<1>5. ConsumerTypeOK'
  BY <1>1 DEF ConsumerInv, ConsumerTypeOK
<1>6. HandlerOK'
  BY <1>1 DEF ConsumerInv, HandlerOK
<1> QED
  BY <1>4, <1>5, <1>6 DEF ConsumerInv

LEMMA RejoinKeeps == ASSUME ConsumerInv, CommittedOK, Rejoin PROVE ConsumerInv'
<1>1. /\ offset' \in 1 .. Len(log) + 1 /\ cameIn' \in 1 .. offset' /\ rejoined' \in BOOLEAN
  BY DEF Rejoin, Fetch, CommittedOK, ConsumerInv, ConsumerTypeOK
<1>2. /\ handler = "idle" /\ attempt = 0
      /\ UNCHANGED <<log, committed, status, handler, attempt, unsealed, aged, batches, deadLetters>>
  BY DEF Rejoin, ConsumerInv, HandlerOK
<1>3. ConsumerTypeOK'
  BY <1>1, <1>2 DEF ConsumerInv, ConsumerTypeOK
<1>4. HandlerOK' /\ OneFlush'
  BY <1>2 DEF ConsumerInv, HandlerOK, OneFlush
<1> QED
  BY <1>3, <1>4 DEF ConsumerInv

LEMMA CommittedKeeps ==
    ASSUME ConsumerInv, CommittedOK, [ConsumerNext]_consumerVars
    PROVE  CommittedOK'
<1>1. /\ offset \in Nat /\ cameIn \in Nat /\ cameIn <= offset /\ committed \in Nat /\ Len(log) \in Nat
  BY DEF ConsumerInv, ConsumerTypeOK
<1>2. ASSUME committed' = committed, cameIn' = cameIn, status # "down" \/ status' = "down",
             offset' \in {offset, offset + 1}
      PROVE  CommittedOK'
  BY <1>1, <1>2 DEF CommittedOK
<1>3. CASE Receive \/ Retry
  <2>1. offset' \in {offset, offset + 1}
    BY <1>3 DEF Receive, Retry, Handle, Handled, Refuse
  <2> QED
    BY <1>2, <1>3, <2>1 DEF Receive, Retry
<1>4. CASE DeadLetter
  BY <1>2, <1>4 DEF DeadLetter, Handled
<1>5. CASE Broker
  BY <1>2, <1>5 DEF Broker, Emitted, Handled, AfterFailure
<1>6. CASE Commit
  BY <1>1, <1>6 DEF Commit, CommittedOK
<1>7. CASE Age \/ Tick \/ Terminate
  BY <1>2, <1>7 DEF Age, Tick, Terminate
<1>8. CASE StartUp
  BY <1>1, <1>8 DEF StartUp, Fetch, CommittedOK
<1>9. CASE Rejoin
  BY <1>1, <1>9 DEF Rejoin, Fetch, CommittedOK
<1>10. CASE Crash \/ ShutDown
  BY <1>10 DEF Crash, ShutDown, Gone, CommittedOK
<1>11. CASE Publish \/ UNCHANGED consumerVars
  BY <1>11 DEF Publish, consumerVars, CommittedOK
<1> QED
  BY <1>3, <1>4, <1>5, <1>6, <1>7, <1>8, <1>9, <1>10, <1>11 DEF ConsumerNext, Consumer

LEMMA ConsumerIsInv == ConsumerSpec => [](ConsumerInv /\ CommittedOK)
<1>1. ConsumerInit => ConsumerInv /\ CommittedOK
  <2>1. ConsumerInit => ConsumerInv
    <3> SUFFICES ASSUME ConsumerInit PROVE ConsumerInv
      OBVIOUS
    <3>1. /\ log = <<>> /\ committed = 0 /\ status = "down" /\ offset = 1 /\ handler = "idle"
          /\ attempt = 0 /\ unsealed = <<>> /\ aged = FALSE /\ batches = <<>> /\ deadLetters = {}
          /\ cameIn = 1 /\ rejoined = FALSE
      BY DEF ConsumerInit
    <3>2. ConsumerTypeOK
      <4>1. <<>> \in Seq(Kinds) /\ <<>> \in Seq(Offsets) /\ <<>> \in Seq(Batch) /\ Len(<<>>) = 0
        OBVIOUS
      <4>2. MaxRecords \in Nat
        BY ConsumerConstants
      <4>3. log \in Seq(Kinds) /\ Len(log) = 0 /\ unsealed \in Seq(Offsets) /\ batches \in Seq(Batch)
        BY <3>1, <4>1
      <4>4. committed \in 0 .. Len(log) + 1 /\ offset \in 1 .. Len(log) + 1 /\ cameIn \in 1 .. offset
        BY <3>1, <4>3
      <4>5. /\ Len(log) <= MaxRecords /\ deadLetters \subseteq 1 .. Len(log) /\ attempt \in Nat
            /\ status \in {"down", "up", "stopping"} /\ rejoined \in BOOLEAN
            /\ handler \in {"idle", "flushing", "backoff", "dead-letter"}
        <5>1. deadLetters \subseteq 1 .. Len(log) /\ status \in {"down", "up", "stopping"}
              /\ handler \in {"idle", "flushing", "backoff", "dead-letter"} /\ rejoined \in BOOLEAN
          BY <3>1, Zenon
        <5>2. Len(log) <= MaxRecords
          BY <4>2, <4>3
        <5>3. attempt \in Nat
          BY <3>1
        <5> QED
          BY <5>1, <5>2, <5>3
      <4> QED
        BY <4>3, <4>4, <4>5 DEF ConsumerTypeOK
    <3>3. HandlerOK
      BY <3>1 DEF HandlerOK
    <3>4. OneFlush
      BY <3>1 DEF OneFlush
    <3> QED
      BY <3>2, <3>3, <3>4 DEF ConsumerInv
  <2>2. ConsumerInit => CommittedOK
    BY DEF ConsumerInit, CommittedOK
  <2> QED
    BY <2>1, <2>2
<1>2. ConsumerInv /\ CommittedOK /\ [ConsumerNext]_consumerVars => ConsumerInv'
  <2> SUFFICES ASSUME ConsumerInv, CommittedOK, [ConsumerNext]_consumerVars PROVE ConsumerInv'
    OBVIOUS
  <2>1. ASSUME Gone, log' = log, offset' = offset, cameIn' = cameIn,
               committed' \in 0 .. Len(log) + 1
        PROVE  ConsumerInv'
    <3>1. <<>> \in Seq(Offsets) /\ <<>> \in Seq(Batch)
      OBVIOUS
    <3>2. ConsumerTypeOK'
      BY <2>1, <3>1 DEF Gone, ConsumerInv, ConsumerTypeOK
    <3>3. HandlerOK' /\ OneFlush'
      BY <2>1 DEF Gone, HandlerOK, OneFlush
    <3> QED
      BY <3>2, <3>3 DEF ConsumerInv
  <2>2. CASE Receive
    BY <2>2, ReceiveKeeps
  <2>3. CASE Retry
    BY <2>3, RetryKeeps
  <2>4. CASE DeadLetter
    <3>1. offset <= Len(log)
      BY <2>4 DEF DeadLetter, ConsumerInv, HandlerOK
    <3>2. ConsumerTypeOK'
      BY <2>4, <3>1 DEF DeadLetter, Handled, ConsumerInv, ConsumerTypeOK
    <3>3. HandlerOK'
      BY <2>4 DEF DeadLetter, Handled, ConsumerInv, HandlerOK
    <3>4. OneFlush'
      BY <2>4 DEF DeadLetter, Handled, ConsumerInv, OneFlush
    <3> QED
      BY <3>2, <3>3, <3>4 DEF ConsumerInv
  <2>5. CASE Broker
    BY <2>5, EmittedKeeps DEF Broker
  <2>6. CASE Commit
    BY <2>6 DEF Commit, ConsumerInv, ConsumerTypeOK, HandlerOK, OneFlush
  <2>7. CASE Age
    BY <2>7 DEF Age, ConsumerInv, ConsumerTypeOK, HandlerOK, OneFlush
  <2>8. CASE Tick
    <3>1. unsealed # <<>> /\ status' = status /\ status = "up"
      BY <2>8 DEF Tick, ShouldFlush
    <3> QED
      BY <2>8, <3>1, SealingKeeps DEF Tick
  <2>9. CASE StartUp
    <3>1. ConsumerTypeOK'
      BY <2>9 DEF StartUp, Fetch, ConsumerInv, ConsumerTypeOK
    <3>2. HandlerOK' /\ OneFlush'
      BY <2>9 DEF StartUp, Fetch, ConsumerInv, HandlerOK, OneFlush
    <3> QED
      BY <3>1, <3>2 DEF ConsumerInv
  <2>10. CASE Crash
    BY <2>1, <2>10 DEF Crash, ConsumerInv, ConsumerTypeOK
  <2>11. CASE Terminate
    <3>1. CASE unsealed = <<>>
      BY <2>11, <3>1 DEF Terminate, ConsumerInv, ConsumerTypeOK, HandlerOK, OneFlush
    <3>2. CASE unsealed # <<>>
      BY <2>11, <3>2, SealingKeeps DEF Terminate
    <3> QED
      BY <3>1, <3>2
  <2>12. CASE ShutDown
    BY <2>1, <2>12 DEF ShutDown, ConsumerInv, ConsumerTypeOK
  <2>13. CASE Publish
    <3>1. PICK kind \in Kinds : log' = Append(log, kind)
      BY <2>13 DEF Publish
    <3>2. /\ log' \in Seq(Kinds) /\ Len(log') = Len(log) + 1 /\ Len(log) \in Nat
          /\ \A i \in 1 .. Len(log) : log'[i] = log[i]
      BY <3>1 DEF ConsumerInv, ConsumerTypeOK
    <3>3. ConsumerTypeOK'
      BY <2>13, <3>2, ConsumerConstants DEF Publish, ConsumerInv, ConsumerTypeOK
    <3>4. HandlerOK'
      BY <2>13, <3>2 DEF Publish, ConsumerInv, ConsumerTypeOK, HandlerOK
    <3>5. OneFlush'
      BY <2>13 DEF Publish, ConsumerInv, OneFlush
    <3> QED
      BY <3>3, <3>4, <3>5 DEF ConsumerInv
  <2>14. CASE UNCHANGED consumerVars
    BY <2>14 DEF consumerVars, ConsumerInv, ConsumerTypeOK, HandlerOK, OneFlush
  <2>15. CASE Rejoin
    BY <2>15, RejoinKeeps
  <2> QED
    BY <2>2, <2>3, <2>4, <2>5, <2>6, <2>7, <2>8, <2>9, <2>10, <2>11, <2>12, <2>13, <2>14, <2>15
       DEF ConsumerNext, Consumer
<1>3. ConsumerInv /\ CommittedOK /\ [ConsumerNext]_consumerVars => CommittedOK'
  BY CommittedKeeps
<1> QED
  BY <1>1, <1>2, <1>3, PTL DEF ConsumerSpec
-----------------------------------------------------------------------------
(* The dead letters.                                                       *)

\* A handler fails once at most: the second time its batch is of one leaf,
\* and there is nothing to flush.
FirstTries ==
    BatchSize > 1 /\ MaxAttempts > 1 =>
        /\ handler \in {"flushing", "backoff"} => attempt = 1
        /\ handler = "dead-letter" => log[offset] = "malformed"
        /\ \A i \in deadLetters : log[i] = "malformed"

LEMMA RetriesDoNotFlush ==
    ASSUME ConsumerInv, Retry, BatchSize > 1
    PROVE  handler' = "idle" /\ deadLetters' = deadLetters /\ log' = log
<1> DEFINE batch == Append(unsealed, offset)
<1>1. unsealed = <<>> /\ aged = FALSE
  BY DEF ConsumerInv, HandlerOK, Retry
<1>2. Len(batch) = 1
  BY <1>1
<1>3. ~ ShouldFlush(batch, aged)
  BY <1>1, <1>2, ConsumerConstants DEF ShouldFlush
<1> QED
  BY <1>3 DEF Retry, Handle, Handled

\* No decision becomes a dead letter (apps/anchor, packages/events
\* consumer.ts): whatever the broker does, where a batch has room for more than
\* one leaf and a handler may be tried again.
THEOREM DecisionsAreKept == ConsumerSpec => []DecisionsAreNotDeadLettered
<1>1. ConsumerInit => FirstTries
  BY DEF ConsumerInit, FirstTries
<1>2. ConsumerInv /\ FirstTries /\ [ConsumerNext]_consumerVars => FirstTries'
  <2> SUFFICES ASSUME ConsumerInv, FirstTries, [ConsumerNext]_consumerVars,
                      BatchSize > 1, MaxAttempts > 1
               PROVE  /\ handler' \in {"flushing", "backoff"} => attempt' = 1
                      /\ handler' = "dead-letter" => log'[offset'] = "malformed"
                      /\ \A i \in deadLetters' : log'[i] = "malformed"
    BY DEF FirstTries
  <2> USE DEF FirstTries
  <2>1. CASE Receive
    <3>1. attempt = 0 /\ handler = "idle" /\ UNCHANGED <<log, deadLetters>>
      BY <2>1 DEF Receive, ConsumerInv, HandlerOK
    <3>2. CASE Handle(offset)
      BY <3>1, <3>2 DEF Handle, Handled
    <3>3. CASE Handled \/ Refuse
      BY <3>1, <3>3 DEF Handled, Refuse
    <3> QED
      BY <2>1, <3>2, <3>3 DEF Receive
  <2>2. CASE Retry
    BY <2>2, RetriesDoNotFlush
  <2>3. CASE DeadLetter
    BY <2>3 DEF DeadLetter, Handled
  <2>4. CASE Broker
    <3>1. PICK k \in DOMAIN batches, outcome \in {"acknowledged", "unacknowledged", "failed"} :
            Emitted(k, outcome)
      BY <2>4 DEF Broker
    <3>2. UNCHANGED <<log, deadLetters>>
      BY <3>1 DEF Emitted
    <3>3. CASE batches[k].reason # "size"
      BY <3>1, <3>2, <3>3 DEF Emitted
    <3>4. CASE batches[k].reason = "size"
      <4>1. handler = "flushing" /\ attempt = 1
        BY <3>1, <3>4 DEF ConsumerInv, OneFlush, Emitted
      <4>2. attempt < MaxAttempts
        BY <4>1
      <4> QED
        BY <3>1, <3>2, <3>4, <4>1, <4>2 DEF Emitted, Handled, AfterFailure
    <3> QED
      BY <3>3, <3>4
  <2>5. CASE Commit \/ Age \/ Tick \/ Terminate
    BY <2>5 DEF Commit, Age, Tick, Terminate
  <2>6. CASE StartUp \/ Rejoin
    BY <2>6 DEF StartUp, Rejoin, ConsumerInv, HandlerOK
  <2>7. CASE Crash \/ ShutDown
    BY <2>7 DEF Crash, ShutDown, Gone
  <2>8. CASE Publish
    <3>1. PICK kind \in Kinds : log' = Append(log, kind)
      BY <2>8 DEF Publish
    <3>2. \A i \in 1 .. Len(log) : log'[i] = log[i]
      BY <3>1 DEF ConsumerInv, ConsumerTypeOK
    <3>3. /\ handler # "idle" => offset \in 1 .. Len(log)
          /\ deadLetters \subseteq 1 .. Len(log)
      BY DEF ConsumerInv, ConsumerTypeOK, HandlerOK
    <3> QED
      BY <2>8, <3>2, <3>3 DEF Publish
  <2>9. CASE UNCHANGED consumerVars
    BY <2>9 DEF consumerVars
  <2> QED
    BY <2>1, <2>2, <2>3, <2>4, <2>5, <2>6, <2>7, <2>8, <2>9 DEF ConsumerNext, Consumer
<1>3. FirstTries => DecisionsAreNotDeadLettered
  BY DEF FirstTries, DecisionsAreNotDeadLettered
<1> QED
  BY <1>1, <1>2, <1>3, ConsumerIsInv, PTL DEF ConsumerSpec
-----------------------------------------------------------------------------
(* Arrival order.                                                          *)

\* What ArrivalOrder says of the batches, the open one last.
Ordered(parts) ==
    /\ \A b \in DOMAIN parts : \A i, j \in DOMAIN parts[b] : i < j => parts[b][i] < parts[b][j]
    /\ \A b, c \in DOMAIN parts :
         b < c => \A i \in Range(parts[b]), j \in Range(parts[c]) : i <= j

Members(parts) == UNION {Range(parts[b]) : b \in DOMAIN parts}

Sealeds == [k \in DOMAIN batches |-> batches[k].leaves]

LEMMA MembersAre ==
    ASSUME NEW parts
    PROVE  \A d : d \in Members(parts) <=> \E b \in DOMAIN parts : d \in Range(parts[b])
BY DEF Members

\* A new empty batch changes nothing.
LEMMA OneMoreBatch ==
    ASSUME NEW parts \in Seq(Seq(Nat))
    PROVE  /\ Ordered(parts) => Ordered(Append(parts, <<>>))
           /\ Members(Append(parts, <<>>)) = Members(parts)
<1> DEFINE more == Append(parts, <<>>)
<1>1. /\ Len(parts) \in Nat /\ DOMAIN parts = 1 .. Len(parts)
      /\ DOMAIN more = 1 .. Len(parts) + 1 /\ more[Len(parts) + 1] = <<>>
      /\ \A b \in 1 .. Len(parts) : more[b] = parts[b]
  OBVIOUS
<1>2. DOMAIN <<>> = {} /\ Range(<<>>) = {}
  BY DEF Range
<1> HIDE DEF more
<1>3. \A b \in DOMAIN more : (b \in DOMAIN parts /\ more[b] = parts[b]) \/ more[b] = <<>>
  BY <1>1
<1>4. Ordered(parts) => Ordered(more)
  BY <1>2, <1>3 DEF Ordered
<1>5. \A d : d \in Members(more) <=> d \in Members(parts)
  <2> SUFFICES ASSUME NEW d PROVE d \in Members(more) <=> d \in Members(parts)
    OBVIOUS
  <2>1. ASSUME d \in Members(more) PROVE d \in Members(parts)
    <3>1. PICK b \in DOMAIN more : d \in Range(more[b])
      BY <2>1, MembersAre
    <3>2. b \in DOMAIN parts /\ d \in Range(parts[b])
      BY <1>2, <1>3, <3>1
    <3> QED
      BY <3>2, MembersAre
  <2>2. ASSUME d \in Members(parts) PROVE d \in Members(more)
    <3>1. PICK b \in DOMAIN parts : d \in Range(parts[b])
      BY <2>2, MembersAre
    <3>2. b \in DOMAIN more /\ more[b] = parts[b]
      BY <1>1, <3>1
    <3> QED
      BY <3>1, <3>2, MembersAre
  <2> QED
    BY <2>1, <2>2
<1> QED
  BY <1>4, <1>5 DEF more

\* The next record goes behind all there is.
LEMMA OneMoreLeaf ==
    ASSUME NEW front \in Seq(Seq(Nat)), NEW last \in Seq(Nat), NEW d \in Nat
    PROVE  /\ (/\ Ordered(Append(front, last))
               /\ \A i \in Members(Append(front, last)) : i <= d
               /\ \A i \in Range(last) : i < d) => Ordered(Append(front, Append(last, d)))
           /\ Members(Append(front, Append(last, d))) = Members(Append(front, last)) \cup {d}
<1> DEFINE parts == Append(front, last)
           longer == Append(last, d)
           more == Append(front, longer)
           n == Len(front) + 1
<1>1. /\ Len(last) \in Nat /\ DOMAIN last = 1 .. Len(last)
      /\ DOMAIN longer = 1 .. Len(last) + 1 /\ longer[Len(last) + 1] = d
      /\ \A i \in DOMAIN last : longer[i] = last[i]
      /\ longer \in Seq(Nat)
  OBVIOUS
<1> HIDE DEF longer
<1>2. /\ n \in Nat /\ n >= 1 /\ DOMAIN parts = 1 .. n /\ DOMAIN more = 1 .. n
      /\ parts[n] = last /\ more[n] = longer
      /\ \A b \in 1 .. n : b # n => more[b] = parts[b]
  BY <1>1
<1>3. Range(longer) = Range(last) \cup {d}
  <2>1. DOMAIN longer = DOMAIN last \cup {Len(last) + 1}
    BY <1>1
  <2>2. \A i \in DOMAIN longer : longer[i] \in Range(last) \cup {d}
    BY <1>1, <2>1 DEF Range
  <2>3. d \in Range(longer) /\ Range(last) \subseteq Range(longer)
    BY <1>1, <2>1 DEF Range
  <2> QED
    BY <2>2, <2>3 DEF Range
<1> HIDE DEF parts, more, n
<1>5. ASSUME Ordered(parts), \A i \in Members(parts) : i <= d, \A i \in Range(last) : i < d
      PROVE  Ordered(more)
  <2>4. \A i, j \in DOMAIN longer : i < j => longer[i] < longer[j]
    <3>1. \A i, j \in DOMAIN last : i < j => last[i] < last[j]
      <4>1. n \in DOMAIN parts
        BY <1>2
      <4> QED
        BY <1>2, <1>5, <4>1 DEF Ordered
    <3>2. \A i \in DOMAIN last : last[i] < d
      BY <1>5 DEF Range
    <3> SUFFICES ASSUME NEW i \in DOMAIN longer, NEW j \in DOMAIN longer, i < j
                 PROVE  longer[i] < longer[j]
      OBVIOUS
    <3>3. i \in DOMAIN last /\ longer[i] = last[i]
      BY <1>1
    <3>4. (j \in DOMAIN last /\ longer[j] = last[j]) \/ longer[j] = d
      BY <1>1
    <3> QED
      BY <3>1, <3>2, <3>3, <3>4
  <2>6. \A b \in 1 .. n : b # n => \A i \in Range(more[b]) : i <= d
    BY <1>2, <1>5, MembersAre
  <2>8. \A b \in DOMAIN more : \A i, j \in DOMAIN more[b] : i < j => more[b][i] < more[b][j]
    BY <1>2, <2>4, <1>5 DEF Ordered
  <2>9. \A b, c \in DOMAIN more :
          b < c => \A i \in Range(more[b]), j \in Range(more[c]) : i <= j
    <3> SUFFICES ASSUME NEW b \in DOMAIN more, NEW c \in DOMAIN more, b < c,
                        NEW i \in Range(more[b]), NEW j \in Range(more[c])
                 PROVE  i <= j
      OBVIOUS
    <3>1. b # n /\ b \in 1 .. n /\ c \in 1 .. n /\ more[b] = parts[b]
      BY <1>2
    <3>2. CASE c = n /\ j = d
      BY <2>6, <3>1, <3>2
    <3>3. CASE c # n \/ j # d
      <4>1. j \in Range(parts[c])
        BY <1>2, <1>3, <3>1, <3>3
      <4> QED
        BY <1>2, <1>5, <3>1, <4>1 DEF Ordered
    <3> QED
      BY <3>2, <3>3
  <2> QED
    BY <2>8, <2>9 DEF Ordered
<1>10. \A i : i \in Members(more) <=> i \in Members(parts) \/ i = d
  <2> SUFFICES ASSUME NEW i PROVE i \in Members(more) <=> i \in Members(parts) \/ i = d
    OBVIOUS
  <2>1. ASSUME i \in Members(more) PROVE i \in Members(parts) \/ i = d
    <3>1. PICK b \in DOMAIN more : i \in Range(more[b])
      BY <2>1, MembersAre
    <3>2. b \in DOMAIN parts /\ (i \in Range(parts[b]) \/ i = d)
      BY <1>2, <1>3, <3>1
    <3> QED
      BY <3>2, MembersAre
  <2>2. ASSUME i \in Members(parts) PROVE i \in Members(more)
    <3>1. PICK b \in DOMAIN parts : i \in Range(parts[b])
      BY <2>2, MembersAre
    <3>2. b \in DOMAIN more /\ i \in Range(more[b])
      BY <1>2, <1>3, <3>1
    <3> QED
      BY <3>2, MembersAre
  <2>3. d \in Members(more)
    <3>1. n \in DOMAIN more /\ d \in Range(more[n])
      BY <1>2, <1>3
    <3> QED
      BY <3>1, MembersAre
  <2> QED
    BY <2>1, <2>2, <2>3
<1> QED
  BY <1>5, <1>10 DEF parts, more, longer

LEMMA NamesAreNumbers == Seq(Offsets) \subseteq Seq(Nat)
<1> SUFFICES ASSUME NEW s \in Seq(Offsets) PROVE s \in Seq(Nat)
  OBVIOUS
<1>1. Len(s) \in Nat /\ DOMAIN s = 1 .. Len(s) /\ \A i \in 1 .. Len(s) : s[i] \in Nat
  BY ConsumerConstants DEF Offsets
<1>2. s = [i \in 1 .. Len(s) |-> s[i]]
  OBVIOUS
<1> QED
  BY <1>1, <1>2

LEMMA BatchesAre ==
    ASSUME ConsumerInv
    PROVE  /\ unsealed \in Seq(Nat) /\ batches \in Seq(Batch) /\ DOMAIN batches = 1 .. Len(batches)
           /\ Sealeds \in Seq(Seq(Nat)) /\ Len(Sealeds) = Len(batches)
<1>1. unsealed \in Seq(Offsets) /\ batches \in Seq(Batch)
  BY DEF ConsumerInv, ConsumerTypeOK
<1>3. Seq(Offsets) \subseteq Seq(Nat)
  BY NamesAreNumbers
<1>4. \A k \in 1 .. Len(batches) : batches[k].leaves \in Seq(Offsets)
  <2>1. \A k \in 1 .. Len(batches) : batches[k] \in Batch
    BY <1>1
  <2> QED
    BY <2>1 DEF Batch
<1>5. Sealeds = [k \in 1 .. Len(batches) |-> batches[k].leaves]
  BY <1>1 DEF Sealeds
<1> QED
  BY <1>1, <1>3, <1>4, <1>5

\* The two steps that change what is batched.
LEMMA SealedBatched ==
    ASSUME ConsumerInv, NEW batch \in Seq(Offsets), NEW reason \in Reasons, Seal(batch, reason)
    PROVE  Batched' = Append(Append(Sealeds, batch), <<>>)
<1>1. /\ batches' \in Seq(Batch) /\ unsealed' = <<>>
      /\ DOMAIN batches' = 1 .. Len(batches) + 1 /\ Len(batches) \in Nat
      /\ batches'[Len(batches) + 1] = [reason |-> reason, leaves |-> batch, sent |-> "sending"]
      /\ \A k \in DOMAIN batches : k \in 1 .. Len(batches) /\ batches'[k] = batches[k]
  BY Sealed DEF ConsumerInv, ConsumerTypeOK
<1>2. DOMAIN batches = 1 .. Len(batches)
  BY DEF ConsumerInv, ConsumerTypeOK
<1>3. [k \in DOMAIN batches' |-> batches'[k].leaves] = Append(Sealeds, batch)
  <2>1. Sealeds \in Seq(Seq(Nat)) /\ Len(Sealeds) = Len(batches) /\ batch \in Seq(Nat)
    BY NamesAreNumbers, BatchesAre
  <2>2. \A k \in DOMAIN batches' : batches'[k].leaves = Append(Sealeds, batch)[k]
    BY <1>1, <1>2, <2>1 DEF Sealeds
  <2>3. DOMAIN Append(Sealeds, batch) = DOMAIN batches'
    BY <1>1, <2>1
  <2>4. Append(Sealeds, batch) = [k \in DOMAIN Append(Sealeds, batch) |-> Append(Sealeds, batch)[k]]
    <3>1. Append(Sealeds, batch) \in Seq(Seq(Nat))
      BY <2>1
    <3>2. \A s \in Seq(Seq(Nat)) : s = [k \in DOMAIN s |-> s[k]]
      OBVIOUS
    <3> QED
      BY <3>1, <3>2
  <2> QED
    BY <2>2, <2>3, <2>4
<1> QED
  BY <1>1, <1>3 DEF Batched

LEMMA BatchedIs ==
    ASSUME ConsumerInv
    PROVE  /\ Batched = Append(Sealeds, unsealed)
           /\ Sealeds \in Seq(Seq(Nat)) /\ unsealed \in Seq(Nat) /\ Batched \in Seq(Seq(Nat))
           /\ Range(unsealed) \subseteq Members(Batched)
<1>1. unsealed \in Seq(Nat) /\ Sealeds \in Seq(Seq(Nat))
  BY BatchesAre
<1>3. Batched = Append(Sealeds, unsealed)
  BY DEF Batched, Sealeds
<1>4. Len(Sealeds) + 1 \in DOMAIN Batched /\ Batched[Len(Sealeds) + 1] = unsealed
  BY <1>1, <1>3
<1>5. Batched \in Seq(Seq(Nat))
  BY <1>1, <1>3
<1>6. Range(unsealed) \subseteq Members(Batched)
  BY <1>4, MembersAre
<1> QED
  BY <1>1, <1>3, <1>5, <1>6

\* What a process has batched is what it was given, whoever began the flushes and
\* however they ended, in its order and once, until kafkajs joins the group again;
\* after that nothing of it is missing (ReceiptBatch, apps/anchor).
THEOREM ArrivalOrderHolds == ConsumerSpec => []ArrivalOrder
<1> DEFINE Given == {i \in cameIn .. (IF attempt = 0 THEN offset - 1 ELSE offset) :
                       log[i] = "decision"}
           Held == /\ Given \subseteq Members(Batched)
                   /\ ~rejoined => Ordered(Batched) /\ Members(Batched) \subseteq Given
<1>1. ConsumerInit => ArrivalOrder
  BY DEF ConsumerInit, ArrivalOrder
<1>2. ConsumerInv /\ CommittedOK /\ ArrivalOrder /\ ConsumerInv' /\ [ConsumerNext]_consumerVars => ArrivalOrder'
  <2> SUFFICES ASSUME ConsumerInv, CommittedOK, ConsumerInv', ArrivalOrder, [ConsumerNext]_consumerVars,
                      status' # "down"
               PROVE  Held'
    BY DEF ArrivalOrder, Ordered, Members
  <2>1. status # "down" => Held
    BY DEF ArrivalOrder, Ordered, Members
  <2>2. /\ Batched = Append(Sealeds, unsealed) /\ Batched \in Seq(Seq(Nat))
        /\ Sealeds \in Seq(Seq(Nat)) /\ unsealed \in Seq(Nat)
        /\ Range(unsealed) \subseteq Members(Batched)
    BY BatchedIs
  <2>3. offset \in Nat /\ cameIn \in Nat /\ cameIn <= offset /\ attempt \in Nat
    BY DEF ConsumerInv, ConsumerTypeOK
  <2>4. ASSUME status # "down", handler \in {"idle", "backoff"}, offset <= Len(log),
               log[offset] = "decision", Handle(offset), UNCHANGED <<log, cameIn, rejoined>>
        PROVE  Held'
    <3> DEFINE batch == Append(unsealed, offset)
               longer == Append(Sealeds, batch)
    <3>1. ~rejoined => \A i \in Members(Batched) : i <= offset
      BY <2>1, <2>3, <2>4
    <3>2. ~rejoined => \A i \in Range(unsealed) : i < offset
      <4>1. CASE attempt = 0
        BY <2>1, <2>2, <2>3, <2>4, <4>1
      <4>2. CASE attempt > 0
        BY <4>2 DEF ConsumerInv, HandlerOK, Range
      <4> QED
        BY <2>3, <4>1, <4>2
    <3>3. (~rejoined => Ordered(longer)) /\ Members(longer) = Members(Batched) \cup {offset}
      BY <2>1, <2>2, <2>3, <2>4, <3>1, <3>2, OneMoreLeaf
    <3>4. batch \in Seq(Offsets) /\ longer \in Seq(Seq(Nat))
      <4>1. unsealed \in Seq(Offsets) /\ offset \in Offsets
        BY <2>4, ConsumerConstants DEF ConsumerInv, ConsumerTypeOK, Offsets
      <4> QED
        BY <2>2, <2>3, <4>1
    <3>5. LET given == {i \in cameIn .. offset : log[i] = "decision"}
          IN  given \subseteq Members(longer) /\ (~rejoined => Members(longer) \subseteq given)
      BY <2>1, <2>3, <2>4, <3>3
    <3> HIDE DEF longer, batch
    <3>6. CASE ShouldFlush(batch, aged)
      <4>1. Seal(batch, "size") /\ attempt' = attempt + 1 /\ offset' = offset
        BY <2>4, <3>6 DEF Handle, batch
      <4>2. Batched' = Append(longer, <<>>)
        BY <3>4, <4>1, SealedBatched DEF Reasons, longer
      <4>3. (~rejoined => Ordered(Batched')) /\ Members(Batched') = Members(longer)
        BY <3>3, <3>4, <4>2, OneMoreBatch
      <4> QED
        BY <2>3, <2>4, <3>5, <4>1, <4>3
    <3>7. CASE ~ ShouldFlush(batch, aged)
      <4>1. unsealed' = batch /\ batches' = batches /\ offset' = offset + 1 /\ attempt' = 0
        BY <2>4, <3>7 DEF Handle, Handled, batch
      <4>2. Batched' = longer
        BY <4>1 DEF Batched, Sealeds, longer
      <4> QED
        BY <2>3, <2>4, <3>3, <3>5, <4>1, <4>2
    <3> QED
      BY <3>6, <3>7
  <2>5. ASSUME status # "down", NEW reason \in Reasons, Seal(unsealed, reason),
               UNCHANGED <<log, cameIn, rejoined, offset, attempt>>
        PROVE  Held'
    <3>1. Batched' = Append(Batched, <<>>)
      BY <2>2, <2>5, SealedBatched DEF ConsumerInv, ConsumerTypeOK
    <3>2. (~rejoined => Ordered(Batched')) /\ Members(Batched') = Members(Batched)
      BY <2>1, <2>2, <2>5, <3>1, OneMoreBatch
    <3> QED
      BY <2>1, <2>5, <3>2
  <2>6. ASSUME status # "down", Batched' = Batched, UNCHANGED <<log, cameIn, rejoined, offset, attempt>>
        PROVE  Held'
    BY <2>1, <2>6
  <2>7. ASSUME status # "down", Batched' = Batched, UNCHANGED <<log, cameIn, rejoined>>,
               offset' = offset + 1, attempt' = 0, attempt = 0 => log[offset] # "decision"
        PROVE  Held'
    <3>1. Given' = Given
      BY <2>3, <2>7
    <3> QED
      BY <2>1, <2>7, <3>1
  <2>8. CASE Receive
    <3>1. /\ attempt = 0 /\ status # "down" /\ handler = "idle" /\ offset <= Len(log)
          /\ UNCHANGED <<log, cameIn, rejoined>>
      BY <2>8 DEF Receive, ConsumerInv, HandlerOK
    <3>2. CASE log[offset] = "decision" /\ Handle(offset)
      BY <2>4, <3>1, <3>2
    <3>3. CASE log[offset] = "other event" /\ Handled /\ UNCHANGED <<unsealed, aged, batches>>
      BY <2>7, <3>1, <3>3 DEF Handled, Batched
    <3>4. CASE Refuse
      BY <2>6, <3>1, <3>4 DEF Refuse, Batched
    <3> QED
      BY <2>8, <3>2, <3>3, <3>4 DEF Receive
  <2>9. CASE Retry
    <3>1. /\ status # "down" /\ handler = "backoff" /\ offset <= Len(log)
          /\ log[offset] = "decision" /\ Handle(offset) /\ UNCHANGED <<log, cameIn, rejoined>>
      BY <2>9 DEF Retry, ConsumerInv, HandlerOK
    <3> QED
      BY <2>4, <3>1
  <2>10. CASE DeadLetter
    <3>1. /\ status # "down" /\ Batched' = Batched /\ UNCHANGED <<log, cameIn, rejoined>>
          /\ offset' = offset + 1 /\ attempt' = 0 /\ (attempt = 0 => log[offset] # "decision")
      BY <2>10 DEF DeadLetter, Handled, Batched, ConsumerInv, HandlerOK
    <3> QED
      BY <2>7, <3>1
  <2>11. CASE Broker
    <3>1. PICK k \in DOMAIN batches, outcome \in {"acknowledged", "unacknowledged", "failed"} :
            Emitted(k, outcome)
      BY <2>11 DEF Broker
    <3>2. /\ status # "down" /\ UNCHANGED <<log, cameIn, rejoined, unsealed>>
          /\ batches' = [batches EXCEPT ![k].sent = outcome] /\ batches[k].sent = "sending"
      BY <3>1 DEF Emitted
    <3>3. Batched' = Batched
      <4>1. \A j \in DOMAIN batches : batches[j] \in Batch
        BY DEF ConsumerInv, ConsumerTypeOK
      <4>2. DOMAIN batches' = DOMAIN batches
            /\ \A j \in DOMAIN batches : batches'[j].leaves = batches[j].leaves
        BY <3>2, <4>1 DEF Batch
      <4>3. Sealeds' = Sealeds
        BY <4>2 DEF Sealeds
      <4> QED
        BY <3>2, <4>3 DEF Batched, Sealeds
    <3>4. CASE batches[k].reason # "size" \/ outcome # "acknowledged"
      <4>1. UNCHANGED <<offset, attempt>>
        BY <3>1, <3>4 DEF Emitted, AfterFailure
      <4> QED
        BY <2>6, <3>2, <3>3, <4>1
    <3>5. CASE batches[k].reason = "size" /\ outcome = "acknowledged"
      <4>1. offset' = offset + 1 /\ attempt' = 0
        BY <3>1, <3>5 DEF Emitted, Handled
      <4>2. attempt # 0
        BY <3>2, <3>5 DEF ConsumerInv, OneFlush, HandlerOK
      <4> QED
        BY <2>7, <3>2, <3>3, <4>1, <4>2
    <3> QED
      BY <3>4, <3>5
  <2>12. CASE Commit \/ Age
    BY <2>6, <2>12 DEF Commit, Age, Batched
  <2>13. CASE Tick
    BY <2>5, <2>13 DEF Tick, Reasons
  <2>14. CASE StartUp
    <3>1. /\ unsealed = <<>> /\ batches = <<>> /\ attempt = 0 /\ cameIn' = offset'
          /\ UNCHANGED <<log, attempt, unsealed, batches>>
      BY <2>14 DEF StartUp, ConsumerInv, HandlerOK
    <3>2. offset' \in Nat
      BY DEF ConsumerInv, ConsumerTypeOK
    <3>3. Sealeds = <<>>
      BY <3>1 DEF Sealeds
    <3>4. Batched' = << <<>> >>
      BY <3>1, <3>3 DEF Batched, Sealeds
    <3>5. DOMAIN Batched' = {1} /\ Batched'[1] = <<>>
      BY <3>4
    <3>6. Range(<<>>) = {} /\ DOMAIN <<>> = {}
      BY DEF Range
    <3>7. Ordered(Batched') /\ Members(Batched') = {}
      BY <3>5, <3>6 DEF Ordered, Members
    <3>8. Given' = {}
      BY <3>1, <3>2
    <3> QED
      BY <3>7, <3>8
  <2>15. CASE Crash \/ ShutDown
    BY <2>15 DEF Crash, ShutDown, Gone
  <2>16. CASE Terminate
    <3>1. status # "down" /\ UNCHANGED <<log, cameIn, rejoined, offset, attempt>>
      BY <2>16 DEF Terminate
    <3>2. CASE unsealed = <<>>
      BY <2>6, <2>16, <3>1, <3>2 DEF Terminate, Batched
    <3>3. CASE unsealed # <<>>
      BY <2>5, <2>16, <3>1, <3>3 DEF Terminate, Reasons
    <3> QED
      BY <3>2, <3>3
  <2>17. CASE Publish
    <3>1. PICK kind \in Kinds : log' = Append(log, kind)
      BY <2>17 DEF Publish
    <3>2. \A i \in 1 .. Len(log) : log'[i] = log[i]
      BY <3>1 DEF ConsumerInv, ConsumerTypeOK
    <3>3. /\ status # "down" /\ Batched' = Batched /\ UNCHANGED <<cameIn, rejoined, offset, attempt>>
      BY <2>17 DEF Publish, Batched
    <3>4. /\ offset - 1 <= Len(log) /\ cameIn >= 1 /\ Len(log) \in Nat
          /\ (attempt # 0 => offset <= Len(log))
      BY DEF ConsumerInv, ConsumerTypeOK, HandlerOK
    <3>5. cameIn .. (IF attempt = 0 THEN offset - 1 ELSE offset) \subseteq 1 .. Len(log)
      BY <2>3, <3>4
    <3>6. Given' = Given
      BY <3>2, <3>3, <3>5
    <3> QED
      BY <2>1, <3>3, <3>6
  <2>18. CASE UNCHANGED consumerVars
    BY <2>6, <2>18 DEF consumerVars, Batched
  <2>19. CASE Rejoin
    <3>1. /\ status # "down" /\ attempt = 0 /\ rejoined' = TRUE
          /\ UNCHANGED <<log, attempt, unsealed, batches>>
      BY <2>19 DEF Rejoin, ConsumerInv, HandlerOK
    <3>2. Batched' = Batched
      BY <3>1 DEF Batched
    <3>3. Given' \subseteq Given
      <4>1. CASE committed = 0
        <5>1. cameIn' = offset' /\ offset' \in Nat
          BY <2>19, <4>1 DEF Rejoin, Fetch, ConsumerInv, ConsumerTypeOK
        <5> QED
          BY <3>1, <5>1
      <4>2. CASE committed # 0
        <5>1. cameIn' = cameIn /\ offset' = committed /\ committed \in cameIn .. offset
          BY <2>19, <3>1, <4>2 DEF Rejoin, Fetch, CommittedOK
        <5> QED
          BY <2>3, <3>1, <5>1
      <4> QED
        BY <4>1, <4>2
    <3> QED
      BY <2>1, <3>1, <3>2, <3>3
  <2> QED
    BY <2>8, <2>9, <2>10, <2>11, <2>12, <2>13, <2>14, <2>15, <2>16, <2>17, <2>18, <2>19
       DEF ConsumerNext, Consumer
<1> QED
  BY <1>1, <1>2, ConsumerIsInv, PTL DEF ConsumerSpec
=============================================================================
