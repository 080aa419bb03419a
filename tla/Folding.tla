------------------------------ MODULE Folding ------------------------------
(***************************************************************************)
(* Induction over the natural numbers, and what FoldLeft computes, for any *)
(* operator.  A module that folds with an operator of its own takes this   *)
(* one with INSTANCE ... WITH Op <- that operator.                         *)
(***************************************************************************)
EXTENDS SequencesExt, Integers, WellFoundedInduction, SequenceTheorems, TLAPS

CONSTANT Op(_, _)
-----------------------------------------------------------------------------
\* A set of naturals that is not empty has a least element.
LEMMA LeastNatural ==
    ASSUME NEW S, S \subseteq Nat, S # {}
    PROVE  \E x \in S : \A y \in S : x <= y
<1> DEFINE R == OpToRel(<, Nat)
<1>1. IsWellFoundedOn(R, Nat)
  BY NatLessThanWellFounded
<1>2. R = {ss \in Nat \X Nat : ss[1] < ss[2]}
  BY DEF OpToRel
<1> HIDE DEF R
<1>3. PICK x \in S : \A y \in S : ~ (<<y, x>> \in R)
  BY <1>1, WFMin
<1>4. \A x1, y1 \in Nat : <<y1, x1>> \in R <=> y1 < x1
  BY <1>2
<1>5. \A y \in S : x <= y
  <2> TAKE y \in S
  <2>1. x \in Nat /\ y \in Nat
    OBVIOUS
  <2>2. ~ (y < x)
    BY <1>3, <1>4, <2>1
  <2> QED
    BY <2>1, <2>2
<1> QED
  BY <1>5

\* Induction, of a set instead of a predicate.
THEOREM SetInduction ==
    ASSUME NEW S, 0 \in S, \A n \in Nat : n \in S => n + 1 \in S
    PROVE  Nat \subseteq S
<1> SUFFICES ASSUME Nat \ S # {} PROVE FALSE
  OBVIOUS
<1>1. PICK x \in Nat \ S : \A y \in Nat \ S : x <= y
  <2>1. Nat \ S \subseteq Nat
    OBVIOUS
  <2> QED
    BY <2>1, LeastNatural
<1>2. x - 1 \in Nat \ S
  OBVIOUS
<1> QED
  BY <1>1, <1>2
-----------------------------------------------------------------------------
\* The values FoldLeft runs through: x[j] is the fold of the first j elements.
IsRun(x, base, seq, n) ==
    /\ x[0] = base
    /\ \A j \in 1 .. n : x[j] = Op(x[j - 1], seq[j])

\* What one call of FoldLeft's inner function adds to the others.
Body(iter, s, base, seq) ==
    IF s = {} THEN base ELSE Op(iter[s \ {Max(s)}], seq[Max(s)])

\* The greatest element of a set of numbers.
LEMMA MaxIs ==
    ASSUME NEW S, NEW m \in S, S \subseteq Int, \A y \in S : m >= y
    PROVE  Max(S) = m
<1>1. Max(S) \in S /\ \A y \in S : Max(S) >= y
  BY DEF Max
<1>2. Max(S) \in Int /\ m \in Int /\ Max(S) >= m /\ m >= Max(S)
  BY <1>1
<1> QED
  BY <1>2

\* FoldLeft's inner function exists, one index after the other.
LEMMA IterationExists ==
    ASSUME NEW base, NEW seq, NEW n \in Nat
    PROVE  \E iter : iter = [s \in SUBSET (1 .. n) |-> Body(iter, s, base, seq)]
<1> DEFINE Good == {k \in Nat : \E iter : iter = [s \in SUBSET (1 .. k) |-> Body(iter, s, base, seq)]}
<1>1. 0 \in Good
  <2> DEFINE iter == [s \in SUBSET (1 .. 0) |-> base]
  <2>1. \A s \in SUBSET (1 .. 0) : Body(iter, s, base, seq) = base
    BY DEF Body
  <2>2. iter = [s \in SUBSET (1 .. 0) |-> Body(iter, s, base, seq)]
    BY <2>1
  <2> QED
    BY <2>2
<1>2. ASSUME NEW k \in Nat, k \in Good PROVE k + 1 \in Good
  <2>1. PICK short : short = [s \in SUBSET (1 .. k) |-> Body(short, s, base, seq)]
    BY <1>2
  <2> DEFINE iter == [s \in SUBSET (1 .. k + 1) |->
                       IF k + 1 \in s THEN Op(short[s \ {k + 1}], seq[k + 1]) ELSE short[s]]
  <2>2. ASSUME NEW s \in SUBSET (1 .. k + 1), k + 1 \in s
        PROVE  iter[s] = Body(iter, s, base, seq)
    <3>1. Max(s) = k + 1
      <4>1. s \subseteq Int /\ \A y \in s : k + 1 >= y
        OBVIOUS
      <4> QED
        BY <2>2, <4>1, MaxIs
    <3>2. s \ {k + 1} \in SUBSET (1 .. k + 1) /\ k + 1 \notin s \ {k + 1}
      OBVIOUS
    <3>3. iter[s \ {k + 1}] = short[s \ {k + 1}]
      BY <3>2
    <3>4. s # {}
      BY <2>2
    <3> QED
      BY <2>2, <3>1, <3>3, <3>4 DEF Body
  <2>3. ASSUME NEW s \in SUBSET (1 .. k + 1), k + 1 \notin s
        PROVE  iter[s] = Body(iter, s, base, seq)
    <3>1. s \in SUBSET (1 .. k)
      BY <2>3
    <3>2. iter[s] = short[s]
      BY <2>3
    <3>3. short[s] = Body(short, s, base, seq)
      BY <2>1, <3>1
    <3>4. s \ {Max(s)} \in SUBSET (1 .. k + 1) /\ k + 1 \notin s \ {Max(s)}
      BY <2>3
    <3>5. iter[s \ {Max(s)}] = short[s \ {Max(s)}]
      BY <3>4
    <3> QED
      BY <3>2, <3>3, <3>5 DEF Body
  <2>4. iter = [s \in SUBSET (1 .. k + 1) |-> Body(iter, s, base, seq)]
    <3> HIDE DEF iter
    <3>1. \A s \in SUBSET (1 .. k + 1) : iter[s] = Body(iter, s, base, seq)
      BY <2>2, <2>3
    <3>2. iter = [s \in SUBSET (1 .. k + 1) |-> iter[s]]
      BY DEF iter
    <3> QED
      BY <3>1, <3>2
  <2> HIDE DEF iter
  <2> QED
    BY <2>4
<1> HIDE DEF Good
<1>3. n \in Good
  BY <1>1, <1>2, SetInduction
<1> QED
  BY <1>3 DEF Good

\* FoldLeft is the last value of a run.
THEOREM FoldLeftRuns ==
    ASSUME NEW base, NEW seq, NEW n \in Nat, DOMAIN seq = 1 .. n
    PROVE  \E x : IsRun(x, base, seq, n) /\ FoldLeft(Op, base, seq) = x[n]
<1> DEFINE iter == CHOOSE iter : iter = [s \in SUBSET (1 .. n) |-> Body(iter, s, base, seq)]
<1>1. FoldLeft(Op, base, seq) = iter[1 .. n]
  BY DEF FoldLeft, MapThenFoldSet, Body
<1>2. iter = [s \in SUBSET (1 .. n) |-> Body(iter, s, base, seq)]
  BY IterationExists
<1> HIDE DEF iter
<1> DEFINE x == [j \in 0 .. n |-> iter[1 .. j]]
<1>3. x[0] = base
  <2>1. 1 .. 0 = {} /\ {} \in SUBSET (1 .. n)
    OBVIOUS
  <2>2. iter[{}] = base
    BY <1>2, <2>1 DEF Body
  <2> QED
    BY <2>1, <2>2
<1>4. ASSUME NEW j \in 1 .. n PROVE x[j] = Op(x[j - 1], seq[j])
  <2>1. 1 .. j \in SUBSET (1 .. n) /\ 1 .. j # {}
    <3>1. \A i \in 1 .. j : i \in 1 .. n
      OBVIOUS
    <3>2. j \in 1 .. j
      OBVIOUS
    <3> QED
      BY <3>1, <3>2
  <2>2. Max(1 .. j) = j
    <3>1. j \in 1 .. j /\ 1 .. j \subseteq Int /\ \A y \in 1 .. j : j >= y
      OBVIOUS
    <3> QED
      BY <3>1, MaxIs
  <2>3. (1 .. j) \ {j} = 1 .. j - 1
    OBVIOUS
  <2>4. iter[1 .. j] = Op(iter[1 .. j - 1], seq[j])
    BY <1>2, <2>1, <2>2, <2>3 DEF Body
  <2>5. j - 1 \in 0 .. n /\ j \in 0 .. n
    OBVIOUS
  <2> QED
    BY <2>4, <2>5
<1>5. x[n] = iter[1 .. n]
  OBVIOUS
<1> HIDE DEF x
<1> QED
  BY <1>1, <1>3, <1>4, <1>5 DEF IsRun

\* Two runs over the same elements agree.
LEMMA RunsAgree ==
    ASSUME NEW base, NEW n \in Nat, NEW s, NEW t, \A j \in 1 .. n : s[j] = t[j],
           NEW x, NEW y, IsRun(x, base, s, n), IsRun(y, base, t, n)
    PROVE  x[n] = y[n]
<1> DEFINE Good == {k \in Nat : k <= n => x[k] = y[k]}
<1>1. 0 \in Good
  BY DEF IsRun
<1>2. ASSUME NEW k \in Nat, k \in Good PROVE k + 1 \in Good
  <2> SUFFICES ASSUME k + 1 <= n PROVE x[k + 1] = y[k + 1]
    OBVIOUS
  <2>1. k + 1 \in 1 .. n /\ (k + 1) - 1 = k
    OBVIOUS
  <2>2. x[k + 1] = Op(x[k], s[k + 1]) /\ y[k + 1] = Op(y[k], t[k + 1])
    BY <2>1 DEF IsRun
  <2> QED
    BY <1>2, <2>1, <2>2
<1> HIDE DEF Good
<1>3. n \in Good
  BY <1>1, <1>2, SetInduction
<1> QED
  BY <1>3 DEF Good
-----------------------------------------------------------------------------
\* A fold of nothing is its base, ...
THEOREM FoldLeftEmpty ==
    ASSUME NEW base
    PROVE  FoldLeft(Op, base, <<>>) = base
<1>1. DOMAIN <<>> = 1 .. 0
  OBVIOUS
<1>2. PICK x : IsRun(x, base, <<>>, 0) /\ FoldLeft(Op, base, <<>>) = x[0]
  BY <1>1, FoldLeftRuns
<1> QED
  BY <1>2 DEF IsRun

\* ... and each element is taken in after those before it.
THEOREM FoldLeftPrefix ==
    ASSUME NEW base, NEW S, NEW seq \in Seq(S), NEW k \in 1 .. Len(seq)
    PROVE  FoldLeft(Op, base, SubSeq(seq, 1, k)) =
             Op(FoldLeft(Op, base, SubSeq(seq, 1, k - 1)), seq[k])
<1> DEFINE long == SubSeq(seq, 1, k)
           short == SubSeq(seq, 1, k - 1)
<1>1. /\ DOMAIN long = 1 .. k /\ DOMAIN short = 1 .. k - 1
      /\ \A j \in 1 .. k : long[j] = seq[j]
      /\ \A j \in 1 .. k - 1 : short[j] = seq[j]
  BY SubSeqProperties
<1> HIDE DEF long, short
<1>2. PICK x : IsRun(x, base, long, k) /\ FoldLeft(Op, base, long) = x[k]
  BY <1>1, FoldLeftRuns
<1>3. PICK y : IsRun(y, base, short, k - 1) /\ FoldLeft(Op, base, short) = y[k - 1]
  BY <1>1, FoldLeftRuns
<1>4. IsRun(x, base, long, k - 1)
  BY <1>2 DEF IsRun
<1>5. x[k - 1] = y[k - 1]
  BY <1>1, <1>3, <1>4, RunsAgree
<1>6. x[k] = Op(x[k - 1], long[k])
  BY <1>2 DEF IsRun
<1>7. FoldLeft(Op, base, long) = Op(FoldLeft(Op, base, short), seq[k])
  BY <1>1, <1>2, <1>3, <1>5, <1>6
<1> QED
  BY <1>7 DEF long, short

THEOREM FoldLeftAppend ==
    ASSUME NEW base, NEW S, NEW seq \in Seq(S), NEW e \in S
    PROVE  FoldLeft(Op, base, Append(seq, e)) = Op(FoldLeft(Op, base, seq), e)
<1> DEFINE n == Len(seq) + 1
<1>1. Append(seq, e) \in Seq(S) /\ Len(Append(seq, e)) = n /\ n \in 1 .. n
  OBVIOUS
<1>2. Append(seq, e)[n] = e
  OBVIOUS
<1>3. SubSeq(Append(seq, e), 1, n) = Append(seq, e)
  BY <1>1, SubSeqFull
<1>4. SubSeq(Append(seq, e), 1, n - 1) = seq
  OBVIOUS
<1> DEFINE longer == Append(seq, e)
<1> HIDE DEF n, longer
<1>5. FoldLeft(Op, base, SubSeq(longer, 1, n)) =
        Op(FoldLeft(Op, base, SubSeq(longer, 1, n - 1)), longer[n])
  BY <1>1, FoldLeftPrefix DEF longer
<1> QED
  BY <1>2, <1>3, <1>4, <1>5 DEF longer
=============================================================================
