---------------------------- MODULE Guard_proofs ----------------------------
(***************************************************************************)
(* Theorems about Guard for every program, seed and threshold: types, the  *)
(* lock, the bounds of committed moves, and that it implements             *)
(* AtomicGuard.  And about LiveReads, the pages that read the guard and    *)
(* ask it: what they answer was so while they answered, the probe's        *)
(* projection agrees with the guard's verdict, and what a collection       *)
(* counts, times and labels is what happened in it.                        *)
(***************************************************************************)
EXTENDS Guard, LiveReads, FiniteSetTheorems, SequenceTheorems, TLAPS

\* What an open executeGuarded remembers: it was let in with the lock free,
\* its snapshots are probes of the position the transaction started at, and
\* the events it would restore were themselves within their bounds.
FrameInv ==
    frames # <<>> =>
        LET f == frames[1] IN
        /\ f.saved.lock = 1
        /\ f.snap = Snapshot(f.prog.inv, f.saved.position)
        /\ ~SnapshotReverts(f.prog.inv, f.saved.position)
        /\ \A ev \in f.event : Respects(ev.prog.inv, ev.before, ev.after)

IInv == TypeOK /\ OneGuardedCall /\ FrameInv /\ CommittedMovesRespectBounds
-----------------------------------------------------------------------------
\* A probe that is read returns an integer.
LEMMA ProbeType ==
    ASSUME NEW iv \in Invariant, NEW p \in Position
    PROVE  Probe(iv, p) \in Int
<1>1. MaxUint \in Nat /\ LtvBps \in Nat /\ Bps \in Nat \ {0} /\ Unit \in Nat
  BY PoolConstants
<1>2. p.collateral \in Int /\ p.debt \in Nat
  BY <1>1 DEF Position, Uint
<1>3. Health(p) \in Int
  <2>1. CASE p.debt = 0
    BY <1>1, <2>1 DEF Health
  <2>2. CASE p.debt # 0
    <3>1. p.collateral * LtvBps \in Int
      BY <1>1, <1>2
    <3>2. (p.collateral * LtvBps) \div Bps \in Int
      BY <1>1, <3>1
    <3>3. ((p.collateral * LtvBps) \div Bps) * Unit \in Int
      BY <1>1, <3>2
    <3> QED
      BY <1>2, <2>2, <3>3 DEF Health
  <2> QED
    BY <2>1, <2>2
<1> QED
  BY <1>2, <1>3 DEF Probe

\* The snapshots of a program are a sequence of integers.
LEMMA SnapshotType ==
    ASSUME NEW inv \in Seq(Invariant), NEW p \in Position
    PROVE  Snapshot(inv, p) \in Seq(Int)
<1>1. \A k \in DOMAIN inv : inv[k] \in Invariant
  OBVIOUS
<1>2. \A k \in DOMAIN inv : Probe(inv[k], p) \in Int
  BY <1>1, ProbeType
<1> QED
  BY <1>2 DEF Snapshot

\* A call the pool accepts leads from a position to a position.
LEMMA PoolEffectType ==
    ASSUME NEW c \in Call, c.fn \in PoolFunctions, NEW p \in Position, PoolAccepts(c, p)
    PROVE  PoolEffect(c, p) \in Position
<1>1. MaxUint \in Nat
  BY PoolConstants
<1>2. /\ c.amount \in Nat /\ c.value \in Nat
      /\ p.collateral \in Nat /\ p.debt \in Nat
  BY <1>1 DEF Call, Position, Uint
<1>3. p = [collateral |-> p.collateral, debt |-> p.debt]
  BY DEF Position
<1>4. CASE c.fn = "depositCollateral"
  <2>1. PoolEffect(c, p) = [p EXCEPT !.collateral = @ + c.value]
    BY <1>4 DEF PoolEffect
  <2> QED
    BY <1>1, <1>2, <1>3, <2>1 DEF PoolAccepts, Position, Uint
<1>5. CASE c.fn = "borrowMore"
  <2>1. PoolEffect(c, p) = [collateral |-> p.collateral + c.value,
                            debt |-> p.debt + c.amount]
    BY <1>3, <1>5 DEF PoolEffect
  <2>2. p.collateral + c.value <= MaxUint /\ p.debt + c.amount <= MaxUint
    BY <2>1 DEF PoolAccepts
  <2>3. p.collateral + c.value \in Uint /\ p.debt + c.amount \in Uint
    BY <1>1, <1>2, <2>2 DEF Uint
  <2> QED
    BY <2>1, <2>3 DEF Position
<1>6. CASE c.fn = "repay"
  <2>1. PoolEffect(c, p) = [p EXCEPT !.debt = @ - AtMost(c.amount, @)]
    BY <1>6 DEF PoolEffect
  <2>2. p.debt - AtMost(c.amount, p.debt) \in 0 .. p.debt
    BY <1>2 DEF AtMost
  <2>3. PoolEffect(c, p) = [collateral |-> p.collateral,
                            debt |-> p.debt - AtMost(c.amount, p.debt)]
    BY <1>3, <2>1
  <2>4. p.collateral \in Uint /\ p.debt \in Uint
    BY DEF Position
  <2>5. p.debt - AtMost(c.amount, p.debt) \in Uint
    BY <1>1, <2>2, <2>4 DEF Uint
  <2> QED
    BY <2>3, <2>4, <2>5 DEF Position
<1> QED
  BY <1>4, <1>5, <1>6 DEF PoolFunctions
-----------------------------------------------------------------------------
\* With one frame open, the top frame is the only one and popping it leaves none.
LEMMA OneFrame ==
    ASSUME TypeOK, OneGuardedCall, frames # <<>>
    PROVE  /\ Len(frames) = 1
           /\ Top = frames[1]
           /\ Top \in Frame
           /\ SubSeq(frames, 1, Len(frames) - 1) = <<>>
<1>1. frames \in Seq(Frame) /\ Len(frames) <= 1
  BY DEF TypeOK, OneGuardedCall
<1>2. Len(frames) = 1
  BY <1>1, EmptySeq
<1>3. SubSeq(frames, 1, 0) = <<>>
  BY SubSeqEmpty
<1> QED
  BY <1>1, <1>2, <1>3 DEF Top

\* Replacing the top frame by one that remembers the same keeps what is said
\* of the frames.
LEMMA SetTopKeeps ==
    ASSUME IInv, frames # <<>>, NEW f \in Frame, SetTop(f), lock' = lock,
           f.saved = Top.saved, f.snap = Top.snap,
           f.prog = Top.prog, f.event = Top.event
    PROVE  frames' \in Seq(Frame) /\ OneGuardedCall' /\ FrameInv'
<1>1. Top = frames[1] /\ Len(frames) = 1 /\ frames \in Seq(Frame)
  BY OneFrame DEF IInv, TypeOK
<1>2. frames' = [frames EXCEPT ![1] = f]
  BY <1>1 DEF SetTop
<1>3. frames' \in Seq(Frame) /\ Len(frames') = 1 /\ frames'[1] = f
  BY <1>1, <1>2, ExceptSeq
<1>4. frames' # <<>>
  <2>1. Len(<<>>) # 1
    OBVIOUS
  <2>2. Len(frames') = 1
    BY <1>3
  <2> QED
    BY <2>1, <2>2, Zenon
<1>5. OneGuardedCall'
  BY <1>3, <1>4 DEF IInv, OneGuardedCall
<1>6. FrameInv'
  BY <1>1, <1>3 DEF IInv, FrameInv
<1> QED
  BY <1>3, <1>5, <1>6

\* A revert restores a checkpoint of the invariant.
LEMMA RestoreKeeps ==
    ASSUME IInv, frames # <<>>, Restore(frames[1]), frames' = <<>>
    PROVE  IInv'
<1>1. frames[1] \in Frame
  BY OneFrame DEF IInv
<1>2. TypeOK'
  BY <1>1 DEF Restore, Frame, Checkpoint, TypeOK
<1>3. OneGuardedCall'
  BY DEF IInv, FrameInv, Restore, OneGuardedCall
<1>4. FrameInv'
  BY DEF FrameInv
<1>5. CommittedMovesRespectBounds'
  BY DEF IInv, FrameInv, Restore, CommittedMovesRespectBounds
<1> QED
  BY <1>2, <1>3, <1>4, <1>5 DEF IInv

\* Every revert of the innermost call is one.
LEMMA RevertKeeps ==
    ASSUME IInv, Revert
    PROVE  IInv'
<1>1. frames # <<>> /\ Restore(Top) /\ Pop
  BY DEF Revert
<1>2. Top = frames[1] /\ frames' = <<>>
  BY <1>1, OneFrame DEF IInv, Pop
<1> QED
  BY <1>1, <1>2, RestoreKeeps

\* The initial states satisfy the invariant.
LEMMA InitIInv == Init => IInv
<1> SUFFICES ASSUME Init PROVE IInv
  OBVIOUS
<1>1. TypeOK
  BY GuardConstants DEF Init, TypeOK
<1>2. OneGuardedCall /\ FrameInv /\ CommittedMovesRespectBounds
  BY DEF Init, OneGuardedCall, FrameInv, CommittedMovesRespectBounds
<1> QED
  BY <1>1, <1>2 DEF IInv

\* Every step keeps it.
LEMMA NextIInv == IInv /\ [Next]_vars => IInv'
<1> SUFFICES ASSUME IInv, [Next]_vars PROVE IInv'
  OBVIOUS
<1> USE DEF IInv
<1>1. ASSUME NEW s \in Accounts, NEW wei \in Wei, NEW prog \in Programs,
             ExecuteGuarded(s, wei, prog)
      PROVE  IInv'
  <2>1. prog.inv \in Seq(Invariant)
    BY ProgramsAreArguments DEF Program
  <2>2. frames = <<>>
    BY <1>1 DEF ExecuteGuarded, Admits, OneGuardedCall
  <2> DEFINE f == [sender |-> s, prog |-> prog, snap |-> Snapshot(prog.inv, position),
                   pc |-> 1, callee |-> NoCallee, event |-> event,
                   saved |-> [isExecutor |-> isExecutor, lock |-> lock,
                              position |-> position, eth |-> eth]]
  <2>3. frames' = <<f>>
    BY <1>1, <2>2 DEF ExecuteGuarded
  <2>4. Snapshot(prog.inv, position) \in Seq(Int)
    BY <2>1, SnapshotType DEF TypeOK
  <2>5. f \in Frame
    BY <2>4 DEF TypeOK, Frame, Checkpoint
  <2>6. eth' \in 0 .. MaxEth
    BY <1>1, GuardConstants DEF ExecuteGuarded, TypeOK
  <2>7. TypeOK'
    BY <1>1, <2>3, <2>5, <2>6 DEF ExecuteGuarded, TypeOK
  <2>8. lock' = 2 /\ lock = 1 /\ ~SnapshotReverts(prog.inv, position)
    BY <1>1 DEF ExecuteGuarded, Admits
  <2>9. Len(frames') = 1 /\ frames' # <<>> /\ frames'[1] = f
    <3> HIDE DEF f
    <3> QED
      BY <2>3
  <2>10. OneGuardedCall'
    BY <2>8, <2>9 DEF OneGuardedCall
  <2>11. FrameInv'
    BY <2>8, <2>9 DEF FrameInv, CommittedMovesRespectBounds
  <2>12. CommittedMovesRespectBounds'
    BY <1>1 DEF ExecuteGuarded, CommittedMovesRespectBounds
  <2> QED
    BY <2>7, <2>10, <2>11, <2>12
<1>2. ASSUME CallPool PROVE IInv'
  <2>1. frames # <<>> /\ Top.pc <= Len(Top.prog.calls)
    BY <1>2 DEF CallPool, Executing
  <2>2. Top \in Frame
    BY <2>1, OneFrame
  <2>3. CurrentCall \in Call
    BY <2>1, <2>2, ProgramsAreArguments DEF CurrentCall, Frame, Program
  <2>4. position' \in Position
    BY <1>2, <2>3, PoolEffectType DEF CallPool, CallSucceeds, TypeOK
  <2>5. eth' \in 0 .. MaxEth
    BY <1>2, <2>3, GuardConstants DEF CallPool, CallSucceeds, TypeOK, Call
  <2>6. [Top EXCEPT !.pc = @ + 1] \in Frame
    <3>1. Top.pc + 1 \in Nat \ {0}
      BY <2>2 DEF Frame
    <3> QED
      BY <2>2, <3>1 DEF Frame
  <2>7. frames' \in Seq(Frame) /\ OneGuardedCall' /\ FrameInv'
    BY <1>2, <2>1, <2>2, <2>6, SetTopKeeps DEF CallPool, Frame
  <2> QED
    BY <1>2, <2>4, <2>5, <2>7 DEF CallPool, TypeOK, CommittedMovesRespectBounds
<1>3. ASSUME CallContract PROVE IInv'
  <2>1. frames # <<>> /\ Top.pc <= Len(Top.prog.calls)
    BY <1>3 DEF CallContract, Executing
  <2>2. Top \in Frame
    BY <2>1, OneFrame
  <2>3. CurrentCall \in Call
    BY <2>1, <2>2, ProgramsAreArguments DEF CurrentCall, Frame, Program
  <2>4. eth' \in 0 .. MaxEth
    BY <1>3, <2>3, GuardConstants DEF CallContract, CallSucceeds, TypeOK, Call
  <2>5. [Top EXCEPT !.callee = CurrentCall.fn] \in Frame
    BY <1>3, <2>2 DEF Frame, CallContract
  <2>6. frames' \in Seq(Frame) /\ OneGuardedCall' /\ FrameInv'
    BY <1>3, <2>1, <2>2, <2>5, SetTopKeeps DEF CallContract, Frame
  <2> QED
    BY <1>3, <2>4, <2>6 DEF CallContract, TypeOK, CommittedMovesRespectBounds
<1>4. ASSUME CallFails PROVE IInv'
  BY <1>4, RevertKeeps DEF CallFails
<1>5. ASSUME ContractReturns PROVE IInv'
  <2>1. frames # <<>>
    BY <1>5 DEF ContractReturns
  <2>2. Top \in Frame
    BY <2>1, OneFrame
  <2>3. [Top EXCEPT !.callee = NoCallee, !.pc = @ + 1] \in Frame
    <3>1. Top.pc + 1 \in Nat \ {0}
      BY <2>2 DEF Frame
    <3> QED
      BY <2>2, <3>1 DEF Frame
  <2>4. frames' \in Seq(Frame) /\ OneGuardedCall' /\ FrameInv'
    BY <1>5, <2>1, <2>2, <2>3, SetTopKeeps DEF ContractReturns, Frame
  <2> QED
    BY <1>5, <2>4 DEF ContractReturns, TypeOK, CommittedMovesRespectBounds
<1>6. ASSUME ContractReverts PROVE IInv'
  BY <1>6, RevertKeeps DEF ContractReverts
<1>7. ASSUME Finish PROVE IInv'
  <2>1. frames # <<>> /\ AssertHolds(Top) /\ Pop
    BY <1>7 DEF Finish, Asserting
  <2>2. Top = frames[1] /\ Top \in Frame /\ frames' = <<>>
    BY <2>1, OneFrame DEF Pop
  <2> DEFINE ev == [sender |-> Top.sender, prog |-> Top.prog,
                    before |-> Top.saved.position, after |-> position]
  <2>3. event' = {ev}
    BY <1>7 DEF Finish
  <2>4. ev \in Event
    BY <2>2 DEF Frame, Checkpoint, Event, TypeOK
  <2>5. TypeOK'
    BY <1>7, <2>2, <2>3, <2>4 DEF Finish, TypeOK
  <2>6. OneGuardedCall' /\ FrameInv'
    BY <1>7, <2>2 DEF Finish, OneGuardedCall, FrameInv
  <2>7. /\ Top.snap = Snapshot(Top.prog.inv, Top.saved.position)
        /\ ~SnapshotReverts(Top.prog.inv, Top.saved.position)
    BY <2>1, <2>2 DEF FrameInv
  <2>8. Respects(Top.prog.inv, Top.saved.position, position)
    <3> SUFFICES ASSUME NEW k \in DOMAIN Top.prog.inv
                 PROVE  LET iv == Top.prog.inv[k] IN
                        /\ ~ProbeReverts(iv, position)
                        /\ iv.op \in Relative => ~ProbeReverts(iv, Top.saved.position)
                        /\ ~Broken(iv, Probe(iv, Top.saved.position), Probe(iv, position))
      BY DEF Respects
    <3> DEFINE iv == Top.prog.inv[k]
    <3>1. ~ProbeReverts(iv, position) /\ ~Broken(iv, Top.snap[k], Probe(iv, position))
      BY <2>1 DEF AssertHolds
    <3>2. iv.op \in Relative => /\ ~ProbeReverts(iv, Top.saved.position)
                                /\ Top.snap[k] = Probe(iv, Top.saved.position)
      BY <2>7 DEF SnapshotReverts, Snapshot
    <3>3. iv.op \notin Relative =>
             (Broken(iv, Top.snap[k], Probe(iv, position))
                <=> Broken(iv, Probe(iv, Top.saved.position), Probe(iv, position)))
      BY DEF Broken, Relative
    <3> QED
      BY <3>1, <3>2, <3>3
  <2>9. CommittedMovesRespectBounds'
    BY <2>3, <2>8 DEF CommittedMovesRespectBounds
  <2> QED
    BY <2>5, <2>6, <2>9
<1>8. ASSUME Deny PROVE IInv'
  BY <1>8, RevertKeeps DEF Deny
<1>9. ASSUME OutOfGas PROVE IInv'
  BY <1>9, RestoreKeeps DEF OutOfGas
<1>10. ASSUME NEW s \in Accounts, NEW e \in Accounts, NEW allowed \in BOOLEAN,
              SetExecutor(s, e, allowed)
       PROVE  IInv'
  BY <1>10 DEF SetExecutor, TypeOK, OneGuardedCall, FrameInv, CommittedMovesRespectBounds
<1>11. ASSUME NEW wei \in Wei, Receive(wei) PROVE IInv'
  <2>1. eth' \in 0 .. MaxEth
    BY <1>11, GuardConstants DEF Receive, TypeOK
  <2> QED
    BY <1>11, <2>1 DEF Receive, TypeOK, OneGuardedCall, FrameInv, CommittedMovesRespectBounds
<1>12. ASSUME NEW s \in Accounts, NEW p \in Seeds, Initialize(s, p) PROVE IInv'
  BY <1>12, GuardConstants DEF Initialize, TypeOK, OneGuardedCall, FrameInv, CommittedMovesRespectBounds
<1>13. CASE UNCHANGED vars
  BY <1>13 DEF vars, TypeOK, OneGuardedCall, FrameInv, CommittedMovesRespectBounds
<1> QED
  BY <1>1, <1>2, <1>3, <1>4, <1>5, <1>6, <1>7, <1>8, <1>9, <1>10, <1>11, <1>12, <1>13 DEF Next

\* Every reachable state of the guard satisfies the inductive invariant.
LEMMA Invariance == Spec => []IInv
BY InitIInv, NextIInv, PTL DEF Spec
-----------------------------------------------------------------------------
\* For all programs, accounts and amounts: the types are right, ...
THEOREM TypeCorrect == Spec => []TypeOK
BY Invariance, PTL DEF IInv

\* ... the lock admits one executeGuarded at a time, ...
THEOREM LockHolds == Spec => []OneGuardedCall
BY Invariance, PTL DEF IInv

\* ... and whatever was committed stayed within the bounds it was sent with,
\* measured from the position the transaction found.
THEOREM BoundsHold == Spec => []CommittedMovesRespectBounds
BY Invariance, PTL DEF IInv
-----------------------------------------------------------------------------
(* The refinement of AtomicGuard                                           *)

Moves == INSTANCE Folding WITH Op <- Atomic!Moved

\* AtomicGuard speaks of the pool and of the invariants in the guard's terms.
LEMMA SamePool ==
    ASSUME NEW p, NEW c
    PROVE  Atomic!Moved(p, c) = IF c.fn \in PoolFunctions THEN PoolEffect(c, p) ELSE p
BY DEF Atomic!Moved, PoolFunctions, Atomic!PoolFunctions, PoolEffect, Atomic!PoolEffect,
       AtMost, Atomic!AtMost

LEMMA SameBounds ==
    ASSUME NEW inv, NEW before, NEW after
    PROVE  Atomic!Respects(inv, before, after) <=> Respects(inv, before, after)
BY Zenon DEF Respects, Atomic!Respects, ProbeReverts, Atomic!ProbeReverts, HealthReverts,
             Atomic!HealthReverts, WordsReturned, Atomic!WordsReturned, Relative,
             Atomic!Relative, Broken, Atomic!Broken, Probe, Atomic!Probe, Health,
             Atomic!Health

\* The calls of a program move a position one after the other.
LEMMA AfterNothing ==
    ASSUME NEW p
    PROVE  Atomic!After(<<>>, p) = p
<1>1. Moves!FoldLeft(Atomic!Moved, p, <<>>) = p
  BY Moves!FoldLeftEmpty
<1> QED
  BY <1>1 DEF Atomic!After, Atomic!FoldLeft, Moves!FoldLeft, Atomic!MapThenFoldSet,
              Moves!MapThenFoldSet, Atomic!Max, Moves!Max

LEMMA AfterOneMore ==
    ASSUME NEW calls \in Seq(Call), NEW k \in 1 .. Len(calls), NEW p
    PROVE  Atomic!After(SubSeq(calls, 1, k), p) =
             Atomic!Moved(Atomic!After(SubSeq(calls, 1, k - 1), p), calls[k])
<1>1. Moves!FoldLeft(Atomic!Moved, p, SubSeq(calls, 1, k)) =
        Atomic!Moved(Moves!FoldLeft(Atomic!Moved, p, SubSeq(calls, 1, k - 1)), calls[k])
  BY Moves!FoldLeftPrefix
<1>2. ASSUME NEW s
      PROVE  Atomic!After(s, p) = Moves!FoldLeft(Atomic!Moved, p, s)
  BY DEF Atomic!After, Atomic!FoldLeft, Moves!FoldLeft, Atomic!MapThenFoldSet,
         Moves!MapThenFoldSet, Atomic!Max, Moves!Max
<1> QED
  BY <1>1, <1>2

\* What an open executeGuarded has done: the position is the one it began at,
\* moved by the calls behind it and by nothing else, and only a call of the
\* admin can have changed who may execute.
Progress ==
    frames # <<>> =>
        LET f == frames[1]
            calls == f.prog.calls
        IN  /\ f.pc <= Len(calls) + 1
            /\ f.saved.isExecutor[f.sender]
            /\ position = Atomic!After(SubSeq(calls, 1, f.pc - 1), f.saved.position)
            /\ f.callee # NoCallee => f.pc <= Len(calls) /\ calls[f.pc].fn = f.callee
            /\ isExecutor # f.saved.isExecutor =>
                 \E k \in 1 .. f.pc : k <= Len(calls) /\ calls[k].fn = Admin

\* The calls of the innermost frame are calls.
LEMMA TopCalls ==
    ASSUME TypeOK, OneGuardedCall, frames # <<>>
    PROVE  /\ Top = frames[1] /\ Top \in Frame /\ Len(frames) = 1 /\ frames \in Seq(Frame)
           /\ Top.prog.calls \in Seq(Call) /\ Top.pc \in Nat \ {0}
<1>1. Top = frames[1] /\ Top \in Frame /\ Len(frames) = 1
  BY OneFrame
<1>2. Top.prog \in Programs /\ Top.pc \in Nat \ {0}
  BY <1>1 DEF Frame
<1>3. Top.prog.calls \in Seq(Call)
  BY <1>2, ProgramsAreArguments DEF Program
<1> QED
  BY <1>1, <1>2, <1>3 DEF TypeOK

\* A frame with the next call to make is a frame.
LEMMA NextFrame ==
    ASSUME NEW f \in Frame
    PROVE  [f EXCEPT !.pc = @ + 1] \in Frame /\ [f EXCEPT !.callee = NoCallee, !.pc = @ + 1] \in Frame
<1>1. f.pc + 1 \in Nat \ {0}
  BY DEF Frame
<1> QED
  BY <1>1 DEF Frame

\* With the top frame replaced, the first frame is the new one.
LEMMA SetTopIs ==
    ASSUME TypeOK, OneGuardedCall, frames # <<>>, NEW f \in Frame, SetTop(f)
    PROVE  frames' # <<>> /\ frames'[1] = f
<1>1. Len(frames) = 1 /\ frames \in Seq(Frame)
  BY TopCalls
<1>2. frames' = [frames EXCEPT ![1] = f]
  BY <1>1 DEF SetTop
<1>3. Len(frames') = 1 /\ frames'[1] = f
  BY <1>1, <1>2, ExceptSeq
<1>4. Len(<<>>) # 1
  OBVIOUS
<1> QED
  BY <1>3, <1>4, Zenon

\* A step of the guarded calls: the position moves by the current call, which
\* is now behind.
LEMMA CallMoves ==
    ASSUME IInv, Progress, frames # <<>>, Top.pc <= Len(Top.prog.calls),
           NEW p, p = Atomic!Moved(position, CurrentCall)
    PROVE  p = Atomic!After(SubSeq(Top.prog.calls, 1, Top.pc), Top.saved.position)
<1>1. /\ Top = frames[1] /\ Top.prog.calls \in Seq(Call)
      /\ Top.pc \in 1 .. Len(Top.prog.calls)
  BY TopCalls DEF IInv
<1>2. position = Atomic!After(SubSeq(Top.prog.calls, 1, Top.pc - 1), Top.saved.position)
  BY <1>1 DEF Progress
<1> QED
  BY <1>1, <1>2, AfterOneMore DEF CurrentCall

\* Progress survives what leaves the frame but for pc and callee alone.
LEMMA ProgressInit == Init => Progress
BY DEF Init, Progress

LEMMA ProgressStep ==
    ASSUME IInv, Progress, [Next]_vars
    PROVE  Progress'
<1> USE DEF IInv
<1>1. ASSUME NEW s \in Accounts, NEW wei \in Wei, NEW prog \in Programs,
             ExecuteGuarded(s, wei, prog)
      PROVE  Progress'
  <2>1. frames = <<>> /\ isExecutor[s]
    BY <1>1 DEF ExecuteGuarded, Admits, OneGuardedCall
  <2> DEFINE f == [sender |-> s, prog |-> prog, snap |-> Snapshot(prog.inv, position),
                   pc |-> 1, callee |-> NoCallee, event |-> event,
                   saved |-> [isExecutor |-> isExecutor, lock |-> lock,
                              position |-> position, eth |-> eth]]
  <2>2. frames' = <<f>> /\ position' = position /\ isExecutor' = isExecutor
    BY <1>1, <2>1 DEF ExecuteGuarded
  <2>3. frames'[1] = f
    <3> HIDE DEF f
    <3> QED
      BY <2>2
  <2>4. prog.calls \in Seq(Call)
    BY ProgramsAreArguments DEF Program
  <2>5. SubSeq(prog.calls, 1, 0) = <<>> /\ Len(prog.calls) \in Nat
    BY <2>4, SubSeqEmpty
  <2>6. position = Atomic!After(SubSeq(prog.calls, 1, 1 - 1), position)
    <3>1. SubSeq(prog.calls, 1, 1 - 1) = <<>>
      BY <2>5
    <3>2. Atomic!After(<<>>, position) = position
      BY AfterNothing
    <3> QED
      BY <3>1, <3>2, Zenon
  <2>7. f.pc = 1 /\ f.saved.position = position /\ f.callee = NoCallee /\ f.sender = s /\ f.prog = prog
        /\ f.saved.isExecutor = isExecutor
    OBVIOUS
  <2> HIDE DEF f
  <2> QED
    BY <2>1, <2>2, <2>3, <2>5, <2>6, <2>7 DEF Progress
<1>2. ASSUME CallPool PROVE Progress'
  <2>1. frames # <<>> /\ Top.pc <= Len(Top.prog.calls) /\ Top.callee = NoCallee
        /\ CurrentCall.fn \in PoolFunctions
    BY <1>2 DEF CallPool, Executing
  <2>2. /\ Top = frames[1] /\ Top \in Frame /\ Top.prog.calls \in Seq(Call)
        /\ Top.pc \in Nat \ {0}
    BY <2>1, TopCalls
  <2> DEFINE f == [Top EXCEPT !.pc = @ + 1]
  <2>3. f \in Frame
    BY <2>2, NextFrame
  <2>4. /\ f.pc = Top.pc + 1 /\ f.prog = Top.prog /\ f.saved = Top.saved
        /\ f.sender = Top.sender /\ f.callee = Top.callee
    BY <2>2 DEF Frame
  <2>5. frames'[1] = f
    BY <1>2, <2>1, <2>3, SetTopIs DEF CallPool
  <2>6. position' = Atomic!Moved(position, CurrentCall)
    BY <1>2, <2>1, SamePool DEF CallPool
  <2>7. position' = Atomic!After(SubSeq(Top.prog.calls, 1, Top.pc), Top.saved.position)
    BY <2>1, <2>6, CallMoves
  <2>8. isExecutor' = isExecutor
    BY <1>2 DEF CallPool
  <2>9. (Top.pc + 1) - 1 = Top.pc /\ Top.pc + 1 <= Len(Top.prog.calls) + 1
    BY <2>1, <2>2, SMTT(30)
  <2>10. isExecutor # Top.saved.isExecutor =>
             \E k \in 1 .. Top.pc + 1 : k <= Len(Top.prog.calls) /\ Top.prog.calls[k].fn = Admin
    BY <2>1, <2>2 DEF Progress
  <2>11. Top.saved.isExecutor[Top.sender]
    BY <2>1, <2>2 DEF Progress
  <2> HIDE DEF f
  <2> QED
    BY <2>1, <2>4, <2>5, <2>7, <2>8, <2>9, <2>10, <2>11 DEF Progress
<1>3. ASSUME CallContract PROVE Progress'
  <2>1. frames # <<>> /\ Top.pc <= Len(Top.prog.calls)
    BY <1>3 DEF CallContract, Executing
  <2>2. /\ Top = frames[1] /\ Top \in Frame /\ Top.prog.calls \in Seq(Call)
        /\ Top.pc \in Nat \ {0}
    BY <2>1, TopCalls
  <2> DEFINE f == [Top EXCEPT !.callee = CurrentCall.fn]
  <2>3. f \in Frame
    BY <1>3, <2>2 DEF Frame, CallContract
  <2>4. /\ f.pc = Top.pc /\ f.prog = Top.prog /\ f.saved = Top.saved
        /\ f.sender = Top.sender /\ f.callee = Top.prog.calls[Top.pc].fn
    BY <2>2 DEF Frame, CurrentCall
  <2>5. frames'[1] = f
    BY <1>3, <2>1, <2>3, SetTopIs DEF CallContract
  <2>6. isExecutor' = isExecutor /\ position' = position
    BY <1>3 DEF CallContract
  <2> HIDE DEF f
  <2> QED
    BY <2>1, <2>2, <2>4, <2>5, <2>6 DEF Progress
<1>4. ASSUME ContractReturns PROVE Progress'
  <2>1. frames # <<>> /\ Top.callee # NoCallee
    BY <1>4 DEF ContractReturns
  <2>2. /\ Top = frames[1] /\ Top \in Frame /\ Top.prog.calls \in Seq(Call)
        /\ Top.pc \in Nat \ {0}
    BY <2>1, TopCalls
  <2> DEFINE f == [Top EXCEPT !.callee = NoCallee, !.pc = @ + 1]
  <2>3. f \in Frame
    BY <2>2, NextFrame
  <2>4. /\ f.pc = Top.pc + 1 /\ f.prog = Top.prog /\ f.saved = Top.saved
        /\ f.sender = Top.sender /\ f.callee = NoCallee
    BY <2>2 DEF Frame
  <2>5. frames'[1] = f
    BY <1>4, <2>1, <2>3, SetTopIs DEF ContractReturns
  <2>6. Top.pc <= Len(Top.prog.calls) /\ CurrentCall.fn = Top.callee
    BY <2>1, <2>2 DEF Progress, CurrentCall
  <2>7. CurrentCall.fn \notin PoolFunctions
    BY <2>1, <2>2, <2>6, GuardConstants DEF Frame
  <2>8. position = Atomic!Moved(position, CurrentCall)
    BY <2>7, SamePool
  <2>9. position = Atomic!After(SubSeq(Top.prog.calls, 1, Top.pc), Top.saved.position)
    BY <2>1, <2>6, <2>8, CallMoves
  <2>10. isExecutor' = isExecutor /\ position' = position
    BY <1>4 DEF ContractReturns
  <2>11. (Top.pc + 1) - 1 = Top.pc /\ Top.pc + 1 <= Len(Top.prog.calls) + 1
    BY <2>2, <2>6
  <2>12. isExecutor # Top.saved.isExecutor =>
             \E k \in 1 .. Top.pc + 1 : k <= Len(Top.prog.calls) /\ Top.prog.calls[k].fn = Admin
    BY <2>1, <2>2 DEF Progress
  <2>13. Top.saved.isExecutor[Top.sender]
    BY <2>1, <2>2 DEF Progress
  <2> HIDE DEF f
  <2> QED
    BY <2>4, <2>5, <2>9, <2>10, <2>11, <2>12, <2>13 DEF Progress
<1>5. ASSUME NEW s \in Accounts, NEW e \in Accounts, NEW allowed \in BOOLEAN,
             SetExecutor(s, e, allowed), frames # <<>>
      PROVE  Progress'
  <2>1. /\ Top = frames[1] /\ Top \in Frame /\ Top.prog.calls \in Seq(Call)
        /\ Top.pc \in Nat \ {0}
    BY <1>5, TopCalls
  <2>2. Top.callee = Admin /\ frames' = frames /\ position' = position
    BY <1>5 DEF SetExecutor, Runs
  <2>3. Top.callee # NoCallee
    BY <2>2, NoCalleeIsNoAccount, GuardConstants
  <2>4. Top.pc <= Len(Top.prog.calls) /\ Top.prog.calls[Top.pc].fn = Admin
    BY <1>5, <2>1, <2>2, <2>3 DEF Progress
  <2>5. \E k \in 1 .. Top.pc : k <= Len(Top.prog.calls) /\ Top.prog.calls[k].fn = Admin
    BY <2>1, <2>4
  <2> QED
    BY <1>5, <2>1, <2>2, <2>5 DEF Progress
<1>6. ASSUME NEW s \in Accounts, NEW p \in Seeds, Initialize(s, p), frames # <<>>
      PROVE  FALSE
  <2>1. Top.callee = PoolOwner /\ Top \in Frame
    BY <1>6, TopCalls DEF Initialize, Runs
  <2> QED
    BY <2>1, NoCalleeIsNoAccount, GuardConstants DEF Frame
<1>7. ASSUME frames' = <<>> PROVE Progress'
  BY <1>7 DEF Progress
<1>8. ASSUME UNCHANGED <<frames, position, isExecutor>> PROVE Progress'
  BY <1>8 DEF Progress
<1>9. ASSUME Revert \/ Finish \/ OutOfGas PROVE frames' = <<>>
  BY <1>9, OneFrame DEF Revert, Finish, OutOfGas, Asserting, Pop
<1>10. CASE CallFails \/ ContractReverts \/ Deny
  BY <1>7, <1>9, <1>10 DEF CallFails, ContractReverts, Deny
<1>11. ASSUME NEW s \in Accounts, NEW e \in Accounts, NEW allowed \in BOOLEAN,
              SetExecutor(s, e, allowed), frames = <<>>
       PROVE  Progress'
  BY <1>7, <1>11 DEF SetExecutor
<1>12. ASSUME NEW s \in Accounts, NEW p \in Seeds, Initialize(s, p) PROVE Progress'
  BY <1>6, <1>7, <1>12 DEF Initialize
<1>13. ASSUME NEW wei \in Wei, Receive(wei) PROVE Progress'
  BY <1>8, <1>13 DEF Receive
<1>14. CASE UNCHANGED vars
  BY <1>8, <1>14 DEF vars
<1> QED
  BY <1>1, <1>2, <1>3, <1>4, <1>5, <1>7, <1>9, <1>10, <1>11, <1>12, <1>13, <1>14 DEF Next
-----------------------------------------------------------------------------
\* What the chain saw when the transaction began is all an observer sees while
\* it runs, so its steps are stutters: those that keep the saved checkpoint ...
LEMMA RunningStutters ==
    ASSUME frames # <<>>, frames' # <<>>, frames'[1].saved = frames[1].saved,
           frames'[1].event = frames[1].event
    PROVE  UNCHANGED <<Settled, SettledExecutors, SettledEvent>>
BY DEF Settled, SettledExecutors, SettledEvent

\* ... and those that go back to it.
LEMMA RevertStutters ==
    ASSUME frames # <<>>, Restore(frames[1]), frames' = <<>>
    PROVE  UNCHANGED <<Settled, SettledExecutors, SettledEvent>>
BY DEF Settled, SettledExecutors, SettledEvent, Restore

\* The end of a guarded call is the abstract step.
LEMMA FinishExecutes ==
    ASSUME IInv, Progress, Finish
    PROVE  Atomic!Next
<1> USE DEF IInv
<1> DEFINE f == frames[1]
<1>1. frames # <<>> /\ AssertHolds(Top) /\ Top.callee = NoCallee /\ Top.pc > Len(Top.prog.calls)
  BY DEF Finish, Asserting
<1>2. /\ Top = f /\ Top \in Frame /\ Top.prog.calls \in Seq(Call) /\ Top.pc \in Nat \ {0}
  BY <1>1, TopCalls
<1>3. frames' = <<>> /\ position' = position /\ isExecutor' = isExecutor
  BY <1>1, OneFrame DEF Finish, Pop
<1>4. f.pc = Len(f.prog.calls) + 1
  BY <1>1, <1>2 DEF Progress
<1>5. SubSeq(f.prog.calls, 1, f.pc - 1) = f.prog.calls
  BY <1>2, <1>4
<1>6. position = Atomic!After(f.prog.calls, f.saved.position)
  BY <1>1, <1>5 DEF Progress
<1>7. f.sender \in Accounts /\ f.prog \in Programs
      /\ f.saved.isExecutor \in [Accounts -> BOOLEAN]
  BY <1>2 DEF Frame, Checkpoint
<1>8. f.saved.isExecutor[f.sender]
  BY <1>1 DEF Progress
<1>9. event' = {[sender |-> f.sender, prog |-> f.prog,
                 before |-> f.saved.position, after |-> position]}
  BY <1>2 DEF Finish
<1>10. Respects(f.prog.inv, f.saved.position, position)
  <2>1. CommittedMovesRespectBounds'
    BY NextIInv DEF Next
  <2> QED
    BY <1>9, <2>1 DEF CommittedMovesRespectBounds
<1>11. /\ Settled = f.saved.position /\ Settled' = position
       /\ SettledExecutors = f.saved.isExecutor /\ SettledExecutors' = isExecutor
       /\ SettledEvent' = event'
  BY <1>1, <1>3 DEF Settled, SettledExecutors, SettledEvent
<1>12. isExecutor = f.saved.isExecutor
       \/ /\ \E k \in DOMAIN f.prog.calls : f.prog.calls[k].fn = Admin
          /\ isExecutor \in [Accounts -> BOOLEAN]
  BY <1>1, <1>2 DEF Progress, TypeOK
<1> HIDE DEF f
<1>13. Atomic!Execute(f.sender, f.prog)
  BY <1>6, <1>8, <1>9, <1>10, <1>11, <1>12, SameBounds DEF Atomic!Execute
<1> QED
  BY <1>7, <1>13 DEF Atomic!Next

\* Every step of the guard is one of AtomicGuard or a stutter.
LEMMA StepRefines ==
    ASSUME IInv, Progress, [Next]_vars
    PROVE  [Atomic!Next]_(Atomic!vars)
<1> USE DEF IInv
<1> DEFINE Stutter == UNCHANGED <<Settled, SettledExecutors, SettledEvent>>
<1>1. ASSUME Stutter PROVE UNCHANGED Atomic!vars
  BY <1>1 DEF Atomic!vars
<1>2. ASSUME NEW s \in Accounts, NEW wei \in Wei, NEW prog \in Programs,
             ExecuteGuarded(s, wei, prog)
      PROVE  Stutter
  <2>1. frames = <<>>
    BY <1>2 DEF ExecuteGuarded, Admits, OneGuardedCall
  <2> DEFINE f == [sender |-> s, prog |-> prog, snap |-> Snapshot(prog.inv, position),
                   pc |-> 1, callee |-> NoCallee, event |-> event,
                   saved |-> [isExecutor |-> isExecutor, lock |-> lock,
                              position |-> position, eth |-> eth]]
  <2>2. frames' = <<f>>
    BY <1>2, <2>1 DEF ExecuteGuarded
  <2>3. frames' # <<>> /\ frames'[1] = f
    <3> HIDE DEF f
    <3> QED
      BY <2>2
  <2>4. /\ f.saved.position = position /\ f.saved.isExecutor = isExecutor
        /\ f.event = event
    OBVIOUS
  <2> HIDE DEF f
  <2> QED
    BY <2>1, <2>3, <2>4 DEF Settled, SettledExecutors, SettledEvent
<1>3. ASSUME frames # <<>>, NEW g \in Frame, SetTop(g), g.saved = Top.saved, g.event = Top.event
      PROVE  Stutter
  <2>1. frames' # <<>> /\ frames'[1] = g /\ Top = frames[1]
    BY <1>3, SetTopIs, TopCalls
  <2> QED
    BY <1>3, <2>1, RunningStutters
<1>4. CASE CallPool
  <2>1. frames # <<>> /\ SetTop([Top EXCEPT !.pc = @ + 1])
    BY <1>4 DEF CallPool, Executing
  <2>2. [Top EXCEPT !.pc = @ + 1] \in Frame
    BY <2>1, TopCalls, NextFrame
  <2> QED
    BY <1>1, <1>3, <2>1, <2>2, TopCalls DEF Frame
<1>5. CASE CallContract
  <2>1. frames # <<>> /\ SetTop([Top EXCEPT !.callee = CurrentCall.fn])
    BY <1>5 DEF CallContract, Executing
  <2>2. [Top EXCEPT !.callee = CurrentCall.fn] \in Frame
    BY <1>5, <2>1, TopCalls DEF Frame, CallContract
  <2> QED
    BY <1>1, <1>3, <2>1, <2>2, TopCalls DEF Frame
<1>6. CASE ContractReturns
  <2>1. frames # <<>> /\ SetTop([Top EXCEPT !.callee = NoCallee, !.pc = @ + 1])
    BY <1>6 DEF ContractReturns
  <2>2. [Top EXCEPT !.callee = NoCallee, !.pc = @ + 1] \in Frame
    BY <2>1, TopCalls, NextFrame
  <2> QED
    BY <1>1, <1>3, <2>1, <2>2, TopCalls DEF Frame
<1>7. ASSUME Revert PROVE Stutter
  <2>1. frames # <<>> /\ Restore(Top) /\ Pop
    BY <1>7 DEF Revert
  <2> QED
    BY <2>1, OneFrame, RevertStutters DEF Pop
<1>8. CASE CallFails \/ ContractReverts \/ Deny
  BY <1>1, <1>7, <1>8 DEF CallFails, ContractReverts, Deny
<1>9. CASE OutOfGas
  BY <1>1, <1>9, RevertStutters DEF OutOfGas
<1>10. CASE Finish
  BY <1>10, FinishExecutes
<1>11. ASSUME NEW s \in Accounts, NEW e \in Accounts, NEW allowed \in BOOLEAN,
              SetExecutor(s, e, allowed)
       PROVE  Stutter \/ Atomic!SetExecutor
  <2>1. frames' = frames /\ position' = position /\ event' = event
        /\ isExecutor' = [isExecutor EXCEPT ![e] = allowed]
    BY <1>11 DEF SetExecutor
  <2>2. CASE frames # <<>>
    BY <2>1, <2>2, RunningStutters
  <2>3. CASE frames = <<>>
    BY <2>1, <2>3 DEF Atomic!SetExecutor, Settled, SettledExecutors, SettledEvent
  <2> QED
    BY <2>2, <2>3
<1>12. ASSUME NEW wei \in Wei, Receive(wei) PROVE Stutter
  BY <1>12 DEF Receive, Settled, SettledExecutors, SettledEvent
<1>13. ASSUME NEW s \in Accounts, NEW p \in Seeds, Initialize(s, p)
       PROVE  Stutter \/ Atomic!Initialize
  <2>1. frames' = frames /\ position' = p /\ event' = event /\ isExecutor' = isExecutor
    BY <1>13 DEF Initialize
  <2>2. CASE frames # <<>>
    BY <2>1, <2>2, RunningStutters
  <2>3. CASE frames = <<>>
    BY <2>1, <2>3 DEF Atomic!Initialize, Settled, SettledExecutors, SettledEvent
  <2> QED
    BY <2>2, <2>3
<1>14. CASE UNCHANGED vars
  BY <1>1, <1>14 DEF vars, Settled, SettledExecutors, SettledEvent
<1> HIDE DEF Stutter
<1> QED
  BY <1>1, <1>2, <1>4, <1>5, <1>6, <1>8, <1>9, <1>10, <1>11, <1>12, <1>13, <1>14
     DEF Next, Atomic!Next

\* Seen from outside its transactions the guard is AtomicGuard, for all programs
\* and accounts: reentry, caught reverts and exhausted gas included, a guarded
\* call moves the position by exactly its own calls or not at all.
THEOREM Refinement == Spec => ImplementsAtomicGuard
<1>1. Init => Atomic!Init
  BY DEF Init, Atomic!Init, Settled, SettledExecutors, SettledEvent
<1>2. IInv /\ Progress /\ [Next]_vars => Progress'
  BY ProgressStep
<1>3. IInv /\ Progress /\ [Next]_vars => [Atomic!Next]_(Atomic!vars)
  BY StepRefines
<1> QED
  BY <1>1, <1>2, <1>3, ProgressInit, Invariance, PTL
     DEF Spec, ImplementsAtomicGuard, Atomic!Spec
-----------------------------------------------------------------------------
(* LiveReads: the reads of a request, stage by stage.                      *)

StageOf(kind, i) == IF i \in 1 .. Len(Stages(kind)) THEN Stages(kind)[i] ELSE {}

LEMMA ExecutorStages ==
    \A k \in {"readyz", "health", "overview", "metrics"} :
        /\ Len(Stages(k)) = (IF k = "readyz" THEN 2 ELSE IF k = "metrics" THEN 4 ELSE 3)
        /\ StageOf(k, 1) = {"wallet"} /\ StageOf(k, 2) = {"isExecutor"}
        /\ k # "readyz" => StageOf(k, 3) = {"list"}
        /\ k = "metrics" => StageOf(k, 4) = {"anchors"}
<1>1. Len(ExecutorInfo) = 2 /\ ExecutorInfo[1] = {"wallet"} /\ ExecutorInfo[2] = {"isExecutor"}
  BY DEF ExecutorInfo
<1>2. LET s == ExecutorInfo \o <<{"list"}>> IN
      Len(s) = 3 /\ s[1] = {"wallet"} /\ s[2] = {"isExecutor"} /\ s[3] = {"list"}
  BY DEF ExecutorInfo
<1>3. LET s == ExecutorInfo \o <<{"list"}, {"anchors"}>> IN
      Len(s) = 4 /\ s[1] = {"wallet"} /\ s[2] = {"isExecutor"} /\ s[3] = {"list"} /\ s[4] = {"anchors"}
  BY DEF ExecutorInfo
<1>4. /\ Stages("readyz") = ExecutorInfo
      /\ Stages("health") = ExecutorInfo \o <<{"list"}>>
      /\ Stages("overview") = ExecutorInfo \o <<{"list"}>>
      /\ Stages("metrics") = ExecutorInfo \o <<{"list"}, {"anchors"}>>
  BY DEF Stages
<1> TAKE k \in {"readyz", "health", "overview", "metrics"}
<1>5. CASE k = "readyz"
  BY <1>1, <1>4, <1>5 DEF StageOf
<1>6. CASE k \in {"health", "overview"}
  <2> DEFINE s == ExecutorInfo \o <<{"list"}>>
  <2>1. Stages(k) = s
    BY <1>4, <1>6
  <2> HIDE DEF s
  <2> QED
    BY <1>2, <1>6, <2>1 DEF StageOf, s
<1>7. CASE k = "metrics"
  <2> DEFINE s == ExecutorInfo \o <<{"list"}, {"anchors"}>>
  <2>1. Stages(k) = s
    BY <1>4, <1>7
  <2>2. Len(s) = 4 /\ s[1] = {"wallet"} /\ s[2] = {"isExecutor"} /\ s[3] = {"list"} /\ s[4] = {"anchors"}
    BY <1>3
  <2> HIDE DEF s
  <2> QED
    BY <1>7, <2>1, <2>2 DEF StageOf
<1> QED
  BY <1>5, <1>6, <1>7

LEMMA OtherStages ==
    /\ Len(Stages("guardPage")) = 1 /\ StageOf("guardPage", 1) = {"admin", "configured"}
    /\ Len(Stages("position")) = 1 /\ StageOf("position", 1) = {"position"}
    /\ Len(Stages("probe")) = 2 /\ StageOf("probe", 1) = {"projectSmall", "projectLarge"}
    /\ StageOf("probe", 2) = {"probeSmall", "probeLarge"}
    /\ Len(Stages("collect")) = 2 /\ StageOf("collect", 1) = {"permitted", "refused"}
    /\ StageOf("collect", 2) = {"auth"}
<1>1. /\ Stages("guardPage") = <<{"admin", "configured"}>>
      /\ Stages("position") = <<{"position"}>>
      /\ Stages("probe") = <<{"projectSmall", "projectLarge"}, {"probeSmall", "probeLarge"}>>
      /\ Stages("collect") = <<{"permitted", "refused"}, {"auth"}>>
  BY DEF Stages
<1>2. Len(Stages("guardPage")) = 1 /\ StageOf("guardPage", 1) = {"admin", "configured"}
  BY <1>1 DEF StageOf
<1>3. Len(Stages("position")) = 1 /\ StageOf("position", 1) = {"position"}
  BY <1>1 DEF StageOf
<1>4. /\ Len(Stages("probe")) = 2 /\ StageOf("probe", 1) = {"projectSmall", "projectLarge"}
      /\ StageOf("probe", 2) = {"probeSmall", "probeLarge"}
  BY <1>1 DEF StageOf
<1>5. /\ Len(Stages("collect")) = 2 /\ StageOf("collect", 1) = {"permitted", "refused"}
      /\ StageOf("collect", 2) = {"auth"}
  BY <1>1 DEF StageOf
<1> QED
  BY <1>2, <1>3, <1>4, <1>5

LEMMA StagesAre ==
    ASSUME NEW k \in Kinds
    PROVE  /\ Len(Stages(k)) \in 1 .. 4 /\ StageOf(k, 1) # {}
           /\ \A i \in 1 .. Len(Stages(k)) : Stages(k)[i] = StageOf(k, i)
           /\ \A r \in StageOf(k, 1) :
                r \in {"wallet", "admin", "configured", "position", "projectSmall", "projectLarge",
                       "permitted", "refused"}
           /\ \A i \in Nat : \A r \in StageOf(k, i) : i > 1 =>
                \/ r = "isExecutor" /\ "wallet" \in StageOf(k, 1)
                \/ r \in {"list", "anchors", "auth"}
                \/ /\ r \in {"probeSmall", "probeLarge"}
                   /\ {"projectSmall", "projectLarge"} \subseteq StageOf(k, 1)
<1>1. \A i \in 1 .. Len(Stages(k)) : Stages(k)[i] = StageOf(k, i)
  BY DEF StageOf
<1>2. \A i : i \notin 1 .. Len(Stages(k)) => StageOf(k, i) = {}
  BY DEF StageOf
<1>3. CASE k \in {"readyz", "health", "overview", "metrics"}
  <2>1. \A i \in Nat : \A r \in StageOf(k, i) : i > 1 => r \in {"isExecutor", "list", "anchors"}
    <3> SUFFICES ASSUME NEW i \in Nat, NEW r \in StageOf(k, i), i > 1
                 PROVE  r \in {"isExecutor", "list", "anchors"}
      OBVIOUS
    <3>1. i \in 2 .. Len(Stages(k)) /\ Len(Stages(k)) \in 1 .. 4
      BY <1>2, <1>3, ExecutorStages
    <3>2. i = 2 \/ (i = 3 /\ k # "readyz") \/ (i = 4 /\ k = "metrics")
      <4>1. Len(Stages(k)) = (IF k = "readyz" THEN 2 ELSE IF k = "metrics" THEN 4 ELSE 3)
        BY <1>3, ExecutorStages
      <4> QED
        BY <3>1, <4>1
    <3> QED
      BY <1>3, <3>2, ExecutorStages
  <2> QED
    BY <1>1, <1>3, <2>1, ExecutorStages
<1>4. CASE k \in {"guardPage", "position", "probe", "collect"}
  <2>1. \A i \in Nat : \A r \in StageOf(k, i) : i > 1 => i = 2 /\ k \in {"probe", "collect"}
    <3>1. Len(Stages(k)) = (IF k \in {"probe", "collect"} THEN 2 ELSE 1)
      BY <1>4, OtherStages
    <3> QED
      BY <1>2, <3>1
  <2> QED
    BY <1>1, <1>4, <2>1, OtherStages
<1> QED
  BY <1>3, <1>4 DEF Kinds

\* The first stage is never skipped and its reads are its own; whether a later
\* read is skipped is settled by the first stage.
LEMMA FirstStage ==
    ASSUME NEW k \in Kinds, NEW r \in StageOf(k, 1)
    PROVE  (\A i \in Nat : i > 1 => r \notin StageOf(k, i)) /\ \A g : ~ Skipped(r, g)
<1>1. r \in {"wallet", "admin", "configured", "position", "projectSmall", "projectLarge",
             "permitted", "refused"}
  BY StagesAre
<1>2. \A i \in Nat : i > 1 => r \notin StageOf(k, i)
  BY <1>1, StagesAre
<1> QED
  BY <1>1, <1>2 DEF Skipped

LEMMA SkippingIsSettled ==
    ASSUME NEW k \in Kinds, NEW i \in Nat, NEW r \in StageOf(k, i), NEW g, NEW h,
           \A q \in StageOf(k, 1) : g[q] = h[q], Skipped(r, g)
    PROVE  Skipped(r, h)
<1>1. i > 1 \/ i = 1
  BY DEF StageOf
<1>2. CASE i = 1
  BY <1>2, FirstStage
<1>3. CASE i > 1
  <2>1. \/ r = "isExecutor" /\ "wallet" \in StageOf(k, 1)
        \/ r \in {"list", "anchors", "auth"}
        \/ r \in {"probeSmall", "probeLarge"} /\ {"projectSmall", "projectLarge"} \subseteq StageOf(k, 1)
    BY <1>3, StagesAre
  <2> QED
    BY <2>1 DEF Skipped, Threw
<1> QED
  BY <1>1, <1>2, <1>3
-----------------------------------------------------------------------------
(* What holds between the reads.                                           *)

Worlds == [hub : Hubs, rpc : {"up", "erroring", "down"}, executors : SUBSET Wallets,
           anchored : BOOLEAN, position : Positions, store : {"up", "down"}, receipts : Nat]

\* Every answer a read brought was the answer in a world of the request.
ReadIn(g) == \A r \in DOMAIN g : \E w \in seen : g[r] = Read(r, w)

\* The stages up to this one have been read, are being read or are skipped,
\* and what is skipped is not read; when nothing is waited for, no stage is
\* left.
ReadingGoesOn(k, stage, waiting, g) ==
    /\ stage \in 1 .. Len(Stages(k))
    /\ waiting \subseteq StageOf(k, stage)
    /\ stage > 1 => StageOf(k, 1) \subseteq DOMAIN g
    /\ \A r \in waiting \cup DOMAIN g : ~ Skipped(r, g)
    /\ \A r \in DOMAIN g : \E i \in 1 .. stage : r \in StageOf(k, i)
    /\ \A i \in 1 .. stage : \A r \in StageOf(k, i) :
         r \in waiting \cup DOMAIN g \/ (stage > 1 /\ Skipped(r, g))
    /\ waiting = {} => StagesLeft(k, stage, g) = {}

RequestOK ==
    request # Idle =>
        /\ request = [kind |-> request.kind, stage |-> request.stage, waiting |-> request.waiting]
        /\ request.kind \in Kinds
        /\ world \in seen
        /\ reply = NoReply
        /\ ReadIn(got)
        /\ ReadingGoesOn(request.kind, request.stage, request.waiting, got)

\* No collateral is so much that its health factor overflows: it is ether.
CollateralFits ==
    \A p \in Positions :
        /\ p.collateral * LtvBps <= MaxUint
        /\ ((p.collateral * LtvBps) \div Bps) * Unit <= MaxUint

ReadsInv ==
    /\ world \in Worlds
    /\ seen \subseteq Worlds /\ IsFiniteSet(seen)
    /\ RequestOK
    /\ AnswersAreTrue
    /\ CollateralFits => ProjectionsDecide

LEMMA NoReplyIsTrue == reply' = NoReply => AnswersAreTrue' /\ ProjectionsDecide'
BY DEF NoReply, AnswersAreTrue, ProjectionsDecide

LEMMA AskKeeps == ASSUME ReadsInv, NEW kind \in Kinds, Ask(kind) PROVE ReadsInv'
<1>1. world' = world /\ env' = env /\ got' = Nothing /\ seen' = {world} /\ request = Idle
  BY DEF Ask
<1>2. world' \in Worlds /\ seen' \subseteq Worlds /\ IsFiniteSet(seen')
  BY <1>1, FS_Singleton DEF ReadsInv
<1>3. PICK presented \in BOOLEAN :
        IF Refusal(kind, presented) # NoReply
          THEN reply' = Refusal(kind, presented) /\ UNCHANGED request
          ELSE /\ reply' = NoReply
               /\ request' = [kind |-> kind, stage |-> 1, waiting |-> Stages(kind)[1]]
  BY DEF Ask
<1>4. CASE Refusal(kind, presented) # NoReply
  <2>1. reply' = Refusal(kind, presented) /\ request' = Idle
    BY <1>1, <1>3, <1>4
  <2>2. \/ reply' = Unauthorized
        \/ reply' = [kind |-> "guardPage", status |-> 200, says |-> Nothing]
        \/ reply' = [kind |-> "probe", status |-> 200, says |-> Nothing]
        \/ reply' = [kind |-> "position", status |-> 502, says |-> Nothing]
    <3>1. CASE kind = "metrics"
      BY <1>4, <2>1, <3>1 DEF Refusal
    <3>2. CASE kind \in {"guardPage", "probe"}
      BY <1>4, <2>1, <3>2 DEF Refusal
    <3>3. CASE kind = "position"
      BY <1>4, <2>1, <3>3 DEF Refusal
    <3>4. CASE kind \notin {"metrics", "guardPage", "probe", "position"}
      BY <1>4, <3>4 DEF Refusal
    <3> QED
      BY <3>1, <3>2, <3>3, <3>4
  <2>3. AnswersAreTrue'
    BY <2>2 DEF AnswersAreTrue, Unauthorized
  <2>4. ProjectionsDecide'
    BY <2>2 DEF ProjectionsDecide, Unauthorized
  <2> QED
    BY <1>2, <2>1, <2>3, <2>4 DEF ReadsInv, RequestOK
<1>5. CASE Refusal(kind, presented) = NoReply
  <2>1. reply' = NoReply /\ request' = [kind |-> kind, stage |-> 1, waiting |-> Stages(kind)[1]]
    BY <1>3, <1>5
  <2>2. 1 \in 1 .. Len(Stages(kind)) /\ Stages(kind)[1] = StageOf(kind, 1) /\ StageOf(kind, 1) # {}
    BY StagesAre
  <2>3. DOMAIN got' = {}
    BY <1>1 DEF Nothing
  <2>4. ReadingGoesOn(kind, 1, Stages(kind)[1], got')
    BY <2>2, <2>3, FirstStage DEF ReadingGoesOn
  <2>5. ReadingGoesOn(kind, 1, Stages(kind)[1], got)'
    <3>1. env' = env
      BY <1>1
    <3> QED
      BY <2>4, <3>1 DEF ReadingGoesOn, Skipped, StagesLeft, Threw
  <2>6. ReadIn(got)'
    BY <2>3 DEF ReadIn
  <2>7. RequestOK'
    BY <1>1, <2>1, <2>5, <2>6 DEF RequestOK
  <2> QED
    BY <1>2, <2>1, <2>7, NoReplyIsTrue DEF ReadsInv
<1> QED
  BY <1>4, <1>5

LEMMA LeastLeft ==
    ASSUME NEW left, NEW m \in 1 .. 4, left \subseteq 1 .. m, left # {}
    PROVE  \E i \in left : \A j \in left : i <= j
<1>1. CASE 1 \in left
  BY <1>1
<1>2. CASE 1 \notin left /\ 2 \in left
  BY <1>2
<1>3. CASE 1 \notin left /\ 2 \notin left /\ 3 \in left
  BY <1>3
<1>4. CASE 1 \notin left /\ 2 \notin left /\ 3 \notin left /\ 4 \in left
  BY <1>4
<1>5. \E i \in left : i \in {1, 2, 3, 4}
  <2>1. PICK i \in left : i \in 1 .. m
    OBVIOUS
  <2>2. i \in {1, 2, 3, 4}
    BY <2>1
  <2> QED
    BY <2>2
<1> QED
  BY <1>1, <1>2, <1>3, <1>4, <1>5

LEMMA SettledReading ==
    ASSUME env' = env
    PROVE  \A k, stage, waiting, g :
             ReadingGoesOn(k, stage, waiting, g) => ReadingGoesOn(k, stage, waiting, g)'
<1>1. \A r, g : Skipped(r, g)' <=> Skipped(r, g)
  BY DEF Skipped, Threw
<1>2. \A k, stage, g : StagesLeft(k, stage, g)' = StagesLeft(k, stage, g)
  BY <1>1 DEF StagesLeft
<1> QED
  BY <1>1, <1>2 DEF ReadingGoesOn

LEMMA SettledReads ==
    ASSUME env' = env
    PROVE  \A r, w : Read(r, w)' = Read(r, w)
BY DEF Read, UserAnswer, Hub, IsExecutor, ConfiguredExecutor, Listed, AnchorBatches, PositionAnswer,
       Projection, Simulated

LEMMA ReadEndsKeeps ==
    ASSUME ReadsInv, NEW r \in request.waiting, request # Idle, ReadEnds(r)
    PROVE  ReadsInv'
<1> DEFINE k == request.kind
           stage == request.stage
           a == Read(r, world)
           g == [q \in DOMAIN got \cup {r} |-> IF q = r THEN a ELSE got[q]]
           waiting == request.waiting \ {r}
           left == StagesLeft(k, stage, g)
           next == CHOOSE i \in left : \A j \in left : i <= j
           turn == {q \in Stages(k)[next] : ~ Skipped(q, g)}
<1>1. /\ got' = g /\ env' = env /\ world' = world /\ reply' = reply /\ seen' = seen
      /\ request' = IF waiting # {} \/ left = {} THEN [request EXCEPT !.waiting = waiting]
                    ELSE [request EXCEPT !.stage = next, !.waiting = turn]
  BY DEF ReadEnds
<1>2. /\ request = [kind |-> k, stage |-> stage, waiting |-> request.waiting]
      /\ k \in Kinds /\ world \in seen /\ reply = NoReply /\ ReadIn(got)
      /\ ReadingGoesOn(k, stage, request.waiting, got)
  BY DEF ReadsInv, RequestOK
<1>3. ReadIn(g)
  <2>1. \A q \in DOMAIN g : g[q] = (IF q = r THEN a ELSE got[q]) /\ (q # r => q \in DOMAIN got)
    OBVIOUS
  <2>2. DOMAIN g = DOMAIN got \cup {r}
    OBVIOUS
  <2> HIDE DEF g
  <2> QED
    BY <1>2, <2>1, <2>2 DEF ReadIn
<1>4. r \in StageOf(k, stage) /\ stage \in 1 .. Len(Stages(k)) /\ Len(Stages(k)) \in 1 .. 4
  BY <1>2, StagesAre DEF ReadingGoesOn
\* What this read brings settles nothing that was settled.
<1>5. \A i \in Nat : \A q \in StageOf(k, i) : stage > 1 => (Skipped(q, got) <=> Skipped(q, g))
  <2> SUFFICES ASSUME NEW i \in Nat, NEW q \in StageOf(k, i), stage > 1
               PROVE  Skipped(q, got) <=> Skipped(q, g)
    OBVIOUS
  <2>1. \A p \in StageOf(k, 1) : p \in DOMAIN got /\ p # r
    BY <1>2, <1>4, FirstStage DEF ReadingGoesOn
  <2>2. \A p \in StageOf(k, 1) : got[p] = g[p]
    BY <2>1
  <2>3. \A p \in StageOf(k, 1) : g[p] = got[p]
    BY <2>2
  <2> HIDE DEF g
  <2>4. Skipped(q, got) => Skipped(q, g)
    BY <1>2, <2>2, SkippingIsSettled
  <2>5. Skipped(q, g) => Skipped(q, got)
    BY <1>2, <2>3, SkippingIsSettled
  <2> QED
    BY <2>4, <2>5
<1>6. DOMAIN g = DOMAIN got \cup {r}
  OBVIOUS
<1> HIDE DEF g
\* The conjuncts of ReadingGoesOn that hold of g whatever is waited for next.
<1>7. /\ \A q \in DOMAIN g : \E i \in 1 .. stage : q \in StageOf(k, i)
      /\ \A q \in waiting \cup DOMAIN g : ~ Skipped(q, g)
      /\ stage > 1 => StageOf(k, 1) \subseteq DOMAIN g
      /\ \A i \in 1 .. stage : \A q \in StageOf(k, i) :
           q \in waiting \cup DOMAIN g \/ (stage > 1 /\ Skipped(q, g))
  <2>1. \A q \in DOMAIN g : \E i \in 1 .. stage : q \in StageOf(k, i)
    BY <1>2, <1>4, <1>6 DEF ReadingGoesOn
  <2>2. \A q \in waiting \cup DOMAIN g : q \in request.waiting \cup DOMAIN got
    BY <1>6
  <2>3. \A q \in waiting \cup DOMAIN g : ~ Skipped(q, g)
    <3> SUFFICES ASSUME NEW q \in waiting \cup DOMAIN g PROVE ~ Skipped(q, g)
      OBVIOUS
    <3>1. PICK i \in 1 .. stage : q \in StageOf(k, i)
      BY <1>2, <1>4, <2>1 DEF ReadingGoesOn
    <3>2. CASE stage > 1
      BY <1>2, <1>4, <1>5, <2>2, <3>1, <3>2 DEF ReadingGoesOn
    <3>3. CASE stage = 1
      BY <1>2, <1>4, <3>1, <3>3, FirstStage
    <3> QED
      BY <1>4, <3>2, <3>3
  <2>4. stage > 1 => StageOf(k, 1) \subseteq DOMAIN g
    BY <1>2, <1>6 DEF ReadingGoesOn
  <2>5. \A i \in 1 .. stage : \A q \in StageOf(k, i) :
           q \in waiting \cup DOMAIN g \/ (stage > 1 /\ Skipped(q, g))
    <3> SUFFICES ASSUME NEW i \in 1 .. stage, NEW q \in StageOf(k, i)
                 PROVE  q \in waiting \cup DOMAIN g \/ (stage > 1 /\ Skipped(q, g))
      OBVIOUS
    <3>1. q \in request.waiting \cup DOMAIN got \/ (stage > 1 /\ Skipped(q, got))
      BY <1>2 DEF ReadingGoesOn
    <3>2. i \in Nat
      BY <1>4
    <3> QED
      BY <1>5, <1>6, <3>1, <3>2
  <2> QED
    BY <2>1, <2>3, <2>4, <2>5
<1>8. request' = [kind |-> k, stage |-> request'.stage, waiting |-> request'.waiting]
      /\ ReadingGoesOn(k, request'.stage, request'.waiting, g)
  <2>1. CASE waiting # {} \/ left = {}
    <3>1. request' = [kind |-> k, stage |-> stage, waiting |-> waiting]
      BY <1>1, <1>2, <2>1
    <3>2. ReadingGoesOn(k, stage, waiting, g)
      BY <1>2, <1>4, <1>7, <2>1 DEF ReadingGoesOn
    <3> QED
      BY <3>1, <3>2
  <2>2. CASE waiting = {} /\ left # {}
    <3>1. request' = [kind |-> k, stage |-> next, waiting |-> turn]
      BY <1>1, <1>2, <2>2
    <3>2. left = {i \in stage + 1 .. Len(Stages(k)) : \E q \in StageOf(k, i) : ~ Skipped(q, g)}
      BY <1>2, <1>4, StagesAre DEF StagesLeft
    <3>3. next \in left /\ \A j \in left : next <= j
      <4>1. left \subseteq 1 .. Len(Stages(k))
        BY <1>4, <3>2
      <4>2. \E i \in left : \A j \in left : i <= j
        BY <1>4, <2>2, <4>1, LeastLeft
      <4> QED
        BY <4>2
    <3> HIDE DEF next, left
    <3>4. next \in stage + 1 .. Len(Stages(k)) /\ \E q \in StageOf(k, next) : ~ Skipped(q, g)
      BY <3>2, <3>3
    <3>5. turn = {q \in StageOf(k, next) : ~ Skipped(q, g)}
      BY <1>2, <1>4, <3>4, StagesAre
    <3> HIDE DEF turn
    <3>6. next > 1 /\ next \in 1 .. Len(Stages(k)) /\ turn # {} /\ turn \subseteq StageOf(k, next)
      BY <1>4, <3>4, <3>5
    <3>7. StageOf(k, 1) \subseteq DOMAIN g
      BY <1>2, <1>4, <1>7, <2>2, FirstStage
    <3>8. \A q \in turn \cup DOMAIN g : ~ Skipped(q, g)
      BY <1>7, <3>5
    <3>9. \A q \in DOMAIN g : \E i \in 1 .. next : q \in StageOf(k, i)
      BY <1>4, <1>7, <3>4
    <3>10. \A i \in 1 .. next : \A q \in StageOf(k, i) :
             q \in turn \cup DOMAIN g \/ (next > 1 /\ Skipped(q, g))
      <4> SUFFICES ASSUME NEW i \in 1 .. next, NEW q \in StageOf(k, i)
                   PROVE  q \in turn \cup DOMAIN g \/ Skipped(q, g)
        BY <3>6
      <4>1. i \in 1 .. stage \/ i = next \/ (i \in stage + 1 .. Len(Stages(k)) /\ i \notin left)
        BY <1>4, <3>3, <3>4, <3>2
      <4>2. CASE i \in 1 .. stage
        BY <1>7, <2>2, <4>2
      <4>3. CASE i = next
        BY <3>5, <4>3
      <4>4. CASE i \in stage + 1 .. Len(Stages(k)) /\ i \notin left
        BY <3>2, <4>4
      <4> QED
        BY <4>1, <4>2, <4>3, <4>4
    <3>11. ReadingGoesOn(k, next, turn, g)
      BY <3>6, <3>7, <3>8, <3>9, <3>10 DEF ReadingGoesOn
    <3> QED
      BY <3>1, <3>11
  <2> QED
    BY <2>1, <2>2
<1>9. ReadingGoesOn(request.kind, request.stage, request.waiting, got)'
  <2>1. request'.kind = k
    BY <1>8
  <2> QED
    BY <1>1, <1>8, <2>1, SettledReading
<1>10. ReadIn(got)'
  BY <1>1, <1>3, SettledReads DEF ReadIn
<1>11. RequestOK'
  BY <1>1, <1>2, <1>8, <1>9, <1>10 DEF RequestOK
<1> QED
  BY <1>1, <1>2, <1>11, NoReplyIsTrue DEF ReadsInv
-----------------------------------------------------------------------------
(* The answers.                                                            *)

\* An answer is cut from reads that are complete but for the skipped ones.
LEMMA AllIsRead ==
    ASSUME ReadsInv, request # Idle, request.waiting = {}
    PROVE  /\ request.kind \in Kinds /\ ReadIn(got)
           /\ \A i \in Nat : \A r \in StageOf(request.kind, i) : r \in DOMAIN got \/ Skipped(r, got)
           /\ \A r \in DOMAIN got : ~ Skipped(r, got)
<1> DEFINE k == request.kind
           stage == request.stage
<1>1. k \in Kinds /\ ReadIn(got) /\ ReadingGoesOn(k, stage, {}, got)
  BY DEF ReadsInv, RequestOK
<1> SUFFICES ASSUME NEW i \in Nat, NEW r \in StageOf(k, i) PROVE r \in DOMAIN got \/ Skipped(r, got)
  BY <1>1 DEF ReadingGoesOn
<1>2. i \in 1 .. Len(Stages(k)) /\ stage \in 1 .. Len(Stages(k)) /\ Len(Stages(k)) \in 1 .. 4
      /\ Stages(k)[i] = StageOf(k, i)
  BY <1>1, StagesAre DEF StageOf, ReadingGoesOn
<1>3. CASE i \in 1 .. stage
  BY <1>1, <1>3 DEF ReadingGoesOn
<1>4. CASE i \in stage + 1 .. Len(Stages(k))
  BY <1>1, <1>2, <1>4 DEF ReadingGoesOn, StagesLeft
<1> QED
  BY <1>2, <1>3, <1>4

ExecutorKinds == {"readyz", "health", "overview", "metrics"}

\* What executorInfo made of its reads.
LEMMA ExecutorIsTrue ==
    ASSUME seen \subseteq Worlds, NEW g, ReadIn(g), "wallet" \in DOMAIN g,
           "isExecutor" \in DOMAIN g \/ Skipped("isExecutor", g)
    PROVE  /\ Registered(g) => /\ Sometime(LAMBDA w : "hub" \in w.executors /\ w.rpc = "up")
                               /\ Sometime(LAMBDA w : Hub(w) \in {"up", "unfunded"})
           /\ env.guard /\ Steady(Ready) => Registered(g) /\ Executor(g) # "null"
<1>1. PICK v \in seen : g["wallet"] = UserAnswer(v)
  BY DEF ReadIn, Read
<1>2. ASSUME Registered(g)
      PROVE  /\ \E w \in seen : "hub" \in w.executors /\ w.rpc = "up"
             /\ \E w \in seen : Hub(w) \in {"up", "unfunded"}
  <2>1. g["wallet"] = "found" /\ env.guard /\ g["isExecutor"] = "yes" /\ g["isExecutor"] # Thrown
    BY <1>2 DEF Registered, Executor, Threw
  <2>2. "isExecutor" \in DOMAIN g
    BY <2>1 DEF Skipped
  <2>3. PICK w \in seen : g["isExecutor"] = IsExecutor(w)
    BY <2>2 DEF ReadIn, Read
  <2>4. w.rpc \in {"up", "erroring", "down"} /\ v.hub \in Hubs
    BY DEF Worlds
  <2>5. "hub" \in w.executors /\ w.rpc = "up"
    BY <2>1, <2>3, <2>4 DEF IsExecutor
  <2>6. Hub(v) \in {"up", "unfunded"}
    <3>1. Hub(v) \in Hubs
      BY <2>4 DEF Hub, Hubs
    <3> QED
      BY <1>1, <2>1, <3>1, ReadsConstants DEF UserAnswer, Hubs
  <2> QED
    BY <2>5, <2>6
<1>3. ASSUME env.guard, \A w \in seen : Ready(w) PROVE Registered(g) /\ Executor(g) # "null"
  <2>1. g["wallet"] = "found"
    BY <1>1, <1>3 DEF Ready, AllUp, UserAnswer
  <2>2. "isExecutor" \in DOMAIN g
    BY <1>3, <2>1 DEF Skipped
  <2>3. PICK w \in seen : g["isExecutor"] = IsExecutor(w)
    BY <2>2 DEF ReadIn, Read
  <2>4. g["isExecutor"] = "yes" /\ g["isExecutor"] # Thrown
    BY <1>3, <2>3, ReadsConstants DEF Ready, AllUp, IsExecutor
  <2> QED
    BY <1>3, <2>1, <2>4 DEF Registered, Executor, Threw
<1> QED
  BY <1>2, <1>3 DEF Sometime, Steady

LEMMA ExecutorAnswers ==
    ASSUME ReadsInv, request # Idle, request.waiting = {}, request.kind \in ExecutorKinds,
           reply' = Answer(request.kind, got), UNCHANGED <<env, world, seen>>
    PROVE  AnswersAreTrue'
<1> DEFINE k == request.kind
           g == got
<1>1. /\ ReadIn(g) /\ \A i \in Nat : \A r \in StageOf(k, i) : r \in DOMAIN g \/ Skipped(r, g)
  BY AllIsRead
<1>2. /\ "wallet" \in DOMAIN g
      /\ "isExecutor" \in DOMAIN g \/ Skipped("isExecutor", g)
      /\ k # "readyz" => "list" \in DOMAIN g
  <2>1. /\ "wallet" \in StageOf(k, 1) /\ "isExecutor" \in StageOf(k, 2)
        /\ k # "readyz" => "list" \in StageOf(k, 3)
    BY ExecutorStages DEF ExecutorKinds
  <2>2. ~ Skipped("wallet", g) /\ ~ Skipped("list", g)
    BY DEF Skipped
  <2> QED
    BY <1>1, <2>1, <2>2
<1>3. /\ Registered(g) => /\ \E w \in seen : "hub" \in w.executors /\ w.rpc = "up"
                          /\ \E w \in seen : Hub(w) \in {"up", "unfunded"}
      /\ env.guard /\ (\A w \in seen : Ready(w)) => Registered(g) /\ Executor(g) # "null"
  BY <1>1, <1>2, ExecutorIsTrue DEF ReadsInv, Sometime, Steady
<1>4. /\ reply'.kind = k
      /\ reply'.says.registered = Registered(g)
      /\ env.guard => (reply'.says.reachable <=> Executor(g) # "null")
      /\ reply'.status = (IF k = "readyz" /\ ~(Reachable(g) /\ Registered(g)) THEN 503 ELSE 200)
      /\ k # "readyz" => reply'.says.transactions = g["list"]
  BY ZenonT(40) DEF ExecutorKinds, Answer, Readyz, Health200, Overview, Metrics, Reachable
<1>5. ReadinessIsTrue'
  <2>1. Registered(g) <=> reply'.says.registered
    BY <1>4
  <2>2. \A w : Hub(w)' = Hub(w)
    BY DEF Hub
  <2> QED
    BY <1>3, <1>4, <2>1, <2>2 DEF ReadinessIsTrue, Sometime, Steady, Ready, AllUp, Reachable
<1>6. CountsAreOfTheStore'
  <2> SUFFICES ASSUME k # "readyz", \A w \in seen : w.store = "up"
               PROVE  \E w \in seen : reply'.says.transactions
                        = env.seeds + (IF env.database THEN AtMost(w.receipts, ListLimit) ELSE 0)
    BY <1>4 DEF CountsAreOfTheStore, Sometime, Steady
  <2>1. PICK w \in seen : g["list"] = Listed(w)
    BY <1>1, <1>2 DEF ReadIn, Read
  <2> QED
    BY <1>4, <2>1 DEF Listed
<1> QED
  BY <1>5, <1>6 DEF AnswersAreTrue

LEMMA PositionAnswers ==
    ASSUME ReadsInv, request # Idle, request.waiting = {}, request.kind = "position",
           reply' = Answer(request.kind, got), UNCHANGED <<env, world, seen>>
    PROVE  AnswersAreTrue' /\ ProjectionsDecide'
<1>1. "position" \in DOMAIN got
  <2>1. "position" \in StageOf(request.kind, 1)
    BY OtherStages
  <2> QED
    BY <2>1, AllIsRead DEF Skipped
<1>2. PICK w \in seen : got["position"] = PositionAnswer(w)
  BY <1>1, AllIsRead DEF ReadIn, Read
<1>3. reply' = PositionRoute(got)
  BY DEF Answer
<1> DEFINE p == got["position"]
<1>4. reply'.kind = "position"
  BY <1>3 DEF PositionRoute
<1>5. ASSUME reply'.status = 200, reply'.says.held
      PROVE  \E v \in seen : /\ v.position = reply'.says.position
                             /\ v.position.debt # 0 => reply'.says.health = Health(v.position)
  <2>1. p # Thrown /\ reply'.says = [held |-> p.collateral > 0 \/ p.debt > 0, position |-> p,
                                     health |-> HealthShown(p)]
    BY <1>3, <1>5 DEF PositionRoute
  <2>2. p.collateral > 0 \/ p.debt > 0
    <3> DEFINE held == p.collateral > 0 \/ p.debt > 0
    <3>1. reply'.says = [held |-> held, position |-> p, health |-> HealthShown(p)]
      BY <2>1
    <3> HIDE DEF held
    <3>2. reply'.says.held = held
      BY <3>1
    <3> QED
      BY <1>5, <3>2 DEF held
  <2>3. w.rpc \in {"up", "erroring", "down"}
    BY DEF ReadsInv, Worlds
  <2>4. p = w.position
    BY <1>2, <2>1, <2>2, <2>3 DEF PositionAnswer
  <2>5. reply'.says.position = p /\ (p.debt # 0 => reply'.says.health = Health(p))
    BY <2>1 DEF HealthShown
  <2> QED
    BY <2>4, <2>5
<1> QED
  BY <1>4, <1>5 DEF AnswersAreTrue, ProjectionsDecide, Sometime

LEMMA SmallQuotients == ASSUME NEW x \in Nat, NEW d \in Nat, x < d PROVE x \div d = 0
OBVIOUS

\* The projection and the guard agree on the floor, overflow included.
LEMMA GuardAgrees ==
    ASSUME CollateralFits, NEW w \in Worlds, NEW amount \in {Small, Large}, "hub" \in w.executors
    PROVE  (ProbeVerdict(GuardAnswer(w, amount)) = "ALLOW") = (Projected(w.position, amount) >= Floor)
<1> DEFINE p == w.position
           borrow == [fn |-> "borrowMore", value |-> 0, amount |-> amount]
           after == PoolEffect(borrow, p)
           scaled == ((p.collateral * LtvBps) \div Bps) * Unit
<1>1. /\ p \in Position /\ amount \in Nat /\ amount # 0 /\ Floor \in Nat /\ Floor # 0
      /\ p.collateral * LtvBps <= MaxUint /\ scaled <= MaxUint
  BY ReadsConstants DEF Worlds, CollateralFits
<1>2. /\ p.collateral \in Nat /\ p.collateral <= MaxUint /\ p.debt \in Nat /\ MaxUint \in Nat
      /\ after.collateral = p.collateral /\ after.debt = p.debt + amount
  <2>1. after = [p EXCEPT !.collateral = @ + 0, !.debt = @ + amount]
    BY DEF PoolEffect
  <2> HIDE DEF p, after
  <2>2. p = [collateral |-> p.collateral, debt |-> p.debt] /\ p.collateral \in Uint /\ p.debt \in Uint
    BY <1>1 DEF Position
  <2>3. after.collateral = p.collateral + 0 /\ after.debt = p.debt + amount
    BY <2>1, <2>2
  <2> QED
    BY <1>1, <2>2, <2>3, PoolConstants DEF Uint
<1>3. p.debt + amount # 0 /\ p.debt + amount \in Nat
  BY <1>1, <1>2
<1>4. scaled \in Nat
  <2>1. p.collateral * LtvBps \in Nat
    BY <1>2, PoolConstants
  <2>2. (p.collateral * LtvBps) \div Bps \in Nat
    BY <2>1, PoolConstants
  <2> QED
    BY <2>2, PoolConstants
<1>5. Projected(p, amount) = scaled \div (p.debt + amount)
  BY <1>3 DEF Projected
<1>6. Health(after) = scaled \div (p.debt + amount)
  BY <1>2, <1>3 DEF Health
<1>7. scaled \div (p.debt + amount) \in Int
  BY <1>3, <1>4
<1>8. PoolAccepts(borrow, p) <=> p.debt + amount <= MaxUint
  <2>1. PoolAccepts(borrow, p) <=>
          after.collateral <= MaxUint /\ after.debt <= MaxUint /\ ~ HealthReverts(after)
    BY DEF PoolAccepts
  <2> HIDE DEF after
  <2>2. ~ HealthReverts(after)
    <3> HIDE DEF p
    <3>1. /\ after.collateral * LtvBps <= MaxUint
          /\ ((after.collateral * LtvBps) \div Bps) * Unit <= MaxUint
      BY <1>1, <1>2
    <3>2. after.collateral * LtvBps \in Nat
      BY <1>2, PoolConstants
    <3>3. (after.collateral * LtvBps) \div Bps \in Nat
      BY <3>2, PoolConstants
    <3>4. ((after.collateral * LtvBps) \div Bps) * Unit \in Nat
      BY <3>3, PoolConstants
    <3> QED
      BY <1>2, <3>1, <3>2, <3>4 DEF HealthReverts
  <2> QED
    BY <1>2, <2>1, <2>2
<1> HIDE DEF scaled
<1>9. CASE p.debt + amount <= MaxUint
  <2>1. GuardAnswer(w, amount).reason = (IF Health(after) < Floor THEN "invariant" ELSE "passes")
    BY <1>8, <1>9 DEF GuardAnswer
  <2> QED
    BY <1>1, <1>5, <1>6, <1>7, <2>1 DEF ProbeVerdict
<1>10. CASE p.debt + amount > MaxUint
  <2>1. GuardAnswer(w, amount).reason = "reverted"
    BY <1>2, <1>3, <1>8, <1>10 DEF GuardAnswer
  <2>2. scaled \div (p.debt + amount) = 0
    BY <1>1, <1>2, <1>3, <1>4, <1>10, SmallQuotients
  <2> QED
    BY <1>1, <1>5, <2>1, <2>2 DEF ProbeVerdict
<1> QED
  BY <1>2, <1>3, <1>9, <1>10

LEMMA ProbeAnswers ==
    ASSUME ReadsInv, request # Idle, request.waiting = {}, request.kind = "probe",
           reply' = Answer(request.kind, got), UNCHANGED <<env, world, seen>>
    PROVE  AnswersAreTrue' /\ (CollateralFits => ProjectionsDecide')
<1>1. reply' = ProbeAnswer(got) /\ reply'.kind = "probe"
  BY DEF Answer, ProbeAnswer
<1>2. ASSUME CollateralFits, reply'.says # Nothing, Cardinality(seen) = 1,
             \A w \in seen : Ready(w) /\ Hub(w) = "up"
      PROVE  \A r \in {reply'.says.small, reply'.says.large} :
                (r.verdict = "ALLOW") = (r.health >= Floor)
  <2>1. PICK w : seen = {w}
    BY <1>2, FS_Singleton DEF ReadsInv
  <2>2. "probeSmall" \in DOMAIN got
    BY <1>1, <1>2 DEF ProbeAnswer
  <2>3. "projectSmall" \in DOMAIN got /\ "projectLarge" \in DOMAIN got /\ "probeLarge" \in DOMAIN got
    <3>1. /\ {"projectSmall", "projectLarge"} = StageOf(request.kind, 1)
          /\ "probeLarge" \in StageOf(request.kind, 2)
      BY OtherStages
    <3>2. ~ Skipped("projectSmall", got) /\ ~ Skipped("projectLarge", got)
      BY DEF Skipped
    <3>3. ~ Skipped("probeLarge", got)
      BY <2>2, AllIsRead DEF Skipped
    <3> QED
      BY <3>1, <3>2, <3>3, AllIsRead
  <2>4. \A r \in DOMAIN got : got[r] = Read(r, w)
    BY <2>1, AllIsRead DEF ReadIn
  <2>5. w \in Worlds /\ w.rpc = "up" /\ "hub" \in w.executors /\ Hub(w) = "up"
    BY <1>2, <2>1 DEF ReadsInv, Ready, AllUp
  <2>6. /\ got["projectSmall"] = Projected(w.position, Small)
        /\ got["projectLarge"] = Projected(w.position, Large)
    BY <2>3, <2>4, <2>5 DEF Read, Projection, PositionAnswer
  <2>7. /\ got["probeSmall"] = GuardAnswer(w, Small)
        /\ got["probeLarge"] = GuardAnswer(w, Large)
    BY <2>2, <2>3, <2>4, <2>5 DEF Read, Simulated
  <2>8. /\ reply'.says.small.health = got["projectSmall"]
        /\ reply'.says.small.verdict = ProbeVerdict(got["probeSmall"])
        /\ reply'.says.large.health = got["projectLarge"]
        /\ reply'.says.large.verdict = ProbeVerdict(got["probeLarge"])
    BY <1>1, <1>2 DEF ProbeAnswer
  <2> QED
    BY <1>2, <2>5, <2>6, <2>7, <2>8, GuardAgrees
<1>3. \A w : Hub(w)' = Hub(w)
  BY DEF Hub
<1> QED
  BY <1>1, <1>2, <1>3 DEF AnswersAreTrue, ProjectionsDecide, Steady, Ready, AllUp

LEMMA RespondKeeps == ASSUME ReadsInv, Respond PROVE ReadsInv'
<1>1. /\ request # Idle /\ request.waiting = {} /\ request' = Idle
      /\ reply' = Answer(request.kind, got) /\ UNCHANGED <<env, world, seen>>
  BY DEF Respond
<1>2. request.kind \in Kinds
  BY <1>1, AllIsRead
<1>3. AnswersAreTrue' /\ (CollateralFits => ProjectionsDecide')
  <2>1. CASE request.kind \in ExecutorKinds
    <3>1. reply'.kind = request.kind
      BY <1>1, <2>1 DEF Answer, ExecutorKinds, Readyz, Health200, Overview, Metrics
    <3> QED
      BY <1>1, <2>1, <3>1, ExecutorAnswers DEF ProjectionsDecide, ExecutorKinds
  <2>2. CASE request.kind = "position"
    BY <1>1, <2>2, PositionAnswers
  <2>3. CASE request.kind = "probe"
    BY <1>1, <2>3, ProbeAnswers
  <2>4. CASE request.kind \in {"guardPage", "collect"}
    <3>1. reply'.kind = request.kind
      BY <1>1, <2>4 DEF Answer, GuardPage, Collected
    <3> QED
      BY <2>4, <3>1 DEF AnswersAreTrue, ProjectionsDecide
  <2> QED
    BY <1>2, <2>1, <2>2, <2>3, <2>4 DEF Kinds, ExecutorKinds
<1> QED
  BY <1>1, <1>3 DEF ReadsInv, RequestOK
-----------------------------------------------------------------------------
(* The world moves.                                                        *)

LEMMA BecomesKeeps ==
    ASSUME ReadsInv, NEW w \in Worlds, Becomes(w)
    PROVE  ReadsInv'
<1>1. world' = w /\ env' = env /\ request' = request /\ got' = got
  BY DEF Becomes
<1>2. CASE request = Idle
  <2>1. seen' = {} /\ reply' = NoReply
    BY <1>2 DEF Becomes
  <2> QED
    BY <1>1, <1>2, <2>1, NoReplyIsTrue, FS_EmptySet DEF ReadsInv, RequestOK
<1>3. CASE request # Idle
  <2>1. seen' = seen \cup {w} /\ reply' = NoReply
    BY <1>3 DEF Becomes, ReadsInv, RequestOK
  <2>2. seen' \subseteq Worlds /\ IsFiniteSet(seen')
    BY <2>1, FS_AddElement DEF ReadsInv
  <2>3. ReadIn(got)'
    BY <1>1, <1>3, <2>1, SettledReads DEF ReadsInv, RequestOK, ReadIn
  <2>4. ReadingGoesOn(request.kind, request.stage, request.waiting, got)'
    BY <1>1, <1>3, SettledReading DEF ReadsInv, RequestOK
  <2>5. RequestOK'
    BY <1>1, <1>3, <2>1, <2>3, <2>4 DEF ReadsInv, RequestOK
  <2> QED
    BY <1>1, <2>1, <2>2, <2>5, NoReplyIsTrue DEF ReadsInv
<1> QED
  BY <1>2, <1>3

LEMMA ReadsIsInv == ReadsSpec => []ReadsInv
<1>1. ReadsInit => ReadsInv
  <2> SUFFICES ASSUME ReadsInit PROVE ReadsInv
    OBVIOUS
  <2>1. world \in Worlds
    BY DEF ReadsInit, Worlds, Hubs
  <2>2. AnswersAreTrue /\ ProjectionsDecide
    BY DEF ReadsInit, NoReply, AnswersAreTrue, ProjectionsDecide
  <2> QED
    BY <2>1, <2>2, FS_EmptySet DEF ReadsInit, ReadsInv, RequestOK
<1>2. ReadsInv /\ [ReadsNext]_readsVars => ReadsInv'
  <2> SUFFICES ASSUME ReadsInv, [ReadsNext]_readsVars PROVE ReadsInv'
    OBVIOUS
  <2>1. world \in Worlds
    BY DEF ReadsInv
  <2>2. CASE \E kind \in Kinds : Ask(kind)
    BY <2>2, AskKeeps
  <2>3. CASE \E r \in request.waiting : ReadEnds(r)
    <3>1. request # Idle
      BY <2>3 DEF Idle
    <3> QED
      BY <2>3, <3>1, ReadEndsKeeps
  <2>4. CASE Respond
    BY <2>4, RespondKeeps
  <2>5. CASE KeeperHubChanges
    <3>1. PICK h \in Hubs : Becomes([world EXCEPT !.hub = h])
      BY <2>5 DEF KeeperHubChanges
    <3>2. [world EXCEPT !.hub = h] \in Worlds
      BY <2>1 DEF Worlds
    <3> QED
      BY <3>1, <3>2, BecomesKeeps
  <2>6. CASE RpcChanges
    <3>1. PICK s \in {"up", "erroring", "down"} : Becomes([world EXCEPT !.rpc = s])
      BY <2>6 DEF RpcChanges
    <3>2. [world EXCEPT !.rpc = s] \in Worlds
      BY <2>1 DEF Worlds
    <3> QED
      BY <3>1, <3>2, BecomesKeeps
  <2>7. CASE BatchIsAnchored
    <3>1. [world EXCEPT !.anchored = TRUE] \in Worlds
      BY <2>1 DEF Worlds
    <3> QED
      BY <2>7, <3>1, BecomesKeeps DEF BatchIsAnchored
  <2>8. CASE PositionMoves
    <3>1. PICK p \in Positions : Becomes([world EXCEPT !.position = p])
      BY <2>8 DEF PositionMoves
    <3>2. [world EXCEPT !.position = p] \in Worlds
      BY <2>1 DEF Worlds
    <3> QED
      BY <3>1, <3>2, BecomesKeeps
  <2>9. CASE StoreChanges
    <3>1. \A s \in {"up", "down"} : [world EXCEPT !.store = s] \in Worlds
      BY <2>1 DEF Worlds
    <3>2. [world EXCEPT !.receipts = @ + 1] \in Worlds
      BY <2>1 DEF Worlds
    <3> QED
      BY <2>9, <3>1, <3>2, BecomesKeeps DEF StoreChanges
  <2>10. CASE \E a \in Wallets : AdminSetsExecutor(a)
    <3>1. PICK a \in Wallets, ok \in BOOLEAN :
            Becomes([world EXCEPT !.executors = IF ok THEN @ \cup {a} ELSE @ \ {a}])
      BY <2>10 DEF AdminSetsExecutor
    <3>2. [world EXCEPT !.executors = IF ok THEN @ \cup {a} ELSE @ \ {a}] \in Worlds
      BY <2>1 DEF Worlds
    <3> QED
      BY <3>1, <3>2, BecomesKeeps
  <2>11. CASE UNCHANGED readsVars
    <3>1. UNCHANGED <<env, world, request, got, reply, seen>>
      BY <2>11 DEF readsVars
    <3>2. \A w : Hub(w)' = Hub(w)
      BY <3>1 DEF Hub
    <3>3. AnswersAreTrue' /\ (CollateralFits => ProjectionsDecide')
      BY <3>1, <3>2 DEF ReadsInv, AnswersAreTrue, ReadinessIsTrue, CountsAreOfTheStore, ProjectionsDecide,
           Sometime, Steady, Ready, AllUp
    <3>4. request # Idle =>
            ReadIn(got)' /\ ReadingGoesOn(request.kind, request.stage, request.waiting, got)'
      BY <3>1, SettledReads, SettledReading DEF ReadsInv, RequestOK, ReadIn
    <3> QED
      BY <3>1, <3>3, <3>4 DEF ReadsInv, RequestOK
  <2> QED
    BY <2>2, <2>3, <2>4, <2>5, <2>6, <2>7, <2>8, <2>9, <2>10, <2>11 DEF ReadsNext
<1> QED
  BY <1>1, <1>2, PTL DEF ReadsSpec

\* What /readyz, /api/health, the metrics and the overview say of the executor
\* and of the receipts was so while they answered, for every deployment and
\* however often the world changes between the reads.
THEOREM AnswersHold == ReadsSpec => []AnswersAreTrue
<1>1. ReadsInv => AnswersAreTrue
  BY DEF ReadsInv
<1> QED
  BY <1>1, ReadsIsInv, PTL

\* A position that is shown was the guard's, and the probe's projection agrees
\* with the guard's verdict, whatever the position, the amounts and the floor;
\* a debt that overflows with the borrow included.
THEOREM ProjectionsHold == ASSUME CollateralFits PROVE ReadsSpec => []ProjectionsDecide
<1>1. ReadsInv => ProjectionsDecide
  BY CollateralFits DEF ReadsInv
<1> QED
  BY <1>1, ReadsIsInv, PTL
-----------------------------------------------------------------------------
(* Sums over a few samples.                                                *)

\* The weight of every subset, each element taken once.
Weighs(weight, S) ==
    weight = [s \in SUBSET S |-> IF s = {} THEN 0
                ELSE LET x == CHOOSE x \in s : TRUE IN x.value + weight[s \ {x}]]

LEMMA SumIsWeight ==
    ASSUME NEW S
    PROVE  SumOfValues(S) = (CHOOSE weight : Weighs(weight, S))[S]
BY DEF SumOfValues, MapThenSumSet, MapThenFoldSet, Weighs

Counted(x, S) == IF x \in S THEN x.value ELSE 0

LEMMA SumOfTwo ==
    ASSUME NEW x, NEW y, x # y, x.value \in Int, y.value \in Int, NEW S \in SUBSET {x, y}
    PROVE  SumOfValues(S) = Counted(x, S) + Counted(y, S)
<1> DEFINE w == [s \in SUBSET S |-> Counted(x, s) + Counted(y, s)]
           W == CHOOSE weight : Weighs(weight, S)
           First(s) == CHOOSE z \in s : TRUE
<1>1. \A s \in SUBSET S : s # {} => First(s) \in s /\ s \ {First(s)} \in SUBSET S
  OBVIOUS
<1>2. \A s \in SUBSET S : s # {} => (First(s) = x /\ x \in s) \/ (First(s) = y /\ y \in s)
  BY <1>1
<1> HIDE DEF First
<1>3. \A s \in SUBSET S : s # {} =>
        Counted(x, s) + Counted(y, s)
          = First(s).value + (Counted(x, s \ {First(s)}) + Counted(y, s \ {First(s)}))
  BY <1>2 DEF Counted
<1>4. \A s \in SUBSET S : w[s] = IF s = {} THEN 0 ELSE First(s).value + w[s \ {First(s)}]
  <2> TAKE s \in SUBSET S
  <2>1. CASE s = {}
    BY <2>1 DEF Counted
  <2>2. CASE s # {}
    BY <1>1, <1>3, <2>2
  <2> QED
    BY <2>1, <2>2
<1>5. Weighs(w, S)
  <2>1. w = [s \in SUBSET S |-> w[s]]
    OBVIOUS
  <2> HIDE DEF w
  <2> QED
    BY <1>4, <2>1 DEF Weighs, First
<1>6. Weighs(W, S)
  <2> HIDE DEF w
  <2> QED
    BY <1>5
<1>7. \A s \in SUBSET S : W[s] = IF s = {} THEN 0 ELSE First(s).value + W[s \ {First(s)}]
  <2> HIDE DEF W
  <2> QED
    BY <1>6 DEF Weighs, First
<1> HIDE DEF W, w
<1>8. W[{}] = 0
  BY <1>7
<1>9. \A z \in S : W[{z}] = z.value
  <2> TAKE z \in S
  <2>1. {z} \in SUBSET S /\ First({z}) = z /\ {z} \ {z} = {}
    BY <1>1
  <2>2. W[{z}] = z.value + 0
    BY <1>7, <1>8, <2>1
  <2>3. z.value \in Int
    OBVIOUS
  <2> QED
    BY <2>2, <2>3
<1>10. x \in S /\ y \in S => W[{x, y}] = x.value + y.value
  <2> SUFFICES ASSUME x \in S, y \in S PROVE W[{x, y}] = x.value + y.value
    OBVIOUS
  <2>1. {x, y} \in SUBSET S /\ {x, y} # {}
    OBVIOUS
  <2>2. {x, y} \ {x} = {y} /\ {x, y} \ {y} = {x}
    OBVIOUS
  <2>3. W[{x, y}] = First({x, y}).value + W[{x, y} \ {First({x, y})}]
    BY <1>7, <2>1
  <2>4. First({x, y}) = x \/ First({x, y}) = y
    BY <1>2, <2>1
  <2>5. W[{x}] = x.value /\ W[{y}] = y.value
    BY <1>9
  <2>6. CASE First({x, y}) = x
    BY <2>2, <2>3, <2>5, <2>6
  <2>7. CASE First({x, y}) = y
    <3>1. W[{x, y}] = y.value + x.value
      BY <2>2, <2>3, <2>5, <2>7
    <3> QED
      BY <3>1
  <2> QED
    BY <2>4, <2>6, <2>7
<1>11. S = {} \/ S = {x} \/ S = {y} \/ S = {x, y}
  OBVIOUS
<1>12. SumOfValues(S) = W[S]
  BY SumIsWeight DEF W
<1>13. CASE S = {}
  BY <1>8, <1>12, <1>13 DEF Counted
<1>14. CASE S = {x}
  BY <1>9, <1>12, <1>14 DEF Counted
<1>15. CASE S = {y}
  BY <1>9, <1>12, <1>15 DEF Counted
<1>16. CASE S = {x, y}
  BY <1>10, <1>12, <1>16 DEF Counted
<1> QED
  BY <1>11, <1>13, <1>14, <1>15, <1>16
-----------------------------------------------------------------------------
(* The collector's registry.                                               *)

IsRegistry(m) == m = [n \in DOMAIN Types |-> [type |-> Types[n], series |-> m[n].series]]

LEMMA TypeNames ==
    DOMAIN Types = {"decisions", "denialReasons", "upstreamFailures", "guardHealthy", "authOk",
                    "gasEstimate", "latency", "invariantMargin"}
BY DEF Types

Feed(m, name, series) == [m EXCEPT ![name].series = series]

\* Nothing but the metric that is fed changes.
LEMMA FedIs ==
    ASSUME NEW m, IsRegistry(m), NEW name \in DOMAIN Types, NEW series
    PROVE  /\ IsRegistry(Feed(m, name, series)) /\ Feed(m, name, series)[name].series = series
           /\ \A n \in DOMAIN Types : n # name => Feed(m, name, series)[n].series = m[n].series
<1> DEFINE fed == Feed(m, name, series)
<1>1. DOMAIN m = DOMAIN Types
  BY DEF IsRegistry
<1>2. \A n \in DOMAIN Types : m[n] = [type |-> Types[n], series |-> m[n].series]
  BY DEF IsRegistry
<1>3. \A n \in DOMAIN Types : n # name => fed[n] = m[n]
  BY <1>1 DEF Feed
<1>4. fed[name] = [m[name] EXCEPT !.series = series] /\ DOMAIN fed = DOMAIN Types
  BY <1>1 DEF Feed
<1>5. fed[name] = [type |-> Types[name], series |-> series]
  <2>1. m[name] = [type |-> Types[name], series |-> m[name].series]
    BY <1>2
  <2> HIDE DEF fed
  <2> QED
    BY <1>4, <2>1
<1>6. fed = [n \in DOMAIN Types |-> fed[n]]
  BY <1>1 DEF Feed
<1>7. \A n \in DOMAIN Types : fed[n] = [type |-> Types[n], series |-> fed[n].series]
  <2> TAKE n \in DOMAIN Types
  <2>1. CASE n = name
    BY <1>5, <2>1
  <2>2. CASE n # name
    BY <1>2, <1>3, <2>2
  <2> QED
    BY <2>1, <2>2
<1>8. IsRegistry(fed)
  BY <1>6, <1>7 DEF IsRegistry
<1> QED
  BY <1>3, <1>5, <1>8

Reasons == {"reverted", "invariant", "passes", "preflight", "noVerdict", "threw"}
VerdictOf(a) == IF a.reason \in {"noVerdict", "passes"} THEN "ALLOW" ELSE "DENY"
BrokenCode == [code |-> "INVARIANT_BROKEN", index |-> 0]

\* What one simulation adds to each metric.
LEMMA SimulationFeeds ==
    ASSUME NEW m, IsRegistry(m), NEW o, NEW a, a.reason \in Reasons, NEW seconds,
           NEW fed, fed = AfterSimulation(m, o, a, seconds)
    PROVE  /\ IsRegistry(fed)
           /\ fed.latency.series = Observe(LatencyBounds, m.latency.series, [outcome |-> o], seconds)
           /\ fed.decisions.series =
                IF a.reason = "threw" THEN m.decisions.series
                ELSE Inc(m.decisions.series, [verdict |-> VerdictOf(a), outcome |-> o])
           /\ fed.upstreamFailures.series =
                IF a.reason = "threw" THEN Inc(m.upstreamFailures.series, [kind |-> "network"])
                ELSE m.upstreamFailures.series
           /\ fed.denialReasons.series =
                CASE a.reason = "invariant" -> Inc(m.denialReasons.series, BrokenCode)
                  [] a.reason = "preflight" ->
                       Inc(m.denialReasons.series, [code |-> "PREFLIGHT_REJECTED"])
                  [] a.reason = "reverted" ->
                       Inc(m.denialReasons.series, [code |-> "SIMULATION_REVERTED"])
                  [] OTHER -> m.denialReasons.series
           /\ fed.invariantMargin.series =
                IF a.reason = "invariant"
                  THEN SetGauge(m.invariantMargin.series, [index |-> 0], a.margin)
                  ELSE m.invariantMargin.series
<1> DEFINE timed == Timed(m, o, seconds)
           allow == [verdict |-> "ALLOW", outcome |-> o]
           deny == [verdict |-> "DENY", outcome |-> o]
<1> USE TypeNames
<1>1. /\ IsRegistry(timed)
      /\ timed.latency.series = Observe(LatencyBounds, m.latency.series, [outcome |-> o], seconds)
      /\ \A n \in DOMAIN Types : n # "latency" => timed[n].series = m[n].series
  <2>1. timed = Feed(m, "latency", Observe(LatencyBounds, m.latency.series, [outcome |-> o], seconds))
    BY DEF Timed, Feed
  <2> HIDE DEF timed
  <2> QED
    BY <2>1, FedIs
<1> HIDE DEF timed
\* Counting and setting one metric of a registry.
<1>2. ASSUME NEW x, IsRegistry(x), NEW name \in DOMAIN Types, NEW labels
      PROVE  /\ IsRegistry(Count(x, name, labels))
             /\ Count(x, name, labels)[name].series = Inc(x[name].series, labels)
             /\ \A n \in DOMAIN Types : n # name => Count(x, name, labels)[n].series = x[n].series
  <2>1. Count(x, name, labels) = Feed(x, name, Inc(x[name].series, labels))
    BY <1>2 DEF Count, Feed
  <2> QED
    BY <1>2, <2>1, FedIs
<1>3. ASSUME NEW x, IsRegistry(x), NEW name \in DOMAIN Types, NEW labels, NEW value
      PROVE  /\ IsRegistry(Put(x, name, labels, value))
             /\ Put(x, name, labels, value)[name].series = SetGauge(x[name].series, labels, value)
             /\ \A n \in DOMAIN Types : n # name => Put(x, name, labels, value)[n].series = x[n].series
  <2>1. Put(x, name, labels, value) = Feed(x, name, SetGauge(x[name].series, labels, value))
    BY <1>3 DEF Put, Feed
  <2> QED
    BY <1>3, <2>1, FedIs
<1>4. CASE a.reason = "threw"
  <2>1. fed = Count(timed, "upstreamFailures", [kind |-> "network"])
    BY <1>4 DEF AfterSimulation, timed
  <2> QED
    BY <1>1, <1>2, <1>4, <2>1 DEF VerdictOf
<1>5. CASE a.reason = "noVerdict"
  <2>1. fed = Count(timed, "decisions", allow)
    BY <1>5 DEF AfterSimulation, timed
  <2> QED
    BY <1>1, <1>2, <1>5, <2>1 DEF VerdictOf
<1>6. CASE a.reason = "passes"
  <2> DEFINE counted == Count(timed, "decisions", allow)
  <2>1. fed = Put(counted, "gasEstimate", [outcome |-> o], 1)
    BY <1>6 DEF AfterSimulation, timed
  <2>2. /\ IsRegistry(counted) /\ counted.decisions.series = Inc(timed.decisions.series, allow)
        /\ \A n \in DOMAIN Types : n # "decisions" => counted[n].series = timed[n].series
    BY <1>1, <1>2
  <2> HIDE DEF counted
  <2> QED
    BY <1>1, <1>3, <1>6, <2>1, <2>2 DEF VerdictOf
<1>7. CASE a.reason \in {"invariant", "preflight", "reverted"}
  <2> DEFINE counted == Count(timed, "decisions", deny)
  <2>1. fed = Denied(counted, a)
    BY <1>7 DEF AfterSimulation, timed
  <2>2. /\ IsRegistry(counted) /\ counted.decisions.series = Inc(timed.decisions.series, deny)
        /\ \A n \in DOMAIN Types : n # "decisions" => counted[n].series = timed[n].series
    BY <1>1, <1>2
  <2> HIDE DEF counted
  <2>3. CASE a.reason = "invariant"
    <3> DEFINE told == Count(counted, "denialReasons", BrokenCode)
    <3>1. fed = Put(told, "invariantMargin", [index |-> 0], a.margin)
      BY <2>1, <2>3 DEF Denied, BrokenCode
    <3>2. /\ IsRegistry(told) /\ told.denialReasons.series = Inc(counted.denialReasons.series, BrokenCode)
          /\ \A n \in DOMAIN Types : n # "denialReasons" => told[n].series = counted[n].series
      BY <1>2, <2>2
    <3> HIDE DEF told
    <3> QED
      BY <1>1, <1>3, <2>2, <2>3, <3>1, <3>2 DEF VerdictOf
  <2>4. CASE a.reason = "preflight"
    <3>1. fed = Count(counted, "denialReasons", [code |-> "PREFLIGHT_REJECTED"])
      BY <2>1, <2>4 DEF Denied
    <3> QED
      BY <1>1, <1>2, <2>2, <2>4, <3>1 DEF VerdictOf
  <2>5. CASE a.reason = "reverted"
    <3>1. fed = Count(counted, "denialReasons", [code |-> "SIMULATION_REVERTED"])
      BY <2>1, <2>5 DEF Denied
    <3> QED
      BY <1>1, <1>2, <2>2, <2>5, <3>1 DEF VerdictOf
  <2> QED
    BY <1>7, <2>3, <2>4, <2>5
<1> QED
  BY <1>4, <1>5, <1>6, <1>7 DEF Reasons

\* The gauge of the verdicts and the authentication check.
LEMMA JudgementFeeds ==
    ASSUME NEW m, IsRegistry(m)
    PROVE  /\ IsRegistry(Judged(m))
           /\ \A n \in DOMAIN Types : n # "guardHealthy" => Judged(m)[n].series = m[n].series
<1>1. PICK series : Judged(m) = Feed(m, "guardHealthy", series)
  BY DEF Judged, Put, Feed
<1> QED
  BY <1>1, FedIs, TypeNames

LEMMA AuthenticationFeeds ==
    ASSUME NEW m, IsRegistry(m), NEW a, NEW fed, fed = AfterAuth(m, a)
    PROVE  /\ IsRegistry(fed)
           /\ \A n \in DOMAIN Types \ {"authOk", "upstreamFailures"} : fed[n].series = m[n].series
           /\ fed.upstreamFailures.series =
                CASE a = "unauthorized" -> Inc(m.upstreamFailures.series, [kind |-> "unauthorized"])
                  [] a = "threw" -> Inc(m.upstreamFailures.series, [kind |-> "network"])
                  [] OTHER -> m.upstreamFailures.series
<1> USE TypeNames
<1>1. PICK series, set : /\ set = Feed(m, "authOk", series)
                         /\ \/ /\ a = "unauthorized"
                               /\ fed = Count(set, "upstreamFailures", [kind |-> "unauthorized"])
                            \/ a = "threw" /\ fed = Count(set, "upstreamFailures", [kind |-> "network"])
                            \/ a \notin {"unauthorized", "threw"} /\ fed = set
  BY DEF AfterAuth, Put, Feed
<1>2. /\ IsRegistry(set)
      /\ \A n \in DOMAIN Types : n # "authOk" => set[n].series = m[n].series
  BY <1>1, FedIs
<1>3. \A labels : Count(set, "upstreamFailures", labels)
        = Feed(set, "upstreamFailures", Inc(set["upstreamFailures"].series, labels))
  BY DEF Count, Feed
<1>4. CASE a \notin {"unauthorized", "threw"}
  BY <1>1, <1>2, <1>4
<1>5. CASE a = "unauthorized"
  BY <1>1, <1>2, <1>3, <1>5, FedIs
<1>6. CASE a = "threw"
  BY <1>1, <1>2, <1>3, <1>6, FedIs
<1> QED
  BY <1>4, <1>5, <1>6
-----------------------------------------------------------------------------
(* What the registry says of the answers so far.                           *)

Network == [kind |-> "network"]
Observation(s) ==
    [counts |-> [b \in LatencyBounds |-> IF s <= b THEN 1 ELSE 0], sum |-> s, count |-> 1]

Done(g) == Outcomes \cap DOMAIN g
Decision(g, o) == [verdict |-> VerdictOf(g[o]), outcome |-> o]
Failed(g, o) == IF o \in DOMAIN g /\ g[o].reason = "threw" THEN 1 ELSE 0
AuthFailed(g) == IF "auth" \in DOMAIN g /\ g["auth"] = Thrown THEN 1 ELSE 0

TimesOK(g, series) ==
    /\ DOMAIN series = {[outcome |-> o] : o \in Done(g)}
    /\ \A o \in Done(g) : \E s \in Seconds : series[[outcome |-> o]] = Observation(s)

DecisionsOK(g, series) ==
    /\ DOMAIN series = {Decision(g, o) : o \in {q \in Done(g) : g[q].reason # "threw"}}
    /\ \A l \in DOMAIN series : series[l] = 1

FailuresOK(g, series) ==
    /\ DOMAIN series \subseteq {Network, [kind |-> "unauthorized"]}
    /\ Value(series, Network) = Failed(g, "permitted") + Failed(g, "refused") + AuthFailed(g)

DenialsOK(g, series) ==
    /\ BrokenCode \in DOMAIN series => \E o \in Done(g) : g[o].reason = "invariant"
    /\ [code |-> "PREFLIGHT_REJECTED"] \in DOMAIN series => \E o \in Done(g) : g[o].reason = "preflight"
    /\ DOMAIN series \subseteq
         {BrokenCode, [code |-> "PREFLIGHT_REJECTED"], [code |-> "SIMULATION_REVERTED"]}

MarginsOK(g, series) ==
    \A l \in DOMAIN series :
        \E o \in Done(g) : g[o].reason = "invariant" /\ series[l] = g[o].margin

MetricsOK(g, m) ==
    /\ IsRegistry(m)
    /\ TimesOK(g, m.latency.series)
    /\ DecisionsOK(g, m.decisions.series)
    /\ FailuresOK(g, m.upstreamFailures.series)
    /\ DenialsOK(g, m.denialReasons.series)
    /\ MarginsOK(g, m.invariantMargin.series)

LEMMA FreshIsOK == ASSUME NEW g, DOMAIN g = {} PROVE MetricsOK(g, Fresh)
<1>1. \A n \in DOMAIN Types : Fresh[n] = [type |-> Types[n], series |-> NoSeries]
  BY DEF Fresh
<1>2. \A n \in DOMAIN Types : Fresh[n].series = NoSeries
  <2> TAKE n \in DOMAIN Types
  <2>1. [type |-> Types[n], series |-> NoSeries].series = NoSeries
    OBVIOUS
  <2> QED
    BY <1>1, <2>1
<1>3. IsRegistry(Fresh)
  BY <1>2 DEF IsRegistry, Fresh
<1>4. DOMAIN NoSeries = {}
  BY DEF NoSeries
<1>5. Done(g) = {}
  BY DEF Done
<1>6. /\ Fresh.latency.series = NoSeries /\ Fresh.decisions.series = NoSeries
      /\ Fresh.upstreamFailures.series = NoSeries /\ Fresh.denialReasons.series = NoSeries
      /\ Fresh.invariantMargin.series = NoSeries
  BY <1>2, TypeNames
<1>7. TimesOK(g, NoSeries) /\ DecisionsOK(g, NoSeries)
  BY <1>4, <1>5 DEF TimesOK, DecisionsOK
<1>8. FailuresOK(g, NoSeries)
  BY <1>4 DEF FailuresOK, Value, Failed, AuthFailed
<1>9. DenialsOK(g, NoSeries) /\ MarginsOK(g, NoSeries)
  BY <1>4 DEF DenialsOK, MarginsOK
<1> QED
  BY <1>3, <1>6, <1>7, <1>8, <1>9 DEF MetricsOK

LEMMA SimulationKeeps ==
    ASSUME NEW g, NEW m, MetricsOK(g, m), NEW o \in Outcomes, o \notin DOMAIN g,
           NEW a, a.reason \in Reasons, NEW seconds \in Seconds,
           NEW h, h = [q \in DOMAIN g \cup {o} |-> IF q = o THEN a ELSE g[q]]
    PROVE  MetricsOK(h, AfterSimulation(m, o, a, seconds))
<1> DEFINE fed == AfterSimulation(m, o, a, seconds)
<1>1. DOMAIN h = DOMAIN g \cup {o} /\ h[o] = a /\ \A q \in DOMAIN g : h[q] = g[q] /\ q # o
  OBVIOUS
<1>2. Done(h) = Done(g) \cup {o} /\ o \notin Done(g) /\ \A q \in Done(g) : h[q] = g[q]
  BY <1>1 DEF Done
<1>3. /\ IsRegistry(fed)
      /\ fed.latency.series = Observe(LatencyBounds, m.latency.series, [outcome |-> o], seconds)
      /\ fed.decisions.series =
           IF a.reason = "threw" THEN m.decisions.series
           ELSE Inc(m.decisions.series, [verdict |-> VerdictOf(a), outcome |-> o])
      /\ fed.upstreamFailures.series =
           IF a.reason = "threw" THEN Inc(m.upstreamFailures.series, [kind |-> "network"])
           ELSE m.upstreamFailures.series
      /\ fed.denialReasons.series =
           CASE a.reason = "invariant" -> Inc(m.denialReasons.series, BrokenCode)
             [] a.reason = "preflight" -> Inc(m.denialReasons.series, [code |-> "PREFLIGHT_REJECTED"])
             [] a.reason = "reverted" -> Inc(m.denialReasons.series, [code |-> "SIMULATION_REVERTED"])
             [] OTHER -> m.denialReasons.series
      /\ fed.invariantMargin.series =
           IF a.reason = "invariant"
             THEN SetGauge(m.invariantMargin.series, [index |-> 0], a.margin)
             ELSE m.invariantMargin.series
  BY SimulationFeeds DEF MetricsOK
<1> HIDE DEF fed
<1>4. TimesOK(h, fed.latency.series)
  <2> DEFINE old == m.latency.series
             new == fed.latency.series
  <2>1. TimesOK(g, old) /\ new = Observe(LatencyBounds, old, [outcome |-> o], seconds)
    BY <1>3 DEF MetricsOK
  <2> HIDE DEF old, new
  <2>2. [outcome |-> o] \notin DOMAIN old
    <3>1. \A q \in Done(g) : [outcome |-> q] # [outcome |-> o]
      <4> TAKE q \in Done(g)
      <4>1. [outcome |-> q].outcome = q /\ [outcome |-> o].outcome = o
        OBVIOUS
      <4> QED
        BY <1>2, <4>1
    <3> QED
      BY <2>1, <3>1 DEF TimesOK
  <2>3. new = [l \in DOMAIN old \cup {[outcome |-> o]} |->
                 IF l = [outcome |-> o] THEN Observed(LatencyBounds, EmptyEntry(LatencyBounds), seconds)
                 ELSE old[l]]
    BY <2>1, <2>2 DEF Observe, Entry
  <2>4. Observed(LatencyBounds, EmptyEntry(LatencyBounds), seconds) = Observation(seconds)
    <3>1. \A b \in LatencyBounds : 0 + (IF seconds <= b THEN 1 ELSE 0) = IF seconds <= b THEN 1 ELSE 0
      OBVIOUS
    <3>2. 0 + seconds = seconds
      BY ReadsConstants
    <3> QED
      BY <3>1, <3>2 DEF Observed, EmptyEntry, Observation
  <2> DEFINE l0 == [outcome |-> o]
  <2>5. new[l0] = Observation(seconds) /\ \A q \in Done(g) : new[[outcome |-> q]] = old[[outcome |-> q]]
    BY <2>1, <2>2, <2>3, <2>4 DEF TimesOK
  <2>6. DOMAIN new = {[outcome |-> q] : q \in Done(h)}
    <3>1. DOMAIN new = {[outcome |-> q] : q \in Done(g)} \cup {[outcome |-> o]}
      BY <2>1, <2>3 DEF TimesOK
    <3>2. {[outcome |-> q] : q \in Done(h)} = {[outcome |-> q] : q \in Done(g)} \cup {[outcome |-> o]}
      BY <1>2
    <3> QED
      BY <3>1, <3>2
  <2>7. \A q \in Done(h) : \E s \in Seconds : new[[outcome |-> q]] = Observation(s)
    BY <1>2, <2>1, <2>5, ZenonT(40) DEF TimesOK
  <2> QED
    BY <2>6, <2>7 DEF TimesOK, new
<1>5. DecisionsOK(h, fed.decisions.series)
  <2> DEFINE old == m.decisions.series
             new == fed.decisions.series
             l0 == [verdict |-> VerdictOf(a), outcome |-> o]
             Said(f) == {q \in Done(f) : f[q].reason # "threw"}
  <2>1. DecisionsOK(g, old) /\ new = IF a.reason = "threw" THEN old ELSE Inc(old, l0)
    BY <1>3 DEF MetricsOK
  <2>2. \A q \in Done(g) : Decision(h, q) = Decision(g, q)
    BY <1>2 DEF Decision, VerdictOf
  <2>3. Decision(h, o) = l0
    BY <1>1 DEF Decision
  <2> HIDE DEF old, new
  <2>4. CASE a.reason = "threw"
    <3>1. Said(h) = Said(g) /\ Said(g) \subseteq Done(g)
      BY <1>1, <1>2, <2>4
    <3>2. \A q \in Said(g) : Decision(h, q) = Decision(g, q)
      BY <2>2, <3>1
    <3>3. DOMAIN old = {Decision(g, q) : q \in Said(g)} /\ \A l \in DOMAIN old : old[l] = 1
      BY <2>1 DEF DecisionsOK
    <3>4. {Decision(h, q) : q \in Said(h)} = {Decision(g, q) : q \in Said(g)}
      BY <3>1, <3>2
    <3>5. new = old
      BY <2>1, <2>4
    <3> QED
      BY <3>3, <3>4, <3>5 DEF DecisionsOK, new
  <2>5. CASE a.reason # "threw"
    <3>1. Said(h) = Said(g) \cup {o} /\ Said(g) \subseteq Done(g)
      BY <1>1, <1>2, <2>5
    <3>2. l0 \notin DOMAIN old
      <4>1. \A q \in Said(g) : Decision(g, q) # l0
        <5> TAKE q \in Said(g)
        <5>1. Decision(g, q).outcome = q /\ l0.outcome = o
          BY DEF Decision
        <5> QED
          BY <1>2, <5>1
      <4> QED
        BY <2>1, <4>1 DEF DecisionsOK
    <3> HIDE DEF l0
    <3>3. new = [l \in DOMAIN old \cup {l0} |-> IF l = l0 THEN Value(old, l) + 1 ELSE old[l]]
      BY <2>1, <2>5 DEF Inc
    <3>4. new[l0] = 1
      BY <3>2, <3>3 DEF Value
    <3>5. \A l \in DOMAIN new : new[l] = 1
      BY <2>1, <3>3, <3>4 DEF DecisionsOK
    <3>6. DOMAIN old = {Decision(g, q) : q \in Said(g)}
      BY <2>1 DEF DecisionsOK
    <3>7. {Decision(h, q) : q \in Said(h)} = {Decision(g, q) : q \in Said(g)} \cup {l0}
      <4>1. \A q \in Said(g) : q \in Said(h) /\ Decision(h, q) = Decision(g, q)
        BY <2>2, <3>1
      <4>2. \A q \in Said(h) : q \in Said(g) \/ Decision(h, q) = l0
        BY <2>3, <3>1
      <4>3. o \in Said(h)
        BY <3>1
      <4> HIDE DEF Said
      <4>4. \A l : l \in {Decision(h, q) : q \in Said(h)}
                  <=> l \in {Decision(g, q) : q \in Said(g)} \cup {l0}
        BY <2>3, <4>1, <4>2, <4>3
      <4> QED
        BY <4>4
    <3>8. DOMAIN new = {Decision(h, q) : q \in Said(h)}
      BY <3>3, <3>6, <3>7
    <3> QED
      BY <3>5, <3>8 DEF DecisionsOK, new
  <2> QED
    BY <2>4, <2>5
<1>6. FailuresOK(h, fed.upstreamFailures.series)
  <2> DEFINE old == m.upstreamFailures.series
             new == fed.upstreamFailures.series
  <2>1. FailuresOK(g, old) /\ new = IF a.reason = "threw" THEN Inc(old, Network) ELSE old
    BY <1>3 DEF MetricsOK, Network
  <2> HIDE DEF old, new
  <2>2. AuthFailed(h) = AuthFailed(g)
    BY <1>1 DEF AuthFailed, Outcomes
  <2>3. \A q \in Outcomes \ {o} : Failed(h, q) = Failed(g, q)
    BY <1>1 DEF Failed
  <2>4. Failed(g, o) = 0 /\ Failed(h, o) = IF a.reason = "threw" THEN 1 ELSE 0
    BY <1>1 DEF Failed
  <2>5. Failed(h, "permitted") + Failed(h, "refused") + AuthFailed(h)
          = Failed(g, "permitted") + Failed(g, "refused") + AuthFailed(g)
              + (IF a.reason = "threw" THEN 1 ELSE 0)
    <3>1. \A q \in Outcomes : Failed(g, q) \in Nat
      BY DEF Failed
    <3>2. AuthFailed(g) \in Nat
      BY DEF AuthFailed
    <3>3. /\ Failed(h, "permitted") = Failed(g, "permitted")
                + (IF o = "permitted" /\ a.reason = "threw" THEN 1 ELSE 0)
          /\ Failed(h, "refused") = Failed(g, "refused")
                + (IF o = "refused" /\ a.reason = "threw" THEN 1 ELSE 0)
      BY <2>3, <2>4, <3>1 DEF Outcomes
    <3>4. \A x, y, z, d, e \in Nat : (x + d) + (y + e) + z = x + y + z + (d + e)
      OBVIOUS
    <3> DEFINE d == IF o = "permitted" /\ a.reason = "threw" THEN 1 ELSE 0
               e == IF o = "refused" /\ a.reason = "threw" THEN 1 ELSE 0
    <3>5. d \in Nat /\ e \in Nat /\ d + e = IF a.reason = "threw" THEN 1 ELSE 0
      BY DEF Outcomes
    <3>6. Failed(g, "permitted") \in Nat /\ Failed(g, "refused") \in Nat
      BY <3>1 DEF Outcomes
    <3> HIDE DEF d, e
    <3>7. /\ Failed(h, "permitted") = Failed(g, "permitted") + d
          /\ Failed(h, "refused") = Failed(g, "refused") + e
      BY <3>3 DEF d, e
    <3> QED
      BY <2>2, <3>2, <3>4, <3>5, <3>6, <3>7
  <2>6. a.reason = "threw" =>
          Value(new, Network) = Value(old, Network) + 1 /\ DOMAIN new = DOMAIN old \cup {Network}
    BY <2>1 DEF Inc, Value
  <2> DEFINE before == Failed(g, "permitted") + Failed(g, "refused") + AuthFailed(g)
             after == Failed(h, "permitted") + Failed(h, "refused") + AuthFailed(h)
  <2>9. before \in Nat
    <3>1. \A q \in Outcomes : Failed(g, q) \in Nat
      BY DEF Failed
    <3>2. AuthFailed(g) \in Nat
      BY DEF AuthFailed
    <3> QED
      BY <3>1, <3>2 DEF Outcomes
  <2>10. /\ Value(old, Network) = before /\ after = before + (IF a.reason = "threw" THEN 1 ELSE 0)
         /\ DOMAIN old \subseteq {Network, [kind |-> "unauthorized"]}
    BY <2>1, <2>5 DEF FailuresOK
  <2>11. DOMAIN new \subseteq {Network, [kind |-> "unauthorized"]} /\ Value(new, Network) = after
         => FailuresOK(h, new)
    BY DEF FailuresOK
  <2> HIDE DEF before, after
  <2>7. CASE a.reason = "threw"
    BY <2>6, <2>7, <2>10, <2>11 DEF new
  <2>8. CASE a.reason # "threw"
    <3>1. new = old /\ after = before
      BY <2>1, <2>8, <2>9, <2>10
    <3> QED
      BY <2>10, <2>11, <3>1 DEF new
  <2> QED
    BY <2>7, <2>8
<1>7. DenialsOK(h, fed.denialReasons.series)
  <2> DEFINE old == m.denialReasons.series
             new == fed.denialReasons.series
             preflight == [code |-> "PREFLIGHT_REJECTED"]
             reverted == [code |-> "SIMULATION_REVERTED"]
  <2>1. DenialsOK(g, old) /\ new = (CASE a.reason = "invariant" -> Inc(old, BrokenCode)
                                      [] a.reason = "preflight" -> Inc(old, preflight)
                                      [] a.reason = "reverted" -> Inc(old, reverted)
                                      [] OTHER -> old)
    BY <1>3 DEF MetricsOK
  <2>2. BrokenCode # preflight /\ BrokenCode # reverted /\ preflight # reverted
    <3>1. BrokenCode.code = "INVARIANT_BROKEN" /\ preflight.code = "PREFLIGHT_REJECTED"
          /\ reverted.code = "SIMULATION_REVERTED"
      BY DEF BrokenCode
    <3> QED
      BY <3>1
  <2>3. \A labels : DOMAIN Inc(old, labels) = DOMAIN old \cup {labels}
    BY DEF Inc
  <2> HIDE DEF old, new
  <2>4. \E l \in {BrokenCode, preflight, reverted} :
          \/ DOMAIN new = DOMAIN old \cup {l} /\ (l = BrokenCode => a.reason = "invariant")
             /\ (l = preflight => a.reason = "preflight")
          \/ DOMAIN new = DOMAIN old
    <3>1. CASE a.reason = "invariant"
      BY <2>1, <2>2, <2>3, <3>1
    <3>2. CASE a.reason = "preflight"
      BY <2>1, <2>2, <2>3, <3>2
    <3>3. CASE a.reason = "reverted"
      BY <2>1, <2>2, <2>3, <3>3
    <3>4. CASE a.reason \notin {"invariant", "preflight", "reverted"}
      BY <2>1, <3>4
    <3> QED
      BY <3>1, <3>2, <3>3, <3>4
  <2>5. \A q \in Done(g) : q \in Done(h) /\ h[q].reason = g[q].reason
    BY <1>2
  <2>6. o \in Done(h) /\ h[o].reason = a.reason
    BY <1>1, <1>2
  <2>7. DOMAIN new \subseteq {BrokenCode, preflight, reverted}
    BY <2>1, <2>4 DEF DenialsOK
  <2>8. BrokenCode \in DOMAIN new => \E q \in Done(h) : h[q].reason = "invariant"
    BY <2>1, <2>2, <2>4, <2>5, <2>6 DEF DenialsOK
  <2>9. preflight \in DOMAIN new => \E q \in Done(h) : h[q].reason = "preflight"
    BY <2>1, <2>2, <2>4, <2>5, <2>6 DEF DenialsOK
  <2> QED
    BY <2>7, <2>8, <2>9 DEF DenialsOK, new
<1>8. MarginsOK(h, fed.invariantMargin.series)
  <2> DEFINE old == m.invariantMargin.series
             new == fed.invariantMargin.series
  <2>1. MarginsOK(g, old)
        /\ new = IF a.reason = "invariant" THEN SetGauge(old, [index |-> 0], a.margin) ELSE old
    BY <1>3 DEF MetricsOK
  <2> HIDE DEF old, new
  <2>2. CASE a.reason = "invariant"
    <3>1. \A l \in DOMAIN new : new[l] = a.margin \/ (l \in DOMAIN old /\ new[l] = old[l])
      BY <2>1, <2>2 DEF SetGauge
    <3>2. \A l \in DOMAIN new : \E q \in Done(h) : h[q].reason = "invariant" /\ new[l] = h[q].margin
      <4> TAKE l \in DOMAIN new
      <4>1. CASE new[l] = a.margin
        BY <1>1, <1>2, <2>2, <4>1
      <4>2. CASE l \in DOMAIN old /\ new[l] = old[l]
        <5>1. PICK q \in Done(g) : g[q].reason = "invariant" /\ old[l] = g[q].margin
          BY <2>1, <4>2 DEF MarginsOK
        <5>2. q \in Done(h) /\ h[q] = g[q]
          BY <1>2
        <5> QED
          BY <4>2, <5>1, <5>2
      <4> QED
        BY <3>1, <4>1, <4>2
    <3> QED
      BY <3>2 DEF MarginsOK, new
  <2>3. CASE a.reason # "invariant"
    <3>1. new = old /\ \A q \in Done(g) : q \in Done(h) /\ h[q] = g[q]
      BY <1>2, <2>1, <2>3
    <3>2. \A l \in DOMAIN new : \E q \in Done(h) : h[q].reason = "invariant" /\ new[l] = h[q].margin
      <4> TAKE l \in DOMAIN new
      <4>1. PICK q \in Done(g) : g[q].reason = "invariant" /\ old[l] = g[q].margin
        BY <2>1, <3>1 DEF MarginsOK
      <4> QED
        BY <3>1, <4>1
    <3> QED
      BY <3>2 DEF MarginsOK, new
  <2> QED
    BY <2>2, <2>3
<1> QED
  BY <1>3, <1>4, <1>5, <1>6, <1>7, <1>8 DEF MetricsOK, fed

LEMMA JudgementKeeps == ASSUME NEW g, NEW m, MetricsOK(g, m) PROVE MetricsOK(g, Judged(m))
BY JudgementFeeds, TypeNames DEF MetricsOK

LEMMA AuthenticationKeeps ==
    ASSUME NEW g, NEW m, MetricsOK(g, m), "auth" \notin DOMAIN g, NEW a,
           a \in {"found", "unauthorized", "refused", Thrown},
           NEW h, h = [q \in DOMAIN g \cup {"auth"} |-> IF q = "auth" THEN a ELSE g[q]]
    PROVE  MetricsOK(h, AfterAuth(m, IF a = Thrown THEN "threw" ELSE a))
<1> DEFINE b == IF a = Thrown THEN "threw" ELSE a
           fed == AfterAuth(m, b)
           old == m.upstreamFailures.series
           new == fed.upstreamFailures.series
<1>1. DOMAIN h = DOMAIN g \cup {"auth"} /\ h["auth"] = a /\ \A q \in DOMAIN g : h[q] = g[q]
  OBVIOUS
<1>2. Done(h) = Done(g) /\ \A q \in Done(g) : h[q] = g[q]
  BY <1>1 DEF Done, Outcomes
<1>3. /\ IsRegistry(fed)
      /\ \A n \in DOMAIN Types \ {"authOk", "upstreamFailures"} : fed[n].series = m[n].series
      /\ new = (CASE b = "unauthorized" -> Inc(old, [kind |-> "unauthorized"])
                  [] b = "threw" -> Inc(old, Network)
                  [] OTHER -> old)
  <2> HIDE DEF b
  <2> QED
    BY AuthenticationFeeds DEF MetricsOK, Network
<1>4. FailuresOK(g, old)
  BY DEF MetricsOK
<1> HIDE DEF fed, old, new
<1>5. \A q \in Outcomes : Failed(h, q) = Failed(g, q) /\ Failed(g, q) \in Nat
  BY <1>1 DEF Failed, Outcomes
<1>6. AuthFailed(g) = 0 /\ AuthFailed(h) = (IF a = Thrown THEN 1 ELSE 0)
  BY <1>1 DEF AuthFailed
<1>7. Network # [kind |-> "unauthorized"]
  <2>1. Network.kind = "network" /\ [kind |-> "unauthorized"].kind = "unauthorized"
    BY DEF Network
  <2> QED
    BY <2>1
<1>8. Failed(h, "permitted") + Failed(h, "refused") + AuthFailed(h)
        = Failed(g, "permitted") + Failed(g, "refused") + AuthFailed(g) + (IF a = Thrown THEN 1 ELSE 0)
  BY <1>5, <1>6 DEF Outcomes
<1>9. DOMAIN new \subseteq {Network, [kind |-> "unauthorized"]}
      /\ Value(new, Network) = Value(old, Network) + (IF a = Thrown THEN 1 ELSE 0)
  <2>1. Value(old, Network) \in Nat
    BY <1>4, <1>5, <1>6 DEF FailuresOK, Outcomes
  <2>2. CASE a = Thrown
    BY <1>3, <1>4, <2>2 DEF FailuresOK, Inc, Value
  <2>3. CASE a # Thrown /\ a = "unauthorized"
    BY <1>3, <1>4, <1>7, <2>1, <2>3 DEF FailuresOK, Inc, Value
  <2>4. CASE a # Thrown /\ a # "unauthorized"
    BY <1>3, <1>4, <2>1, <2>4 DEF FailuresOK
  <2> QED
    BY <2>2, <2>3, <2>4
<1>10. FailuresOK(h, new)
  BY <1>4, <1>8, <1>9 DEF FailuresOK
<1>11. /\ fed.latency.series = m.latency.series /\ fed.decisions.series = m.decisions.series
       /\ fed.denialReasons.series = m.denialReasons.series
       /\ fed.invariantMargin.series = m.invariantMargin.series
  BY <1>3, TypeNames
<1>12. TimesOK(h, fed.latency.series)
  BY <1>2, <1>11 DEF MetricsOK, TimesOK
<1>13. DecisionsOK(h, fed.decisions.series)
  <2>1. DecisionsOK(g, m.decisions.series)
    BY DEF MetricsOK
  <2>2. \A q \in Done(g) : Decision(h, q) = Decision(g, q)
    BY <1>2 DEF Decision, VerdictOf
  <2> DEFINE Said(f) == {q \in Done(f) : f[q].reason # "threw"}
  <2>3. Said(h) = Said(g) /\ \A q \in Said(g) : Decision(h, q) = Decision(g, q)
    BY <1>2, <2>2
  <2>4. {Decision(h, q) : q \in Said(h)} = {Decision(g, q) : q \in Said(g)}
    <3> HIDE DEF Said
    <3> QED
      BY <2>3
  <2> QED
    BY <1>11, <2>1, <2>4 DEF DecisionsOK
<1>14. DenialsOK(h, fed.denialReasons.series)
  <2>1. DenialsOK(g, m.denialReasons.series)
    BY DEF MetricsOK
  <2> QED
    BY <1>2, <1>11, <2>1 DEF DenialsOK
<1>15. MarginsOK(h, fed.invariantMargin.series)
  <2>1. MarginsOK(g, m.invariantMargin.series)
    BY DEF MetricsOK
  <2>2. \A q \in Done(g) : q \in Done(h) /\ h[q] = g[q]
    BY <1>2
  <2>3. \A l \in DOMAIN m.invariantMargin.series :
          \E q \in Done(h) : h[q].reason = "invariant" /\ m.invariantMargin.series[l] = h[q].margin
    <3> TAKE l \in DOMAIN m.invariantMargin.series
    <3>1. PICK q \in Done(g) : g[q].reason = "invariant" /\ m.invariantMargin.series[l] = g[q].margin
      BY <2>1 DEF MarginsOK
    <3> QED
      BY <2>2, <3>1
  <2>4. MarginsOK(h, m.invariantMargin.series)
    BY <2>3 DEF MarginsOK
  <2> QED
    BY <1>11, <2>4
<1> QED
  BY <1>3, <1>10, <1>12, <1>13, <1>14, <1>15 DEF MetricsOK, fed, new
-----------------------------------------------------------------------------
(* The collector's request.                                                *)

CollectInv ==
    /\ request # Idle /\ request.kind = "collect" =>
         MetricsOK(got, registry) /\ request.waiting \cap DOMAIN got = {}
    /\ CollectionsAreTrue

LEMMA NoCollection == reply'.kind # "collect" => CollectionsAreTrue'
BY DEF CollectionsAreTrue

LEMMA AskCollects == ASSUME NEW kind \in Kinds, Ask(kind) PROVE CollectInv'
<1>1. got' = Nothing /\ registry' = Fresh /\ DOMAIN got' = {}
  BY DEF Ask, Nothing
<1>2. MetricsOK(got', registry')
  BY <1>1, FreshIsOK
<1>3. MetricsOK(got, registry)'
  BY <1>2 DEF MetricsOK, IsRegistry, TimesOK, DecisionsOK, FailuresOK, DenialsOK, MarginsOK, Done,
       Decision, Failed, AuthFailed
<1>4. reply'.kind # "collect"
  <2>1. PICK presented \in BOOLEAN : reply' = Refusal(kind, presented) \/ reply' = NoReply
    BY DEF Ask
  <2>2. Refusal(kind, presented).kind # "collect"
    BY DEF Refusal, Unauthorized, NoReply
  <2> QED
    BY <2>1, <2>2 DEF NoReply
<1> QED
  BY <1>1, <1>3, <1>4, NoCollection DEF CollectInv

LEMMA OutcomesAnswer ==
    ASSUME NEW w \in Worlds
    PROVE  /\ \A o \in Outcomes : Read(o, w).reason \in Reasons
           /\ Read("auth", w) \in {"found", "unauthorized", "refused", Thrown}
<1>1. Hub(w) \in Hubs
  BY DEF Worlds, Hub, Hubs
<1>2. \A amount : Simulated(w, amount).reason \in Reasons
  BY <1>1 DEF Simulated, GuardAnswer, Reasons, Hubs
<1>3. UserAnswer(w) \in {"found", "unauthorized", "refused", Thrown}
  BY <1>1 DEF UserAnswer, Hubs
<1> QED
  BY <1>2, <1>3 DEF Read, Outcomes

LEMMA ReadCollects ==
    ASSUME ReadsInv, CollectInv, NEW r \in request.waiting, request # Idle, ReadEnds(r)
    PROVE  CollectInv'
<1> DEFINE k == request.kind
           stage == request.stage
           a == Read(r, world)
           g == [q \in DOMAIN got \cup {r} |-> IF q = r THEN a ELSE got[q]]
           waiting == request.waiting \ {r}
           left == StagesLeft(k, stage, g)
           next == CHOOSE i \in left : \A j \in left : i <= j
           turn == {q \in Stages(k)[next] : ~ Skipped(q, g)}
<1>1. /\ got' = g /\ reply' = reply
      /\ request' = IF waiting # {} \/ left = {} THEN [request EXCEPT !.waiting = waiting]
                    ELSE [request EXCEPT !.stage = next, !.waiting = turn]
  BY DEF ReadEnds
<1>2. /\ request = [kind |-> k, stage |-> stage, waiting |-> request.waiting]
      /\ world \in Worlds /\ reply = NoReply /\ ReadingGoesOn(k, stage, request.waiting, got)
  BY DEF ReadsInv, RequestOK
<1>3. CollectionsAreTrue'
  BY <1>1, <1>2, NoCollection DEF NoReply
<1>4. request'.kind = k
  BY <1>1, <1>2
<1> SUFFICES ASSUME k = "collect"
             PROVE  MetricsOK(got, registry)' /\ request'.waiting \cap DOMAIN got' = {}
  BY <1>3, <1>4 DEF CollectInv
<1>5. MetricsOK(got, registry) /\ request.waiting \cap DOMAIN got = {} /\ r \notin DOMAIN got
  BY DEF CollectInv
<1>6. stage \in {1, 2} /\ Len(Stages(k)) = 2
      /\ r \in StageOf(k, stage) /\ (stage = 1 => DOMAIN got \subseteq Outcomes)
      /\ StageOf(k, 1) = Outcomes /\ StageOf(k, 2) = {"auth"}
  <2>1. StageOf(k, 1) = Outcomes /\ StageOf(k, 2) = {"auth"} /\ Len(Stages(k)) = 2
    BY OtherStages DEF Outcomes
  <2>2. stage \in 1 .. 2 /\ r \in StageOf(k, stage)
    BY <1>2, <2>1 DEF ReadingGoesOn
  <2>3. \A q \in DOMAIN got : \E i \in 1 .. stage : q \in StageOf(k, i)
    BY <1>2 DEF ReadingGoesOn
  <2>4. stage = 1 => DOMAIN got \subseteq Outcomes
    BY <2>1, <2>3
  <2> QED
    BY <2>1, <2>2, <2>4
<1>7. DOMAIN g = DOMAIN got \cup {r}
  OBVIOUS
<1>8. PICK seconds \in (IF r \in Outcomes THEN Seconds ELSE {0}) :
        registry' = IF waiting = {} /\ r \in Outcomes THEN Judged(Fed(r, a, seconds))
                    ELSE Fed(r, a, seconds)
  BY DEF ReadEnds
<1> HIDE DEF g
<1>9. request'.waiting \cap DOMAIN got' = {}
  <2>1. CASE waiting # {} \/ left = {}
    <3>1. request'.waiting = waiting
      BY <1>1, <1>2, <2>1
    <3> QED
      BY <1>1, <1>5, <1>7, <3>1
  <2>2. CASE waiting = {} /\ left # {}
    <3>1. request'.waiting = turn
      BY <1>1, <1>2, <2>2
    <3>2. left \subseteq stage + 1 .. 2
      BY <1>6 DEF StagesLeft
    <3>3. stage = 1 /\ next = 2
      <4>1. stage = 1 /\ left = {2}
        BY <1>6, <2>2, <3>2
      <4> HIDE DEF left
      <4> QED
        BY <4>1
    <3> HIDE DEF next, left
    <3>4. turn \subseteq {"auth"}
      BY <1>6, <3>3 DEF StageOf
    <3>5. DOMAIN g \subseteq Outcomes
      BY <1>6, <1>7, <3>3
    <3> QED
      BY <1>1, <3>1, <3>4, <3>5 DEF Outcomes
  <2> QED
    BY <2>1, <2>2
<1>10. MetricsOK(g, registry')
  <2>1. CASE r \in Outcomes
    <3> DEFINE fed == AfterSimulation(registry, r, a, seconds)
    <3>1. Fed(r, a, seconds) = fed /\ seconds \in Seconds
      BY <2>1, <1>8 DEF Fed, Outcomes
    <3>2. a.reason \in Reasons
      BY <1>2, <2>1, OutcomesAnswer
    <3> HIDE DEF a
    <3>3. MetricsOK(g, fed)
      BY <1>5, <2>1, <3>1, <3>2, SimulationKeeps DEF g
    <3> HIDE DEF fed
    <3>4. MetricsOK(g, Judged(fed))
      BY <3>3, JudgementKeeps
    <3> QED
      BY <1>8, <3>1, <3>3, <3>4
  <2>2. CASE r \notin Outcomes
    <3>1. r = "auth"
      BY <1>6, <2>2
    <3>2. registry' = AfterAuth(registry, IF a = Thrown THEN "threw" ELSE a)
      BY <1>8, <2>2, <3>1 DEF Fed
    <3>3. a \in {"found", "unauthorized", "refused", Thrown}
      BY <1>2, <3>1, OutcomesAnswer
    <3> HIDE DEF a
    <3>4. MetricsOK(g, AfterAuth(registry, IF a = Thrown THEN "threw" ELSE a))
      BY <1>5, <3>1, <3>3, AuthenticationKeeps DEF g
    <3> QED
      BY <3>2, <3>4
  <2> QED
    BY <2>1, <2>2
<1>11. MetricsOK(got', registry')
  BY <1>1, <1>10
<1>12. MetricsOK(got, registry)'
  BY <1>11 DEF MetricsOK, IsRegistry, TimesOK, DecisionsOK, FailuresOK, DenialsOK, MarginsOK, Done,
       Decision, Failed, AuthFailed
<1> QED
  BY <1>9, <1>12

\* What the rendered registry says of a metric.
LEMMA RenderedSays ==
    ASSUME NEW m, IsRegistry(m)
    PROVE  /\ Render(m)["decisions"] = CounterSamples(m.decisions.series)
           /\ Render(m)["denialReasons"] = CounterSamples(m.denialReasons.series)
           /\ Render(m)["upstreamFailures"] = CounterSamples(m.upstreamFailures.series)
           /\ Render(m)["latency"] = HistogramSamples(m.latency.series)
           /\ Render(m)["invariantMargin"] = GaugeSamples(m.invariantMargin.series)
<1>1. \A n \in DOMAIN Types : Render(m)[n] = Samples([type |-> Types[n], series |-> m[n].series])
  <2>1. /\ DOMAIN m = DOMAIN Types
        /\ \A n \in DOMAIN Types : m[n] = [type |-> Types[n], series |-> m[n].series]
    BY DEF IsRegistry
  <2> QED
    BY <2>1 DEF Render
<1>2. /\ Types["decisions"] = "counter" /\ Types["denialReasons"] = "counter"
      /\ Types["upstreamFailures"] = "counter" /\ Types["latency"] = "histogram"
      /\ Types["invariantMargin"] = "gauge"
  BY DEF Types
<1>3. \A series : /\ Samples([type |-> "counter", series |-> series]) = CounterSamples(series)
                  /\ Samples([type |-> "gauge", series |-> series]) = GaugeSamples(series)
                  /\ Samples([type |-> "histogram", series |-> series]) = HistogramSamples(series)
  BY DEF Samples
<1> QED
  BY <1>1, <1>2, <1>3, TypeNames

\* The answers of a collection that is over.
LEMMA CollectionIsOver ==
    ASSUME ReadsInv, request # Idle, request.waiting = {}, request.kind = "collect"
    PROVE  /\ Done(got) = Outcomes /\ "auth" \in DOMAIN got
           /\ \E w \in seen : got["auth"] = UserAnswer(w)
           /\ \A o \in Outcomes : \E w \in seen, amount \in {Safe, Unsafe} : got[o] = Simulated(w, amount)
<1>1. /\ StageOf(request.kind, 1) = Outcomes /\ StageOf(request.kind, 2) = {"auth"}
  BY OtherStages DEF Outcomes
<1>2. \A q : q \in Outcomes \cup {"auth"} => ~ Skipped(q, got)
  BY DEF Skipped, Outcomes
<1>3. Outcomes \cup {"auth"} \subseteq DOMAIN got /\ ReadIn(got)
  BY <1>1, <1>2, AllIsRead
<1>4. \A w : /\ Read("auth", w) = UserAnswer(w)
             /\ Read("permitted", w) = Simulated(w, Safe)
             /\ Read("refused", w) = Simulated(w, Unsafe)
  BY DEF Read
<1> QED
  BY <1>3, <1>4 DEF ReadIn, Done, Outcomes

LEMMA HealthIsInt ==
    ASSUME NEW p \in Position, NEW amount \in Nat \ {0}
    PROVE  Health(PoolEffect([fn |-> "borrowMore", value |-> 0, amount |-> amount], p)) \in Int
<1> DEFINE after == PoolEffect([fn |-> "borrowMore", value |-> 0, amount |-> amount], p)
<1>1. after = [p EXCEPT !.collateral = @ + 0, !.debt = @ + amount]
  BY DEF PoolEffect
<1>2. p = [collateral |-> p.collateral, debt |-> p.debt] /\ p.collateral \in Uint /\ p.debt \in Uint
  BY DEF Position
<1> HIDE DEF after
<1>3. after.collateral = p.collateral + 0 /\ after.debt = p.debt + amount
  BY <1>1, <1>2
<1>4. p.collateral \in Nat /\ p.debt \in Nat
  BY <1>2, PoolConstants DEF Uint
<1>5. after.collateral \in Nat /\ after.debt \in Nat \ {0}
  BY <1>3, <1>4
<1> DEFINE scaled == ((after.collateral * LtvBps) \div Bps) * Unit
<1>6. scaled \in Nat
  <2>1. after.collateral * LtvBps \in Nat
    BY <1>5, PoolConstants
  <2>2. (after.collateral * LtvBps) \div Bps \in Nat
    BY <2>1, PoolConstants
  <2> QED
    BY <2>2, PoolConstants
<1>7. Health(after) = scaled \div after.debt
  BY <1>5 DEF Health
<1> HIDE DEF scaled
<1>8. scaled \div after.debt \in Int
  BY <1>5, <1>6
<1> QED
  BY <1>7, <1>8 DEF after

LEMMA DenialsTold ==
    ASSUME ReadsInv, CollectInv, request # Idle, request.waiting = {}, request.kind = "collect",
           reply' = Collected, UNCHANGED <<env, world, seen>>
    PROVE  DenialsAreTold'
<1> DEFINE codes == registry.denialReasons.series
           margins == registry.invariantMargin.series
<1>1. MetricsOK(got, registry)
  BY DEF CollectInv
<1>2. /\ reply'.says["denialReasons"] = CounterSamples(codes)
      /\ reply'.says["invariantMargin"] = GaugeSamples(margins)
  <2>1. reply'.says = Render(registry)
    BY DEF Collected
  <2> QED
    BY <1>1, <2>1, RenderedSays DEF MetricsOK
<1>3. DenialsOK(got, codes) /\ MarginsOK(got, margins)
  BY <1>1 DEF MetricsOK
<1> HIDE DEF codes, margins
<1>4. \A w, amount : Simulated(w, amount)' = Simulated(w, amount) /\ Hub(w)' = Hub(w)
  BY DEF Simulated, Hub
<1>5. \A code : \A s \in Denials(code)' : s.labels \in DOMAIN codes /\ s.labels.code = code
  <2> SUFFICES ASSUME NEW code, NEW s \in Denials(code)'
               PROVE  s.labels \in DOMAIN codes /\ s.labels.code = code
    OBVIOUS
  <2>1. s \in CounterSamples(codes) /\ "code" \in DOMAIN s.labels /\ s.labels["code"] = code
    BY <1>2 DEF Denials, Labelled, Sample
  <2>2. s # [labels |-> NoLabels, value |-> 0]
    BY <2>1 DEF NoLabels
  <2>3. PICK l \in DOMAIN codes : s = [labels |-> l, value |-> codes[l]]
    BY <2>1, <2>2 DEF CounterSamples
  <2> QED
    BY <2>1, <2>3
<1>6. \A l \in DOMAIN codes : /\ l.code = "INVARIANT_BROKEN" => l = BrokenCode
                              /\ l.code = "PREFLIGHT_REJECTED" => l = [code |-> "PREFLIGHT_REJECTED"]
  <2>1. /\ BrokenCode.code = "INVARIANT_BROKEN"
        /\ [code |-> "PREFLIGHT_REJECTED"].code = "PREFLIGHT_REJECTED"
        /\ [code |-> "SIMULATION_REVERTED"].code = "SIMULATION_REVERTED"
    BY DEF BrokenCode
  <2>2. \A l \in DOMAIN codes :
          l \in {BrokenCode, [code |-> "PREFLIGHT_REJECTED"], [code |-> "SIMULATION_REVERTED"]}
    BY <1>3 DEF DenialsOK
  <2> QED
    BY <2>1, <2>2
<1>7. \A s \in Denials("INVARIANT_BROKEN")' :
         \E w \in seen, amount \in {Safe, Unsafe} : Simulated(w, amount).reason = "invariant"
  <2> SUFFICES ASSUME NEW s \in Denials("INVARIANT_BROKEN")'
               PROVE  \E w \in seen, amount \in {Safe, Unsafe} : Simulated(w, amount).reason = "invariant"
    OBVIOUS
  <2>1. BrokenCode \in DOMAIN codes
    BY <1>5, <1>6
  <2>2. PICK o \in Outcomes : got[o].reason = "invariant"
    BY <1>3, <2>1 DEF DenialsOK, Done
  <2> QED
    BY <2>2, CollectionIsOver
<1>8. \A s \in Sample("invariantMargin")' :
         \E w \in seen, amount \in {Safe, Unsafe} :
            Health(PoolEffect([fn |-> "borrowMore", value |-> 0, amount |-> amount], w.position))
                + s.value = Floor
  <2> SUFFICES ASSUME NEW s \in Sample("invariantMargin")'
               PROVE  \E w \in seen, amount \in {Safe, Unsafe} :
                 Health(PoolEffect([fn |-> "borrowMore", value |-> 0, amount |-> amount], w.position))
                    + s.value = Floor
    OBVIOUS
  <2>1. PICK l \in DOMAIN margins : s = [labels |-> l, value |-> margins[l]]
    BY <1>2 DEF Sample, GaugeSamples
  <2>2. PICK o \in Outcomes : got[o].reason = "invariant" /\ s.value = got[o].margin
    BY <1>3, <2>1 DEF MarginsOK, Done
  <2>3. PICK w \in seen, amount \in {Safe, Unsafe} : got[o] = Simulated(w, amount)
    BY <2>2, CollectionIsOver
  <2> DEFINE borrow == [fn |-> "borrowMore", value |-> 0, amount |-> amount]
             health == Health(PoolEffect(borrow, w.position))
  <2>4. s.value = Floor - health
    <3>1. Hub(w) \in Hubs
      BY DEF ReadsInv, Worlds, Hub, Hubs
    <3>2. got[o] = GuardAnswer(w, amount)
      BY <2>2, <2>3, <3>1 DEF Simulated, Hubs
    <3> HIDE DEF health
    <3>3. got[o].margin = Floor - health
      BY <2>2, <3>2 DEF GuardAnswer, health
    <3> QED
      BY <2>2, <3>3
  <2>5. health \in Int /\ Floor \in Int
    <3>1. w.position \in Position /\ amount \in Nat \ {0} /\ Floor \in Nat
      BY ReadsConstants DEF ReadsInv, Worlds
    <3>2. health \in Int
      BY <3>1, HealthIsInt
    <3> QED
      BY <3>1, <3>2
  <2> HIDE DEF health
  <2>6. health + s.value = Floor
    BY <2>4, <2>5
  <2> QED
    BY <2>6 DEF health
<1>9. Denials("PREFLIGHT_REJECTED")' # {} => \E w \in seen : Hub(w) = "unfunded"
  <2> SUFFICES ASSUME NEW s \in Denials("PREFLIGHT_REJECTED")' PROVE \E w \in seen : Hub(w) = "unfunded"
    OBVIOUS
  <2>1. [code |-> "PREFLIGHT_REJECTED"] \in DOMAIN codes
    BY <1>5, <1>6
  <2>2. PICK o \in Outcomes : got[o].reason = "preflight"
    BY <1>3, <2>1 DEF DenialsOK, Done
  <2>3. PICK w \in seen, amount \in {Safe, Unsafe} : got[o] = Simulated(w, amount)
    BY <2>2, CollectionIsOver
  <2>4. Hub(w) \in Hubs
    BY DEF ReadsInv, Worlds, Hub, Hubs
  <2> QED
    BY <2>2, <2>3, <2>4 DEF Simulated, GuardAnswer, Hubs
<1> QED
  BY <1>4, <1>7, <1>8, <1>9 DEF DenialsAreTold, Sometime

\* The timing of each simulation, in its buckets.
LEMMA TimesTold ==
    ASSUME NEW series, TimesOK(got, series), Done(got) = Outcomes
    PROVE  /\ {s.labels.outcome : s \in HistogramSamples(series)} = Outcomes
           /\ \A s \in HistogramSamples(series) :
                /\ s.count = 1 /\ s.inf = s.count
                /\ \A b, c \in DOMAIN s.buckets : b <= c => s.buckets[b] <= s.buckets[c]
                /\ \A b \in DOMAIN s.buckets : (s.buckets[b] = 1) = (s.sum <= b)
<1> DEFINE Line(o) == [labels |-> [outcome |-> o], buckets |-> series[[outcome |-> o]].counts,
                       inf |-> series[[outcome |-> o]].count, sum |-> series[[outcome |-> o]].sum,
                       count |-> series[[outcome |-> o]].count]
<1>1. HistogramSamples(series) = {Line(o) : o \in Outcomes}
  <2>1. DOMAIN series = {[outcome |-> o] : o \in Outcomes}
    BY DEF TimesOK
  <2>2. HistogramSamples(series) = {Line(o) : o \in Outcomes}
    <3>1. \A s \in HistogramSamples(series) : \E o \in Outcomes : s = Line(o)
      BY <2>1 DEF HistogramSamples
    <3>2. \A o \in Outcomes : Line(o) \in HistogramSamples(series)
      BY <2>1 DEF HistogramSamples
    <3> HIDE DEF Line
    <3> QED
      BY <3>1, <3>2
  <2> QED
    BY <2>2
<1>2. \A o : Line(o).labels.outcome = o
  OBVIOUS
<1>3. ASSUME NEW o \in Outcomes
      PROVE  /\ Line(o).count = 1 /\ Line(o).inf = Line(o).count
             /\ \A b, c \in DOMAIN Line(o).buckets : b <= c => Line(o).buckets[b] <= Line(o).buckets[c]
             /\ \A b \in DOMAIN Line(o).buckets : (Line(o).buckets[b] = 1) = (Line(o).sum <= b)
  <2>1. PICK seconds \in Seconds : series[[outcome |-> o]] = Observation(seconds)
    BY <1>3 DEF TimesOK
  <2>2. /\ Line(o).count = 1 /\ Line(o).inf = 1 /\ Line(o).sum = seconds
        /\ Line(o).buckets = [b \in LatencyBounds |-> IF seconds <= b THEN 1 ELSE 0]
    BY <2>1 DEF Observation
  <2> HIDE DEF Line
  <2>3. seconds \in Int /\ LatencyBounds \subseteq Int
    BY ReadsConstants
  <2>4. \A b, c \in LatencyBounds : b <= c => Line(o).buckets[b] <= Line(o).buckets[c]
    BY <2>2, <2>3
  <2>5. \A b \in LatencyBounds : (Line(o).buckets[b] = 1) = (Line(o).sum <= b)
    BY <2>2, <2>3
  <2> QED
    BY <2>2, <2>4, <2>5
<1> HIDE DEF Line
<1>4. {s.labels.outcome : s \in HistogramSamples(series)} = Outcomes
  BY <1>1, <1>2
<1> QED
  BY <1>1, <1>3, <1>4

\* Two simulations are two decisions and failures; the third request may be
\* one more.
LEMMA DecisionsTold ==
    ASSUME NEW series, DecisionsOK(got, series), Done(got) = Outcomes
    PROVE  SumOfValues(CounterSamples(series)) = 2 - (Failed(got, "permitted") + Failed(got, "refused"))
<1> DEFINE Line(o) == [labels |-> Decision(got, o), value |-> 1]
           S == CounterSamples(series)
           Said == {o \in Outcomes : got[o].reason # "threw"}
<1>1. \A o : Failed(got, o) \in {0, 1}
  BY DEF Failed
<1>2. \A o \in Outcomes : Failed(got, o) = (IF o \in Said THEN 0 ELSE 1)
  BY DEF Failed, Done
<1>3. DOMAIN series = {Decision(got, o) : o \in Said} /\ \A l \in DOMAIN series : series[l] = 1
  BY DEF DecisionsOK
<1>4. \A o, q : Line(o) = Line(q) => o = q
  <2>1. \A o : Line(o).labels.outcome = o
    BY DEF Decision
  <2> HIDE DEF Line
  <2> QED
    BY <2>1
<1>5. \A o : Line(o).value = 1
  OBVIOUS
<1>6. CASE Said = {}
  <2> DEFINE nothing == [labels |-> NoLabels, value |-> 0]
             other == [labels |-> NoLabels, value |-> 1]
  <2>1. S = {nothing}
    BY <1>3, <1>6 DEF CounterSamples
  <2>2. nothing.value = 0 /\ other.value = 1
    OBVIOUS
  <2> HIDE DEF nothing, other, S
  <2>3. nothing # other /\ S \in SUBSET {nothing, other} /\ nothing.value \in Int /\ other.value \in Int
    BY <2>1, <2>2
  <2>4. SumOfValues(S) = Counted(nothing, S) + Counted(other, S)
    BY <2>3, SumOfTwo
  <2>5. Counted(nothing, S) = 0 /\ Counted(other, S) = 0
    BY <2>1, <2>2, <2>3 DEF Counted
  <2>6. Failed(got, "permitted") = 1 /\ Failed(got, "refused") = 1
    BY <1>2, <1>6 DEF Outcomes
  <2> QED
    BY <2>4, <2>5, <2>6 DEF S
<1>7. CASE Said # {}
  <2>1. S = {Line(o) : o \in Said}
    <3>1. DOMAIN series # {}
      BY <1>3, <1>7
    <3>2. S = {[labels |-> l, value |-> series[l]] : l \in DOMAIN series}
      BY <3>1 DEF CounterSamples
    <3>3. \A l \in DOMAIN series : [labels |-> l, value |-> series[l]] = [labels |-> l, value |-> 1]
      BY <1>3
    <3> HIDE DEF S, Said
    <3> QED
      BY <1>3, <3>2, <3>3
  <2>2. Said \subseteq {"permitted", "refused"}
    BY DEF Outcomes
  <2> HIDE DEF Line, S
  <2>3. \A o : Line(o) \in S <=> o \in Said
    BY <1>4, <2>1
  <2> HIDE DEF Said
  <2>4. Line("permitted") # Line("refused") /\ S \in SUBSET {Line("permitted"), Line("refused")}
    BY <1>4, <2>1, <2>2
  <2>5. SumOfValues(S) = Counted(Line("permitted"), S) + Counted(Line("refused"), S)
    <3>1. Line("permitted").value \in Int /\ Line("refused").value \in Int
      BY <1>5
    <3> QED
      BY <2>4, <3>1, SumOfTwo
  <2>6. \A o \in Outcomes : Counted(Line(o), S) = 1 - Failed(got, o)
    BY <1>2, <1>5, <2>3 DEF Counted
  <2>7. "permitted" \in Outcomes /\ "refused" \in Outcomes
    BY DEF Outcomes
  <2>8. \A x, y \in {0, 1} : (1 - x) + (1 - y) = 2 - (x + y)
    OBVIOUS
  <2> QED
    BY <1>1, <2>5, <2>6, <2>7, <2>8 DEF S
<1> QED
  BY <1>6, <1>7

LEMMA FailuresTold ==
    ASSUME NEW series, FailuresOK(got, series),
           NEW S, S = {s \in CounterSamples(series) :
                         "kind" \in DOMAIN s.labels /\ s.labels["kind"] = "network"}
    PROVE  SumOfValues(S) = Failed(got, "permitted") + Failed(got, "refused") + AuthFailed(got)
<1> DEFINE line == [labels |-> Network, value |-> Value(series, Network)]
           nothing == [labels |-> NoLabels, value |-> 0]
           total == Failed(got, "permitted") + Failed(got, "refused") + AuthFailed(got)
<1>1. total \in Nat /\ Value(series, Network) = total
  <2>1. /\ Failed(got, "permitted") \in Nat /\ Failed(got, "refused") \in Nat
        /\ AuthFailed(got) \in Nat
    BY DEF Failed, AuthFailed
  <2> QED
    BY <2>1 DEF FailuresOK
<1>2. line.value = total /\ nothing.value = 0 /\ line.labels = Network /\ nothing.labels = NoLabels
  BY <1>1
<1>3. Network # NoLabels
  <2>1. "kind" \in DOMAIN Network /\ DOMAIN NoLabels = {}
    BY DEF Network, NoLabels
  <2> QED
    BY <2>1
<1>4. /\ "kind" \in DOMAIN Network /\ Network["kind"] = "network"
      /\ [kind |-> "unauthorized"]["kind"] = "unauthorized" /\ DOMAIN NoLabels = {}
  BY DEF Network, NoLabels
<1>5. S = IF Network \in DOMAIN series THEN {line} ELSE {}
  <2>1. \A s \in S : Network \in DOMAIN series /\ s = line
    <3> TAKE s \in S
    <3>1. s # nothing
      BY <1>4
    <3>2. PICK l \in DOMAIN series : s = [labels |-> l, value |-> series[l]]
      BY <3>1 DEF CounterSamples
    <3>3. l \in {Network, [kind |-> "unauthorized"]} /\ l["kind"] = "network"
      BY <3>2 DEF FailuresOK
    <3>4. l = Network
      BY <1>4, <3>3
    <3> QED
      BY <3>2, <3>4 DEF Value
  <2>2. Network \in DOMAIN series => line \in S
    <3> SUFFICES ASSUME Network \in DOMAIN series PROVE line \in S
      OBVIOUS
    <3>1. line = [labels |-> Network, value |-> series[Network]]
      BY DEF Value
    <3>2. line \in CounterSamples(series)
      BY <3>1 DEF CounterSamples
    <3> HIDE DEF line
    <3> QED
      BY <1>2, <1>4, <3>2
  <2> HIDE DEF line
  <2> QED
    BY <2>1, <2>2
<1> HIDE DEF line, nothing, total
<1>6. S \in SUBSET {line, nothing} /\ line # nothing /\ line.value \in Int /\ nothing.value \in Int
  BY <1>1, <1>2, <1>3, <1>5
<1>7. SumOfValues(S) = Counted(line, S) + Counted(nothing, S)
  BY <1>6, SumOfTwo
<1>8. nothing \notin S /\ Counted(nothing, S) = 0
  BY <1>5, <1>6 DEF Counted
<1>9. Counted(line, S) = total
  <2>1. CASE Network \in DOMAIN series
    BY <1>2, <1>5, <2>1 DEF Counted
  <2>2. CASE Network \notin DOMAIN series
    <3>1. total = 0
      BY <1>1, <2>2 DEF Value
    <3> QED
      BY <1>5, <2>2, <3>1 DEF Counted
  <2> QED
    BY <2>1, <2>2
<1> QED
  BY <1>1, <1>7, <1>8, <1>9 DEF total

LEMMA CountsTold ==
    ASSUME ReadsInv, CollectInv, request # Idle, request.waiting = {}, request.kind = "collect",
           reply' = Collected, UNCHANGED <<env, world, seen>>
    PROVE  EverySimulationCountsOnce'
<1>1. MetricsOK(got, registry)
  BY DEF CollectInv
<1>2. /\ Sample("latency")' = HistogramSamples(registry.latency.series)
      /\ Sample("decisions")' = CounterSamples(registry.decisions.series)
      /\ Sample("upstreamFailures")' = CounterSamples(registry.upstreamFailures.series)
  <2>1. reply'.says = Render(registry)
    BY DEF Collected
  <2> QED
    BY <1>1, <2>1, RenderedSays DEF MetricsOK, Sample
<1>3. Done(got) = Outcomes
  BY CollectionIsOver
<1> DEFINE p == Failed(got, "permitted")
           q == Failed(got, "refused")
           z == AuthFailed(got)
<1>4. SumOfValues(Sample("decisions")') = 2 - (p + q)
  BY <1>1, <1>2, <1>3, DecisionsTold DEF MetricsOK
<1>5. SumOfValues(Networks') = p + q + z
  <2>1. Networks' = {s \in CounterSamples(registry.upstreamFailures.series) :
                       "kind" \in DOMAIN s.labels /\ s.labels["kind"] = "network"}
    BY <1>2 DEF Networks, Labelled
  <2> QED
    BY <1>1, <2>1, FailuresTold DEF MetricsOK
<1>6. p \in {0, 1} /\ q \in {0, 1} /\ z \in {0, 1}
  BY DEF Failed, AuthFailed
<1> HIDE DEF p, q
<1>7. SumOfValues(Sample("decisions")') + SumOfValues(Networks') = 2 + z
  <2>1. \A x, y, t \in {0, 1} : (2 - (x + y)) + (x + y + t) = 2 + t
    OBVIOUS
  <2> QED
    BY <1>4, <1>5, <1>6, <2>1
<1>8. PICK w \in seen : got["auth"] = UserAnswer(w)
  BY CollectionIsOver
<1>9. "auth" \in DOMAIN got /\ Hub(w) \in Hubs
  BY CollectionIsOver DEF ReadsInv, Worlds, Hub, Hubs
<1>10. z = 1 <=> Hub(w) = "down"
  BY <1>8, <1>9, ReadsConstants DEF UserAnswer, AuthFailed, Hubs
<1> HIDE DEF z
<1>11. \A v : Hub(v)' = Hub(v)
  BY DEF Hub
<1>12. Tallied' = SumOfValues(Sample("decisions")') + SumOfValues(Networks')
  BY DEF Tallied, SumOfValues, MapThenSumSet, MapThenFoldSet
<1>13. Tallied' = 2 + z
  BY <1>7, <1>12
<1>14. /\ Tallied' \in {2, 3}
       /\ (\A v \in seen : Hub(v) = "down") => Tallied' = 3
       /\ (\A v \in seen : Hub(v) # "down") => Tallied' = 2
  BY <1>6, <1>10, <1>13
<1>15. /\ {s.labels.outcome : s \in Sample("latency")'} = Outcomes
       /\ \A s \in Sample("latency")' :
            /\ s.count = 1 /\ s.inf = s.count
            /\ \A b, c \in DOMAIN s.buckets : b <= c => s.buckets[b] <= s.buckets[c]
            /\ \A b \in DOMAIN s.buckets : (s.buckets[b] = 1) = (s.sum <= b)
  BY <1>1, <1>2, <1>3, TimesTold DEF MetricsOK
<1> QED
  BY <1>11, <1>14, <1>15 DEF EverySimulationCountsOnce, Steady

LEMMA CollectIsInv == ReadsSpec => []CollectInv
<1>1. ReadsInit => CollectInv
  BY DEF ReadsInit, CollectInv, NoReply, CollectionsAreTrue, Idle
<1>2. ReadsInv /\ CollectInv /\ [ReadsNext]_readsVars => CollectInv'
  <2> SUFFICES ASSUME ReadsInv, CollectInv, [ReadsNext]_readsVars PROVE CollectInv'
    OBVIOUS
  \* A step of the world, or none.
  <2>1. ASSUME UNCHANGED <<request, got, registry>>, CollectionsAreTrue' PROVE CollectInv'
    BY <2>1 DEF CollectInv, MetricsOK, IsRegistry, TimesOK, DecisionsOK, FailuresOK, DenialsOK,
         MarginsOK, Done, Decision, Failed, AuthFailed
  <2>2. CASE \E kind \in Kinds : Ask(kind)
    BY <2>2, AskCollects
  <2>3. CASE \E r \in request.waiting : ReadEnds(r)
    <3>1. request # Idle
      BY <2>3 DEF Idle
    <3> QED
      BY <2>3, <3>1, ReadCollects
  <2>4. CASE Respond
    <3>1. /\ request # Idle /\ request.waiting = {} /\ request' = Idle
          /\ reply' = Answer(request.kind, got) /\ UNCHANGED <<env, world, seen>>
      BY <2>4 DEF Respond
    <3>2. request.kind \in Kinds
      BY <3>1, AllIsRead
    <3>3. CASE request.kind = "collect"
      <4>1. reply' = Collected
        BY <3>1, <3>3 DEF Answer
      <4>2. DenialsAreTold' /\ EverySimulationCountsOnce'
        BY <3>1, <3>3, <4>1, DenialsTold, CountsTold
      <4> QED
        BY <3>1, <4>2 DEF CollectInv, CollectionsAreTrue
    <3>4. CASE request.kind # "collect"
      <4>1. reply'.kind # "collect"
        BY <3>1, <3>2, <3>4 DEF Kinds, Answer, Readyz, Health200, Overview, Metrics, GuardPage,
             PositionRoute, ProbeAnswer
      <4> QED
        BY <3>1, <4>1, NoCollection DEF CollectInv
    <3> QED
      BY <3>3, <3>4
  <2>5. CASE \E w : Becomes(w)
    <3>1. UNCHANGED <<request, got, registry>> /\ (reply' = NoReply \/ (request # Idle /\ reply' = reply))
      BY <2>5 DEF Becomes
    <3>2. reply' = NoReply
      BY <3>1 DEF ReadsInv, RequestOK
    <3> QED
      BY <2>1, <3>1, <3>2, NoCollection DEF NoReply
  <2>6. CASE UNCHANGED readsVars
    <3>1. UNCHANGED <<env, world, request, got, registry, reply, seen>>
      BY <2>6 DEF readsVars
    <3>2. \A w, amount : Hub(w)' = Hub(w) /\ Simulated(w, amount)' = Simulated(w, amount)
      BY <3>1 DEF Hub, Simulated
    <3>3. \A name : Sample(name)' = Sample(name)
      BY <3>1 DEF Sample
    <3>4. DenialsAreTold' <=> DenialsAreTold
      BY <3>1, <3>2, <3>3 DEF DenialsAreTold, Sometime, Denials, Labelled
    <3>5. Tallied' = Tallied
      BY <3>3 DEF Tallied, Networks, Labelled, SumOfValues, MapThenSumSet, MapThenFoldSet
    <3>6. EverySimulationCountsOnce' <=> EverySimulationCountsOnce
      BY <3>1, <3>2, <3>3, <3>5 DEF EverySimulationCountsOnce, Steady
    <3>7. CollectionsAreTrue'
      BY <3>1, <3>4, <3>6 DEF CollectInv, CollectionsAreTrue
    <3> QED
      BY <2>1, <3>1, <3>7
  <2> QED
    BY <2>2, <2>3, <2>4, <2>5, <2>6 DEF ReadsNext, KeeperHubChanges, RpcChanges, BatchIsAnchored,
         PositionMoves, StoreChanges, AdminSetsExecutor
<1> QED
  BY <1>1, <1>2, ReadsIsInv, PTL DEF ReadsSpec

\* What a collection says happened in it: each simulation is timed once and is
\* one decision or one failure, whatever came back, each denial has its reason
\* and its margin from a world of the scrape, and the buckets are cumulative,
\* for every bucket, every duration and every change between the requests.
THEOREM CollectionsHold == ReadsSpec => []CollectionsAreTrue
<1>1. CollectInv => CollectionsAreTrue
  BY DEF CollectInv
<1> QED
  BY <1>1, CollectIsInv, PTL
=============================================================================
