----------------------------- MODULE PostState ------------------------------
(***************************************************************************)
(* The post-state invariants of NoYeetGuard.sol: which word of             *)
(* getUserAccountData is read, how it is compared with the threshold, and  *)
(* what it means that a move from one position to another respects a list  *)
(* of invariants.                                                          *)
(***************************************************************************)
EXTENDS PositionPool, Sequences

Ops == {"GTE", "LTE", "EQ", "REL_DEC_MAX", "REL_INC_MAX"}
Relative == {"REL_DEC_MAX", "REL_INC_MAX"}
Invariant == [word : 0 .. 255, op : Ops, threshold : Uint]

WordsReturned == 6

\* _probe reverts: PROBE_FAILED when the read reverts, PROBE_SHORT when the
\* returned data has no such word.
ProbeReverts(iv, p) == HealthReverts(p) \/ iv.word >= WordsReturned

Probe(iv, p) ==
    CASE iv.word = 0 -> p.collateral
      [] iv.word = 1 -> p.debt
      [] iv.word = 5 -> Health(p)
      [] OTHER -> 0

\* _assert on one invariant: start is its snapshot, got the value it reads.
Broken(iv, start, got) ==
    \/ iv.op = "GTE" /\ got < iv.threshold
    \/ iv.op = "LTE" /\ got > iv.threshold
    \/ iv.op = "EQ" /\ got # iv.threshold
    \/ iv.op = "REL_DEC_MAX" /\ got < start /\ start - got > iv.threshold
    \/ iv.op = "REL_INC_MAX" /\ got > start /\ got - start > iv.threshold

\* Moving the position from before to after keeps every bound of inv; a
\* position no probe can read keeps none.
Respects(inv, before, after) ==
    \A k \in DOMAIN inv :
        /\ ~ProbeReverts(inv[k], after)
        /\ inv[k].op \in Relative => ~ProbeReverts(inv[k], before)
        /\ ~Broken(inv[k], Probe(inv[k], before), Probe(inv[k], after))
=============================================================================
