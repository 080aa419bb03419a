------------------------------ MODULE MCGuard -------------------------------
(***************************************************************************)
(* Small instances of Guard for TLC.                                       *)
(***************************************************************************)
EXTENDS Guard

BorrowBy(n, v) == [fn |-> "borrowMore", amount |-> n, value |-> v]
RepayBy(n) == [fn |-> "repay", amount |-> n, value |-> 0]
Deposit(v) == [fn |-> "depositCollateral", amount |-> 0, value |-> v]
CallTo(c, v) == [fn |-> c, amount |-> 0, value |-> v]
Iv(w, o, t) == [word |-> w, op |-> o, threshold |-> t]

\* The agent is a contract: it can be an executor, the callee of a guarded
\* call, and the admin that rotates executors in the middle of one.
MCAccounts == {"bot", "agent"}
MCContracts == {"agent"}
MCSeeds == {[collateral |-> 4, debt |-> 2], [collateral |-> 4, debt |-> 3]}
MCWei == {0, 1}

\* A floor on the health factor, relative bounds both ways, equality, a word
\* the pool does not return, and no invariant at all.
MCPrograms ==
    { [calls |-> <<BorrowBy(1, 0)>>, inv |-> <<Iv(5, "GTE", 3)>>],
      [calls |-> <<BorrowBy(2, 1), RepayBy(9)>>, inv |-> <<Iv(1, "LTE", 2), Iv(5, "REL_INC_MAX", 6)>>],
      [calls |-> <<CallTo("agent", 0), BorrowBy(1, 0)>>, inv |-> <<Iv(1, "REL_INC_MAX", 1)>>],
      [calls |-> <<RepayBy(2), CallTo("agent", 1)>>, inv |-> <<Iv(1, "REL_DEC_MAX", 1), Iv(5, "GTE", 2)>>],
      [calls |-> <<Deposit(1), CallTo("failing", 0)>>, inv |-> <<>>],
      [calls |-> <<RepayBy(1)>>, inv |-> <<Iv(6, "EQ", 0)>>],
      [calls |-> <<RepayBy(1), BorrowBy(1, 0)>>, inv |-> <<Iv(0, "EQ", 4), Iv(1, "REL_DEC_MAX", 0)>>],
      [calls |-> <<BorrowBy(5, 0)>>, inv |-> <<>>] }
=============================================================================
