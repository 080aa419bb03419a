------------------------------ MODULE MCKeeper ------------------------------
(***************************************************************************)
(* A health factor in tenths, a threshold of three quarters.  Collateral   *)
(* is such that the threshold and the debt at the target are rounded, that *)
(* there is as good as none, and that the health factor may overflow.      *)
(***************************************************************************)
EXTENDS Keeper

MCPositions ==
    {[collateral |-> 1, debt |-> 3], [collateral |-> 7, debt |-> 3], [collateral |-> 8, debt |-> 5]}

MCMoves ==
    {[fn |-> "borrowMore", amount |-> 1, value |-> 0],
     [fn |-> "depositCollateral", amount |-> 0, value |-> 1],
     [fn |-> "repay", amount |-> 1, value |-> 0]}
=============================================================================
