---------------------------- MODULE MCLiveReads -----------------------------
(***************************************************************************)
(* A complete deployment and a bare one.  Amounts are tenths of the coin:  *)
(* the probe borrows 0.5 and 15, the collector 1.5 and 1.1; the debts lie  *)
(* on both sides of every one of these.                                    *)
(***************************************************************************)
EXTENDS LiveReads

Names == {"guard", "target", "floor", "key", "anchor", "database", "token", "executor"}
MCEnvironments ==
    {[n \in Names \cup {"seeds"} |->
        CASE n = "seeds" -> <<"whole", "no hash">> [] n = "executor" -> "hub" [] OTHER -> "set"],
     [n \in Names \cup {"seeds"} |->
        CASE n = "seeds" -> <<>> [] n \in {"key", "token"} -> "" [] OTHER -> "unset"]}
MCWallets == {"hub"}
MCPositions ==
    {[collateral |-> 100, debt |-> 0], [collateral |-> 100, debt |-> 50],
     [collateral |-> 100, debt |-> 60]}
MCBuckets == <<4, 1>>
MCSeconds == {1, 9}
=============================================================================
