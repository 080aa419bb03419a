------------------------- MODULE MCKeeperHubClient --------------------------
(***************************************************************************)
(* Three sends of one target: the second resubmits the first under its     *)
(* key, the third reuses that key for another body.                        *)
(***************************************************************************)
EXTENDS KeeperHubClient

MCSends == {"first", "again", "other"}
MCTarget == [s \in MCSends |-> "pool"]
MCKey == [s \in MCSends |-> "k"]
MCBody == [s \in MCSends |-> IF s = "other" THEN "b2" ELSE "b1"]
=============================================================================
