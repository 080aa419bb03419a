---------------------------- MODULE MCAnchoring -----------------------------
(***************************************************************************)
(* Five receipts over two hours: three intents in the first; in the second *)
(* a new decision on the first intent, and an intent decided under another *)
(* policy.  The order of the digests is not that of the decisions.         *)
(***************************************************************************)
EXTENDS Anchoring

CONSTANTS d1, d2, d3, d4, d5

MCReceipts == 1 .. 5
MCDigest == <<d1, d2, d3, d4, d5>>
MCDigestRank == <<2, 4, 1, 5, 3>>
MCIntent == <<"a", "b", "c", "a", "d">>
MCHour == <<1, 1, 1, 2, 2>>
MCPolicyHash == <<"p1", "p1", "p1", "p1", "p2">>
MCRoots == {BatchRoot[batch] : batch \in Batches} \cup {NoRoot}
MCAccounts == {"zero", "deployer", "wallet"}
MCPolicies == {"none", "p1", "p2"}
=============================================================================
