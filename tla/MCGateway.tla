----------------------------- MODULE MCGateway ------------------------------
(***************************************************************************)
(* Two requests for one intent under one key, whose verdict changes with   *)
(* the clock (schedule windows), and which keeps that key when resubmitted.*)
(***************************************************************************)
EXTENDS Gateway

MCRequests == {"first", "again"}
MCIntent == [r \in MCRequests |-> "repay"]
MCKey == [r \in MCRequests |-> "k"]
MCPolicy == [i \in Intents |-> Verdicts]
=============================================================================
