-------------------------- MODULE MCAnchorConsumer --------------------------
(* Constants are numbers: see the cfg files.                               *)
EXTENDS AnchorConsumer
=============================================================================
