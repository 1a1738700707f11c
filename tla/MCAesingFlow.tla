---------------------------- MODULE MCAesingFlow ----------------------------
(* Instances of AesingFlow; its constants are given in the configurations.  *)
EXTENDS AesingFlow
=============================================================================
