-------------------------- MODULE MCResultService --------------------------
(* ResultService on small instances.                                       *)
EXTENDS ResultService
=============================================================================
