-------------------------- MODULE MCRobotServices --------------------------
(* RobotServices on small instances.                                       *)
EXTENDS RobotServices
=============================================================================
