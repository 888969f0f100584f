--------------------------- MODULE MCFrameHandoff ---------------------------
(* FrameHandoff on small instances.                                        *)
EXTENDS FrameHandoff
=============================================================================
