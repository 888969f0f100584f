----------------------------- MODULE MCRaspicam -----------------------------
(* Raspicam on a small instance: one kind of failure in each behaviour.    *)
EXTENDS Raspicam

OneOfThem == {{what} : what \in Failures}

=============================================================================
