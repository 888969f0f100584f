---------------------------- MODULE MCMjpgProxy ----------------------------
(* MjpgProxy on a small instance.                                          *)
EXTENDS MjpgProxy

\* Every picture of up to four bytes that can mislead the search for the
\* boundary, line ends, and pictures that are too long by one byte and by two.
Short ==
  {f \in UNION {[1 .. n -> {"-", "b", "LF"}] : n \in 1 .. 4} : ~HoldsBoundary(f)}
LineEnds == {CRLF, CRLF \o CRLF}
Long == {[i \in 1 .. n |-> "x"] : n \in {7, 8}}

Pictures == Short \cup LineEnds \cup Long

=============================================================================
