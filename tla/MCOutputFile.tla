---------------------------- MODULE MCOutputFile ----------------------------
(* OutputFile on small instances.                                          *)
EXTENDS OutputFile

CONSTANT t1

Setup(takers, size, exceed, asMovie) ==
  [takers |-> takers, size |-> size, exceed |-> exceed, movie |-> asMovie,
   failures |-> takers = {}, short |-> FALSE, spurious |-> FALSE, jumps |-> FALSE,
   pics |-> IF takers = {} THEN 3 ELSE 2, seconds |-> 2, restarts |-> 1]

\* Without browsers realloc and unlink may fail, or not; with one, a snapshot
\* may be taken at any time.  The ring buffer keeps no file, one file, or all.
\* The time may be set back, write() may store less than it was given, and
\* threads may wake spuriously.
Alone == {Setup({}, size, exceed, FALSE) : size \in {-1, 0, 1}, exceed \in {0, 1}}
Reliable == {[Setup({}, size, exceed, FALSE) EXCEPT !.failures = FALSE] : size \in {0, 1}, exceed \in {0, 1}}
SetBackTimes == {[s EXCEPT !.jumps = TRUE] : s \in Reliable}
Movies == {[Setup({}, -1, 0, TRUE) EXCEPT !.short = less, !.spurious = wakes] : less, wakes \in BOOLEAN}
Worse == {[Setup({}, 1, 1, FALSE) EXCEPT !.short = TRUE, !.spurious = TRUE, !.restarts = 0]}
Asked == {Setup({t1}, 1, 1, FALSE),
          [Setup({t1}, -1, 0, TRUE) EXCEPT !.failures = TRUE, !.short = TRUE, !.spurious = TRUE]}
AllSetups == Alone \cup Reliable \cup SetBackTimes \cup Movies \cup Worse \cup Asked

Snapshots == {[Setup({t1}, -1, 0, FALSE) EXCEPT !.pics = 3, !.restarts = 0, !.seconds = 1]}
=============================================================================
