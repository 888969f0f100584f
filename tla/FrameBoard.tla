----------------------------- MODULE FrameBoard -----------------------------
(***************************************************************************)
(* What the frame buffer of an input plugin promises its readers, with no  *)
(* threads and no locks: a board that shows the latest publication.  A     *)
(* reader takes the whole of what the board shows, and never takes the     *)
(* same publication twice or an older one after a newer one.  When the     *)
(* publisher has retired, a reader may still look, but finds nothing or    *)
(* what is left of the board.                                              *)
(***************************************************************************)
EXTENDS Naturals

CONSTANTS
  Clients,   \* the readers
  Pictures,  \* what can be published
  Freed      \* what is left of a board whose publisher retired

VARIABLES
  latest,   \* the publication on the board: its number and its picture
  open,     \* has the publisher not retired yet?
  seen      \* the publication each client took last

vars == <<latest, open, seen>>

NoFrame == [pub |-> 0, picture |-> 0]

Init ==
  /\ latest = NoFrame
  /\ open = TRUE
  /\ seen = [c \in Clients |-> NoFrame]

Publish ==
  /\ open
  /\ \E p \in Pictures : latest' = [pub |-> latest.pub + 1, picture |-> p]
  /\ UNCHANGED <<open, seen>>

Deliver(c) ==
  /\ latest.pub > seen[c].pub
  /\ seen' = [seen EXCEPT ![c] = latest]
  /\ UNCHANGED <<latest, open>>

Retire ==
  /\ open' = FALSE
  /\ UNCHANGED <<latest, seen>>

Lose(c) ==
  /\ ~open
  /\ \E p \in {0, Freed} : seen' = [seen EXCEPT ![c] = [pub |-> latest.pub, picture |-> p]]
  /\ UNCHANGED <<latest, open>>

Next ==
  \/ Publish
  \/ Retire
  \/ \E c \in Clients : Deliver(c) \/ Lose(c)

Spec == Init /\ [][Next]_vars

=============================================================================
