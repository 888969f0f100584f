---------------------------- MODULE Telepresence ----------------------------
(***************************************************************************)
(* The telepresence service (pmr3502-telepresenca/servidor.py): browsers   *)
(* send the positions of two levers through a web socket, and each handler *)
(* passes them to the motors (motorctrl.py, whose functions are empty yet).*)
(*                                                                         *)
(* A position is "moves" or "rests"; "garbage" is a message that float or  *)
(* the second component refuses.  aiohttp is external: it cancels the      *)
(* handlers that are left when run_app ends.                               *)
(***************************************************************************)
EXTENDS Sequences, Integers

CONSTANTS
  Drivers,     \* browsers, each of which connects once
  MaxMessages  \* bound: messages of one browser that are not yet received

ASSUME TelepresenceAssumption == MaxMessages \in Nat \ {0}

VARIABLES
  motors,     \* what set_lr was called with last
  wsHandler,  \* websocket_handler of each browser: not begun, in its loop, ended,
              \* left by an exception, or cancelled
  link,       \* each browser's end of the connection: the messages on their way,
              \* and is it open, closed, or silently lost
  server      \* run_app: running, ending, or over

teleVars == <<motors, wsHandler, link, server>>

Messages == {"moves", "rests", "garbage"}

TeleInit ==
  /\ motors = "rests"
  /\ wsHandler = [b \in Drivers |-> "none"]
  /\ link = [b \in Drivers |-> [state |-> "open", sent |-> <<>>]]
  /\ server = "runs"

\* websocket_handler until prepare.
Drive(b) ==
  /\ server = "runs" /\ wsHandler[b] = "none"
  /\ wsHandler' = [wsHandler EXCEPT ![b] = "loop"]
  /\ UNCHANGED <<motors, link, server>>

\* The page sends the positions of its levers every 50 ms, closes, or is lost.
Say(b) ==
  /\ wsHandler[b] # "none" /\ link[b].state = "open" /\ Len(link[b].sent) < MaxMessages
  /\ \E message \in Messages : link' = [link EXCEPT ![b].sent = Append(@, message)]
  /\ UNCHANGED <<motors, wsHandler, server>>

Hangup(b) ==
  /\ wsHandler[b] # "none" /\ link[b].state = "open"
  /\ \E how \in {"closed", "lost"} : link' = [link EXCEPT ![b].state = how]
  /\ UNCHANGED <<motors, wsHandler, server>>

\* Mutant: no message is refused.
Message_Unchecked(b) ==
  /\ wsHandler[b] = "loop" /\ link[b].sent # <<>>
  /\ motors' = Head(link[b].sent)
  /\ link' = [link EXCEPT ![b].sent = Tail(@)]
  /\ UNCHANGED <<wsHandler, server>>

\* One message: try and finally let the exception out of the loop.
Message(b) ==
  /\ wsHandler[b] = "loop" /\ link[b].sent # <<>>
  /\ LET message == Head(link[b].sent)
     IN  IF message = "garbage" THEN wsHandler' = [wsHandler EXCEPT ![b] = "raised"] /\ UNCHANGED motors
         ELSE motors' = message /\ UNCHANGED wsHandler
  /\ link' = [link EXCEPT ![b].sent = Tail(@)]
  /\ UNCHANGED server

\* Mutant: the motors are left as they are.
LoopEnds_KeepsMoving(b) ==
  /\ wsHandler[b] = "loop" /\ link[b].sent = <<>> /\ link[b].state = "closed"
  /\ wsHandler' = [wsHandler EXCEPT ![b] = "ended"]
  /\ UNCHANGED <<motors, link, server>>

\* Mutant: a close is taken for silence.
LoopEnds_Listens(b) ==
  /\ wsHandler[b] = "loop" /\ link[b].sent = <<>> /\ link[b].state = "closed"
  /\ UNCHANGED teleVars

\* The loop over messages ends when the browser has closed.
LoopEnds(b) ==
  /\ wsHandler[b] = "loop" /\ link[b].sent = <<>> /\ link[b].state = "closed"
  /\ motors' = "rests"
  /\ wsHandler' = [wsHandler EXCEPT ![b] = "ended"]
  /\ UNCHANGED <<link, server>>

\* run_app ends: handlers are cancelled, and ctrl.finalize, which is empty, called.
Shutdown ==
  /\ server = "runs" /\ server' = "ends"
  /\ UNCHANGED <<motors, wsHandler, link>>

Finalize ==
  /\ server = "ends" /\ server' = "over"
  /\ wsHandler' = [b \in Drivers |-> IF wsHandler[b] = "loop" THEN "cancelled" ELSE wsHandler[b]]
  /\ UNCHANGED <<motors, link>>

TeleStep == Finalize \/ \E b \in Drivers : Message(b) \/ LoopEnds(b)
TeleNext == TeleStep \/ Shutdown \/ \E b \in Drivers : Drive(b) \/ Say(b) \/ Hangup(b)

=============================================================================
