--------------------------- MODULE StreamerState ---------------------------
(***************************************************************************)
(* The state that mjpg-streamer's main program shares with its plugins.    *)
(*                                                                         *)
(* struct globals (mjpg_streamer.h) has one board per input plugin: the    *)
(* global buffer, the mutex db and the condition variable db_update.  The  *)
(* configuration, that is the -i and -o options, says which plugins are    *)
(* loaded and which board each output reads.  A plugin is a shared         *)
(* library: its static variables exist once per library, however often it  *)
(* is loaded, so that two outputs of one kind share them.                  *)
(*                                                                         *)
(* A picture is the number of its publication on its board.                *)
(***************************************************************************)
EXTENDS Integers, Sequences, FiniteSets

CONSTANTS
  Configs,           \* the command lines: kinds of inputs, outputs with the
                     \* number given by -i, the sizes of pictures, pics,
                     \* the bound on the publications on one board, and
                     \* spurious: pthread_cond_wait may return unasked
  MAX_INPUT_PLUGINS, \* how many boards struct globals has
  Slack,             \* 1 << 16: by how much buffers are allocated too large
  FixedRoom,         \* the size of the buffers that never grow
  ZmqBufferSize,     \* -b: pictures in one package of output_zmqserver
  Freed, Torn        \* what is read from freed memory, and from a buffer
                     \* that was too small for what was copied into it

InputKinds == {"file", "ptp2", "opencv", "testpicture"}
OutputKinds == {"udp", "rtsp", "zmqserver", "viewer", "autofocus"}
Boards == 1 .. MAX_INPUT_PLUGINS

ASSUME ConfigsAssumption ==
  \A c \in Configs :
    /\ c.ins \in Seq(InputKinds) /\ Len(c.ins) \in Boards
    /\ c.outs \in Seq([kind : OutputKinds, input : Boards]) /\ Len(c.outs) \in Boards
    /\ c.sizes # {} /\ c.sizes \subseteq Nat \ {0}
    /\ c.pics \in Nat /\ c.spurious \in BOOLEAN
ASSUME NumbersAssumption ==
  MAX_INPUT_PLUGINS \in Nat \ {0} /\ Slack \in Nat /\ FixedRoom \in Nat /\ ZmqBufferSize \in Nat \ {0}
ASSUME ContentsAssumption == Freed \notin Nat /\ Torn \notin Nat /\ Freed # Torn

VARIABLES
  conf,          \* the command line
  main,          \* where main or the signal handler is, and whether all
                 \* threads had been started when the signal came
  stop,          \* global.stop
  board,         \* global.in[b]: db, db_update, buf, size and its picture
  source,        \* the thread of each input
  sink,          \* the thread of each output
  worker,        \* static worker of each library: the thread started last
  number,        \* static plugin_number or input_number of each library
  cleaned,       \* libraries whose worker_cleanup has had its first_run
  frame,         \* static frame or frames of each output library
  control_mutex, \* of input_ptp2: its owner
  zoomer,        \* the client thread that may be asked to zoom
  cancelled,     \* threads that pthread_cancel was called for
  misuse,        \* threads that used a board after its destruction (history)
  fault          \* why the program crashed

hostVars == <<conf, main, stop>>
libraryVars == <<worker, number, cleaned, frame>>
controlVars == <<control_mutex, zoomer>>
vars == <<hostVars, board, source, sink, libraryVars, controlVars, cancelled, misuse, fault>>

-----------------------------------------------------------------------------
(* Threads.                                                                *)

Source(k) == <<"in", k>>
Sink(o) == <<"out", o>>
Zoomer == <<"client", 0>>
Nobody == <<"nobody", 0>>

Inputs == DOMAIN conf.ins
Outputs == DOMAIN conf.outs
InKind(k) == conf.ins[k]
OutKind(o) == conf.outs[o].kind

\* The process runs until it crashes or exits.
Running == fault = "none" /\ main.pc # "exit"

Ended(t) == \/ t[1] = "in" /\ source[t[2]].pc = "ended"
            \/ t[1] = "out" /\ sink[t[2]].pc = "ended"

\* The board an output's thread reads: its library's input_number.
ReadBy(o) == number[OutKind(o)]

-----------------------------------------------------------------------------
(* A board.                                                                *)

Board == [destroyed : BOOLEAN, owner : {Nobody} \cup ({"in", "out"} \X Boards),
          buf : {"null", "live", "freed"}, pic : 0 .. conf.pics, size : Nat]
FreshBoard == [destroyed |-> FALSE, owner |-> Nobody, buf |-> "null", pic |-> 0, size |-> 0]

\* db can be had: pthread_mutex_lock returns with it at once.
Free(b) == board[b].owner = Nobody /\ ~board[b].destroyed

\* What memcpy finds in the global buffer: the picture, or nothing (0) when none
\* has been published or the buffer is not there, in which case its size is 0.
Contents(b) ==
  IF board[b].buf = "live" THEN board[b].pic ELSE IF board[b].buf = "null" THEN 0 ELSE Freed

Waiting(b) == {o \in Outputs : sink[o].pc = "wait" /\ ReadBy(o) = b}

\* pthread_cond_broadcast wakes every waiter of the board.
Woken(b) ==
  [o \in Outputs |-> IF o \in Waiting(b) THEN [sink[o] EXCEPT !.pc = "woken"] ELSE sink[o]]

=============================================================================
