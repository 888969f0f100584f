------------------------------ MODULE Streamer ------------------------------
(***************************************************************************)
(* mjpg-streamer as a whole: main (mjpg_streamer.c) opens and runs the     *)
(* plugins of the command line and pauses; SIGINT ends it at any time from *)
(* the moment the handler is registered.  signal_handler stops the inputs, *)
(* then the outputs, destroys the boards on the way, and exits.  The       *)
(* plugins and their threads are those of InputPlugins and OutputPlugins.  *)
(*                                                                         *)
(* pthread_cond_destroy blocks until no thread waits, as that of glibc     *)
(* does.                                                                   *)
(***************************************************************************)
EXTENDS InputPlugins, OutputPlugins

Init ==
  /\ conf \in Configs
  /\ main = [pc |-> "openIn", i |-> 1, ready |-> FALSE]
  /\ stop = FALSE
  /\ board = [b \in Boards |-> FreshBoard]
  /\ source = [k \in Inputs |-> [pc |-> "none", tries |-> 0]]
  /\ sink = [o \in Outputs |-> [pc |-> "none", named |-> FALSE, from |-> 0, sent |-> <<>>]]
  /\ worker = [l \in InputKinds \cup OutputKinds |-> 0]
  /\ number = [l \in InputKinds \cup OutputKinds |-> 1]
  /\ cleaned = {}
  /\ frame = [kind \in OutputKinds |-> NewFrame(kind)]
  /\ control_mutex = Nobody /\ zoomer = "idle"
  /\ cancelled = {} /\ misuse = {} /\ fault = "none"

-----------------------------------------------------------------------------
(* main.                                                                   *)

\* The next plugin of the list, or the first of the next list.
Advance(count, next) ==
  main' = IF main.i < count THEN [main EXCEPT !.i = @ + 1]
          ELSE [main EXCEPT !.pc = next, !.i = 1]

Exit == main' = [main EXCEPT !.pc = "exit"]

\* pthread_mutex_init, pthread_cond_init, dlopen, dlsym, split_parameters and
\* input_init; whatever fails ends the program.
OpenInput ==
  /\ main.pc = "openIn"
  /\ \/ Advance(Len(conf.ins), "openOut") /\ InputInit(main.i)
     \/ Exit /\ UNCHANGED <<number, control_mutex>>
  /\ UNCHANGED <<conf, stop, board, source, sink, worker, cleaned, frame, zoomer, cancelled, misuse, fault>>

\* The same with output_init.
OpenOutput ==
  /\ main.pc = "openOut"
  /\ \/ Advance(Len(conf.outs), "runIn") /\ OutputInit(main.i)
     \/ Exit /\ UNCHANGED number
  /\ UNCHANGED <<conf, stop, board, source, sink, worker, cleaned, frame, controlVars, cancelled, misuse, fault>>

RunInput ==
  /\ main.pc = "runIn"
  /\ \/ Advance(Len(conf.ins), "runOut") /\ InputRun(main.i)
     \/ Exit /\ UNCHANGED <<board, source, worker, number>>
  /\ UNCHANGED <<conf, stop, sink, cleaned, frame, controlVars, cancelled, misuse, fault>>

RunOutput ==
  /\ main.pc = "runOut"
  /\ Advance(Len(conf.outs), "pause") /\ OutputRun(main.i)
  /\ UNCHANGED <<conf, stop, board, source, number, cleaned, frame, controlVars, cancelled, misuse, fault>>

-----------------------------------------------------------------------------
(* signal_handler.                                                         *)

Starting == {"openIn", "openOut", "runIn", "runOut"}
Handling == {"stopIn", "stopOut", "destroy", "close"}

\* SIGINT interrupts main, which does not go on.  ready remembers that every
\* thread had been started (history).
Interrupt ==
  /\ Running /\ main.pc \in Starting \cup {"pause"}
  /\ stop' = TRUE
  /\ main' = [pc |-> "stopIn", i |-> 1,
              ready |-> main.pc = "pause" /\ \A k \in Inputs : source[k].pc # "none"]
  /\ UNCHANGED <<conf, board, source, sink, libraryVars, controlVars, cancelled, misuse, fault>>

StopInput ==
  /\ main.pc = "stopIn"
  /\ Advance(Len(conf.ins), "stopOut") /\ InputStop(main.i)
  /\ UNCHANGED <<conf, stop, board, source, sink, libraryVars, controlVars, misuse>>

\* Mutant: the boards are destroyed before the outputs are stopped.
StopOutput_Destroys ==
  /\ main.pc = "stopOut"
  /\ main' = [main EXCEPT !.pc = "destroy"] /\ OutputStop(main.i)
  /\ board' = [b \in Boards |-> [board[b] EXCEPT !.destroyed = TRUE]]
  /\ UNCHANGED <<conf, stop, source, sink, libraryVars, controlVars, misuse>>

StopOutput ==
  /\ main.pc = "stopOut"
  /\ main' = [main EXCEPT !.pc = "destroy"] /\ OutputStop(main.i)
  /\ UNCHANGED <<conf, stop, board, source, sink, libraryVars, controlVars, misuse>>

\* pthread_cond_destroy and pthread_mutex_destroy of the board that has the
\* number of the output.
Destroy ==
  /\ main.pc = "destroy" /\ Waiting(main.i) = {}
  /\ board' = [board EXCEPT ![main.i].destroyed = TRUE]
  /\ main' = IF main.i < Len(conf.outs) THEN [main EXCEPT !.pc = "stopOut", !.i = @ + 1]
             ELSE [main EXCEPT !.pc = "close"]
  /\ UNCHANGED <<conf, stop, source, sink, libraryVars, controlVars, cancelled, misuse, fault>>

\* dlclose of the libraries, and exit.
Close ==
  /\ main.pc = "close" /\ Exit
  /\ UNCHANGED <<conf, stop, board, source, sink, libraryVars, controlVars, cancelled, misuse, fault>>

MainStep ==
  /\ Running
  /\ \/ OpenInput \/ OpenOutput \/ RunInput \/ RunOutput
     \/ StopInput \/ StopOutput \/ Destroy \/ Close

-----------------------------------------------------------------------------
Next ==
  \/ MainStep \/ Interrupt \/ Zoom
  \/ \E k \in Inputs : SourceStep(k)
  \/ \E o \in Outputs : SinkStep(o) \/ SinkAsked(o)

Spec == Init /\ [][Next]_vars

\* No thread is suspended for ever and locks are given to those who ask; but
\* datagrams, signals and zoom commands come or do not come.
FairSpec ==
  /\ Spec
  /\ WF_vars(MainStep) /\ WF_vars(Zoom /\ zoomer = "zooms")
  /\ \A k \in Boards : WF_vars(k \in Inputs /\ SourceStep(k))
  /\ \A o \in Boards : WF_vars(o \in Outputs /\ SinkStep(o))

-----------------------------------------------------------------------------
(* Properties.                                                             *)

Threads == ({"in", "out"} \X Boards) \cup {Nobody}

\* Every variable stays in its range.
TypeOK ==
  /\ conf \in Configs /\ stop \in BOOLEAN
  /\ main \in [pc : Starting \cup Handling \cup {"pause", "exit"}, i : Boards, ready : BOOLEAN]
  /\ board \in [Boards -> Board]
  /\ source \in [Inputs -> [pc : {"none", "start", "grab", "camera", "restart", "ended"}, tries : 0 .. 4]]
  /\ \A o \in Outputs :
       /\ sink[o].pc \in {"none", "request", "lock", "wait", "woken", "copy", "deliver", "head", "unwind", "ended"}
       /\ sink[o].named \in BOOLEAN /\ sink[o].from \in 0 .. conf.pics
       /\ sink[o].sent \in Seq(0 .. conf.pics \cup {Freed, Torn})
  /\ worker \in [InputKinds \cup OutputKinds -> {0} \cup Boards]
  /\ number \in [InputKinds \cup OutputKinds -> Boards]
  /\ cleaned \subseteq InputKinds \cup OutputKinds
  /\ \A kind \in OutputKinds : frame[kind].pos \in Slots(kind)
  /\ control_mutex \in Threads \cup {Zoomer} /\ zoomer \in {"idle", "zooms"}
  /\ cancelled \subseteq Threads /\ misuse \subseteq Threads
  /\ fault \in {"none", "no thread", "null buffer", "double free"}

\* Every library is loaded once, and the animation, if any, is the first input.
Alone(o) == \A p \in Outputs : OutKind(p) = OutKind(o) => p = o
Sound ==
  /\ \A k, l \in Inputs : InKind(k) = InKind(l) => k = l \/ InKind(k) = "opencv"
  /\ \A k \in Inputs : InKind(k) = "testpicture" => k = 1
  /\ \A o \in Outputs : Alone(o)

\* No output reads a board that is destroyed while the output is not yet
\* stopped: the number of its input is not less than its own.
InOrder == \A o \in Outputs : conf.outs[o].input >= o

\* The buffers of output_zmqserver believe that they are as large as the
\* largest; the viewer and the autofocus have a fixed one.
Fits(o) ==
  \A s, r \in conf.sizes :
    CASE OutKind(o) = "zmqserver" -> s <= r + Slack
      [] OutKind(o) \in {"viewer", "autofocus"} -> s <= FixedRoom
      [] OTHER -> TRUE

\* The input of a board has ended, and its buffer may have been freed.
Retired(b) == \E k \in Inputs : source[k].pc = "ended" /\ (k = b \/ number[InKind(k)] = b)

\* input_ptp2 takes the number of its board from the library: a second one makes
\* the thread of the first publish on a board that may have no buffer yet.
OnePtp == \A k, l \in Inputs : InKind(k) = "ptp2" /\ InKind(l) = "ptp2" => k = l

\* One picture after another: newer, and the same again only when waits may
\* return unasked.
Follows(old, new) == IF conf.spurious THEN old <= new ELSE old < new

\* "copy frame to our local buffer now": an output whose library is loaded once,
\* and whose buffers fit, hands on the pictures it copied, whole, each newer than
\* the one before.  In their place it may find nothing or memory that was freed,
\* but only when the input has ended.  None of the outputs tests whether there is
\* a new picture when pthread_cond_wait returns: where that may return unasked
\* (conf.spurious) the same picture may come again, and nothing (0) before the
\* first, but still no older one.  input_ptp2 is loaded once at most.
DeliversWhole ==
  [][\A o \in Outputs :
       LET old == sink[o].sent
           new == sink'[o].sent
       IN  old # new /\ Alone(o) /\ Fits(o) /\ OnePtp =>
             \A i \in Len(old) + 1 .. Len(new) :
               \/ new[i] \in {0, Freed} /\ Retired(ReadBy(o))
               \/ /\ new[i] \in 0 .. sink[o].from /\ Follows(0, new[i])
                  /\ i = Len(new) => new[i] = sink[o].from
                  /\ \A j \in 1 .. i - 1 : new[j] = Freed \/ Follows(new[j], new[i])]_vars

\* db is left locked by a thread that is gone: the two inputs that leave their
\* loop in the middle of the section, or a thread that was cancelled.
LeftLocked(b) ==
  \E k \in Inputs : board[b].owner = Source(k) /\ source[k].pc = "ended" /\ InKind(k) \in {"file", "ptp2"}

\* An output that was woken delivers, or returns because there is no memory,
\* unless its input is one of those that leave db locked, or the program stops.
WokenDelivers ==
  \A o \in Boards :
    o \in Outputs /\ sink[o].pc = "woken" ~>
      (o \in Outputs =>
         stop \/ fault # "none" \/ LeftLocked(ReadBy(o)) \/ sink[o].pc \in {"deliver", "ended"})

\* "plugins can tidily shutdown": when all threads were started, every library
\* is loaded once and no output reads an input with a smaller number, the
\* handler calls nothing that is not there, and only threads that were told to
\* stop still use a board that it destroyed.
Orderly == Sound /\ InOrder /\ main.ready
TidyShutdown == Orderly => fault = "none" /\ misuse \subseteq cancelled

\* And it comes to its end.
ShutdownEnds == Orderly /\ main.pc = "stopIn" ~> main.pc = "exit"

=============================================================================
