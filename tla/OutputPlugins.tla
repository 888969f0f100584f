---------------------------- MODULE OutputPlugins ---------------------------
(***************************************************************************)
(* The output plugins that take pictures from a board with one thread: for *)
(* datagrams that ask for one (output_udp.c, output_rtsp.c), in packages   *)
(* (output_zmqserver.c), on the screen (output_viewer.c) and to measure    *)
(* the sharpness (output_autofocus.c).  output_file.c and output_http.c    *)
(* have modules of their own.                                              *)
(***************************************************************************)
EXTENDS StreamerState

Asks(o) == OutKind(o) \in {"udp", "rtsp"}
Slots(kind) == IF kind = "zmqserver" THEN 1 .. ZmqBufferSize ELSE {1}

\* What a library knows of its buffers: the real size of each (0 for NULL), the
\* size it believes they have, the next one to fill, and what is in them.
NewFrame(kind) ==
  [room |-> [i \in Slots(kind) |-> IF kind \in {"viewer", "autofocus"} THEN FixedRoom ELSE 0],
   max |-> 0, pos |-> 1, pics |-> [i \in Slots(kind) |-> 0]]

SinkGoes(o, pc) == sink' = [sink EXCEPT ![o].pc = pc]

\* output_init: all but output_autofocus refuse an input that is not loaded.
OutputInit(o) ==
  /\ OutKind(o) = "autofocus" \/ conf.outs[o].input \in Inputs
  /\ number' = [number EXCEPT ![OutKind(o)] = conf.outs[o].input]

FirstStep(o) == IF Asks(o) THEN "request" ELSE "lock"

\* output_run; the thread returns at once when it has no port, or goes to the
\* head of its loop.
OutputRun(o) ==
  /\ worker' = [worker EXCEPT ![OutKind(o)] = o]
  /\ \/ SinkGoes(o, FirstStep(o))
     \/ Asks(o) /\ SinkGoes(o, "ended")

-----------------------------------------------------------------------------
(* worker_thread.                                                          *)

\* recvfrom: a datagram names a file to save, or is empty.
Request(o) ==
  /\ sink[o].pc = "request"
  /\ \E named \in BOOLEAN : sink' = [sink EXCEPT ![o].pc = "lock", ![o].named = named]
  /\ UNCHANGED <<board, frame, cleaned>>

\* Mutant: the current picture is taken without waiting for the next one.
EnterWait_TakesCurrent(o) ==
  /\ sink[o].pc = "lock" /\ Free(ReadBy(o))
  /\ board' = [board EXCEPT ![ReadBy(o)].owner = Sink(o)]
  /\ SinkGoes(o, "copy")
  /\ UNCHANGED <<frame, cleaned>>

\* pthread_mutex_lock and pthread_cond_wait.
EnterWait(o) ==
  /\ sink[o].pc = "lock" /\ Free(ReadBy(o))
  /\ SinkGoes(o, "wait")
  /\ UNCHANGED <<board, frame, cleaned>>

\* pthread_cond_wait returns without a broadcast, and nothing is tested after
\* it; so often that the deliveries outnumber the pictures by one.
SpuriousWakeup(o) ==
  /\ conf.spurious /\ sink[o].pc = "wait" /\ Len(sink[o].sent) <= conf.pics
  /\ SinkGoes(o, "woken")
  /\ UNCHANGED <<board, frame, cleaned>>

\* A woken thread gets db.
Relock(o) ==
  /\ sink[o].pc = "woken" /\ Free(ReadBy(o))
  /\ board' = [board EXCEPT ![ReadBy(o)].owner = Sink(o)]
  /\ SinkGoes(o, "copy")
  /\ UNCHANGED <<frame, cleaned>>

\* The test of output_zmqserver for a larger buffer; max_frame_size is shared by
\* all buffers.
Grows(f, size) == size > f.max \/ f.room[f.pos] = 0

Grown(f, size) ==
  LET max == IF size > f.max THEN size + Slack ELSE f.max
  IN  [f EXCEPT !.max = max, !.room[f.pos] = max]

Filled(f, b) ==
  [f EXCEPT !.pics[f.pos] = IF board[b].size <= f.room[f.pos] THEN Contents(b) ELSE Torn]

GrowsFor(o, size) ==
  \/ Asks(o) /\ size > frame[OutKind(o)].max
  \/ OutKind(o) = "zmqserver" /\ Grows(frame[OutKind(o)], size)

Copied(o, b) ==
  /\ frame' = [frame EXCEPT ![OutKind(o)] =
                 Filled(IF GrowsFor(o, board[b].size) THEN Grown(@, board[b].size) ELSE @, b)]
  /\ sink' = [sink EXCEPT ![o].pc = "deliver", ![o].from = board[b].pic]
  /\ board' = [board EXCEPT ![b].owner = Nobody]

\* Mutant: a failed realloc leaves db locked.
NoMemory_KeepsLock(o, b) ==
  /\ GrowsFor(o, board[b].size)
  /\ frame' = [frame EXCEPT ![OutKind(o)].max = IF board[b].size > @ THEN board[b].size + Slack ELSE @]
  /\ SinkGoes(o, "ended")
  /\ UNCHANGED board

\* realloc fails: the thread unlocks and returns, without its cleanup handler.
NoMemory(o, b) ==
  /\ GrowsFor(o, board[b].size)
  /\ frame' = [frame EXCEPT ![OutKind(o)].max = IF board[b].size > @ THEN board[b].size + Slack ELSE @]
  /\ SinkGoes(o, "ended")
  /\ board' = [board EXCEPT ![b].owner = Nobody]

\* With db locked the buffer is enlarged if need be and the picture copied.
\* The viewer and the autofocus do not look at the size.
Copy(o) ==
  /\ sink[o].pc = "copy"
  /\ Copied(o, ReadBy(o)) \/ NoMemory(o, ReadBy(o))
  /\ UNCHANGED cleaned

\* worker_cleanup frees the buffer, once per library.
Cleanup(o) ==
  LET kind == OutKind(o)
  IN  /\ cleaned' = cleaned \cup {kind}
      /\ frame' = IF kind \in cleaned THEN frame
                  ELSE [frame EXCEPT ![kind].pics = [i \in Slots(kind) |-> Freed]]

\* Head of the loop, after a delivery.
LoopHead(o, new) ==
  IF stop
  THEN Cleanup(o) /\ sink' = [sink EXCEPT ![o] = [new EXCEPT !.pc = "ended"]]
  ELSE UNCHANGED <<frame, cleaned>> /\ sink' = [sink EXCEPT ![o] = [new EXCEPT !.pc = FirstStep(o)]]

Sends(o, pics) == [sink[o] EXCEPT !.sent = @ \o pics]

\* output_udp and output_rtsp: the picture is saved if the datagram named a
\* file, and the datagram is sent back; when the file cannot be written the
\* thread returns, without its cleanup handler.
Answer(o) ==
  /\ Asks(o)
  /\ \/ LoopHead(o, IF sink[o].named THEN Sends(o, <<frame[OutKind(o)].pics[1]>>) ELSE sink[o])
     \/ sink[o].named /\ SinkGoes(o, "ended") /\ UNCHANGED <<frame, cleaned>>

\* Mutant: the package is sent one picture too late.
Pack_OneMore(o) ==
  LET f == frame["zmqserver"]
  IN  /\ OutKind(o) = "zmqserver"
      /\ IF f.pos <= ZmqBufferSize
         THEN /\ frame' = [frame EXCEPT !["zmqserver"].pos = @ + 1]
              /\ SinkGoes(o, "head")
         ELSE /\ frame' = [frame EXCEPT !["zmqserver"].pos = 1]
              /\ sink' = [sink EXCEPT ![o] = [Sends(o, f.pics) EXCEPT !.pc = "head"]]
      /\ UNCHANGED cleaned

\* output_zmqserver: the picture is put into the package, and the package sent
\* when it is full.
Pack(o) ==
  LET f == frame["zmqserver"]
  IN  /\ OutKind(o) = "zmqserver"
      /\ IF f.pos < ZmqBufferSize
         THEN /\ frame' = [frame EXCEPT !["zmqserver"].pos = @ + 1]
              /\ SinkGoes(o, "head")
         ELSE /\ frame' = [frame EXCEPT !["zmqserver"].pos = 1]
              /\ sink' = [sink EXCEPT ![o] = [Sends(o, f.pics) EXCEPT !.pc = "head"]]
      /\ UNCHANGED cleaned

\* output_viewer shows the picture, or does not when it is no JPEG;
\* output_autofocus computes its sharpness.
Show(o) ==
  \/ /\ OutKind(o) \in {"viewer", "autofocus"}
     /\ LoopHead(o, Sends(o, <<frame[OutKind(o)].pics[1]>>))
  \/ OutKind(o) = "viewer" /\ LoopHead(o, sink[o])

Deliver(o) ==
  \/ sink[o].pc = "deliver" /\ (Answer(o) \/ Pack(o) \/ Show(o)) /\ UNCHANGED board
  \/ sink[o].pc = "head" /\ LoopHead(o, sink[o]) /\ UNCHANGED board

\* The thread is cancelled in recvfrom or while it delivers.
CancelledAtWork(o) ==
  /\ sink[o].pc \in {"request", "deliver"} /\ Sink(o) \in cancelled
  /\ Cleanup(o) /\ SinkGoes(o, "ended")
  /\ UNCHANGED board

\* Mutant: the thread cannot be cancelled while it waits.
CancelledInWait_Masked(o) ==
  /\ sink[o].pc = "woken" /\ Sink(o) \in cancelled
  /\ SinkGoes(o, "unwind")
  /\ UNCHANGED <<board, frame, cleaned>>

\* It is cancelled in pthread_cond_wait, which first takes db back.
CancelledInWait(o) ==
  /\ sink[o].pc \in {"wait", "woken"} /\ Sink(o) \in cancelled
  /\ SinkGoes(o, "unwind")
  /\ UNCHANGED <<board, frame, cleaned>>

\* The cleanup handler does not unlock it.
Unwind(o) ==
  /\ sink[o].pc = "unwind" /\ Free(ReadBy(o))
  /\ board' = [board EXCEPT ![ReadBy(o)].owner = Sink(o)]
  /\ Cleanup(o) /\ SinkGoes(o, "ended")

\* A thread that locks a mutex after its destruction does not get it.
SinkMisuses(o) ==
  /\ sink[o].pc \in {"lock", "woken", "unwind"} /\ board[ReadBy(o)].destroyed
  /\ SinkGoes(o, "ended")
  /\ misuse' = misuse \cup {Sink(o)}
  /\ UNCHANGED <<board, frame, cleaned>>

SinkStep(o) ==
  /\ Running
  /\ \/ /\ \/ EnterWait(o) \/ Relock(o) \/ Copy(o) \/ Deliver(o)
           \/ CancelledAtWork(o) \/ CancelledInWait(o) \/ Unwind(o)
        /\ UNCHANGED misuse
     \/ SinkMisuses(o)
  /\ UNCHANGED <<hostVars, source, worker, number, controlVars, cancelled, fault>>

\* What comes from outside, or does not.
SinkAsked(o) ==
  /\ Running /\ (Request(o) \/ SpuriousWakeup(o))
  /\ UNCHANGED <<hostVars, source, worker, number, controlVars, cancelled, misuse, fault>>

\* output_stop.
OutputStop(o) ==
  LET t == worker[OutKind(o)]
  IN  IF t = 0
      THEN fault' = "no thread" /\ UNCHANGED cancelled
      ELSE cancelled' = cancelled \cup {Sink(t)} /\ UNCHANGED fault

=============================================================================
