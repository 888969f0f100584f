---------------------------- MODULE ResultService ----------------------------
(***************************************************************************)
(* The two services of the robot that compute results and push them to     *)
(* browsers over web sockets: the position from visual odometry            *)
(* (pmr3502-odometria-visual/servidor.py) and the circles that are seen    *)
(* (pmr3502-deteccao-circulos/servico_circulos.py).                        *)
(*                                                                         *)
(* Both run in one asyncio loop: a worker task puts every result into the  *)
(* queue of every connection, and a handler per connection takes results   *)
(* from its queue and sends them.  A coroutine runs without interruption   *)
(* from one await that blocks to the next; put() on a queue without a limit*)
(* does not block, so that a result reaches all queues in one step.        *)
(*                                                                         *)
(* The services differ in what a handler does after a failed send: circles *)
(* forgets the queue, position raises and does not.  aiohttp (receive,     *)
(* send_json, run_app and its shutdown) is modelled from how it is used.   *)
(***************************************************************************)
EXTENDS Naturals, Sequences

CONSTANTS
  Clients,      \* connections that browsers may open
  Variants,     \* does a handler forget its queue after a failed send?
  WorkerFails,  \* may the worker raise, for instance when there is no picture?
  Numbers,      \* bound: results are counted modulo this number
  MaxQueue      \* bound: results that wait in one queue

ASSUME VariantsAssumption == Variants \subseteq BOOLEAN /\ WorkerFails \in BOOLEAN
ASSUME BoundsAssumption == MaxQueue \in Nat \ {0} /\ Numbers \in Nat /\ Numbers > MaxQueue + 2

VARIABLES
  forgets,      \* does a handler forget its queue after a failed send?
  keepAlive,    \* self._keep_alive
  worker,       \* the worker task: "run", "dead" or "cancelled"
  result,       \* the number of the last result
  connections,  \* self._connections: the clients whose queue is registered
  queue,        \* each client's queue of results
  handler,      \* each client's handler: pc and the result it is sending
  peer,         \* each browser: is it there, has it sent CLOSE, or is it lost?
  last,         \* the result that each browser received last (history)
  phase         \* run_app: "up", "closing" or "done"

vars == <<forgets, keepAlive, worker, result, connections, queue, handler, peer, last, phase>>

-----------------------------------------------------------------------------
Next1(n) == (n + 1) % Numbers

Active == {c \in Clients : handler[c].pc \in {"prepare", "loop", "get", "send"}}

Init ==
  /\ forgets \in Variants
  /\ keepAlive = TRUE /\ worker = "run" /\ result = 0
  /\ connections = {}
  /\ queue = [c \in Clients |-> <<>>]
  /\ handler = [c \in Clients |-> [pc |-> "none", item |-> 0]]
  /\ peer = [c \in Clients |-> "here"]
  /\ last = [c \in Clients |-> 0]
  /\ phase = "up"

-----------------------------------------------------------------------------
(* The browsers.                                                           *)

\* A browser closes its web socket, or its connection breaks.
Leave(c) ==
  /\ c \in Active /\ peer[c] = "here"
  /\ \E how \in {"closed", "lost"} : peer' = [peer EXCEPT ![c] = how]
  /\ UNCHANGED <<forgets, keepAlive, worker, result, connections, queue, handler, last, phase>>

-----------------------------------------------------------------------------
(* _worker.                                                                *)

\* Mutant: a result is put into every queue twice.
Work_PutsTwice ==
  LET n == Next1(result)
  IN  /\ worker = "run" /\ keepAlive
      /\ \A c \in Active : Len(queue[c]) < MaxQueue
      /\ result' = n
      /\ queue' = [c \in Clients |->
                     IF c \in connections THEN queue[c] \o <<n, n>> ELSE queue[c]]
      /\ UNCHANGED <<forgets, keepAlive, worker, connections, handler, peer, last, phase>>

\* One round of the loop: a result is computed and put into every queue.  The
\* queue of a client without a handler is not followed beyond the bound.
Work ==
  LET n == Next1(result)
  IN  /\ worker = "run" /\ keepAlive
      /\ \A c \in Active : Len(queue[c]) < MaxQueue
      /\ result' = n
      /\ queue' = [c \in Clients |->
                     IF c \in connections /\ Len(queue[c]) < MaxQueue
                     THEN Append(queue[c], n) ELSE queue[c]]
      /\ UNCHANGED <<forgets, keepAlive, worker, connections, handler, peer, last, phase>>

\* The camera delivers nothing, and the exception ends the task unseen.
WorkerDies ==
  /\ WorkerFails /\ worker = "run" /\ worker' = "dead"
  /\ UNCHANGED <<forgets, keepAlive, result, connections, queue, handler, peer, last, phase>>

-----------------------------------------------------------------------------
(* _websocket_handler.                                                     *)

Goes(c, pc) == handler' = [handler EXCEPT ![c].pc = pc]
Handles == UNCHANGED <<forgets, keepAlive, worker, result, phase>>

\* A request arrives: the queue is registered before the web socket is ready.
Request(c) ==
  /\ phase = "up" /\ handler[c].pc = "none"
  /\ Goes(c, "prepare")
  /\ connections' = connections \cup {c}
  /\ last' = [last EXCEPT ![c] = result]
  /\ Handles /\ UNCHANGED <<queue, peer>>

\* ws.prepare: outside of the try.
Prepare(c) ==
  /\ handler[c].pc = "prepare"
  /\ \/ Goes(c, "loop")
     \/ peer[c] # "here" /\ Goes(c, "unprepared")
  /\ Handles /\ UNCHANGED <<connections, queue, peer, last>>

\* Mutant: the queue stays registered.
EndsWell_NotRemoved(c) == Goes(c, "ended") /\ UNCHANGED connections

\* The handler leaves its loop and forgets its queue.
EndsWell(c) == Goes(c, "ended") /\ connections' = connections \ {c}

\* Mutant: CLOSE does not leave the loop.
Receive_GoesOn(c) ==
  /\ handler[c].pc = "loop"
  /\ \/ (~keepAlive \/ peer[c] = "lost") /\ EndsWell(c)
     \/ peer[c] = "closed" /\ Goes(c, "loop") /\ UNCHANGED connections
     \/ keepAlive /\ peer[c] # "closed" /\ Goes(c, "get") /\ UNCHANGED connections
  /\ Handles /\ UNCHANGED <<queue, peer, last>>

\* The loop head, and ws.receive(timeout = 0): a message that is there already,
\* or TimeoutError.  CLOSE ends the loop, and so does ws.closed, when aiohttp has
\* found out that the connection is lost.
Receive(c) ==
  /\ handler[c].pc = "loop"
  /\ \/ /\ ~keepAlive \/ peer[c] # "here"
        /\ EndsWell(c)
     \/ /\ keepAlive /\ peer[c] # "closed"
        /\ Goes(c, "get") /\ UNCHANGED connections
  /\ Handles /\ UNCHANGED <<queue, peer, last>>

\* Mutant: the queue is emptied and only its newest result sent.
Get_Newest(c) ==
  /\ handler[c].pc = "get" /\ queue[c] # <<>>
  /\ handler' = [handler EXCEPT ![c] = [pc |-> "send", item |-> queue[c][Len(queue[c])]]]
  /\ queue' = [queue EXCEPT ![c] = <<>>]
  /\ Handles /\ UNCHANGED <<connections, peer, last>>

\* await messages.get()
Get(c) ==
  /\ handler[c].pc = "get" /\ queue[c] # <<>>
  /\ handler' = [handler EXCEPT ![c] = [pc |-> "send", item |-> Head(queue[c])]]
  /\ queue' = [queue EXCEPT ![c] = Tail(@)]
  /\ Handles /\ UNCHANGED <<connections, peer, last>>

\* ws.send_json: to a browser that has left it may go unnoticed or raise.
SendJson(c) ==
  /\ handler[c].pc = "send"
  /\ \/ /\ Goes(c, "loop")
        /\ peer[c] # "lost"
        /\ last' = IF peer[c] = "here" THEN [last EXCEPT ![c] = handler[c].item] ELSE last
        /\ UNCHANGED connections
     \/ /\ peer[c] # "here"
        /\ IF forgets THEN EndsWell(c) ELSE Goes(c, "raised") /\ UNCHANGED connections
        /\ UNCHANGED last
  /\ Handles /\ UNCHANGED <<queue, peer>>

HandlerStep(c) == Prepare(c) \/ Receive(c) \/ Get(c) \/ SendJson(c)

-----------------------------------------------------------------------------
(* run_app.                                                                *)

\* SIGINT: no more requests are taken.
Interrupt ==
  /\ phase = "up" /\ phase' = "closing"
  /\ UNCHANGED <<forgets, keepAlive, worker, result, connections, queue, handler, peer, last>>

\* The handlers that are still running after the grace period are cancelled,
\* wherever they wait; CancelledError is not an Exception.  Then _encerra_tarefas
\* cancels the worker.
CleanUp ==
  /\ phase = "closing" /\ phase' = "done"
  /\ handler' = [c \in Clients |->
                   IF c \in Active THEN [handler[c] EXCEPT !.pc = "cancelled"] ELSE handler[c]]
  /\ keepAlive' = FALSE
  /\ worker' = IF worker = "run" THEN "cancelled" ELSE worker
  /\ UNCHANGED <<forgets, result, connections, queue, peer, last>>

Next ==
  \/ Work \/ WorkerDies \/ Interrupt \/ CleanUp
  \/ \E c \in Clients : Leave(c) \/ Request(c) \/ HandlerStep(c)

Spec == Init /\ [][Next]_vars

\* The event loop runs every coroutine that can run, and the worker never stops
\* working of itself.
FairSpec ==
  /\ Spec
  /\ WF_vars(Work) /\ WF_vars(CleanUp)
  /\ \A c \in Clients : WF_vars(HandlerStep(c))

-----------------------------------------------------------------------------
(* Properties.                                                             *)

\* Every variable stays in its range.
TypeOK ==
  LET Results == 0 .. Numbers - 1
  IN  /\ forgets \in BOOLEAN /\ keepAlive \in BOOLEAN
      /\ worker \in {"run", "dead", "cancelled"} /\ result \in Results
      /\ connections \subseteq Clients
      /\ \A c \in Clients : queue[c] \in Seq(Results) /\ Len(queue[c]) <= MaxQueue
      /\ handler \in [Clients -> [pc : {"none", "prepare", "loop", "get", "send", "ended",
                                        "unprepared", "raised", "cancelled"}, item : Results]]
      /\ peer \in [Clients -> {"here", "closed", "lost"}]
      /\ last \in [Clients -> Results] /\ phase \in {"up", "closing", "done"}

\* A client that is being served is registered; a queue that stays registered
\* without a handler, and fills up for ever, is that of a browser that left
\* during the handshake or, in the position service, of one that was lost.
QueuesExplained ==
  /\ Active \subseteq connections
  /\ \A c \in connections \ Active :
       handler[c].pc \in {"unprepared", "cancelled"} \cup (IF forgets THEN {} ELSE {"raised"})

\* What is received, what is in the hand of the handler and what is in the queue
\* are successive results up to the newest: no browser misses one or sees two
\* in the wrong order.
InFlight(c) ==
  <<last[c]>> \o (IF handler[c].pc = "send" THEN <<handler[c].item>> ELSE <<>>) \o queue[c]
NoGap ==
  \A c \in Active : peer[c] = "here" =>
    LET s == InFlight(c)
    IN  /\ s[Len(s)] = result
        /\ \A i \in 1 .. Len(s) - 1 : s[i + 1] = Next1(s[i])

\* Both: nobody is served wrongly, and nothing is kept for nobody.
ResultsSound == QueuesExplained /\ NoGap

\* A browser that leaves is noticed, though only by the next result: unless the
\* worker has died or the service is being stopped.
LeaverNoticed ==
  \A c \in Clients : c \in Active /\ peer[c] # "here" ~> c \notin Active \/ worker # "run"

=============================================================================
