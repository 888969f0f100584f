-------------------------------- MODULE Mmal --------------------------------
(***************************************************************************)
(* The part of the MMAL library (plugins/input_raspicam/mmal) that carries *)
(* the pictures of the Raspberry Pi's camera: the output port of the JPEG  *)
(* encoder, which runs on the VideoCore, and the pool of buffer headers    *)
(* that travel between it and the program.                                 *)
(*                                                                         *)
(* A header is in the queue of the pool until mmal_port_send_buffer gives  *)
(* it to the VideoCore; it comes back filled, by a thread of VCHIQ, into   *)
(* the callback_queue of the component, whose action thread calls the      *)
(* callback of the port.  mmal_port_disable takes the headers back, and    *)
(* calls the callback in the thread that disables.                         *)
(*                                                                         *)
(* action_sema is not modelled: it is posted for every header that comes   *)
(* back, so that the action thread is never left asleep with a header in   *)
(* the queue, and a wakeup without one does nothing.  Ports are connected  *)
(* on the VideoCore (tunnelled), are never paused while they are enabled,  *)
(* and there is a client context for every header.                         *)
(***************************************************************************)
EXTENDS Integers, Sequences, FiniteSets

CONSTANTS
  BufferNum,   \* buffer_num of the port: how many headers the pool has
  MaxParts,    \* bound: buffers that one picture fills
  MaxFrames,   \* bound: pictures that the encoder begins
  FailureSets  \* bound: which of the Failures may come together

ASSUME MmalAssumption ==
  /\ BufferNum \in Nat \ {0} /\ MaxParts \in Nat \ {0} /\ MaxFrames \in Nat
  /\ FailureSets \subseteq SUBSET {"send", "capture", "transfer", "disable", "wakeup"}

Headers == 1 .. BufferNum
Threads == {"action", "worker"}   \* who calls the callback

VARIABLES
  pool,       \* is it there, and which headers are in its queue
  port,       \* is_enabled, buffer_header_callback, has_pool (the contexts of
              \* the client) and transit_buffer_headers
  component,  \* the owner of action_mutex, callback_queue, and whether the
              \* component is destroyed
  vc,         \* the VideoCore: the headers it has, the picture it encodes, how
              \* many of its parts are out, the pictures it was asked for,
              \* whether the camera feeds it
  run,        \* the callback that a thread is in
  mayFail,    \* which calls and transfers may fail, and "wakeup": the wait of an
              \* output plugin for db_update may return unasked
  failed,     \* the calls and transfers that did; a capture and a transfer do so
              \* at most once
  fault       \* why the program crashed

mmalVars == <<pool, port, component, vc, run, mayFail, failed, fault>>

Failures == {"send", "capture", "transfer", "disable", "wakeup"}
MayFail(what) == what \in mayFail /\ (what \in failed => what \in {"send", "disable"})

\* A part of a picture as the header describes it: has it data, is it the last,
\* did its transfer fail.
Part == [frame : 0 .. MaxFrames, no : 0 .. MaxParts, last : BOOLEAN, data : BOOLEAN, aborted : BOOLEAN]
NoPart == [frame |-> 0, no |-> 0, last |-> FALSE, data |-> FALSE, aborted |-> FALSE]

Idle == [pc |-> "idle", header |-> 0, part |-> NoPart, new |-> 0, complete |-> FALSE]

MmalInit ==
  /\ pool = [state |-> "none", queue |-> <<>>]
  /\ port = [enabled |-> FALSE, callback |-> FALSE, contexts |-> FALSE, transit |-> 0]
  /\ component = [owner |-> "none", queue |-> <<>>, destroyed |-> FALSE]
  /\ vc = [held |-> <<>>, frame |-> 0, part |-> 0, asked |-> 0, streams |-> FALSE, fed |-> FALSE]
  /\ run = [t \in Threads |-> Idle]
  /\ mayFail \in FailureSets
  /\ failed = {} /\ fault = "none"

-----------------------------------------------------------------------------
(* mmal_queue.c and mmal_pool.c.                                           *)

\* mmal_queue_put
Put(queue, header) == Append(queue, header)

\* mmal_pool_create: all headers are put into the queue.
PoolCreate == pool' = [state |-> "live", queue |-> [i \in Headers |-> i]]

\* mmal_port_pool_destroy, of a port that is disabled or could not be, frees the
\* payloads and the headers, wherever they are.
PoolDestroy == pool' = [state |-> "freed", queue |-> <<>>]

\* mmal_buffer_header_release: the header is reset and put into the queue.
HeaderRelease(header) == pool' = [pool EXCEPT !.queue = Put(@, header)]

-----------------------------------------------------------------------------
(* mmal_port.c and mmal_vc_api.c: sending.                                 *)

\* mmal_vc_port_send: the message is queued for the VideoCore, or is not.
VcSend(header) ==
  \/ /\ port.contexts
     /\ vc' = [vc EXCEPT !.held = Append(@, header)]
     /\ port' = [port EXCEPT !.transit = @ + 1]
     /\ UNCHANGED failed
  \/ /\ port.contexts /\ MayFail("send")
     /\ failed' = failed \cup {"send"}
     /\ UNCHANGED <<port, vc>>

\* mmal_port_send_buffer; its callers print what it returns and forget the
\* header when it was not sent.
SendBuffer(header) ==
  \/ port.enabled /\ VcSend(header)
  \/ ~port.enabled /\ UNCHANGED <<port, vc, failed>>

-----------------------------------------------------------------------------
(* The VideoCore and VCHIQ.                                                *)

\* Is there a picture to be encoded: one that was begun or asked for, or the
\* video goes on.
Encodes ==
  /\ vc.fed /\ vc.held # <<>>
  /\ vc.part > 0 \/ vc.asked > 0 \/ (vc.streams /\ vc.frame < MaxFrames)

\* The transfer of a part may be aborted, which sets a flag of the header, or
\* not even begin, which leaves the header without data and its flags alone.
Transfers == {[data |-> TRUE, aborted |-> FALSE]} \cup
             (IF MayFail("transfer") THEN {[data |-> TRUE, aborted |-> TRUE], [data |-> FALSE, aborted |-> FALSE]}
              ELSE {})

\* mmal_vc_port_send_callback: the context is freed and the header queued.
Queued(header, part) ==
  component' = [component EXCEPT !.queue = Append(@, [header |-> header, part |-> part])]

\* A part of a picture fills the next header.  Its context, when a mmal_port_disable
\* that failed has freed it, is used all the same.
VcFill ==
  /\ Encodes
  /\ \E last \in BOOLEAN, transfer \in Transfers :
       LET frame == IF vc.part = 0 THEN vc.frame + 1 ELSE vc.frame
           part == [frame |-> frame, no |-> vc.part + 1, last |-> last,
                    data |-> transfer.data, aborted |-> transfer.aborted]
       IN  /\ part.no = MaxParts => last
           /\ vc' = [vc EXCEPT !.held = Tail(@), !.frame = frame, !.part = IF last THEN 0 ELSE part.no,
                               !.asked = IF last /\ @ > 0 THEN @ - 1 ELSE @]
           /\ Queued(Head(vc.held), part)
           /\ failed' = IF transfer = [data |-> TRUE, aborted |-> FALSE] THEN failed ELSE failed \cup {"transfer"}
  /\ fault' = IF port.contexts THEN fault ELSE "freed context"
  /\ UNCHANGED <<pool, port, run, mayFail>>

-----------------------------------------------------------------------------
(* mmal_component.c and mmal_vc_api.c: the callback queue.                 *)

\* mmal_vc_do_callback, by the owner of action_mutex.
DoCallback(t) ==
  /\ run[t] = Idle /\ component.queue # <<>>
  /\ LET next == Head(component.queue)
     IN  run' = [run EXCEPT ![t] = [Idle EXCEPT !.pc = "copy", !.header = next.header, !.part = next.part]]
  /\ component' = [component EXCEPT !.owner = t, !.queue = Tail(@)]
  /\ fault' = IF port.callback THEN fault ELSE "no callback"

\* mmal_component_action_thread_func
ActionThread ==
  /\ component.owner = "none" /\ ~component.destroyed
  /\ DoCallback("action")
  /\ UNCHANGED <<pool, port, vc, mayFail, failed>>

\* The end of mmal_port_buffer_header_callback, and of the action.
CallbackReturns(t) ==
  /\ run' = [run EXCEPT ![t] = Idle]
  /\ port' = [port EXCEPT !.transit = @ - 1]
  /\ component' = IF t = "action" THEN [component EXCEPT !.owner = "none"] ELSE component

-----------------------------------------------------------------------------
(* mmal_port.c and mmal_vc_api.c: enabling and disabling.                  *)

\* mmal_vc_port_enable makes the contexts of the client.
VcPortEnable(p) == [p EXCEPT !.contexts = TRUE]

\* mmal_port_enable and mmal_port_enable_internal of a port that is not connected.
PortEnable == port' = [VcPortEnable(port) EXCEPT !.enabled = TRUE, !.callback = TRUE]

\* mmal_port_disable_internal: nothing more can be sent.
StopSending == port' = [port EXCEPT !.enabled = FALSE]

\* mmal_component_action_lock
ActionLock ==
  /\ component.owner = "none"
  /\ component' = [component EXCEPT !.owner = "worker"]

\* mmal_vc_port_disable: the VideoCore gives all headers back, empty, before it
\* answers; or the call fails.  The contexts are freed in either case.
VcPortDisable(ok) ==
  /\ port' = [port EXCEPT !.contexts = FALSE]
  /\ \/ /\ ok
        /\ component' = [component EXCEPT !.queue =
             @ \o [i \in DOMAIN vc.held |-> [header |-> vc.held[i], part |-> NoPart]]]
        /\ vc' = [vc EXCEPT !.held = <<>>, !.part = 0, !.asked = 0, !.streams = FALSE]
        /\ fault' = IF port.contexts \/ vc.held = <<>> THEN fault ELSE "freed context"
        /\ UNCHANGED failed
     \/ /\ ~ok /\ MayFail("disable")
        /\ failed' = failed \cup {"disable"}
        /\ UNCHANGED <<component, vc, fault>>

\* The rest of mmal_vc_port_disable: the queued callbacks are done.
Drain == DoCallback("worker") /\ component.owner = "worker"

\* mmal_component_action_unlock; a port that could not be disabled stays enabled.
DisableEnds(ok) ==
  /\ component.queue = <<>> /\ run["worker"] = Idle
  /\ component' = [component EXCEPT !.owner = "none"]
  /\ port' = [port EXCEPT !.enabled = ~ok]

\* IN_TRANSIT_WAIT, for headers that are still on their way.
TransitWait ==
  /\ port.transit = 0
  /\ port' = [port EXCEPT !.callback = FALSE]

\* mmal_component_destroy, when its ports are disabled or could not be: the
\* action thread is joined.
ComponentDestroy ==
  /\ component.owner = "none"
  /\ component' = [component EXCEPT !.destroyed = TRUE]

=============================================================================
