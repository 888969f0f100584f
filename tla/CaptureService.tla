--------------------------- MODULE CaptureService ---------------------------
(***************************************************************************)
(* The picture capture service (calibracao-camera, camera_stream.py): one  *)
(* task reads the camera into app['last_frame'], one handler per viewer    *)
(* polls it and writes each new picture to the browser, and another saves  *)
(* a picture when the viewer asks for it.  All of them are coroutines of   *)
(* one thread, which change over at their awaits.                          *)
(*                                                                         *)
(* A picture is its number, 0 is None.  aiohttp is external: it tells a    *)
(* handler that its connection is lost by ConnectionResetError at the next *)
(* write, and when run_app ends it waits for the handlers and only then    *)
(* runs on_cleanup; the handlers never see keep_alive false.  It may       *)
(* cancel handlers that are left, but the code does not count on that: the *)
(* service is held by a client until the connection is closed (the FIXME   *)
(* of mjpeg_request).                                                      *)
(***************************************************************************)
EXTENDS Integers, Sequences

CONSTANTS
  Viewers,    \* browsers, each of which opens the page once
  MaxFrames,  \* bound: pictures of the camera
  MaxAsks     \* bound: pictures one viewer asks for

ASSUME CaptureAssumption == MaxFrames \in Nat /\ MaxAsks \in Nat

VARIABLES
  app,     \* keep_alive, last_frame, and how far run_app is
  viewer,  \* mjpeg_request of each viewer: where it is, frame_anterior, the
           \* pictures written, and is its connection there
  control  \* websocket_handler of each viewer: where it is, the requests on
           \* their way, each with the last picture its viewer had seen then,
           \* and the pictures saved, each beside its request

captureVars == <<app, viewer, control>>

CaptureInit ==
  /\ app = [keepAlive |-> TRUE, lastFrame |-> 0, run |-> "runs"]
  /\ viewer = [v \in Viewers |-> [pc |-> "none", frame |-> 0, shown |-> <<>>, page |-> "none"]]
  /\ control = [v \in Viewers |-> [pc |-> "none", asked |-> <<>>, saved |-> <<>>]]

LastShown(v) == IF viewer[v].shown = <<>> THEN 0 ELSE viewer[v].shown[Len(viewer[v].shown)]

-----------------------------------------------------------------------------
\* One round of capture_image; a read that fails changes nothing.
CaptureImage ==
  /\ app.keepAlive /\ app.lastFrame < MaxFrames
  /\ app' = [app EXCEPT !.lastFrame = @ + 1]
  /\ UNCHANGED <<viewer, control>>

\* The page is opened: its image and its web socket.
View(v) ==
  /\ app.run = "runs" /\ viewer[v].page = "none"
  /\ viewer' = [viewer EXCEPT ![v].pc = "loop", ![v].page = "open"]
  /\ control' = [control EXCEPT ![v].pc = "loop"]
  /\ UNCHANGED app

\* The connections of a browser that leaves are lost.
GoAway(v) ==
  /\ viewer[v].page = "open"
  /\ viewer' = [viewer EXCEPT ![v].page = "gone"]
  /\ UNCHANGED <<app, control>>

\* Mutant: pictures are not compared with frame_anterior.
SendPart_Repeats(v) ==
  /\ viewer[v].pc = "loop" /\ app.lastFrame # 0
  /\ viewer' = [viewer EXCEPT ![v].pc = "tail", ![v].frame = app.lastFrame,
                              ![v].shown = IF Len(@) > MaxFrames THEN @ ELSE Append(@, app.lastFrame)]
  /\ UNCHANGED <<app, control>>

\* Mutant: the handler goes on after ConnectionResetError.
SendPart_Swallows(v) ==
  /\ viewer[v].pc = "loop" /\ app.lastFrame \notin {0, viewer[v].frame}
  /\ viewer' = IF viewer[v].page = "gone" THEN [viewer EXCEPT ![v].frame = app.lastFrame]
               ELSE [viewer EXCEPT ![v].pc = "tail", ![v].frame = app.lastFrame,
                                   ![v].shown = Append(@, app.lastFrame)]
  /\ UNCHANGED <<app, control>>

\* The part with the picture; frame_anterior is set before it is written, and
\* ConnectionResetError leaves the loop.
SendPart(v) ==
  /\ viewer[v].pc = "loop" /\ app.lastFrame \notin {0, viewer[v].frame}
  /\ \/ /\ viewer[v].page # "gone"
        /\ viewer' = [viewer EXCEPT ![v].pc = "tail", ![v].frame = app.lastFrame,
                                    ![v].shown = Append(@, app.lastFrame)]
     \/ /\ viewer[v].page = "gone"
        /\ viewer' = [viewer EXCEPT ![v].pc = "ended", ![v].frame = app.lastFrame]
  /\ UNCHANGED <<app, control>>

\* The end of the part, outside the try.
SendTail(v) ==
  /\ viewer[v].pc = "tail"
  /\ viewer' = [viewer EXCEPT ![v].pc = IF viewer[v].page = "gone" THEN "raised" ELSE "loop"]
  /\ UNCHANGED <<app, control>>

-----------------------------------------------------------------------------
(* websocket_handler.                                                      *)

Ask(v) ==
  /\ viewer[v].page = "open" /\ control[v].pc = "loop"
  /\ Len(control[v].asked) + Len(control[v].saved) < MaxAsks
  /\ control' = [control EXCEPT ![v].asked = Append(@, LastShown(v))]
  /\ UNCHANGED <<app, viewer>>

\* The last picture is saved; without one the handler returns.
Save(v) ==
  /\ control[v].pc = "loop" /\ control[v].asked # <<>>
  /\ control' = [control EXCEPT
       ![v] = IF app.lastFrame = 0 THEN [@ EXCEPT !.pc = "ended", !.asked = <<>>]
              ELSE [@ EXCEPT !.asked = Tail(control[v].asked),
                             !.saved = Append(control[v].saved, <<Head(control[v].asked), app.lastFrame>>)]]
  /\ UNCHANGED <<app, viewer>>

ControlEnds(v) ==
  /\ control[v].pc = "loop" /\ control[v].asked = <<>> /\ viewer[v].page = "gone"
  /\ control' = [control EXCEPT ![v].pc = "ended"]
  /\ UNCHANGED <<app, viewer>>

-----------------------------------------------------------------------------
(* The end of run_app.                                                     *)

StopCapture ==
  /\ app.run = "runs"
  /\ app' = [app EXCEPT !.run = "ends"]
  /\ UNCHANGED <<viewer, control>>

\* The handlers are over, or aiohttp has lost patience with those that are left.
CancelHandlers ==
  /\ app.run = "ends"
  /\ app' = [app EXCEPT !.run = "cleanup"]
  /\ viewer' = [v \in Viewers |->
       IF viewer[v].pc \in {"loop", "tail"} THEN [viewer[v] EXCEPT !.pc = "cancelled"] ELSE viewer[v]]
  /\ control' = [v \in Viewers |->
       IF control[v].pc = "loop" THEN [control[v] EXCEPT !.pc = "cancelled"] ELSE control[v]]

\* encerra_tarefas: capture_image, cancelled at its sleep, is awaited.
EncerraTarefas ==
  /\ app.run = "cleanup"
  /\ app' = [app EXCEPT !.keepAlive = FALSE, !.run = "over"]
  /\ UNCHANGED <<viewer, control>>

CaptureNext ==
  \/ CaptureImage \/ StopCapture \/ CancelHandlers \/ EncerraTarefas
  \/ \E v \in Viewers : \/ View(v) \/ GoAway(v) \/ SendPart(v) \/ SendTail(v)
                        \/ Ask(v) \/ Save(v) \/ ControlEnds(v)

=============================================================================
