---------------------------- MODULE RobotServices ----------------------------
(***************************************************************************)
(* The services of the robot beside the ones that compute results: the IMU *)
(* (ImuService), the telepresence (Telepresence) and the picture capture   *)
(* (CaptureService).  They are programs that share nothing, so a behaviour *)
(* runs one of them, service, and the others stay as they are.             *)
(***************************************************************************)
EXTENDS ImuService, Telepresence, CaptureService

VARIABLE service

servicesVars == <<imuVars, teleVars, captureVars, service>>

ServicesInit ==
  /\ service \in {"imu", "telepresence", "capture"}
  /\ ImuInit /\ TeleInit /\ CaptureInit

ServicesNext ==
  \/ service = "imu" /\ ImuNext /\ UNCHANGED <<teleVars, captureVars, service>>
  \/ service = "telepresence" /\ TeleNext /\ UNCHANGED <<imuVars, captureVars, service>>
  \/ service = "capture" /\ CaptureNext /\ UNCHANGED <<imuVars, teleVars, service>>

ServicesSpec == ServicesInit /\ [][ServicesNext]_servicesVars

\* The handlers of a viewer are over, and the one that sends pictures polls
\* without finding a new one (camera_stream.py:81).
HandlersOver(v) == viewer[v].pc \notin {"loop", "tail"} /\ control[v].pc # "loop"
Polls(v) == viewer[v].pc = "loop" /\ app.lastFrame \in {0, viewer[v].frame}

\* The thread of the IMU service goes on, and so do the handlers and tasks of the
\* others as far as the code is not held by a browser: a browser that is there
\* need not take what is written to it, and run_app need not end while a handler
\* goes on.  What is fair is asked of the service that runs: only the IMU service
\* has a step at the start.
ServicesFairness ==
  /\ WF_servicesVars(service = "imu" /\ ImuStep /\ UNCHANGED <<teleVars, captureVars, service>>)
  /\ WF_servicesVars(Finalize /\ UNCHANGED <<imuVars, captureVars, service>>)
  /\ \A b \in Drivers :
       WF_servicesVars((Message(b) \/ LoopEnds(b)) /\ UNCHANGED <<imuVars, captureVars, service>>)
  /\ WF_servicesVars(/\ EncerraTarefas \/ (CancelHandlers /\ \A v \in Viewers : HandlersOver(v))
                     /\ UNCHANGED <<imuVars, teleVars, service>>)
  /\ \A v \in Viewers :
       /\ WF_servicesVars(/\ viewer[v].page = "gone" /\ (SendPart(v) \/ SendTail(v))
                          /\ UNCHANGED <<imuVars, teleVars, service>>)
       /\ WF_servicesVars((Save(v) \/ ControlEnds(v)) /\ UNCHANGED <<imuVars, teleVars, service>>)

FairServicesSpec == ServicesSpec /\ ServicesFairness

-----------------------------------------------------------------------------
(* Properties.                                                             *)

SeqsUpTo(S, n) == UNION {[1..k -> S] : k \in 0..n}
Halves == (1..MaxSamples) \X {1, 2}

\* Every variable of the three services stays within its type.
ServicesTypeOK ==
  /\ service \in {"imu", "telepresence", "capture"}
  /\ imu.pc \in {"start", "find", "head", "select", "events", "send", "stop", "raised", "again", "exit"}
  /\ imu.keepRunning \in BOOLEAN /\ imu.listening \in BOOLEAN /\ imu.newData \in BOOLEAN
  /\ imu.events \subseteq {"socket", "imu"} \cup ImuClients /\ imu.left \subseteq ImuClients
  /\ imu.sample \in 0..MaxSamples
  /\ \A c \in ImuClients :
       /\ conn[c].server \in {"none", "open", "closed"}
       /\ conn[c].peer \in {"none", "open", "closed", "gone", "reset"}
       /\ conn[c].held \in Seq(Halves) /\ Len(conn[c].held) <= SocketRoom
       /\ conn[c].got \in Seq(Halves)
       /\ since[c] \in 0..MaxSamples
  /\ motors \in {"moves", "rests"} /\ server \in {"runs", "ends", "over"}
  /\ \A b \in Drivers :
       /\ wsHandler[b] \in {"none", "loop", "ended", "raised", "cancelled"}
       /\ link[b].state \in {"open", "closed", "lost"}
       /\ link[b].sent \in SeqsUpTo(Messages, MaxMessages)
  /\ app.lastFrame \in 0..MaxFrames /\ app.run \in {"runs", "ends", "cleanup", "over"}
  /\ \A v \in Viewers :
       /\ viewer[v].pc \in {"none", "loop", "tail", "ended", "raised", "cancelled"}
       /\ control[v].pc \in {"none", "loop", "ended", "cancelled"}

\* The stream of a client of the IMU: what it has read and what its socket holds.
Stream(c) == conn[c].got \o conn[c].held

\* h follows g in a stream: the other half of a packet, or the first half of the
\* next sample; a packet is cut only where it filled the socket.
Follows(s, i) ==
  \/ s[i - 1][2] = 1 /\ s[i] = <<s[i - 1][1], 2>>
  \/ s[i] = <<s[i - 1][1] + 1, 1>> /\ (s[i - 1][2] = 2 \/ i > SocketRoom)

\* The streams have no gaps: a client of the IMU service finds every sample from
\* the first after it was accepted up to the last that was read (run and send,
\* servicoimu.py:137), though a packet may lack its end where its socket was full;
\* a viewer of the capture service never gets a picture twice or an older one
\* (frame_anterior, camera_stream.py:84); and a picture that is saved is not older
\* than what its viewer had been sent when it asked (camera_stream.py:108).
StreamsGoOn ==
  /\ \A c \in ImuClients :
       LET s == Stream(c)
       IN  /\ s # <<>> => s[1] = <<since[c] + 1, 1>>
           /\ \A i \in 2..Len(s) : Follows(s, i)
           /\ imu.pc = "head" /\ c \in Connections /\ since[c] < imu.sample
                => s # <<>> /\ s[Len(s)][1] = imu.sample
  /\ \A v \in Viewers :
       /\ \A i \in 2..Len(viewer[v].shown) : viewer[v].shown[i - 1] < viewer[v].shown[i]
       /\ \A i \in 1..Len(control[v].saved) : control[v].saved[i][1] <= control[v].saved[i][2]

\* Nothing ends or goes on without a reason.  An exception leaves run of the IMU
\* service only where the IMU or accept() failed, a client was reset or closed, or
\* the socket of a client was full (servicoimu.py:146): clients that are there and
\* read never end the service.  The robot moves only while a driver's handler is in
\* its loop, or after one that was left without reaching the set_lr(0,0) at its end
\* (servidor.py:78).
EndsExplained ==
  /\ imu.pc = "raised" =>
       \/ imu.events \cap {"imu", "socket"} # {}
       \/ \E c \in imu.events \cap ImuClients : conn[c].peer = "reset"
       \/ \E c \in imu.left : conn[c].peer # "open" \/ Len(conn[c].held) >= SocketRoom
  /\ motors = "moves" => \E b \in Drivers : wsHandler[b] \in {"loop", "raised", "cancelled"}

\* The services end, and what is left behind is given up.  A signal ends the IMU
\* service with no connection open, and the connection of a client that closed is
\* closed before that; the handler of a browser that closed leaves its loop.  Of a
\* viewer that left, the handler that has a picture for it ends, and so does the
\* one that saves pictures; and run_app of the capture service ends unless from
\* some time on a viewer stays connected (the FIXME at camera_stream.py:66) or
\* has left and the handler finds no new picture to notice it by.
ServicesSettle ==
  /\ imu.pc = "head" /\ ~imu.keepRunning ~> imu.pc = "exit" /\ Connections = {}
  /\ \A c \in ImuClients : conn[c].peer = "closed" /\ conn[c].server = "open" ~> conn[c].server = "closed"
  /\ \A b \in Drivers : link[b].state = "closed" ~> wsHandler[b] # "loop"
  /\ server = "ends" ~> server = "over" /\ \A b \in Drivers : wsHandler[b] # "loop"
  /\ \A v \in Viewers :
       /\ viewer[v].page = "gone" /\ viewer[v].pc \in {"loop", "tail"} /\ ~Polls(v)
            ~> viewer[v].pc \notin {"loop", "tail"}
       /\ viewer[v].page = "gone" ~> control[v].pc # "loop"
  /\ app.run = "ends" ~> app.run = "over" \/ \E v \in Viewers : [](viewer[v].page = "open" \/ Polls(v))

=============================================================================
