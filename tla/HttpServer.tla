----------------------------- MODULE HttpServer -----------------------------
(***************************************************************************)
(* The HTTP output plugin of mjpg-streamer (httpd.c): server_thread accepts*)
(* connections and starts a client_thread for each; client_thread reads a  *)
(* request and its headers, checks the password, answers and closes.       *)
(*                                                                         *)
(* The connected descriptor is handed over in a cfd that the server        *)
(* allocates and the client thread copies and frees.  One cfd is allocated *)
(* for each return of select(), and there is a listening socket for every  *)
(* address family.  The picture itself is the subject of FrameHandoff; here*)
(* it matters that a snapshot and a stream wait for the camera's next one, *)
(* without a timeout, and that the camera may have ended.                  *)
(***************************************************************************)
EXTENDS Naturals, FiniteSets

CONSTANTS
  Sockets,     \* listening sockets
  Conns,       \* TCP connections that browsers may open
  Kinds,       \* the kinds of requests that are sent
  Configs,     \* configurations: is a password set, are commands refused, is
               \* there a www folder?
  Nobody,      \* no connection
  ThreadsFail  \* may pthread_create fail?

ASSUME SocketsAssumption == Sockets # {}
ASSUME NobodyAssumption == Nobody \notin Conns
ASSUME KindsAssumption ==
  Kinds \subseteq {"snapshot", "stream", "command", "file", "take", "json", "cgi"}
ASSUME ConfigsAssumption == Configs \subseteq [password : BOOLEAN, nocommands : BOOLEAN, www : BOOLEAN]
ASSUME ThreadsFailAssumption == ThreadsFail \in BOOLEAN

VARIABLES
  conf,     \* the configuration
  stop,     \* pglobal->stop
  server,   \* server_thread: pc, its cfd, the sockets left to accept from, and
            \* the connection accepted last
  boxes,    \* each cfd that was allocated: is it live, and its connection
  conn,     \* each connection: its state, its socket, and what was read of the
            \* request: its kind, is the input number right, is the password?
  thread,   \* the client thread made for each connection: pc, its cfd, and the
            \* connection it serves
  sent,     \* what was done for each connection
  gone,     \* the connections whose browser has left: writing to them fails
  camera,   \* does the input plugin still publish pictures?
  fault     \* was memory used after it was freed, or a descriptor after close?

vars == <<conf, stop, server, boxes, conn, thread, sent, gone, camera, fault>>
world == <<gone, camera>>

-----------------------------------------------------------------------------
Allocated == DOMAIN boxes
NoThread == [pc |-> "none", box |-> 0, serves |-> Nobody]
Unread == [kind |-> "other", passwordOK |-> FALSE, inputOK |-> FALSE]

\* output_init and the opening of the sockets have succeeded.
Init ==
  /\ conf \in Configs
  /\ stop = FALSE
  /\ server = [pc |-> "alloc", box |-> 0, ready |-> {}, current |-> Nobody]
  /\ boxes = <<>>
  /\ conn \in [Conns -> {[state |-> "none", sock |-> s, asks |-> Unread] : s \in Sockets}]
  /\ thread = [c \in Conns |-> NoThread]
  /\ sent = [c \in Conns |-> {}]
  /\ gone = {} /\ camera = TRUE
  /\ fault = FALSE

-----------------------------------------------------------------------------
(* The browsers, the signal handler and the camera.                        *)

Connect(c) ==
  /\ conn[c].state = "none" /\ server.pc # "done"
  /\ conn' = [conn EXCEPT ![c].state = "queued"]
  /\ UNCHANGED <<conf, stop, server, boxes, thread, sent, world, fault>>

\* A browser leaves for good, and the kernel knows it.  One that leaves before its
\* request was read is a case of Reads.
Leave(c) ==
  /\ thread[c].pc \in {"answer", "stream", "wait", "picture"} /\ c \notin gone
  /\ gone' = gone \cup {c}
  /\ UNCHANGED <<conf, stop, server, boxes, conn, thread, sent, camera, fault>>

\* signal_handler sets stop and cancels the server thread.
Stop ==
  /\ ~stop /\ stop' = TRUE
  /\ UNCHANGED <<conf, server, boxes, conn, thread, sent, world, fault>>

Waiting == {c \in Conns : thread[c].pc = "wait"}
Woken(cs) == thread' = [c \in Conns |-> IF c \in cs THEN [thread[c] EXCEPT !.pc = "picture"]
                                        ELSE thread[c]]

\* The input plugin's thread ends, after a failure of the camera for one.  Nobody
\* learns of it, and it matters to those that wait.
CameraEnds ==
  /\ camera /\ camera' = FALSE /\ Waiting # {}
  /\ UNCHANGED <<conf, stop, server, boxes, conn, thread, sent, gone, fault>>

\* The broadcast on db_update, with the next picture.
Publish ==
  /\ camera /\ Waiting # {} /\ Woken(Waiting)
  /\ UNCHANGED <<conf, stop, server, boxes, conn, sent, world, fault>>

\* pthread_cond_wait returns without a broadcast, and no predicate is tested.
SpuriousWakeup(c) ==
  /\ c \in Waiting /\ Woken({c})
  /\ UNCHANGED <<conf, stop, server, boxes, conn, sent, world, fault>>

-----------------------------------------------------------------------------
(* server_thread.                                                          *)

ServerGoes(pc) == server' = [server EXCEPT !.pc = pc]

\* Mutant: the malloc is forgotten.
Alloc_NoMalloc ==
  /\ server.pc = "alloc" /\ ~stop
  /\ server' = [server EXCEPT !.pc = "select", !.box = Cardinality(Allocated) + 1]
  /\ UNCHANGED <<conf, stop, boxes, conn, thread, sent, world, fault>>

\* Mutant: the cfd is allocated once, before the loop.
Alloc_Once ==
  /\ server.pc = "alloc" /\ ~stop
  /\ server' = [server EXCEPT !.pc = "select", !.box = 1]
  /\ boxes' = IF Allocated = {} THEN [x \in {1} |-> [live |-> TRUE, conn |-> Nobody]] ELSE boxes
  /\ UNCHANGED <<conf, stop, conn, thread, sent, world, fault>>

\* malloc(sizeof(cfd)), at the head of the loop.
Alloc ==
  /\ server.pc = "alloc"
  /\ IF stop
     THEN ServerGoes("done") /\ UNCHANGED boxes
     ELSE LET b == Cardinality(Allocated) + 1
          IN  /\ server' = [server EXCEPT !.pc = "select", !.box = b]
              /\ boxes' = [x \in Allocated \cup {b} |->
                             IF x = b THEN [live |-> TRUE, conn |-> Nobody] ELSE boxes[x]]
  /\ UNCHANGED <<conf, stop, conn, thread, sent, world, fault>>

\* select() returns with every socket on which a connection waits.
Select ==
  LET waiting == {conn[c].sock : c \in {x \in Conns : conn[x].state = "queued"}}
  IN  /\ server.pc = "select" /\ waiting # {}
      /\ server' = [server EXCEPT !.pc = "scan", !.ready = waiting]
      /\ UNCHANGED <<conf, stop, boxes, conn, thread, sent, world, fault>>

\* accept() on the next socket that is ready.  The descriptor goes into the cfd
\* of this round.
Accept ==
  /\ server.pc = "scan"
  /\ \E s \in server.ready : \E c \in Conns :
       /\ conn[c].state = "queued" /\ conn[c].sock = s
       /\ conn' = [conn EXCEPT ![c].state = "accepted"]
       /\ server' = [server EXCEPT !.pc = "spawn", !.ready = @ \ {s}, !.current = c]
       /\ boxes' = [boxes EXCEPT ![server.box].conn = c]
       /\ fault' = ~boxes[server.box].live
  /\ UNCHANGED <<conf, stop, thread, sent, world>>

\* Mutant: the descriptor is not closed when there is no thread for it.
Spawn_NoClose ==
  /\ server.pc = "spawn" /\ ServerGoes("scan")
  /\ \/ /\ thread' = [thread EXCEPT ![server.current] =
                        [pc |-> "start", box |-> server.box, serves |-> Nobody]]
        /\ UNCHANGED boxes
     \/ /\ boxes' = [boxes EXCEPT ![server.box].live = FALSE]
        /\ UNCHANGED thread
  /\ UNCHANGED <<conf, stop, conn, sent, world, fault>>

\* Mutant: break instead of continue when there is no thread.
Spawn_Breaks ==
  /\ server.pc = "spawn"
  /\ \/ /\ ServerGoes("scan")
        /\ thread' = [thread EXCEPT ![server.current] =
                        [pc |-> "start", box |-> server.box, serves |-> Nobody]]
        /\ UNCHANGED <<boxes, conn>>
     \/ /\ ServerGoes("done")
        /\ conn' = [conn EXCEPT ![boxes[server.box].conn].state = "closed"]
        /\ boxes' = [boxes EXCEPT ![server.box].live = FALSE]
        /\ UNCHANGED thread
  /\ UNCHANGED <<conf, stop, sent, world, fault>>

\* pthread_create, or its failure: the descriptor is closed and the cfd freed.
Spawn ==
  /\ server.pc = "spawn" /\ ServerGoes("scan")
  /\ \/ /\ thread' = [thread EXCEPT ![server.current] =
                        [pc |-> "start", box |-> server.box, serves |-> Nobody]]
        /\ UNCHANGED <<boxes, conn, fault>>
     \/ /\ ThreadsFail
        /\ conn' = [conn EXCEPT ![boxes[server.box].conn].state = "closed"]
        /\ fault' = ~boxes[server.box].live
        /\ boxes' = [boxes EXCEPT ![server.box].live = FALSE]
        /\ UNCHANGED thread
  /\ UNCHANGED <<conf, stop, sent, world>>

\* No socket is left, and the server goes back to the head of its loop.
ScanEnds ==
  /\ server.pc = "scan" /\ server.ready = {}
  /\ server' = [server EXCEPT !.pc = "alloc", !.current = Nobody]
  /\ UNCHANGED <<conf, stop, boxes, conn, thread, sent, world, fault>>

\* output_stop cancels the thread in select(); the cfd of the round is lost.
Cancelled ==
  /\ stop /\ server.pc = "select" /\ ServerGoes("done")
  /\ UNCHANGED <<conf, stop, boxes, conn, thread, sent, world, fault>>

ServerStep == Alloc \/ Select \/ Accept \/ Spawn \/ ScanEnds \/ Cancelled

-----------------------------------------------------------------------------
(* client_thread, the one that was made for connection c.                  *)

Serves(c) == thread[c].serves
Asks(c) == conn[Serves(c)].asks

Goes(c, pc) ==
  /\ thread' = [thread EXCEPT ![c].pc = pc]
  /\ UNCHANGED <<conf, stop, server, boxes, world>>

Does(c, what) == sent' = [sent EXCEPT ![Serves(c)] = @ \cup {what}]

\* memcpy(&lcfd, arg) and free(arg).
TakeBox(c) ==
  LET b == thread[c].box
  IN  /\ thread[c].pc = "start"
      /\ fault' = ~boxes[b].live
      /\ boxes' = [boxes EXCEPT ![b].live = FALSE]
      /\ thread' = [thread EXCEPT ![c].pc = "request", ![c].serves = boxes[b].conn]
      /\ UNCHANGED <<conf, stop, server, conn, sent, world>>

\* The requests whose URL may name an input plugin.
Suffixed == {"snapshot", "stream", "take", "json"}

\* The request line, then the headers: what they ask is read, or the wait for
\* them times out after 5 seconds, or the browser is gone.
Reads(c, next, asks) ==
  \/ Goes(c, next) /\ conn' = [conn EXCEPT ![Serves(c)].asks = asks]
  \/ Goes(c, "close") /\ UNCHANGED conn

\* A request line that is no request, or whose parameter cannot be unescaped, is
\* answered with an error before the password is looked at.  The number of the
\* plugin can be wrong where one may be named.
ReadRequest(c) ==
  /\ thread[c].pc = "request" /\ UNCHANGED fault
  /\ \/ /\ \E k \in Kinds : \E ok \in {TRUE, k \notin Suffixed} :
             Reads(c, "headers", [Asks(c) EXCEPT !.kind = k, !.inputOK = ok])
        /\ UNCHANGED sent
     \/ Goes(c, "close") /\ Does(c, "error") /\ UNCHANGED conn

\* The right password can be brought where there is one.
ReadHeaders(c) ==
  /\ thread[c].pc = "headers"
  /\ \E ok \in {FALSE, conf.password} : Reads(c, "auth", [Asks(c) EXCEPT !.passwordOK = ok])
  /\ UNCHANGED <<sent, fault>>

\* Mutant: the connection is closed when access is denied, and again at the end.
Authorize_ClosesToo(c) ==
  /\ thread[c].pc = "auth"
  /\ IF conf.password /\ ~Asks(c).passwordOK
     THEN /\ Goes(c, "close") /\ Does(c, "error")
          /\ conn' = [conn EXCEPT ![Serves(c)].state = "closed"]
     ELSE Goes(c, "answer") /\ UNCHANGED <<conn, sent>>
  /\ UNCHANGED fault

\* Mutant: the return after the error is missing.
Authorize_NoReturn(c) ==
  /\ thread[c].pc = "auth" /\ Goes(c, "answer")
  /\ IF conf.password /\ ~Asks(c).passwordOK THEN Does(c, "error") ELSE UNCHANGED sent
  /\ UNCHANGED <<conn, fault>>

\* The password is looked at when one is configured.
Authorize(c) ==
  /\ thread[c].pc = "auth"
  /\ IF conf.password /\ ~Asks(c).passwordOK
     THEN Goes(c, "close") /\ Does(c, "error")
     ELSE Goes(c, "answer") /\ UNCHANGED sent
  /\ UNCHANGED <<conn, fault>>

Refused(c) ==
  LET k == Asks(c).kind
  IN  \/ k \in Suffixed /\ ~Asks(c).inputOK
      \/ k = "command" /\ conf.nocommands
      \/ k = "file" /\ ~conf.www

\* "If it not loaded, or the file could not be saved then we won't transmit the
\* frame": the file output.  Without a file name there is an error and the frame.
TakeFails(c) == Does(c, "error") /\ \E next \in {"close", "wait"} : Goes(c, next)

\* The answer or the error for a request that can be answered at once; for the
\* others the thread goes to wait for a picture.
Answer(c) ==
  /\ thread[c].pc = "answer" /\ UNCHANGED <<conn, fault>>
  /\ LET k == Asks(c).kind
     IN  \/ Refused(c) /\ Goes(c, "close") /\ Does(c, "error")
         \/ /\ ~Refused(c) /\ k = "stream" /\ UNCHANGED sent
            /\ Goes(c, IF Serves(c) \in gone THEN "close" ELSE "stream")
         \/ ~Refused(c) /\ k \in {"snapshot", "take"} /\ Goes(c, "wait") /\ UNCHANGED sent
         \/ ~Refused(c) /\ k = "take" /\ TakeFails(c)
         \/ /\ ~Refused(c) /\ k \notin {"stream", "snapshot", "take"}
            /\ Goes(c, "close") /\ Does(c, k)

\* The head of send_stream's loop.
Stream(c) ==
  /\ thread[c].pc = "stream" /\ Goes(c, IF stop THEN "close" ELSE "wait")
  /\ UNCHANGED <<conn, sent, fault>>

\* Mutant: the loop goes on when a write has failed.
SendPicture_GoesOn(c) ==
  /\ thread[c].pc = "picture" /\ UNCHANGED <<conn, fault>>
  /\ \/ Goes(c, "close") /\ Does(c, "error")
     \/ /\ Goes(c, IF Asks(c).kind = "stream" THEN "stream" ELSE "close")
        /\ IF Serves(c) \in gone THEN UNCHANGED sent ELSE Does(c, "frame")

\* A snapshot or a frame of a stream is copied and written, or there is no
\* memory for it.  A stream goes on until a write fails.
SendPicture(c) ==
  /\ thread[c].pc = "picture" /\ UNCHANGED <<conn, fault>>
  /\ \/ Goes(c, "close") /\ Does(c, "error")
     \/ Serves(c) \in gone /\ Goes(c, "close") /\ UNCHANGED sent
     \/ /\ Serves(c) \notin gone /\ Does(c, "frame")
        /\ Goes(c, IF Asks(c).kind = "stream" THEN "stream" ELSE "close")

\* close(lcfd.fd), on every path out of the thread.
Close(c) ==
  /\ thread[c].pc = "close" /\ Goes(c, "done")
  /\ fault' = (conn[Serves(c)].state = "closed")
  /\ conn' = [conn EXCEPT ![Serves(c)].state = "closed"]
  /\ UNCHANGED sent

ThreadStep(c) ==
  \/ TakeBox(c) \/ ReadRequest(c) \/ ReadHeaders(c) \/ Authorize(c)
  \/ Answer(c) \/ Stream(c) \/ SendPicture(c) \/ Close(c)

Next ==
  /\ ~fault
  /\ \/ Stop \/ CameraEnds \/ Publish \/ ServerStep
     \/ \E c \in Conns : Connect(c) \/ Leave(c) \/ SpuriousWakeup(c) \/ ThreadStep(c)

Spec == Init /\ [][Next]_vars

\* No thread is suspended for ever.  Reading from a browser ends, with the end of
\* its headers or with the timeout, and a browser that stays reads what it is
\* sent.  A camera that has not ended publishes again and again.
FairSpec ==
  /\ Spec
  /\ WF_vars(~fault /\ ServerStep) /\ WF_vars(~fault /\ Publish)
  /\ \A c \in Conns : WF_vars(~fault /\ ThreadStep(c))

-----------------------------------------------------------------------------
(* Properties.                                                             *)

\* Every variable stays in its range.
TypeOK ==
  /\ conf \in Configs /\ stop \in BOOLEAN /\ fault \in BOOLEAN
  /\ gone \subseteq Conns /\ camera \in BOOLEAN
  /\ server \in [pc : {"alloc", "select", "scan", "spawn", "done"}, box : Allocated \cup {0},
                 ready : SUBSET Sockets, current : Conns \cup {Nobody}]
  /\ \A b \in Allocated : boxes[b] \in [live : BOOLEAN, conn : Conns \cup {Nobody}]
  /\ conn \in [Conns -> [state : {"none", "queued", "accepted", "closed"}, sock : Sockets,
                         asks : [kind : Kinds \cup {"other"}, passwordOK : BOOLEAN,
                                 inputOK : BOOLEAN]]]
  /\ thread \in [Conns -> [pc : {"none", "start", "request", "headers", "auth", "answer",
                                 "stream", "wait", "picture", "close", "done"},
                           box : Allocated \cup {0}, serves : Conns \cup {Nobody}]]
  /\ sent \in [Conns -> SUBSET (Kinds \cup {"error", "frame"})]

\* "start a new thread for each accepted connection": the thread made for a
\* connection serves that one.
OwnConnection == \A c \in Conns : thread[c].serves \in {c, Nobody}

\* "we really need the fildescriptor and it must be freeable by us": a connection
\* that was accepted and is not closed yet has a thread that will close it, or
\* the server is about to make one, and no cfd is used after it was freed and
\* no descriptor closed twice.
AcceptedIsOwned ==
  /\ ~fault
  /\ \A c \in Conns : conn[c].state = "accepted" =>
       \/ server.pc = "spawn" /\ server.current = c
       \/ thread[c].pc \notin {"none", "done"}

\* Every connection that was accepted is served by the thread made for it, and
\* closed by it once.
AcceptedIsServed == OwnConnection /\ AcceptedIsOwned

\* With a password configured a request that does not bring it gets an error
\* and nothing else, whichever thread answers.
PasswordRespected ==
  \A c \in Conns : conf.password /\ ~conn[c].asks.passwordOK => sent[c] \subseteq {"error"}

\* A connection that has come to an end, or whose thread waits for the next
\* picture of a camera that gives none any more: send_snapshot and send_stream
\* wait without a timeout, and do not see there that the browser has left.
EndedOrStuck(c) == conn[c].state = "closed" \/ (~camera /\ c \in Waiting)

\* While the program runs, every connection is accepted and closed in the end,
\* except a stream to a browser that is there; and one whose browser has left is
\* closed whatever was asked; both unless the camera has ended and the thread
\* waits for a picture.
ConnectionsEnd ==
  \A c \in Conns :
    /\ conn[c].state = "queued" ~> stop \/ EndedOrStuck(c) \/ conn[c].asks.kind = "stream"
    /\ c \in gone ~> stop \/ EndedOrStuck(c)

=============================================================================
