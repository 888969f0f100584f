----------------------------- MODULE ImuService -----------------------------
(***************************************************************************)
(* The IMU service (pmr3502-servico-imu/servicoimu.py): one thread, a      *)
(* selector, and a packet of 24 bytes for each sample of the IMU, sent to  *)
(* every client with send() on sockets that do not block.                  *)
(*                                                                         *)
(* A packet is two halves <<sample, 1>> and <<sample, 2>>, so that send()  *)
(* may take all of it, a part, or nothing.  What clients send is read byte *)
(* by byte and thrown away, and is left out.  _connections is the set of   *)
(* clients whose connection is open on the server.                         *)
(***************************************************************************)
EXTENDS Integers, Sequences, FiniteSets

CONSTANTS
  ImuClients,  \* programs that connect to the service, each once
  SocketRoom,  \* halves of packets that a socket can hold
  MaxSamples   \* bound: samples of the IMU

ASSUME ImuAssumption ==
  /\ SocketRoom \in Nat \ {0} /\ MaxSamples \in Nat
  /\ "socket" \notin ImuClients /\ "imu" \notin ImuClients   \* the names of the other events

VARIABLES
  imu,    \* the program: where it is, _keepRunning, the events of this round,
          \* samples read, is there a new one, and who is still to get it
  conn,   \* each client's connection: seen by the server, by the client, what
          \* the socket holds, and what the client has read
  since   \* the last sample before a client was accepted (history)

imuVars == <<imu, conn, since>>

ImuInit ==
  /\ imu = [pc |-> "start", keepRunning |-> FALSE, listening |-> FALSE, events |-> {}, sample |-> 0,
            newData |-> FALSE, left |-> {}]
  /\ conn = [c \in ImuClients |-> [server |-> "none", peer |-> "none", held |-> <<>>, got |-> <<>>]]
  /\ since = [c \in ImuClients |-> 0]

Connections == {c \in ImuClients : conn[c].server = "open"}
ImuGoes(pc) == imu' = [imu EXCEPT !.pc = pc]

\* An exception leaves run; of the events and the clients that were to be served
\* only the one at which it was raised is kept.
Raises(events, left) == imu' = [imu EXCEPT !.pc = "raised", !.events = events, !.left = left]

-----------------------------------------------------------------------------
(* The clients, and SIGINT.                                                *)

\* A connection waits in the backlog until it is accepted.
Connect(c) ==
  /\ imu.listening /\ conn[c].peer = "none"
  /\ conn' = [conn EXCEPT ![c].peer = "open"]
  /\ UNCHANGED <<imu, since>>

\* A client that reads takes all that has come.  Between an exception and stop
\* nobody needs to: what it would read then it reads after stop.
Read(c) ==
  /\ conn[c].peer = "open" /\ conn[c].held # <<>> /\ imu.pc # "raised"
  /\ conn' = [conn EXCEPT ![c].held = <<>>, ![c].got = @ \o conn[c].held]
  /\ UNCHANGED <<imu, since>>

\* The client closes its socket, or is reset.
ClientLeaves(c) ==
  /\ conn[c].peer = "open"
  /\ \E how \in {"closed", "reset"} : conn' = [conn EXCEPT ![c].peer = how]
  /\ UNCHANGED <<imu, since>>

\* _sighandler
SigHandler ==
  /\ imu.keepRunning
  /\ imu' = [imu EXCEPT !.keepRunning = FALSE]
  /\ UNCHANGED <<conn, since>>

-----------------------------------------------------------------------------
(* start and run.                                                          *)

\* The socket listens before the IMU is found; without an IMU the exception
\* leaves the program, which closes everything without stop.
Start ==
  /\ imu.pc = "start"
  /\ imu' = [imu EXCEPT !.pc = "find", !.keepRunning = TRUE, !.listening = TRUE]
  /\ UNCHANGED <<conn, since>>

FindImu ==
  /\ imu.pc = "find"
  /\ \/ ImuGoes("head")
     \/ imu' = [imu EXCEPT !.pc = "exit", !.listening = FALSE]
  /\ UNCHANGED <<conn, since>>

LoopHead ==
  /\ imu.pc = "head"
  /\ ImuGoes(IF imu.keepRunning THEN "select" ELSE "stop")
  /\ UNCHANGED <<conn, since>>

\* What select returns: the listening socket, the IMU, and sockets whose client is
\* gone; or nothing, after a second.
Ready(sampled) ==
  (IF \E c \in ImuClients : conn[c].server = "none" /\ conn[c].peer # "none" THEN {"socket"} ELSE {})
  \cup (IF sampled THEN {"imu"} ELSE {})
  \cup {c \in Connections : conn[c].peer # "open"}

Select ==
  /\ imu.pc = "select"
  /\ \E sampled \in {FALSE, imu.sample < MaxSamples} :
       /\ Ready(sampled) # {} \/ ~imu.keepRunning
       /\ imu' = [imu EXCEPT !.pc = "events", !.events = Ready(sampled)]
  /\ UNCHANGED <<conn, since>>

\* _accept; accept() may fail.
Accept ==
  /\ imu.pc = "events" /\ "socket" \in imu.events
  /\ \/ /\ \E c \in ImuClients :
             /\ conn[c].server = "none" /\ conn[c].peer # "none"
             /\ conn' = [conn EXCEPT ![c].server = "open"]
             /\ since' = [since EXCEPT ![c] = IF imu.newData THEN imu.sample - 1 ELSE imu.sample]
        /\ imu' = [imu EXCEPT !.events = @ \ {"socket"}]
     \/ Raises({"socket"}, {}) /\ UNCHANGED <<conn, since>>

\* _readbuff; the IMU may fail.
ReadBuff ==
  /\ imu.pc = "events" /\ "imu" \in imu.events
  /\ \/ imu' = [imu EXCEPT !.events = @ \ {"imu"}, !.sample = @ + 1, !.newData = TRUE]
     \/ Raises({"imu"}, {})
  /\ UNCHANGED <<conn, since>>

\* Mutant: the connection is closed but stays among _connections.
ReadClient_NotRemoved(c) ==
  /\ imu.pc = "events" /\ c \in imu.events
  /\ imu' = [imu EXCEPT !.events = @ \ {c}]
  /\ UNCHANGED <<conn, since>>

\* _read of a client that is gone: its connection is closed, or recv raises.
ReadClient(c) ==
  /\ imu.pc = "events" /\ c \in imu.events
  /\ \/ /\ conn[c].peer \in {"closed", "gone"}
        /\ conn' = [conn EXCEPT ![c].server = "closed"]
        /\ imu' = [imu EXCEPT !.events = @ \ {c}]
     \/ /\ conn[c].peer = "reset"
        /\ Raises({c}, {})
        /\ UNCHANGED conn
  /\ UNCHANGED since

\* getNewData
EventsDone ==
  /\ imu.pc = "events" /\ imu.events = {}
  /\ imu' = IF imu.newData THEN [imu EXCEPT !.pc = "send", !.newData = FALSE, !.left = Connections]
            ELSE [imu EXCEPT !.pc = "head"]
  /\ UNCHANGED <<conn, since>>

\* Mutant: a client whose socket is full is passed over.
Send_SkipsFull(c) ==
  LET room == SocketRoom - Len(conn[c].held)
      packet == <<<<imu.sample, 1>>, <<imu.sample, 2>>>>
  IN  /\ imu.pc = "send" /\ c \in imu.left
      /\ conn' = [conn EXCEPT ![c].held = IF room >= 2 THEN @ \o packet ELSE @]
      /\ imu' = [imu EXCEPT !.left = @ \ {c}]
      /\ UNCHANGED since

\* send takes what fits; it raises when the socket is full or was reset.  The
\* first packet for a client that has closed is answered by a reset ("gone"),
\* after which recv still finds the end of the stream.
Send(c) ==
  LET room == SocketRoom - Len(conn[c].held)
      packet == IF room >= 2 THEN <<<<imu.sample, 1>>, <<imu.sample, 2>>>> ELSE <<<<imu.sample, 1>>>>
  IN  /\ imu.pc = "send" /\ c \in imu.left
      /\ \/ /\ conn[c].peer \notin {"gone", "reset"} /\ room > 0
            /\ conn' = [conn EXCEPT ![c].held = @ \o packet,
                                    ![c].peer = IF @ = "closed" THEN "gone" ELSE @]
            /\ imu' = [imu EXCEPT !.left = @ \ {c}]
         \/ /\ conn[c].peer \in {"gone", "reset"} \/ room = 0
            /\ Raises({}, {c})
            /\ UNCHANGED conn
      /\ UNCHANGED since

SendsDone ==
  /\ imu.pc = "send" /\ imu.left = {}
  /\ ImuGoes("head")
  /\ UNCHANGED <<conn, since>>

\* stop, called by run and again by __exit__, which also hides the exception that
\* left run; the second time nothing is left to be closed.
StopService ==
  /\ imu.pc \in {"stop", "raised", "again"}
  /\ conn' = [c \in ImuClients |-> IF c \in Connections THEN [conn[c] EXCEPT !.server = "closed"] ELSE conn[c]]
  /\ imu' = [imu EXCEPT !.pc = IF @ = "stop" THEN "again" ELSE "exit",
                        !.keepRunning = FALSE, !.listening = FALSE]
  /\ UNCHANGED since

ImuStep ==
  \/ Start \/ FindImu \/ LoopHead \/ Select \/ Accept \/ ReadBuff \/ EventsDone \/ SendsDone \/ StopService
  \/ \E c \in ImuClients : ReadClient(c) \/ Send(c)

ImuNext == ImuStep \/ SigHandler \/ \E c \in ImuClients : Connect(c) \/ Read(c) \/ ClientLeaves(c)

=============================================================================
