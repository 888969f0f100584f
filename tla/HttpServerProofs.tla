-------------------------- MODULE HttpServerProofs --------------------------
(***************************************************************************)
(* What HttpServer's steps keep, for any number of browsers: the types with*)
(* any number of listening sockets, the ownership of cfds and connections  *)
(* and the password with one.  With two sockets ownership is lost: one cfd *)
(* is then handed to two threads (the run HttpServerTwo).                  *)
(***************************************************************************)
EXTENDS HttpServer, FiniteSetTheorems, TLAPS

\* That gone and camera do not change is always to be seen.
USE DEF world

Pcs == {"none", "start", "request", "headers", "auth", "answer", "stream",
        "wait", "picture", "close", "done"}
States == {"none", "queued", "accepted", "closed"}
Requests == [kind : Kinds \cup {"other"}, passwordOK : BOOLEAN, inputOK : BOOLEAN]

\* The cfds are numbered in the order of their allocation, and the server has
\* one from select() to the end of the round.
BoxesThere ==
  /\ boxes = [b \in Allocated |-> boxes[b]]
  /\ \E n \in Nat : Allocated = 1 .. n
  /\ server.pc \in {"select", "scan", "spawn"} => server.box \in Allocated
  /\ server.pc = "spawn" => server.current \in Conns /\ boxes[server.box].conn \in Conns

\* A thread has a cfd that holds a connection, and serves one when it has read it.
ThreadTyped(c) ==
  /\ thread[c].pc # "none" => thread[c].box \in Allocated /\ boxes[thread[c].box].conn \in Conns
  /\ thread[c].pc \notin {"none", "start"} => thread[c].serves \in Conns
  /\ thread[c].pc \in {"headers", "auth", "answer"} => conn[thread[c].serves].asks.kind \in Kinds
ThreadsTyped == \A c \in Conns : ThreadTyped(c)

TypeInv == TypeOK /\ BoxesThere /\ ThreadsTyped

\* A thread that goes on keeps its cfd and its connection.
LEMMA ThreadGoes ==
  ASSUME TypeOK, NEW c \in Conns, NEW pc \in Pcs, Goes(c, pc)
  PROVE  /\ thread' \in [Conns -> [pc : Pcs, box : Allocated' \cup {0}, serves : Conns \cup {Nobody}]]
         /\ thread'[c].pc = pc /\ thread'[c].box = thread[c].box /\ thread'[c].serves = thread[c].serves
         /\ \A d \in Conns \ {c} : thread'[d] = thread[d]
         /\ Allocated' = Allocated /\ UNCHANGED <<conf, stop, server, boxes, world>>
<1>1. thread \in [Conns -> [pc : Pcs, box : Allocated \cup {0}, serves : Conns \cup {Nobody}]]
  BY DEF TypeOK, Pcs
<1>2. thread' = [thread EXCEPT ![c].pc = pc] /\ UNCHANGED <<conf, stop, server, boxes, world>> BY DEF Goes
<1>3. Allocated' = Allocated BY <1>2 DEF Allocated
<1>4. QED BY <1>1, <1>2, <1>3

\* A connection that gets another state keeps its socket and its request.
LEMMA ConnGets ==
  ASSUME TypeOK, NEW x \in Conns, NEW s \in States, conn' = [conn EXCEPT ![x].state = s]
  PROVE  /\ conn' \in [Conns -> [state : States, sock : Sockets, asks : Requests]]
         /\ conn'[x].state = s /\ conn'[x].sock = conn[x].sock /\ conn'[x].asks = conn[x].asks
         /\ \A d \in Conns \ {x} : conn'[d] = conn[d]
<1>1. conn \in [Conns -> [state : States, sock : Sockets, asks : Requests]]
  BY DEF TypeOK, States, Requests
<1>2. QED BY <1>1

\* A connection of which more was read keeps its state and its socket.
LEMMA ConnAsks ==
  ASSUME TypeOK, NEW x \in Conns, NEW r \in Requests, conn' = [conn EXCEPT ![x].asks = r]
  PROVE  /\ conn' \in [Conns -> [state : States, sock : Sockets, asks : Requests]]
         /\ conn'[x].state = conn[x].state /\ conn'[x].sock = conn[x].sock /\ conn'[x].asks = r
         /\ \A d \in Conns \ {x} : conn'[d] = conn[d]
<1>1. conn \in [Conns -> [state : States, sock : Sockets, asks : Requests]]
  BY DEF TypeOK, States, Requests
<1>2. QED BY <1>1

\* What is done for one connection is added to what was done for it.
LEMMA Done ==
  ASSUME TypeOK, NEW c \in Conns, thread[c].serves \in Conns, NEW what \in Kinds \cup {"error", "frame"},
         Does(c, what)
  PROVE  /\ sent' \in [Conns -> SUBSET (Kinds \cup {"error", "frame"})]
         /\ sent'[thread[c].serves] = sent[thread[c].serves] \cup {what}
         /\ \A d \in Conns \ {thread[c].serves} : sent'[d] = sent[d]
<1>1. sent \in [Conns -> SUBSET (Kinds \cup {"error", "frame"})] BY DEF TypeOK
<1>2. sent' = [sent EXCEPT ![thread[c].serves] = @ \cup {what}] BY DEF Does, Serves
<1>3. QED BY <1>1, <1>2

\* The server goes on with its cfd.
LEMMA ServerMoves ==
  ASSUME TypeOK, NEW pc \in {"alloc", "select", "scan", "spawn", "done"}, ServerGoes(pc), UNCHANGED Allocated
  PROVE  /\ server' \in [pc : {"alloc", "select", "scan", "spawn", "done"}, box : Allocated' \cup {0},
                         ready : SUBSET Sockets, current : Conns \cup {Nobody}]
         /\ server'.pc = pc /\ server'.box = server.box /\ server'.ready = server.ready
         /\ server'.current = server.current
BY DEF TypeOK, ServerGoes

\* Initially nothing is there.
LEMMA TypeStart == Init => TypeInv
<1> SUFFICES ASSUME Init PROVE TypeInv OBVIOUS
<1> USE SocketsAssumption
<1>1. Allocated = {} /\ boxes = <<>> BY DEF Init, Allocated
<1>2. TypeOK
  <2>1. conn \in [Conns -> [state : States, sock : Sockets, asks : Requests]]
    <3>1. Unread \in Requests BY DEF Unread, Requests
    <3>2. \A s \in Sockets : [state |-> "none", sock |-> s, asks |-> Unread]
                               \in [state : States, sock : Sockets, asks : Requests]
      BY <3>1 DEF States
    <3>3. conn \in [Conns -> {[state |-> "none", sock |-> s, asks |-> Unread] : s \in Sockets}] BY DEF Init
    <3>4. QED BY <3>2, <3>3
  <2>2. thread \in [Conns -> [pc : Pcs, box : Allocated \cup {0}, serves : Conns \cup {Nobody}]]
    BY DEF Init, NoThread, Pcs
  <2>3. QED BY <1>1, <2>1, <2>2 DEF Init, TypeOK, States, Requests, Pcs
<1>3. BoxesThere
  <2>1. Allocated = 1 .. 0 BY <1>1
  <2>2. boxes = [b \in Allocated |-> boxes[b]] BY <1>1
  <2>3. QED BY <2>1, <2>2 DEF Init, BoxesThere
<1>4. ThreadsTyped BY DEF Init, ThreadsTyped, ThreadTyped, NoThread
<1>5. QED BY <1>2, <1>3, <1>4 DEF TypeInv


\* A new cfd is the one after those that were allocated.
LEMMA Allocates ==
  ASSUME TypeInv, Alloc, ~stop
  PROVE  /\ \E n \in Nat : Allocated' = 1 .. n
         /\ server'.box \notin Allocated /\ Allocated' = Allocated \cup {server'.box}
         /\ boxes' = [x \in Allocated' |-> boxes'[x]]
         /\ boxes'[server'.box] = [live |-> TRUE, conn |-> Nobody]
         /\ \A x \in Allocated : boxes'[x] = boxes[x]
         /\ server' = [server EXCEPT !.pc = "select", !.box = server'.box]
         /\ UNCHANGED <<conf, stop, conn, thread, sent, world, fault>>
<1> DEFINE b == Cardinality(Allocated) + 1
           box == [live |-> TRUE, conn |-> Nobody]
<1>1. /\ server' = [server EXCEPT !.pc = "select", !.box = b]
      /\ boxes' = [x \in Allocated \cup {b} |-> IF x = b THEN box ELSE boxes[x]]
      /\ UNCHANGED <<conf, stop, conn, thread, sent, world, fault>>
  BY DEF Alloc
<1>2. PICK n \in Nat : Allocated = 1 .. n BY DEF TypeInv, BoxesThere
<1>3. b = n + 1
  <2>1. Cardinality(1 .. n) = n BY <1>2, FS_Interval
  <2>2. QED BY <1>2, <2>1
<1>4. b \notin Allocated BY <1>2, <1>3
<1> HIDE DEF b
<1>5. server'.box = b BY <1>1 DEF TypeInv, TypeOK
<1>6. Allocated' = Allocated \cup {b} BY <1>1 DEF Allocated
<1>7. boxes'[b] = box /\ \A x \in Allocated : boxes'[x] = boxes[x] BY <1>1, <1>4
<1>8. boxes' = [x \in Allocated' |-> boxes'[x]] BY <1>1, <1>6
<1>9. Allocated' = 1 .. (n + 1) BY <1>2, <1>3, <1>6
<1>10. QED BY <1>1, <1>2, <1>4, <1>5, <1>6, <1>7, <1>8, <1>9

\* The new cfd is typed, and so is what is there already.
LEMMA AllocTyped == ASSUME TypeInv, Alloc PROVE TypeInv'
<1>1. CASE stop
  <2>1. ServerGoes("done") /\ UNCHANGED <<boxes, conf, stop, conn, thread, sent, world, fault>> BY <1>1 DEF Alloc
  <2>2. UNCHANGED Allocated BY <2>1 DEF Allocated
  <2>3. TypeOK' BY <2>1, <2>2, ServerMoves DEF TypeOK, TypeInv
  <2>4. BoxesThere'
    <3>1. server'.pc = "done" BY <2>1, <2>2, ServerMoves DEF TypeInv
    <3>2. QED BY <2>1, <2>2, <3>1 DEF TypeInv, BoxesThere
  <2>5. ThreadsTyped' BY <2>1, <2>2 DEF TypeInv, ThreadsTyped, ThreadTyped
  <2>6. QED BY <2>3, <2>4, <2>5 DEF TypeInv
<1>2. CASE ~stop
  <2> DEFINE box == [live |-> TRUE, conn |-> Nobody]
  <2>1. PICK b : b = server'.box OBVIOUS
  <2>2. /\ \E n \in Nat : Allocated' = 1 .. n
        /\ b \notin Allocated /\ Allocated' = Allocated \cup {b}
        /\ boxes' = [x \in Allocated' |-> boxes'[x]]
        /\ boxes'[b] = box /\ \A x \in Allocated : boxes'[x] = boxes[x]
        /\ server' = [server EXCEPT !.pc = "select", !.box = b]
        /\ UNCHANGED <<conf, stop, conn, thread, sent, world, fault>>
    BY <1>2, <2>1, Allocates
  <2>3. box \in [live : BOOLEAN, conn : Conns \cup {Nobody}] OBVIOUS
  <2> HIDE DEF box
  <2>4. /\ server'.pc = "select"
        /\ server' \in [pc : {"alloc", "select", "scan", "spawn", "done"}, box : Allocated' \cup {0},
                        ready : SUBSET Sockets, current : Conns \cup {Nobody}]
    BY <2>2 DEF TypeOK, TypeInv
  <2>5. TypeOK'
    <3>1. \A x \in Allocated' : boxes'[x] \in [live : BOOLEAN, conn : Conns \cup {Nobody}]
      <4>1. \A x \in Allocated : boxes[x] \in [live : BOOLEAN, conn : Conns \cup {Nobody}]
        BY DEF TypeOK, TypeInv
      <4>2. QED BY <2>2, <2>3, <4>1
    <3>2. thread' \in [Conns -> [pc : Pcs, box : Allocated' \cup {0}, serves : Conns \cup {Nobody}]]
      <4>1. Allocated \cup {0} \subseteq Allocated' \cup {0} BY <2>2
      <4>2. thread \in [Conns -> [pc : Pcs, box : Allocated \cup {0}, serves : Conns \cup {Nobody}]]
        BY DEF TypeOK, TypeInv, Pcs
      <4>3. QED BY <2>2, <4>1, <4>2
    <3>3. QED BY <2>2, <2>4, <3>1, <3>2 DEF TypeOK, TypeInv, Pcs
  <2>6. BoxesThere' BY <2>1, <2>2, <2>4 DEF BoxesThere
  <2>7. ThreadsTyped' BY <2>2 DEF TypeInv, ThreadsTyped, ThreadTyped
  <2>8. QED BY <2>5, <2>6, <2>7 DEF TypeInv
<1>3. QED BY <1>1, <1>2

\* Between two rounds the server has neither a connection nor a ready socket to
\* type anew.
LEMMA SelectTyped == ASSUME TypeInv, Select \/ ScanEnds \/ Cancelled PROVE TypeInv'
<1>1. UNCHANGED <<conf, stop, boxes, conn, thread, sent, world, fault>> BY DEF Select, ScanEnds, Cancelled
<1>2. UNCHANGED Allocated BY <1>1 DEF Allocated
<1>3. /\ server' \in [pc : {"alloc", "select", "scan", "spawn", "done"}, box : Allocated' \cup {0},
                      ready : SUBSET Sockets, current : Conns \cup {Nobody}]
      /\ server'.pc \in {"scan", "alloc", "done"} /\ server'.box = server.box
      /\ server'.pc = "scan" => server.pc = "select"
  <2>1. CASE Select
    <3> DEFINE waiting == {conn[c].sock : c \in {x \in Conns : conn[x].state = "queued"}}
    <3>1. waiting \subseteq Sockets BY DEF TypeInv, TypeOK
    <3>2. server.pc = "select" /\ server' = [server EXCEPT !.pc = "scan", !.ready = waiting]
      BY <2>1 DEF Select
    <3> HIDE DEF waiting
    <3>3. QED BY <1>2, <3>1, <3>2 DEF TypeInv, TypeOK
  <2>2. CASE ScanEnds BY <1>2, <2>2 DEF ScanEnds, TypeInv, TypeOK
  <2>3. CASE Cancelled BY <1>2, <2>3 DEF Cancelled, ServerGoes, TypeInv, TypeOK
  <2>4. QED BY <2>1, <2>2, <2>3
<1>4. TypeOK' BY <1>1, <1>2, <1>3 DEF TypeOK, TypeInv
<1>5. BoxesThere' BY <1>1, <1>2, <1>3 DEF TypeInv, BoxesThere
<1>6. ThreadsTyped' BY <1>1, <1>2 DEF TypeInv, ThreadsTyped, ThreadTyped
<1>7. QED BY <1>4, <1>5, <1>6 DEF TypeInv

\* The cfd b gets another content.
LEMMA BoxGets ==
  ASSUME TypeInv, NEW b \in Allocated, NEW live \in BOOLEAN, NEW c \in Conns \cup {Nobody},
         boxes' = [boxes EXCEPT ![b] = [live |-> live, conn |-> c]]
  PROVE  /\ Allocated' = Allocated /\ boxes' = [x \in Allocated' |-> boxes'[x]]
         /\ \A x \in Allocated' : boxes'[x] \in [live : BOOLEAN, conn : Conns \cup {Nobody}]
         /\ boxes'[b] = [live |-> live, conn |-> c]
         /\ \A x \in Allocated \ {b} : boxes'[x] = boxes[x]
<1>1. boxes = [x \in Allocated |-> boxes[x]] BY DEF TypeInv, BoxesThere
<1>2. \A x \in Allocated : boxes[x] \in [live : BOOLEAN, conn : Conns \cup {Nobody}] BY DEF TypeInv, TypeOK
<1>3. Allocated' = Allocated BY <1>1 DEF Allocated
<1>4. QED BY <1>1, <1>2, <1>3

\* A cfd is freed, and keeps what it held.
LEMMA BoxFreed ==
  ASSUME TypeInv, NEW b \in Allocated, boxes' = [boxes EXCEPT ![b].live = FALSE]
  PROVE  /\ Allocated' = Allocated /\ boxes' = [x \in Allocated' |-> boxes'[x]]
         /\ \A x \in Allocated' : boxes'[x] \in [live : BOOLEAN, conn : Conns \cup {Nobody}]
         /\ \A x \in Allocated : boxes'[x].conn = boxes[x].conn
         /\ ~boxes'[b].live /\ \A x \in Allocated \ {b} : boxes'[x] = boxes[x]
<1>1. boxes = [x \in Allocated |-> boxes[x]] BY DEF TypeInv, BoxesThere
<1>2. \A x \in Allocated : boxes[x] \in [live : BOOLEAN, conn : Conns \cup {Nobody}] BY DEF TypeInv, TypeOK
<1>3. Allocated' = Allocated BY <1>1 DEF Allocated
<1>4. \A x \in Allocated \ {b} : boxes'[x] = boxes[x] BY <1>1
<1>5. boxes'[b] \in [live : BOOLEAN, conn : Conns \cup {Nobody}] BY <1>1, <1>2
<1>6. ~boxes'[b].live BY <1>1, <1>2
<1>7. boxes'[b].conn = boxes[b].conn BY <1>1, <1>2
<1>8. boxes' = [x \in Allocated' |-> boxes'[x]] BY <1>1, <1>3
<1>9. QED BY <1>2, <1>3, <1>4, <1>5, <1>6, <1>7, <1>8

\* A cfd gets the connection that was accepted.
LEMMA BoxFilled ==
  ASSUME TypeInv, NEW b \in Allocated, NEW c \in Conns, boxes' = [boxes EXCEPT ![b].conn = c]
  PROVE  /\ Allocated' = Allocated /\ boxes' = [x \in Allocated' |-> boxes'[x]]
         /\ \A x \in Allocated' : boxes'[x] \in [live : BOOLEAN, conn : Conns \cup {Nobody}]
         /\ boxes'[b].conn = c /\ boxes'[b].live = boxes[b].live
         /\ \A x \in Allocated \ {b} : boxes'[x] = boxes[x]
<1>1. boxes[b] \in [live : BOOLEAN, conn : Conns \cup {Nobody}] BY DEF TypeInv, TypeOK
<1>2. PICK live \in BOOLEAN : live = boxes[b].live BY <1>1
<1>3. [boxes[b] EXCEPT !.conn = c] = [live |-> live, conn |-> c] BY <1>1, <1>2
<1>4. boxes' = [boxes EXCEPT ![b] = [live |-> live, conn |-> c]] BY <1>3
<1>5. QED
  <2>1. /\ Allocated' = Allocated /\ boxes' = [x \in Allocated' |-> boxes'[x]]
        /\ \A x \in Allocated' : boxes'[x] \in [live : BOOLEAN, conn : Conns \cup {Nobody}]
        /\ boxes'[b] = [live |-> live, conn |-> c]
        /\ \A x \in Allocated \ {b} : boxes'[x] = boxes[x]
    BY <1>4, BoxGets
  <2>2. QED BY <1>2, <2>1


\* The connection that is accepted is the one in the server's cfd.
LEMMA AcceptTyped == ASSUME TypeInv, Accept PROVE TypeInv'
<1>1. server.pc = "scan" /\ server.box \in Allocated BY DEF Accept, TypeInv, BoxesThere
<1>2. PICK s \in server.ready : \E c \in Conns :
         /\ conn[c].state = "queued" /\ conn[c].sock = s
         /\ conn' = [conn EXCEPT ![c].state = "accepted"]
         /\ server' = [server EXCEPT !.pc = "spawn", !.ready = @ \ {s}, !.current = c]
         /\ boxes' = [boxes EXCEPT ![server.box].conn = c]
         /\ fault' = ~boxes[server.box].live
  BY DEF Accept
<1>3. PICK c \in Conns :
         /\ conn' = [conn EXCEPT ![c].state = "accepted"]
         /\ server' = [server EXCEPT !.pc = "spawn", !.ready = @ \ {s}, !.current = c]
         /\ boxes' = [boxes EXCEPT ![server.box].conn = c]
         /\ fault' = ~boxes[server.box].live
  BY <1>2
<1>4. UNCHANGED <<conf, stop, thread, sent, world>> BY DEF Accept
<1>5. PICK b \in Allocated : b = server.box BY <1>1
<1>6. /\ Allocated' = Allocated /\ boxes' = [x \in Allocated' |-> boxes'[x]]
      /\ \A x \in Allocated' : boxes'[x] \in [live : BOOLEAN, conn : Conns \cup {Nobody}]
      /\ boxes'[b].conn = c /\ \A x \in Allocated \ {b} : boxes'[x] = boxes[x]
  <2>1. boxes' = [boxes EXCEPT ![b].conn = c] BY <1>3, <1>5
  <2>2. QED BY <2>1, BoxFilled
<1>7. /\ conn' \in [Conns -> [state : States, sock : Sockets, asks : Requests]]
      /\ \A d \in Conns : conn'[d].asks = conn[d].asks
  BY <1>3, ConnGets DEF TypeInv, States
<1>8. /\ server' \in [pc : {"alloc", "select", "scan", "spawn", "done"}, box : Allocated' \cup {0},
                      ready : SUBSET Sockets, current : Conns \cup {Nobody}]
      /\ server'.pc = "spawn" /\ server'.box = b /\ server'.current = c
  BY <1>3, <1>5, <1>6 DEF TypeInv, TypeOK
<1>9. TypeOK' BY <1>3, <1>4, <1>6, <1>7, <1>8 DEF TypeInv, TypeOK, States, Requests
<1>10. BoxesThere' BY <1>6, <1>8 DEF TypeInv, BoxesThere
<1>11. ThreadsTyped'
  <2>1. \A d \in Conns : ThreadTyped(d) BY DEF TypeInv, ThreadsTyped
  <2>2. \A x \in Allocated : boxes[x].conn \in Conns => boxes'[x].conn \in Conns BY <1>6
  <2> SUFFICES ASSUME NEW d \in Conns PROVE ThreadTyped(d)' BY DEF ThreadsTyped
  <2>3. QED BY <1>4, <1>6, <1>7, <2>1, <2>2 DEF ThreadTyped
<1>12. QED BY <1>9, <1>10, <1>11 DEF TypeInv

\* A thread that is made gets the server's cfd.
LEMMA SpawnTyped == ASSUME TypeInv, Spawn PROVE TypeInv'
<1>1. /\ server.pc = "spawn" /\ server.box \in Allocated /\ server.current \in Conns
      /\ boxes[server.box].conn \in Conns
  BY DEF Spawn, TypeInv, BoxesThere
<1>2. UNCHANGED <<conf, stop, sent, world>> /\ ServerGoes("scan") BY DEF Spawn
<1>3. CASE /\ thread' = [thread EXCEPT ![server.current] =
                        [pc |-> "start", box |-> server.box, serves |-> Nobody]]
           /\ UNCHANGED <<boxes, conn, fault>>
  <2>1. Allocated' = Allocated BY <1>3 DEF Allocated
  <2>2. server'.pc = "scan" /\ server'.box = server.box /\ server'.current = server.current
    BY <1>2, <2>1, ServerMoves DEF TypeInv
  <2>3. thread' \in [Conns -> [pc : Pcs, box : Allocated' \cup {0}, serves : Conns \cup {Nobody}]]
    <3>1. [pc |-> "start", box |-> server.box, serves |-> Nobody]
             \in [pc : Pcs, box : Allocated \cup {0}, serves : Conns \cup {Nobody}]
      BY <1>1 DEF Pcs
    <3>2. thread \in [Conns -> [pc : Pcs, box : Allocated \cup {0}, serves : Conns \cup {Nobody}]]
      BY DEF TypeInv, TypeOK, Pcs
    <3>3. QED BY <1>3, <2>1, <3>1, <3>2
  <2>4. TypeOK' BY <1>2, <1>3, <2>1, <2>3, ServerMoves DEF TypeInv, TypeOK, Pcs
  <2>5. BoxesThere' BY <1>1, <1>3, <2>1, <2>2 DEF TypeInv, BoxesThere
  <2>6. ThreadsTyped'
    <3> SUFFICES ASSUME NEW d \in Conns PROVE ThreadTyped(d)' BY DEF ThreadsTyped
    <3>1. CASE d = server.current
      <4>1. thread'[d] = [pc |-> "start", box |-> server.box, serves |-> Nobody]
        BY <1>3, <3>1 DEF TypeInv, TypeOK
      <4>2. QED BY <1>1, <1>3, <2>1, <4>1 DEF ThreadTyped
    <3>2. CASE d # server.current
      <4>1. thread'[d] = thread[d] BY <1>3, <3>2 DEF TypeInv, TypeOK
      <4>2. QED BY <1>3, <2>1, <4>1 DEF TypeInv, ThreadsTyped, ThreadTyped
    <3>3. QED BY <3>1, <3>2
  <2>7. QED BY <2>4, <2>5, <2>6 DEF TypeInv
<1>4. CASE /\ conn' = [conn EXCEPT ![boxes[server.box].conn].state = "closed"]
           /\ fault' = ~boxes[server.box].live
           /\ boxes' = [boxes EXCEPT ![server.box].live = FALSE]
           /\ UNCHANGED thread
  <2>1. PICK b \in Allocated : b = server.box BY <1>1
  <2>2. PICK c \in Conns : c = boxes[server.box].conn BY <1>1
  <2>3. /\ conn' \in [Conns -> [state : States, sock : Sockets, asks : Requests]]
        /\ \A d \in Conns : conn'[d].asks = conn[d].asks
    BY <1>4, <2>2, ConnGets DEF TypeInv, States
  <2>4. /\ Allocated' = Allocated /\ boxes' = [x \in Allocated' |-> boxes'[x]]
        /\ \A x \in Allocated' : boxes'[x] \in [live : BOOLEAN, conn : Conns \cup {Nobody}]
        /\ \A x \in Allocated : boxes'[x].conn = boxes[x].conn
    <3>1. boxes' = [boxes EXCEPT ![b].live = FALSE] BY <1>4, <2>1
    <3>2. QED BY <3>1, BoxFreed
  <2>5. server'.pc = "scan" /\ server'.box = server.box BY <1>2, <2>4, ServerMoves DEF TypeInv
  <2>6. TypeOK' BY <1>2, <1>4, <2>3, <2>4, ServerMoves DEF TypeInv, TypeOK, States, Requests
  <2>7. BoxesThere' BY <1>1, <2>4, <2>5 DEF TypeInv, BoxesThere
  <2>8. ThreadsTyped'
    <3> SUFFICES ASSUME NEW d \in Conns PROVE ThreadTyped(d)' BY DEF ThreadsTyped
    <3>1. ThreadTyped(d) BY DEF TypeInv, ThreadsTyped
    <3>2. QED BY <1>4, <2>3, <2>4, <3>1 DEF ThreadTyped
  <2>9. QED BY <2>6, <2>7, <2>8 DEF TypeInv
<1>5. QED BY <1>3, <1>4 DEF Spawn


\* A thread that goes on stays typed, and so do the others.
LEMMA GoesTyped ==
  ASSUME TypeInv, NEW c \in Conns, NEW pc \in Pcs \ {"none", "start"}, Goes(c, pc),
         thread[c].pc \notin {"none", "start"},
         \A d \in Conns : conn[d].asks.kind \in Kinds => conn'[d].asks.kind \in Kinds,
         pc \in {"headers", "auth", "answer"} => conn'[thread[c].serves].asks.kind \in Kinds
  PROVE  BoxesThere' /\ ThreadsTyped'
<1>1. /\ thread'[c].pc = pc /\ thread'[c].box = thread[c].box /\ thread'[c].serves = thread[c].serves
      /\ \A d \in Conns \ {c} : thread'[d] = thread[d]
      /\ Allocated' = Allocated /\ UNCHANGED <<server, boxes>>
  BY ThreadGoes DEF TypeInv
<1>2. BoxesThere' BY <1>1 DEF TypeInv, BoxesThere
<1>3. ASSUME NEW d \in Conns PROVE ThreadTyped(d)'
  <2>1. ThreadTyped(d) BY DEF TypeInv, ThreadsTyped
  <2>2. CASE d = c BY <1>1, <2>1, <2>2 DEF ThreadTyped
  <2>3. CASE d # c BY <1>1, <2>1, <2>3 DEF ThreadTyped
  <2>4. QED BY <2>2, <2>3
<1>4. QED BY <1>2, <1>3 DEF ThreadsTyped

\* The serving of a connection needs one to serve.
LEMMA ServesOne ==
  ASSUME TypeInv, NEW c \in Conns, thread[c].pc \notin {"none", "start"}
  PROVE  thread[c].serves \in Conns /\ conn[thread[c].serves].asks \in Requests
BY DEF TypeInv, ThreadsTyped, ThreadTyped, TypeOK, Requests

\* What is read of a request is a part of one.
LEMMA ReadsTyped ==
  ASSUME TypeInv, NEW c \in Conns, NEW next \in {"headers", "auth"}, NEW asks \in Requests,
         thread[c].pc \in {"request", "headers"}, Reads(c, next, asks), UNCHANGED <<sent, fault>>,
         asks.kind \in Kinds
  PROVE  TypeInv'
<1> PICK x \in Conns : x = thread[c].serves BY ServesOne
<1>1. CASE Goes(c, next) /\ conn' = [conn EXCEPT ![Serves(c)].asks = asks]
  <2>1. conn' = [conn EXCEPT ![x].asks = asks] BY <1>1 DEF Serves
  <2>2. /\ conn' \in [Conns -> [state : States, sock : Sockets, asks : Requests]]
        /\ conn'[x].asks = asks /\ \A d \in Conns \ {x} : conn'[d] = conn[d]
    BY <2>1, ConnAsks DEF TypeInv
  <2>3. BoxesThere' /\ ThreadsTyped'
    <3>1. \A d \in Conns : conn[d].asks.kind \in Kinds => conn'[d].asks.kind \in Kinds BY <2>2
    <3>2. conn'[thread[c].serves].asks.kind \in Kinds BY <2>2
    <3>3. next \in Pcs \ {"none", "start"} BY DEF Pcs
    <3>4. QED BY <1>1, <3>1, <3>2, <3>3, GoesTyped
  <2>4. TypeOK'
    <3>1. next \in Pcs BY DEF Pcs
    <3>2. /\ thread' \in [Conns -> [pc : Pcs, box : Allocated' \cup {0}, serves : Conns \cup {Nobody}]]
          /\ Allocated' = Allocated /\ UNCHANGED <<conf, stop, server, boxes, world>>
      BY <1>1, <3>1, ThreadGoes DEF TypeInv
    <3>3. QED BY <2>2, <3>2 DEF TypeInv, TypeOK, Pcs, States, Requests
  <2>5. QED BY <2>3, <2>4 DEF TypeInv
<1>2. CASE Goes(c, "close") /\ UNCHANGED conn
  <2>1. "close" \in Pcs \ {"none", "start"} BY DEF Pcs
  <2>2. BoxesThere' /\ ThreadsTyped' BY <1>2, <2>1, GoesTyped
  <2>3. /\ thread' \in [Conns -> [pc : Pcs, box : Allocated' \cup {0}, serves : Conns \cup {Nobody}]]
        /\ Allocated' = Allocated /\ UNCHANGED <<conf, stop, server, boxes, world>>
    BY <1>2, <2>1, ThreadGoes DEF TypeInv
  <2>4. TypeOK' BY <1>2, <2>3 DEF TypeInv, TypeOK, Pcs
  <2>5. QED BY <2>2, <2>4 DEF TypeInv
<1>3. QED BY <1>1, <1>2 DEF Reads

\* The request line is read, or answered with an error at once.
LEMMA RequestRead ==
  ASSUME NEW c \in Conns, ReadRequest(c)
  PROVE  /\ thread[c].pc = "request" /\ UNCHANGED fault
         /\ \/ /\ UNCHANGED sent
               /\ \E k \in Kinds : \E ok \in BOOLEAN :
                    Reads(c, "headers", [Asks(c) EXCEPT !.kind = k, !.inputOK = ok])
            \/ Goes(c, "close") /\ Does(c, "error") /\ UNCHANGED conn
BY DEF ReadRequest

\* The request line names a kind that is known, and the headers do not change it.
LEMMA ReadTyped == ASSUME TypeInv, NEW c \in Conns, ReadRequest(c) \/ ReadHeaders(c) PROVE TypeInv'
<1>1. CASE ReadRequest(c) /\ UNCHANGED sent
           /\ \E k \in Kinds : \E ok \in BOOLEAN :
                Reads(c, "headers", [Asks(c) EXCEPT !.kind = k, !.inputOK = ok])
  <2>1. thread[c].pc = "request" /\ UNCHANGED <<sent, fault>> BY <1>1 DEF ReadRequest
  <2>2. Asks(c) \in Requests BY <2>1, ServesOne DEF Asks, Serves
  <2>3. PICK k \in Kinds, ok \in BOOLEAN :
           Reads(c, "headers", [Asks(c) EXCEPT !.kind = k, !.inputOK = ok])
    BY <1>1
  <2>4. PICK asks : asks = [Asks(c) EXCEPT !.kind = k, !.inputOK = ok] OBVIOUS
  <2>5. asks \in Requests /\ asks.kind \in Kinds BY <2>2, <2>4 DEF Requests
  <2>6. Reads(c, "headers", asks) BY <2>3, <2>4
  <2>7. QED BY <2>1, <2>5, <2>6, ReadsTyped
<1>2. CASE ReadHeaders(c)
  <2>1. thread[c].pc = "headers" /\ UNCHANGED <<sent, fault>> BY <1>2 DEF ReadHeaders
  <2>2. Asks(c) \in Requests BY <2>1, ServesOne DEF Asks, Serves
  <2>3. PICK ok \in BOOLEAN : Reads(c, "auth", [Asks(c) EXCEPT !.passwordOK = ok])
    <3>1. conf.password \in BOOLEAN BY ConfigsAssumption DEF TypeInv, TypeOK
    <3>2. QED BY <1>2, <3>1 DEF ReadHeaders
  <2>4. PICK asks : asks = [Asks(c) EXCEPT !.passwordOK = ok] OBVIOUS
  <2>5. asks \in Requests /\ asks.kind \in Kinds
    <3>1. Asks(c).kind \in Kinds BY <2>1 DEF TypeInv, ThreadsTyped, ThreadTyped, Asks, Serves
    <3>2. QED BY <2>2, <2>4, <3>1 DEF Requests
  <2>6. Reads(c, "auth", asks) BY <2>3, <2>4
  <2>7. QED BY <2>1, <2>5, <2>6, ReadsTyped
<1>3. CASE thread[c].pc = "request" /\ Goes(c, "close") /\ Does(c, "error") /\ UNCHANGED <<conn, fault>>
  <2>1. "close" \in Pcs \ {"none", "start"} BY DEF Pcs
  <2>2. BoxesThere' /\ ThreadsTyped' BY <1>3, <2>1, GoesTyped
  <2>3. /\ thread' \in [Conns -> [pc : Pcs, box : Allocated' \cup {0}, serves : Conns \cup {Nobody}]]
        /\ Allocated' = Allocated /\ UNCHANGED <<conf, stop, server, boxes, world>>
    BY <1>3, <2>1, ThreadGoes DEF TypeInv
  <2>4. thread[c].serves \in Conns BY <1>3, ServesOne
  <2>5. sent' \in [Conns -> SUBSET (Kinds \cup {"error", "frame"})] BY <1>3, <2>4, Done DEF TypeInv
  <2>6. TypeOK' BY <1>3, <2>3, <2>5 DEF TypeInv, TypeOK, Pcs
  <2>7. QED BY <2>2, <2>6 DEF TypeInv
<1>4. QED BY <1>1, <1>2, <1>3, RequestRead

\* The cfd a thread takes holds a connection.
LEMMA TakeBoxTyped == ASSUME TypeInv, NEW c \in Conns, TakeBox(c) PROVE TypeInv'
<1>1. thread[c].pc = "start" /\ thread[c].box \in Allocated /\ boxes[thread[c].box].conn \in Conns
  BY DEF TakeBox, TypeInv, ThreadsTyped, ThreadTyped
<1>2. PICK b \in Allocated : b = thread[c].box BY <1>1
<1>3. PICK x \in Conns : x = boxes[b].conn BY <1>1, <1>2
<1>4. /\ fault' = ~boxes[b].live /\ boxes' = [boxes EXCEPT ![b].live = FALSE]
      /\ thread' = [thread EXCEPT ![c].pc = "request", ![c].serves = x]
      /\ UNCHANGED <<conf, stop, server, conn, sent, world>>
  BY <1>2, <1>3 DEF TakeBox
<1>5. /\ Allocated' = Allocated /\ boxes' = [y \in Allocated' |-> boxes'[y]]
      /\ \A y \in Allocated' : boxes'[y] \in [live : BOOLEAN, conn : Conns \cup {Nobody}]
      /\ \A y \in Allocated : boxes'[y].conn = boxes[y].conn
  BY <1>4, BoxFreed
<1>6. /\ thread' \in [Conns -> [pc : Pcs, box : Allocated' \cup {0}, serves : Conns \cup {Nobody}]]
      /\ thread'[c].pc = "request" /\ thread'[c].box = thread[c].box /\ thread'[c].serves = x
      /\ \A d \in Conns \ {c} : thread'[d] = thread[d]
  <2>1. thread \in [Conns -> [pc : Pcs, box : Allocated' \cup {0}, serves : Conns \cup {Nobody}]]
    BY <1>5 DEF TypeInv, TypeOK, Pcs
  <2>2. "request" \in Pcs BY DEF Pcs
  <2>3. QED BY <1>4, <2>1, <2>2
<1>7. TypeOK'
  <2>1. fault' \in BOOLEAN BY <1>4
  <2>2. QED BY <1>4, <1>5, <1>6, <2>1 DEF TypeInv, TypeOK, Pcs
<1>8. BoxesThere' BY <1>4, <1>5 DEF TypeInv, BoxesThere
<1>9. ThreadsTyped'
  <2> SUFFICES ASSUME NEW d \in Conns PROVE ThreadTyped(d)' BY DEF ThreadsTyped
  <2>1. ThreadTyped(d) BY DEF TypeInv, ThreadsTyped
  <2>2. CASE d = c BY <1>1, <1>4, <1>5, <1>6, <2>2 DEF ThreadTyped
  <2>3. CASE d # c BY <1>4, <1>5, <1>6, <2>1, <2>3 DEF ThreadTyped
  <2>4. QED BY <2>2, <2>3
<1>10. QED BY <1>7, <1>8, <1>9 DEF TypeInv

\* What a thread answers is the kind of an answer.
LEMMA AnswerTyped ==
  ASSUME TypeInv, NEW c \in Conns, Answer(c)
  PROVE  /\ UNCHANGED <<conn, fault>>
         /\ \E pc \in {"stream", "wait", "close"} : Goes(c, pc)
         /\ UNCHANGED sent \/ \E what \in Kinds \cup {"error", "frame"} : Does(c, what)
<1>1. thread[c].pc = "answer" /\ UNCHANGED <<conn, fault>> BY DEF Answer
<1>2. PICK k \in Kinds : k = Asks(c).kind BY <1>1 DEF TypeInv, ThreadsTyped, ThreadTyped, Asks, Serves
<1>3. \/ Goes(c, "close") /\ Does(c, "error")
      \/ UNCHANGED sent /\ Goes(c, IF Serves(c) \in gone THEN "close" ELSE "stream")
      \/ Goes(c, "wait") /\ UNCHANGED sent
      \/ TakeFails(c)
      \/ Goes(c, "close") /\ Does(c, k)
  BY <1>2 DEF Answer
<1>4. \E pc \in {"stream", "wait", "close"} : Goes(c, pc) BY <1>3 DEF TakeFails
<1>5. UNCHANGED sent \/ \E what \in Kinds \cup {"error", "frame"} : Does(c, what)
  BY <1>3 DEF TakeFails
<1>6. QED BY <1>1, <1>4, <1>5

\* A picture is sent, or an error, or nothing.
LEMMA SendTyped ==
  ASSUME NEW c \in Conns, SendPicture(c)
  PROVE  /\ UNCHANGED <<conn, fault>>
         /\ \E pc \in {"stream", "close"} : Goes(c, pc)
         /\ UNCHANGED sent \/ \E what \in Kinds \cup {"error", "frame"} : Does(c, what)
<1>1. \E pc \in {"stream", "close"} : Goes(c, pc) BY DEF SendPicture
<1>2. UNCHANGED sent \/ \E what \in Kinds \cup {"error", "frame"} : Does(c, what) BY DEF SendPicture
<1>3. QED BY <1>1, <1>2 DEF SendPicture

\* The steps of a thread after the request was read.
Respond(c) == Authorize(c) \/ Answer(c) \/ Stream(c) \/ SendPicture(c) \/ Close(c)
Responding == {"auth", "answer", "stream", "picture", "close"}

\* What the steps of an answer do, in a word.
LEMMA RespondShape ==
  ASSUME TypeInv, NEW c \in Conns, Respond(c)
  PROVE  /\ thread[c].pc \in Responding
         /\ \E pc \in {"answer", "stream", "wait", "close", "done"} :
              /\ Goes(c, pc) /\ (pc = "answer" => thread[c].pc = "auth")
              /\ pc \in {"stream", "wait"} => thread[c].pc \in {"answer", "stream", "picture"}
         /\ UNCHANGED sent \/ \E what \in Kinds \cup {"error", "frame"} : Does(c, what)
         /\ ~Close(c) => UNCHANGED <<conn, fault>> /\ \E pc \in {"answer", "stream", "wait", "close"} : Goes(c, pc)
<1>1. CASE Authorize(c) BY <1>1 DEF Authorize, Responding
<1>2. CASE Answer(c)
  <2>1. thread[c].pc = "answer" BY <1>2 DEF Answer
  <2>2. QED BY <1>2, <2>1, AnswerTyped DEF Responding
<1>3. CASE Stream(c) BY <1>3 DEF Stream, Responding
<1>4. CASE SendPicture(c)
  <2>1. thread[c].pc = "picture" BY <1>4 DEF SendPicture
  <2>2. QED BY <1>4, <2>1, SendTyped DEF Responding
<1>5. CASE Close(c) BY <1>5 DEF Close, Responding
<1>6. QED BY <1>1, <1>2, <1>3, <1>4, <1>5 DEF Respond

\* The password, the answer, the pictures and the end.
LEMMA RespondTyped == ASSUME TypeInv, NEW c \in Conns, Respond(c) PROVE TypeInv'
<1>1. thread[c].pc \notin {"none", "start"} BY RespondShape DEF Responding
<1>2. PICK x \in Conns : x = thread[c].serves BY <1>1, ServesOne
<1>3. PICK pc \in {"answer", "stream", "wait", "close", "done"} :
         Goes(c, pc) /\ (pc = "answer" => thread[c].pc = "auth")
  BY RespondShape
<1>4. /\ conn' \in [Conns -> [state : States, sock : Sockets, asks : Requests]]
      /\ \A d \in Conns : conn'[d].asks = conn[d].asks
  <2>1. CASE Close(c)
    <3>1. conn' = [conn EXCEPT ![x].state = "closed"] BY <1>2, <2>1 DEF Close, Serves
    <3>2. QED BY <3>1, ConnGets DEF TypeInv, States
  <2>2. CASE ~Close(c)
    <3>1. UNCHANGED conn BY <2>2, RespondShape
    <3>2. QED BY <3>1 DEF TypeInv, TypeOK, States, Requests
  <2>3. QED BY <2>1, <2>2
<1>5. BoxesThere' /\ ThreadsTyped'
  <2>1. pc = "answer" => conn[thread[c].serves].asks.kind \in Kinds
    BY <1>3 DEF TypeInv, ThreadsTyped, ThreadTyped
  <2>2. pc \in Pcs \ {"none", "start"} BY DEF Pcs
  <2>3. \A d \in Conns : conn[d].asks.kind \in Kinds => conn'[d].asks.kind \in Kinds BY <1>4
  <2>4. pc \in {"headers", "auth", "answer"} => conn'[thread[c].serves].asks.kind \in Kinds
    BY <1>2, <1>4, <2>1
  <2>5. QED BY <1>1, <1>3, <2>2, <2>3, <2>4, GoesTyped
<1>6. sent' \in [Conns -> SUBSET (Kinds \cup {"error", "frame"})]
  <2>1. CASE UNCHANGED sent BY <2>1 DEF TypeInv, TypeOK
  <2>2. CASE ~UNCHANGED sent BY <1>2, <2>2, RespondShape, Done DEF TypeInv
  <2>3. QED BY <2>1, <2>2
<1>7. fault' \in BOOLEAN
  <2>1. CASE Close(c) BY <2>1 DEF Close
  <2>2. CASE ~Close(c)
    <3>1. UNCHANGED fault BY <2>2, RespondShape
    <3>2. QED BY <3>1 DEF TypeInv, TypeOK
  <2>3. QED BY <2>1, <2>2
<1>8. TypeOK'
  <2>1. pc \in Pcs BY DEF Pcs
  <2>2. /\ thread' \in [Conns -> [pc : Pcs, box : Allocated' \cup {0}, serves : Conns \cup {Nobody}]]
        /\ Allocated' = Allocated /\ UNCHANGED <<conf, stop, server, boxes, world>>
    BY <1>3, <2>1, ThreadGoes DEF TypeInv
  <2>3. QED BY <1>4, <1>6, <1>7, <2>2 DEF TypeInv, TypeOK, Pcs, States, Requests
<1>9. QED BY <1>5, <1>8 DEF TypeInv

\* Threads that wait are woken, and nothing else changes.
Wakes == /\ \E cs \in SUBSET Waiting : Woken(cs)
         /\ UNCHANGED <<conf, stop, server, boxes, conn, sent, world, fault>>

\* The broadcast and a spurious wakeup wake threads that wait.
LEMMA WakeShape ==
  ASSUME TypeInv, Wakes
  PROVE  /\ thread' \in [Conns -> [pc : Pcs, box : Allocated \cup {0}, serves : Conns \cup {Nobody}]]
         /\ \A d \in Conns : \/ thread'[d] = thread[d]
                             \/ /\ thread[d].pc = "wait" /\ thread'[d].pc = "picture"
                                /\ thread'[d].box = thread[d].box /\ thread'[d].serves = thread[d].serves
<1>1. PICK cs \in SUBSET Waiting :
        thread' = [c \in Conns |-> IF c \in cs THEN [thread[c] EXCEPT !.pc = "picture"] ELSE thread[c]]
  BY DEF Wakes, Woken
<1>2. thread \in [Conns -> [pc : Pcs, box : Allocated \cup {0}, serves : Conns \cup {Nobody}]]
  BY DEF TypeInv, TypeOK, Pcs
<1>3. \A d \in cs : thread[d].pc = "wait" BY DEF Waiting
<1>4. "picture" \in Pcs BY DEF Pcs
<1>5. ASSUME NEW d \in Conns
      PROVE  /\ thread'[d] \in [pc : Pcs, box : Allocated \cup {0}, serves : Conns \cup {Nobody}]
             /\ \/ thread'[d] = thread[d]
                \/ /\ thread[d].pc = "wait" /\ thread'[d].pc = "picture"
                   /\ thread'[d].box = thread[d].box /\ thread'[d].serves = thread[d].serves
  <2>1. thread'[d] = IF d \in cs THEN [thread[d] EXCEPT !.pc = "picture"] ELSE thread[d] BY <1>1
  <2>2. QED BY <1>2, <1>3, <1>4, <2>1
<1>6. thread' = [d \in Conns |-> thread'[d]] BY <1>1
<1>7. QED BY <1>5, <1>6

\* A thread that is woken stays typed.
LEMMA WakeTyped == ASSUME TypeInv, Wakes PROVE TypeInv'
<1>1. UNCHANGED <<conf, stop, server, boxes, conn, sent, world, fault>> BY DEF Wakes
<1>2. UNCHANGED Allocated BY <1>1 DEF Allocated
<1>3. TypeOK' BY <1>1, <1>2, WakeShape DEF TypeInv, TypeOK, Pcs
<1>4. BoxesThere' BY <1>1, <1>2 DEF TypeInv, BoxesThere
<1>5. ASSUME NEW d \in Conns PROVE ThreadTyped(d)'
  <2>1. ThreadTyped(d) BY DEF TypeInv, ThreadsTyped
  <2>2. CASE thread'[d] = thread[d] BY <1>1, <1>2, <2>1, <2>2 DEF ThreadTyped
  <2>3. CASE thread'[d] # thread[d]
    <3>1. /\ thread[d].pc = "wait" /\ thread'[d].pc = "picture"
          /\ thread'[d].box = thread[d].box /\ thread'[d].serves = thread[d].serves
      BY <2>3, WakeShape
    <3>2. QED BY <1>1, <1>2, <2>1, <3>1 DEF ThreadTyped
  <2>4. QED BY <2>2, <2>3
<1>6. QED BY <1>3, <1>4, <1>5 DEF TypeInv, ThreadsTyped

\* Each is such a waking.
LEMMA Waking == Publish \/ (\E c \in Conns : SpuriousWakeup(c)) => Wakes
BY DEF Publish, SpuriousWakeup, Wakes

\* Every step keeps the types.
LEMMA TypeStep == TypeInv /\ [Next]_vars => TypeInv'
<1> SUFFICES ASSUME TypeInv, [Next]_vars PROVE TypeInv' OBVIOUS
<1>1. CASE Stop BY <1>1 DEF Stop, TypeInv, TypeOK, BoxesThere, ThreadsTyped, ThreadTyped, Allocated
<1>2. CASE ServerStep BY <1>2, AllocTyped, SelectTyped, AcceptTyped, SpawnTyped DEF ServerStep
<1>3. ASSUME NEW c \in Conns, Connect(c) PROVE TypeInv'
  <2>1. conn' = [conn EXCEPT ![c].state = "queued"]
        /\ UNCHANGED <<conf, stop, server, boxes, thread, sent, world, fault>>
    BY <1>3 DEF Connect
  <2>2. /\ conn' \in [Conns -> [state : States, sock : Sockets, asks : Requests]]
        /\ \A d \in Conns : conn'[d].asks = conn[d].asks
    BY <2>1, ConnGets DEF TypeInv, States
  <2>3. Allocated' = Allocated BY <2>1 DEF Allocated
  <2>4. TypeOK' BY <2>1, <2>2, <2>3 DEF TypeInv, TypeOK, States, Requests
  <2>5. BoxesThere' BY <2>1, <2>3 DEF TypeInv, BoxesThere
  <2>6. ThreadsTyped' BY <2>1, <2>2, <2>3 DEF TypeInv, TypeOK, ThreadsTyped, ThreadTyped
  <2>7. QED BY <2>4, <2>5, <2>6 DEF TypeInv
<1>4. ASSUME NEW c \in Conns, ThreadStep(c) PROVE TypeInv'
  BY <1>4, TakeBoxTyped, ReadTyped, RespondTyped DEF ThreadStep, Respond
<1>5. CASE UNCHANGED vars
  BY <1>5 DEF vars, TypeInv, TypeOK, BoxesThere, ThreadsTyped, ThreadTyped, Allocated
<1>6. CASE Wakes BY <1>6, WakeTyped
<1>7. CASE CameraEnds \/ \E c \in Conns : Leave(c)
  <2>1. UNCHANGED <<conf, stop, server, boxes, conn, thread, sent, fault>> BY <1>7 DEF CameraEnds, Leave
  <2>2. UNCHANGED Allocated BY <2>1 DEF Allocated
  <2>3. gone' \subseteq Conns /\ camera' \in BOOLEAN BY <1>7 DEF CameraEnds, Leave, TypeInv, TypeOK
  <2>4. TypeOK' BY <2>1, <2>2, <2>3 DEF TypeInv, TypeOK
  <2>5. BoxesThere' BY <2>1, <2>2 DEF TypeInv, BoxesThere
  <2>6. ThreadsTyped' BY <2>1, <2>2 DEF TypeInv, ThreadsTyped, ThreadTyped
  <2>7. QED BY <2>4, <2>5, <2>6 DEF TypeInv
<1>8. QED BY <1>1, <1>2, <1>3, <1>4, <1>5, <1>6, <1>7, Waking DEF Next

\* The server and the threads keep to their types, with any number of browsers
\* and of listening sockets.
THEOREM TypeCorrect == Spec => []TypeOK
<1>1. Spec => []TypeInv BY TypeStart, TypeStep, PTL DEF Spec
<1>2. TypeInv => TypeOK BY DEF TypeInv
<1>3. QED BY <1>1, <1>2, PTL


-----------------------------------------------------------------------------
(* One listening socket.  The cfd of a round is then handed to one thread, *)
(* and that is why the thread serves the connection it was made for.       *)

OneSocket == \A s, t \in Sockets : s = t

\* The server's cfd is still its own; in "spawn" it holds the connection that
\* has no thread yet.
ServerOwns ==
  /\ server.pc = "select" \/ (server.pc = "scan" /\ server.ready # {}) =>
       boxes[server.box].live /\ boxes[server.box].conn = Nobody
  /\ server.pc = "spawn" =>
       /\ server.ready = {} /\ boxes[server.box].live /\ boxes[server.box].conn = server.current
       /\ conn[server.current].state = "accepted" /\ thread[server.current].pc = "none"

\* A thread that starts owns the cfd with its connection, one that runs serves
\* its connection, and the connection is open until the thread is done.
ThreadOwns(c) ==
  /\ thread[c].pc = "start" => boxes[thread[c].box].live /\ boxes[thread[c].box].conn = c
  /\ thread[c].pc \in {"none", "start"} => thread[c].serves = Nobody
  /\ thread[c].pc \notin {"none", "start"} => thread[c].serves = c
  /\ thread[c].pc \notin {"none", "done"} => conn[c].state = "accepted"
  /\ thread[c].pc = "done" => conn[c].state = "closed"
  /\ thread[c].pc = "none" /\ conn[c].state = "accepted" => server.pc = "spawn" /\ server.current = c
ThreadsOwn == \A c \in Conns : ThreadOwns(c)

\* Nothing is sent before the password is looked at, and a request that gets
\* past that point has brought it.
Guarded(c) ==
  /\ thread[c].pc \in {"none", "start", "request", "headers", "auth"} => sent[c] = {}
  /\ thread[c].pc \in {"answer", "stream", "wait", "picture"} /\ conf.password => conn[c].asks.passwordOK
  /\ conf.password /\ ~conn[c].asks.passwordOK => sent[c] \subseteq {"error"}
AllGuarded == \A c \in Conns : Guarded(c)

OwnInv == TypeInv /\ ~fault /\ ServerOwns /\ ThreadsOwn


\* A new cfd belongs to nobody.
LEMMA AllocOwns == ASSUME OwnInv, Alloc PROVE ~fault' /\ ServerOwns' /\ ThreadsOwn'
<1>1. ~fault' BY DEF Alloc, OwnInv
<1>2. server.pc = "alloc" /\ UNCHANGED <<conn, thread>> BY DEF Alloc
<1>3. server'.pc \in {"select", "done"} BY DEF Alloc, ServerGoes, OwnInv, TypeInv, TypeOK
<1>4. \A x \in Allocated : boxes'[x] = boxes[x]
  <2>1. CASE stop BY <2>1 DEF Alloc
  <2>2. CASE ~stop BY <2>2, Allocates DEF OwnInv
  <2>3. QED BY <2>1, <2>2
<1>5. ServerOwns'
  <2>1. server'.pc = "select" => boxes'[server'.box] = [live |-> TRUE, conn |-> Nobody]
    <3>1. CASE stop BY <3>1 DEF Alloc, ServerGoes, OwnInv, TypeInv, TypeOK
    <3>2. CASE ~stop BY <3>2, Allocates DEF OwnInv
    <3>3. QED BY <3>1, <3>2
  <2>2. server'.pc = "select" => boxes'[server'.box].live /\ boxes'[server'.box].conn = Nobody BY <2>1
  <2>3. QED BY <1>3, <2>2 DEF ServerOwns
<1>6. ThreadsOwn'
  <2> SUFFICES ASSUME NEW c \in Conns PROVE ThreadOwns(c)' BY DEF ThreadsOwn
  <2>1. ThreadOwns(c) BY DEF OwnInv, ThreadsOwn
  <2>2. thread[c].pc # "none" => thread[c].box \in Allocated BY DEF OwnInv, TypeInv, ThreadsTyped, ThreadTyped
  <2>3. QED BY <1>2, <1>4, <2>1, <2>2 DEF ThreadOwns
<1>7. QED BY <1>1, <1>5, <1>6

\* The steps that touch neither a cfd nor a connection.
LEMMA SelectOwns ==
  ASSUME OwnInv, Select \/ ScanEnds \/ Cancelled
  PROVE  ~fault' /\ ServerOwns' /\ ThreadsOwn'
<1>1. UNCHANGED <<boxes, conn, thread, fault>> BY DEF Select, ScanEnds, Cancelled
<1>2. server.pc # "spawn" /\ server'.box = server.box BY DEF Select, ScanEnds, Cancelled, ServerGoes, OwnInv, TypeInv, TypeOK
<1>3. server'.pc \in {"scan", "alloc", "done"} /\ (server'.pc = "scan" => server.pc = "select")
  BY DEF Select, ScanEnds, Cancelled, ServerGoes, OwnInv, TypeInv, TypeOK
<1>4. ServerOwns' BY <1>1, <1>2, <1>3 DEF OwnInv, ServerOwns
<1>5. ThreadsOwn'
  <2> SUFFICES ASSUME NEW c \in Conns PROVE ThreadOwns(c)' BY DEF ThreadsOwn
  <2>1. ThreadOwns(c) BY DEF OwnInv, ThreadsOwn
  <2>2. QED BY <1>1, <1>2, <2>1 DEF ThreadOwns
<1>6. QED BY <1>1, <1>4, <1>5 DEF OwnInv

\* The connection that is accepted has no thread yet, and with one socket the
\* cfd of the round is not used again.
LEMMA AcceptOwns ==
  ASSUME OwnInv, OneSocket, Accept
  PROVE  ~fault' /\ ServerOwns' /\ ThreadsOwn'
<1>1. server.pc = "scan" /\ UNCHANGED thread BY DEF Accept
<1>2. PICK s \in server.ready : \E c \in Conns :
         /\ conn[c].state = "queued" /\ conn[c].sock = s
         /\ conn' = [conn EXCEPT ![c].state = "accepted"]
         /\ server' = [server EXCEPT !.pc = "spawn", !.ready = @ \ {s}, !.current = c]
         /\ boxes' = [boxes EXCEPT ![server.box].conn = c]
         /\ fault' = ~boxes[server.box].live
  BY DEF Accept
<1>3. PICK c \in Conns :
         /\ conn[c].state = "queued"
         /\ conn' = [conn EXCEPT ![c].state = "accepted"]
         /\ server' = [server EXCEPT !.pc = "spawn", !.ready = @ \ {s}, !.current = c]
         /\ boxes' = [boxes EXCEPT ![server.box].conn = c]
         /\ fault' = ~boxes[server.box].live
  BY <1>2
<1>4. server.ready # {} /\ boxes[server.box].live /\ boxes[server.box].conn = Nobody
  BY <1>1, <1>2 DEF OwnInv, ServerOwns
<1>5. PICK b \in Allocated : b = server.box BY <1>1 DEF OwnInv, TypeInv, BoxesThere
<1>6. boxes'[b].conn = c /\ boxes'[b].live = boxes[b].live /\ \A x \in Allocated \ {b} : boxes'[x] = boxes[x]
  <2>1. boxes' = [boxes EXCEPT ![b].conn = c] BY <1>3, <1>5
  <2>2. QED BY <2>1, BoxFilled DEF OwnInv
<1>7. /\ conn'[c].state = "accepted" /\ \A d \in Conns \ {c} : conn'[d] = conn[d]
  BY <1>3, ConnGets DEF OwnInv, TypeInv, States
<1>8. server'.pc = "spawn" /\ server'.box = b /\ server'.ready = server.ready \ {s} /\ server'.current = c
  BY <1>3, <1>5 DEF OwnInv, TypeInv, TypeOK
<1>9. server'.ready = {} BY <1>2, <1>8 DEF OneSocket, OwnInv, TypeInv, TypeOK
<1>10. thread[c].pc = "none"
  <2>1. thread[c].pc \in Pcs BY DEF OwnInv, TypeInv, TypeOK, Pcs
  <2>2. QED BY <1>3, <2>1 DEF OwnInv, ThreadsOwn, ThreadOwns, Pcs
<1>11. ~fault' BY <1>3, <1>4
<1>12. ServerOwns' BY <1>1, <1>4, <1>5, <1>6, <1>7, <1>8, <1>9, <1>10 DEF ServerOwns
<1>13. ThreadsOwn'
  <2> SUFFICES ASSUME NEW d \in Conns PROVE ThreadOwns(d)' BY DEF ThreadsOwn
  <2>1. ThreadOwns(d) BY DEF OwnInv, ThreadsOwn
  <2>2. CASE d = c BY <1>1, <1>7, <1>8, <1>10, <2>1, <2>2 DEF ThreadOwns
  <2>3. CASE d # c
    <3>1. thread[d].pc = "start" => thread[d].box \in Allocated \ {b}
      <4>1. thread[d].pc = "start" => thread[d].box \in Allocated BY DEF OwnInv, TypeInv, ThreadsTyped, ThreadTyped
      <4>2. QED BY <1>4, <1>5, <2>1, <4>1, NobodyAssumption DEF ThreadOwns
    <3>2. QED BY <1>1, <1>6, <1>7, <2>1, <2>3, <3>1 DEF ThreadOwns
  <2>4. QED BY <2>2, <2>3
<1>14. QED BY <1>11, <1>12, <1>13

\* The cfd goes to the thread of its connection, or is freed with the
\* connection closed.
LEMMA SpawnOwns == ASSUME OwnInv, Spawn PROVE ~fault' /\ ServerOwns' /\ ThreadsOwn'
<1>1. /\ server.pc = "spawn" /\ server.box \in Allocated /\ server.current \in Conns
  BY DEF Spawn, OwnInv, TypeInv, BoxesThere
<1>2. /\ server.ready = {} /\ boxes[server.box].live /\ boxes[server.box].conn = server.current
      /\ conn[server.current].state = "accepted" /\ thread[server.current].pc = "none"
  BY <1>1 DEF OwnInv, ServerOwns
<1>3. PICK c \in Conns : c = server.current BY <1>1
<1>4. PICK b \in Allocated : b = server.box BY <1>1
<1>5. server'.pc = "scan" /\ server'.ready = {} BY <1>2 DEF Spawn, ServerGoes, OwnInv, TypeInv, TypeOK
<1>6. ServerOwns' BY <1>5 DEF ServerOwns
<1>7. CASE thread' = [thread EXCEPT ![server.current] = [pc |-> "start", box |-> server.box, serves |-> Nobody]]
           /\ UNCHANGED <<boxes, conn, fault>>
  <2>1. thread' = [thread EXCEPT ![c] = [pc |-> "start", box |-> b, serves |-> Nobody]] BY <1>3, <1>4, <1>7
  <2>2. /\ thread'[c].pc = "start" /\ thread'[c].box = b /\ thread'[c].serves = Nobody
        /\ \A d \in Conns \ {c} : thread'[d] = thread[d]
    BY <2>1 DEF OwnInv, TypeInv, TypeOK
  <2>3. ASSUME NEW d \in Conns PROVE ThreadOwns(d)'
    <3>1. ThreadOwns(d) BY DEF OwnInv, ThreadsOwn
    <3>2. CASE d = c BY <1>2, <1>3, <1>4, <1>7, <2>2, <3>2 DEF ThreadOwns
    <3>3. CASE d # c BY <1>3, <1>7, <2>2, <3>1, <3>3 DEF ThreadOwns
    <3>4. QED BY <3>2, <3>3
  <2>4. QED BY <1>6, <1>7, <2>3 DEF ThreadsOwn, OwnInv
<1>8. CASE /\ conn' = [conn EXCEPT ![boxes[server.box].conn].state = "closed"]
           /\ fault' = ~boxes[server.box].live
           /\ boxes' = [boxes EXCEPT ![server.box].live = FALSE]
           /\ UNCHANGED thread
  <2>1. conn' = [conn EXCEPT ![c].state = "closed"] BY <1>2, <1>3, <1>8
  <2>2. boxes' = [boxes EXCEPT ![b].live = FALSE] BY <1>4, <1>8
  <2>3. conn'[c].state = "closed" /\ \A d \in Conns \ {c} : conn'[d] = conn[d]
    BY <2>1, ConnGets DEF OwnInv, TypeInv, States
  <2>4. \A x \in Allocated \ {b} : boxes'[x] = boxes[x] BY <2>2, BoxFreed DEF OwnInv
  <2>5. ASSUME NEW d \in Conns PROVE ThreadOwns(d)'
    <3>1. ThreadOwns(d) BY DEF OwnInv, ThreadsOwn
    <3>2. CASE d = c BY <1>2, <1>3, <1>8, <2>3, <3>1, <3>2 DEF ThreadOwns
    <3>3. CASE d # c
      <4>1. thread[d].pc = "start" => thread[d].box \in Allocated \ {b}
        <5>1. thread[d].pc = "start" => thread[d].box \in Allocated
          BY DEF OwnInv, TypeInv, ThreadsTyped, ThreadTyped
        <5>2. QED BY <1>2, <1>3, <1>4, <3>1, <3>3, <5>1 DEF ThreadOwns
      <4>2. QED BY <1>3, <1>8, <2>3, <2>4, <3>1, <3>3, <4>1 DEF ThreadOwns
    <3>4. QED BY <3>2, <3>3
  <2>6. ~fault' BY <1>2, <1>8
  <2>7. QED BY <1>6, <2>5, <2>6 DEF ThreadsOwn
<1>9. QED BY <1>7, <1>8 DEF Spawn


\* A thread that serves its connection goes on and leaves the others alone.
LEMMA GoesOwns ==
  ASSUME OwnInv, NEW c \in Conns, NEW pc \in Pcs \ {"none", "start"}, Goes(c, pc),
         thread[c].pc \notin {"none", "start", "done"},
         \A d \in Conns \ {c} : conn'[d] = conn[d],
         conn'[c].state = IF pc = "done" THEN "closed" ELSE "accepted"
  PROVE  ServerOwns' /\ ThreadsOwn'
<1>1. /\ thread'[c].pc = pc /\ thread'[c].box = thread[c].box /\ thread'[c].serves = thread[c].serves
      /\ \A d \in Conns \ {c} : thread'[d] = thread[d]
      /\ UNCHANGED <<server, boxes>>
  BY ThreadGoes DEF OwnInv, TypeInv
<1>2. ServerOwns'
  <2>1. server.pc = "spawn" => server.current \in Conns \ {c}
    BY DEF OwnInv, ServerOwns, TypeInv, BoxesThere
  <2>2. QED BY <1>1, <2>1 DEF OwnInv, ServerOwns
<1>3. ASSUME NEW d \in Conns PROVE ThreadOwns(d)'
  <2>1. ThreadOwns(d) BY DEF OwnInv, ThreadsOwn
  <2>2. CASE d = c BY <1>1, <2>1, <2>2 DEF ThreadOwns
  <2>3. CASE d # c BY <1>1, <2>1, <2>3 DEF ThreadOwns
  <2>4. QED BY <2>2, <2>3
<1>4. QED BY <1>2, <1>3 DEF ThreadsOwn

\* A thread that runs serves the connection it was made for.
LEMMA ServesOwn ==
  ASSUME OwnInv, NEW c \in Conns, thread[c].pc \notin {"none", "start", "done"}
  PROVE  thread[c].serves = c /\ conn[c].state = "accepted"
BY DEF OwnInv, ThreadsOwn, ThreadOwns

\* The cfd that a thread takes is its own, and it holds its connection.
LEMMA TakeBoxOwns == ASSUME OwnInv, NEW c \in Conns, TakeBox(c) PROVE ~fault' /\ ServerOwns' /\ ThreadsOwn'
<1>1. thread[c].pc = "start" /\ thread[c].box \in Allocated
  BY DEF TakeBox, OwnInv, TypeInv, ThreadsTyped, ThreadTyped
<1>2. boxes[thread[c].box].live /\ boxes[thread[c].box].conn = c /\ conn[c].state = "accepted"
  BY <1>1 DEF OwnInv, ThreadsOwn, ThreadOwns
<1>3. PICK b \in Allocated : b = thread[c].box BY <1>1
<1>4. /\ fault' = ~boxes[b].live /\ boxes' = [boxes EXCEPT ![b].live = FALSE]
      /\ thread' = [thread EXCEPT ![c].pc = "request", ![c].serves = c]
      /\ UNCHANGED <<conf, stop, server, conn, sent, world>>
  BY <1>2, <1>3 DEF TakeBox
<1>5. \A x \in Allocated \ {b} : boxes'[x] = boxes[x] BY <1>4, BoxFreed DEF OwnInv
<1>6. /\ thread'[c].pc = "request" /\ thread'[c].serves = c
      /\ \A d \in Conns \ {c} : thread'[d] = thread[d]
  BY <1>4 DEF OwnInv, TypeInv, TypeOK
<1>7. ~fault' BY <1>2, <1>3, <1>4
<1>8. ServerOwns'
  <2>1. server.pc \in {"select", "spawn"} \/ (server.pc = "scan" /\ server.ready # {}) => server.box \in Allocated \ {b}
    <3>1. server.pc \in {"select", "scan", "spawn"} => server.box \in Allocated BY DEF OwnInv, TypeInv, BoxesThere
    <3>2. QED BY <1>1, <1>2, <1>3, <3>1, NobodyAssumption DEF OwnInv, ServerOwns
  <2>2. server.pc = "spawn" => server.current \in Conns \ {c} 
    BY <1>1 DEF OwnInv, ServerOwns, TypeInv, BoxesThere
  <2>3. QED BY <1>4, <1>5, <1>6, <2>1, <2>2 DEF OwnInv, ServerOwns
<1>9. ASSUME NEW d \in Conns PROVE ThreadOwns(d)'
  <2>1. ThreadOwns(d) BY DEF OwnInv, ThreadsOwn
  <2>2. CASE d = c BY <1>2, <1>4, <1>6, <2>1, <2>2 DEF ThreadOwns
  <2>3. CASE d # c
    <3>1. thread[d].pc = "start" => thread[d].box \in Allocated \ {b}
      <4>1. thread[d].pc = "start" => thread[d].box \in Allocated
        BY DEF OwnInv, TypeInv, ThreadsTyped, ThreadTyped
      <4>2. QED BY <1>2, <1>3, <2>1, <2>3, <4>1 DEF ThreadOwns
    <3>2. QED BY <1>4, <1>5, <1>6, <2>1, <2>3, <3>1 DEF ThreadOwns
  <2>4. QED BY <2>2, <2>3
<1>10. QED BY <1>7, <1>8, <1>9 DEF ThreadsOwn

\* Of what is read of a request only the connection's own is touched, and only
\* an error may be sent.
LEMMA ReadOwns ==
  ASSUME OwnInv, NEW c \in Conns, ReadRequest(c) \/ ReadHeaders(c)
  PROVE  /\ ~fault' /\ ServerOwns' /\ ThreadsOwn'
         /\ UNCHANGED conf
         /\ \A d \in Conns \ {c} : conn'[d] = conn[d] /\ thread'[d] = thread[d]
         /\ thread[c].pc \in {"request", "headers"} /\ thread'[c].pc \in {"headers", "auth", "close"}
         /\ UNCHANGED sent \/ (Does(c, "error") /\ thread'[c].pc = "close")
<1>1. thread[c].pc \in {"request", "headers"} /\ UNCHANGED fault BY DEF ReadRequest, ReadHeaders
<1>2. thread[c].serves = c /\ conn[c].state = "accepted" BY <1>1, ServesOwn
<1>3. \E next \in {"headers", "auth", "close"}, asks \in Requests :
         /\ Goes(c, next) /\ (conn' = [conn EXCEPT ![c].asks = asks] \/ UNCHANGED conn)
         /\ UNCHANGED sent \/ (Does(c, "error") /\ next = "close")
  <2>1. Asks(c) \in Requests BY <1>1, ServesOne DEF OwnInv, Asks, Serves
  <2>2. CASE ReadRequest(c) /\ UNCHANGED sent
    <3>1. CASE \E k \in Kinds : \E ok \in BOOLEAN :
                 Reads(c, "headers", [Asks(c) EXCEPT !.kind = k, !.inputOK = ok])
      <4>1. PICK k \in Kinds, ok \in BOOLEAN :
               Reads(c, "headers", [Asks(c) EXCEPT !.kind = k, !.inputOK = ok])
        BY <3>1
      <4>2. PICK asks : asks = [Asks(c) EXCEPT !.kind = k, !.inputOK = ok] OBVIOUS
      <4>3. asks \in Requests BY <2>1, <4>2 DEF Requests
      <4>4. Reads(c, "headers", asks) BY <4>1, <4>2
      <4>5. QED BY <1>2, <2>2, <4>3, <4>4 DEF Reads, Serves
    <3>2. CASE Goes(c, "close") /\ UNCHANGED conn BY <2>1, <2>2, <3>2
    <3>3. QED BY <2>2, <3>1, <3>2, RequestRead
  <2>3. CASE ReadRequest(c) /\ ~UNCHANGED sent
    <3>1. Goes(c, "close") /\ Does(c, "error") /\ UNCHANGED conn BY <2>3, RequestRead
    <3>2. QED BY <2>1, <3>1
  <2>4. CASE ReadHeaders(c)
    <3>1. PICK ok \in BOOLEAN : Reads(c, "auth", [Asks(c) EXCEPT !.passwordOK = ok])
      <4>1. conf.password \in BOOLEAN BY ConfigsAssumption DEF OwnInv, TypeInv, TypeOK
      <4>2. QED BY <2>4, <4>1 DEF ReadHeaders
    <3>2. PICK asks : asks = [Asks(c) EXCEPT !.passwordOK = ok] OBVIOUS
    <3>3. asks \in Requests BY <2>1, <3>2 DEF Requests
    <3>4. Reads(c, "auth", asks) BY <3>1, <3>2
    <3>5. UNCHANGED sent BY <2>4 DEF ReadHeaders
    <3>6. QED BY <1>2, <3>3, <3>4, <3>5 DEF Reads, Serves
  <2>5. QED BY <2>2, <2>3, <2>4
<1>4. PICK next \in {"headers", "auth", "close"}, asks \in Requests :
         /\ Goes(c, next) /\ (conn' = [conn EXCEPT ![c].asks = asks] \/ UNCHANGED conn)
         /\ UNCHANGED sent \/ (Does(c, "error") /\ next = "close")
  BY <1>3
<1>5. conn'[c].state = "accepted" /\ \A d \in Conns \ {c} : conn'[d] = conn[d]
  BY <1>2, <1>4, ConnAsks DEF OwnInv, TypeInv
<1>6. next \in Pcs \ {"none", "start"} /\ next # "done" BY DEF Pcs
<1>7. ServerOwns' /\ ThreadsOwn' BY <1>1, <1>4, <1>5, <1>6, GoesOwns
<1>8. thread'[c].pc = next /\ \A d \in Conns \ {c} : thread'[d] = thread[d]
  BY <1>4, <1>6, ThreadGoes DEF OwnInv, TypeInv
<1>9. QED BY <1>1, <1>4, <1>5, <1>7, <1>8 DEF OwnInv, Goes

\* A thread answers on its own connection and closes it once.
LEMMA RespondOwns ==
  ASSUME OwnInv, NEW c \in Conns, Respond(c)
  PROVE  /\ ~fault' /\ ServerOwns' /\ ThreadsOwn'
         /\ \A d \in Conns \ {c} : conn'[d] = conn[d] /\ thread'[d] = thread[d]
         /\ conn'[c].asks = conn[c].asks
         /\ thread'[c].pc \in {"answer", "stream", "wait", "close", "done"}
<1>1. thread[c].pc \in Responding BY RespondShape DEF OwnInv
<1>2. thread[c].serves = c /\ conn[c].state = "accepted" BY <1>1, ServesOwn DEF Responding
<1>3. CASE Close(c)
  <2>1. Goes(c, "done") /\ conn' = [conn EXCEPT ![c].state = "closed"] BY <1>2, <1>3 DEF Close, Serves
  <2>2. conn'[c].state = "closed" /\ conn'[c].asks = conn[c].asks /\ \A d \in Conns \ {c} : conn'[d] = conn[d]
    BY <2>1, ConnGets DEF OwnInv, TypeInv, States
  <2>3. "done" \in Pcs \ {"none", "start"} BY DEF Pcs
  <2>4. ServerOwns' /\ ThreadsOwn' BY <1>1, <2>1, <2>2, <2>3, GoesOwns DEF Responding
  <2>5. ~fault' BY <1>2, <1>3 DEF Close, Serves
  <2>6. thread'[c].pc = "done" /\ \A d \in Conns \ {c} : thread'[d] = thread[d]
    BY <2>1, <2>3, ThreadGoes DEF OwnInv, TypeInv
  <2>7. QED BY <2>2, <2>4, <2>5, <2>6
<1>4. CASE ~Close(c)
  <2>1. PICK pc \in {"answer", "stream", "wait", "close"} : Goes(c, pc) BY <1>4, RespondShape DEF OwnInv
  <2>2. UNCHANGED <<conn, fault>> BY <1>4, RespondShape DEF OwnInv
  <2>3. pc \in Pcs \ {"none", "start"} /\ pc # "done" BY DEF Pcs
  <2>4. ServerOwns' /\ ThreadsOwn' BY <1>1, <1>2, <2>1, <2>2, <2>3, GoesOwns DEF Responding
  <2>5. thread'[c].pc = pc /\ \A d \in Conns \ {c} : thread'[d] = thread[d]
    BY <2>1, <2>3, ThreadGoes DEF OwnInv, TypeInv
  <2>6. QED BY <2>1, <2>2, <2>4, <2>5 DEF OwnInv
<1>5. QED BY <1>3, <1>4

\* A thread that is woken owns what it owned.
LEMMA WakeOwns ==
  ASSUME OwnInv, Wakes
  PROVE  ~fault' /\ ServerOwns' /\ ThreadsOwn'
<1>1. UNCHANGED <<server, boxes, conn, fault>> BY DEF Wakes
<1>2. ServerOwns'
  <2>1. server.pc = "spawn" => server.current \in Conns BY DEF OwnInv, TypeInv, BoxesThere
  <2>2. server.pc = "spawn" => thread'[server.current].pc = "none"
    BY <2>1, WakeShape DEF OwnInv, ServerOwns
  <2>3. QED BY <1>1, <2>2 DEF OwnInv, ServerOwns
<1>3. ASSUME NEW d \in Conns PROVE ThreadOwns(d)'
  <2>1. ThreadOwns(d) BY DEF OwnInv, ThreadsOwn
  <2>2. CASE thread'[d] = thread[d] BY <1>1, <2>1, <2>2 DEF ThreadOwns
  <2>3. CASE thread'[d] # thread[d]
    <3>1. /\ thread[d].pc = "wait" /\ thread'[d].pc = "picture"
          /\ thread'[d].box = thread[d].box /\ thread'[d].serves = thread[d].serves
      BY <2>3, WakeShape DEF OwnInv
    <3>2. QED BY <1>1, <2>1, <3>1 DEF ThreadOwns
  <2>4. QED BY <2>2, <2>3
<1>4. QED BY <1>1, <1>2, <1>3 DEF OwnInv, ThreadsOwn

\* A connection that is opened has no thread.
LEMMA ConnectOwns ==
  ASSUME OwnInv, NEW c \in Conns, Connect(c)
  PROVE  /\ ~fault' /\ ServerOwns' /\ ThreadsOwn'
         /\ \A d \in Conns : conn'[d].asks = conn[d].asks
<1>1. /\ conn[c].state = "none" /\ conn' = [conn EXCEPT ![c].state = "queued"]
      /\ UNCHANGED <<conf, stop, server, boxes, thread, sent, world, fault>>
  BY DEF Connect
<1>2. /\ conn'[c].state = "queued" /\ conn'[c].asks = conn[c].asks /\ \A d \in Conns \ {c} : conn'[d] = conn[d]
  BY <1>1, ConnGets DEF OwnInv, TypeInv, States
<1>3. ServerOwns'
  <2>1. server.pc = "spawn" => server.current \in Conns \ {c}
    BY <1>1 DEF OwnInv, ServerOwns, TypeInv, BoxesThere
  <2>2. QED BY <1>1, <1>2, <2>1 DEF OwnInv, ServerOwns
<1>4. ASSUME NEW d \in Conns PROVE ThreadOwns(d)'
  <2>1. ThreadOwns(d) BY DEF OwnInv, ThreadsOwn
  <2>2. CASE d = c
    <3>1. thread[d].pc \in Pcs BY DEF OwnInv, TypeInv, TypeOK, Pcs
    <3>2. QED BY <1>1, <1>2, <2>1, <2>2, <3>1 DEF ThreadOwns, Pcs
  <2>3. CASE d # c BY <1>1, <1>2, <2>1, <2>3 DEF ThreadOwns
  <2>4. QED BY <2>2, <2>3
<1>5. QED BY <1>1, <1>2, <1>3, <1>4 DEF OwnInv, ThreadsOwn

\* With one listening socket every cfd and every connection has one owner.
LEMMA OwnStep == ASSUME OneSocket PROVE OwnInv /\ [Next]_vars => OwnInv'
<1> SUFFICES ASSUME OwnInv, [Next]_vars PROVE OwnInv' OBVIOUS
<1>1. TypeInv' BY TypeStep DEF OwnInv
<1>2. ~fault' /\ ServerOwns' /\ ThreadsOwn'
  <2>1. CASE Stop BY <2>1 DEF Stop, OwnInv, ServerOwns, ThreadsOwn, ThreadOwns
  <2>2. CASE ServerStep BY <2>2, AllocOwns, SelectOwns, AcceptOwns, SpawnOwns DEF ServerStep
  <2>3. ASSUME NEW c \in Conns, Connect(c) \/ ThreadStep(c) PROVE ~fault' /\ ServerOwns' /\ ThreadsOwn'
    BY <2>3, ConnectOwns, TakeBoxOwns, ReadOwns, RespondOwns DEF ThreadStep, Respond
  <2>4. CASE UNCHANGED vars BY <2>4 DEF vars, OwnInv, ServerOwns, ThreadsOwn, ThreadOwns
  <2>5. CASE Wakes BY <2>5, WakeOwns
  <2>6. CASE CameraEnds \/ \E c \in Conns : Leave(c)
    BY <2>6 DEF CameraEnds, Leave, OwnInv, ServerOwns, ThreadsOwn, ThreadOwns
  <2>7. QED BY <2>1, <2>2, <2>3, <2>4, <2>5, <2>6, Waking DEF Next
<1>3. QED BY <1>1, <1>2 DEF OwnInv

\* It is so from the start.
LEMMA OwnStart == Init => OwnInv
<1> SUFFICES ASSUME Init PROVE OwnInv OBVIOUS
<1>1. \A c \in Conns : conn[c].state = "none"
  BY DEF Init
<1>2. QED BY <1>1, TypeStart DEF Init, OwnInv, ServerOwns, ThreadsOwn, ThreadOwns, NoThread

\* With one listening socket and any number of browsers, also when no thread can
\* be made: every connection that was accepted is served by the thread made for
\* it and closed once, and no cfd is used after it was freed.
THEOREM AcceptedServed == OneSocket => (Spec => []AcceptedIsServed)
<1> SUFFICES ASSUME OneSocket PROVE Spec => []AcceptedIsServed OBVIOUS
<1>1. Spec => []OwnInv
  <2>1. OwnInv /\ [Next]_vars => OwnInv' BY OwnStep
  <2>2. QED BY <2>1, OwnStart, PTL DEF Spec
<1>2. OwnInv => AcceptedIsServed
  BY DEF OwnInv, ThreadsOwn, ThreadOwns, AcceptedIsServed, OwnConnection, AcceptedIsOwned
<1>3. QED BY <1>1, <1>2, PTL


\* What a thread does is done for its own connection, and after the password.
LEMMA RespondGuarded == ASSUME OwnInv, AllGuarded, NEW c \in Conns, Respond(c) PROVE AllGuarded'
<1>1. /\ \A d \in Conns \ {c} : conn'[d] = conn[d] /\ thread'[d] = thread[d]
      /\ conn'[c].asks = conn[c].asks
      /\ thread'[c].pc \in {"answer", "stream", "wait", "close", "done"}
  BY RespondOwns
<1>2. thread[c].pc \in Responding /\ thread[c].serves = c BY RespondShape, ServesOwn DEF OwnInv, Responding
<1>3. Guarded(c) BY DEF AllGuarded
<1>4. PICK pc \in {"answer", "stream", "wait", "close", "done"} :
         /\ Goes(c, pc) /\ (pc = "answer" => thread[c].pc = "auth")
         /\ pc \in {"stream", "wait"} => thread[c].pc \in {"answer", "stream", "picture"}
  BY RespondShape DEF OwnInv
<1>5. UNCHANGED conf /\ thread'[c].pc = pc
  <2>1. pc \in Pcs BY DEF Pcs
  <2>2. QED BY <1>4, <2>1, ThreadGoes DEF OwnInv, TypeInv
<1>6. \A d \in Conns \ {c} : sent'[d] = sent[d] BY <1>2, RespondShape, Done DEF OwnInv, TypeInv
<1>7. thread'[c].pc \in {"answer", "stream", "wait", "picture"} /\ conf.password => conn[c].asks.passwordOK
  <2>1. CASE pc = "answer"
    <3>1. Authorize(c)
      BY <1>4, <2>1 DEF Respond, Answer, Stream, SendPicture, Close
    <3>2. CASE conf.password /\ ~Asks(c).passwordOK
      <4>1. Goes(c, "close") /\ "close" \in Pcs BY <3>1, <3>2 DEF Authorize, Pcs
      <4>2. thread'[c].pc = "close" BY <4>1, ThreadGoes DEF OwnInv, TypeInv
      <4>3. QED BY <4>2
    <3>3. CASE ~(conf.password /\ ~Asks(c).passwordOK) BY <1>2, <3>3 DEF Asks, Serves
    <3>4. QED BY <3>2, <3>3
  <2>2. CASE pc \in {"stream", "wait"} BY <1>3, <1>4, <2>2 DEF Guarded
  <2>3. QED BY <1>4, <1>5, <2>1, <2>2
<1>8. conf.password /\ ~conn[c].asks.passwordOK => sent'[c] \subseteq {"error"}
  <2> SUFFICES ASSUME conf.password, ~conn[c].asks.passwordOK PROVE sent'[c] \subseteq {"error"} OBVIOUS
  <2>1. CASE Authorize(c)
    <3>1. Does(c, "error") BY <1>2, <2>1 DEF Authorize, Asks, Serves
    <3>2. sent'[c] = sent[c] \cup {"error"} BY <1>2, <3>1, Done DEF OwnInv, TypeInv
    <3>3. QED BY <1>3, <3>2 DEF Guarded
  <2>2. CASE ~Authorize(c)
    <3>1. Close(c) BY <1>3, <2>2 DEF Respond, Answer, Stream, SendPicture, Guarded
    <3>2. UNCHANGED sent BY <3>1 DEF Close
    <3>3. QED BY <1>3, <3>2 DEF Guarded
  <2>3. QED BY <2>1, <2>2
<1>9. ASSUME NEW d \in Conns PROVE Guarded(d)'
  <2>1. Guarded(d) BY DEF AllGuarded
  <2>2. CASE d = c BY <1>1, <1>5, <1>7, <1>8, <2>2 DEF Guarded
  <2>3. CASE d # c BY <1>1, <1>5, <1>6, <2>1, <2>3 DEF Guarded
  <2>4. QED BY <2>2, <2>3
<1>10. QED BY <1>9 DEF AllGuarded

\* A thread that reads has sent nothing, and may send an error.
LEMMA ReadGuarded ==
  ASSUME OwnInv, AllGuarded, NEW c \in Conns, ReadRequest(c) \/ ReadHeaders(c)
  PROVE  AllGuarded'
<1>1. /\ UNCHANGED conf
      /\ \A d \in Conns \ {c} : conn'[d] = conn[d] /\ thread'[d] = thread[d]
      /\ thread[c].pc \in {"request", "headers"} /\ thread'[c].pc \in {"headers", "auth", "close"}
      /\ UNCHANGED sent \/ (Does(c, "error") /\ thread'[c].pc = "close")
  BY ReadOwns
<1>2. thread[c].serves = c BY <1>1, ServesOwn
<1>3. sent[c] = {} BY <1>1 DEF AllGuarded, Guarded
<1>4. \A d \in Conns \ {c} : sent'[d] = sent[d]
  <2>1. CASE UNCHANGED sent BY <2>1
  <2>2. CASE Does(c, "error") BY <1>2, <2>2, Done DEF OwnInv, TypeInv
  <2>3. QED BY <1>1, <2>1, <2>2
<1>5. sent'[c] \subseteq {"error"} /\ (thread'[c].pc # "close" => sent'[c] = {})
  <2>1. CASE UNCHANGED sent BY <1>3, <2>1
  <2>2. CASE Does(c, "error") /\ thread'[c].pc = "close"
    BY <1>2, <1>3, <2>2, Done DEF OwnInv, TypeInv
  <2>3. QED BY <1>1, <2>1, <2>2
<1>6. ASSUME NEW d \in Conns PROVE Guarded(d)'
  <2>1. Guarded(d) BY DEF AllGuarded
  <2>2. CASE d = c BY <1>1, <1>5, <2>2 DEF Guarded
  <2>3. CASE d # c BY <1>1, <1>4, <2>1, <2>3 DEF Guarded
  <2>4. QED BY <2>2, <2>3
<1>7. QED BY <1>6 DEF AllGuarded

\* Nothing is sent by the other steps, and a thread that reads has sent nothing.
LEMMA GuardedStep == ASSUME OneSocket PROVE OwnInv /\ AllGuarded /\ [Next]_vars => AllGuarded'
<1> SUFFICES ASSUME OwnInv, AllGuarded, [Next]_vars PROVE AllGuarded' OBVIOUS
<1>1. CASE Stop BY <1>1 DEF Stop, AllGuarded, Guarded
<1>2. CASE ServerStep
  <2>1. UNCHANGED <<conf, sent>> BY <1>2 DEF ServerStep, Alloc, Select, Accept, Spawn, ScanEnds, Cancelled
  <2>2. \A d \in Conns : conn'[d].asks = conn[d].asks
    <3>1. CASE UNCHANGED conn BY <3>1
    <3>2. CASE Accept
      <4>1. PICK c \in Conns : conn' = [conn EXCEPT ![c].state = "accepted"] BY <3>2 DEF Accept
      <4>2. QED BY <4>1, ConnGets DEF OwnInv, TypeInv, States
    <3>3. CASE Spawn
      <4>1. CASE UNCHANGED conn BY <4>1
      <4>2. CASE ~UNCHANGED conn
        <5>1. boxes[server.box].conn \in Conns BY <3>3 DEF Spawn, OwnInv, TypeInv, BoxesThere
        <5>2. PICK c \in Conns : c = boxes[server.box].conn BY <5>1
        <5>3. conn' = [conn EXCEPT ![c].state = "closed"] BY <3>3, <4>2, <5>2 DEF Spawn
        <5>4. QED BY <5>3, ConnGets DEF OwnInv, TypeInv, States
      <4>3. QED BY <4>1, <4>2
    <3>4. QED BY <1>2, <3>1, <3>2, <3>3 DEF ServerStep, Alloc, Select, ScanEnds, Cancelled
  <2>3. \A d \in Conns : thread'[d].pc = thread[d].pc \/ (thread[d].pc = "none" /\ thread'[d].pc = "start")
    <3>1. CASE UNCHANGED thread BY <3>1
    <3>2. CASE Spawn /\ ~UNCHANGED thread
      <4>1. server.current \in Conns /\ thread[server.current].pc = "none"
        BY <3>2 DEF Spawn, OwnInv, TypeInv, BoxesThere, ServerOwns
      <4>2. thread' = [thread EXCEPT ![server.current] = [pc |-> "start", box |-> server.box, serves |-> Nobody]]
        BY <3>2 DEF Spawn
      <4>3. QED BY <4>1, <4>2 DEF OwnInv, TypeInv, TypeOK
    <3>3. QED BY <1>2, <3>1, <3>2 DEF ServerStep, Alloc, Select, Accept, ScanEnds, Cancelled
  <2>4. QED BY <2>1, <2>2, <2>3 DEF AllGuarded, Guarded
<1>3. ASSUME NEW c \in Conns, Connect(c) PROVE AllGuarded'
  <2>1. UNCHANGED <<conf, thread, sent, world>> /\ \A d \in Conns : conn'[d].asks = conn[d].asks
    BY <1>3, ConnectOwns DEF Connect
  <2>2. QED BY <2>1 DEF AllGuarded, Guarded
<1>4. ASSUME NEW c \in Conns, TakeBox(c) PROVE AllGuarded'
  <2>1. thread[c].pc = "start" /\ UNCHANGED <<conf, conn, sent, world>> BY <1>4 DEF TakeBox
  <2>2. thread'[c].pc = "request" /\ \A d \in Conns \ {c} : thread'[d] = thread[d]
    BY <1>4 DEF TakeBox, OwnInv, TypeInv, TypeOK
  <2>3. QED BY <2>1, <2>2 DEF AllGuarded, Guarded
<1>5. CASE UNCHANGED vars BY <1>5 DEF vars, AllGuarded, Guarded
<1>6. CASE Wakes
  <2>1. UNCHANGED <<conf, conn, sent>> BY <1>6 DEF Wakes
  <2>2. ASSUME NEW d \in Conns PROVE Guarded(d)'
    <3>1. Guarded(d) BY DEF AllGuarded
    <3>2. CASE thread'[d] = thread[d] BY <2>1, <3>1, <3>2 DEF Guarded
    <3>3. CASE thread[d].pc = "wait" /\ thread'[d].pc = "picture" BY <2>1, <3>1, <3>3 DEF Guarded
    <3>4. QED BY <1>6, <3>2, <3>3, WakeShape DEF OwnInv
  <2>3. QED BY <2>2 DEF AllGuarded
<1>7. CASE CameraEnds \/ \E c \in Conns : Leave(c) BY <1>7 DEF CameraEnds, Leave, AllGuarded, Guarded
<1>8. QED BY <1>1, <1>2, <1>3, <1>4, <1>5, <1>6, <1>7, Waking, ReadGuarded, RespondGuarded
           DEF Next, ThreadStep, Respond

\* With one listening socket and any number of browsers: a request that does not
\* bring the password gets an error and nothing else.
THEOREM PasswordIsRespected == OneSocket => (Spec => []PasswordRespected)
<1> SUFFICES ASSUME OneSocket PROVE Spec => []PasswordRespected OBVIOUS
<1>1. Spec => [](OwnInv /\ AllGuarded)
  <2>1. Init => AllGuarded
    <3> SUFFICES ASSUME Init PROVE AllGuarded OBVIOUS
    <3>1. \A c \in Conns : thread[c].pc = "none" /\ sent[c] = {} BY DEF Init, NoThread
    <3>2. QED BY <3>1 DEF AllGuarded, Guarded
  <2>2. OwnInv /\ [Next]_vars => OwnInv' BY OwnStep
  <2>3. OwnInv /\ AllGuarded /\ [Next]_vars => AllGuarded' BY GuardedStep
  <2>4. QED BY <2>1, <2>2, <2>3, OwnStart, PTL DEF Spec
<1>2. AllGuarded => PasswordRespected BY DEF AllGuarded, Guarded, PasswordRespected
<1>3. QED BY <1>1, <1>2, PTL

=============================================================================
