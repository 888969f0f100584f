--------------------------- MODULE ServicesProofs ---------------------------
(***************************************************************************)
(* What the steps of the robot's services keep: those of ResultService,    *)
(* for any number of browsers, any bound on the queues and both services,  *)
(* and those of RobotServices, for any numbers of clients, drivers and     *)
(* viewers, any room in a socket, and any bounds.                          *)
(*                                                                         *)
(* ResultService: a result reaches all queues in one step, and a handler   *)
(* takes them in order: what a browser has, what its handler holds and     *)
(* what is queued make a chain.  The invariant is the chain, together with *)
(* who is registered, for a handler that starts must find its queue empty. *)
(*                                                                         *)
(* RobotServices: its three services share nothing, so the invariant has a *)
(* part for each, and each part is kept by the steps of its own service.   *)
(*                                                                         *)
(* The IMU service: where a client's stream ends depends on whether the    *)
(* last sample is still to be sent to it (Due), which the property, a      *)
(* statement about the head of the loop, does not say.  A stream that ends *)
(* in half a packet is one that has filled its socket once.                *)
(*                                                                         *)
(* The capture service: no number that is held (the picture a handler has  *)
(* sent, one a viewer has seen, one a request tells) is above the last     *)
(* picture of the camera.                                                  *)
(***************************************************************************)
EXTENDS ResultService, RobotServices, SequenceTheorems, TLAPS

-----------------------------------------------------------------------------
(* The position and circle services.                                       *)

Results == 0 .. Numbers - 1
Pcs == {"none", "prepare", "loop", "get", "send", "ended", "unprepared", "raised", "cancelled"}
ActivePcs == {"prepare", "loop", "get", "send"}
Handlers == [pc : Pcs, item : Results]

TypeInv == TypeOK /\ queue \in [Clients -> Seq(Results)]

\* The result after a result is one.
LEMMA Next1Typed == \A n \in Results : Next1(n) \in Results
BY BoundsAssumption DEF Next1, Results

\* TypeInv in terms of the sets above.
Parts ==
  /\ forgets \in BOOLEAN /\ keepAlive \in BOOLEAN
  /\ worker \in {"run", "dead", "cancelled"} /\ result \in Results /\ connections \subseteq Clients
  /\ queue \in [Clients -> Seq(Results)] /\ \A c \in Clients : Len(queue[c]) <= MaxQueue
  /\ handler \in [Clients -> Handlers] /\ peer \in [Clients -> {"here", "closed", "lost"}]
  /\ last \in [Clients -> Results] /\ phase \in {"up", "closing", "done"}

\* The two say the same, before a step and after it.
LEMMA Typed == (TypeInv <=> Parts) /\ (TypeInv' <=> Parts')
BY DEF TypeInv, TypeOK, Parts, Results, Handlers, Pcs

\* A handler that goes on keeps the result in its hand.
LEMMA Moves ==
  ASSUME TypeInv, NEW c \in Clients, NEW pc \in Pcs, Goes(c, pc)
  PROVE  /\ handler' \in [Clients -> Handlers]
         /\ handler'[c].pc = pc /\ handler'[c].item = handler[c].item
         /\ \A d \in Clients \ {c} : handler'[d] = handler[d]
<1>1. handler \in [Clients -> Handlers] BY Typed DEF Parts
<1>2. QED BY <1>1 DEF Goes, Handlers

\* Everything starts in its range.
LEMMA TypeStart == Init => TypeInv
<1> SUFFICES ASSUME Init PROVE TypeInv OBVIOUS
<1>1. 0 \in Results BY BoundsAssumption DEF Results
<1>2. queue \in [Clients -> Seq(Results)] /\ \A c \in Clients : Len(queue[c]) <= MaxQueue
  BY BoundsAssumption DEF Init
<1>3. handler \in [Clients -> Handlers] BY <1>1 DEF Init, Handlers, Pcs
<1>4. forgets \in BOOLEAN BY VariantsAssumption DEF Init
<1>5. peer \in [Clients -> {"here", "closed", "lost"}] /\ last \in [Clients -> Results] BY <1>1 DEF Init
<1>6. QED BY <1>1, <1>2, <1>3, <1>4, <1>5, Typed DEF Init, Parts

\* What the worker puts into the queues.
LEMMA WorkPuts ==
  ASSUME TypeInv, Work
  PROVE  /\ result' = Next1(result) /\ result' \in Results
         /\ queue' \in [Clients -> Seq(Results)] /\ \A c \in Clients : Len(queue'[c]) <= MaxQueue
         /\ \A c \in Active \cap connections : queue'[c] = Append(queue[c], Next1(result))
         /\ \A c \in Clients \ connections : queue'[c] = queue[c]
         /\ UNCHANGED <<forgets, keepAlive, worker, connections, handler, peer, last, phase>>
<1> PICK n : n = Next1(result) OBVIOUS
<1>1. n \in Results BY Next1Typed, Typed DEF Parts
<1>2. /\ \A c \in Active : Len(queue[c]) < MaxQueue
      /\ result' = n
      /\ queue' = [c \in Clients |->
                     IF c \in connections /\ Len(queue[c]) < MaxQueue THEN Append(queue[c], n) ELSE queue[c]]
      /\ UNCHANGED <<forgets, keepAlive, worker, connections, handler, peer, last, phase>>
  BY DEF Work
<1>3. ASSUME NEW c \in Clients
      PROVE  /\ queue'[c] \in Seq(Results) /\ Len(queue'[c]) <= MaxQueue
             /\ c \in Active \cap connections => queue'[c] = Append(queue[c], n)
             /\ c \notin connections => queue'[c] = queue[c]
  <2>1. queue[c] \in Seq(Results) /\ Len(queue[c]) <= MaxQueue BY Typed DEF Parts
  <2>2. queue'[c] = IF c \in connections /\ Len(queue[c]) < MaxQueue THEN Append(queue[c], n) ELSE queue[c]
    BY <1>2
  <2>3. Append(queue[c], n) \in Seq(Results) /\ Len(Append(queue[c], n)) = Len(queue[c]) + 1 BY <1>1, <2>1
  <2>4. QED BY <1>2, <2>1, <2>2, <2>3, BoundsAssumption
<1>4. queue' \in [Clients -> Seq(Results)] BY <1>2, <1>3
<1>5. Active \subseteq Clients BY DEF Active
<1>6. QED BY <1>1, <1>2, <1>3, <1>4, <1>5

\* A step of a handler leaves the other clients and the worker alone.
LEMMA HandlerMoves ==
  ASSUME TypeInv, NEW c \in Clients, HandlerStep(c) \/ Request(c)
  PROVE  /\ handler' \in [Clients -> Handlers] /\ \A d \in Clients \ {c} : handler'[d] = handler[d]
         /\ last' \in [Clients -> Results] /\ \A d \in Clients \ {c} : last'[d] = last[d]
         /\ queue' \in [Clients -> Seq(Results)] /\ \A d \in Clients \ {c} : queue'[d] = queue[d]
         /\ Len(queue'[c]) <= MaxQueue
         /\ connections' \subseteq Clients /\ connections' \ {c} = connections \ {c}
         /\ UNCHANGED <<forgets, keepAlive, worker, result, phase, peer>>
<1> USE Typed DEF Parts
<1>1. CASE Request(c)
  <2>1. Goes(c, "prepare") /\ "prepare" \in Pcs BY <1>1 DEF Request, Pcs
  <2>2. last' = [last EXCEPT ![c] = result] /\ UNCHANGED <<queue, peer>> /\ Handles
        /\ connections' = connections \cup {c}
    BY <1>1 DEF Request
  <2>3. QED BY <2>1, <2>2, Moves DEF Handles
<1>2. CASE Prepare(c)
  <2>1. PICK pc \in {"loop", "unprepared"} : Goes(c, pc) BY <1>2 DEF Prepare
  <2>2. pc \in Pcs BY DEF Pcs
  <2>3. QED BY <1>2, <2>1, <2>2, Moves DEF Prepare, Handles
<1>3. CASE Receive(c)
  <2>1. PICK pc \in {"ended", "get"} : Goes(c, pc) BY <1>3 DEF Receive, EndsWell
  <2>2. pc \in Pcs BY DEF Pcs
  <2>3. connections' = connections \/ connections' = connections \ {c} BY <1>3 DEF Receive, EndsWell
  <2>4. UNCHANGED <<queue, peer, last>> /\ Handles BY <1>3 DEF Receive
  <2>5. QED BY <2>1, <2>2, <2>3, <2>4, Moves DEF Handles
<1>4. CASE Get(c)
  <2>1. queue[c] \in Seq(Results) /\ queue[c] # <<>> BY <1>4 DEF Get
  <2>2. Head(queue[c]) \in Results /\ Tail(queue[c]) \in Seq(Results) /\ Len(Tail(queue[c])) <= MaxQueue
    <3>1. Len(Tail(queue[c])) = Len(queue[c]) - 1 BY <2>1
    <3>2. Len(queue[c]) <= MaxQueue /\ Len(queue[c]) \in Nat BY <2>1
    <3>3. QED BY <2>1, <3>1, <3>2, BoundsAssumption
  <2>3. [pc |-> "send", item |-> Head(queue[c])] \in Handlers BY <2>2 DEF Handlers, Pcs
  <2>4. handler' = [handler EXCEPT ![c] = [pc |-> "send", item |-> Head(queue[c])]]
        /\ queue' = [queue EXCEPT ![c] = Tail(@)] /\ Handles /\ UNCHANGED <<connections, peer, last>>
    BY <1>4 DEF Get
  <2>5. QED BY <2>2, <2>3, <2>4 DEF Handles
<1>5. CASE SendJson(c)
  <2>1. PICK pc \in {"loop", "ended", "raised"} : Goes(c, pc) BY <1>5 DEF SendJson, EndsWell
  <2>2. pc \in Pcs BY DEF Pcs
  <2>3. connections' = connections \/ connections' = connections \ {c} BY <1>5 DEF SendJson, EndsWell
  <2>4. last' = last \/ last' = [last EXCEPT ![c] = handler[c].item] BY <1>5 DEF SendJson
  <2>5. handler[c].item \in Results BY DEF Handlers
  <2>6. UNCHANGED <<queue, peer>> /\ Handles BY <1>5 DEF SendJson
  <2>7. QED BY <2>1, <2>2, <2>3, <2>4, <2>5, <2>6, Moves DEF Handles
<1>6. QED BY <1>1, <1>2, <1>3, <1>4, <1>5 DEF HandlerStep

\* The shutdown ends every handler that runs.
LEMMA CleanUpEnds ==
  ASSUME TypeInv, CleanUp
  PROVE  /\ handler' \in [Clients -> Handlers] /\ Active' = {}
         /\ \A c \in Clients : IF c \in Active THEN handler'[c].pc = "cancelled" ELSE handler'[c] = handler[c]
<1>1. handler' = [c \in Clients |->
                   IF c \in Active THEN [handler[c] EXCEPT !.pc = "cancelled"] ELSE handler[c]]
  BY DEF CleanUp
<1>2. handler \in [Clients -> Handlers] BY Typed DEF Parts
<1>3. ASSUME NEW c \in Clients
      PROVE  /\ handler'[c] \in Handlers /\ handler'[c].pc \notin ActivePcs
             /\ IF c \in Active THEN handler'[c].pc = "cancelled" ELSE handler'[c] = handler[c]
  <2>1. CASE c \in Active BY <1>1, <1>2, <2>1 DEF Handlers, Pcs, ActivePcs
  <2>2. CASE c \notin Active BY <1>1, <1>2, <2>2 DEF Active, ActivePcs
  <2>3. QED BY <2>1, <2>2
<1>4. handler' \in [Clients -> Handlers] BY <1>1, <1>3
<1>5. Active' = {} BY <1>3 DEF Active, ActivePcs
<1>6. QED BY <1>3, <1>4, <1>5

\* Every step keeps the types.
LEMMA TypeStep == TypeInv /\ [Next]_vars => TypeInv'
<1> SUFFICES ASSUME TypeInv, [Next]_vars PROVE TypeInv' OBVIOUS
<1> USE Typed DEF Parts
<1>1. CASE Work BY <1>1, WorkPuts
<1>2. CASE WorkerDies BY <1>2 DEF WorkerDies
<1>3. CASE Interrupt BY <1>3 DEF Interrupt
<1>4. CASE CleanUp
  <2>1. worker' \in {"run", "dead", "cancelled"} BY <1>4 DEF CleanUp
  <2>2. QED BY <1>4, <2>1, CleanUpEnds DEF CleanUp
<1>5. ASSUME NEW c \in Clients, Leave(c) PROVE TypeInv' BY <1>5 DEF Leave
<1>6. ASSUME NEW c \in Clients, HandlerStep(c) \/ Request(c) PROVE TypeInv'
  <2>1. /\ handler' \in [Clients -> Handlers] /\ last' \in [Clients -> Results]
        /\ queue' \in [Clients -> Seq(Results)] /\ \A d \in Clients \ {c} : queue'[d] = queue[d]
        /\ Len(queue'[c]) <= MaxQueue /\ connections' \subseteq Clients
        /\ UNCHANGED <<forgets, keepAlive, worker, result, phase, peer>>
    BY <1>6, HandlerMoves
  <2>2. \A d \in Clients : Len(queue'[d]) <= MaxQueue BY <2>1
  <2>3. QED BY <2>1, <2>2
<1>7. CASE UNCHANGED vars BY <1>7 DEF vars
<1>8. QED BY <1>1, <1>2, <1>3, <1>4, <1>5, <1>6, <1>7 DEF Next

\* Both services keep to their types; no queue outgrows its bound.
THEOREM TypeCorrect == Spec => []TypeOK
<1>1. Spec => []TypeInv BY TypeStart, TypeStep, PTL DEF Spec
<1>2. TypeInv => TypeOK BY DEF TypeInv
<1>3. QED BY <1>1, <1>2, PTL

-----------------------------------------------------------------------------

\* The newest result that the handler has taken from the queue.
Taken(c) == IF handler[c].pc = "send" THEN handler[c].item ELSE last[c]

\* From what the browser has, over what its handler holds, to the newest result
\* there is no gap.
Chain(c) ==
  /\ handler[c].pc = "send" => handler[c].item = Next1(last[c])
  /\ queue[c] = <<>> => Taken(c) = result
  /\ queue[c] # <<>> => queue[c][1] = Next1(Taken(c)) /\ queue[c][Len(queue[c])] = result
  /\ \A i \in 1 .. Len(queue[c]) - 1 : queue[c][i + 1] = Next1(queue[c][i])

Chained == \A c \in Active : peer[c] = "here" => Chain(c)
Fresh == \A c \in Clients : handler[c].pc = "none" => queue[c] = <<>>

SoundInv == TypeInv /\ QueuesExplained /\ Fresh /\ Chained

\* A handler is active by its program counter.
LEMMA ActiveIs == \A c \in Clients : (c \in Active <=> handler[c].pc \in ActivePcs)
                                     /\ (c \in Active' <=> handler'[c].pc \in ActivePcs)
BY DEF Active, ActivePcs

\* The chain is what NoGap says of the results in flight.
LEMMA ChainIsGapless ==
  ASSUME TypeInv, NEW c \in Clients, Chain(c)
  PROVE  LET s == InFlight(c)
         IN  /\ s[Len(s)] = result
             /\ \A i \in 1 .. Len(s) - 1 : s[i + 1] = Next1(s[i])
<1> DEFINE s == InFlight(c)
           q == queue[c]
           x == Taken(c)
<1>1. q \in Seq(Results) /\ last[c] \in Results /\ handler[c].item \in Results /\ Len(q) \in Nat
  BY Typed DEF Parts, Handlers
<1>2. CASE handler[c].pc = "send"
  <2>1. s = <<last[c], x>> \o q BY <1>1, <1>2 DEF InFlight, Taken
  <2>2. Len(s) = Len(q) + 2 /\ s[1] = last[c] /\ s[2] = x /\ \A i \in 1 .. Len(q) : s[i + 2] = q[i]
    BY <1>1, <2>1
  <2>3. x = Next1(last[c]) BY <1>2 DEF Chain, Taken
  <2> HIDE DEF s, q, x
  <2>4. s[Len(s)] = result
    <3>1. CASE q = <<>> BY <2>2, <3>1 DEF Chain, q, x
    <3>2. CASE q # <<>>
      <4>1. Len(q) >= 1 BY <1>1, <3>2
      <4>2. s[Len(q) + 2] = q[Len(q)] BY <1>1, <2>2, <4>1
      <4>3. QED BY <2>2, <3>2, <4>2 DEF Chain, q
    <3>3. QED BY <3>1, <3>2
  <2>5. ASSUME NEW i \in 1 .. Len(s) - 1 PROVE s[i + 1] = Next1(s[i])
    <3>1. CASE i = 1 BY <2>2, <2>3, <3>1
    <3>2. CASE i = 2
      <4>1. q # <<>> /\ s[3] = q[1] BY <1>1, <2>2, <2>5, <3>2
      <4>2. q[1] = Next1(x) BY <4>1 DEF Chain, q, x
      <4>3. QED BY <2>2, <3>2, <4>1, <4>2
    <3>3. CASE i > 2
      <4>1. PICK j \in 1 .. Len(q) - 1 : i = j + 2 BY <1>1, <2>2, <2>5, <3>3
      <4>2. s[i] = q[j] /\ s[i + 1] = q[j + 1] BY <1>1, <2>2, <4>1
      <4>3. q[j + 1] = Next1(q[j]) BY <4>1 DEF Chain, q
      <4>4. QED BY <4>2, <4>3
    <3>4. QED BY <2>5, <3>1, <3>2, <3>3
  <2>6. QED BY <2>4, <2>5 DEF s
<1>3. CASE handler[c].pc # "send"
  <2>1. s = <<x>> \o q BY <1>1, <1>3 DEF InFlight, Taken
  <2>2. Len(s) = Len(q) + 1 /\ s[1] = x /\ \A i \in 1 .. Len(q) : s[i + 1] = q[i]
    <3>1. x \in Results BY <1>1 DEF Taken
    <3>2. QED BY <1>1, <2>1, <3>1
  <2> HIDE DEF s, q, x
  <2>3. s[Len(s)] = result
    <3>1. CASE q = <<>> BY <2>2, <3>1 DEF Chain, q, x
    <3>2. CASE q # <<>>
      <4>1. Len(q) >= 1 BY <1>1, <3>2
      <4>2. s[Len(q) + 1] = q[Len(q)] BY <1>1, <2>2, <4>1
      <4>3. QED BY <2>2, <3>2, <4>2 DEF Chain, q
    <3>3. QED BY <3>1, <3>2
  <2>4. ASSUME NEW i \in 1 .. Len(s) - 1 PROVE s[i + 1] = Next1(s[i])
    <3>1. CASE i = 1
      <4>1. q # <<>> /\ s[2] = q[1] BY <1>1, <2>2, <2>4, <3>1
      <4>2. q[1] = Next1(x) BY <4>1 DEF Chain, q, x
      <4>3. QED BY <2>2, <3>1, <4>1, <4>2
    <3>2. CASE i > 1
      <4>1. PICK j \in 1 .. Len(q) - 1 : i = j + 1 BY <1>1, <2>2, <2>4, <3>2
      <4>2. s[i] = q[j] /\ s[i + 1] = q[j + 1] BY <1>1, <2>2, <4>1
      <4>3. q[j + 1] = Next1(q[j]) BY <4>1 DEF Chain, q
      <4>4. QED BY <4>2, <4>3
    <3>3. QED BY <2>4, <3>1, <3>2
  <2>5. QED BY <2>3, <2>4 DEF s
<1>4. QED BY <1>2, <1>3

\* A new result goes to the end of the chain.
LEMMA ChainGrows ==
  ASSUME TypeInv, NEW c \in Clients, Chain(c), queue'[c] = Append(queue[c], Next1(result)),
         result' = Next1(result), UNCHANGED <<handler, last>>
  PROVE  Chain(c)'
<1> DEFINE q == queue[c]
<1> PICK n : n = Next1(result) OBVIOUS
<1>1. q \in Seq(Results) /\ n \in Results /\ Len(q) \in Nat BY Typed, Next1Typed DEF Parts
<1>2. queue'[c] = Append(q, n) /\ Taken(c)' = Taken(c) BY DEF Taken
<1>3. /\ Len(queue'[c]) = Len(q) + 1 /\ queue'[c][Len(q) + 1] = n
      /\ \A i \in 1 .. Len(q) : queue'[c][i] = q[i]
  BY <1>1, <1>2
<1> HIDE DEF q
<1>4. queue'[c] # <<>> BY <1>1, <1>3
<1>5. queue'[c][1] = Next1(Taken(c))
  <2>1. CASE q = <<>> BY <1>3, <2>1 DEF Chain, q
  <2>2. CASE q # <<>>
    <3>1. queue'[c][1] = q[1] BY <1>1, <1>3, <2>2
    <3>2. QED BY <2>2, <3>1 DEF Chain, q
  <2>3. QED BY <2>1, <2>2
<1>6. ASSUME NEW i \in 1 .. Len(queue'[c]) - 1 PROVE queue'[c][i + 1] = Next1(queue'[c][i])
  <2>1. i \in 1 .. Len(q) /\ queue'[c][i] = q[i] BY <1>1, <1>3, <1>6
  <2>2. CASE i = Len(q)
    <3>1. q # <<>> BY <1>1, <2>1
    <3>2. q[Len(q)] = result BY <3>1 DEF Chain, q
    <3>3. QED BY <1>3, <2>1, <2>2, <3>2
  <2>3. CASE i # Len(q)
    <3>1. i \in 1 .. Len(q) - 1 /\ i + 1 \in 1 .. Len(q) BY <1>1, <2>1, <2>3
    <3>2. q[i + 1] = Next1(q[i]) BY <3>1 DEF Chain, q
    <3>3. QED BY <1>3, <2>1, <3>1, <3>2
  <2>4. QED BY <2>2, <2>3
<1>7. handler'[c].pc = "send" => handler'[c].item = Next1(last'[c]) BY DEF Chain
<1>8. Next1(Taken(c))' = Next1(Taken(c)) BY <1>2 DEF Next1
<1>9. \A i \in 1 .. Len(queue'[c]) - 1 : (queue[c][i + 1] = Next1(queue[c][i]))' BY <1>6 DEF Next1
<1>10. QED BY <1>3, <1>4, <1>5, <1>7, <1>8, <1>9 DEF Chain, Next1

\* A handler that takes a result holds the one after the browser's.
LEMMA ChainTaken ==
  ASSUME TypeInv, NEW c \in Clients, Chain(c), Get(c)
  PROVE  Chain(c)'
<1> DEFINE q == queue[c]
<1>1. q \in Seq(Results) /\ q # <<>> /\ Len(q) \in Nat BY Typed DEF Parts, Get
<1>2. handler[c].pc = "get" /\ Taken(c) = last[c] BY DEF Get, Taken
<1>3. handler'[c] = [pc |-> "send", item |-> Head(q)] /\ queue'[c] = Tail(q) /\ UNCHANGED <<last, result>>
  BY Typed DEF Parts, Get, Handles
<1>4. Head(q) = q[1] /\ Len(Tail(q)) = Len(q) - 1 /\ \A i \in 1 .. Len(q) - 1 : Tail(q)[i] = q[i + 1] BY <1>1
<1>5. q[1] = Next1(last[c]) /\ q[Len(q)] = result /\ \A i \in 1 .. Len(q) - 1 : q[i + 1] = Next1(q[i])
  BY <1>1, <1>2 DEF Chain
<1> HIDE DEF q
<1>6. Taken(c)' = q[1] /\ Len(queue'[c]) = Len(q) - 1 /\ \A i \in 1 .. Len(q) - 1 : queue'[c][i] = q[i + 1]
  BY <1>3, <1>4 DEF Taken
<1>7. queue'[c] = <<>> => Taken(c)' = result
  <2>1. queue'[c] = <<>> => Len(q) = 1 BY <1>1, <1>6
  <2>2. QED BY <1>5, <1>6, <2>1
<1>8. queue'[c] # <<>> => queue'[c][1] = Next1(q[1]) /\ queue'[c][Len(queue'[c])] = result
  <2> SUFFICES ASSUME queue'[c] # <<>> PROVE queue'[c][1] = Next1(q[1]) /\ queue'[c][Len(queue'[c])] = result
    OBVIOUS
  <2>1. Tail(q) \in Seq(Results) BY <1>1
  <2>2. Len(q) - 1 >= 1 BY <1>1, <1>3, <1>4, <2>1
  <2>3. 1 \in 1 .. Len(q) - 1 /\ Len(q) - 1 \in 1 .. Len(q) - 1 BY <1>1, <2>2
  <2>4. QED BY <1>1, <1>5, <1>6, <2>3
<1>9. ASSUME NEW i \in 1 .. Len(queue'[c]) - 1 PROVE queue'[c][i + 1] = Next1(queue'[c][i])
  <2>1. i \in 1 .. Len(q) - 1 /\ i + 1 \in 1 .. Len(q) - 1 BY <1>1, <1>6, <1>9
  <2>2. QED BY <1>5, <1>6, <2>1
<1>10. Next1(Taken(c))' = Next1(q[1]) BY <1>6 DEF Next1
<1>11. handler'[c].pc = "send" => handler'[c].item = Next1(last'[c])
  BY <1>3, <1>4, <1>5
<1>12. \A i \in 1 .. Len(queue'[c]) - 1 : (queue[c][i + 1] = Next1(queue[c][i]))' BY <1>9 DEF Next1
<1>13. QED BY <1>3, <1>7, <1>8, <1>10, <1>11, <1>12 DEF Chain, Next1

\* SoundInv for one client.
Explained(c) ==
  /\ c \in Active => c \in connections
  /\ c \in connections /\ c \notin Active =>
       handler[c].pc \in {"unprepared", "cancelled"} \cup (IF forgets THEN {} ELSE {"raised"})
OwnSound(c) ==
  /\ Explained(c)
  /\ handler[c].pc = "none" => queue[c] = <<>>
  /\ c \in Active /\ peer[c] = "here" => Chain(c)

\* Before a step and after it the invariant is that of every client.
LEMMA SoundIs ==
  /\ TypeInv => (SoundInv <=> \A c \in Clients : OwnSound(c))
  /\ TypeInv' => (SoundInv' <=> \A c \in Clients : OwnSound(c)')
<1>1. Active \subseteq Clients /\ Active' \subseteq Clients BY DEF Active
<1>2. TypeInv => connections \subseteq Clients BY Typed DEF Parts
<1>3. TypeInv' => connections' \subseteq Clients BY Typed DEF Parts
<1>4. TypeInv => (QueuesExplained <=> \A c \in Clients : Explained(c))
  BY <1>1, <1>2 DEF QueuesExplained, Explained
<1>5. TypeInv' => (QueuesExplained' <=> \A c \in Clients : Explained(c)')
  BY <1>1, <1>3 DEF QueuesExplained, Explained
<1>6. TypeInv => (SoundInv <=> \A c \in Clients : OwnSound(c))
  BY <1>1, <1>4 DEF SoundInv, OwnSound, Fresh, Chained
<1>7. TypeInv' => (SoundInv' <=> \A c \in Clients : OwnSound(c)')
  BY <1>1, <1>5 DEF SoundInv, OwnSound, Fresh, Chained
<1>8. QED BY <1>6, <1>7

\* A client whose handler, queue and registration stay is as sound as before.
LEMMA SoundStays ==
  ASSUME TypeInv, NEW c \in Clients, OwnSound(c),
         handler'[c] = handler[c], queue'[c] = queue[c], last'[c] = last[c],
         c \in connections' <=> c \in connections, peer'[c] = "here" => peer[c] = "here",
         UNCHANGED <<forgets, result>>
  PROVE  OwnSound(c)'
<1>1. (c \in Active') <=> (c \in Active) BY ActiveIs
<1>2. Explained(c)' BY <1>1 DEF OwnSound, Explained
<1>3. Chain(c) => Chain(c)' BY DEF Chain, Taken, Next1
<1>4. QED BY <1>1, <1>2, <1>3 DEF OwnSound

\* The steps of a client's own handler.
LEMMA HandlerSound ==
  ASSUME TypeInv, NEW c \in Clients, OwnSound(c), HandlerStep(c) \/ Request(c)
  PROVE  OwnSound(c)'
<1>1. /\ handler' \in [Clients -> Handlers] /\ last' \in [Clients -> Results]
      /\ UNCHANGED <<forgets, keepAlive, worker, result, phase, peer>>
  BY HandlerMoves
<1>2. handler \in [Clients -> Handlers] /\ last \in [Clients -> Results] BY Typed DEF Parts
<1>3. CASE Request(c)
  <2>1. handler[c].pc = "none" /\ Goes(c, "prepare") /\ connections' = connections \cup {c}
        /\ last' = [last EXCEPT ![c] = result] /\ UNCHANGED queue
    BY <1>3 DEF Request
  <2>2. handler'[c].pc = "prepare" BY <2>1, Moves DEF Pcs
  <2>3. queue'[c] = <<>> /\ last'[c] = result BY <1>2, <2>1 DEF OwnSound
  <2>4. c \in Active' /\ c \in connections' BY <2>1, <2>2, ActiveIs DEF ActivePcs
  <2>5. Chain(c)'
    <3>1. Taken(c)' = result' BY <1>1, <2>2, <2>3 DEF Taken
    <3>2. Len(<<>>) = 0 OBVIOUS
    <3>3. QED BY <2>2, <2>3, <3>1, <3>2 DEF Chain
  <2>6. QED BY <2>2, <2>4, <2>5 DEF OwnSound, Explained
<1>4. CASE Prepare(c)
  <2>1. handler[c].pc = "prepare" /\ UNCHANGED <<connections, queue, last>> BY <1>4 DEF Prepare
  <2>2. handler'[c].pc \in {"loop", "unprepared"}
    <3>1. PICK pc \in {"loop", "unprepared"} : Goes(c, pc) BY <1>4 DEF Prepare
    <3>2. QED BY <3>1, Moves DEF Pcs
  <2>3. Chain(c) => Chain(c)'
    <3>1. Taken(c)' = Taken(c) BY <2>1, <2>2 DEF Taken
    <3>2. QED BY <1>1, <2>1, <2>2, <3>1 DEF Chain, Next1
  <2>4. QED BY <1>1, <2>1, <2>2, <2>3, ActiveIs DEF OwnSound, Explained, ActivePcs
<1>5. CASE Receive(c)
  <2>1. handler[c].pc = "loop" /\ UNCHANGED <<queue, last>> BY <1>5 DEF Receive
  <2>2. \/ handler'[c].pc = "ended" /\ connections' = connections \ {c}
        \/ handler'[c].pc = "get" /\ connections' = connections
    BY <1>5, Moves DEF Receive, EndsWell, Pcs
  <2>3. Chain(c) => Chain(c)'
    <3>1. Taken(c)' = Taken(c) BY <2>1, <2>2 DEF Taken
    <3>2. QED BY <1>1, <2>1, <2>2, <3>1 DEF Chain, Next1
  <2>4. QED BY <1>1, <2>1, <2>2, <2>3, ActiveIs DEF OwnSound, Explained, ActivePcs
<1>6. CASE Get(c)
  <2>1. handler[c].pc = "get" /\ handler'[c].pc = "send" /\ UNCHANGED connections
    BY <1>2, <1>6 DEF Get
  <2>2. Chain(c) => Chain(c)' BY <1>6, ChainTaken
  <2>3. QED BY <1>1, <2>1, <2>2, ActiveIs DEF OwnSound, Explained, ActivePcs
<1>7. CASE SendJson(c)
  <2>1. handler[c].pc = "send" /\ UNCHANGED queue BY <1>7 DEF SendJson
  <2>2. CASE /\ Goes(c, "loop") /\ UNCHANGED connections
             /\ last' = IF peer[c] = "here" THEN [last EXCEPT ![c] = handler[c].item] ELSE last
    <3>1. handler'[c].pc = "loop" BY <2>2, Moves DEF Pcs
    <3>2. peer[c] = "here" => Taken(c)' = Taken(c) BY <1>2, <2>1, <2>2, <3>1 DEF Taken
    <3>3. peer[c] = "here" /\ Chain(c) => Chain(c)' BY <1>1, <2>1, <3>1, <3>2 DEF Chain, Next1
    <3>4. QED BY <1>1, <2>1, <2>2, <3>1, <3>3, ActiveIs DEF OwnSound, Explained, ActivePcs
  <2>3. CASE IF forgets THEN EndsWell(c) ELSE Goes(c, "raised") /\ UNCHANGED connections
    <3>1. CASE forgets
      <4>1. handler'[c].pc = "ended" /\ connections' = connections \ {c}
        BY <2>3, <3>1, Moves DEF EndsWell, Pcs
      <4>2. QED BY <1>1, <4>1, ActiveIs DEF OwnSound, Explained, ActivePcs
    <3>2. CASE ~forgets
      <4>1. handler'[c].pc = "raised" /\ UNCHANGED connections BY <2>3, <3>2, Moves DEF Pcs
      <4>2. QED BY <1>1, <3>2, <4>1, ActiveIs DEF OwnSound, Explained, ActivePcs
    <3>3. QED BY <3>1, <3>2
  <2>4. QED BY <1>7, <2>2, <2>3 DEF SendJson
<1>8. QED BY <1>3, <1>4, <1>5, <1>6, <1>7 DEF HandlerStep

\* Every step keeps every client sound.
LEMMA SoundStep == SoundInv /\ [Next]_vars => SoundInv'
<1> SUFFICES ASSUME SoundInv, [Next]_vars PROVE SoundInv' OBVIOUS
<1>1. TypeInv /\ TypeInv' BY TypeStep DEF SoundInv
<1> SUFFICES ASSUME NEW d \in Clients PROVE OwnSound(d)' BY <1>1, SoundIs
<1>2. OwnSound(d) BY <1>1, SoundIs
<1>3. CASE Work
  <2>1. /\ result' = Next1(result)
        /\ \A c \in Active \cap connections : queue'[c] = Append(queue[c], Next1(result))
        /\ \A c \in Clients \ connections : queue'[c] = queue[c]
        /\ UNCHANGED <<forgets, keepAlive, worker, connections, handler, peer, last, phase>>
    BY <1>1, <1>3, WorkPuts
  <2>2. (d \in Active') <=> (d \in Active) BY <2>1, ActiveIs
  <2>3. Explained(d)' BY <1>2, <2>1, <2>2 DEF OwnSound, Explained
  <2>4. handler'[d].pc = "none" => queue'[d] = <<>>
    <3>1. handler[d].pc = "none" => d \notin connections
      BY <1>2, ActiveIs DEF OwnSound, Explained, ActivePcs
    <3>2. QED BY <1>2, <2>1, <3>1 DEF OwnSound
  <2>5. d \in Active' /\ peer'[d] = "here" => Chain(d)'
    <3> SUFFICES ASSUME d \in Active', peer'[d] = "here" PROVE Chain(d)' OBVIOUS
    <3>1. d \in Active \cap connections /\ Chain(d) BY <1>2, <2>1, <2>2 DEF OwnSound, Explained
    <3>2. queue'[d] = Append(queue[d], Next1(result)) BY <2>1, <3>1
    <3>3. QED BY <1>1, <2>1, <3>1, <3>2, ChainGrows
  <2>6. QED BY <2>3, <2>4, <2>5 DEF OwnSound
<1>4. CASE CleanUp
  <2>1. d \notin Active' /\ UNCHANGED <<forgets, connections, queue, peer, last, result>>
        /\ IF d \in Active THEN handler'[d].pc = "cancelled" ELSE handler'[d] = handler[d]
    BY <1>1, <1>4, CleanUpEnds DEF CleanUp
  <2>2. CASE d \in Active BY <1>2, <2>1, <2>2 DEF OwnSound, Explained
  <2>3. CASE d \notin Active BY <1>2, <2>1, <2>3 DEF OwnSound, Explained
  <2>4. QED BY <2>2, <2>3
<1>5. CASE WorkerDies \/ Interrupt
  BY <1>1, <1>2, <1>5, SoundStays DEF WorkerDies, Interrupt
<1>6. ASSUME NEW c \in Clients, Leave(c) PROVE OwnSound(d)'
  <2>1. UNCHANGED <<forgets, keepAlive, worker, result, connections, queue, handler, last, phase>> BY <1>6 DEF Leave
  <2>2. peer'[d] = "here" => peer[d] = "here" BY <1>1, <1>6, Typed DEF Leave, Parts
  <2>3. QED BY <1>1, <1>2, <2>1, <2>2, SoundStays
<1>7. ASSUME NEW c \in Clients, HandlerStep(c) \/ Request(c) PROVE OwnSound(d)'
  <2>1. CASE d = c BY <1>1, <1>2, <1>7, <2>1, HandlerSound
  <2>2. CASE d # c
    <3>1. /\ handler'[d] = handler[d] /\ last'[d] = last[d] /\ queue'[d] = queue[d]
          /\ connections' \ {c} = connections \ {c}
          /\ UNCHANGED <<forgets, keepAlive, worker, result, phase, peer>>
      BY <1>1, <1>7, <2>2, HandlerMoves
    <3>2. d \in connections' <=> d \in connections BY <2>2, <3>1
    <3>3. QED BY <1>1, <1>2, <3>1, <3>2, SoundStays
  <2>3. QED BY <2>1, <2>2
<1>8. CASE UNCHANGED vars BY <1>1, <1>2, <1>8, SoundStays DEF vars
<1>9. QED BY <1>3, <1>4, <1>5, <1>6, <1>7, <1>8 DEF Next

\* At the start nobody is there.
LEMMA SoundStart == Init => SoundInv
<1> SUFFICES ASSUME Init PROVE SoundInv OBVIOUS
<1>1. TypeInv BY TypeStart
<1>2. \A c \in Clients : handler[c].pc = "none" /\ queue[c] = <<>> /\ c \notin connections BY DEF Init
<1>3. \A c \in Clients : c \notin Active BY <1>2, ActiveIs DEF ActivePcs
<1>4. \A c \in Clients : OwnSound(c) BY <1>2, <1>3 DEF OwnSound, Explained
<1>5. QED BY <1>1, <1>4, SoundIs

\* For any number of browsers, in both services: a client that is served is
\* registered, a queue that is kept without a handler is one of the kinds the
\* code leaves behind, and a browser that is there gets every result once and
\* in order.
THEOREM ResultsAreSound == Spec => []ResultsSound
<1>1. Spec => []SoundInv BY SoundStart, SoundStep, PTL DEF Spec
<1>2. SoundInv => ResultsSound
  <2> SUFFICES ASSUME SoundInv PROVE ResultsSound OBVIOUS
  <2>1. \A c \in Active : peer[c] = "here" => Chain(c) BY DEF SoundInv, Chained
  <2>2. \A c \in Active : c \in Clients BY DEF Active
  <2>3. NoGap BY <2>1, <2>2, ChainIsGapless DEF SoundInv, NoGap
  <2>4. QED BY <2>3 DEF SoundInv, ResultsSound
<1>3. QED BY <1>1, <1>2, PTL

-----------------------------------------------------------------------------
(* The IMU, telepresence and capture services.                             *)

-----------------------------------------------------------------------------
(* The invariant.                                                          *)

ImuPcs == {"start", "find", "head", "select", "events", "send", "stop", "raised", "again", "exit"}
ImuRecords ==
  [pc : ImuPcs, keepRunning : BOOLEAN, listening : BOOLEAN, events : SUBSET ({"socket", "imu"} \cup ImuClients),
   sample : 0..MaxSamples, newData : BOOLEAN, left : SUBSET ImuClients]
Conns ==
  [server : {"none", "open", "closed"}, peer : {"none", "open", "closed", "gone", "reset"},
   held : Seq(Halves), got : Seq(Halves)]

ImuTypes ==
  /\ imu \in ImuRecords
  /\ conn \in [ImuClients -> Conns] /\ \A c \in ImuClients : Len(conn[c].held) <= SocketRoom
  /\ since \in [ImuClients -> 0..MaxSamples]

\* Where the program is tells what it has: a sample that is new is one that was read,
\* and the IMU is read once in a round.
ImuPlace ==
  /\ imu.newData => imu.sample > 0 /\ imu.pc \in {"events", "raised", "exit"}
  /\ imu.pc = "send" => imu.sample > 0
  /\ imu.pc = "events" /\ "imu" \in imu.events => imu.sample < MaxSamples /\ ~imu.newData
  /\ \A c \in ImuClients :
       IF conn[c].server = "none" THEN conn[c].held = <<>> /\ conn[c].got = <<>> ELSE conn[c].peer # "none"
  /\ \A c \in imu.left : conn[c].server # "none" /\ (imu.pc = "send" => conn[c].server = "open")

\* The last sample that client c has been sent, when all is well.
Due(c) == IF imu.newData \/ (imu.pc = "send" /\ c \in imu.left) THEN imu.sample - 1 ELSE imu.sample

\* A stream of the samples after a, and one of those that reaches n.
Whole(s, a) ==
  /\ s # <<>> => s[1] = <<a + 1, 1>> /\ (s[Len(s)][2] = 1 => Len(s) >= SocketRoom)
  /\ \A i \in 2..Len(s) : Follows(s, i)
Reaches(s, a, n) == a <= n /\ IF s = <<>> THEN a = n ELSE s[Len(s)][1] = n

Serving == imu.pc \in {"start", "find", "head", "select", "events", "send"}

StreamsInv ==
  \A c \in ImuClients :
    /\ Whole(Stream(c), since[c])
    /\ Serving /\ conn[c].server = "open" => Reaches(Stream(c), since[c], Due(c))

ImuExplained ==
  imu.pc = "raised" =>
    \/ imu.events \cap {"imu", "socket"} # {}
    \/ \E c \in imu.events \cap ImuClients : conn[c].peer = "reset"
    \/ \E c \in imu.left : conn[c].peer # "open" \/ Len(conn[c].held) >= SocketRoom

ImuInv == ImuTypes /\ ImuPlace /\ StreamsInv /\ ImuExplained

TeleInv ==
  /\ motors \in {"moves", "rests"} /\ server \in {"runs", "ends", "over"}
  /\ wsHandler \in [Drivers -> {"none", "loop", "ended", "raised", "cancelled"}]
  /\ link \in [Drivers -> [state : {"open", "closed", "lost"}, sent : Seq(Messages)]]
  /\ \A b \in Drivers : Len(link[b].sent) <= MaxMessages
  /\ motors = "moves" => \E b \in Drivers : wsHandler[b] \in {"loop", "raised", "cancelled"}

CaptureInv ==
  /\ app \in [keepAlive : BOOLEAN, lastFrame : 0..MaxFrames, run : {"runs", "ends", "cleanup", "over"}]
  /\ viewer \in [Viewers -> [pc : {"none", "loop", "tail", "ended", "raised", "cancelled"}, frame : Nat,
                             shown : Seq(Nat), page : {"none", "open", "gone"}]]
  /\ control \in [Viewers -> [pc : {"none", "loop", "ended", "cancelled"}, asked : Seq(Nat),
                              saved : Seq(Nat \X Nat)]]
  /\ \A v \in Viewers :
       /\ LastShown(v) <= viewer[v].frame /\ viewer[v].frame <= app.lastFrame
       /\ \A i \in 2..Len(viewer[v].shown) : viewer[v].shown[i - 1] < viewer[v].shown[i]
       /\ \A i \in 1..Len(control[v].asked) : control[v].asked[i] <= app.lastFrame
       /\ \A i \in 1..Len(control[v].saved) : control[v].saved[i][1] <= control[v].saved[i][2]

RobotInv == service \in {"imu", "telepresence", "capture"} /\ ImuInv /\ TeleInv /\ CaptureInv

-----------------------------------------------------------------------------
(* The telepresence service.                                               *)

\* The first message that waits, and the rest.
LEMMA FirstMessage ==
  ASSUME NEW s \in Seq(Messages), s # <<>>
  PROVE  Head(s) \in Messages /\ Tail(s) \in Seq(Messages) /\ Len(Tail(s)) <= Len(s)
OBVIOUS

\* The robot moves for someone who drives, or who was not seen to stop.
LEMMA TeleStart == TeleInit => TeleInv
BY TelepresenceAssumption DEF TeleInit, TeleInv

\* And no step of the program or of a browser changes that.
LEMMA TeleKept == TeleInv /\ (TeleNext \/ UNCHANGED teleVars) => TeleInv'
<1> SUFFICES ASSUME TeleInv, TeleNext \/ UNCHANGED teleVars PROVE TeleInv' OBVIOUS
<1> USE DEF TeleInv
<1>1. CASE UNCHANGED teleVars BY <1>1 DEF teleVars
<1>2. CASE Finalize BY <1>2 DEF Finalize
<1>3. CASE Shutdown BY <1>3 DEF Shutdown
<1>4. ASSUME NEW b \in Drivers, Message(b) PROVE TeleInv'
  <2>1. link[b].sent \in Seq(Messages) /\ link[b].sent # <<>> BY <1>4 DEF Message
  <2> PICK m, rest : m = Head(link[b].sent) /\ rest = Tail(link[b].sent) OBVIOUS
  <2>2. m \in Messages /\ rest \in Seq(Messages) /\ Len(rest) <= MaxMessages
    <3>1. Len(rest) <= Len(link[b].sent) BY <2>1, FirstMessage
    <3>2. Len(link[b].sent) <= MaxMessages /\ Len(link[b].sent) \in Nat /\ Len(rest) \in Nat BY <2>1, FirstMessage
    <3>3. QED BY <2>1, <3>1, <3>2, FirstMessage, TelepresenceAssumption
  <2>3. /\ link' = [link EXCEPT ![b].sent = rest] /\ UNCHANGED server
        /\ \/ m = "garbage" /\ wsHandler' = [wsHandler EXCEPT ![b] = "raised"] /\ UNCHANGED motors
           \/ m # "garbage" /\ motors' = m /\ UNCHANGED wsHandler /\ wsHandler[b] = "loop"
    BY <1>4 DEF Message
  <2>4. link' \in [Drivers -> [state : {"open", "closed", "lost"}, sent : Seq(Messages)]]
        /\ \A d \in Drivers : Len(link'[d].sent) <= MaxMessages
    BY <2>2, <2>3
  <2>5. QED BY <2>2, <2>3, <2>4 DEF Messages
<1>5. ASSUME NEW b \in Drivers, LoopEnds(b) PROVE TeleInv' BY <1>5 DEF LoopEnds
<1>6. ASSUME NEW b \in Drivers, Drive(b) PROVE TeleInv' BY <1>6 DEF Drive
<1>7. ASSUME NEW b \in Drivers, Say(b) PROVE TeleInv'
  <2>1. PICK m \in Messages : link' = [link EXCEPT ![b].sent = Append(link[b].sent, m)] BY <1>7 DEF Say
  <2>2. link[b].sent \in Seq(Messages) /\ Len(link[b].sent) < MaxMessages BY <1>7 DEF Say
  <2> PICK more : more = Append(link[b].sent, m) OBVIOUS
  <2>3. more \in Seq(Messages) /\ Len(more) <= MaxMessages BY <2>2, TelepresenceAssumption
  <2>4. link' \in [Drivers -> [state : {"open", "closed", "lost"}, sent : Seq(Messages)]]
        /\ \A d \in Drivers : Len(link'[d].sent) <= MaxMessages
    BY <2>1, <2>3
  <2>5. UNCHANGED <<motors, wsHandler, server>> BY <1>7 DEF Say
  <2>6. QED BY <2>4, <2>5
<1>8. ASSUME NEW b \in Drivers, Hangup(b) PROVE TeleInv'
  <2>1. PICK how \in {"closed", "lost"} : link' = [link EXCEPT ![b].state = how] BY <1>8 DEF Hangup
  <2>2. link' \in [Drivers -> [state : {"open", "closed", "lost"}, sent : Seq(Messages)]]
        /\ \A d \in Drivers : Len(link'[d].sent) <= MaxMessages
    BY <2>1
  <2>3. UNCHANGED <<motors, wsHandler, server>> BY <1>8 DEF Hangup
  <2>4. QED BY <2>2, <2>3
<1>9. QED BY <1>1, <1>2, <1>3, <1>4, <1>5, <1>6, <1>7, <1>8 DEF TeleNext, TeleStep

-----------------------------------------------------------------------------
(* The capture service.                                                    *)

\* A sequence with one element more.
LEMMA OneMore ==
  ASSUME NEW S, NEW s \in Seq(S), NEW x \in S
  PROVE  /\ Append(s, x) \in Seq(S) /\ Append(s, x) # <<>> /\ Len(Append(s, x)) = Len(s) + 1
         /\ \A i \in 1..Len(s) : Append(s, x)[i] = s[i]
         /\ Append(s, x)[Len(s) + 1] = x
OBVIOUS

\* A sequence without its first element.
LEMMA OneLess ==
  ASSUME NEW S, NEW s \in Seq(S), s # <<>>
  PROVE  /\ Head(s) = s[1] /\ Head(s) \in S /\ Tail(s) \in Seq(S) /\ Len(Tail(s)) = Len(s) - 1
         /\ \A i \in 1..Len(s) - 1 : Tail(s)[i] = s[i + 1]
OBVIOUS

ViewerPcs == {"none", "loop", "tail", "ended", "raised", "cancelled"}
ControlPcs == {"none", "loop", "ended", "cancelled"}
ViewerRecords == [pc : ViewerPcs, frame : Nat, shown : Seq(Nat), page : {"none", "open", "gone"}]
ControlRecords == [pc : ControlPcs, asked : Seq(Nat), saved : Seq(Nat \X Nat)]

\* The conditions of CaptureInv on a handler w that sends pictures and one that saves
\* them, when the camera has given n.
SendsWell(w, n) ==
  /\ w \in ViewerRecords /\ w.frame <= n
  /\ w.shown # <<>> => w.shown[Len(w.shown)] <= w.frame
  /\ \A i \in 2..Len(w.shown) : w.shown[i - 1] < w.shown[i]
SavesWell(w, n) ==
  /\ w \in ControlRecords
  /\ \A i \in 1..Len(w.asked) : w.asked[i] <= n
  /\ \A i \in 1..Len(w.saved) : w.saved[i][1] <= w.saved[i][2]
CaptureParts ==
  /\ app \in [keepAlive : BOOLEAN, lastFrame : 0..MaxFrames, run : {"runs", "ends", "cleanup", "over"}]
  /\ viewer = [v \in Viewers |-> viewer[v]] /\ control = [v \in Viewers |-> control[v]]
  /\ \A v \in Viewers : SendsWell(viewer[v], app.lastFrame) /\ SavesWell(control[v], app.lastFrame)

\* CaptureInv in terms of the two, before a step and after it.
LEMMA CaptureTyped == (CaptureInv <=> CaptureParts) /\ (CaptureInv' <=> CaptureParts')
<1>1. ASSUME NEW w \in ViewerRecords
      PROVE  (IF w.shown = <<>> THEN 0 ELSE w.shown[Len(w.shown)]) <= w.frame
               <=> (w.shown # <<>> => w.shown[Len(w.shown)] <= w.frame)
  BY DEF ViewerRecords
<1>2. CaptureInv <=> CaptureParts
  BY <1>1 DEF CaptureInv, CaptureParts, SendsWell, SavesWell, LastShown, ViewerRecords, ControlRecords,
              ViewerPcs, ControlPcs
<1>3. CaptureInv' <=> CaptureParts'
  BY <1>1 DEF CaptureInv, CaptureParts, SendsWell, SavesWell, LastShown, ViewerRecords, ControlRecords,
              ViewerPcs, ControlPcs
<1>4. QED BY <1>2, <1>3

\* More pictures of the camera disturb no handler.
LEMMA LaterFrames ==
  ASSUME NEW m \in Nat, NEW n \in Nat, m <= n, NEW w
  PROVE  (SendsWell(w, m) => SendsWell(w, n)) /\ (SavesWell(w, m) => SavesWell(w, n))
<1>1. SendsWell(w, m) => SendsWell(w, n) BY DEF SendsWell, ViewerRecords
<1>2. ASSUME SavesWell(w, m), NEW i \in 1..Len(w.asked) PROVE w.asked[i] <= n
  <2>1. w.asked \in Seq(Nat) BY <1>2 DEF SavesWell, ControlRecords
  <2>2. w.asked[i] \in Nat /\ w.asked[i] <= m BY <1>2, <2>1 DEF SavesWell
  <2>3. QED BY <2>2
<1>3. QED BY <1>1, <1>2 DEF SavesWell

\* A handler that only goes on, or whose browser leaves, keeps what it has sent.
LEMMA SenderMoves ==
  ASSUME NEW n \in Nat, NEW w, SendsWell(w, n), NEW g \in ViewerRecords, g.frame = w.frame, g.shown = w.shown
  PROVE  SendsWell(g, n)
BY DEF SendsWell

\* A picture that is sent is the last of the camera, and later than those before it.
LEMMA SenderSends ==
  ASSUME NEW n \in Nat, NEW w, SendsWell(w, n), n # w.frame, NEW g \in ViewerRecords, g.frame = n,
         g.shown = w.shown \/ g.shown = Append(w.shown, n)
  PROVE  SendsWell(g, n)
<1> PICK s, m, f : s = w.shown /\ m = Len(s) /\ f = w.frame OBVIOUS
<1>1. f \in Nat /\ f < n /\ s \in Seq(Nat) BY DEF SendsWell, ViewerRecords
<1>2. (s # <<>> => s[m] <= f) /\ (\A i \in 2..m : s[i - 1] < s[i]) BY DEF SendsWell
<1>3. m \in Nat /\ (s = <<>> <=> m = 0) /\ \A i \in 1..m : s[i] \in Nat BY <1>1
<1>4. m # 0 => s[m] \in Nat /\ s[m] < n
  <2>1. SUFFICES ASSUME m # 0 PROVE s[m] \in Nat /\ s[m] < n OBVIOUS
  <2>2. m \in 1..m BY <2>1, <1>3
  <2>3. s[m] \in Nat /\ s[m] <= f BY <2>1, <2>2, <1>2, <1>3
  <2>4. QED BY <2>3, <1>1
<1>5. CASE g.shown = s
  <2>1. s # <<>> => s[m] <= n BY <1>3, <1>4
  <2>2. QED BY <2>1, <1>2, <1>5 DEF SendsWell
<1>6. CASE g.shown = Append(s, n)
  <2> PICK more : more = Append(s, n) OBVIOUS
  <2>1. Len(more) = m + 1 /\ more # <<>> /\ (\A i \in 1..m : more[i] = s[i]) /\ more[m + 1] = n
    BY <1>1, OneMore
  <2>2. ASSUME NEW i \in 2..(m + 1) PROVE more[i - 1] < more[i]
    <3>1. CASE i \in 2..m
      <4>1. i - 1 \in 1..m /\ i \in 1..m BY <3>1, <1>3
      <4>2. QED BY <4>1, <3>1, <2>1, <1>2
    <3>2. CASE i = m + 1
      <4>1. m \in 1..m /\ i - 1 = m /\ m # 0 BY <3>2, <1>3
      <4>2. more[i - 1] = s[m] /\ more[i] = n BY <4>1, <3>2, <2>1
      <4>3. QED BY <4>1, <4>2, <1>4
    <3>3. QED BY <3>1, <3>2, <1>3
  <2>3. more[Len(more)] <= n BY <2>1
  <2>4. g.frame <= n /\ Len(more) = m + 1 BY <2>1
  <2>5. QED BY <1>6, <2>1, <2>2, <2>3, <2>4 DEF SendsWell
<1>7. QED BY <1>5, <1>6

\* A handler of requests that only goes on, or gives them up, keeps what it has.
LEMMA SaverMoves ==
  ASSUME NEW n \in Nat, NEW w, SavesWell(w, n), NEW g \in ControlRecords,
         g.asked = w.asked \/ g.asked = <<>>, g.saved = w.saved
  PROVE  SavesWell(g, n)
BY DEF SavesWell

\* A request tells of a picture that the camera has given.
LEMMA SaverIsAsked ==
  ASSUME NEW n \in Nat, NEW w, SavesWell(w, n), NEW x \in Nat, x <= n, NEW g \in ControlRecords,
         g.asked = Append(w.asked, x), g.saved = w.saved
  PROVE  SavesWell(g, n)
<1>1. w \in ControlRecords /\ w.asked \in Seq(Nat) BY DEF SavesWell, ControlRecords
<1> PICK s, m, more : s = w.asked /\ m = Len(s) /\ more = Append(s, x) OBVIOUS
<1>2. /\ more \in Seq(Nat) /\ Len(more) = m + 1 /\ m \in Nat
      /\ (\A i \in 1..m : more[i] = s[i]) /\ more[m + 1] = x
  BY <1>1, OneMore
<1>3. \A i \in 1..m : s[i] <= n BY DEF SavesWell
<1>4. ASSUME NEW i \in 1..(m + 1) PROVE more[i] <= n
  <2>1. i \in 1..m \/ i = m + 1 BY <1>2
  <2>2. QED BY <2>1, <1>2, <1>3
<1>5. QED BY <1>2, <1>4 DEF SavesWell

\* What is saved for the first request is not older than it.
LEMMA SaverSaves ==
  ASSUME NEW n \in Nat, NEW w, SavesWell(w, n), w.asked # <<>>, NEW y \in Nat \X Nat, y[1] = Head(w.asked), y[2] = n,
         NEW g \in ControlRecords, g.asked = Tail(w.asked), g.saved = Append(w.saved, y)
  PROVE  SavesWell(g, n)
<1>1. w \in ControlRecords /\ w.asked \in Seq(Nat) /\ w.saved \in Seq(Nat \X Nat) BY DEF SavesWell, ControlRecords
<1> PICK s, m, rest, x : s = w.asked /\ m = Len(s) /\ rest = Tail(s) /\ x = Head(s) OBVIOUS
<1>2. /\ m \in Nat /\ m # 0 /\ x = s[1] /\ x \in Nat /\ rest \in Seq(Nat) /\ Len(rest) = m - 1
      /\ \A i \in 1..m - 1 : rest[i] = s[i + 1]
  BY <1>1, OneLess
<1>3. \A i \in 1..m : s[i] <= n BY DEF SavesWell
<1>4. x <= n
  <2>1. 1 \in 1..m BY <1>2
  <2>2. QED BY <2>1, <1>2, <1>3
<1>5. ASSUME NEW i \in 1..(m - 1) PROVE rest[i] <= n
  <2>1. i + 1 \in 1..m BY <1>2
  <2>2. QED BY <2>1, <1>2, <1>3
<1>6. y \in Nat \X Nat /\ y[1] <= y[2] BY <1>2, <1>4
<1> PICK t, k, more : t = w.saved /\ k = Len(t) /\ more = Append(t, y) OBVIOUS
<1>7. /\ more \in Seq(Nat \X Nat) /\ Len(more) = k + 1 /\ k \in Nat
      /\ (\A i \in 1..k : more[i] = t[i]) /\ more[k + 1] = y
  BY <1>1, <1>6, OneMore
<1>8. \A i \in 1..k : t[i][1] <= t[i][2] BY DEF SavesWell
<1>9. ASSUME NEW i \in 1..(k + 1) PROVE more[i][1] <= more[i][2]
  <2>1. i \in 1..k \/ i = k + 1 BY <1>7, SMTT(20)
  <2>2. QED BY <2>1, <1>6, <1>7, <1>8
<1>10. QED BY <1>2, <1>5, <1>7, <1>9, ZenonT(30) DEF SavesWell

\* The invariant of the capture service holds at the start.
LEMMA CaptureStart == CaptureInit => CaptureInv
<1> SUFFICES ASSUME CaptureInit PROVE CaptureInv OBVIOUS
<1>1. \A v \in Viewers : SendsWell(viewer[v], 0) /\ SavesWell(control[v], 0)
  BY DEF CaptureInit, SendsWell, SavesWell, ViewerRecords, ControlRecords, ViewerPcs, ControlPcs
<1>2. app \in [keepAlive : BOOLEAN, lastFrame : 0..MaxFrames, run : {"runs", "ends", "cleanup", "over"}]
      /\ app.lastFrame = 0
  BY CaptureAssumption DEF CaptureInit
<1>3. viewer = [v \in Viewers |-> viewer[v]] /\ control = [v \in Viewers |-> control[v]]
  BY DEF CaptureInit
<1>4. QED BY <1>1, <1>2, <1>3, CaptureTyped DEF CaptureParts

\* One viewer's handlers change, to ones that are well.
LEMMA OneViewer ==
  ASSUME CaptureInv, NEW v \in Viewers, UNCHANGED app,
         viewer' = [u \in Viewers |-> viewer'[u]], control' = [u \in Viewers |-> control'[u]],
         \A u \in Viewers \ {v} : viewer'[u] = viewer[u] /\ control'[u] = control[u],
         SendsWell(viewer'[v], app.lastFrame), SavesWell(control'[v], app.lastFrame)
  PROVE  CaptureInv'
<1>1. CaptureParts BY CaptureTyped
<1>2. CaptureParts' BY <1>1 DEF CaptureParts
<1>3. QED BY <1>2, CaptureTyped

\* Every step of the capture service keeps its invariant.
LEMMA CaptureKept == CaptureInv /\ (CaptureNext \/ UNCHANGED captureVars) => CaptureInv'
<1> SUFFICES ASSUME CaptureInv, CaptureNext \/ UNCHANGED captureVars PROVE CaptureInv' OBVIOUS
<1>1. CaptureParts /\ app.lastFrame \in Nat BY CaptureTyped, CaptureAssumption DEF CaptureParts
<1>2. viewer \in [Viewers -> ViewerRecords] /\ control \in [Viewers -> ControlRecords]
  BY <1>1 DEF CaptureParts, SendsWell, SavesWell
<1>3. \A v \in Viewers : SendsWell(viewer[v], app.lastFrame) /\ SavesWell(control[v], app.lastFrame)
  BY <1>1 DEF CaptureParts
<1>4. CASE UNCHANGED captureVars
  BY <1>4 DEF captureVars, CaptureInv, LastShown
<1>5. CASE CaptureImage
  <2>1. app' = [app EXCEPT !.lastFrame = app.lastFrame + 1] /\ app.lastFrame < MaxFrames
        /\ UNCHANGED <<viewer, control>>
    BY <1>5 DEF CaptureImage
  <2>2. app' \in [keepAlive : BOOLEAN, lastFrame : 0..MaxFrames, run : {"runs", "ends", "cleanup", "over"}]
        /\ app'.lastFrame = app.lastFrame + 1
    BY <1>1, <2>1, CaptureAssumption DEF CaptureParts
  <2>3. \A v \in Viewers : SendsWell(viewer'[v], app'.lastFrame) /\ SavesWell(control'[v], app'.lastFrame)
    <3> PICK m, n : m = app.lastFrame /\ n = app'.lastFrame OBVIOUS
    <3>1. m \in Nat /\ n \in Nat /\ m <= n BY <1>1, <2>2
    <3>2. \A v \in Viewers : SendsWell(viewer[v], m) /\ SavesWell(control[v], m) BY <1>3
    <3>3. \A v \in Viewers : SendsWell(viewer[v], n) /\ SavesWell(control[v], n) BY <3>1, <3>2, LaterFrames
    <3>4. QED BY <2>1, <3>3
  <2>4. CaptureParts' BY <1>1, <2>1, <2>2, <2>3 DEF CaptureParts
  <2>5. QED BY <2>4, CaptureTyped
<1>6. CASE StopCapture \/ EncerraTarefas
  <2>1. /\ app' \in [keepAlive : BOOLEAN, lastFrame : 0..MaxFrames, run : {"runs", "ends", "cleanup", "over"}]
        /\ app'.lastFrame = app.lastFrame /\ UNCHANGED <<viewer, control>>
    BY <1>1, <1>6 DEF CaptureParts, StopCapture, EncerraTarefas
  <2>2. CaptureParts' BY <1>1, <2>1 DEF CaptureParts
  <2>3. QED BY <2>2, CaptureTyped
<1>7. CASE CancelHandlers
  <2>1. /\ app' \in [keepAlive : BOOLEAN, lastFrame : 0..MaxFrames, run : {"runs", "ends", "cleanup", "over"}]
        /\ app'.lastFrame = app.lastFrame
    BY <1>1, <1>7 DEF CaptureParts, CancelHandlers
  <2>2. viewer' = [v \in Viewers |-> viewer'[v]] /\ control' = [v \in Viewers |-> control'[v]]
    BY <1>7 DEF CancelHandlers
  <2>3. ASSUME NEW v \in Viewers PROVE SendsWell(viewer'[v], app.lastFrame)
    <3>1. /\ viewer'[v] \in ViewerRecords
          /\ viewer'[v].frame = viewer[v].frame /\ viewer'[v].shown = viewer[v].shown
      BY <1>2, <1>7 DEF CancelHandlers, ViewerRecords, ViewerPcs
    <3>2. QED BY <1>1, <1>3, <3>1, SenderMoves
  <2>4. ASSUME NEW v \in Viewers PROVE SavesWell(control'[v], app.lastFrame)
    <3>1. /\ control'[v] \in ControlRecords
          /\ control'[v].asked = control[v].asked /\ control'[v].saved = control[v].saved
      BY <1>2, <1>7 DEF CancelHandlers, ControlRecords, ControlPcs
    <3>2. QED BY <1>1, <1>3, <3>1, SaverMoves
  <2>5. CaptureParts' BY <2>1, <2>2, <2>3, <2>4 DEF CaptureParts
  <2>6. QED BY <2>5, CaptureTyped
<1>8. ASSUME NEW v \in Viewers, View(v) \/ GoAway(v) \/ SendTail(v) PROVE CaptureInv'
  <2>1. /\ viewer' \in [Viewers -> ViewerRecords] /\ viewer'[v].frame = viewer[v].frame
        /\ viewer'[v].shown = viewer[v].shown /\ \A u \in Viewers \ {v} : viewer'[u] = viewer[u]
    <3>1. CASE View(v) BY <1>2, <3>1 DEF View, ViewerRecords, ViewerPcs
    <3>2. CASE GoAway(v) BY <1>2, <3>2 DEF GoAway, ViewerRecords
    <3>3. CASE SendTail(v)
      <4> PICK pc : pc = IF viewer[v].page = "gone" THEN "raised" ELSE "loop" OBVIOUS
      <4>1. viewer' = [viewer EXCEPT ![v].pc = pc] /\ pc \in ViewerPcs BY <3>3 DEF SendTail, ViewerPcs
      <4>2. QED BY <1>2, <4>1 DEF ViewerRecords
    <3>4. QED BY <1>8, <3>1, <3>2, <3>3
  <2>2. /\ control' \in [Viewers -> ControlRecords] /\ control'[v].asked = control[v].asked
        /\ control'[v].saved = control[v].saved /\ \A u \in Viewers \ {v} : control'[u] = control[u]
    <3>1. CASE View(v) BY <1>2, <3>1 DEF View, ControlRecords, ControlPcs
    <3>2. CASE GoAway(v) \/ SendTail(v) BY <1>2, <3>2 DEF GoAway, SendTail
    <3>3. QED BY <1>8, <3>1, <3>2
  <2>3. UNCHANGED app BY <1>8 DEF View, GoAway, SendTail
  <2>4. SendsWell(viewer'[v], app.lastFrame) BY <1>1, <1>3, <2>1, SenderMoves
  <2>5. SavesWell(control'[v], app.lastFrame) BY <1>1, <1>3, <2>2, SaverMoves
  <2>6. QED BY <2>1, <2>2, <2>3, <2>4, <2>5, OneViewer
<1>9. ASSUME NEW v \in Viewers, SendPart(v) PROVE CaptureInv'
  <2> PICK n, more : n = app.lastFrame /\ more = Append(viewer[v].shown, n) OBVIOUS
  <2>1. n \in Nat /\ more \in Seq(Nat) BY <1>1, <1>2 DEF ViewerRecords
  <2>2. /\ n # viewer[v].frame /\ UNCHANGED <<app, control>>
        /\ \/ viewer' = [viewer EXCEPT ![v].pc = "tail", ![v].frame = n, ![v].shown = more]
           \/ viewer' = [viewer EXCEPT ![v].pc = "ended", ![v].frame = n]
    BY <1>9 DEF SendPart
  <2>3. /\ viewer' \in [Viewers -> ViewerRecords] /\ viewer'[v].frame = n
        /\ viewer'[v].shown = viewer[v].shown \/ viewer'[v].shown = more
        /\ \A u \in Viewers \ {v} : viewer'[u] = viewer[u]
    BY <1>2, <2>1, <2>2 DEF ViewerRecords, ViewerPcs
  <2>4. SendsWell(viewer'[v], n) BY <1>3, <2>1, <2>2, <2>3, SenderSends
  <2>5. QED BY <1>2, <1>3, <2>2, <2>3, <2>4, OneViewer
<1>10. ASSUME NEW v \in Viewers, Ask(v) PROVE CaptureInv'
  <2> PICK x, more : x = LastShown(v) /\ more = Append(control[v].asked, x) OBVIOUS
  <2>1. control' = [control EXCEPT ![v].asked = more] /\ UNCHANGED <<app, viewer>> BY <1>10 DEF Ask
  <2>2. x \in Nat /\ x <= app.lastFrame
    <3>1. viewer[v] \in ViewerRecords /\ LastShown(v) <= viewer[v].frame /\ viewer[v].frame <= app.lastFrame
      BY <1>2 DEF CaptureInv
    <3>2. LastShown(v) \in Nat BY <3>1 DEF LastShown, ViewerRecords
    <3>3. viewer[v].frame \in Nat BY <3>1 DEF ViewerRecords
    <3>4. QED BY <1>1, <3>1, <3>2, <3>3
  <2>3. more \in Seq(Nat) BY <1>2, <2>2 DEF ControlRecords
  <2>4. /\ control' \in [Viewers -> ControlRecords] /\ control'[v].asked = more
        /\ control'[v].saved = control[v].saved /\ \A u \in Viewers \ {v} : control'[u] = control[u]
    BY <1>2, <2>1, <2>3 DEF ControlRecords
  <2>5. SavesWell(control'[v], app.lastFrame) BY <1>1, <1>3, <2>2, <2>4, SaverIsAsked
  <2>6. QED BY <1>2, <1>3, <2>1, <2>4, <2>5, OneViewer
<1>11. ASSUME NEW v \in Viewers, Save(v) PROVE CaptureInv'
  <2> PICK none : none = <<>> OBVIOUS
  <2> PICK n : n = app.lastFrame OBVIOUS
  <2> PICK y : y = <<Head(control[v].asked), n>> OBVIOUS
  <2> PICK rest, more : rest = Tail(control[v].asked) /\ more = Append(control[v].saved, y) OBVIOUS
  <2>1. /\ control[v].asked # <<>> /\ UNCHANGED <<app, viewer>>
        /\ \/ control' = [control EXCEPT ![v] = [control[v] EXCEPT !.pc = "ended", !.asked = none]]
           \/ control' = [control EXCEPT ![v] = [control[v] EXCEPT !.asked = rest, !.saved = more]]
    <3>1. /\ control[v].asked # <<>> /\ UNCHANGED <<app, viewer>>
          /\ control' = [control EXCEPT ![v] =
               IF n = 0 THEN [control[v] EXCEPT !.pc = "ended", !.asked = none]
               ELSE [control[v] EXCEPT !.asked = rest, !.saved = more]]
      BY <1>11, <1>2 DEF Save
    <3>2. CASE n = 0 BY <3>1, <3>2
    <3>3. CASE n # 0 BY <3>1, <3>3
    <3>4. QED BY <3>2, <3>3
  <2>2. y \in Nat \X Nat /\ y[1] = Head(control[v].asked) /\ y[2] = n
    <3>1. control[v].asked \in Seq(Nat) BY <1>2 DEF ControlRecords
    <3>2. Head(control[v].asked) \in Nat BY <2>1, <3>1, OneLess
    <3>3. QED BY <1>1, <3>2
  <2>3. rest \in Seq(Nat) /\ more \in Seq(Nat \X Nat)
    <3>1. control[v].asked \in Seq(Nat) /\ control[v].saved \in Seq(Nat \X Nat) BY <1>2 DEF ControlRecords
    <3>2. Head(control[v].asked) \in Nat /\ rest \in Seq(Nat) BY <2>1, <3>1, OneLess
    <3>3. more \in Seq(Nat \X Nat) BY <2>2, <3>1, OneMore
    <3>4. QED BY <3>2, <3>3
  <2>4. CASE control' = [control EXCEPT ![v] = [control[v] EXCEPT !.pc = "ended", !.asked = none]]
    <3>1. /\ control' \in [Viewers -> ControlRecords] /\ control'[v].asked = none
          /\ control'[v].saved = control[v].saved /\ \A u \in Viewers \ {v} : control'[u] = control[u]
      <4>1. none \in Seq(Nat) OBVIOUS
      <4>2. QED BY <1>2, <2>4, <4>1 DEF ControlRecords, ControlPcs
    <3>2. SavesWell(control'[v], app.lastFrame) BY <1>1, <1>3, <3>1, SaverMoves
    <3>3. QED BY <1>2, <1>3, <2>1, <3>1, <3>2, OneViewer
  <2>5. CASE control' = [control EXCEPT ![v] = [control[v] EXCEPT !.asked = rest, !.saved = more]]
    <3>1. /\ control' \in [Viewers -> ControlRecords] /\ control'[v].asked = rest
          /\ control'[v].saved = more /\ \A u \in Viewers \ {v} : control'[u] = control[u]
      BY <1>2, <2>3, <2>5 DEF ControlRecords
    <3> PICK w, g : w = control[v] /\ g = control'[v] OBVIOUS
    <3>2. n \in Nat /\ SavesWell(w, n) /\ w.asked # <<>> /\ g \in ControlRecords
      BY <1>1, <1>3, <2>1, <3>1
    <3>3. g.asked = Tail(w.asked) /\ g.saved = Append(w.saved, y) BY <3>1
    <3>4. SavesWell(g, n) BY <2>2, <3>2, <3>3, SaverSaves
    <3>5. QED BY <1>2, <1>3, <2>1, <3>1, <3>4, OneViewer
  <2>6. QED BY <2>1, <2>4, <2>5
<1>12. ASSUME NEW v \in Viewers, ControlEnds(v) PROVE CaptureInv'
  <2>1. control' = [control EXCEPT ![v].pc = "ended"] /\ UNCHANGED <<app, viewer>> BY <1>12 DEF ControlEnds
  <2>2. /\ control' \in [Viewers -> ControlRecords] /\ control'[v].asked = control[v].asked
        /\ control'[v].saved = control[v].saved /\ \A u \in Viewers \ {v} : control'[u] = control[u]
    BY <1>2, <2>1 DEF ControlRecords, ControlPcs
  <2>3. SavesWell(control'[v], app.lastFrame) BY <1>1, <1>3, <2>2, SaverMoves
  <2>4. QED BY <1>2, <1>3, <2>1, <2>2, <2>3, OneViewer
<1>13. QED BY <1>4, <1>5, <1>6, <1>7, <1>8, <1>9, <1>10, <1>11, <1>12 DEF CaptureNext

-----------------------------------------------------------------------------
(* The streams of the IMU service.                                         *)

\* One sequence after another.
LEMMA Joined ==
  ASSUME NEW S, NEW s \in Seq(S), NEW t \in Seq(S)
  PROVE  /\ s \o t \in Seq(S) /\ Len(s \o t) = Len(s) + Len(t)
         /\ \A i \in 1..Len(s) : (s \o t)[i] = s[i]
         /\ \A i \in 1..Len(t) : (s \o t)[Len(s) + i] = t[i]
<1>1. s \o t \in Seq(S) /\ Len(s \o t) = Len(s) + Len(t) BY ConcatProperties
<1> PICK u, m, n : u = s \o t /\ m = Len(s) /\ n = Len(t) OBVIOUS
<1>2. m \in Nat /\ n \in Nat OBVIOUS
<1>3. \A i \in 1..m + n : u[i] = IF i <= m THEN s[i] ELSE t[i - m] BY ConcatProperties, <1>2
<1>4. \A i \in 1..m : i \in 1..m + n /\ i <= m BY <1>2
<1>5. \A i \in 1..n : m + i \in 1..m + n /\ ~(m + i <= m) /\ (m + i) - m = i BY <1>2
<1>6. \A i \in 1..n : u[m + i] = t[i] BY <1>3, <1>5
<1>7. \A i \in 1..m : u[i] = s[i] BY <1>3, <1>4
<1>8. QED BY <1>1, <1>6, <1>7

\* What is read leaves the socket and stays in the stream.
LEMMA ReadIsKept ==
  ASSUME NEW S, NEW s \in Seq(S), NEW t \in Seq(S)
  PROVE  (s \o t) \o <<>> = s \o t
BY ConcatProperties, ConcatEmptySeq

\* A half of a packet, by its parts.
LEMMA HalfParts ==
  /\ \A x \in Halves : x[1] \in 1..MaxSamples /\ x[2] \in {1, 2}
  /\ \A x \in Halves, y \in Halves : x[1] = y[1] /\ x[2] = y[2] => x = y
BY DEF Halves

\* How one half follows another, by their parts: i is the place of the second.
Continues(x, y, i) ==
  \/ x[2] = 1 /\ y[1] = x[1] /\ y[2] = 2
  \/ y[1] = x[1] + 1 /\ y[2] = 1 /\ (x[2] = 2 \/ i > SocketRoom)

\* Follows says the same.
LEMMA FollowsParts ==
  ASSUME NEW s \in Seq(Halves)
  PROVE  \A i \in 2..Len(s) : Follows(s, i) <=> Continues(s[i - 1], s[i], i)
<1> SUFFICES ASSUME NEW i \in 2..Len(s) PROVE Follows(s, i) <=> Continues(s[i - 1], s[i], i) OBVIOUS
<1> PICK x, y : x = s[i - 1] /\ y = s[i] OBVIOUS
<1>1. i \in 1..Len(s) /\ i - 1 \in 1..Len(s) OBVIOUS
<1>2. x \in Halves /\ y \in Halves BY <1>1
<1>3. (y = <<x[1], 2>> <=> y[1] = x[1] /\ y[2] = 2) /\ (y = <<x[1] + 1, 1>> <=> y[1] = x[1] + 1 /\ y[2] = 1)
  BY <1>2 DEF Halves
<1>4. QED BY <1>3 DEF Follows, Continues

\* A packet of sample n, whole or as much as had room, continues a stream that ends
\* with the sample before.
LEMMA PacketContinues ==
  ASSUME NEW s \in Seq(Halves), NEW t \in Seq(Halves), NEW a \in 0..MaxSamples, NEW n \in 1..MaxSamples,
         Whole(s, a), Reaches(s, a, n - 1), NEW m, m = Len(s), NEW k \in {1, 2}, Len(t) = m + k,
         \A i \in 1..m : t[i] = s[i],
         t[m + 1][1] = n, t[m + 1][2] = 1,
         k = 2 => t[m + 2][1] = n /\ t[m + 2][2] = 2,
         k = 1 => m + 1 >= SocketRoom
  PROVE  Whole(t, a) /\ Reaches(t, a, n)
<1>1. /\ m \in Nat /\ (s = <<>> <=> m = 0) /\ t # <<>> /\ Len(t) = m + k /\ MaxSamples \in Nat
      /\ SocketRoom \in Nat /\ a \in Nat /\ n \in Nat
  BY ImuAssumption
<1>2. /\ \A i \in 1..m : t[i] = s[i] /\ s[i] \in Halves
      /\ \A i \in 1..m + k : t[i] \in Halves
  BY <1>1
<1>3. t[1] = <<a + 1, 1>>
  <2>1. CASE m = 0
    <3>1. a = n - 1 BY <2>1, <1>1 DEF Reaches
    <3>2. t[1][1] = a + 1 /\ t[1][2] = 1 /\ t[1] \in Halves
      <4>1. m + 1 = 1 /\ 1 \in 1..m + k BY <2>1
      <4>2. n = a + 1 BY <3>1, <1>1
      <4>3. QED BY <4>1, <4>2, <1>2
    <3>3. QED BY <3>2, SMTT(20) DEF Halves
  <2>2. CASE m # 0
    <3>1. 1 \in 1..m /\ s # <<>> BY <2>2, <1>1
    <3>2. s[1] = <<a + 1, 1>> BY <3>1 DEF Whole
    <3>3. QED BY <3>1, <3>2, <1>2
  <2>3. QED BY <2>1, <2>2
<1>4. t[m + k][1] = n /\ (t[m + k][2] = 1 => m + k >= SocketRoom)
  <2>1. CASE k = 1 BY <2>1
  <2>2. CASE k = 2
    <3>1. t[m + k][2] = 2 /\ t[m + k][1] = n BY <2>2
    <3>2. QED BY <3>1
  <2>3. QED BY <2>1, <2>2
<1>5. ASSUME NEW i \in 2..(m + k) PROVE Continues(t[i - 1], t[i], i)
  <2> PICK x, y : x = t[i - 1] /\ y = t[i] OBVIOUS
  <2>1. i \in 2..m \/ i = m + 1 \/ (i = m + 2 /\ k = 2) BY <1>1
  <2>2. Continues(x, y, i) <=>
           \/ x[2] = 1 /\ y[1] = x[1] /\ y[2] = 2
           \/ y[1] = x[1] + 1 /\ y[2] = 1 /\ (x[2] = 2 \/ i > SocketRoom)
    BY DEF Continues
  <2>3. CASE i \in 2..m
    <3>1. i \in 1..m /\ i - 1 \in 1..m BY <2>3, <1>1
    <3>2. x = s[i - 1] /\ y = s[i] BY <3>1, <1>2
    <3>3. Follows(s, i) /\ i \in 2..Len(s) BY <2>3 DEF Whole
    <3>4. QED BY <3>2, <3>3, FollowsParts
  <2>4. CASE i = m + 1
    <3>1. m # 0 /\ m \in 1..m /\ i - 1 = m /\ s # <<>> BY <2>4, <1>1
    <3>2. x = s[m] /\ x \in Halves /\ y[1] = n /\ y[2] = 1 BY <2>4, <3>1, <1>2
    <3>3. x[1] = n - 1 BY <3>1, <3>2 DEF Reaches
    <3>4. y[1] = x[1] + 1 BY <3>2, <3>3, <1>1
    <3>5. x[2] = 2 \/ i > SocketRoom
      <4>1. x[2] \in {1, 2} BY <3>2, HalfParts
      <4>2. x[2] = 1 => m >= SocketRoom BY <3>1, <3>2 DEF Whole
      <4>3. m >= SocketRoom => i > SocketRoom BY <2>4, <1>1
      <4>4. QED BY <4>1, <4>2, <4>3
    <3>6. QED BY <2>2, <3>2, <3>4, <3>5
  <2>5. CASE i = m + 2 /\ k = 2
    <3>1. i - 1 = m + 1 BY <2>5, <1>1
    <3>2. x[1] = n /\ x[2] = 1 /\ y[1] = n /\ y[2] = 2 BY <2>5, <3>1
    <3>3. x[2] = 1 /\ y[1] = x[1] /\ y[2] = 2 BY <3>2
    <3>4. QED BY <2>2, <3>3
  <2>6. QED BY <2>1, <2>3, <2>4, <2>5
<1>6. a <= n
  <2>1. a <= n - 1 BY DEF Reaches
  <2>2. QED BY <2>1, <1>1
<1>7. Whole(t, a)
  <2>1. \A i \in 2..Len(t) : Follows(t, i) <=> Continues(t[i - 1], t[i], i) BY FollowsParts
  <2>2. \A i \in 2..Len(t) : Follows(t, i) BY <2>1, <1>1, <1>5
  <2>3. QED BY <2>2, <1>1, <1>3, <1>4 DEF Whole
<1>8. Reaches(t, a, n) BY <1>1, <1>4, <1>6 DEF Reaches
<1>9. QED BY <1>7, <1>8

-----------------------------------------------------------------------------
(* The steps of the IMU service.                                           *)

\* The invariant of the IMU service holds at the start.
LEMMA ImuStart == ImuInit => ImuInv
<1> SUFFICES ASSUME ImuInit PROVE ImuInv OBVIOUS
<1> PICK none : none = <<>> OBVIOUS
<1>1. none \in Seq(Halves) /\ Len(none) = 0 /\ none \o none = none BY ConcatEmptySeq
<1>2. conn = [c \in ImuClients |-> [server |-> "none", peer |-> "none", held |-> none, got |-> none]]
  BY DEF ImuInit
<1>3. /\ conn \in [ImuClients -> Conns]
      /\ \A c \in ImuClients : /\ conn[c].server = "none" /\ conn[c].held = none /\ conn[c].got = none
  BY <1>1, <1>2 DEF Conns
<1>4. /\ imu \in ImuRecords /\ imu.pc = "start" /\ imu.left = {} /\ ~imu.newData
      /\ since \in [ImuClients -> 0..MaxSamples]
  BY ImuAssumption DEF ImuInit, ImuRecords, ImuPcs
<1>5. ImuTypes BY <1>1, <1>3, <1>4, ImuAssumption DEF ImuTypes
<1>6. ImuPlace BY <1>3, <1>4 DEF ImuPlace
<1>7. \A c \in ImuClients : Stream(c) = none BY <1>1, <1>3 DEF Stream
<1>8. StreamsInv BY <1>1, <1>3, <1>7 DEF StreamsInv, Whole
<1>9. ImuExplained BY <1>4 DEF ImuExplained
<1>10. QED BY <1>5, <1>6, <1>8, <1>9 DEF ImuInv

\* A step of the program that leaves the connections as they are.
Inner == Start \/ FindImu \/ LoopHead \/ Select \/ ReadBuff \/ EventsDone \/ SendsDone \/ SigHandler

\* What such a step does to the program.
LEMMA InnerDoes ==
  ASSUME ImuTypes, ImuPlace, Inner
  PROVE  /\ imu' \in ImuRecords /\ UNCHANGED <<conn, since>>
         /\ imu'.newData => imu'.sample > 0 /\ imu'.pc \in {"events", "raised", "exit"}
         /\ imu'.pc = "send" => imu'.sample > 0
         /\ imu'.pc = "events" /\ "imu" \in imu'.events => imu'.sample < MaxSamples /\ ~imu'.newData
         /\ \A c \in imu'.left : conn[c].server # "none" /\ (imu'.pc = "send" => conn[c].server = "open")
         /\ imu'.pc = "raised" => \/ imu'.events \cap {"imu", "socket"} # {}
                                  \/ imu.pc = "raised" /\ imu'.events = imu.events /\ imu'.left = imu.left
<1>1. imu \in ImuRecords /\ MaxSamples \in Nat BY ImuAssumption DEF ImuTypes
<1> USE DEF ImuRecords, ImuPcs, ImuGoes, ImuPlace
<1>2. CASE Start BY <1>1, <1>2 DEF Start
<1>3. CASE FindImu BY <1>1, <1>3 DEF FindImu
<1>4. CASE LoopHead BY <1>1, <1>4 DEF LoopHead
<1>5. CASE Select
  <2>1. PICK sampled \in {FALSE, imu.sample < MaxSamples} : imu' = [imu EXCEPT !.pc = "events", !.events = Ready(sampled)]
    BY <1>5 DEF Select
  <2>2. Ready(sampled) \subseteq {"socket", "imu"} \cup ImuClients /\ ("imu" \in Ready(sampled) => sampled)
    BY ImuAssumption DEF Ready, Connections
  <2>3. QED BY <1>1, <1>5, <2>1, <2>2 DEF Select
<1>6. CASE ReadBuff
  <2>1. imu.sample + 1 \in 0..MaxSamples /\ imu.sample + 1 > 0 /\ ~imu.newData BY <1>1, <1>6 DEF ReadBuff
  <2> PICK rest, n : rest = imu.events \ {"imu"} /\ n = imu.sample + 1 OBVIOUS
  <2>2. rest \subseteq {"socket", "imu"} \cup ImuClients /\ "imu" \notin rest BY <1>1
  <2>3. \/ imu' = [imu EXCEPT !.events = rest, !.sample = n, !.newData = TRUE]
        \/ imu' = [imu EXCEPT !.pc = "raised", !.events = {"imu"}, !.left = {}]
    BY <1>6 DEF ReadBuff, Raises
  <2>4. CASE imu' = [imu EXCEPT !.events = rest, !.sample = n, !.newData = TRUE]
    BY <1>1, <1>6, <2>1, <2>2, <2>4 DEF ReadBuff
  <2>5. CASE imu' = [imu EXCEPT !.pc = "raised", !.events = {"imu"}, !.left = {}]
    BY <1>1, <1>6, <2>1, <2>5 DEF ReadBuff
  <2>6. QED BY <2>3, <2>4, <2>5
<1>7. CASE EventsDone BY <1>1, <1>7 DEF EventsDone, Connections
<1>8. CASE SendsDone BY <1>1, <1>8 DEF SendsDone
<1>9. CASE SigHandler BY <1>1, <1>9 DEF SigHandler
<1>10. QED BY <1>2, <1>3, <1>4, <1>5, <1>6, <1>7, <1>8, <1>9 DEF Inner

\* Nor does it change what is due to a client whose connection is open.
LEMMA InnerDue ==
  ASSUME ImuTypes, ImuPlace, Inner, Serving'
  PROVE  Serving /\ \A c \in ImuClients : conn[c].server = "open" => Due(c)' = Due(c)
<1>1. imu \in ImuRecords /\ imu.sample \in Nat BY ImuAssumption DEF ImuTypes, ImuRecords
<1> USE DEF ImuRecords, ImuPcs, ImuGoes, ImuPlace, Serving, Due
<1>2. CASE Start \/ FindImu \/ LoopHead \/ SigHandler BY <1>1, <1>2 DEF Start, FindImu, LoopHead, SigHandler
<1>3. CASE Select
  <2>1. PICK sampled : imu' = [imu EXCEPT !.pc = "events", !.events = Ready(sampled)]
    BY <1>3 DEF Select
  <2> PICK e : e = Ready(sampled) OBVIOUS
  <2>2. imu' = [imu EXCEPT !.pc = "events", !.events = e] BY <2>1
  <2>3. QED BY <1>1, <1>3, <2>2 DEF Select
<1>4. CASE ReadBuff
  <2>1. ~imu.newData BY <1>4 DEF ReadBuff
  <2> PICK rest, n : rest = imu.events \ {"imu"} /\ n = imu.sample + 1 OBVIOUS
  <2>2. imu' = [imu EXCEPT !.events = rest, !.sample = n, !.newData = TRUE]
    BY <1>1, <1>4 DEF ReadBuff, Raises
  <2>3. n - 1 = imu.sample BY <1>1
  <2>4. imu'.newData /\ imu'.sample = n /\ imu'.pc = "events" /\ imu.pc = "events" BY <1>1, <1>4, <2>2 DEF ReadBuff
  <2>5. QED BY <2>1, <2>3, <2>4
<1>5. CASE EventsDone
  <2> PICK C : C = Connections OBVIOUS
  <2>1. \A c \in ImuClients : conn[c].server = "open" => c \in C BY DEF Connections
  <2>2. CASE imu.newData
    <3>1. imu' = [imu EXCEPT !.pc = "send", !.newData = FALSE, !.left = C] /\ imu.pc = "events"
      BY <1>5, <2>2 DEF EventsDone
    <3>2. imu'.pc = "send" /\ imu'.left = C /\ imu'.sample = imu.sample BY <1>1, <3>1
    <3>3. QED BY <2>1, <2>2, <3>1, <3>2
  <2>3. CASE ~imu.newData
    <3>1. imu' = [imu EXCEPT !.pc = "head"] /\ imu.pc = "events" BY <1>5, <2>3 DEF EventsDone
    <3>2. imu'.pc = "head" /\ imu'.newData = imu.newData /\ imu'.sample = imu.sample BY <1>1, <3>1
    <3>3. QED BY <2>3, <3>1, <3>2
  <2>4. QED BY <2>2, <2>3
<1>6. CASE SendsDone BY <1>1, <1>6 DEF SendsDone
<1>7. QED BY <1>2, <1>3, <1>4, <1>5, <1>6 DEF Inner

\* So it keeps the invariant.
LEMMA InnerKept == ImuInv /\ Inner => ImuInv'
<1> SUFFICES ASSUME ImuInv, Inner PROVE ImuInv' OBVIOUS
<1>1. ImuTypes /\ ImuPlace /\ StreamsInv /\ ImuExplained BY DEF ImuInv
<1>2. /\ imu' \in ImuRecords /\ UNCHANGED <<conn, since>>
      /\ imu'.newData => imu'.sample > 0 /\ imu'.pc \in {"events", "raised", "exit"}
      /\ imu'.pc = "send" => imu'.sample > 0
      /\ imu'.pc = "events" /\ "imu" \in imu'.events => imu'.sample < MaxSamples /\ ~imu'.newData
      /\ \A c \in imu'.left : conn[c].server # "none" /\ (imu'.pc = "send" => conn[c].server = "open")
      /\ imu'.pc = "raised" => \/ imu'.events \cap {"imu", "socket"} # {}
                               \/ imu.pc = "raised" /\ imu'.events = imu.events /\ imu'.left = imu.left
  BY <1>1, InnerDoes
<1>3. ImuTypes' BY <1>1, <1>2 DEF ImuTypes
<1>4. ImuPlace' BY <1>1, <1>2 DEF ImuPlace
<1>5. \A c \in ImuClients : Stream(c)' = Stream(c) BY <1>2 DEF Stream
<1>6. StreamsInv'
  <2>1. ASSUME NEW c \in ImuClients PROVE Whole(Stream(c)', since'[c])
    BY <1>1, <1>2, <1>5 DEF StreamsInv
  <2>2. ASSUME NEW c \in ImuClients, Serving', conn'[c].server = "open"
        PROVE  Reaches(Stream(c)', since'[c], Due(c)')
    <3>1. Serving /\ conn[c].server = "open" /\ Due(c)' = Due(c) BY <1>1, <1>2, <2>2, InnerDue
    <3>2. Reaches(Stream(c), since[c], Due(c)) BY <1>1, <3>1 DEF StreamsInv
    <3>3. QED BY <1>2, <1>5, <3>1, <3>2
  <2>3. QED BY <2>1, <2>2 DEF StreamsInv
<1>7. ImuExplained' BY <1>1, <1>2, <1>5, ImuAssumption DEF ImuExplained, ImuTypes, ImuRecords
<1>8. QED BY <1>3, <1>4, <1>6, <1>7 DEF ImuInv

\* What a client does to its connection: the stream stays as it is, and only a client
\* that was connected leaves.
LEMMA ClientDoes ==
  ASSUME ImuTypes, ImuPlace, NEW c \in ImuClients, Connect(c) \/ Read(c) \/ ClientLeaves(c)
  PROVE  /\ UNCHANGED <<imu, since>> /\ conn' \in [ImuClients -> Conns]
         /\ conn'[c].server = conn[c].server /\ Len(conn'[c].held) <= SocketRoom
         /\ conn[c].peer = "none" \/ conn[c].peer = "open"
         /\ conn[c].peer = "open" => conn'[c].peer # "none"
         /\ Stream(c)' = Stream(c)
         /\ conn[c].server = "none" => conn'[c].held = conn[c].held /\ conn'[c].got = conn[c].got
         /\ imu.pc = "raised" => conn'[c].held = conn[c].held
         /\ \A d \in ImuClients \ {c} : conn'[d] = conn[d]
<1>1. conn \in [ImuClients -> Conns] /\ Len(conn[c].held) <= SocketRoom BY DEF ImuTypes
<1>2. CASE Connect(c) BY <1>1, <1>2 DEF Connect, Conns, Stream
<1>3. CASE ClientLeaves(c) BY <1>1, <1>3, ZenonT(30) DEF ClientLeaves, Conns, Stream
<1>4. CASE Read(c)
  <2> PICK none, held, got : none = <<>> /\ held = conn[c].held /\ got = conn[c].got OBVIOUS
  <2> PICK both : both = got \o held OBVIOUS
  <2>1. held \in Seq(Halves) /\ got \in Seq(Halves) BY <1>1 DEF Conns
  <2>2. both \in Seq(Halves) /\ none \in Seq(Halves) /\ Len(none) = 0 /\ both \o none = both
    BY <2>1, ConcatProperties, ReadIsKept
  <2>3. conn' = [conn EXCEPT ![c].held = none, ![c].got = both] /\ conn[c].peer = "open" /\ held # none
        /\ imu.pc # "raised" /\ UNCHANGED <<imu, since>>
    BY <1>4 DEF Read
  <2>4. /\ conn' \in [ImuClients -> Conns] /\ conn'[c].held = none /\ conn'[c].got = both
        /\ conn'[c].server = conn[c].server /\ conn'[c].peer = conn[c].peer
        /\ \A d \in ImuClients \ {c} : conn'[d] = conn[d]
    BY <1>1, <2>2, <2>3 DEF Conns
  <2>5. Stream(c)' = both /\ Stream(c) = both BY <2>2, <2>4 DEF Stream
  <2>6. Len(conn'[c].held) <= SocketRoom BY <2>2, <2>4, ImuAssumption
  <2>7. conn[c].server # "none" BY <2>3 DEF ImuPlace
  <2>8. QED BY <2>3, <2>4, <2>5, <2>6, <2>7
<1>5. QED BY <1>2, <1>3, <1>4

\* So the invariant is kept.
LEMMA ClientKept ==
  ASSUME ImuInv, NEW c \in ImuClients, Connect(c) \/ Read(c) \/ ClientLeaves(c)
  PROVE  ImuInv'
<1>1. ImuTypes /\ ImuPlace /\ StreamsInv /\ ImuExplained BY DEF ImuInv
<1>2. /\ UNCHANGED <<imu, since>> /\ conn' \in [ImuClients -> Conns]
      /\ conn'[c].server = conn[c].server /\ Len(conn'[c].held) <= SocketRoom
      /\ conn[c].peer = "none" \/ conn[c].peer = "open"
      /\ conn[c].peer = "open" => conn'[c].peer # "none"
      /\ Stream(c)' = Stream(c)
      /\ conn[c].server = "none" => conn'[c].held = conn[c].held /\ conn'[c].got = conn[c].got
      /\ imu.pc = "raised" => conn'[c].held = conn[c].held
      /\ \A d \in ImuClients \ {c} : conn'[d] = conn[d]
  BY <1>1, ClientDoes
<1>3. \A d \in ImuClients : Stream(d)' = Stream(d) /\ conn'[d].server = conn[d].server
  BY <1>2 DEF Stream
<1>4. ImuTypes' BY <1>1, <1>2 DEF ImuTypes
<1>5. ImuPlace'
  <2>1. ASSUME NEW d \in ImuClients
        PROVE  IF conn'[d].server = "none" THEN conn'[d].held = <<>> /\ conn'[d].got = <<>>
               ELSE conn'[d].peer # "none"
    <3>1. IF conn[d].server = "none" THEN conn[d].held = <<>> /\ conn[d].got = <<>> ELSE conn[d].peer # "none"
      BY <1>1 DEF ImuPlace
    <3>2. CASE d = c
      <4>1. CASE conn[c].server = "none" BY <1>2, <3>1, <3>2, <4>1
      <4>2. CASE conn[c].server # "none" BY <1>2, <3>1, <3>2, <4>2
      <4>3. QED BY <4>1, <4>2
    <3>3. CASE d # c BY <1>2, <3>1, <3>3
    <3>4. QED BY <3>2, <3>3
  <2>2. \A d \in imu.left : conn'[d].server # "none" /\ (imu.pc = "send" => conn'[d].server = "open")
    <3>1. imu.left \subseteq ImuClients BY <1>1 DEF ImuTypes, ImuRecords
    <3>2. QED BY <1>1, <1>3, <3>1 DEF ImuPlace
  <2>3. QED BY <1>1, <1>2, <2>1, <2>2 DEF ImuPlace
<1>6. StreamsInv'
  <2>1. \A d \in ImuClients : Due(d)' = Due(d) BY <1>2 DEF Due
  <2>2. Serving' = Serving BY <1>2 DEF Serving
  <2>3. QED BY <1>1, <1>2, <1>3, <2>1, <2>2 DEF StreamsInv
<1>7. ImuExplained'
  <2>1. SUFFICES ASSUME imu.pc = "raised" PROVE ImuExplained' BY <1>2 DEF ImuExplained
  <2>2. CASE imu.events \cap {"imu", "socket"} # {} BY <1>2, <2>2 DEF ImuExplained
  <2>3. ASSUME NEW d \in imu.events \cap ImuClients, conn[d].peer = "reset" PROVE ImuExplained'
    <3>1. conn'[d].peer = "reset" BY <1>2, <2>3
    <3>2. QED BY <1>2, <2>3, <3>1 DEF ImuExplained
  <2>4. ASSUME NEW d \in imu.left, conn[d].peer # "open" \/ Len(conn[d].held) >= SocketRoom PROVE ImuExplained'
    <3>1. d \in ImuClients BY <1>1 DEF ImuTypes, ImuRecords
    <3>2. conn[d].peer # "none" BY <1>1, <3>1 DEF ImuPlace
    <3>3. (conn[d].peer # "open" => conn'[d] = conn[d]) /\ conn'[d].held = conn[d].held
      BY <1>2, <2>1, <3>1, <3>2
    <3>4. conn'[d].peer # "open" \/ Len(conn'[d].held) >= SocketRoom BY <2>4, <3>3
    <3>5. QED BY <1>2, <2>4, <3>4 DEF ImuExplained
  <2>5. QED BY <1>1, <2>1, <2>2, <2>3, <2>4 DEF ImuExplained
<1>8. QED BY <1>4, <1>5, <1>6, <1>7 DEF ImuInv

\* An exception in accept() leaves run, and everything as it is.
LEMMA AcceptRaises ==
  ASSUME ImuInv, Accept, Raises({"socket"}, {}), UNCHANGED <<conn, since>>
  PROVE  ImuInv'
<1>1. ImuTypes /\ ImuPlace /\ StreamsInv /\ imu \in ImuRecords BY DEF ImuInv, ImuTypes
<1>2. /\ imu' \in ImuRecords /\ imu'.pc = "raised" /\ imu'.events = {"socket"} /\ imu'.left = {}
      /\ imu'.newData = imu.newData /\ imu'.sample = imu.sample
  BY <1>1 DEF ImuRecords, ImuPcs, Raises
<1>3. ImuTypes' BY <1>1, <1>2 DEF ImuTypes
<1>4. ImuPlace' BY <1>1, <1>2 DEF ImuPlace
<1>5. ~Serving' /\ \A d \in ImuClients : Stream(d)' = Stream(d) BY <1>2 DEF Serving, Stream
<1>6. StreamsInv' BY <1>1, <1>5 DEF StreamsInv
<1>7. ImuExplained' BY <1>2 DEF ImuExplained
<1>8. QED BY <1>3, <1>4, <1>6, <1>7 DEF ImuInv

\* A client that is accepted has had nothing, and is due what comes now.
LEMMA AcceptKept == ImuInv /\ Accept => ImuInv'
<1> SUFFICES ASSUME ImuInv, Accept, ~(Raises({"socket"}, {}) /\ UNCHANGED <<conn, since>>) PROVE ImuInv'
  BY AcceptRaises
<1>1. ImuTypes /\ ImuPlace /\ StreamsInv BY DEF ImuInv
<1> PICK rest : rest = imu.events \ {"socket"} OBVIOUS
<1>2. imu \in ImuRecords /\ imu.pc = "events" /\ imu' = [imu EXCEPT !.events = rest]
  BY <1>1 DEF Accept, ImuTypes
<1>3. rest \subseteq {"socket", "imu"} \cup ImuClients /\ ("imu" \in rest => "imu" \in imu.events)
  BY <1>2 DEF ImuRecords
<1>4. /\ imu' \in ImuRecords /\ imu'.events = rest /\ imu'.pc = imu.pc /\ imu'.newData = imu.newData
      /\ imu'.sample = imu.sample /\ imu'.left = imu.left
  BY <1>2, <1>3 DEF ImuRecords
<1>5. PICK c \in ImuClients :
        /\ conn[c].server = "none" /\ conn[c].peer # "none" /\ conn' = [conn EXCEPT ![c].server = "open"]
        /\ since' = [since EXCEPT ![c] = IF imu.newData THEN imu.sample - 1 ELSE imu.sample]
  BY DEF Accept
<1>6. /\ conn' \in [ImuClients -> Conns] /\ conn'[c].server = "open" /\ conn'[c].held = conn[c].held
      /\ conn'[c].got = conn[c].got /\ conn'[c].peer = conn[c].peer /\ \A d \in ImuClients \ {c} : conn'[d] = conn[d]
  BY <1>1, <1>5 DEF ImuTypes, Conns
<1> PICK n : n = IF imu.newData THEN imu.sample - 1 ELSE imu.sample OBVIOUS
<1>7. n \in 0..MaxSamples /\ since' = [since EXCEPT ![c] = n] /\ Due(c) = n
  <2>1. imu.sample \in 0..MaxSamples /\ (imu.newData => imu.sample > 0) BY <1>1, <1>2 DEF ImuRecords, ImuPlace
  <2>2. n \in 0..MaxSamples BY <2>1, ImuAssumption
  <2>3. imu.pc # "send" BY <1>2
  <2>4. QED BY <1>5, <2>2, <2>3 DEF Due
<1>8. since' \in [ImuClients -> 0..MaxSamples] /\ since'[c] = n /\ \A d \in ImuClients \ {c} : since'[d] = since[d]
  BY <1>1, <1>7 DEF ImuTypes
<1>9. ImuTypes' BY <1>1, <1>4, <1>6, <1>8 DEF ImuTypes
<1>10. ImuPlace' BY <1>1, <1>2, <1>3, <1>4, <1>5, <1>6 DEF ImuPlace
<1>11. StreamsInv'
  <2>1. \A d \in ImuClients : Due(d)' = Due(d) BY <1>4 DEF Due
  <2>2. Serving /\ \A d \in ImuClients : Stream(d)' = Stream(d) BY <1>2, <1>6 DEF Serving, Stream
  <2>3. Stream(c) = <<>>
    <3> PICK e : e = <<>> OBVIOUS
    <3>1. conn[c].got = e /\ conn[c].held = e BY <1>1, <1>5 DEF ImuPlace
    <3>2. e \in Seq(Halves) /\ e \o e = e BY ConcatEmptySeq
    <3>3. QED BY <3>1, <3>2 DEF Stream
  <2>4. Whole(Stream(c), n) /\ Reaches(Stream(c), n, n)
    <3> PICK s : s = Stream(c) OBVIOUS
    <3>1. s = <<>> /\ Len(s) = 0 BY <2>3
    <3>2. n <= n /\ 2..0 = {} BY <1>7, ImuAssumption
    <3>3. QED BY <3>1, <3>2 DEF Whole, Reaches
  <2>5. ASSUME NEW d \in ImuClients
        PROVE  /\ Whole(Stream(d)', since'[d])
               /\ Serving' /\ conn'[d].server = "open" => Reaches(Stream(d)', since'[d], Due(d)')
    <3>1. CASE d = c BY <1>7, <1>8, <2>1, <2>2, <2>4, <3>1
    <3>2. CASE d # c BY <1>1, <1>6, <1>8, <2>1, <2>2, <3>2 DEF StreamsInv
    <3>3. QED BY <3>1, <3>2
  <2>6. QED BY <2>5 DEF StreamsInv
<1>12. ImuExplained' BY <1>2, <1>4 DEF ImuExplained
<1>13. QED BY <1>9, <1>10, <1>11, <1>12 DEF ImuInv

\* A client that is gone is closed, or its reset leaves run.
LEMMA ReadClientKept ==
  ASSUME ImuInv, NEW c \in ImuClients, ReadClient(c)
  PROVE  ImuInv'
<1>1. ImuTypes /\ ImuPlace /\ StreamsInv BY DEF ImuInv
<1>2. imu \in ImuRecords /\ conn \in [ImuClients -> Conns] /\ imu.pc = "events" /\ c \in imu.events /\ UNCHANGED since
  BY <1>1 DEF ReadClient, ImuTypes
<1>3. CASE /\ conn[c].peer \in {"closed", "gone"}
           /\ conn' = [conn EXCEPT ![c].server = "closed"]
           /\ imu' = [imu EXCEPT !.events = @ \ {c}]
  <2> PICK rest : rest = imu.events \ {c} OBVIOUS
  <2>1. rest \subseteq {"socket", "imu"} \cup ImuClients /\ ("imu" \in rest => "imu" \in imu.events)
    BY <1>2 DEF ImuRecords
  <2>2. imu' = [imu EXCEPT !.events = rest] BY <1>3
  <2>3. /\ imu' \in ImuRecords /\ imu'.events = rest /\ imu'.pc = imu.pc /\ imu'.newData = imu.newData
        /\ imu'.sample = imu.sample /\ imu'.left = imu.left
    BY <1>2, <2>1, <2>2 DEF ImuRecords
  <2>4. /\ conn' \in [ImuClients -> Conns] /\ conn'[c].server = "closed" /\ conn'[c].held = conn[c].held
        /\ conn'[c].got = conn[c].got /\ conn'[c].peer = conn[c].peer
        /\ \A d \in ImuClients \ {c} : conn'[d] = conn[d]
    BY <1>2, <1>3 DEF Conns
  <2>5. ImuTypes' BY <1>1, <1>2, <2>3, <2>4 DEF ImuTypes
  <2>6. ImuPlace' BY <1>1, <1>2, <1>3, <2>1, <2>3, <2>4 DEF ImuPlace
  <2>7. \A d \in ImuClients : Due(d)' = Due(d) /\ Stream(d)' = Stream(d)
    BY <2>3, <2>4 DEF Due, Stream
  <2>8. Serving BY <1>2 DEF Serving
  <2>9. StreamsInv' BY <1>1, <1>2, <2>4, <2>7, <2>8 DEF StreamsInv
  <2>10. ImuExplained' BY <1>2, <2>3 DEF ImuExplained
  <2>11. QED BY <2>5, <2>6, <2>9, <2>10 DEF ImuInv
<1>4. CASE conn[c].peer = "reset" /\ Raises({c}, {}) /\ UNCHANGED conn
  <2>1. /\ imu' \in ImuRecords /\ imu'.pc = "raised" /\ imu'.events = {c} /\ imu'.left = {}
        /\ imu'.newData = imu.newData /\ imu'.sample = imu.sample
    BY <1>2, <1>4 DEF ImuRecords, ImuPcs, Raises
  <2>2. ImuTypes' BY <1>1, <1>2, <1>4, <2>1 DEF ImuTypes
  <2>3. ImuPlace' BY <1>1, <1>4, <2>1 DEF ImuPlace
  <2>4. ~Serving' /\ \A d \in ImuClients : Stream(d)' = Stream(d) BY <1>4, <2>1 DEF Serving, Stream
  <2>5. StreamsInv' BY <1>1, <1>2, <2>4 DEF StreamsInv
  <2>6. ImuExplained' BY <1>2, <1>4, <2>1 DEF ImuExplained
  <2>7. QED BY <2>2, <2>3, <2>5, <2>6 DEF ImuInv
<1>5. QED BY <1>3, <1>4 DEF ReadClient

\* A packet of sample n, all of it or as much as a socket with h halves has room for.
Packet(p, n, h) ==
  /\ p \in Seq(Halves) /\ Len(p) \in {1, 2} /\ h + Len(p) <= SocketRoom
  /\ p[1][1] = n /\ p[1][2] = 1
  /\ Len(p) = 2 => p[2][1] = n /\ p[2][2] = 2
  /\ Len(p) = 1 => h + 1 >= SocketRoom

\* What send puts into the socket is one.
LEMMA PacketFits ==
  ASSUME NEW n \in 1..MaxSamples, NEW h \in Nat, NEW room, room = SocketRoom - h, room > 0,
         NEW p, p = IF room >= 2 THEN <<<<n, 1>>, <<n, 2>>>> ELSE <<<<n, 1>>>>
  PROVE  Packet(p, n, h)
<1> PICK x, y : x = <<n, 1>> /\ y = <<n, 2>> OBVIOUS
<1>1. x \in Halves /\ y \in Halves /\ x[1] = n /\ x[2] = 1 /\ y[1] = n /\ y[2] = 2 BY ImuAssumption DEF Halves
<1>2. SocketRoom \in Nat BY ImuAssumption
<1>3. CASE room >= 2
  <2>1. p = <<x, y>> BY <1>3
  <2>2. p \in Seq(Halves) /\ Len(p) = 2 /\ p[1] = x /\ p[2] = y BY <1>1, <2>1
  <2>3. h + 2 <= SocketRoom BY <1>2, <1>3
  <2> PICK k : k = Len(p) OBVIOUS
  <2>4. k = 2 /\ h + k <= SocketRoom BY <2>2, <2>3
  <2>5. p[1][1] = n /\ p[1][2] = 1 /\ p[2][1] = n /\ p[2][2] = 2 BY <1>1, <2>2
  <2> HIDE DEF Halves
  <2>6. QED BY <2>2, <2>4, <2>5 DEF Packet
<1>4. CASE ~(room >= 2)
  <2>1. p = <<x>> BY <1>4
  <2>2. p \in Seq(Halves) /\ Len(p) = 1 /\ p[1] = x BY <1>1, <2>1
  <2>3. h + 1 = SocketRoom BY <1>2, <1>4
  <2> PICK k : k = Len(p) OBVIOUS
  <2>4. k = 1 /\ h + k <= SocketRoom /\ h + 1 >= SocketRoom BY <1>2, <2>2, <2>3
  <2>5. p[1][1] = n /\ p[1][2] = 1 BY <1>1, <2>2
  <2>6. QED BY <2>2, <2>4, <2>5 DEF Packet
<1>5. QED BY <1>3, <1>4

\* The same with an operator of its own for one sequence after another.
Cat(s, t) == s \o t

\* What it gives.
LEMMA Catenated ==
  ASSUME NEW s \in Seq(Halves), NEW t \in Seq(Halves)
  PROVE  /\ Cat(s, t) \in Seq(Halves) /\ Len(Cat(s, t)) = Len(s) + Len(t)
         /\ \A i \in 1..Len(s) : Cat(s, t)[i] = s[i]
         /\ \A i \in 1..Len(t) : Cat(s, t)[Len(s) + i] = t[i]
BY Joined DEF Cat

\* Three sequences one after another.
LEMMA CatAssociates ==
  ASSUME NEW s \in Seq(Halves), NEW t \in Seq(Halves), NEW u \in Seq(Halves)
  PROVE  Cat(s, Cat(t, u)) = Cat(Cat(s, t), u)
BY ConcatAssociative, SMTT(20) DEF Cat

\* Put behind what a socket holds, a packet is put behind the stream.
LEMMA PacketPut ==
  ASSUME NEW s \in Seq(Halves), NEW h \in Nat, Len(s) >= h, NEW n \in 1..MaxSamples, NEW p, Packet(p, n, h)
  PROVE  LET t == Cat(s, p)
             m == Len(s)
             k == Len(p)
         IN  /\ t \in Seq(Halves) /\ k \in {1, 2} /\ Len(t) = m + k /\ \A i \in 1..m : t[i] = s[i]
             /\ t[m + 1][1] = n /\ t[m + 1][2] = 1
             /\ k = 2 => t[m + 2][1] = n /\ t[m + 2][2] = 2
             /\ k = 1 => m + 1 >= SocketRoom
<1> DEFINE t == Cat(s, p)
           m == Len(s)
           k == Len(p)
<1>1. p \in Seq(Halves) /\ k \in {1, 2} BY DEF Packet
<1>2. /\ t \in Seq(Halves) /\ Len(t) = m + k /\ \A i \in 1..m : t[i] = s[i]
      /\ \A i \in 1..k : t[m + i] = p[i]
  BY <1>1, Catenated
<1>3. m \in Nat OBVIOUS
<1> HIDE DEF t, m
<1>4. t[m + 1][1] = n /\ t[m + 1][2] = 1
  <2>1. 1 \in 1..k BY <1>1
  <2>2. t[m + 1] = p[1] BY <2>1, <1>2
  <2>3. QED BY <2>2 DEF Packet
<1>5. k = 2 => t[m + 2][1] = n /\ t[m + 2][2] = 2
  <2>1. SUFFICES ASSUME k = 2 PROVE t[m + 2][1] = n /\ t[m + 2][2] = 2 OBVIOUS
  <2>2. 2 \in 1..k BY <2>1
  <2>3. t[m + 2] = p[2] BY <2>2, <1>2
  <2>4. QED BY <2>1, <2>3 DEF Packet
<1>6. k = 1 => m + 1 >= SocketRoom
  <2>1. SUFFICES ASSUME k = 1 PROVE m + 1 >= SocketRoom OBVIOUS
  <2>2. h + 1 >= SocketRoom BY <2>1 DEF Packet
  <2>3. m >= h BY DEF m
  <2>4. SocketRoom \in Nat BY ImuAssumption
  <2>5. QED BY <2>2, <2>3, <2>4, <1>3
<1>7. QED BY <1>1, <1>2, <1>4, <1>5, <1>6 DEF t, m

\* So it continues the stream.
LEMMA PacketAppended ==
  ASSUME NEW s \in Seq(Halves), NEW h \in Nat, Len(s) >= h, NEW a \in 0..MaxSamples, NEW n \in 1..MaxSamples,
         NEW p, Packet(p, n, h), Whole(s, a), Reaches(s, a, n - 1)
  PROVE  Whole(Cat(s, p), a) /\ Reaches(Cat(s, p), a, n)
<1> DEFINE t == Cat(s, p)
           m == Len(s)
           k == Len(p)
<1>1. /\ t \in Seq(Halves) /\ k \in {1, 2} /\ Len(t) = m + k /\ \A i \in 1..m : t[i] = s[i]
      /\ t[m + 1][1] = n /\ t[m + 1][2] = 1
      /\ k = 2 => t[m + 2][1] = n /\ t[m + 2][2] = 2
      /\ k = 1 => m + 1 >= SocketRoom
  BY PacketPut
<1>2. m = Len(s) OBVIOUS
<1> HIDE DEF t, m, k
<1>3. Whole(t, a) /\ Reaches(t, a, n) BY <1>1, <1>2, PacketContinues, ZenonT(30)
<1>4. QED BY <1>3 DEF t

\* So the stream of its client goes on.
LEMMA SendContinues ==
  ASSUME ImuTypes, ImuPlace, StreamsInv, NEW c \in ImuClients, imu.pc = "send", c \in imu.left,
         NEW packet, Packet(packet, imu.sample, Len(conn[c].held))
  PROVE  /\ Whole(Cat(conn[c].got, Cat(conn[c].held, packet)), since[c])
         /\ Reaches(Cat(conn[c].got, Cat(conn[c].held, packet)), since[c], imu.sample)
<1> PICK n, a, g, d : n = imu.sample /\ a = since[c] /\ g = conn[c].got /\ d = conn[c].held OBVIOUS
<1>1. g \in Seq(Halves) /\ d \in Seq(Halves) /\ a \in 0..MaxSamples BY DEF ImuTypes, Conns
<1>2. n \in 1..MaxSamples
  <2>1. imu.sample \in 0..MaxSamples /\ imu.sample > 0 BY DEF ImuTypes, ImuRecords, ImuPlace
  <2>2. QED BY <2>1, ImuAssumption
<1> PICK s, h : s = Cat(g, d) /\ h = Len(d) OBVIOUS
<1>3. Whole(s, a) /\ Reaches(s, a, n - 1)
  <2>1. Serving /\ conn[c].server = "open" BY DEF Serving, ImuPlace
  <2>2. Due(c) = n - 1 /\ Stream(c) = s BY DEF Due, Stream, Cat
  <2>3. QED BY <2>1, <2>2 DEF StreamsInv
<1>4. Packet(packet, n, h) OBVIOUS
<1>5. s \in Seq(Halves) /\ h \in Nat /\ Len(s) >= h
  <2>1. Cat(g, d) \in Seq(Halves) /\ Len(Cat(g, d)) = Len(g) + Len(d) BY <1>1, Catenated
  <2>2. \A x \in Nat, y \in Nat : x + y >= y OBVIOUS
  <2>3. Len(g) \in Nat /\ Len(d) \in Nat BY <1>1
  <2>4. QED BY <2>1, <2>2, <2>3
<1>6. Cat(g, Cat(d, packet)) = Cat(s, packet)
  <2>1. packet \in Seq(Halves) BY <1>4 DEF Packet
  <2>2. QED BY <1>1, <2>1, CatAssociates
<1>7. Whole(Cat(s, packet), a) /\ Reaches(Cat(s, packet), a, n)
  BY <1>1, <1>2, <1>3, <1>4, <1>5, PacketAppended
<1>8. QED BY <1>6, <1>7

\* A packet is sent, or its client is the reason for the exception.
LEMMA SendKept ==
  ASSUME ImuInv, NEW c \in ImuClients, Send(c)
  PROVE  ImuInv'
<1>1. ImuTypes /\ ImuPlace /\ StreamsInv BY DEF ImuInv
<1>2. /\ imu \in ImuRecords /\ conn \in [ImuClients -> Conns] /\ imu.pc = "send" /\ c \in imu.left
      /\ UNCHANGED since /\ ~imu.newData /\ conn[c].server # "none" /\ imu.sample > 0
      /\ Len(conn[c].held) \in Nat
  BY <1>1 DEF Send, ImuTypes, ImuPlace, Conns
<1> PICK room : room = SocketRoom - Len(conn[c].held) OBVIOUS
<1> PICK packet : packet = IF room >= 2 THEN <<<<imu.sample, 1>>, <<imu.sample, 2>>>>
                           ELSE <<<<imu.sample, 1>>>>
  OBVIOUS
<1>3. \/ /\ conn[c].peer \notin {"gone", "reset"} /\ room > 0
         /\ conn' = [conn EXCEPT ![c].held = conn[c].held \o packet,
                                 ![c].peer = IF conn[c].peer = "closed" THEN "gone" ELSE conn[c].peer]
         /\ imu' = [imu EXCEPT !.left = imu.left \ {c}]
      \/ /\ conn[c].peer \in {"gone", "reset"} \/ room = 0
         /\ Raises({}, {c}) /\ UNCHANGED conn
  BY <1>2 DEF Send
<1>4. CASE /\ conn[c].peer \notin {"gone", "reset"} /\ room > 0
           /\ conn' = [conn EXCEPT ![c].held = conn[c].held \o packet,
                                   ![c].peer = IF conn[c].peer = "closed" THEN "gone" ELSE conn[c].peer]
           /\ imu' = [imu EXCEPT !.left = imu.left \ {c}]
  <2>1. Packet(packet, imu.sample, Len(conn[c].held))
    <3> PICK n, h : n = imu.sample /\ h = Len(conn[c].held) OBVIOUS
    <3>1. n \in 1..MaxSamples /\ h \in Nat BY <1>2, ImuAssumption DEF ImuRecords
    <3>2. room = SocketRoom - h /\ packet = IF room >= 2 THEN <<<<n, 1>>, <<n, 2>>>> ELSE <<<<n, 1>>>>
      OBVIOUS
    <3>3. QED BY <1>4, <3>1, <3>2, PacketFits
  <2> PICK more, side : /\ more = conn[c].held \o packet
                        /\ side = IF conn[c].peer = "closed" THEN "gone" ELSE conn[c].peer
    OBVIOUS
  <2>2. more \in Seq(Halves) /\ Len(more) <= SocketRoom
    <3>1. conn[c].held \in Seq(Halves) BY <1>2 DEF Conns
    <3>2. packet \in Seq(Halves) /\ Len(conn[c].held) + Len(packet) <= SocketRoom BY <2>1 DEF Packet
    <3>3. QED BY <3>1, <3>2, Joined, ZenonT(30)
  <2>3. side \in {"none", "open", "closed", "gone", "reset"} /\ (conn[c].peer # "none" => side # "none")
    BY <1>2 DEF Conns
  <2>4. /\ conn' \in [ImuClients -> Conns] /\ conn'[c].server = conn[c].server /\ conn'[c].held = more
        /\ conn'[c].got = conn[c].got /\ conn'[c].peer = side /\ \A d \in ImuClients \ {c} : conn'[d] = conn[d]
    BY <1>2, <1>4, <2>2, <2>3 DEF Conns
  <2> PICK rest : rest = imu.left \ {c} OBVIOUS
  <2>5. rest \subseteq ImuClients /\ rest \subseteq imu.left BY <1>2 DEF ImuRecords
  <2>6. /\ imu' \in ImuRecords /\ imu'.left = rest /\ imu'.pc = "send" /\ imu'.sample = imu.sample
        /\ ~imu'.newData
    BY <1>2, <1>4, <2>5 DEF ImuRecords
  <2>7. ImuTypes' BY <1>1, <1>2, <2>2, <2>4, <2>6 DEF ImuTypes
  <2>8. ImuPlace'
    <3>1. \A d \in ImuClients : conn'[d].server = conn[d].server BY <2>4
    <3>2. conn[c].peer # "none" BY <1>1, <1>2 DEF ImuPlace
    <3>3. ASSUME NEW d \in ImuClients
          PROVE  IF conn'[d].server = "none" THEN conn'[d].held = <<>> /\ conn'[d].got = <<>>
                 ELSE conn'[d].peer # "none"
      <4>1. CASE d = c BY <1>2, <2>3, <2>4, <3>2, <4>1
      <4>2. CASE d # c BY <1>1, <2>4, <4>2 DEF ImuPlace
      <4>3. QED BY <4>1, <4>2
    <3>4. \A d \in rest : conn'[d].server # "none" /\ conn'[d].server = "open"
      BY <1>1, <1>2, <2>5, <3>1 DEF ImuPlace
    <3>5. QED BY <1>2, <2>6, <3>3, <3>4 DEF ImuPlace
  <2>9. StreamsInv'
    <3>1. Serving /\ Serving' BY <1>2, <2>6 DEF Serving
    <3>2. ASSUME NEW d \in ImuClients, d # c
          PROVE  /\ Whole(Stream(d)', since'[d])
                 /\ Serving' /\ conn'[d].server = "open" => Reaches(Stream(d)', since'[d], Due(d)')
      <4>1. conn'[d] = conn[d] /\ Stream(d)' = Stream(d) BY <2>4, <3>2 DEF Stream
      <4>2. d \in rest <=> d \in imu.left BY <3>2
      <4>3. Due(d)' = Due(d) BY <1>2, <2>6, <4>2 DEF Due
      <4>4. QED BY <1>1, <1>2, <3>1, <4>1, <4>3 DEF StreamsInv
    <3>3. Stream(c)' = Cat(conn[c].got, Cat(conn[c].held, packet)) BY <2>4 DEF Stream, Cat
    <3>4. Due(c)' = imu.sample BY <2>6 DEF Due
    <3> PICK t : t = Cat(conn[c].got, Cat(conn[c].held, packet)) OBVIOUS
    <3>5. Whole(t, since[c]) /\ Reaches(t, since[c], imu.sample) BY <1>1, <1>2, <2>1, SendContinues
    <3>6. QED BY <1>2, <3>2, <3>3, <3>4, <3>5 DEF StreamsInv
  <2>10. ImuExplained' BY <2>6 DEF ImuExplained
  <2>11. QED BY <2>7, <2>8, <2>9, <2>10 DEF ImuInv
<1>5. CASE (conn[c].peer \in {"gone", "reset"} \/ room = 0) /\ Raises({}, {c}) /\ UNCHANGED conn
  <2>1. /\ imu' \in ImuRecords /\ imu'.pc = "raised" /\ imu'.events = {} /\ imu'.left = {c}
        /\ imu'.newData = imu.newData /\ imu'.sample = imu.sample
    BY <1>2, <1>5 DEF ImuRecords, ImuPcs, Raises
  <2>2. ImuTypes' BY <1>1, <1>2, <1>5, <2>1 DEF ImuTypes
  <2>3. ImuPlace' BY <1>1, <1>2, <1>5, <2>1 DEF ImuPlace
  <2>4. ~Serving' /\ \A d \in ImuClients : Stream(d)' = Stream(d) BY <1>5, <2>1 DEF Serving, Stream
  <2>5. StreamsInv' BY <1>1, <1>2, <2>4 DEF StreamsInv
  <2>6. room = 0 => Len(conn[c].held) >= SocketRoom BY <1>2, ImuAssumption
  <2>7. c \in imu'.left /\ (conn'[c].peer # "open" \/ Len(conn'[c].held) >= SocketRoom)
    BY <1>2, <1>5, <2>1, <2>6
  <2>8. ImuExplained' BY <2>7 DEF ImuExplained
  <2>9. QED BY <2>2, <2>3, <2>5, <2>8 DEF ImuInv
<1>6. QED BY <1>3, <1>4, <1>5

\* When the service has stopped, no more is due to anyone.
LEMMA StopKept == ImuInv /\ StopService => ImuInv'
<1> SUFFICES ASSUME ImuInv, StopService PROVE ImuInv' OBVIOUS
<1>1. ImuTypes /\ ImuPlace /\ StreamsInv BY DEF ImuInv
<1>2. imu \in ImuRecords /\ conn \in [ImuClients -> Conns] /\ imu.pc \in {"stop", "raised", "again"} /\ UNCHANGED since
  BY <1>1 DEF StopService, ImuTypes
<1> PICK pc : pc = IF imu.pc = "stop" THEN "again" ELSE "exit" OBVIOUS
<1>3. imu' = [imu EXCEPT !.pc = pc, !.keepRunning = FALSE, !.listening = FALSE] BY DEF StopService
<1>4. pc \in ImuPcs /\ pc \in {"again", "exit"} /\ (imu.newData => pc = "exit")
  BY <1>1, <1>2 DEF ImuPcs, ImuPlace
<1>5. /\ imu' \in ImuRecords /\ imu'.pc = pc /\ imu'.events = imu.events /\ imu'.left = imu.left
      /\ imu'.newData = imu.newData /\ imu'.sample = imu.sample
  BY <1>2, <1>3, <1>4 DEF ImuRecords
<1>6. ASSUME NEW c \in ImuClients
      PROVE  /\ conn'[c] \in Conns /\ conn'[c].held = conn[c].held /\ conn'[c].got = conn[c].got
             /\ conn'[c].peer = conn[c].peer /\ (conn'[c].server = "none" <=> conn[c].server = "none")
  <2>1. conn'[c] = IF c \in Connections THEN [conn[c] EXCEPT !.server = "closed"] ELSE conn[c]
    BY DEF StopService
  <2>2. CASE c \in Connections
    <3>1. conn'[c] = [conn[c] EXCEPT !.server = "closed"] /\ conn[c].server = "open"
      BY <2>1, <2>2 DEF Connections
    <3>2. QED BY <1>2, <3>1 DEF Conns
  <2>3. CASE c \notin Connections
    <3>1. conn'[c] = conn[c] BY <2>1, <2>3
    <3>2. QED BY <1>2, <3>1
  <2>4. QED BY <2>2, <2>3
<1>7. conn' \in [ImuClients -> Conns]
  <2>1. conn' = [c \in ImuClients |-> conn'[c]] BY DEF StopService
  <2>2. QED BY <1>6, <2>1
<1>8. ImuTypes' BY <1>1, <1>2, <1>5, <1>6, <1>7 DEF ImuTypes
<1>9. ImuPlace'
  <2>1. \A c \in ImuClients :
          IF conn'[c].server = "none" THEN conn'[c].held = <<>> /\ conn'[c].got = <<>> ELSE conn'[c].peer # "none"
    BY <1>1, <1>6 DEF ImuPlace
  <2>2. \A c \in imu.left : conn'[c].server # "none"
    <3>1. imu.left \subseteq ImuClients BY <1>2 DEF ImuRecords
    <3>2. QED BY <1>1, <1>6, <3>1 DEF ImuPlace
  <2>3. imu.newData => imu.sample > 0 BY <1>1 DEF ImuPlace
  <2>4. QED BY <1>4, <1>5, <2>1, <2>2, <2>3 DEF ImuPlace
<1>10. ~Serving' /\ \A c \in ImuClients : Stream(c)' = Stream(c) BY <1>4, <1>5, <1>6 DEF Serving, Stream
<1>11. StreamsInv' BY <1>1, <1>2, <1>10 DEF StreamsInv
<1>12. ImuExplained' BY <1>4, <1>5 DEF ImuExplained
<1>13. QED BY <1>8, <1>9, <1>11, <1>12 DEF ImuInv

\* Every step of the IMU service keeps its invariant.
LEMMA ImuKept == ImuInv /\ (ImuNext \/ UNCHANGED imuVars) => ImuInv'
<1> SUFFICES ASSUME ImuInv, ImuNext \/ UNCHANGED imuVars PROVE ImuInv' OBVIOUS
<1>1. CASE UNCHANGED imuVars
  <2>1. UNCHANGED <<imu, conn, since>> BY <1>1 DEF imuVars
  <2>2. \A c \in ImuClients : Stream(c)' = Stream(c) /\ Due(c)' = Due(c) BY <2>1 DEF Stream, Due
  <2>3. ImuTypes' /\ ImuPlace' BY <2>1 DEF ImuInv, ImuTypes, ImuPlace
  <2>4. StreamsInv' BY <2>1, <2>2 DEF ImuInv, StreamsInv, Serving
  <2>5. ImuExplained' BY <2>1 DEF ImuInv, ImuExplained, Stream
  <2>6. QED BY <2>3, <2>4, <2>5 DEF ImuInv
<1>2. CASE Inner BY <1>2, InnerKept
<1>3. CASE Accept BY <1>3, AcceptKept
<1>4. CASE StopService BY <1>4, StopKept
<1>5. ASSUME NEW c \in ImuClients, ReadClient(c) \/ Send(c) PROVE ImuInv' BY <1>5, ReadClientKept, SendKept
<1>6. ASSUME NEW c \in ImuClients, Connect(c) \/ Read(c) \/ ClientLeaves(c) PROVE ImuInv' BY <1>6, ClientKept
<1>7. QED BY <1>1, <1>2, <1>3, <1>4, <1>5, <1>6 DEF ImuNext, ImuStep, Inner

-----------------------------------------------------------------------------
(* The services together.                                                  *)

\* A step of one service leaves the invariants of the others as they are.
LEMMA RobotInductive ==
  /\ ServicesInit => RobotInv
  /\ RobotInv /\ [ServicesNext]_servicesVars => RobotInv'
<1>1. ServicesInit => RobotInv BY ImuStart, TeleStart, CaptureStart DEF ServicesInit, RobotInv
<1>2. ASSUME RobotInv, [ServicesNext]_servicesVars PROVE RobotInv'
  <2>1. /\ ImuNext \/ UNCHANGED imuVars
        /\ TeleNext \/ UNCHANGED teleVars
        /\ CaptureNext \/ UNCHANGED captureVars
        /\ UNCHANGED service
    BY <1>2 DEF ServicesNext, servicesVars
  <2>2. ImuInv' BY <1>2, <2>1, ImuKept DEF RobotInv
  <2>3. TeleInv' BY <1>2, <2>1, TeleKept DEF RobotInv
  <2>4. CaptureInv' BY <1>2, <2>1, CaptureKept DEF RobotInv
  <2>5. QED BY <1>2, <2>1, <2>2, <2>3, <2>4 DEF RobotInv
<1>3. QED BY <1>1, <1>2

\* So it holds in every state of every behaviour.
LEMMA RobotInvariant == ServicesSpec => []RobotInv
<1>1. QED BY RobotInductive, PTL DEF ServicesSpec

\* The messages that wait are few enough for the type of ServicesTypeOK.
LEMMA FewMessages ==
  ASSUME NEW s \in Seq(Messages), Len(s) <= MaxMessages
  PROVE  s \in SeqsUpTo(Messages, MaxMessages)
<1> PICK n : n = Len(s) OBVIOUS
<1>1. n \in 0..MaxMessages BY TelepresenceAssumption
<1>2. s \in [1..n -> Messages] OBVIOUS
<1>3. QED BY <1>1, <1>2 DEF SeqsUpTo

\* Every variable of the three services stays within its type.
THEOREM ServicesTypeCorrect == ServicesSpec => []ServicesTypeOK
<1>1. ASSUME RobotInv PROVE ServicesTypeOK
  <2>1. /\ imu \in ImuRecords /\ conn \in [ImuClients -> Conns] /\ since \in [ImuClients -> 0..MaxSamples]
        /\ \A c \in ImuClients : Len(conn[c].held) <= SocketRoom
    BY <1>1 DEF RobotInv, ImuInv, ImuTypes
  <2>2. /\ imu.pc \in ImuPcs /\ imu.keepRunning \in BOOLEAN /\ imu.listening \in BOOLEAN
        /\ imu.newData \in BOOLEAN /\ imu.events \subseteq {"socket", "imu"} \cup ImuClients
        /\ imu.left \subseteq ImuClients /\ imu.sample \in 0..MaxSamples
    BY <2>1 DEF ImuRecords
  <2>3. \A c \in ImuClients :
          /\ conn[c].server \in {"none", "open", "closed"}
          /\ conn[c].peer \in {"none", "open", "closed", "gone", "reset"}
          /\ conn[c].held \in Seq(Halves) /\ Len(conn[c].held) <= SocketRoom
          /\ conn[c].got \in Seq(Halves)
          /\ since[c] \in 0..MaxSamples
    BY <2>1 DEF Conns
  <2>4. /\ motors \in {"moves", "rests"} /\ server \in {"runs", "ends", "over"}
        /\ \A b \in Drivers :
             /\ wsHandler[b] \in {"none", "loop", "ended", "raised", "cancelled"}
             /\ link[b].state \in {"open", "closed", "lost"}
             /\ link[b].sent \in SeqsUpTo(Messages, MaxMessages)
    BY <1>1, FewMessages DEF RobotInv, TeleInv
  <2>5. /\ app.lastFrame \in 0..MaxFrames /\ app.run \in {"runs", "ends", "cleanup", "over"}
        /\ \A v \in Viewers :
             /\ viewer[v].pc \in {"none", "loop", "tail", "ended", "raised", "cancelled"}
             /\ control[v].pc \in {"none", "loop", "ended", "cancelled"}
    BY <1>1 DEF RobotInv, CaptureInv
  <2>6. service \in {"imu", "telepresence", "capture"} BY <1>1 DEF RobotInv
  <2>7. QED BY <2>2, <2>3, <2>4, <2>5, <2>6 DEF ServicesTypeOK, ImuPcs
<1>2. QED BY <1>1, RobotInvariant, PTL

\* The streams have no gaps: whatever the order in which samples, clients and stops
\* come, a client of the IMU service has every sample from the first after it was
\* accepted; a viewer never gets a picture twice or an older one; and a picture that
\* is saved is not older than what its viewer had been sent when it asked.
THEOREM NoStreamHasGaps == ServicesSpec => []StreamsGoOn
<1>1. ASSUME RobotInv PROVE StreamsGoOn
  <2>1. ASSUME NEW c \in ImuClients
        PROVE  LET s == Stream(c)
               IN  /\ s # <<>> => s[1] = <<since[c] + 1, 1>>
                   /\ \A i \in 2..Len(s) : Follows(s, i)
                   /\ imu.pc = "head" /\ c \in Connections /\ since[c] < imu.sample
                        => s # <<>> /\ s[Len(s)][1] = imu.sample
    <3> PICK s, a, n : s = Stream(c) /\ a = since[c] /\ n = imu.sample OBVIOUS
    <3>1. Whole(s, a) BY <1>1 DEF RobotInv, ImuInv, StreamsInv
    <3>2. a \in Nat /\ n \in Nat BY <1>1, ImuAssumption DEF RobotInv, ImuInv, ImuTypes, ImuRecords
    <3>3. ASSUME imu.pc = "head", c \in Connections, a < n PROVE s # <<>> /\ s[Len(s)][1] = n
      <4>1. Serving /\ conn[c].server = "open" BY <3>3 DEF Serving, Connections
      <4>2. Due(c) = n BY <1>1, <3>3 DEF Due, RobotInv, ImuInv, ImuPlace
      <4>3. Reaches(s, a, n) BY <1>1, <4>1, <4>2 DEF RobotInv, ImuInv, StreamsInv
      <4>4. a # n BY <3>2, <3>3
      <4>5. QED BY <4>3, <4>4 DEF Reaches
    <3>4. QED BY <3>1, <3>3 DEF Whole
  <2>2. \A v \in Viewers :
          /\ \A i \in 2..Len(viewer[v].shown) : viewer[v].shown[i - 1] < viewer[v].shown[i]
          /\ \A i \in 1..Len(control[v].saved) : control[v].saved[i][1] <= control[v].saved[i][2]
    BY <1>1 DEF RobotInv, CaptureInv
  <2>3. QED BY <2>1, <2>2 DEF StreamsGoOn
<1>2. QED BY <1>1, RobotInvariant, PTL

\* Nothing ends or goes on without a reason: an exception leaves run only where the
\* IMU or accept() failed, a client was reset or closed, or its socket was full; and
\* the robot moves only while someone drives it, or after a handler that was left
\* before its end.
THEOREM EveryEndExplained == ServicesSpec => []EndsExplained
<1>1. ASSUME RobotInv PROVE EndsExplained
  BY <1>1 DEF RobotInv, ImuInv, ImuExplained, TeleInv, EndsExplained
<1>2. QED BY <1>1, RobotInvariant, PTL

=============================================================================
