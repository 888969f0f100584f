-------------------------- MODULE RaspicamProofs ---------------------------
(***************************************************************************)
(* What the steps of Raspicam keep, for any pool of headers, any number of *)
(* parts and pictures, and any failures.                                   *)
(*                                                                         *)
(* The properties speak of all headers at once, or of what an output reads *)
(* at last.  The invariants say where each header is, how the parts that   *)
(* are on their way follow each other, and, as long as no transfer failed, *)
(* how the picture in the global buffer follows what was read of it.       *)
(***************************************************************************)
EXTENDS Raspicam, FiniteSetTheorems, SequenceTheorems, TLAPS

-----------------------------------------------------------------------------
(* Types.                                                                  *)

Opening == {"camera", "encoder", "pool", "connect", "enable"}
Shooting == {"loop", "count", "take", "give", "capture", "await", "sleep"}
Disabling == {"off", "lock", "message", "drain", "transit"}
Disabled == {"disconnect", "pools", "components", "cleanup", "ended"}
Closing == {"delete"} \cup Disabling \cup Disabled
WorkerPcs == Opening \cup Shooting \cup Closing \cup {"exit"}
RunPcs == {"idle", "copy", "end", "release", "get", "send", "done"}
PoolStates == {"none", "live", "freed"}
Owners == {"none"} \cup Threads
HeaderNos == 0 .. BufferNum
FrameNos == 0 .. MaxFrames
PartNos == 0 .. MaxParts - 1
Rounds == 1 .. 3
Lockers == {"none", "callback", "reader"}
Entries == [header : Headers, part : Part]
HeaderSeqs == Seq(Headers)
EntrySeqs == Seq(Entries)
Buffers == [1 .. MaxParts -> Part]

Pools == [state : PoolStates, queue : HeaderSeqs]
Ports == [enabled : BOOLEAN, callback : BOOLEAN, contexts : BOOLEAN, transit : Int]
Components == [owner : Owners, queue : EntrySeqs, destroyed : BOOLEAN]
Vcs == [held : HeaderSeqs, frame : FrameNos, part : PartNos, asked : Nat, streams : BOOLEAN, fed : BOOLEAN]
Runs == [pc : RunPcs, header : HeaderNos, part : Part, new : HeaderNos, complete : BOOLEAN]
Workers == [pc : WorkerPcs, num : Nat, hand : HeaderNos, round : Rounds, ok : BOOLEAN]
Semaphores == [live : BOOLEAN, count : Nat, misused : BOOLEAN]
BoardsOf == [owner : Lockers, live : BOOLEAN, buf : Buffers, size : Nat]

MmalType ==
  /\ pool \in Pools /\ port \in Ports /\ component \in Components /\ vc \in Vcs
  /\ run \in [Threads -> Runs]
  /\ mayFail \in FailureSets /\ failed \subseteq mayFail
  /\ fault \in {"none", "freed context", "no callback", "null header"}
PluginType ==
  /\ worker \in Workers /\ semaphore \in Semaphores
  /\ offset \in Nat /\ board \in BoardsOf
  /\ reader = [pc |-> reader.pc, size |-> reader.size, got |-> reader.got]
  /\ reader.pc \in {"idle", "wait", "woken", "copy"} /\ reader.size \in Nat
  /\ stills \in BOOLEAN /\ stop \in BOOLEAN

Bit(b) == IF b THEN 1 ELSE 0

\* A picture that was begun or asked for is one of those that there may be.
Asking ==
  /\ vc.part > 0 => vc.frame > 0
  /\ ~stills => vc.asked = 0
  /\ stills =>
       /\ ~vc.streams
       /\ vc.part > 0 => vc.asked > 0
       /\ vc.frame + vc.asked <= MaxFrames + Bit(vc.part > 0)
       /\ worker.pc \in {"count", "take", "give", "capture"} =>
            vc.frame + vc.asked < MaxFrames + Bit(vc.part > 0)

\* A thread that is idle is in no callback, and one that has a header in its hand
\* has one of the pool.
Named ==
  /\ \A t \in Threads :
       /\ run[t].pc = "idle" => run[t] = Idle
       /\ run[t].pc \in {"copy", "end", "release"} => run[t].header \in Headers
       /\ run[t].pc = "send" => run[t].new \in Headers
  /\ worker.pc = "give" => worker.hand \in Headers /\ worker.num > 0
  /\ worker.pc # "give" => worker.hand = 0
TypeInv == MmalType /\ PluginType /\ Asking /\ Named

\* A part as the VideoCore makes it, the place in the pictures after it, and that
\* it is the next one after a place.
Proper(p) == p.no \in 1 .. MaxParts /\ (p.no = MaxParts => p.last)
After(p) == <<p.frame, IF p.last THEN 0 ELSE p.no>>
Follows(p, pos) == p.no = pos[2] + 1 /\ p.frame = IF pos[2] = 0 THEN pos[1] + 1 ELSE pos[1]
Encoded == <<vc.frame, vc.part>>

\* A part that did arrive.
Sent(p) == p # NoPart => p.data /\ ~p.aborted

-----------------------------------------------------------------------------
(* What the steps of the library do.                                       *)

\* The VideoCore fills a header with the part p.
Fills(p) ==
  /\ Encodes /\ vc.held # <<>>
  /\ vc' \in Vcs /\ vc'.held = Tail(vc.held) /\ vc'.streams = vc.streams
  /\ vc'.asked = IF p.last /\ vc.asked > 0 THEN vc.asked - 1 ELSE vc.asked
  /\ component' \in Components /\ component'.owner = component.owner
  /\ component'.queue = Append(component.queue, [header |-> Head(vc.held), part |-> p])
  /\ component'.destroyed = component.destroyed
  /\ p # NoPart /\ Proper(p) /\ Follows(p, Encoded) /\ Encoded' = After(p)
  /\ failed \subseteq failed' /\ failed' \subseteq failed \cup {"transfer"} /\ failed' \subseteq mayFail
  /\ Sent(p) \/ "transfer" \in failed'
  /\ fault' = IF port.contexts THEN fault ELSE "freed context"
  /\ UNCHANGED <<pool, port, run, mayFail>>

\* The numbers of a part that is made.
LEMMA PartMade ==
  ASSUME TypeInv, Encodes, NEW last \in BOOLEAN, vc.part + 1 = MaxParts => last,
         NEW frame, frame = IF vc.part = 0 THEN vc.frame + 1 ELSE vc.frame
  PROVE  /\ frame \in FrameNos /\ vc.part + 1 \in 1 .. MaxParts
         /\ (IF last THEN 0 ELSE vc.part + 1) \in PartNos
<1>1. vc.part \in PartNos /\ vc.frame \in FrameNos /\ vc.asked \in Nat
  BY DEF TypeInv, MmalType, Vcs
<1>2. MaxParts \in Nat \ {0} /\ MaxFrames \in Nat BY MmalAssumption
<1>3. vc.part = 0 => vc.frame + 1 <= MaxFrames
  BY <1>1, <1>2 DEF TypeInv, PluginType, Asking, Encodes, FrameNos, PartNos, Bit
<1>4. QED BY <1>1, <1>2, <1>3 DEF FrameNos, PartNos

\* The VideoCore fills one header with the next part.
LEMMA VcFills == ASSUME TypeInv, VcFill PROVE \E p \in Part : Fills(p)
<1>1. PICK last \in BOOLEAN, transfer \in Transfers :
        LET frame == IF vc.part = 0 THEN vc.frame + 1 ELSE vc.frame
            part == [frame |-> frame, no |-> vc.part + 1, last |-> last,
                     data |-> transfer.data, aborted |-> transfer.aborted]
        IN  /\ part.no = MaxParts => last
            /\ vc' = [vc EXCEPT !.held = Tail(@), !.frame = frame, !.part = IF last THEN 0 ELSE part.no,
                                !.asked = IF last /\ @ > 0 THEN @ - 1 ELSE @]
            /\ Queued(Head(vc.held), part)
            /\ failed' = IF transfer = [data |-> TRUE, aborted |-> FALSE] THEN failed ELSE failed \cup {"transfer"}
  BY DEF VcFill
<1>2. PICK frame : frame = IF vc.part = 0 THEN vc.frame + 1 ELSE vc.frame OBVIOUS
<1> DEFINE p == [frame |-> frame, no |-> vc.part + 1, last |-> last, data |-> transfer.data, aborted |-> transfer.aborted]
<1>3. /\ Encodes /\ fault' = IF port.contexts THEN fault ELSE "freed context"
      /\ UNCHANGED <<pool, port, run, mayFail>>
  BY DEF VcFill
<1>4. /\ frame \in FrameNos /\ vc.part + 1 \in 1 .. MaxParts /\ (IF last THEN 0 ELSE vc.part + 1) \in PartNos
  BY <1>1, <1>2, <1>3, PartMade
<1>5. /\ transfer.data \in BOOLEAN /\ transfer.aborted \in BOOLEAN
      /\ (transfer.data /\ ~transfer.aborted) \/ transfer # [data |-> TRUE, aborted |-> FALSE]
      /\ transfer # [data |-> TRUE, aborted |-> FALSE] => MayFail("transfer")
  <2>1. CASE transfer = [data |-> TRUE, aborted |-> FALSE] BY <2>1
  <2>2. CASE transfer # [data |-> TRUE, aborted |-> FALSE]
    <3>1. MayFail("transfer") BY <2>2 DEF Transfers
    <3>2. transfer = [data |-> TRUE, aborted |-> TRUE] \/ transfer = [data |-> FALSE, aborted |-> FALSE]
      BY <2>2 DEF Transfers
    <3>3. transfer.data \in BOOLEAN /\ transfer.aborted \in BOOLEAN
      <4>1. CASE transfer = [data |-> TRUE, aborted |-> TRUE] BY <4>1
      <4>2. CASE transfer = [data |-> FALSE, aborted |-> FALSE] BY <4>2
      <4>3. QED BY <3>2, <4>1, <4>2
    <3>4. QED BY <2>2, <3>1, <3>3
  <2>3. QED BY <2>1, <2>2
<1>6. p \in Part
  <2>1. vc.part + 1 \in 0 .. MaxParts BY <1>4
  <2>2. QED BY <1>4, <1>5, <2>1 DEF Part, FrameNos
<1>7. vc \in Vcs /\ component \in Components BY DEF TypeInv, MmalType
<1>8. vc.held # <<>> /\ vc.held \in Seq(Headers) BY <1>3, <1>7 DEF Encodes, Vcs, HeaderSeqs
<1>9. /\ vc' \in Vcs /\ vc'.held = Tail(vc.held) /\ vc'.streams = vc.streams
      /\ vc'.asked = IF last /\ vc.asked > 0 THEN vc.asked - 1 ELSE vc.asked
      /\ vc'.frame = frame /\ vc'.part = IF last THEN 0 ELSE vc.part + 1
  <2>1. PICK asked : asked = IF last /\ vc.asked > 0 THEN vc.asked - 1 ELSE vc.asked OBVIOUS
  <2>2. PICK no : no = IF last THEN 0 ELSE vc.part + 1 OBVIOUS
  <2>3. PICK held : held = Tail(vc.held) OBVIOUS
  <2>4. asked \in Nat BY <1>7, <2>1 DEF Vcs
  <2>5. held \in HeaderSeqs BY <1>8, <2>3 DEF HeaderSeqs
  <2>6. vc' = [held |-> held, frame |-> frame, part |-> no, asked |-> asked, streams |-> vc.streams, fed |-> vc.fed]
    BY <1>1, <1>2, <1>7, <2>1, <2>2, <2>3 DEF Vcs
  <2>7. QED BY <1>4, <1>7, <2>1, <2>2, <2>3, <2>4, <2>5, <2>6 DEF Vcs
<1>10. /\ component' \in Components /\ component'.owner = component.owner
       /\ component'.queue = Append(component.queue, [header |-> Head(vc.held), part |-> p])
       /\ component'.destroyed = component.destroyed
  <2>1. PICK e : e = [header |-> Head(vc.held), part |-> p] OBVIOUS
  <2>2. e \in Entries BY <1>6, <1>8, <2>1 DEF Entries
  <2>3. component' = [component EXCEPT !.queue = Append(component.queue, e)] BY <1>1, <1>2, <2>1 DEF Queued
  <2>4. Append(component.queue, e) \in EntrySeqs BY <1>7, <2>2 DEF Components, EntrySeqs
  <2>5. QED BY <1>7, <2>1, <2>3, <2>4 DEF Components
<1>11. Proper(p) /\ Follows(p, Encoded) /\ p # NoPart
  <2>1. vc.part = 0 \/ vc.part > 0 BY <1>7 DEF Vcs, PartNos
  <2>2. QED BY <1>1, <1>2, <1>4, <2>1 DEF Proper, Follows, Encoded, NoPart
<1>12. Encoded' = After(p) BY <1>9 DEF Encoded, After
<1>13. /\ failed \subseteq failed' /\ failed' \subseteq failed \cup {"transfer"} /\ failed' \subseteq mayFail
       /\ Sent(p) \/ "transfer" \in failed'
  <2>1. failed' = IF transfer = [data |-> TRUE, aborted |-> FALSE] THEN failed ELSE failed \cup {"transfer"} BY <1>1
  <2>2. failed \subseteq mayFail BY DEF TypeInv, MmalType
  <2>3. transfer # [data |-> TRUE, aborted |-> FALSE] => "transfer" \in mayFail BY <1>5 DEF MayFail
  <2>4. QED BY <1>5, <2>1, <2>2, <2>3 DEF Sent
<1>14. Fills(p) BY <1>3, <1>8, <1>9, <1>10, <1>11, <1>12, <1>13 DEF Fills
<1>15. QED BY <1>6, <1>14

\* A thread begins with the callback of the header that came first.
Begins(t) ==
  /\ run[t] = Idle /\ component.queue # <<>>
  /\ run' \in [Threads -> Runs] /\ (\A u \in Threads \ {t} : run'[u] = run[u])
  /\ run'[t] = [pc |-> "copy", header |-> Head(component.queue).header, part |-> Head(component.queue).part,
                new |-> 0, complete |-> FALSE]
  /\ component' \in Components /\ component'.owner = t
  /\ component'.queue = Tail(component.queue) /\ component'.destroyed = component.destroyed
  /\ fault' = IF port.callback THEN fault ELSE "no callback"

\* Threads are two.
LEMMA ThreadsAre == Threads = {"action", "worker"} /\ "action" # "worker"
BY DEF Threads

\* What mmal_vc_do_callback does.
LEMMA DoesCallback == ASSUME TypeInv, NEW t \in Threads, DoCallback(t) PROVE Begins(t)
<1>1. component \in Components /\ run \in [Threads -> Runs] BY DEF TypeInv, MmalType
<1>2. component.queue \in Seq(Entries) /\ component.queue # <<>>
  BY <1>1 DEF DoCallback, Components, EntrySeqs
<1>3. PICK e \in Entries : e = Head(component.queue) BY <1>2
<1>4. e.header \in HeaderNos /\ e.part \in Part BY <1>3, MmalAssumption DEF Entries, Headers, HeaderNos
<1>5. PICK r : r = [pc |-> "copy", header |-> e.header, part |-> e.part, new |-> 0, complete |-> FALSE] OBVIOUS
<1>6. r \in Runs
  <2>1. 0 \in HeaderNos /\ "copy" \in RunPcs BY MmalAssumption DEF HeaderNos, RunPcs
  <2>2. QED BY <1>4, <1>5, <2>1 DEF Runs
<1>7. run' = [run EXCEPT ![t] = r]
  <2>1. run' = [run EXCEPT ![t] = [Idle EXCEPT !.pc = "copy", !.header = e.header, !.part = e.part]]
    BY <1>3 DEF DoCallback
  <2>2. r = [Idle EXCEPT !.pc = "copy", !.header = e.header, !.part = e.part]
    <3>1. PICK q : q = Idle OBVIOUS
    <3>2. q = [pc |-> "idle", header |-> 0, part |-> NoPart, new |-> 0, complete |-> FALSE] BY <3>1 DEF Idle
    <3>3. PICK w : w = [q EXCEPT !.pc = "copy", !.header = e.header, !.part = e.part] OBVIOUS
    <3>4. r = w BY <1>5, <3>2, <3>3
    <3>5. QED BY <3>1, <3>3, <3>4, Zenon
  <2>3. QED BY <2>1, <2>2
<1>8. Tail(component.queue) \in EntrySeqs /\ t \in Owners BY <1>2 DEF EntrySeqs, Owners
<1>9. component' = [component EXCEPT !.owner = t, !.queue = Tail(component.queue)] BY DEF DoCallback
<1>10. /\ component' \in Components /\ component'.owner = t /\ component'.queue = Tail(component.queue)
       /\ component'.destroyed = component.destroyed
  BY <1>1, <1>8, <1>9 DEF Components
<1>11. QED BY <1>1, <1>2, <1>3, <1>5, <1>6, <1>7, <1>10 DEF Begins, DoCallback

\* A header is given to the VideoCore, or forgotten.
Given(h) ==
  \/ /\ port.enabled /\ port.contexts
     /\ vc' \in Vcs /\ vc'.held = Append(vc.held, h)
     /\ port' \in Ports /\ port'.transit = port.transit + 1
     /\ failed' = failed
  \/ /\ port.enabled /\ "send" \in mayFail
     /\ failed' = failed \cup {"send"}
     /\ port' = port /\ vc' = vc
  \/ ~port.enabled /\ port' = port /\ vc' = vc /\ failed' = failed
PortKept ==
  port'.enabled = port.enabled /\ port'.callback = port.callback /\ port'.contexts = port.contexts
EncoderKept ==
  /\ vc'.frame = vc.frame /\ vc'.part = vc.part /\ vc'.asked = vc.asked /\ vc'.streams = vc.streams

\* What mmal_port_send_buffer does.
LEMMA Sending ==
  ASSUME TypeInv, NEW h \in Headers, SendBuffer(h)
  PROVE  Given(h) /\ PortKept /\ EncoderKept /\ port' \in Ports /\ vc' \in Vcs
<1>1. port \in Ports /\ vc \in Vcs BY DEF TypeInv, MmalType
<1>2. CASE port.enabled /\ port.contexts /\ vc' = [vc EXCEPT !.held = Append(@, h)]
           /\ port' = [port EXCEPT !.transit = @ + 1] /\ UNCHANGED failed
  <2>1. Append(vc.held, h) \in HeaderSeqs BY <1>1 DEF Vcs, HeaderSeqs
  <2>2. vc' = [vc EXCEPT !.held = Append(vc.held, h)] BY <1>2
  <2>3. vc' \in Vcs /\ vc'.held = Append(vc.held, h) /\ EncoderKept BY <1>1, <2>1, <2>2 DEF Vcs, EncoderKept
  <2>4. port' \in Ports /\ port'.transit = port.transit + 1 /\ PortKept
    <3>1. PICK n : n = port.transit + 1 OBVIOUS
    <3>2. n \in Int BY <1>1, <3>1 DEF Ports
    <3>3. port' = [port EXCEPT !.transit = n] BY <1>2, <3>1
    <3>4. QED BY <1>1, <3>1, <3>2, <3>3 DEF Ports, PortKept
  <2>5. QED BY <1>2, <2>3, <2>4 DEF Given
<1>3. CASE port.enabled /\ MayFail("send") /\ failed' = failed \cup {"send"} /\ UNCHANGED <<port, vc>>
  BY <1>1, <1>3 DEF Given, PortKept, EncoderKept, MayFail
<1>4. CASE ~port.enabled /\ UNCHANGED <<port, vc, failed>>
  BY <1>1, <1>4 DEF Given, PortKept, EncoderKept
<1>5. QED BY <1>2, <1>3, <1>4 DEF SendBuffer, VcSend

-----------------------------------------------------------------------------
(* What the steps of a callback do.                                        *)

\* A thread goes on in its callback.
Goes(t, r) == run' \in [Threads -> Runs] /\ run'[t] = r /\ \A u \in Threads \ {t} : run'[u] = run[u]

\* A thread whose record is replaced: the others are where they were.
LEMMA RunSet ==
  ASSUME run \in [Threads -> Runs], NEW t \in Threads, NEW r \in Runs, run' = [run EXCEPT ![t] = r]
  PROVE  Goes(t, r)
BY DEF Goes

\* Only where it is changes.
At(t, pc) ==
  [pc |-> pc, header |-> run[t].header, part |-> run[t].part, new |-> run[t].new, complete |-> run[t].complete]

\* A thread that only goes on.
LEMMA RunGoes ==
  ASSUME run \in [Threads -> Runs], NEW t \in Threads, NEW pc \in RunPcs, run' = [run EXCEPT ![t].pc = pc]
  PROVE  Goes(t, At(t, pc))
<1>1. [run[t] EXCEPT !.pc = pc] = At(t, pc) BY DEF Runs, At
<1>2. [run[t] EXCEPT !.pc = pc] \in Runs BY DEF Runs
<1>3. run' = [run EXCEPT ![t] = [run[t] EXCEPT !.pc = pc]] OBVIOUS
<1>4. QED BY <1>1, <1>2, <1>3, RunSet

\* And the header it has got, or that the picture is complete.
LEMMA RunGets ==
  ASSUME run \in [Threads -> Runs], NEW t \in Threads, NEW pc \in RunPcs, NEW new \in HeaderNos,
         run' = [run EXCEPT ![t].pc = pc, ![t].new = new]
  PROVE  Goes(t, [pc |-> pc, header |-> run[t].header, part |-> run[t].part, new |-> new,
                  complete |-> run[t].complete])
<1>1. [run[t] EXCEPT !.pc = pc, !.new = new]
        = [pc |-> pc, header |-> run[t].header, part |-> run[t].part, new |-> new, complete |-> run[t].complete]
  <2>1. PICK q \in Runs : q = run[t] OBVIOUS
  <2>2. q = [pc |-> q.pc, header |-> q.header, part |-> q.part, new |-> q.new, complete |-> q.complete] BY DEF Runs
  <2>3. PICK w : w = [q EXCEPT !.pc = pc, !.new = new] OBVIOUS
  <2>4. w = [pc |-> pc, header |-> q.header, part |-> q.part, new |-> new, complete |-> q.complete]
    BY <2>2, <2>3
  <2>5. QED BY <2>1, <2>3, <2>4, Zenon
<1>2. [run[t] EXCEPT !.pc = pc, !.new = new] \in Runs BY <1>1 DEF Runs
<1>3. run' = [run EXCEPT ![t] = [run[t] EXCEPT !.pc = pc, !.new = new]] BY Zenon
<1>4. QED BY <1>1, <1>2, <1>3, RunSet, ZenonT(30)

\* And that the picture is complete.
LEMMA RunCompletes ==
  ASSUME run \in [Threads -> Runs], NEW t \in Threads,
         run' = [run EXCEPT ![t].pc = "release", ![t].complete = TRUE]
  PROVE  Goes(t, [pc |-> "release", header |-> run[t].header, part |-> run[t].part, new |-> run[t].new,
                  complete |-> TRUE])
<1>1. PICK q \in Runs : q = run[t] OBVIOUS
<1>2. q = [pc |-> q.pc, header |-> q.header, part |-> q.part, new |-> q.new, complete |-> q.complete] BY DEF Runs
<1>3. PICK w : w = [q EXCEPT !.pc = "release", !.complete = TRUE] OBVIOUS
<1>4. w = [pc |-> "release", header |-> q.header, part |-> q.part, new |-> q.new, complete |-> TRUE] BY <1>2, <1>3
<1>5. "release" \in RunPcs BY DEF RunPcs
<1>6. w \in Runs BY <1>4, <1>5 DEF Runs
<1>7. run' = [run EXCEPT ![t] = w]
  <2>1. run' = [run EXCEPT ![t] = [run[t] EXCEPT !.pc = "release", !.complete = TRUE]] BY Zenon
  <2>2. QED BY <1>1, <1>3, <2>1, Zenon
<1>8. QED BY <1>1, <1>4, <1>6, <1>7, RunSet

\* A part is copied, if it has data; the first one locks db.
Copies(t) ==
  /\ run[t].pc = "copy"
  /\ Goes(t, At(t, IF run[t].part.last \/ run[t].part.aborted THEN "end" ELSE "release"))
  /\ board' \in BoardsOf /\ board'.size = board.size
  /\ IF run[t].part.data
     THEN /\ offset = 0 => board.owner = "none"
          /\ board'.owner = IF offset = 0 THEN "callback" ELSE board.owner
          /\ board'.buf = [board.buf EXCEPT ![offset + 1] = run[t].part]
          /\ offset' = offset + 1
     ELSE board' = board /\ offset' = offset
  /\ UNCHANGED <<pool, port, component, vc, mayFail, failed, fault, stills, stop, worker, semaphore, reader>>

\* The code copies the part of the buffer as Copies says.
LEMMA CopyDone == ASSUME TypeInv, NEW t \in Threads, CopyPart(t) PROVE Copies(t)
<1>1. run \in [Threads -> Runs] /\ board \in BoardsOf BY DEF TypeInv, MmalType, PluginType
<1>2. /\ run[t].pc = "copy"
      /\ UNCHANGED <<pool, port, component, vc, mayFail, failed, fault, stills, stop, worker, semaphore, reader>>
  BY DEF CopyPart, CallbackSteps
<1>3. PICK p \in Part : p = run[t].part BY <1>1 DEF Runs
<1>4. /\ p.data /\ offset = 0 => board.owner = "none"
      /\ board' = IF ~p.data THEN board
                  ELSE [board EXCEPT !.owner = IF offset = 0 THEN "callback" ELSE @, !.buf[offset + 1] = p]
      /\ offset' = IF p.data THEN offset + 1 ELSE offset
      /\ run' = [run EXCEPT ![t].pc = IF p.last \/ p.aborted THEN "end" ELSE "release"]
  BY <1>3 DEF CopyPart
<1>5. Goes(t, At(t, IF p.last \/ p.aborted THEN "end" ELSE "release"))
  <2>1. (IF p.last \/ p.aborted THEN "end" ELSE "release") \in RunPcs BY DEF RunPcs
  <2>2. QED BY <1>1, <1>4, <2>1, RunGoes
<1>6. ASSUME p.data
      PROVE  /\ board' \in BoardsOf /\ board'.size = board.size
             /\ board'.owner = IF offset = 0 THEN "callback" ELSE board.owner
             /\ board'.buf = [board.buf EXCEPT ![offset + 1] = p]
  <2>1. PICK o : o = IF offset = 0 THEN "callback" ELSE board.owner OBVIOUS
  <2>2. PICK b : b = [board.buf EXCEPT ![offset + 1] = p] OBVIOUS
  <2>3. o \in Lockers BY <1>1, <2>1 DEF BoardsOf, Lockers
  <2>4. b \in Buffers BY <1>1, <2>2 DEF BoardsOf, Buffers
  <2>5. PICK w : w = [board EXCEPT !.owner = o, !.buf = b] OBVIOUS
  <2>6. board = [owner |-> board.owner, live |-> board.live, buf |-> board.buf, size |-> board.size]
    BY <1>1 DEF BoardsOf
  <2>7. w = [owner |-> o, live |-> board.live, buf |-> b, size |-> board.size] BY <2>5, <2>6
  <2>8. board' = [board EXCEPT !.owner = IF offset = 0 THEN "callback" ELSE @, !.buf[offset + 1] = p] BY <1>4, <1>6
  <2>9. board' = w BY <2>1, <2>2, <2>5, <2>6, <2>8
  <2>10. QED BY <1>1, <2>1, <2>2, <2>3, <2>4, <2>7, <2>9 DEF BoardsOf
<1>7. QED BY <1>1, <1>2, <1>3, <1>4, <1>5, <1>6 DEF Copies

\* The end of a picture.
Completes(t) ==
  /\ run[t].pc = "end"
  /\ Goes(t, [pc |-> "release", header |-> run[t].header, part |-> run[t].part, new |-> run[t].new,
              complete |-> TRUE])
  /\ board' \in BoardsOf /\ board'.size = offset /\ board'.owner = "none" /\ board'.buf = board.buf
  /\ offset' = 0
  /\ reader'.pc = (IF reader.pc = "wait" THEN "woken" ELSE reader.pc)
  /\ reader'.size = reader.size /\ reader'.got = reader.got
  /\ reader' = [pc |-> reader'.pc, size |-> reader'.size, got |-> reader'.got]
  /\ UNCHANGED <<pool, port, component, vc, mayFail, failed, fault, stills, stop, worker, semaphore>>

\* At the end of a part the picture is passed on, or is not yet complete.
LEMMA EndDone == ASSUME TypeInv, NEW t \in Threads, EndPicture(t) PROVE Completes(t)
<1>1. /\ run \in [Threads -> Runs] /\ board \in BoardsOf /\ offset \in Nat
      /\ reader = [pc |-> reader.pc, size |-> reader.size, got |-> reader.got]
  BY DEF TypeInv, MmalType, PluginType
<1>2. run' = [run EXCEPT ![t].pc = "release", ![t].complete = TRUE] BY DEF EndPicture
<1>3. board' \in BoardsOf /\ board'.size = offset /\ board'.owner = "none" /\ board'.buf = board.buf
  <2>1. board' = [board EXCEPT !.size = offset, !.owner = "none"] BY DEF EndPicture
  <2>2. "none" \in Lockers BY DEF Lockers
  <2>3. QED BY <1>1, <2>1, <2>2 DEF BoardsOf
<1>4. /\ reader'.pc = (IF reader.pc = "wait" THEN "woken" ELSE reader.pc)
      /\ reader'.size = reader.size /\ reader'.got = reader.got
      /\ reader' = [pc |-> reader'.pc, size |-> reader'.size, got |-> reader'.got]
  BY <1>1 DEF EndPicture
<1>5. Goes(t, [pc |-> "release", header |-> run[t].header, part |-> run[t].part, new |-> run[t].new,
               complete |-> TRUE])
  BY <1>1, <1>2, RunCompletes
<1>6. QED BY <1>3, <1>4, <1>5 DEF Completes, EndPicture, CallbackSteps

\* A header goes back to the queue of the pool.
Returns(t) ==
  /\ run[t].pc = "release"
  /\ pool' \in Pools /\ pool'.state = pool.state /\ pool'.queue = Append(pool.queue, run[t].header)
  /\ Goes(t, At(t, IF port.enabled THEN "get" ELSE "done"))
  /\ UNCHANGED <<port, component, vc, mayFail, failed, fault, pluginVars>>

\* A header that is released is given back to the pool, or to nobody.
LEMMA ReleaseDone ==
  ASSUME TypeInv, NEW t \in Threads, Release(t), run[t].header \in Headers PROVE Returns(t)
<1>1. run \in [Threads -> Runs] /\ pool \in Pools BY DEF TypeInv, MmalType
<1>2. pool' \in Pools /\ pool'.state = pool.state /\ pool'.queue = Append(pool.queue, run[t].header)
  <2>1. pool' = [pool EXCEPT !.queue = Append(pool.queue, run[t].header)] BY DEF Release, HeaderRelease, Put
  <2>2. Append(pool.queue, run[t].header) \in HeaderSeqs BY <1>1 DEF Pools, HeaderSeqs
  <2>3. QED BY <1>1, <2>1, <2>2 DEF Pools
<1>3. Goes(t, At(t, IF port.enabled THEN "get" ELSE "done"))
  <2>1. (IF port.enabled THEN "get" ELSE "done") \in RunPcs BY DEF RunPcs
  <2>2. run' = [run EXCEPT ![t].pc = IF port.enabled THEN "get" ELSE "done"] BY DEF Release
  <2>3. QED BY <1>1, <2>1, <2>2, RunGoes
<1>4. QED BY <1>2, <1>3 DEF Returns, Release, CallbackSteps

\* The first header of the queue of the pool is taken.
Takes == /\ pool.queue # <<>> /\ Head(pool.queue) \in Headers
         /\ pool' \in Pools /\ pool'.state = pool.state /\ pool'.queue = Tail(pool.queue)

\* mmal_queue_get takes the first header of the pool.
LEMMA Taking ==
  ASSUME TypeInv, pool.queue # <<>>, pool' = [pool EXCEPT !.queue = Tail(@)]
  PROVE  Takes
<1>1. pool \in Pools BY DEF TypeInv, MmalType
<1>2. Tail(pool.queue) \in HeaderSeqs /\ Head(pool.queue) \in Headers BY <1>1 DEF Pools, HeaderSeqs
<1>3. pool' = [pool EXCEPT !.queue = Tail(pool.queue)] OBVIOUS
<1>4. QED BY <1>1, <1>2, <1>3 DEF Pools, Takes

\* Another header for the port, if there is one.
Gets(t) ==
  /\ run[t].pc = "get"
  /\ \/ /\ Takes
        /\ Goes(t, [pc |-> "send", header |-> run[t].header, part |-> run[t].part, new |-> Head(pool.queue),
                    complete |-> run[t].complete])
     \/ pool' = pool /\ pool.queue = <<>> /\ Goes(t, At(t, "done"))
  /\ UNCHANGED <<port, component, vc, mayFail, failed, fault, pluginVars>>

\* A callback takes a header from the pool, when there is one.
LEMMA GetDone == ASSUME TypeInv, NEW t \in Threads, GetHeader(t) PROVE Gets(t)
<1>1. run \in [Threads -> Runs] BY DEF TypeInv, MmalType
<1>2. "send" \in RunPcs /\ "done" \in RunPcs BY DEF RunPcs
<1>3. CASE pool.queue # <<>>
  <2>1. Takes BY <1>3, Taking DEF GetHeader
  <2>2. Head(pool.queue) \in HeaderNos BY <2>1, MmalAssumption DEF Takes, Headers, HeaderNos
  <2>3. run' = [run EXCEPT ![t].pc = "send", ![t].new = Head(pool.queue)] BY <1>3 DEF GetHeader
  <2>4. Goes(t, [pc |-> "send", header |-> run[t].header, part |-> run[t].part, new |-> Head(pool.queue),
                 complete |-> run[t].complete])
    BY <1>1, <1>2, <2>2, <2>3, RunGets
  <2>5. QED BY <2>1, <2>4 DEF Gets, GetHeader, CallbackSteps
<1>4. CASE pool.queue = <<>>
  <2>1. run' = [run EXCEPT ![t].pc = "done"] /\ pool' = pool BY <1>4 DEF GetHeader
  <2>2. Goes(t, At(t, "done")) BY <1>1, <1>2, <2>1, RunGoes
  <2>3. QED BY <1>4, <2>1, <2>2 DEF Gets, GetHeader, CallbackSteps
<1>5. QED BY <1>3, <1>4

\* The port gets the header.
Refills(t) ==
  /\ run[t].pc = "send"
  /\ Given(run[t].new) /\ PortKept /\ EncoderKept /\ port' \in Ports /\ vc' \in Vcs
  /\ Goes(t, [pc |-> "done", header |-> run[t].header, part |-> run[t].part, new |-> 0,
              complete |-> run[t].complete])
  /\ UNCHANGED <<pool, component, mayFail, fault, pluginVars>>

\* A callback sends the header that it has to the VideoCore, or fails to.
LEMMA SendDone ==
  ASSUME TypeInv, NEW t \in Threads, SendHeader(t), run[t].new \in Headers PROVE Refills(t)
<1>1. run \in [Threads -> Runs] BY DEF TypeInv, MmalType
<1>2. "done" \in RunPcs /\ 0 \in HeaderNos BY MmalAssumption DEF RunPcs, HeaderNos
<1>3. Given(run[t].new) /\ PortKept /\ EncoderKept /\ port' \in Ports /\ vc' \in Vcs
  <2>1. PICK h \in Headers : h = run[t].new OBVIOUS
  <2>2. SendBuffer(h) BY <2>1 DEF SendHeader
  <2>3. QED BY <2>1, <2>2, Sending
<1>4. run' = [run EXCEPT ![t].pc = "done", ![t].new = 0] BY DEF SendHeader
<1>5. Goes(t, [pc |-> "done", header |-> run[t].header, part |-> run[t].part, new |-> 0, complete |-> run[t].complete])
  BY <1>1, <1>2, <1>4, RunGets
<1>6. QED BY <1>3, <1>5 DEF Refills, SendHeader, CallbackSteps

\* The callback returns, and posts the semaphore after the end of a picture.
Finishes(t) ==
  /\ run[t].pc = "done"
  /\ Goes(t, Idle)
  /\ port' \in Ports /\ port'.transit = port.transit - 1 /\ PortKept
  /\ component' \in Components /\ component'.queue = component.queue
  /\ component'.destroyed = component.destroyed
  /\ component'.owner = IF t = "action" THEN "none" ELSE component.owner
  /\ semaphore' \in Semaphores /\ semaphore'.live = semaphore.live
  /\ semaphore'.count = semaphore.count + Bit(run[t].complete /\ semaphore.live)
  /\ semaphore'.misused <=> semaphore.misused \/ (run[t].complete /\ ~semaphore.live)
  /\ UNCHANGED <<pool, vc, mayFail, failed, fault, stills, stop, worker, offset, board, reader>>

\* A callback ends, and with it what its thread does.
LEMMA CallbackDone == ASSUME TypeInv, NEW t \in Threads, CallbackEnds(t) PROVE Finishes(t)
<1>1. /\ run \in [Threads -> Runs] /\ port \in Ports /\ component \in Components
      /\ semaphore \in Semaphores
  BY DEF TypeInv, MmalType, PluginType
<1>2. Idle \in Runs
  <2>1. 0 \in HeaderNos /\ "idle" \in RunPcs BY MmalAssumption DEF HeaderNos, RunPcs
  <2>2. NoPart \in Part BY MmalAssumption DEF NoPart, Part
  <2>3. QED BY <2>1, <2>2 DEF Idle, Runs
<1>3. Goes(t, Idle) BY <1>1, <1>2, RunSet DEF CallbackEnds, CallbackReturns
<1>4. port' \in Ports /\ port'.transit = port.transit - 1 /\ PortKept
  <2>1. PICK n : n = port.transit - 1 OBVIOUS
  <2>2. n \in Int BY <1>1, <2>1 DEF Ports
  <2>3. port' = [port EXCEPT !.transit = n] BY <2>1 DEF CallbackEnds, CallbackReturns
  <2>4. QED BY <1>1, <2>1, <2>2, <2>3 DEF Ports, PortKept
<1>5. /\ component' \in Components /\ component'.queue = component.queue
      /\ component'.destroyed = component.destroyed
      /\ component'.owner = IF t = "action" THEN "none" ELSE component.owner
  <2>1. "none" \in Owners BY DEF Owners
  <2>2. QED BY <1>1, <2>1 DEF CallbackEnds, CallbackReturns, Components
<1>6. /\ semaphore' \in Semaphores /\ semaphore'.live = semaphore.live
      /\ semaphore'.count = semaphore.count + Bit(run[t].complete /\ semaphore.live)
      /\ semaphore'.misused <=> semaphore.misused \/ (run[t].complete /\ ~semaphore.live)
  <2>1. semaphore' = IF ~run[t].complete THEN semaphore
                     ELSE IF semaphore.live THEN [semaphore EXCEPT !.count = semaphore.count + 1]
                     ELSE [semaphore EXCEPT !.misused = TRUE]
    BY DEF CallbackEnds
  <2>2. semaphore.count \in Nat /\ semaphore.count + 1 \in Nat /\ semaphore.count + 0 = semaphore.count
    BY <1>1 DEF Semaphores
  <2>3. CASE ~run[t].complete BY <1>1, <2>1, <2>2, <2>3 DEF Bit
  <2>4. CASE run[t].complete /\ semaphore.live BY <1>1, <2>1, <2>2, <2>4 DEF Semaphores, Bit
  <2>5. CASE run[t].complete /\ ~semaphore.live BY <1>1, <2>1, <2>2, <2>5 DEF Semaphores, Bit
  <2>6. QED BY <2>3, <2>4, <2>5
<1>7. QED BY <1>3, <1>4, <1>5, <1>6 DEF Finishes, CallbackEnds, CallbackSteps

-----------------------------------------------------------------------------
(* What the steps of the worker do.                                        *)

\* The worker goes on.
WorkerAt(pc) ==
  /\ worker' \in Workers /\ worker'.pc = pc
  /\ worker'.num = worker.num /\ worker'.hand = worker.hand /\ worker'.round = worker.round /\ worker'.ok = worker.ok

\* The worker goes on to a place that it has.
LEMMA WorkerMoves == ASSUME worker \in Workers, NEW pc \in WorkerPcs, WorkerGoes(pc) PROVE WorkerAt(pc)
BY DEF Workers, WorkerGoes, WorkerAt

\* All places of the worker are in one set.
LEMMA Pcs == \A pc \in Opening \cup Shooting \cup Closing \cup {"exit"} : pc \in WorkerPcs
BY DEF WorkerPcs

\* It sets up, or fails to.
SetsUp ==
  /\ \/ worker.pc = "camera" /\ WorkerAt("encoder")
     \/ worker.pc = "encoder" /\ WorkerAt("pool")
     \/ worker.pc \in Opening /\ WorkerAt("exit")
  /\ UNCHANGED <<mmalVars, stills, stop, semaphore, offset, board, reader>>

\* The camera and the encoder are created, or the plugin gives up.
LEMMA OpensUp ==
  ASSUME TypeInv, CreateComponents \/ SetupFails
  PROVE  SetsUp
<1> USE DEF SetsUp
<1>1. worker \in Workers BY DEF TypeInv, PluginType
<1>2. CASE CreateComponents
  <2>1. NextStage["camera"] = "encoder" /\ NextStage["encoder"] = "pool" BY DEF NextStage
  <2>2. "encoder" \in WorkerPcs /\ "pool" \in WorkerPcs BY DEF WorkerPcs, Opening
  <2>3. QED BY <1>1, <1>2, <2>1, <2>2, WorkerMoves DEF CreateComponents
<1>3. CASE SetupFails
  <2>1. "exit" \in WorkerPcs BY DEF WorkerPcs
  <2>2. QED BY <1>1, <1>3, <2>1, WorkerMoves DEF SetupFails, Opening
<1>4. QED BY <1>2, <1>3

\* The pool is made, with all headers.
PoolMade ==
  /\ worker.pc = "pool" /\ WorkerAt("connect")
  /\ pool' = [state |-> "live", queue |-> [i \in Headers |-> i]] /\ pool' \in Pools
  /\ UNCHANGED <<port, component, vc, run, mayFail, failed, fault, stills, stop, semaphore, offset, board,
                 reader>>

\* The pool is made with all its headers in it.
LEMMA MakesPool ==
  ASSUME TypeInv, CreatePool
  PROVE  PoolMade
<1> USE DEF PoolMade
<1>1. worker \in Workers /\ "connect" \in WorkerPcs BY DEF TypeInv, PluginType, WorkerPcs, Opening
<1>2. [i \in Headers |-> i] \in HeaderSeqs BY MmalAssumption DEF Headers, HeaderSeqs
<1>3. "live" \in PoolStates BY DEF PoolStates
<1>4. QED BY <1>1, <1>2, <1>3, WorkerMoves DEF CreatePool, PoolCreate, AtWorker, Pools

\* The camera is connected to the encoder, or no longer.
Connected ==
  /\ \/ worker.pc = "connect" /\ WorkerAt("enable")
     \/ worker.pc = "disconnect" /\ WorkerAt("pools")
  /\ vc' \in Vcs /\ vc'.held = vc.held /\ EncoderKept
  /\ vc' = [held |-> vc.held, frame |-> vc.frame, part |-> vc.part, asked |-> vc.asked,
            streams |-> vc.streams, fed |-> vc'.fed]
  /\ UNCHANGED <<pool, port, component, run, mayFail, failed, fault, stills, stop, semaphore, offset, board,
                 reader>>

\* The camera is connected to the encoder, and disconnected from it.
LEMMA Connects ==
  ASSUME TypeInv, Connect \/ Disconnect
  PROVE  Connected
<1> USE DEF Connected
<1>1. worker \in Workers /\ vc \in Vcs BY DEF TypeInv, MmalType, PluginType
<1>2. "enable" \in WorkerPcs /\ "pools" \in WorkerPcs BY DEF WorkerPcs, Opening, Closing, Disabled
<1>3. PICK fed \in BOOLEAN : vc' = [vc EXCEPT !.fed = fed]
  <2>1. Connect => vc' = [vc EXCEPT !.fed = TRUE] BY DEF Connect
  <2>2. Disconnect => vc' = [vc EXCEPT !.fed = FALSE] BY DEF Disconnect
  <2>3. QED BY <2>1, <2>2
<1>4. /\ vc' \in Vcs /\ vc'.held = vc.held /\ EncoderKept
      /\ vc' = [held |-> vc.held, frame |-> vc.frame, part |-> vc.part, asked |-> vc.asked,
                streams |-> vc.streams, fed |-> vc'.fed]
  BY <1>1, <1>3 DEF Vcs, EncoderKept
<1>5. CASE Connect BY <1>1, <1>2, <1>4, <1>5, WorkerMoves DEF Connect, AtWorker
<1>6. CASE Disconnect BY <1>1, <1>2, <1>4, <1>6, WorkerMoves DEF Disconnect, AtWorker, Unmoved
<1>7. QED BY <1>5, <1>6

\* The port is enabled and the semaphore made.
PortEnabled ==
  /\ worker.pc = "enable" /\ WorkerAt(IF stills THEN "loop" ELSE "count")
  /\ port' \in Ports /\ port'.enabled /\ port'.callback /\ port'.contexts /\ port'.transit = port.transit
  /\ semaphore' \in Semaphores /\ semaphore'.live /\ semaphore'.count = semaphore.count
  /\ semaphore'.misused = semaphore.misused
  /\ UNCHANGED <<pool, component, vc, run, mayFail, failed, fault, stills, stop, offset, board, reader>>

\* The port is enabled, and the semaphore made.
LEMMA Enables ==
  ASSUME TypeInv, EnablePort
  PROVE  PortEnabled
<1> USE DEF PortEnabled
<1>1. worker \in Workers /\ port \in Ports /\ semaphore \in Semaphores BY DEF TypeInv, MmalType, PluginType
<1>2. (IF stills THEN "loop" ELSE "count") \in WorkerPcs BY DEF WorkerPcs, Shooting
<1>3. /\ port' \in Ports /\ port'.enabled /\ port'.callback /\ port'.contexts /\ port'.transit = port.transit
  <2>1. PICK p : p = [port EXCEPT !.contexts = TRUE] OBVIOUS
  <2>2. port = [enabled |-> port.enabled, callback |-> port.callback, contexts |-> port.contexts,
                transit |-> port.transit]
    BY <1>1 DEF Ports
  <2>3. p = [enabled |-> port.enabled, callback |-> port.callback, contexts |-> TRUE, transit |-> port.transit]
    BY <2>1, <2>2
  <2>4. port' = [p EXCEPT !.enabled = TRUE, !.callback = TRUE] BY <2>1 DEF EnablePort, PortEnable, VcPortEnable
  <2>5. port' = [enabled |-> TRUE, callback |-> TRUE, contexts |-> TRUE, transit |-> port.transit] BY <2>3, <2>4
  <2>6. QED BY <1>1, <2>5 DEF Ports
<1>4. /\ semaphore' \in Semaphores /\ semaphore'.live /\ semaphore'.count = semaphore.count
      /\ semaphore'.misused = semaphore.misused
  BY <1>1 DEF Semaphores, EnablePort
<1>5. QED BY <1>1, <1>2, <1>3, <1>4, WorkerMoves DEF EnablePort, AtWorker

\* It decides what to do next.
Decided ==
  /\ worker' \in Workers /\ worker'.num = worker.num /\ worker'.hand = worker.hand /\ worker'.ok = worker.ok
  /\ \/ worker.pc \in {"loop", "sleep"} /\ stop /\ worker'.pc = "delete" /\ worker'.round = worker.round
     \/ /\ worker.pc = "loop" /\ worker'.pc = "count" /\ worker'.round = worker.round
        /\ vc.frame + vc.asked < MaxFrames
     \/ worker.pc \in {"pools", "components"} /\ port.enabled /\ worker'.pc = "off"
  /\ UNCHANGED <<mmalVars, stills, stop, semaphore, offset, board, reader>>

\* The worker only decides where to go on.
LEMMA Decides ==
  ASSUME TypeInv, StillsLoop \/ Sleep \/ DisableAgain
  PROVE  Decided
<1> USE DEF Decided
<1>1. worker \in Workers BY DEF TypeInv, PluginType
<1>2. "delete" \in WorkerPcs /\ "count" \in WorkerPcs /\ "off" \in WorkerPcs
  BY DEF WorkerPcs, Shooting, Closing, Disabling
<1>3. CASE StillsLoop BY <1>1, <1>2, <1>3, WorkerMoves DEF StillsLoop, AtWorker, Unmoved, WorkerAt
<1>4. CASE Sleep BY <1>1, <1>2, <1>4, WorkerMoves DEF Sleep, AtWorker, Unmoved, WorkerAt
<1>5. CASE DisableAgain
  <2>1. PICK round \in Rounds : worker' = [worker EXCEPT !.pc = "off", !.round = round]
    <3>1. CASE AtWorker("pools")
      <4>1. worker' = [worker EXCEPT !.pc = "off", !.round = 2] BY <1>5, <3>1 DEF DisableAgain
      <4>2. QED BY <4>1 DEF Rounds
    <3>2. CASE ~AtWorker("pools")
      <4>1. worker' = [worker EXCEPT !.pc = "off", !.round = 3] BY <1>5, <3>2 DEF DisableAgain
      <4>2. QED BY <4>1 DEF Rounds
    <3>3. QED BY <3>1, <3>2
  <2>2. /\ worker' \in Workers /\ worker'.num = worker.num /\ worker'.hand = worker.hand
        /\ worker'.ok = worker.ok /\ worker'.pc = "off"
    BY <1>1, <1>2, <2>1 DEF Workers
  <2>3. QED BY <1>5, <2>2 DEF DisableAgain, AtWorker, Unmoved
<1>6. QED BY <1>3, <1>4, <1>5

\* It counts the headers in the queue of the pool.
Counted ==
  /\ worker.pc = "count" /\ worker'.pc = "take" /\ worker'.num = Len(pool.queue)
  /\ worker' \in Workers /\ worker'.hand = worker.hand
  /\ UNCHANGED <<mmalVars, stills, stop, semaphore, offset, board, reader>>

\* The headers of the pool are counted, and no more is to be given.
LEMMA Counts ==
  ASSUME TypeInv, CountHeaders
  PROVE  Counted
<1> USE DEF Counted
<1>1. worker \in Workers /\ "take" \in WorkerPcs BY DEF TypeInv, PluginType, WorkerPcs, Shooting
<1>2. PICK n : n = Len(pool.queue) OBVIOUS
<1>3. n \in Nat
  <2>1. pool.queue \in Seq(Headers) BY DEF TypeInv, MmalType, Pools, HeaderSeqs
  <2>2. QED BY <1>2, <2>1
<1>4. worker' = [worker EXCEPT !.pc = "take", !.num = n] BY <1>2 DEF CountHeaders
<1>5. QED BY <1>1, <1>2, <1>3, <1>4 DEF CountHeaders, AtWorker, Unmoved, Workers

\* It takes a header, if there is one.
HeaderTaken ==
  /\ worker.pc = "take" /\ worker' \in Workers
  /\ \/ /\ worker.num = 0 /\ WorkerAt("capture") /\ UNCHANGED <<pool, fault>>
     \/ /\ worker.num > 0 /\ Takes /\ worker'.pc = "give" /\ worker'.hand = Head(pool.queue)
        /\ worker'.num = worker.num /\ UNCHANGED fault
     \/ worker.num > 0 /\ pool.queue = <<>> /\ fault' = "null header" /\ UNCHANGED <<pool, worker>>
  /\ UNCHANGED <<port, component, vc, run, mayFail, failed, stills, stop, semaphore, offset, board, reader>>

\* The worker takes a header from the pool, when there is one.
LEMMA TakesHeader ==
  ASSUME TypeInv, TakeHeader
  PROVE  HeaderTaken
<1> USE DEF HeaderTaken
<1>1. worker \in Workers BY DEF TypeInv, PluginType
<1>2. "capture" \in WorkerPcs /\ "give" \in WorkerPcs BY DEF WorkerPcs, Shooting
<1>3. /\ worker.pc = "take"
      /\ UNCHANGED <<port, component, vc, run, mayFail, failed, stills, stop, semaphore, offset, board, reader>>
  BY DEF TakeHeader, AtWorker, Unmoved
<1>4. CASE worker.num = 0 /\ WorkerGoes("capture") /\ UNCHANGED <<pool, fault>>
  BY <1>1, <1>2, <1>3, <1>4, WorkerMoves DEF WorkerAt
<1>5. CASE /\ worker.num > 0 /\ pool.queue # <<>>
           /\ worker' = [worker EXCEPT !.pc = "give", !.hand = Head(pool.queue)]
           /\ pool' = [pool EXCEPT !.queue = Tail(@)]
           /\ UNCHANGED fault
  <2>1. Takes BY <1>5, Taking
  <2>2. PICK h \in HeaderNos : h = Head(pool.queue)
    BY <2>1, MmalAssumption DEF Takes, Headers, HeaderNos
  <2>3. worker' = [worker EXCEPT !.pc = "give", !.hand = h] BY <1>5, <2>2
  <2>4. worker' \in Workers /\ worker'.pc = "give" /\ worker'.hand = h /\ worker'.num = worker.num
    BY <1>1, <1>2, <2>2, <2>3 DEF Workers
  <2>5. QED BY <1>3, <1>5, <2>1, <2>2, <2>4
<1>6. CASE worker.num > 0 /\ pool.queue = <<>> /\ fault' = "null header" /\ UNCHANGED <<pool, worker>>
  BY <1>1, <1>3, <1>6
<1>7. QED BY <1>4, <1>5, <1>6 DEF TakeHeader

\* And gives it to the port.
HeaderGiven ==
  /\ worker.pc = "give" /\ worker' \in Workers /\ worker'.pc = "take" /\ worker'.hand = 0
  /\ worker'.num = worker.num - 1
  /\ Given(worker.hand) /\ PortKept /\ EncoderKept /\ port' \in Ports /\ vc' \in Vcs
  /\ UNCHANGED <<pool, component, run, mayFail, fault, stills, stop, semaphore, offset, board, reader>>

\* The worker gives the header that it has to the port, or fails to.
LEMMA GivesHeader ==
  ASSUME TypeInv, GiveHeader, worker.hand \in Headers, worker.num > 0
  PROVE  HeaderGiven
<1> USE DEF HeaderGiven
<1>1. worker \in Workers BY DEF TypeInv, PluginType
<1>2. "take" \in WorkerPcs /\ 0 \in HeaderNos BY MmalAssumption DEF WorkerPcs, Shooting, HeaderNos
<1>3. PICK h \in Headers : h = worker.hand OBVIOUS
<1>4. Given(h) /\ PortKept /\ EncoderKept /\ port' \in Ports /\ vc' \in Vcs
  BY <1>3, Sending DEF GiveHeader
<1>5. PICK n : n = worker.num - 1 OBVIOUS
<1>6. n \in Nat BY <1>1, <1>5 DEF Workers
<1>7. worker' = [worker EXCEPT !.pc = "take", !.hand = 0, !.num = n]
  BY <1>1, <1>5 DEF GiveHeader, Workers
<1>8. worker' \in Workers /\ worker'.pc = "take" /\ worker'.hand = 0 /\ worker'.num = n
  BY <1>1, <1>2, <1>6, <1>7 DEF Workers
<1>9. QED BY <1>3, <1>4, <1>5, <1>8 DEF GiveHeader, AtWorker, Unmoved

\* It asks for a picture, or starts the video.
Captured ==
  /\ worker.pc = "capture" /\ vc' \in Vcs /\ vc'.held = vc.held /\ vc'.frame = vc.frame /\ vc'.part = vc.part
  /\ \/ /\ stills /\ vc'.asked = vc.asked + 1 /\ vc'.streams = vc.streams /\ WorkerAt("await") /\ failed' = failed
     \/ /\ ~stills /\ vc'.asked = vc.asked /\ vc'.streams /\ WorkerAt("sleep") /\ failed' = failed
     \/ /\ vc' = vc /\ failed' = failed \cup {"capture"} /\ "capture" \in mayFail
        /\ WorkerAt(IF stills THEN "loop" ELSE "sleep")
  /\ UNCHANGED <<pool, port, component, run, mayFail, fault, stills, stop, semaphore, offset, board, reader>>

\* The worker asks for a picture, or for the stream to begin.
LEMMA Captures ==
  ASSUME TypeInv, Capture
  PROVE  Captured
<1> USE DEF Captured
<1>1. worker \in Workers /\ vc \in Vcs BY DEF TypeInv, MmalType, PluginType
<1>2. "await" \in WorkerPcs /\ "sleep" \in WorkerPcs /\ "loop" \in WorkerPcs BY DEF WorkerPcs, Shooting
<1>3. /\ worker.pc = "capture"
      /\ UNCHANGED <<pool, port, component, run, mayFail, fault, stills, stop, semaphore, offset, board, reader>>
  BY DEF Capture, AtWorker, Unmoved
<1>4. CASE vc' = (IF stills THEN [vc EXCEPT !.asked = @ + 1] ELSE [vc EXCEPT !.streams = TRUE])
           /\ WorkerGoes(IF stills THEN "await" ELSE "sleep") /\ UNCHANGED failed
  <2>1. CASE stills
    <3>1. PICK n : n = vc.asked + 1 OBVIOUS
    <3>2. n \in Nat BY <1>1, <3>1 DEF Vcs
    <3>3. vc' = [vc EXCEPT !.asked = n] BY <1>4, <2>1, <3>1
    <3>4. /\ vc' \in Vcs /\ vc'.held = vc.held /\ vc'.frame = vc.frame /\ vc'.part = vc.part /\ vc'.asked = n
          /\ vc'.streams = vc.streams
      BY <1>1, <3>2, <3>3 DEF Vcs
    <3>5. WorkerAt("await") BY <1>1, <1>2, <1>4, <2>1, WorkerMoves
    <3>6. QED BY <1>3, <1>4, <2>1, <3>1, <3>4, <3>5
  <2>2. CASE ~stills
    <3>1. vc' = [vc EXCEPT !.streams = TRUE] BY <1>4, <2>2
    <3>2. /\ vc' \in Vcs /\ vc'.held = vc.held /\ vc'.frame = vc.frame /\ vc'.part = vc.part
          /\ vc'.asked = vc.asked /\ vc'.streams
      BY <1>1, <3>1 DEF Vcs
    <3>3. WorkerAt("sleep") BY <1>1, <1>2, <1>4, <2>2, WorkerMoves
    <3>4. QED BY <1>3, <1>4, <2>2, <3>2, <3>3
  <2>3. QED BY <2>1, <2>2
<1>5. CASE MayFail("capture") /\ failed' = failed \cup {"capture"} /\ WorkerGoes(IF stills THEN "loop" ELSE "sleep")
           /\ UNCHANGED vc
  <2>1. WorkerAt(IF stills THEN "loop" ELSE "sleep") BY <1>1, <1>2, <1>5, WorkerMoves
  <2>2. QED BY <1>1, <1>3, <1>5, <2>1 DEF MayFail
<1>6. QED BY <1>4, <1>5 DEF Capture

\* The capture is complete.
Awaited ==
  /\ worker.pc = "await" /\ WorkerAt("loop")
  /\ semaphore.count > 0 /\ semaphore' \in Semaphores /\ semaphore'.live = semaphore.live
  /\ semaphore'.count = semaphore.count - 1 /\ semaphore'.misused = semaphore.misused
  /\ UNCHANGED <<mmalVars, stills, stop, offset, board, reader>>

\* The worker waits until the semaphore is posted.
LEMMA Awaits ==
  ASSUME TypeInv, Await
  PROVE  Awaited
<1> USE DEF Awaited
<1>1. worker \in Workers /\ semaphore \in Semaphores /\ "loop" \in WorkerPcs
  BY DEF TypeInv, PluginType, WorkerPcs, Shooting
<1>2. PICK n : n = semaphore.count - 1 OBVIOUS
<1>3. n \in Nat /\ semaphore.count > 0 BY <1>1, <1>2 DEF Await, Semaphores
<1>4. semaphore' = [semaphore EXCEPT !.count = n] BY <1>2 DEF Await
<1>5. /\ semaphore' \in Semaphores /\ semaphore'.live = semaphore.live /\ semaphore'.count = n
      /\ semaphore'.misused = semaphore.misused
  BY <1>1, <1>3, <1>4 DEF Semaphores
<1>6. QED BY <1>1, <1>2, <1>3, <1>5, WorkerMoves DEF Await, AtWorker, Unmoved

\* It deletes the semaphore.
SemaphoreDeleted ==
  /\ worker.pc = "delete" /\ WorkerAt("off")
  /\ semaphore' \in Semaphores /\ ~semaphore'.live /\ semaphore'.count = semaphore.count
  /\ semaphore'.misused = semaphore.misused
  /\ UNCHANGED <<mmalVars, stills, stop, offset, board, reader>>

\* The semaphore is deleted.
LEMMA Deletes == ASSUME TypeInv, DeleteSemaphore PROVE SemaphoreDeleted
<1>1. worker \in Workers /\ semaphore \in Semaphores BY DEF TypeInv, PluginType
<1>2. "off" \in WorkerPcs BY DEF WorkerPcs, Closing, Disabling
<1>3. /\ semaphore' \in Semaphores /\ ~semaphore'.live /\ semaphore'.count = semaphore.count
      /\ semaphore'.misused = semaphore.misused
  BY <1>1 DEF Semaphores, DeleteSemaphore
<1>4. QED BY <1>1, <1>2, <1>3, WorkerMoves DEF SemaphoreDeleted, DeleteSemaphore, AtWorker, Unmoved

\* It lets nothing more be sent.
SendingStopped ==
  /\ worker.pc = "off" /\ WorkerAt("lock")
  /\ port' \in Ports /\ ~port'.enabled /\ port'.callback = port.callback /\ port'.contexts = port.contexts
  /\ port'.transit = port.transit
  /\ UNCHANGED <<pool, component, vc, run, mayFail, failed, fault, semaphore, stills, stop, offset, board, reader>>

\* The port is disabled, and no header is sent from then on.
LEMMA TurnsOff == ASSUME TypeInv, TurnOff PROVE SendingStopped
<1>1. worker \in Workers /\ port \in Ports BY DEF TypeInv, MmalType, PluginType
<1>2. "lock" \in WorkerPcs BY DEF WorkerPcs, Closing, Disabling
<1>3. /\ port' \in Ports /\ ~port'.enabled /\ port'.callback = port.callback /\ port'.contexts = port.contexts
      /\ port'.transit = port.transit
  BY <1>1 DEF Ports, TurnOff, StopSending
<1>4. QED BY <1>1, <1>2, <1>3, WorkerMoves DEF SendingStopped, TurnOff, AtWorker, Unmoved

\* It takes action_mutex.
ActionLocked ==
  /\ worker.pc = "lock" /\ WorkerAt("message")
  /\ component.owner = "none"
  /\ component' \in Components /\ component'.owner = "worker" /\ component'.queue = component.queue
  /\ component'.destroyed = component.destroyed
  /\ UNCHANGED <<pool, port, vc, run, mayFail, failed, fault, semaphore, stills, stop, offset, board, reader>>

\* The worker locks the action thread out.
LEMMA LocksAction == ASSUME TypeInv, LockAction PROVE ActionLocked
<1>1. worker \in Workers /\ component \in Components BY DEF TypeInv, MmalType, PluginType
<1>2. "message" \in WorkerPcs BY DEF WorkerPcs, Closing, Disabling
<1>3. "worker" \in Owners BY DEF Owners, Threads
<1>4. /\ component' \in Components /\ component'.owner = "worker" /\ component'.queue = component.queue
      /\ component'.destroyed = component.destroyed
  BY <1>1, <1>3 DEF Components, LockAction, ActionLock
<1>5. QED BY <1>1, <1>2, <1>4, WorkerMoves DEF ActionLocked, LockAction, ActionLock, AtWorker, Unmoved

\* The VideoCore gives its headers back, empty, or does not.
Emptied(held) == [i \in DOMAIN held |-> [header |-> held[i], part |-> NoPart]]
PortDisabled ==
  /\ worker.pc = "message" /\ worker' \in Workers /\ worker'.pc = "drain"
  /\ worker'.num = worker.num /\ worker'.hand = worker.hand /\ worker'.round = worker.round
  /\ port' \in Ports /\ ~port'.contexts /\ port'.enabled = port.enabled /\ port'.callback = port.callback
  /\ port'.transit = port.transit
  /\ component' \in Components /\ component'.owner = component.owner /\ component'.destroyed = component.destroyed
  /\ vc' \in Vcs /\ vc'.frame = vc.frame
  /\ \/ /\ worker'.ok /\ component'.queue = component.queue \o Emptied(vc.held)
        /\ vc'.held = <<>> /\ vc'.part = 0 /\ vc'.asked = 0 /\ ~vc'.streams
        /\ fault' = (IF port.contexts \/ vc.held = <<>> THEN fault ELSE "freed context") /\ failed' = failed
     \/ /\ ~worker'.ok /\ "disable" \in mayFail /\ failed' = failed \cup {"disable"}
        /\ component' = component /\ vc' = vc /\ fault' = fault
  /\ UNCHANGED <<pool, run, mayFail, semaphore, stills, stop, offset, board, reader>>

\* The message that disables the port gives all headers back, or fails.
LEMMA DisablesPort == ASSUME TypeInv, DisablePort PROVE PortDisabled
<1>1. worker \in Workers /\ component \in Components /\ port \in Ports /\ vc \in Vcs
  BY DEF TypeInv, MmalType, PluginType
<1>2. "drain" \in WorkerPcs BY DEF WorkerPcs, Closing, Disabling
<1>3. PICK ok \in BOOLEAN : VcPortDisable(ok) /\ worker' = [worker EXCEPT !.pc = "drain", !.ok = ok]
  BY DEF DisablePort
<1>4. /\ worker' \in Workers /\ worker'.pc = "drain" /\ worker'.ok = ok
      /\ worker'.num = worker.num /\ worker'.hand = worker.hand /\ worker'.round = worker.round
  BY <1>1, <1>2, <1>3 DEF Workers
<1>5. /\ port' \in Ports /\ ~port'.contexts /\ port'.enabled = port.enabled /\ port'.callback = port.callback
      /\ port'.transit = port.transit
  <2>1. port' = [port EXCEPT !.contexts = FALSE] BY <1>3 DEF VcPortDisable
  <2>2. QED BY <1>1, <2>1 DEF Ports
<1>6. /\ worker.pc = "message"
      /\ UNCHANGED <<pool, run, mayFail, semaphore, stills, stop, offset, board, reader>>
  BY DEF DisablePort, AtWorker, Unmoved
<1>7. CASE ok /\ component' = [component EXCEPT !.queue =
                 @ \o [i \in DOMAIN vc.held |-> [header |-> vc.held[i], part |-> NoPart]]]
           /\ vc' = [vc EXCEPT !.held = <<>>, !.part = 0, !.asked = 0, !.streams = FALSE]
           /\ fault' = (IF port.contexts \/ vc.held = <<>> THEN fault ELSE "freed context")
           /\ UNCHANGED failed
  <2>1. PICK s : s = Emptied(vc.held) OBVIOUS
  <2>2. s \in Seq(Entries)
    <3>1. vc.held \in Seq(Headers) BY <1>1 DEF Vcs, HeaderSeqs
    <3>2. NoPart \in Part BY MmalAssumption DEF NoPart, Part
    <3>3. \A i \in 1 .. Len(vc.held) : [header |-> vc.held[i], part |-> NoPart] \in Entries
      BY <3>1, <3>2 DEF Entries
    <3>4. s = [i \in 1 .. Len(vc.held) |-> [header |-> vc.held[i], part |-> NoPart]]
      BY <2>1, <3>1 DEF Emptied
    <3>5. PICK n \in Nat : n = Len(vc.held) BY <3>1
    <3>6. s \in [1 .. n -> Entries] BY <3>3, <3>4, <3>5
    <3>7. QED BY <3>6
  <2>3. component.queue \o s \in EntrySeqs BY <1>1, <2>2 DEF Components, EntrySeqs
  <2>4. component' = [component EXCEPT !.queue = component.queue \o s] BY <1>7, <2>1 DEF Emptied
  <2>5. /\ component' \in Components /\ component'.owner = component.owner
        /\ component'.destroyed = component.destroyed /\ component'.queue = component.queue \o s
    BY <1>1, <2>3, <2>4 DEF Components
  <2>6. <<>> \in HeaderSeqs /\ 0 \in PartNos BY MmalAssumption DEF HeaderSeqs, PartNos
  <2>7. vc = [held |-> vc.held, frame |-> vc.frame, part |-> vc.part, asked |-> vc.asked,
              streams |-> vc.streams, fed |-> vc.fed]
    BY <1>1 DEF Vcs
  <2>8. vc' = [held |-> <<>>, frame |-> vc.frame, part |-> 0, asked |-> 0, streams |-> FALSE, fed |-> vc.fed]
    BY <1>7, <2>7
  <2>9. vc' \in Vcs BY <1>1, <2>6, <2>8 DEF Vcs
  <2>10. QED BY <1>4, <1>5, <1>6, <1>7, <2>1, <2>5, <2>8, <2>9 DEF PortDisabled
<1>8. CASE ~ok /\ MayFail("disable") /\ failed' = failed \cup {"disable"} /\ UNCHANGED <<component, vc, fault>>
  BY <1>1, <1>4, <1>5, <1>6, <1>8 DEF PortDisabled, MayFail
<1>9. QED BY <1>3, <1>7, <1>8 DEF VcPortDisable

\* It calls back for one header that is queued.
Drained ==
  /\ worker.pc = "drain" /\ component.owner = "worker" /\ Begins("worker")
  /\ UNCHANGED <<pool, port, vc, mayFail, failed, worker, semaphore, stills, stop, offset, board, reader>>

\* The worker runs the callback of a header that came back.
LEMMA Drains == ASSUME TypeInv, DrainOne PROVE Drained
BY DoesCallback, ThreadsAre DEF Drained, DrainOne, Drain, AtWorker, Unmoved

\* It gives action_mutex back.
Callers == {"disconnect", "pools", "components"}
Unlocked ==
  /\ worker.pc = "drain" /\ WorkerAt(worker'.pc)
  /\ IF worker.ok THEN worker'.pc = "transit" ELSE worker'.pc \in Callers
  /\ component.queue = <<>> /\ run["worker"] = Idle
  /\ component' \in Components /\ component'.owner = "none" /\ component'.queue = component.queue
  /\ component'.destroyed = component.destroyed
  /\ port' \in Ports /\ port'.enabled = ~worker.ok /\ port'.callback = port.callback
  /\ port'.contexts = port.contexts /\ port'.transit = port.transit
  /\ UNCHANGED <<pool, vc, run, mayFail, failed, fault, semaphore, stills, stop, offset, board, reader>>

\* mmal_port_disable returns to one of those that call it.
LEMMA CallerKnown == ASSUME worker \in Workers PROVE ReturnTo[worker.round] \in Callers
<1>1. worker.round = 1 \/ worker.round = 2 \/ worker.round = 3 BY DEF Workers, Rounds
<1>2. QED BY <1>1 DEF ReturnTo, Callers

\* The worker lets the action thread in again.
LEMMA Unlocks == ASSUME TypeInv, Unlock PROVE Unlocked
<1>1. worker \in Workers /\ component \in Components /\ port \in Ports BY DEF TypeInv, MmalType, PluginType
<1>2. PICK pc : pc = IF worker.ok THEN "transit" ELSE ReturnTo[worker.round] OBVIOUS
<1>3. pc \in WorkerPcs BY <1>1, <1>2, CallerKnown DEF Callers, WorkerPcs, Closing, Disabling, Disabled
<1>4. WorkerAt(pc) BY <1>1, <1>2, <1>3, WorkerMoves DEF Unlock
<1>5. /\ component' \in Components /\ component'.owner = "none" /\ component'.queue = component.queue
      /\ component'.destroyed = component.destroyed
  <2>1. "none" \in Owners BY DEF Owners
  <2>2. QED BY <1>1, <2>1 DEF Components, Unlock, DisableEnds
<1>6. /\ port' \in Ports /\ port'.enabled = ~worker.ok /\ port'.callback = port.callback
      /\ port'.contexts = port.contexts /\ port'.transit = port.transit
  <2>1. PICK enabled \in BOOLEAN : enabled = ~worker.ok BY <1>1 DEF Workers
  <2>2. port' = [port EXCEPT !.enabled = enabled] BY <2>1 DEF Unlock, DisableEnds
  <2>3. QED BY <1>1, <2>1, <2>2 DEF Ports
<1>7. WorkerAt(worker'.pc) /\ worker'.pc = pc BY <1>4 DEF WorkerAt
<1>8. IF worker.ok THEN worker'.pc = "transit" ELSE worker'.pc \in Callers BY <1>1, <1>2, <1>7, CallerKnown
<1>9. QED BY <1>5, <1>6, <1>7, <1>8 DEF Unlocked, Unlock, DisableEnds, AtWorker, Unmoved

\* No header is on its way any longer.
TransitAwaited ==
  /\ worker.pc = "transit" /\ WorkerAt(worker'.pc) /\ worker'.pc \in Callers
  /\ port.transit = 0
  /\ port' \in Ports /\ port'.enabled = port.enabled /\ ~port'.callback
  /\ port'.contexts = port.contexts /\ port'.transit = port.transit
  /\ UNCHANGED <<pool, component, vc, run, mayFail, failed, fault, semaphore, stills, stop, offset, board, reader>>

\* The worker goes on once no header is in transit.
LEMMA AwaitsTransit == ASSUME TypeInv, AwaitTransit PROVE TransitAwaited
<1>1. worker \in Workers /\ port \in Ports BY DEF TypeInv, MmalType, PluginType
<1>2. PICK pc : pc = ReturnTo[worker.round] OBVIOUS
<1>3. pc \in WorkerPcs /\ pc \in Callers BY <1>1, <1>2, CallerKnown DEF Callers, WorkerPcs, Closing, Disabled
<1>4. WorkerAt(pc) BY <1>1, <1>2, <1>3, WorkerMoves DEF AwaitTransit
<1>5. /\ port' \in Ports /\ port'.enabled = port.enabled /\ ~port'.callback
      /\ port'.contexts = port.contexts /\ port'.transit = port.transit
  BY <1>1 DEF Ports, AwaitTransit, TransitWait
<1>6. WorkerAt(worker'.pc) /\ worker'.pc = pc BY <1>4 DEF WorkerAt
<1>7. QED BY <1>3, <1>5, <1>6 DEF TransitAwaited, AwaitTransit, TransitWait, AtWorker, Unmoved

\* It frees the headers, the components and the global buffer.
PoolFreed ==
  /\ worker.pc = "pools" /\ WorkerAt("components")
  /\ pool' = [state |-> "freed", queue |-> <<>>] /\ pool' \in Pools
  /\ UNCHANGED <<port, component, vc, run, mayFail, failed, fault, semaphore, stills, stop, offset, board, reader>>

\* The pool is freed with all headers that are in it.
LEMMA FreesPool == ASSUME TypeInv, DestroyPool PROVE PoolFreed
<1>1. worker \in Workers /\ "components" \in WorkerPcs BY DEF TypeInv, PluginType, WorkerPcs, Closing, Disabled
<1>2. "freed" \in PoolStates /\ <<>> \in HeaderSeqs BY DEF PoolStates, HeaderSeqs
<1>3. QED BY <1>1, <1>2, WorkerMoves DEF PoolFreed, DestroyPool, PoolDestroy, AtWorker, Unmoved, Pools

ComponentsGone ==
  /\ worker.pc = "components" /\ WorkerAt("cleanup")
  /\ component' \in Components /\ component'.owner = component.owner /\ component'.queue = component.queue
  /\ UNCHANGED <<pool, port, vc, run, mayFail, failed, fault, semaphore, stills, stop, offset, board, reader>>

\* The components are destroyed.
LEMMA ComponentsGo == ASSUME TypeInv, DestroyComponents PROVE ComponentsGone
<1>1. worker \in Workers /\ component \in Components BY DEF TypeInv, MmalType, PluginType
<1>2. "cleanup" \in WorkerPcs BY DEF WorkerPcs, Closing, Disabled
<1>3. component' \in Components /\ component'.owner = component.owner /\ component'.queue = component.queue
  BY <1>1 DEF Components, DestroyComponents, ComponentDestroy
<1>4. QED BY <1>1, <1>2, <1>3, WorkerMoves DEF ComponentsGone, DestroyComponents, AtWorker, Unmoved

BufferFreed ==
  /\ worker.pc = "cleanup" /\ WorkerAt("ended")
  /\ board' \in BoardsOf /\ board'.owner = board.owner /\ board'.buf = board.buf /\ board'.size = board.size
  /\ UNCHANGED <<mmalVars, stills, stop, semaphore, offset, reader>>

\* The buffer of the pictures is freed.
LEMMA FreesBuffer == ASSUME TypeInv, WorkerCleanup PROVE BufferFreed
<1>1. worker \in Workers /\ board \in BoardsOf BY DEF TypeInv, PluginType
<1>2. "ended" \in WorkerPcs BY DEF WorkerPcs, Closing, Disabled
<1>3. board' \in BoardsOf /\ board'.owner = board.owner /\ board'.buf = board.buf /\ board'.size = board.size
  BY <1>1 DEF BoardsOf, WorkerCleanup
<1>4. QED BY <1>1, <1>2, <1>3, WorkerMoves DEF BufferFreed, WorkerCleanup, AtWorker

-----------------------------------------------------------------------------
(* What the steps of the output plugin do.                                 *)

ReaderSame == reader'.size = reader.size /\ reader'.got = reader.got
Whole(r) == r = [pc |-> r.pc, size |-> r.size, got |-> r.got]
Waits ==
  /\ \/ reader.pc = "idle" /\ board.owner = "none" /\ reader'.pc = "wait"
     \/ reader.pc = "wait" /\ "wakeup" \in mayFail /\ reader'.pc = "woken"
  /\ ReaderSame /\ Whole(reader')
  /\ UNCHANGED <<mmalVars, stills, stop, worker, semaphore, offset, board>>

\* An output waits for the next picture, or wakes up without one.
LEMMA WaitsDone == ASSUME TypeInv, ReaderWaits \/ SpuriousWakeup PROVE Waits
<1>1. Whole(reader) BY DEF TypeInv, PluginType, Whole
<1>2. CASE ReaderWaits
  <2>1. reader'.pc = "wait" /\ ReaderSame /\ Whole(reader') BY <1>1, <1>2 DEF ReaderWaits, ReaderSame, Whole
  <2>2. QED BY <1>2, <2>1 DEF Waits, ReaderWaits
<1>3. CASE SpuriousWakeup
  <2>1. reader'.pc = "woken" /\ ReaderSame /\ Whole(reader') BY <1>1, <1>3 DEF SpuriousWakeup, ReaderSame, Whole
  <2>2. QED BY <1>3, <2>1 DEF Waits, SpuriousWakeup
<1>4. QED BY <1>2, <1>3

Locks ==
  /\ reader.pc = "woken" /\ board.owner = "none"
  /\ board' \in BoardsOf /\ board'.owner = "reader" /\ board'.buf = board.buf /\ board'.size = board.size
  /\ reader'.pc = "copy" /\ reader'.size = board.size /\ reader'.got = reader.got /\ Whole(reader')
  /\ UNCHANGED <<mmalVars, stills, stop, worker, semaphore, offset>>

\* An output that was woken gets the lock of the pictures.
LEMMA LocksDone == ASSUME TypeInv, ReaderLocks PROVE Locks
<1>1. Whole(reader) /\ board \in BoardsOf BY DEF TypeInv, PluginType, Whole
<1>2. "reader" \in Lockers BY DEF Lockers
<1>3. board' \in BoardsOf /\ board'.owner = "reader" /\ board'.buf = board.buf /\ board'.size = board.size
  BY <1>1, <1>2 DEF ReaderLocks, BoardsOf
<1>4. reader'.pc = "copy" /\ reader'.size = board.size /\ reader'.got = reader.got /\ Whole(reader')
  <2>1. PICK n : n = board.size OBVIOUS
  <2>2. reader' = [reader EXCEPT !.pc = "copy", !.size = n] BY <2>1 DEF ReaderLocks
  <2>3. reader' = [pc |-> "copy", size |-> n, got |-> reader.got] BY <1>1, <2>2 DEF Whole
  <2>4. QED BY <2>1, <2>3 DEF Whole
<1>5. QED BY <1>3, <1>4 DEF Locks, ReaderLocks

TakesCopy ==
  /\ reader.pc = "copy"
  /\ board' \in BoardsOf /\ board'.owner = "none" /\ board'.buf = board.buf /\ board'.size = board.size
  /\ reader'.pc = "idle" /\ reader'.size = reader.size /\ Whole(reader')
  /\ reader'.got = IF board.live THEN SubSeq(board.buf, 1, reader.size) ELSE <<>>
  /\ UNCHANGED <<mmalVars, stills, stop, worker, semaphore, offset>>

\* An output copies what is in the global buffer.
LEMMA CopyTaken == ASSUME TypeInv, ReaderCopies PROVE TakesCopy
<1>1. Whole(reader) /\ board \in BoardsOf BY DEF TypeInv, PluginType, Whole
<1>2. "none" \in Lockers BY DEF Lockers
<1>3. board' \in BoardsOf /\ board'.owner = "none" /\ board'.buf = board.buf /\ board'.size = board.size
  BY <1>1, <1>2 DEF ReaderCopies, BoardsOf
<1>4. /\ reader'.pc = "idle" /\ reader'.size = reader.size /\ Whole(reader')
      /\ reader'.got = IF board.live THEN SubSeq(board.buf, 1, reader.size) ELSE <<>>
  <2>1. PICK s : s = IF board.live THEN SubSeq(board.buf, 1, reader.size) ELSE <<>> OBVIOUS
  <2>2. reader' = [reader EXCEPT !.pc = "idle", !.got = s] BY <2>1 DEF ReaderCopies
  <2>3. reader' = [pc |-> "idle", size |-> reader.size, got |-> s] BY <1>1, <2>2 DEF Whole
  <2>4. QED BY <2>1, <2>3 DEF Whole
<1>5. QED BY <1>3, <1>4 DEF TakesCopy, ReaderCopies

-----------------------------------------------------------------------------
(* All steps.                                                              *)

ActionBegins ==
  /\ component.owner = "none" /\ Begins("action")
  /\ UNCHANGED <<pool, port, vc, mayFail, failed, pluginVars>>
PartArrives == \E p \in Part : Fills(p) /\ UNCHANGED pluginVars
InCallback(t) == Copies(t) \/ Completes(t) \/ Returns(t) \/ Gets(t) \/ Refills(t) \/ Finishes(t)
Stops == ~stop /\ stop' /\ UNCHANGED <<mmalVars, stills, worker, semaphore, offset, board, reader>>
Opens == SetsUp \/ PoolMade \/ Connected \/ PortEnabled
Shoots == Decided \/ Counted \/ HeaderTaken \/ HeaderGiven \/ Captured \/ Awaited
Closes ==
  \/ SemaphoreDeleted \/ SendingStopped \/ ActionLocked \/ PortDisabled \/ Drained \/ Unlocked \/ TransitAwaited
  \/ PoolFreed \/ ComponentsGone \/ BufferFreed
Reading == Waits \/ Locks \/ TakesCopy
Does ==
  PartArrives \/ ActionBegins \/ (\E t \in Threads : InCallback(t)) \/ Opens \/ Shoots \/ Closes \/ Reading \/ Stops

\* Each step does one of these.
LEMMA CallbackSteps1 == ASSUME TypeInv, NEW t \in Threads, Callback(t) PROVE InCallback(t)
<1>1. CASE CopyPart(t) BY <1>1, CopyDone DEF InCallback
<1>2. CASE EndPicture(t) BY <1>2, EndDone DEF InCallback
<1>3. CASE Release(t)
  <2>1. run[t].header \in Headers BY <1>3 DEF TypeInv, Named, Release, CallbackSteps
  <2>2. QED BY <1>3, <2>1, ReleaseDone DEF InCallback
<1>4. CASE GetHeader(t) BY <1>4, GetDone DEF InCallback
<1>5. CASE SendHeader(t)
  <2>1. run[t].new \in Headers BY <1>5 DEF TypeInv, Named, SendHeader, CallbackSteps
  <2>2. QED BY <1>5, <2>1, SendDone DEF InCallback
<1>6. CASE CallbackEnds(t) BY <1>6, CallbackDone DEF InCallback
<1>7. QED BY <1>1, <1>2, <1>3, <1>4, <1>5, <1>6 DEF Callback

\* Pictures are taken by one of the steps of the loop.
LEMMA TakesPictures == ASSUME TypeInv, TakePictures PROVE Decided \/ Shoots
<1>1. CASE StillsLoop \/ Sleep BY <1>1, Decides
<1>2. CASE CountHeaders BY <1>2, Counts DEF Shoots
<1>3. CASE TakeHeader BY <1>3, TakesHeader DEF Shoots
<1>4. CASE GiveHeader
  <2>1. worker.hand \in Headers /\ worker.num > 0 BY <1>4 DEF TypeInv, Named, GiveHeader, AtWorker
  <2>2. QED BY <1>4, <2>1, GivesHeader DEF Shoots
<1>5. CASE Capture BY <1>5, Captures DEF Shoots
<1>6. CASE Await BY <1>6, Awaits DEF Shoots
<1>7. QED BY <1>1, <1>2, <1>3, <1>4, <1>5, <1>6 DEF TakePictures

\* The worker closes what it opened by one of those steps.
LEMMA ClosesAll == ASSUME TypeInv, CloseAll PROVE Does
<1>1. CASE DeleteSemaphore BY <1>1, Deletes DEF Does, Closes
<1>2. CASE TurnOff BY <1>2, TurnsOff DEF Does, Closes
<1>3. CASE LockAction BY <1>3, LocksAction DEF Does, Closes
<1>4. CASE DisablePort BY <1>4, DisablesPort DEF Does, Closes
<1>5. CASE DrainOne BY <1>5, Drains DEF Does, Closes
<1>6. CASE Unlock BY <1>6, Unlocks DEF Does, Closes
<1>7. CASE AwaitTransit BY <1>7, AwaitsTransit DEF Does, Closes
<1>8. CASE Disconnect BY <1>8, Connects DEF Does, Opens
<1>9. CASE DisableAgain BY <1>9, Decides DEF Does, Shoots
<1>10. CASE DestroyPool BY <1>10, FreesPool DEF Does, Closes
<1>11. CASE DestroyComponents BY <1>11, ComponentsGo DEF Does, Closes
<1>12. CASE WorkerCleanup BY <1>12, FreesBuffer DEF Does, Closes
<1>13. QED
  BY <1>1, <1>2, <1>3, <1>4, <1>5, <1>6, <1>7, <1>8, <1>9, <1>10, <1>11, <1>12 DEF CloseAll

\* Every step of Raspicam does one of the things above.
LEMMA Steps == ASSUME TypeInv, Next PROVE Does
<1>1. CASE Library
  <2>1. CASE VcFill /\ UNCHANGED pluginVars BY <2>1, VcFills DEF Does, PartArrives
  <2>2. CASE ActionThread /\ UNCHANGED pluginVars
    <3>1. Begins("action") BY <2>2, DoesCallback, ThreadsAre DEF ActionThread
    <3>2. QED BY <2>2, <3>1 DEF Does, ActionBegins, ActionThread
  <2>3. QED BY <1>1, <2>1, <2>2 DEF Library
<1>2. ASSUME NEW t \in Threads, Callback(t) PROVE Does BY <1>2, CallbackSteps1 DEF Does
<1>3. CASE SetUp
  <2>1. CASE CreateComponents BY <2>1, OpensUp DEF Does, Opens
  <2>2. CASE CreatePool BY <2>2, MakesPool DEF Does, Opens
  <2>3. CASE Connect BY <2>3, Connects DEF Does, Opens
  <2>4. CASE EnablePort BY <2>4, Enables DEF Does, Opens
  <2>5. QED BY <1>3, <2>1, <2>2, <2>3, <2>4 DEF SetUp
<1>4. CASE SetupFails BY <1>4, OpensUp DEF Does, Opens
<1>5. CASE TakePictures BY <1>5, TakesPictures DEF Does, Shoots
<1>6. CASE CloseAll BY <1>6, ClosesAll
<1>7. CASE ReaderWaits \/ SpuriousWakeup BY <1>7, WaitsDone DEF Does, Reading
<1>8. CASE ReaderLocks BY <1>8, LocksDone DEF Does, Reading
<1>9. CASE ReaderCopies BY <1>9, CopyTaken DEF Does, Reading
<1>10. CASE Stop BY <1>10 DEF Stop, Does, Stops
<1>11. QED
  BY <1>1, <1>2, <1>3, <1>4, <1>5, <1>6, <1>7, <1>8, <1>9, <1>10 DEF Next, Step

-----------------------------------------------------------------------------
(* Type correctness.                                                       *)

\* In the beginning all is of its type.
LEMMA FirstTypes == ASSUME Init PROVE TypeInv
<1>1. MaxParts \in Nat \ {0} /\ BufferNum \in Nat \ {0} /\ MaxFrames \in Nat BY MmalAssumption
<1>2. Idle \in Runs
  <2>1. 0 \in HeaderNos /\ "idle" \in RunPcs BY <1>1 DEF HeaderNos, RunPcs
  <2>2. NoPart \in Part BY <1>1 DEF NoPart, Part
  <2>3. QED BY <2>1, <2>2 DEF Idle, Runs
<1>3. pool \in Pools
  <2>1. "none" \in PoolStates /\ <<>> \in HeaderSeqs BY DEF PoolStates, HeaderSeqs
  <2>2. QED BY <2>1 DEF Init, MmalInit, Pools
<1>4. port \in Ports BY DEF Init, MmalInit, Ports
<1>5. component \in Components
  <2>1. "none" \in Owners /\ <<>> \in EntrySeqs BY DEF Owners, EntrySeqs
  <2>2. QED BY <2>1 DEF Init, MmalInit, Components
<1>6. vc \in Vcs
  <2>1. <<>> \in HeaderSeqs /\ 0 \in FrameNos /\ 0 \in PartNos BY <1>1 DEF HeaderSeqs, FrameNos, PartNos
  <2>2. QED BY <2>1 DEF Init, MmalInit, Vcs
<1>7. MmalType BY <1>2, <1>3, <1>4, <1>5, <1>6 DEF MmalType, Init, MmalInit
<1>8. worker \in Workers
  <2>1. "camera" \in WorkerPcs /\ 0 \in HeaderNos /\ 1 \in Rounds BY <1>1 DEF WorkerPcs, Opening, HeaderNos, Rounds
  <2>2. QED BY <2>1 DEF Init, Workers
<1>9. board \in BoardsOf
  <2>1. NoPart \in Part BY <1>1 DEF NoPart, Part
  <2>2. [i \in 1 .. MaxParts |-> NoPart] \in Buffers BY <2>1 DEF Buffers
  <2>3. "none" \in Lockers BY DEF Lockers
  <2>4. QED BY <2>2, <2>3 DEF Init, BoardsOf
<1>10. PluginType BY <1>8, <1>9 DEF PluginType, Init, Semaphores
<1>11. Asking BY <1>1 DEF Asking, Init, MmalInit, Bit
<1>12. Named BY <1>1 DEF Named, Init, MmalInit, Idle
<1>13. QED BY <1>7, <1>10, <1>11, <1>12 DEF TypeInv

\* The offset stays a number.
LEMMA OneMore == ASSUME TypeInv, offset' = offset + 1 \/ offset' = offset PROVE offset' \in Nat
<1>1. offset \in Nat BY DEF TypeInv, PluginType
<1>2. QED BY <1>1

\* The types that a callback keeps.
LEMMA CallbackTypes ==
  ASSUME TypeInv, NEW t \in Threads, InCallback(t) PROVE MmalType' /\ PluginType'
<1> USE DEF TypeInv, MmalType, PluginType, Goes, pluginVars
<1>1. CASE Copies(t)
  <2>1. offset' = offset + 1 \/ offset' = offset BY <1>1 DEF Copies
  <2>2. offset' \in Nat BY <2>1, OneMore
  <2>3. QED BY <1>1, <2>2 DEF Copies
<1>2. CASE Completes(t) BY <1>2 DEF Completes
<1>3. CASE Returns(t) BY <1>3 DEF Returns
<1>4. CASE Gets(t) BY <1>4 DEF Gets, Takes
<1>5. CASE Refills(t)
  <2>1. failed' \subseteq mayFail BY <1>5 DEF Refills, Given
  <2>2. QED BY <1>5, <2>1 DEF Refills
<1>6. CASE Finishes(t) BY <1>6 DEF Finishes
<1>7. QED BY <1>1, <1>2, <1>3, <1>4, <1>5, <1>6 DEF InCallback

\* And those that the worker keeps.
LEMMA WorkerTypes == ASSUME TypeInv, Opens \/ Shoots \/ Closes PROVE MmalType' /\ PluginType'
<1> USE DEF TypeInv, MmalType, PluginType, mmalVars, WorkerAt
<1>1. CASE SetsUp BY <1>1 DEF SetsUp
<1>2. CASE PoolMade BY <1>2 DEF PoolMade
<1>3. CASE Connected BY <1>3 DEF Connected
<1>4. CASE PortEnabled BY <1>4 DEF PortEnabled
<1>5. CASE Decided BY <1>5 DEF Decided
<1>6. CASE Counted BY <1>6 DEF Counted
<1>7. CASE HeaderTaken BY <1>7 DEF HeaderTaken, Takes
<1>8. CASE HeaderGiven
  <2>1. failed' \subseteq mayFail BY <1>8 DEF HeaderGiven, Given
  <2>2. QED BY <1>8, <2>1 DEF HeaderGiven
<1>9. CASE Captured BY <1>9 DEF Captured
<1>10. CASE Awaited BY <1>10 DEF Awaited
<1>11. CASE SemaphoreDeleted BY <1>11 DEF SemaphoreDeleted
<1>12. CASE SendingStopped BY <1>12 DEF SendingStopped
<1>13. CASE ActionLocked BY <1>13 DEF ActionLocked
<1>14. CASE PortDisabled BY <1>14 DEF PortDisabled
<1>15. CASE Drained BY <1>15 DEF Drained, Begins
<1>16. CASE Unlocked BY <1>16 DEF Unlocked
<1>17. CASE TransitAwaited BY <1>17 DEF TransitAwaited
<1>18. CASE PoolFreed BY <1>18 DEF PoolFreed
<1>19. CASE ComponentsGone BY <1>19 DEF ComponentsGone
<1>20. CASE BufferFreed BY <1>20 DEF BufferFreed
<1>21. QED
  BY <1>1, <1>2, <1>3, <1>4, <1>5, <1>6, <1>7, <1>8, <1>9, <1>10, <1>11, <1>12, <1>13, <1>14, <1>15, <1>16,
     <1>17, <1>18, <1>19, <1>20 DEF Opens, Shoots, Closes

\* Whatever is done, the variables keep to their types.
LEMMA TypesKept == ASSUME TypeInv, Does PROVE MmalType' /\ PluginType'
<1> USE DEF TypeInv, MmalType, PluginType, mmalVars, pluginVars
<1>1. CASE PartArrives BY <1>1 DEF PartArrives, Fills
<1>2. CASE ActionBegins BY <1>2 DEF ActionBegins, Begins
<1>3. ASSUME NEW t \in Threads, InCallback(t) PROVE MmalType' /\ PluginType' BY <1>3, CallbackTypes
<1>4. CASE Opens \/ Shoots \/ Closes BY <1>4, WorkerTypes
<1>5. CASE Waits BY <1>5 DEF Waits, Whole, ReaderSame
<1>6. CASE Locks
  <2>1. board.size \in Nat BY DEF BoardsOf
  <2>2. QED BY <1>6, <2>1 DEF Locks, Whole
<1>7. CASE TakesCopy BY <1>7 DEF TakesCopy, Whole
<1>8. CASE Stops BY <1>8 DEF Stops
<1>9. QED BY <1>1, <1>2, <1>3, <1>4, <1>5, <1>6, <1>7, <1>8 DEF Does, Reading

\* The numbers of the VideoCore.
LEMMA EncoderNumbers ==
  ASSUME TypeInv
  PROVE  /\ vc.part \in Nat /\ vc.part < MaxParts /\ vc.frame \in Nat /\ vc.frame <= MaxFrames /\ vc.asked \in Nat
         /\ MaxFrames \in Nat /\ MaxParts \in Nat \ {0} /\ BufferNum \in Nat \ {0}
<1>1. MaxFrames \in Nat /\ MaxParts \in Nat \ {0} /\ BufferNum \in Nat \ {0} BY MmalAssumption
<1>2. vc.part \in PartNos /\ vc.frame \in FrameNos /\ vc.asked \in Nat BY DEF TypeInv, MmalType, Vcs
<1>3. QED BY <1>1, <1>2 DEF PartNos, FrameNos

\* Pictures are begun only when they may be.
LEMMA AskingSame ==
  ASSUME Asking, EncoderKept, stills' = stills,
         worker'.pc = worker.pc \/ worker'.pc \notin {"count", "take", "give", "capture"}
           \/ worker.pc \in {"count", "take", "give", "capture"}
  PROVE  Asking'
BY DEF Asking, EncoderKept, Bit

\* A part that arrives belongs to a picture that there may be.
LEMMA AskingFills == ASSUME TypeInv, PartArrives PROVE Asking'
<1>1. PICK p \in Part : Fills(p) BY DEF PartArrives
<1>2. /\ vc.part \in Nat /\ vc.frame \in Nat /\ vc.asked \in Nat /\ MaxFrames \in Nat /\ MaxParts \in Nat
      /\ p.last \in BOOLEAN
  BY EncoderNumbers DEF Part
<1>3. worker' = worker /\ stills' = stills BY DEF PartArrives, pluginVars
<1>4. /\ vc'.streams = vc.streams
      /\ vc'.asked = IF p.last /\ vc.asked > 0 THEN vc.asked - 1 ELSE vc.asked
      /\ vc'.frame = IF vc.part = 0 THEN vc.frame + 1 ELSE vc.frame
      /\ vc'.part = IF p.last THEN 0 ELSE vc.part + 1
  BY <1>1 DEF Fills, Follows, Encoded, After
<1>5. Encodes BY <1>1 DEF Fills
<1>6. stills => vc.asked > 0 BY <1>2, <1>5 DEF TypeInv, Asking, Encodes
<1>7. QED BY <1>2, <1>3, <1>4, <1>6 DEF TypeInv, Asking, Bit

\* The worker asks for no more pictures than there may be.
LEMMA AskingWorker == ASSUME TypeInv, Opens \/ Shoots \/ Closes PROVE Asking'
<1> USE DEF WorkerAt
<1>1. /\ vc.part \in Nat /\ vc.frame \in Nat /\ vc.asked \in Nat /\ MaxFrames \in Nat
      /\ vc.frame <= MaxFrames
  BY EncoderNumbers
<1>2. Asking BY DEF TypeInv
<1>3. CASE /\ SetsUp \/ PoolMade \/ Counted \/ Awaited \/ SemaphoreDeleted \/ SendingStopped \/ ActionLocked
              \/ Drained \/ Unlocked \/ TransitAwaited \/ PoolFreed \/ ComponentsGone \/ BufferFreed
  <2>1. vc' = vc /\ stills' = stills
    BY <1>3 DEF SetsUp, PoolMade, Counted, Awaited, SemaphoreDeleted, SendingStopped, ActionLocked, Drained,
                Unlocked, TransitAwaited, PoolFreed, ComponentsGone, BufferFreed, mmalVars
  <2>2. worker'.pc \notin {"count", "take", "give", "capture"} \/ worker.pc \in {"count", "take", "give", "capture"}
    BY <1>3 DEF SetsUp, PoolMade, Counted, Awaited, SemaphoreDeleted, SendingStopped, ActionLocked, Drained,
                Unlocked, TransitAwaited, PoolFreed, ComponentsGone, BufferFreed, Callers
  <2>3. QED BY <1>2, <2>1, <2>2, AskingSame DEF EncoderKept
<1>4. CASE Connected BY <1>2, <1>4, AskingSame DEF Connected
<1>5. CASE PortEnabled
  <2>1. vc' = vc /\ stills' = stills /\ (stills => worker'.pc = "loop") BY <1>5 DEF PortEnabled
  <2>2. QED BY <1>2, <2>1 DEF Asking, Bit
<1>6. CASE Decided
  <2>1. vc' = vc /\ stills' = stills BY <1>6 DEF Decided, mmalVars
  <2>2. worker'.pc \in {"delete", "off"} \/ (worker'.pc = "count" /\ vc.frame + vc.asked < MaxFrames)
    BY <1>6 DEF Decided
  <2>3. QED BY <1>1, <1>2, <2>1, <2>2 DEF Asking, Bit
<1>7. CASE HeaderTaken
  <2>1. vc' = vc /\ stills' = stills /\ worker.pc = "take" BY <1>7 DEF HeaderTaken
  <2>2. QED BY <1>2, <2>1, AskingSame DEF EncoderKept
<1>8. CASE HeaderGiven BY <1>2, <1>8, AskingSame DEF HeaderGiven
<1>9. CASE Captured
  <2>1. /\ vc'.frame = vc.frame /\ vc'.part = vc.part /\ stills' = stills /\ worker.pc = "capture"
        /\ worker'.pc \in {"await", "sleep", "loop"}
        /\ stills => vc'.streams = vc.streams /\ vc'.asked \in {vc.asked, vc.asked + 1}
        /\ ~stills => vc'.asked = vc.asked
    BY <1>9 DEF Captured
  <2>2. QED BY <1>1, <1>2, <2>1 DEF Asking, Bit
<1>10. CASE PortDisabled
  <2>1. \/ vc'.part = 0 /\ vc'.asked = 0 /\ ~vc'.streams
        \/ vc' = vc
    BY <1>10 DEF PortDisabled
  <2>2. vc'.frame = vc.frame /\ stills' = stills /\ worker'.pc = "drain" BY <1>10 DEF PortDisabled
  <2>3. QED BY <1>1, <1>2, <2>1, <2>2 DEF Asking, Bit
<1>11. QED
  BY <1>3, <1>4, <1>5, <1>6, <1>7, <1>8, <1>9, <1>10 DEF Opens, Shoots, Closes

\* Whatever is done, no more pictures are asked for than there may be.
LEMMA AskingKept == ASSUME TypeInv, Does PROVE Asking'
<1>1. CASE PartArrives BY <1>1, AskingFills
<1>2. CASE Opens \/ Shoots \/ Closes BY <1>2, AskingWorker
<1>3. CASE ActionBegins BY <1>3, AskingSame DEF ActionBegins, pluginVars, EncoderKept, TypeInv
<1>4. ASSUME NEW t \in Threads, InCallback(t) PROVE Asking'
  <2>1. EncoderKept /\ stills' = stills /\ worker' = worker
    BY <1>4 DEF InCallback, Copies, Completes, Returns, Gets, Refills, Finishes, EncoderKept, pluginVars
  <2>2. QED BY <2>1, AskingSame DEF TypeInv
<1>5. CASE Reading \/ Stops
  BY <1>5, AskingSame DEF Reading, Waits, Locks, TakesCopy, Stops, mmalVars, EncoderKept, TypeInv
<1>6. QED BY <1>1, <1>2, <1>3, <1>4, <1>5 DEF Does

\* Threads have in their hands what is in the pool.
NamedThread(r) ==
  /\ r.pc = "idle" => r = Idle
  /\ r.pc \in {"copy", "end", "release"} => r.header \in Headers
  /\ r.pc = "send" => r.new \in Headers
NamedWorker ==
  /\ worker.pc = "give" => worker.hand \in Headers /\ worker.num > 0
  /\ worker.pc # "give" => worker.hand = 0

\* Named in two parts: for the threads and for the worker.
LEMMA NamedIs == Named <=> (\A t \in Threads : NamedThread(run[t])) /\ NamedWorker
BY DEF Named, NamedThread, NamedWorker

\* When one thread goes on, the others keep what they name.
LEMMA NamedGoes ==
  ASSUME \A u \in Threads : NamedThread(run[u]), NEW t \in Threads, NEW r, Goes(t, r), NamedThread(r)
  PROVE  \A u \in Threads : NamedThread(run'[u])
BY DEF Goes

\* A callback begins with the header that was sent to it.
LEMMA NamedBegins ==
  ASSUME TypeInv, NEW t \in Threads, Begins(t) PROVE \A u \in Threads : NamedThread(run'[u])
<1>1. \A u \in Threads : NamedThread(run[u]) BY NamedIs DEF TypeInv
<1>2. NamedThread(run'[t])
  <2>1. component.queue \in Seq(Entries) /\ component.queue # <<>>
    BY DEF TypeInv, MmalType, Components, EntrySeqs, Begins
  <2>2. Head(component.queue).header \in Headers
    <3>1. Head(component.queue) \in Entries BY <2>1
    <3>2. QED BY <3>1 DEF Entries
  <2>3. PICK h, p : h = Head(component.queue).header /\ p = Head(component.queue).part OBVIOUS
  <2>4. run'[t] = [pc |-> "copy", header |-> h, part |-> p, new |-> 0, complete |-> FALSE] BY <2>3 DEF Begins
  <2>5. QED BY <2>2, <2>3, <2>4 DEF NamedThread
<1>3. QED BY <1>1, <1>2 DEF Begins

\* In a callback, what is released, taken and sent is a header.
LEMMA NamedCallback ==
  ASSUME TypeInv, NEW t \in Threads, InCallback(t) PROVE \A u \in Threads : NamedThread(run'[u])
<1>1. /\ \A u \in Threads : NamedThread(run[u])
      /\ run[t].pc \in {"copy", "end", "release"} => run[t].header \in Headers
  BY NamedIs DEF TypeInv, NamedThread
<1> USE DEF At, NamedThread
<1>2. CASE Copies(t)
  <2>1. PICK pc \in {"end", "release"} : Goes(t, At(t, pc)) BY <1>2 DEF Copies
  <2>2. NamedThread(At(t, pc)) BY <1>1, <1>2, <2>1 DEF Copies
  <2>3. QED BY <1>1, <2>1, <2>2, NamedGoes
<1>3. CASE Completes(t)
  <2>1. PICK r : Goes(t, r) /\ r = [pc |-> "release", header |-> run[t].header, part |-> run[t].part,
                                    new |-> run[t].new, complete |-> TRUE]
    BY <1>3 DEF Completes
  <2>2. NamedThread(r) BY <1>1, <1>3, <2>1 DEF Completes
  <2>3. QED BY <1>1, <2>1, <2>2, NamedGoes
<1>4. CASE Returns(t)
  <2>1. PICK pc \in {"get", "done"} : Goes(t, At(t, pc)) BY <1>4 DEF Returns
  <2>2. NamedThread(At(t, pc)) BY <2>1
  <2>3. QED BY <1>1, <2>1, <2>2, NamedGoes
<1>5. CASE Gets(t)
  <2>1. CASE Takes /\ Goes(t, [pc |-> "send", header |-> run[t].header, part |-> run[t].part,
                               new |-> Head(pool.queue), complete |-> run[t].complete])
    <3>1. PICK h \in Headers : h = Head(pool.queue) BY <2>1 DEF Takes
    <3>2. PICK r : r = [pc |-> "send", header |-> run[t].header, part |-> run[t].part, new |-> h,
                        complete |-> run[t].complete]
      OBVIOUS
    <3>3. NamedThread(r) BY <3>2
    <3>4. QED BY <1>1, <2>1, <3>1, <3>2, <3>3, NamedGoes
  <2>2. CASE Goes(t, At(t, "done"))
    <3>1. NamedThread(At(t, "done")) OBVIOUS
    <3>2. QED BY <1>1, <2>2, <3>1, NamedGoes
  <2>3. QED BY <1>5, <2>1, <2>2 DEF Gets
<1>6. CASE Refills(t)
  <2>1. PICK r : Goes(t, r) /\ r = [pc |-> "done", header |-> run[t].header, part |-> run[t].part, new |-> 0,
                                    complete |-> run[t].complete]
    BY <1>6 DEF Refills
  <2>2. NamedThread(r) BY <2>1
  <2>3. QED BY <1>1, <2>1, <2>2, NamedGoes
<1>7. CASE Finishes(t)
  <2>1. NamedThread(Idle) BY DEF Idle
  <2>2. QED BY <1>1, <1>7, <2>1, NamedGoes DEF Finishes
<1>8. QED BY <1>2, <1>3, <1>4, <1>5, <1>6, <1>7 DEF InCallback

\* The worker gives a header only while it has one.
LEMMA NamedWorks == ASSUME TypeInv, Opens \/ Shoots \/ Closes PROVE NamedWorker'
<1> USE DEF TypeInv, Named, NamedWorker, WorkerAt
<1>1. CASE Opens BY <1>1 DEF Opens, SetsUp, PoolMade, Connected, PortEnabled, Opening
<1>2. CASE Decided BY <1>2 DEF Decided
<1>3. CASE Counted BY <1>3 DEF Counted
<1>4. CASE HeaderTaken BY <1>4 DEF HeaderTaken, Takes
<1>5. CASE HeaderGiven BY <1>5 DEF HeaderGiven
<1>6. CASE Captured BY <1>6 DEF Captured
<1>7. CASE Awaited BY <1>7 DEF Awaited
<1>8. CASE Closes
  BY <1>8 DEF Closes, SemaphoreDeleted, SendingStopped, ActionLocked, PortDisabled, Drained, Unlocked, Callers,
              TransitAwaited, PoolFreed, ComponentsGone, BufferFreed
<1>9. QED BY <1>1, <1>2, <1>3, <1>4, <1>5, <1>6, <1>7, <1>8 DEF Shoots

\* Whatever is done, a step that handles a header has one.
LEMMA NamedKept == ASSUME TypeInv, Does PROVE Named'
<1>1. (\A t \in Threads : NamedThread(run[t])) /\ NamedWorker BY NamedIs DEF TypeInv
<1>2. Named' <=> (\A t \in Threads : NamedThread(run'[t])) /\ NamedWorker'
  BY DEF Named, NamedThread, NamedWorker
<1>3. CASE PartArrives BY <1>1, <1>2, <1>3 DEF PartArrives, Fills, pluginVars, NamedWorker
<1>4. CASE ActionBegins BY <1>1, <1>2, <1>4, NamedBegins, ThreadsAre DEF ActionBegins, pluginVars, NamedWorker
<1>5. ASSUME NEW t \in Threads, InCallback(t) PROVE Named'
  <2>1. worker' = worker
    BY <1>5 DEF InCallback, Copies, Completes, Returns, Gets, Refills, Finishes, pluginVars
  <2>2. QED BY <1>1, <1>2, <1>5, <2>1, NamedCallback DEF NamedWorker
<1>6. CASE Opens \/ Shoots \/ Closes
  <2>1. run' = run \/ (Begins("worker") /\ Drained)
    BY <1>6 DEF Opens, Shoots, Closes, SetsUp, PoolMade, Connected, PortEnabled, Decided, Counted, HeaderTaken,
                HeaderGiven, Captured, Awaited, SemaphoreDeleted, SendingStopped, ActionLocked, PortDisabled,
                Drained, Unlocked, TransitAwaited, PoolFreed, ComponentsGone, BufferFreed, mmalVars
  <2>2. \A t \in Threads : NamedThread(run'[t]) BY <1>1, <2>1, NamedBegins, ThreadsAre
  <2>3. QED BY <1>2, <1>6, <2>2, NamedWorks
<1>7. CASE Reading \/ Stops
  BY <1>1, <1>2, <1>7 DEF Reading, Waits, Locks, TakesCopy, Stops, mmalVars, NamedWorker
<1>8. QED BY <1>3, <1>4, <1>5, <1>6, <1>7 DEF Does

\* Whatever is done, TypeInv is kept.
LEMMA TypeInvKept == ASSUME TypeInv, Does PROVE TypeInv'
BY TypesKept, AskingKept, NamedKept DEF TypeInv

-----------------------------------------------------------------------------
(* How far the worker is, and what there is then.                          *)

Unopened ==
  /\ ~port.enabled /\ ~port.contexts /\ port.transit = 0
  /\ component.owner = "none" /\ component.queue = <<>>
  /\ vc.held = <<>> /\ vc.frame = 0 /\ vc.part = 0 /\ vc.asked = 0 /\ ~vc.streams
  /\ \A t \in Threads : run[t] = Idle
  /\ ~semaphore.live /\ semaphore.count = 0 /\ ~semaphore.misused
  /\ offset = 0 /\ board.owner # "callback" /\ board.size = 0 /\ board.buf[1].frame = 0
  /\ (reader.pc = "copy" => reader.size = 0) /\ reader.got = <<>>
Staged ==
  /\ worker.pc \in Opening \cup {"exit"} => Unopened
  /\ worker.pc \in {"camera", "encoder", "pool"} => pool = [state |-> "none", queue |-> <<>>]
  /\ worker.pc \in {"connect", "enable"} => pool = [state |-> "live", queue |-> [i \in Headers |-> i]]
  /\ pool.state = "none" => pool.queue = <<>> /\ worker.pc \in Opening \cup {"exit"}
  /\ worker.pc \in Shooting \cup {"delete"} => port.enabled /\ port.contexts
  /\ worker.pc \in Closing => stop
  /\ semaphore.live <=> worker.pc \in Shooting \cup {"delete"}

\* What a mmal_port_disable has undone already; it fails only where a call did.
Disablings ==
  /\ worker.pc \in {"lock", "message", "drain", "transit"} => ~port.enabled
  /\ worker.pc \in {"drain", "transit"} => ~port.contexts
  /\ worker.pc = "transit" => worker.ok
  /\ worker.pc = "drain" /\ ~worker.ok => "disable" \in failed
  /\ worker.pc \in Disabled => ~port.contexts
  /\ worker.pc \in Disabled /\ "disable" \notin failed => ~port.enabled /\ port.transit = 0
  /\ pool.state = "freed" /\ "disable" \notin failed => worker.pc \in Disabled
  /\ vc.held # <<>> /\ ~port.contexts => "disable" \in failed
  /\ ~port.callback => port.transit = 0 /\ ~port.contexts
  /\ fault = "freed context" => "disable" \in failed
  /\ fault # "no callback"

\* One thread at a time acts for the component.
Acting ==
  /\ component.owner = "action" <=> run["action"] # Idle
  /\ component.owner = "worker" <=> worker.pc \in {"message", "drain"}
  /\ run["worker"] # Idle => worker.pc = "drain"

\* The library counts the headers that are on their way.
Busy == Bit(run["action"] # Idle) + Bit(run["worker"] # Idle)
InTransit == port.transit = Len(vc.held) + Len(component.queue) + Busy
Control == Staged /\ Disablings /\ Acting /\ InTransit

\* What a thread has outside of a callback.
LEMMA IdleIs == Idle.pc = "idle" /\ Idle.complete = FALSE /\ Idle.part = NoPart /\ Idle.header = 0 /\ Idle.new = 0
BY DEF Idle

\* A thread that is in a callback stays in it, but for its end.
LEMMA StaysBusy ==
  ASSUME NEW t \in Threads, InCallback(t)
  PROVE  /\ run[t] # Idle /\ \A u \in Threads \ {t} : run'[u] = run[u]
         /\ run'[t] # Idle \/ (Finishes(t) /\ run'[t] = Idle)
<1> USE IdleIs DEF Goes, At
<1>1. CASE Copies(t) BY <1>1 DEF Copies
<1>2. CASE Completes(t) BY <1>2 DEF Completes
<1>3. CASE Returns(t) BY <1>3 DEF Returns
<1>4. CASE Gets(t) BY <1>4 DEF Gets
<1>5. CASE Refills(t) BY <1>5 DEF Refills
<1>6. CASE Finishes(t) BY <1>6 DEF Finishes
<1>7. QED BY <1>1, <1>2, <1>3, <1>4, <1>5, <1>6 DEF InCallback

\* Steps of the worker, but for one, leave the callbacks alone.
LEMMA WorkerRuns == ASSUME Opens \/ Shoots \/ Closes PROVE run' = run \/ Drained
BY DEF Opens, Shoots, Closes, SetsUp, PoolMade, Connected, PortEnabled, Decided, Counted, HeaderTaken,
       HeaderGiven, Captured, Awaited, SemaphoreDeleted, SendingStopped, ActionLocked, PortDisabled,
       Unlocked, TransitAwaited, PoolFreed, ComponentsGone, BufferFreed, mmalVars

\* Sequences of the state, and their lengths.
LEMMA QueueLengths ==
  ASSUME TypeInv
  PROVE  /\ vc.held \in Seq(Headers) /\ component.queue \in Seq(Entries) /\ pool.queue \in Seq(Headers)
         /\ Len(vc.held) \in Nat /\ Len(component.queue) \in Nat /\ Len(pool.queue) \in Nat
         /\ port.transit \in Int /\ Busy \in 0 .. 2
         /\ (vc.held = <<>> <=> Len(vc.held) = 0) /\ (component.queue = <<>> <=> Len(component.queue) = 0)
<1>1. vc.held \in Seq(Headers) /\ component.queue \in Seq(Entries) /\ pool.queue \in Seq(Headers)
  BY DEF TypeInv, MmalType, Vcs, Components, Pools, HeaderSeqs, EntrySeqs
<1>2. port.transit \in Int BY DEF TypeInv, MmalType, Ports
<1>3. Busy \in 0 .. 2 BY DEF Busy, Bit
<1>4. QED BY <1>1, <1>2, <1>3

\* The headers that come back without a part are those the VideoCore held.
LEMMA EmptiedLength ==
  ASSUME TypeInv
  PROVE  /\ Emptied(vc.held) \in Seq(Entries) /\ Len(Emptied(vc.held)) = Len(vc.held)
         /\ \A i \in 1 .. Len(vc.held) : Emptied(vc.held)[i] = [header |-> vc.held[i], part |-> NoPart]
<1>1. vc.held \in Seq(Headers) BY QueueLengths
<1>2. NoPart \in Part BY MmalAssumption DEF NoPart, Part
<1>3. PICK n \in Nat : n = Len(vc.held) BY <1>1
<1>4. \A i \in 1 .. n : [header |-> vc.held[i], part |-> NoPart] \in Entries BY <1>1, <1>2, <1>3 DEF Entries
<1>5. PICK s : s = Emptied(vc.held) OBVIOUS
<1>6. s = [i \in 1 .. n |-> [header |-> vc.held[i], part |-> NoPart]] BY <1>1, <1>3, <1>5 DEF Emptied
<1>7. s \in [1 .. n -> Entries] BY <1>4, <1>6
<1>8. s \in Seq(Entries) /\ Len(s) = n BY <1>7
<1>9. QED BY <1>3, <1>5, <1>6, <1>8

\* A queue without its head.
LEMMA TailLength ==
  ASSUME NEW S, NEW s \in Seq(S), s # <<>>
  PROVE  Len(Tail(s)) = Len(s) - 1 /\ Tail(s) \in Seq(S) /\ Head(s) \in S
OBVIOUS

\* A queue with one more element.
LEMMA AppendLength ==
  ASSUME NEW S, NEW s \in Seq(S), NEW x \in S
  PROVE  Len(Append(s, x)) = Len(s) + 1 /\ Append(s, x) \in Seq(S)
OBVIOUS

\* The headers in transit, from the places where they are.
LEMMA SumIs ==
  ASSUME NEW n \in Int, NEW h \in Int, NEW q \in Int, NEW b \in Int, n = h + q + b,
         port'.transit = n, Len(vc'.held) = h, Len(component'.queue) = q, Busy' = b
  PROVE  InTransit'
BY Zenon DEF InTransit

\* The count of the library is kept.
LEMMA InTransitKept == ASSUME TypeInv, Control, Does PROVE InTransit'
<1>0. PICK h \in Nat, q \in Nat, b \in Nat, n \in Int :
        /\ h = Len(vc.held) /\ q = Len(component.queue) /\ b = Busy /\ n = port.transit /\ n = h + q + b
  <2>1. PICK h \in Nat, q \in Nat, b \in Nat, n \in Int :
          h = Len(vc.held) /\ q = Len(component.queue) /\ b = Busy /\ n = port.transit
    BY QueueLengths
  <2>2. n = h + q + b BY <2>1, Zenon DEF InTransit, Control
  <2>3. QED BY <2>1, <2>2
<1>a. h \in Int /\ q \in Int /\ b \in Int /\ n = h + q + b
  <2>1. h \in Int /\ q \in Int /\ b \in Int OBVIOUS
  <2>2. n = h + q + b BY <1>0, Zenon
  <2>3. QED BY <2>1, <2>2
<1>s. vc.held \in Seq(Headers) /\ component.queue \in Seq(Entries) BY QueueLengths
<1>1. CASE PartArrives
  <2>1. PICK p \in Part : Fills(p) BY <1>1 DEF PartArrives
  <2>2. vc.held # <<>> /\ vc'.held = Tail(vc.held) /\ port' = port /\ run' = run BY <2>1 DEF Fills
  <2>3. PICK e : e = [header |-> Head(vc.held), part |-> p] OBVIOUS
  <2>4. e \in Entries BY <1>s, <2>2, <2>3, TailLength DEF Entries
  <2>5. component'.queue = Append(component.queue, e) BY <2>1, <2>3 DEF Fills
  <2>6. Len(vc'.held) = h - 1 /\ Len(component'.queue) = q + 1
    BY <1>0, <1>s, <2>2, <2>4, <2>5, TailLength, AppendLength
  <2>7. Busy' = b BY <1>0, <2>2 DEF Busy
  <2>7h. PICK h1 : h1 = h - 1 OBVIOUS
  <2>7q. PICK q1 : q1 = q + 1 OBVIOUS
  <2>8. h1 = h - 1 /\ q1 = q + 1 /\ h1 \in Int /\ q1 \in Int /\ n = h1 + q1 + b BY <1>a, <2>7h, <2>7q
  <2>9. port'.transit = n /\ Len(vc'.held) = h1 /\ Len(component'.queue) = q1 BY <1>0, <2>2, <2>6, <2>8, Zenon
  <2>10. QED BY <2>7, <2>8, <2>9, SumIs
<1>2. ASSUME NEW t \in Threads, Begins(t), UNCHANGED <<port, vc>> PROVE InTransit'
  <2>1. Len(component'.queue) = q - 1 BY <1>0, <1>s, <1>2, TailLength DEF Begins
  <2>2. run[t] = Idle /\ run'[t] # Idle /\ \A u \in Threads \ {t} : run'[u] = run[u]
    <3>1. run'[t].pc = "copy"
      <4>1. PICK e, p : e = Head(component.queue).header /\ p = Head(component.queue).part OBVIOUS
      <4>2. run'[t] = [pc |-> "copy", header |-> e, part |-> p, new |-> 0, complete |-> FALSE]
        BY <1>2, <4>1 DEF Begins
      <4>3. QED BY <4>2
    <3>2. QED BY <1>2, <3>1, IdleIs DEF Begins
  <2>3. Busy' = b + 1 BY <1>0, <2>2, ThreadsAre DEF Busy, Bit
  <2>3q. PICK q1 : q1 = q - 1 OBVIOUS
  <2>3b. PICK b1 : b1 = b + 1 OBVIOUS
  <2>4. q1 = q - 1 /\ b1 = b + 1 /\ q1 \in Int /\ b1 \in Int /\ n = h + q1 + b1 BY <1>a, <2>3q, <2>3b
  <2>5. port'.transit = n /\ Len(vc'.held) = h /\ Len(component'.queue) = q1 /\ Busy' = b1
    BY <1>0, <1>2, <2>1, <2>3, <2>4, Zenon
  <2>6. QED BY <2>4, <2>5, SumIs
<1>3. ASSUME NEW t \in Threads, InCallback(t) PROVE InTransit'
  <2>1. CASE Finishes(t)
    <3>1. run[t] # Idle /\ run'[t] = Idle /\ \A u \in Threads \ {t} : run'[u] = run[u]
      BY <2>1, <1>3, StaysBusy DEF Finishes, Goes
    <3>2. Busy' = b - 1 BY <1>0, <3>1, ThreadsAre DEF Busy, Bit
    <3>3. vc' = vc /\ component'.queue = component.queue /\ port'.transit = n - 1 BY <1>0, <2>1 DEF Finishes
    <3>4. QED BY <1>0, <3>2, <3>3 DEF InTransit
  <2>2. CASE ~Finishes(t)
    <3>1. Busy' = b BY <1>0, <1>3, <2>2, StaysBusy, ThreadsAre DEF Busy, Bit
    <3>2. CASE Refills(t)
      <4>1. component' = component BY <3>2 DEF Refills
      <4>2. CASE vc'.held = Append(vc.held, run[t].new) /\ port'.transit = port.transit + 1
        <5>1. run[t].new \in Headers BY <3>2 DEF TypeInv, Named, Refills
        <5>2. Len(vc'.held) = h + 1 BY <1>0, <1>s, <4>2, <5>1, AppendLength
        <5>2h. PICK h1 : h1 = h + 1 OBVIOUS
        <5>2n. PICK n1 : n1 = n + 1 OBVIOUS
        <5>3. h1 = h + 1 /\ n1 = n + 1 /\ h1 \in Int /\ n1 \in Int /\ n1 = h1 + q + b BY <1>a, <5>2h, <5>2n
        <5>4. port'.transit = n1 /\ Len(vc'.held) = h1 /\ Len(component'.queue) = q
          BY <1>0, <4>1, <4>2, <5>2, <5>3, Zenon
        <5>5. QED BY <3>1, <5>3, <5>4, SumIs
      <4>3. CASE vc' = vc /\ port' = port BY <1>0, <3>1, <4>1, <4>3 DEF InTransit
      <4>4. QED BY <3>2, <4>2, <4>3 DEF Refills, Given
    <3>3. CASE ~Refills(t)
      <4>1. vc' = vc /\ port' = port /\ component' = component
        BY <1>3, <2>2, <3>3 DEF InCallback, Copies, Completes, Returns, Gets
      <4>2. QED BY <1>0, <3>1, <4>1 DEF InTransit
    <3>4. QED BY <3>2, <3>3
  <2>3. QED BY <2>1, <2>2
<1>4. CASE Opens \/ Shoots \/ Closes
  <2>1. CASE Drained BY <2>1, <1>2, ThreadsAre DEF Drained
  <2>2. CASE ~Drained
    <3>1. Busy' = b BY <1>0, <1>4, <2>2, WorkerRuns DEF Busy
    <3>2. CASE HeaderGiven
      <4>1. component' = component BY <3>2 DEF HeaderGiven
      <4>2. CASE vc'.held = Append(vc.held, worker.hand) /\ port'.transit = port.transit + 1
        <5>1. worker.hand \in Headers BY <3>2 DEF TypeInv, Named, HeaderGiven
        <5>2. Len(vc'.held) = h + 1 BY <1>0, <1>s, <4>2, <5>1, AppendLength
        <5>2h. PICK h1 : h1 = h + 1 OBVIOUS
        <5>2n. PICK n1 : n1 = n + 1 OBVIOUS
        <5>3. h1 = h + 1 /\ n1 = n + 1 /\ h1 \in Int /\ n1 \in Int /\ n1 = h1 + q + b BY <1>a, <5>2h, <5>2n
        <5>4. port'.transit = n1 /\ Len(vc'.held) = h1 /\ Len(component'.queue) = q
          BY <1>0, <4>1, <4>2, <5>2, <5>3, Zenon
        <5>5. QED BY <3>1, <5>3, <5>4, SumIs
      <4>3. CASE vc' = vc /\ port' = port BY <1>0, <3>1, <4>1, <4>3 DEF InTransit
      <4>4. QED BY <3>2, <4>2, <4>3 DEF HeaderGiven, Given
    <3>3. CASE PortDisabled
      <4>1. port'.transit = port.transit BY <3>3 DEF PortDisabled
      <4>2. CASE component'.queue = component.queue \o Emptied(vc.held) /\ vc'.held = <<>>
        <5>1. PICK s \in Seq(Entries) : s = Emptied(vc.held) /\ Len(s) = h BY <1>0, EmptiedLength
        <5>2. component'.queue = component.queue \o s /\ Len(vc'.held) = 0 BY <4>2, <5>1
        <5>3. Len(component.queue \o s) = Len(component.queue) + Len(s) BY <1>s, <5>1, ConcatProperties
        <5>3q. PICK q1 : q1 = q + h OBVIOUS
        <5>4. q1 = q + h /\ q1 \in Int /\ n = 0 + q1 + b BY <1>a, <5>3q
        <5>5. Len(component'.queue) = q1 BY <1>0, <5>1, <5>2, <5>3, <5>4, Zenon
        <5>6. port'.transit = n BY <1>0, <4>1, Zenon
        <5>z. 0 \in Int OBVIOUS
        <5>7. QED BY <3>1, <5>2, <5>4, <5>5, <5>6, <5>z, SumIs
      <4>3. CASE component' = component /\ vc' = vc BY <1>0, <3>1, <4>1, <4>3 DEF InTransit
      <4>4. QED BY <3>3, <4>2, <4>3 DEF PortDisabled
    <3>4. CASE ~HeaderGiven /\ ~PortDisabled
      <4>1. vc'.held = vc.held /\ component'.queue = component.queue /\ port'.transit = port.transit
        BY <1>4, <2>2, <3>4 DEF Opens, Shoots, Closes, SetsUp, PoolMade, Connected, PortEnabled, Decided,
             Counted, HeaderTaken, Captured, Awaited, SemaphoreDeleted, SendingStopped, ActionLocked, Unlocked,
             TransitAwaited, PoolFreed, ComponentsGone, BufferFreed, mmalVars
      <4>2. QED BY <1>0, <3>1, <4>1 DEF InTransit
    <3>5. QED BY <3>2, <3>3, <3>4
  <2>3. QED BY <2>1, <2>2
<1>5. CASE Reading \/ Stops
  <2>1. vc' = vc /\ component' = component /\ port' = port /\ run' = run
    BY <1>5 DEF Reading, Waits, Locks, TakesCopy, Stops, mmalVars
  <2>2. QED BY <1>0, <2>1 DEF Busy, InTransit
<1>6. CASE ActionBegins BY <1>6, <1>2, ThreadsAre DEF ActionBegins
<1>7. QED BY <1>1, <1>3, <1>4, <1>5, <1>6 DEF Does

\* The owner of action_mutex is the thread that is in a callback, or disables.
LEMMA ActingKept == ASSUME TypeInv, Control, Does PROVE Acting'
<1> USE ThreadsAre DEF Control, Acting
<1>1. CASE PartArrives BY <1>1 DEF PartArrives, Fills, pluginVars
<1>2. CASE ActionBegins
  <2>1. run'["action"] # Idle
    <3>1. PICK e, p : e = Head(component.queue).header /\ p = Head(component.queue).part OBVIOUS
    <3>2. run'["action"] = [pc |-> "copy", header |-> e, part |-> p, new |-> 0, complete |-> FALSE]
      BY <1>2, <3>1 DEF ActionBegins, Begins
    <3>3. run'["action"].pc = "copy" BY <3>2
    <3>4. QED BY <3>3, IdleIs
  <2>2. QED BY <1>2, <2>1 DEF ActionBegins, Begins, pluginVars
<1>3. ASSUME NEW t \in Threads, InCallback(t) PROVE Acting'
  <2>1. worker' = worker
    BY <1>3 DEF InCallback, Copies, Completes, Returns, Gets, Refills, Finishes, pluginVars
  <2>2. CASE Finishes(t)
    <3>1. run[t] # Idle /\ run'[t] = Idle /\ \A u \in Threads \ {t} : run'[u] = run[u]
      BY <2>2, <1>3, StaysBusy DEF Finishes, Goes
    <3>2. component'.owner = IF t = "action" THEN "none" ELSE component.owner BY <2>2 DEF Finishes
    <3>3. QED BY <2>1, <3>1, <3>2
  <2>3. CASE ~Finishes(t)
    <3>1. component'.owner = component.owner
      BY <1>3, <2>3 DEF InCallback, Copies, Completes, Returns, Gets, Refills, pluginVars
    <3>2. run[t] # Idle /\ run'[t] # Idle /\ \A u \in Threads \ {t} : run'[u] = run[u]
      BY <1>3, <2>3, StaysBusy
    <3>3. QED BY <2>1, <3>1, <3>2
  <2>4. QED BY <2>2, <2>3
<1>4. CASE Opens
  BY <1>4 DEF Opens, SetsUp, PoolMade, Connected, PortEnabled, WorkerAt, mmalVars, Opening
<1>5. CASE Shoots
  <2>1. run' = run /\ component' = component
    BY <1>5 DEF Shoots, Decided, Counted, HeaderTaken, HeaderGiven, Captured, Awaited, mmalVars
  <2>2. worker.pc \notin {"message", "drain"} /\ worker'.pc \notin {"message", "drain"}
    BY <1>5 DEF Shoots, Decided, Counted, HeaderTaken, HeaderGiven, Captured, Awaited, WorkerAt
  <2>3. QED BY <2>1, <2>2
<1>6. CASE Drained
  <2>1. worker' = worker /\ run'["action"] = run["action"] /\ component'.owner = "worker"
    BY <1>6 DEF Drained, Begins
  <2>2. QED BY <1>6, <2>1 DEF Drained
<1>7. CASE Closes /\ ~Drained
  <2>1. CASE Unlocked BY <2>1 DEF Unlocked, Callers
  <2>2. CASE ActionLocked BY <2>2 DEF ActionLocked, WorkerAt
  <2>3. CASE PortDisabled BY <2>3 DEF PortDisabled
  <2>4. CASE ~Unlocked /\ ~ActionLocked /\ ~PortDisabled
    BY <1>7, <2>4 DEF Closes, SemaphoreDeleted, SendingStopped, TransitAwaited, PoolFreed, ComponentsGone,
         BufferFreed, WorkerAt, Callers, mmalVars
  <2>5. QED BY <2>1, <2>2, <2>3, <2>4
<1>8. CASE Reading \/ Stops BY <1>8 DEF Reading, Waits, Locks, TakesCopy, Stops, mmalVars
<1>9. QED BY <1>1, <1>2, <1>3, <1>4, <1>5, <1>6, <1>7, <1>8 DEF Does

\* Nothing is there before the port is enabled.
LEMMA UnopenedKept == ASSUME TypeInv, Control, Does, worker'.pc \in Opening \cup {"exit"} PROVE Unopened'
<1>1. CASE worker.pc \in Opening \cup {"exit"}
  <2>1. Unopened BY <1>1 DEF Control, Staged
  <2>2. ~PartArrives /\ ~ActionBegins BY <2>1 DEF Unopened, PartArrives, Fills, ActionBegins, Begins
  <2>3. ASSUME NEW t \in Threads, InCallback(t) PROVE FALSE BY <2>1, <2>3, StaysBusy DEF Unopened
  <2>4. CASE Opens
    <3>1. ~PortEnabled BY DEF PortEnabled, WorkerAt, Opening
    <3>2. QED BY <2>1, <2>4, <3>1 DEF Opens, SetsUp, PoolMade, Connected, Unopened, EncoderKept, mmalVars
  <2>5. ~Shoots
    BY <1>1 DEF Shoots, Decided, Counted, HeaderTaken, HeaderGiven, Captured, Awaited, Opening
  <2>6. ~Closes
    BY <1>1 DEF Closes, SemaphoreDeleted, SendingStopped, ActionLocked, PortDisabled, Drained, Unlocked,
         TransitAwaited, PoolFreed, ComponentsGone, BufferFreed, Opening
  <2>7. CASE Reading \/ Stops
    <3>1. CASE TakesCopy
      <4>1. PICK buf : buf = board.buf OBVIOUS
      <4>2. SubSeq(buf, 1, 0) = <<>>
        <5>1. buf \in [1 .. MaxParts -> Part] BY <4>1 DEF TypeInv, PluginType, BoardsOf, Buffers
        <5>2. QED BY <5>1, MmalAssumption
      <4>3. reader'.got = <<>> BY <2>1, <3>1, <4>1, <4>2 DEF TakesCopy, Unopened
      <4>4. QED BY <2>1, <3>1, <4>3 DEF TakesCopy, mmalVars, Unopened
    <3>2. CASE Waits \/ Locks \/ Stops
      BY <2>1, <3>2 DEF Waits, Locks, Stops, mmalVars, Unopened, ReaderSame
    <3>3. QED BY <2>7, <3>1, <3>2 DEF Reading
  <2>8. QED BY <2>2, <2>3, <2>4, <2>5, <2>6, <2>7 DEF Does
<1>2. CASE worker.pc \notin Opening \cup {"exit"}
  <2>1. worker' # worker BY <1>2
  <2>2. ~PartArrives /\ ~ActionBegins /\ ~Reading /\ ~Stops
    BY <2>1 DEF PartArrives, ActionBegins, Reading, Waits, Locks, TakesCopy, Stops, pluginVars
  <2>3. ASSUME NEW t \in Threads, InCallback(t) PROVE FALSE
    BY <2>1, <2>3 DEF InCallback, Copies, Completes, Returns, Gets, Refills, Finishes, pluginVars
  <2>4. ~Opens BY <1>2 DEF Opens, SetsUp, PoolMade, Connected, PortEnabled, Opening, WorkerAt
  <2>5. ~Shoots
    BY <1>2 DEF Shoots, Decided, Counted, HeaderTaken, HeaderGiven, Captured, Awaited, Opening, WorkerAt
  <2>6. ~Closes
    BY <1>2 DEF Closes, SemaphoreDeleted, SendingStopped, ActionLocked, PortDisabled, Drained, Unlocked,
         TransitAwaited, PoolFreed, ComponentsGone, BufferFreed, Opening, WorkerAt, Callers
  <2>7. QED BY <2>2, <2>3, <2>4, <2>5, <2>6 DEF Does
<1>3. QED BY <1>1, <1>2

\* The stages of the worker.
LEMMA StagedKept == ASSUME TypeInv, Control, Does PROVE Staged'
<1>1. (worker.pc \in Opening \cup {"exit"} => Unopened)' BY UnopenedKept
<1> DEFINE PoolIs ==
      /\ worker.pc \in {"camera", "encoder", "pool"} => pool = [state |-> "none", queue |-> <<>>]
      /\ worker.pc \in {"connect", "enable"} => pool = [state |-> "live", queue |-> [i \in Headers |-> i]]
      /\ pool.state = "none" => pool.queue = <<>> /\ worker.pc \in Opening \cup {"exit"}
    Rest1 ==
      /\ worker.pc \in Shooting \cup {"delete"} => port.enabled /\ port.contexts
      /\ worker.pc \in Closing => stop
      /\ semaphore.live <=> worker.pc \in Shooting \cup {"delete"}
<1>2. PoolIs /\ Rest1 BY DEF Control, Staged
<1>3. CASE PartArrives \/ ActionBegins
  <2>1. worker' = worker /\ pool' = pool /\ port' = port /\ stop' = stop /\ semaphore' = semaphore
    BY <1>3 DEF PartArrives, ActionBegins, Fills, pluginVars
  <2>2. QED BY <1>1, <1>2, <2>1 DEF Staged
<1>4. ASSUME NEW t \in Threads, InCallback(t) PROVE Staged'
  <2>1. /\ worker' = worker /\ stop' = stop /\ semaphore'.live = semaphore.live
        /\ port'.enabled = port.enabled /\ port'.contexts = port.contexts
    BY <1>4 DEF InCallback, Copies, Completes, Returns, Gets, Refills, Finishes, PortKept, pluginVars
  <2>2. worker.pc \notin Opening \cup {"exit"}
    BY <1>4, StaysBusy DEF Control, Staged, Unopened
  <2>3. pool'.state = pool.state
    BY <1>4 DEF InCallback, Copies, Completes, Returns, Gets, Takes, Refills, Finishes
  <2>4. PoolIs' BY <1>2, <2>1, <2>2, <2>3 DEF Opening
  <2>5. QED BY <1>1, <1>2, <2>1, <2>4 DEF Staged
<1>5. CASE Opens
  <2>1. PoolIs' BY <1>2, <1>5 DEF Opens, SetsUp, PoolMade, Connected, PortEnabled, Opening, WorkerAt, mmalVars
  <2>2. Rest1'
    BY <1>2, <1>5 DEF Opens, SetsUp, PoolMade, Connected, PortEnabled, Opening, WorkerAt, mmalVars, Shooting,
         Closing, Disabling, Disabled
  <2>3. QED BY <1>1, <2>1, <2>2 DEF Staged
<1>6. CASE Shoots
  <2>1. worker.pc \in Shooting \cup {"pools", "components"} /\ worker'.pc \in Shooting \cup {"delete", "off"}
    BY <1>6 DEF Shoots, Decided, Counted, HeaderTaken, HeaderGiven, Captured, Awaited, WorkerAt, Shooting
  <2>2. pool'.state = pool.state
    BY <1>6 DEF Shoots, Decided, Counted, HeaderTaken, HeaderGiven, Captured, Awaited, mmalVars, Takes
  <2>3. PoolIs' BY <1>2, <2>1, <2>2 DEF Shooting, Opening
  <2>4. /\ semaphore'.live = semaphore.live /\ port'.enabled = port.enabled /\ port'.contexts = port.contexts
        /\ stop' = stop
    BY <1>6 DEF Shoots, Decided, Counted, HeaderTaken, HeaderGiven, Captured, Awaited, mmalVars, PortKept
  <2>5. /\ worker'.pc = "delete" => stop /\ worker.pc \in Shooting
        /\ worker'.pc = "off" => worker.pc \in {"pools", "components"}
        /\ worker'.pc \in Shooting => worker.pc \in Shooting
    BY <1>6 DEF Shoots, Decided, Counted, HeaderTaken, HeaderGiven, Captured, Awaited, WorkerAt, Shooting
  <2>6. Rest1' BY <1>2, <2>1, <2>4, <2>5 DEF Shooting, Closing, Disabling, Disabled
  <2>7. QED BY <1>1, <2>3, <2>6 DEF Staged
<1>7. CASE Closes
  <2>1. worker.pc \in Closing /\ worker'.pc \in Closing \ {"delete"}
    BY <1>7 DEF Closes, SemaphoreDeleted, SendingStopped, ActionLocked, PortDisabled, Drained, Unlocked,
         TransitAwaited, PoolFreed, ComponentsGone, BufferFreed, WorkerAt, Callers, Closing, Disabling, Disabled
  <2>2. pool'.state = pool.state \/ pool'.state = "freed"
    <3>1. CASE PoolFreed BY <3>1 DEF PoolFreed
    <3>2. CASE ~PoolFreed
      <4>1. pool' = pool
        BY <1>7, <3>2 DEF Closes, SemaphoreDeleted, SendingStopped, ActionLocked, PortDisabled, Drained, Unlocked,
             TransitAwaited, ComponentsGone, BufferFreed, mmalVars
      <4>2. QED BY <4>1
    <3>3. QED BY <3>1, <3>2
  <2>3. PoolIs' BY <1>2, <2>1, <2>2 DEF Closing, Disabling, Disabled, Opening
  <2>4. stop' = stop /\ (semaphore' = semaphore \/ SemaphoreDeleted)
    <3>1. CASE SemaphoreDeleted BY <3>1 DEF SemaphoreDeleted
    <3>2. CASE ~SemaphoreDeleted
      BY <1>7, <3>2 DEF Closes, SendingStopped, ActionLocked, PortDisabled, Drained, Unlocked, TransitAwaited,
           PoolFreed, ComponentsGone, BufferFreed, mmalVars
    <3>3. QED BY <3>1, <3>2
  <2>5. worker.pc = "delete" => SemaphoreDeleted
    BY <1>7 DEF Closes, SendingStopped, ActionLocked, PortDisabled, Drained, Unlocked, TransitAwaited, PoolFreed,
         ComponentsGone, BufferFreed
  <2>6. semaphore'.live = FALSE
    <3>1. CASE SemaphoreDeleted BY <3>1 DEF SemaphoreDeleted, Semaphores
    <3>2. CASE ~SemaphoreDeleted
      <4>1. semaphore' = semaphore /\ worker.pc \notin Shooting \cup {"delete"}
        BY <2>1, <2>4, <2>5, <3>2 DEF Shooting, Closing, Disabling, Disabled
      <4>2. QED BY <1>2, <4>1 DEF TypeInv, PluginType, Semaphores
    <3>3. QED BY <3>1, <3>2
  <2>7. Rest1' BY <1>2, <2>1, <2>4, <2>6 DEF Shooting, Closing, Disabling, Disabled
  <2>8. QED BY <1>1, <2>3, <2>7 DEF Staged
<1>8. CASE Reading \/ Stops
  <2>1. worker' = worker /\ pool' = pool /\ port' = port /\ (stop => stop') /\ semaphore' = semaphore
    BY <1>8 DEF Reading, Waits, Locks, TakesCopy, Stops, mmalVars
  <2>2. QED BY <1>1, <1>2, <2>1 DEF Staged
<1>9. QED BY <1>3, <1>4, <1>5, <1>6, <1>7, <1>8 DEF Does

\* What a mmal_port_disable undoes.
DisablingPort ==
  /\ worker.pc \in {"lock", "message", "drain", "transit"} => ~port.enabled
  /\ worker.pc \in {"drain", "transit"} \cup Disabled => ~port.contexts
  /\ worker.pc = "transit" => worker.ok
  /\ worker.pc = "drain" /\ ~worker.ok => "disable" \in failed
  /\ worker.pc \in Disabled /\ "disable" \notin failed => ~port.enabled /\ port.transit = 0
  /\ pool.state = "freed" /\ "disable" \notin failed => worker.pc \in Disabled
DisablingContexts ==
  /\ vc.held # <<>> /\ ~port.contexts => "disable" \in failed
  /\ ~port.callback => port.transit = 0 /\ ~port.contexts
NoBadFault ==
  /\ fault = "freed context" => "disable" \in failed
  /\ fault # "no callback"

\* Disablings in its three parts.
LEMMA DisablingsAre == Disablings <=> DisablingPort /\ DisablingContexts /\ NoBadFault
BY DEF Disablings, DisablingPort, DisablingContexts, NoBadFault

\* The same, after a step.
LEMMA DisablingsAreThen == Disablings' <=> DisablingPort' /\ DisablingContexts' /\ NoBadFault'
BY DEF Disablings, DisablingPort, DisablingContexts, NoBadFault

\* A failure is not forgotten.
LEMMA FailedGrows == ASSUME Does PROVE failed \subseteq failed'
<1>1. CASE PartArrives BY <1>1 DEF PartArrives, Fills
<1>2. ASSUME NEW t \in Threads, InCallback(t) PROVE failed \subseteq failed'
  BY <1>2 DEF InCallback, Copies, Completes, Returns, Gets, Refills, Given, Finishes
<1>3. CASE Opens BY <1>3 DEF Opens, SetsUp, PoolMade, Connected, PortEnabled, mmalVars
<1>4. CASE Shoots
  BY <1>4 DEF Shoots, Decided, Counted, HeaderTaken, HeaderGiven, Given, Captured, Awaited, mmalVars
<1>5. CASE Closes
  BY <1>5 DEF Closes, SemaphoreDeleted, SendingStopped, ActionLocked, PortDisabled, Drained, Unlocked,
       TransitAwaited, PoolFreed, ComponentsGone, BufferFreed, mmalVars
<1>6. CASE ActionBegins \/ Reading \/ Stops
  BY <1>6 DEF ActionBegins, Reading, Waits, Locks, TakesCopy, Stops, mmalVars
<1>7. QED BY <1>1, <1>2, <1>3, <1>4, <1>5, <1>6 DEF Does

\* Nor does it change what may fail.
LEMMA MayFailKept == ASSUME Does PROVE mayFail' = mayFail
<1>1. CASE PartArrives BY <1>1 DEF PartArrives, Fills
<1>2. ASSUME NEW t \in Threads, InCallback(t) PROVE mayFail' = mayFail
  BY <1>2 DEF InCallback, Copies, Completes, Returns, Gets, Refills, Given, Finishes
<1>3. CASE Opens BY <1>3 DEF Opens, SetsUp, PoolMade, Connected, PortEnabled, mmalVars
<1>4. CASE Shoots
  BY <1>4 DEF Shoots, Decided, Counted, HeaderTaken, HeaderGiven, Given, Captured, Awaited, mmalVars
<1>5. CASE Closes
  BY <1>5 DEF Closes, SemaphoreDeleted, SendingStopped, ActionLocked, PortDisabled, Drained, Unlocked,
       TransitAwaited, PoolFreed, ComponentsGone, BufferFreed, mmalVars
<1>6. CASE ActionBegins \/ Reading \/ Stops
  BY <1>6 DEF ActionBegins, Begins, Reading, Waits, Locks, TakesCopy, Stops, mmalVars
<1>7. QED BY <1>1, <1>2, <1>3, <1>4, <1>5, <1>6 DEF Does

\* Where a header is with the library, it counts one.
LEMMA Counted1 ==
  ASSUME TypeInv, Control, vc.held # <<>> \/ component.queue # <<>> \/ \E t \in Threads : run[t] # Idle
  PROVE  port.transit > 0
<1>1. PICK h \in Nat, q \in Nat, b \in Nat, n \in Int :
        h = Len(vc.held) /\ q = Len(component.queue) /\ b = Busy /\ n = port.transit
  BY QueueLengths
<1>2. n = h + q + b BY <1>1, Zenon DEF InTransit, Control
<1>3. h > 0 \/ q > 0 \/ b > 0
  <2>1. CASE vc.held # <<>> BY <1>1, <2>1, QueueLengths
  <2>2. CASE component.queue # <<>> BY <1>1, <2>2, QueueLengths
  <2>3. CASE \E t \in Threads : run[t] # Idle BY <1>1, <2>3, ThreadsAre DEF Busy, Bit
  <2>4. QED BY <2>1, <2>2, <2>3
<1>4. n > 0
  <2>1. h \in Nat /\ q \in Nat /\ b \in Nat OBVIOUS
  <2>2. QED BY <1>2, <1>3, <2>1
<1>5. QED BY <1>1, <1>4

\* A callback keeps Disablings.
LEMMA DisablingCallback ==
  ASSUME TypeInv, Control, NEW t \in Threads, InCallback(t) PROVE Disablings'
<1>1. DisablingPort /\ DisablingContexts /\ NoBadFault BY DisablingsAre DEF Control
<1>2. port.transit > 0 /\ port.transit \in Int
  <2>1. run[t] # Idle BY StaysBusy
  <2>2. QED BY <2>1, Counted1, QueueLengths
<1>3. port.transit # 0 BY <1>2
<1>4. port.callback BY <1>1, <1>3 DEF DisablingContexts
<1>5. /\ worker' = worker /\ fault' = fault /\ PortKept
  BY DEF InCallback, Copies, Completes, Returns, Gets, Refills, Finishes, PortKept, pluginVars
<1>6. pool'.state = pool.state
  BY DEF InCallback, Copies, Completes, Returns, Gets, Takes, Refills, Finishes
<1>7. failed \subseteq failed' BY FailedGrows DEF Does
<1>8. worker.pc \in Disabled => "disable" \in failed BY <1>1, <1>3 DEF DisablingPort
<1>9. DisablingPort' BY <1>1, <1>5, <1>6, <1>7, <1>8 DEF DisablingPort, PortKept
<1>10. DisablingContexts'
  <2>1. vc'.held = vc.held \/ port.contexts
    BY DEF InCallback, Copies, Completes, Returns, Gets, Refills, Given, Finishes
  <2>2. QED BY <1>1, <1>4, <1>5, <1>7, <2>1 DEF DisablingContexts, PortKept
<1>11. NoBadFault' BY <1>1, <1>5, <1>7 DEF NoBadFault
<1>12. QED BY <1>9, <1>10, <1>11, DisablingsAreThen

\* A part that arrives and a callback that begins keep Disablings.
LEMMA DisablingLibrary ==
  ASSUME TypeInv, Control, PartArrives \/ ActionBegins PROVE Disablings'
<1>1. DisablingPort /\ DisablingContexts /\ NoBadFault BY DisablingsAre DEF Control
<1>2. worker' = worker /\ pool' = pool /\ port' = port BY DEF PartArrives, ActionBegins, Fills, pluginVars
<1>3. failed \subseteq failed' BY FailedGrows DEF Does
<1>4. DisablingPort' BY <1>1, <1>2, <1>3 DEF DisablingPort
<1>5. CASE PartArrives
  <2>1. vc.held # <<>> /\ fault' = IF port.contexts THEN fault ELSE "freed context" BY <1>5 DEF PartArrives, Fills
  <2>2. DisablingContexts' /\ NoBadFault'
    BY <1>1, <1>2, <1>3, <2>1 DEF DisablingContexts, NoBadFault
  <2>3. QED BY <1>4, <2>2, DisablingsAreThen
<1>6. CASE ActionBegins
  <2>1. component.queue # <<>> /\ vc' = vc /\ fault' = IF port.callback THEN fault ELSE "no callback"
    BY <1>6 DEF ActionBegins, Begins
  <2>2. port.transit > 0 BY <2>1, Counted1
  <2>3. port.callback BY <1>1, <2>2 DEF DisablingContexts
  <2>4. DisablingContexts' /\ NoBadFault'
    BY <1>1, <1>2, <1>3, <2>1, <2>3 DEF DisablingContexts, NoBadFault
  <2>5. QED BY <1>4, <2>4, DisablingsAreThen
<1>7. QED BY <1>5, <1>6

\* Opening keeps Disablings: the port is enabled with its contexts.
LEMMA DisablingOpens ==
  ASSUME TypeInv, Control, Opens PROVE Disablings'
<1>1. DisablingPort /\ DisablingContexts /\ NoBadFault BY DisablingsAre DEF Control
<1>2. fault' = fault /\ failed' = failed BY DEF Opens, SetsUp, PoolMade, Connected, PortEnabled, mmalVars
<1>3. NoBadFault' BY <1>1, <1>2 DEF NoBadFault
<1>4. CASE PortEnabled
  <2>1. /\ port'.callback /\ port'.contexts /\ pool' = pool /\ worker'.pc \in {"loop", "count"}
        /\ worker.pc = "enable"
    BY <1>4 DEF PortEnabled, WorkerAt
  <2>2. pool.state = "freed" => "disable" \in failed BY <1>1, <2>1 DEF DisablingPort, Disabled
  <2>3. DisablingPort' BY <1>2, <2>1, <2>2 DEF DisablingPort, Disabled
  <2>4. DisablingContexts' BY <2>1 DEF DisablingContexts
  <2>5. QED BY <1>3, <2>3, <2>4, DisablingsAreThen
<1>5. CASE ~PortEnabled
  <2>1. port' = port /\ vc'.held = vc.held
    BY <1>5 DEF Opens, SetsUp, PoolMade, Connected, mmalVars
  <2>2. \/ worker.pc \in Opening /\ worker'.pc \in Opening \cup {"exit"} /\ (pool' = pool \/ pool'.state = "live")
        \/ worker.pc = "disconnect" /\ worker'.pc = "pools" /\ pool' = pool
    <3>1. CASE PoolMade BY <3>1 DEF PoolMade, WorkerAt, Opening
    <3>2. CASE ~PoolMade BY <1>5, <3>2 DEF Opens, SetsUp, Connected, WorkerAt, mmalVars, Opening
    <3>3. QED BY <3>1, <3>2
  <2>3. DisablingPort' BY <1>1, <1>2, <2>1, <2>2 DEF DisablingPort, Disabled, Opening
  <2>4. DisablingContexts' BY <1>1, <1>2, <2>1 DEF DisablingContexts
  <2>5. QED BY <1>3, <2>3, <2>4, DisablingsAreThen
<1>6. QED BY <1>4, <1>5

\* Taking pictures keeps Disablings.
LEMMA DisablingShoots ==
  ASSUME TypeInv, Control, Shoots PROVE Disablings'
<1>1. DisablingPort /\ DisablingContexts /\ NoBadFault BY DisablingsAre DEF Control
<1>2. failed \subseteq failed' BY FailedGrows DEF Does
<1>3. /\ fault' = fault \/ fault' = "null header"
      /\ pool'.state = pool.state
      /\ PortKept /\ (port' = port \/ (port.contexts /\ port'.contexts))
  BY DEF Shoots, Decided, Counted, HeaderTaken, HeaderGiven, Given, Captured, Awaited, mmalVars, Takes, PortKept
<1>4. vc'.held = vc.held \/ port.contexts
  BY DEF Shoots, Decided, Counted, HeaderTaken, HeaderGiven, Given, Captured, Awaited, mmalVars
<1>5. \/ worker.pc \in Shooting /\ worker'.pc \in Shooting \cup {"delete"}
      \/ worker.pc \in Disabled /\ worker'.pc = "off" /\ port.enabled
  BY DEF Shoots, Decided, Counted, HeaderTaken, HeaderGiven, Captured, Awaited, WorkerAt, Shooting, Disabled
<1>6. NoBadFault' BY <1>1, <1>2, <1>3 DEF NoBadFault
<1>7. pool.state = "freed" => "disable" \in failed
  BY <1>1, <1>5 DEF DisablingPort, Shooting, Disabled
<1>8. DisablingPort' BY <1>2, <1>3, <1>5, <1>7 DEF DisablingPort, Shooting, Disabled
<1>9. DisablingContexts' BY <1>1, <1>2, <1>3, <1>4 DEF DisablingContexts, PortKept
<1>10. QED BY <1>6, <1>8, <1>9, DisablingsAreThen

\* Closing keeps Disablings.
LEMMA DisablingCloses ==
  ASSUME TypeInv, Control, Closes PROVE Disablings'
<1>1. DisablingPort /\ DisablingContexts /\ NoBadFault BY DisablingsAre DEF Control
<1>2. failed \subseteq failed' BY FailedGrows DEF Does
<1> USE DEF WorkerAt
<1>3. CASE SemaphoreDeleted
  <2>1. port' = port /\ vc' = vc /\ fault' = fault /\ pool' = pool /\ worker.pc = "delete" /\ worker'.pc = "off"
    BY <1>3 DEF SemaphoreDeleted, mmalVars
  <2>2. DisablingPort' BY <1>1, <1>2, <2>1 DEF DisablingPort, Disabled
  <2>3. DisablingContexts' /\ NoBadFault' BY <1>1, <1>2, <2>1 DEF DisablingContexts, NoBadFault
  <2>4. QED BY <2>2, <2>3, DisablingsAreThen
<1>4. CASE SendingStopped
  <2>1. /\ vc' = vc /\ fault' = fault /\ pool' = pool /\ worker.pc = "off" /\ worker'.pc = "lock"
        /\ ~port'.enabled /\ port'.callback = port.callback /\ port'.contexts = port.contexts
        /\ port'.transit = port.transit
    BY <1>4 DEF SendingStopped
  <2>2. DisablingPort' BY <1>1, <1>2, <2>1 DEF DisablingPort, Disabled
  <2>3. DisablingContexts' /\ NoBadFault' BY <1>1, <1>2, <2>1 DEF DisablingContexts, NoBadFault
  <2>4. QED BY <2>2, <2>3, DisablingsAreThen
<1>5. CASE ActionLocked
  <2>1. vc' = vc /\ fault' = fault /\ pool' = pool /\ worker.pc = "lock" /\ worker'.pc = "message" /\ port' = port
    BY <1>5 DEF ActionLocked
  <2>2. DisablingPort' BY <1>1, <1>2, <2>1 DEF DisablingPort, Disabled
  <2>3. DisablingContexts' /\ NoBadFault' BY <1>1, <1>2, <2>1 DEF DisablingContexts, NoBadFault
  <2>4. QED BY <2>2, <2>3, DisablingsAreThen
<1>6. CASE PortDisabled
  <2>1. /\ pool' = pool /\ worker.pc = "message" /\ worker'.pc = "drain"
        /\ ~port'.contexts /\ port'.callback = port.callback /\ port'.transit = port.transit
        /\ port'.enabled = port.enabled
    BY <1>6 DEF PortDisabled
  <2>2. \/ vc'.held = <<>> /\ worker'.ok /\ fault' = (IF port.contexts \/ vc.held = <<>> THEN fault ELSE "freed context")
        \/ "disable" \in failed' /\ fault' = fault
    BY <1>6 DEF PortDisabled
  <2>3. DisablingPort' BY <1>1, <1>2, <2>1, <2>2 DEF DisablingPort, Disabled
  <2>4. DisablingContexts' /\ NoBadFault' BY <1>1, <1>2, <2>1, <2>2 DEF DisablingContexts, NoBadFault
  <2>5. QED BY <2>3, <2>4, DisablingsAreThen
<1>7. CASE Drained
  <2>1. /\ component.queue # <<>> /\ vc' = vc /\ fault' = (IF port.callback THEN fault ELSE "no callback")
        /\ worker' = worker /\ port' = port /\ pool' = pool
    BY <1>7 DEF Drained, Begins
  <2>2. port.transit > 0 BY <2>1, Counted1
  <2>3. port.callback BY <1>1, <2>2 DEF DisablingContexts
  <2>4. DisablingPort' BY <1>1, <1>2, <2>1 DEF DisablingPort
  <2>5. DisablingContexts' /\ NoBadFault' BY <1>1, <1>2, <2>1, <2>3 DEF DisablingContexts, NoBadFault
  <2>6. QED BY <2>4, <2>5, DisablingsAreThen
<1>8. CASE Unlocked
  <2>1. /\ worker.pc = "drain" /\ (IF worker.ok THEN worker'.pc = "transit" ELSE worker'.pc \in Callers)
        /\ worker'.ok = worker.ok /\ port'.enabled = ~worker.ok /\ port'.callback = port.callback
        /\ port'.contexts = port.contexts /\ port'.transit = port.transit
        /\ pool' = pool /\ vc' = vc /\ fault' = fault
    BY <1>8 DEF Unlocked
  <2>2. DisablingPort' BY <1>1, <1>2, <2>1 DEF DisablingPort, Disabled, Callers
  <2>3. DisablingContexts' /\ NoBadFault' BY <1>1, <1>2, <2>1 DEF DisablingContexts, NoBadFault
  <2>4. QED BY <2>2, <2>3, DisablingsAreThen
<1>9. CASE TransitAwaited
  <2>1. /\ worker.pc = "transit" /\ worker'.pc \in Callers /\ port.transit = 0
        /\ port'.enabled = port.enabled /\ ~port'.callback
        /\ port'.contexts = port.contexts /\ port'.transit = port.transit
        /\ pool' = pool /\ vc' = vc /\ fault' = fault
    BY <1>9 DEF TransitAwaited
  <2>2. DisablingPort' BY <1>1, <1>2, <2>1 DEF DisablingPort, Disabled, Callers
  <2>3. DisablingContexts' /\ NoBadFault' BY <1>1, <1>2, <2>1 DEF DisablingContexts, NoBadFault, DisablingPort
  <2>4. QED BY <2>2, <2>3, DisablingsAreThen
<1>10. CASE PoolFreed \/ ComponentsGone \/ BufferFreed
  <2>1. /\ port' = port /\ vc' = vc /\ fault' = fault
        /\ worker.pc \in Disabled /\ worker'.pc \in Disabled
    BY <1>10 DEF PoolFreed, ComponentsGone, BufferFreed, mmalVars, Disabled
  <2>2. DisablingPort' BY <1>1, <1>2, <2>1 DEF DisablingPort, Disabled
  <2>3. DisablingContexts' /\ NoBadFault' BY <1>1, <1>2, <2>1 DEF DisablingContexts, NoBadFault
  <2>4. QED BY <2>2, <2>3, DisablingsAreThen
<1>11. QED BY <1>3, <1>4, <1>5, <1>6, <1>7, <1>8, <1>9, <1>10 DEF Closes

\* Whatever is done, Disablings is kept.
LEMMA DisablingsKept == ASSUME TypeInv, Control, Does PROVE Disablings'
<1>1. CASE Reading \/ Stops
  <2>1. /\ port' = port /\ vc' = vc /\ fault' = fault /\ pool' = pool /\ worker' = worker /\ failed' = failed
    BY <1>1 DEF Reading, Waits, Locks, TakesCopy, Stops, mmalVars
  <2>2. QED BY <2>1 DEF Disablings, Control
<1>2. QED
  BY <1>1, DisablingLibrary, DisablingCallback, DisablingOpens, DisablingShoots, DisablingCloses DEF Does

\* Whatever is done, Control is kept.
LEMMA ControlKept == ASSUME TypeInv, Control, Does PROVE Control'
BY StagedKept, DisablingsKept, ActingKept, InTransitKept DEF Control

\* Control holds in the beginning.
LEMMA FirstControl == ASSUME Init PROVE Control
<1>1. /\ port = [enabled |-> FALSE, callback |-> FALSE, contexts |-> FALSE, transit |-> 0]
      /\ component = [owner |-> "none", queue |-> <<>>, destroyed |-> FALSE]
      /\ vc = [held |-> <<>>, frame |-> 0, part |-> 0, asked |-> 0, streams |-> FALSE, fed |-> FALSE]
      /\ run = [t \in Threads |-> Idle] /\ failed = {} /\ fault = "none"
      /\ pool = [state |-> "none", queue |-> <<>>]
  BY DEF Init, MmalInit
<1>2. /\ worker.pc = "camera" /\ worker.round = 1
      /\ semaphore = [live |-> FALSE, count |-> 0, misused |-> FALSE]
      /\ offset = 0 /\ reader.pc = "idle" /\ reader.got = <<>>
      /\ board.owner = "none" /\ board.size = 0 /\ board.buf = [i \in 1 .. MaxParts |-> NoPart]
  BY DEF Init
<1>3. board.buf[1].frame = 0
  <2>1. 1 \in 1 .. MaxParts BY MmalAssumption
  <2>2. QED BY <1>2, <2>1 DEF NoPart
<1>4. Unopened BY <1>1, <1>2, <1>3 DEF Unopened
<1>5. Staged BY <1>1, <1>2, <1>4 DEF Staged, Opening, Shooting, Closing, Disabling, Disabled
<1>6. Disablings BY <1>1, <1>2 DEF Disablings, Disabled
<1>7. Acting BY <1>1, <1>2, ThreadsAre DEF Acting
<1>8. InTransit BY <1>1, ThreadsAre DEF InTransit, Busy, Bit
<1>9. QED BY <1>5, <1>6, <1>7, <1>8 DEF Control

-----------------------------------------------------------------------------
(* How often a header is in a queue.                                       *)

Times(queue, header) == Cardinality(Positions(queue, header))

\* A header is in a queue a finite number of times.
LEMMA PositionsFinite ==
  ASSUME NEW S, NEW q \in Seq(S), NEW h
  PROVE  /\ IsFiniteSet(Positions(q, h)) /\ Positions(q, h) \subseteq 1 .. Len(q) /\ Times(q, h) \in Nat
<1>1. Positions(q, h) \subseteq 1 .. Len(q) BY DEF Positions
<1>2. Len(q) \in Nat OBVIOUS
<1>3. IsFiniteSet(1 .. Len(q)) BY <1>2, FS_Interval
<1>4. IsFiniteSet(Positions(q, h)) BY <1>1, <1>3, FS_Subset
<1>5. QED BY <1>1, <1>4, FS_CardinalityType DEF Times

\* A set of numbers that is moved has as many.
LEMMA Moved ==
  ASSUME NEW n \in Int, NEW S \in SUBSET Int, IsFiniteSet(S), NEW T, T = {i + n : i \in S}
  PROVE  IsFiniteSet(T) /\ Cardinality(T) = Cardinality(S)
<1>1. PICK f : f = [i \in S |-> i + n] OBVIOUS
<1>2. f \in [S -> T] BY <1>1
<1>3. \A i \in S, j \in S : f[i] = f[j] => i = j BY <1>1
<1>4. \A k \in T : \E i \in S : f[i] = k BY <1>1
<1>5. f \in Bijection(S, T) BY <1>2, <1>3, <1>4 DEF Bijection, Injection, Surjection, IsInjective
<1>6. ExistsBijection(S, T) BY <1>5 DEF ExistsBijection
<1>7. QED BY <1>6, FS_Bijection

\* Two queues, one behind the other.
LEMMA TimesConcat ==
  ASSUME NEW S, NEW q \in Seq(S), NEW r \in Seq(S), NEW h
  PROVE  Times(q \o r, h) = Times(q, h) + Times(r, h)
<1>1. PICK n \in Nat : n = Len(q) OBVIOUS
<1>2. PICK m \in Nat : m = Len(r) OBVIOUS
<1>3. PICK s \in Seq(S) : s = q \o r BY ConcatProperties
<1>4. Len(s) = n + m /\ \A i \in 1 .. n + m : s[i] = IF i <= n THEN q[i] ELSE r[i - n]
  BY <1>1, <1>2, <1>3, ConcatProperties
<1> DEFINE A == Positions(q, h)
           B == Positions(r, h)
           C == {i + n : i \in B}
<1>5. A = {i \in 1 .. n : q[i] = h} /\ B = {i \in 1 .. m : r[i] = h} BY <1>1, <1>2 DEF Positions
<1>6. Positions(s, h) = {i \in 1 .. n + m : s[i] = h} BY <1>4 DEF Positions
<1>7. Positions(s, h) = A \cup C
  <2>1. ASSUME NEW i \in Positions(s, h) PROVE i \in A \cup C
    <3>1. i \in 1 .. n + m /\ s[i] = h BY <1>6, <2>1
    <3>2. CASE i <= n BY <1>4, <1>5, <3>1, <3>2
    <3>3. CASE i > n
      <4>1. PICK j : j = i - n OBVIOUS
      <4>2. j \in 1 .. m /\ i = j + n /\ r[j] = h BY <1>4, <3>1, <3>3, <4>1
      <4>3. QED BY <1>5, <4>2
    <3>4. QED BY <3>1, <3>2, <3>3
  <2>2. ASSUME NEW i \in A PROVE i \in Positions(s, h)
    <3>1. i \in 1 .. n /\ q[i] = h BY <1>5
    <3>2. i \in 1 .. n + m /\ s[i] = h BY <1>4, <3>1
    <3>3. QED BY <1>6, <3>2
  <2>3. ASSUME NEW j \in B PROVE j + n \in Positions(s, h)
    <3>1. j \in 1 .. m /\ r[j] = h BY <1>5
    <3>2. PICK i : i = j + n OBVIOUS
    <3>3. i \in 1 .. n + m /\ ~(i <= n) /\ i - n = j BY <3>1, <3>2
    <3>4. s[i] = h BY <1>4, <3>1, <3>3
    <3>5. QED BY <1>6, <3>2, <3>3, <3>4
  <2>4. QED BY <2>1, <2>2, <2>3
<1>8. A \cap C = {}
  <2>1. ASSUME NEW j \in B PROVE j + n \notin A
    <3>1. j \in 1 .. m BY <1>5
    <3>2. j + n > n BY <3>1
    <3>3. QED BY <1>5, <3>1, <3>2
  <2>2. QED BY <2>1
<1>9. IsFiniteSet(A) /\ IsFiniteSet(B) /\ Cardinality(A) \in Nat /\ Cardinality(B) \in Nat
  BY PositionsFinite DEF Times
<1>10. IsFiniteSet(C) /\ Cardinality(C) = Cardinality(B)
  <2>1. B \in SUBSET Int BY <1>5
  <2>2. n \in Int OBVIOUS
  <2>3. PICK c : c = C OBVIOUS
  <2>4. IsFiniteSet(c) /\ Cardinality(c) = Cardinality(B) BY <1>9, <2>1, <2>2, <2>3, Moved
  <2>5. QED BY <2>3, <2>4
<1>11. Cardinality(A \cup C) = Cardinality(A) + Cardinality(C) - Cardinality(A \cap C)
  BY <1>9, <1>10, FS_Union
<1>12. Cardinality(A \cap C) = 0 BY <1>8, FS_EmptySet
<1>13. QED BY <1>3, <1>7, <1>9, <1>10, <1>11, <1>12 DEF Times

\* One header, none, and all of them.
LEMMA TimesOne == ASSUME NEW x, NEW h PROVE Times(<<x>>, h) = Bit(x = h)
<1>1. CASE x = h
  <2>1. Positions(<<x>>, h) = {1} BY <1>1 DEF Positions
  <2>2. QED BY <1>1, <2>1, FS_Singleton DEF Times, Bit
<1>2. CASE x # h
  <2>1. Positions(<<x>>, h) = {} BY <1>2 DEF Positions
  <2>2. QED BY <1>2, <2>1, FS_EmptySet DEF Times, Bit
<1>3. QED BY <1>1, <1>2

\* No header is in the empty queue.
LEMMA TimesNone == ASSUME NEW h PROVE Times(<<>>, h) = 0
<1>1. Positions(<<>>, h) = {} BY DEF Positions
<1>2. QED BY <1>1, FS_EmptySet DEF Times

\* Every header is in the new pool once.
LEMMA TimesAll == ASSUME NEW h \in Headers PROVE Times([i \in Headers |-> i], h) = 1
<1>1. Positions([i \in Headers |-> i], h) = {h} BY DEF Positions
<1>2. QED BY <1>1, FS_Singleton DEF Times

\* A header that is appended is there once more.
LEMMA TimesAppend ==
  ASSUME NEW S, NEW q \in Seq(S), NEW x \in S, NEW h
  PROVE  Times(Append(q, x), h) = Times(q, h) + Bit(x = h)
<1>1. Append(q, x) = q \o <<x>> BY AppendIsConcat
<1>2. <<x>> \in Seq(S) OBVIOUS
<1>3. Times(q \o <<x>>, h) = Times(q, h) + Times(<<x>>, h) BY <1>2, TimesConcat
<1>4. Times(<<x>>, h) = Bit(x = h) BY TimesOne
<1>5. QED BY <1>1, <1>3, <1>4, Zenon

\* A header that is taken from the head is there once less.
LEMMA TimesTail ==
  ASSUME NEW S, NEW q \in Seq(S), q # <<>>, NEW h
  PROVE  Times(q, h) = Bit(Head(q) = h) + Times(Tail(q), h)
<1>1. Head(q) \in S /\ Tail(q) \in Seq(S) BY HeadTailProperties
<1>2. PICK x \in S, r \in Seq(S) : x = Head(q) /\ r = Tail(q) BY <1>1
<1>3. <<x>> \in Seq(S) OBVIOUS
<1>4. q = <<x>> \o r BY <1>2
<1>5. Times(<<x>> \o r, h) = Times(<<x>>, h) + Times(r, h) BY <1>3, TimesConcat
<1>6. Times(<<x>>, h) = Bit(x = h) BY TimesOne
<1>7. QED BY <1>2, <1>4, <1>5, <1>6, Zenon

\* The headers of the entries of a queue.
HeadersOf(queue) == [i \in DOMAIN queue |-> queue[i].header]

\* The headers of a queue of entries, one for each.
LEMMA HeadersOfType ==
  ASSUME NEW q \in Seq(Entries)
  PROVE  /\ HeadersOf(q) \in Seq(Headers) /\ Len(HeadersOf(q)) = Len(q)
         /\ \A i \in 1 .. Len(q) : HeadersOf(q)[i] = q[i].header
<1>1. PICK n \in Nat : n = Len(q) OBVIOUS
<1>2. ASSUME NEW i \in 1 .. n PROVE q[i].header \in Headers
  <2>1. q[i] \in Entries BY <1>1
  <2>2. QED BY <2>1 DEF Entries
<1>3. PICK s : s = HeadersOf(q) OBVIOUS
<1>4. s = [i \in 1 .. n |-> q[i].header] BY <1>1, <1>3 DEF HeadersOf
<1>5. s \in [1 .. n -> Headers] BY <1>2, <1>4
<1>6. s \in Seq(Headers) /\ Len(s) = n BY <1>5
<1>7. QED BY <1>1, <1>3, <1>4, <1>6

\* The headers of two queues that are joined.
LEMMA HeadersOfConcat ==
  ASSUME NEW q \in Seq(Entries), NEW r \in Seq(Entries)
  PROVE  HeadersOf(q \o r) = HeadersOf(q) \o HeadersOf(r)
<1>1. PICK n \in Nat, m \in Nat : n = Len(q) /\ m = Len(r) OBVIOUS
<1>2. PICK s \in Seq(Entries) : s = q \o r BY ConcatProperties
<1>3. Len(s) = n + m /\ \A i \in 1 .. n + m : s[i] = IF i <= n THEN q[i] ELSE r[i - n]
  BY <1>1, <1>2, ConcatProperties
<1>4. PICK a \in Seq(Headers), b \in Seq(Headers), c \in Seq(Headers) :
        a = HeadersOf(q) /\ b = HeadersOf(r) /\ c = HeadersOf(s)
  BY HeadersOfType
<1>5. /\ Len(a) = n /\ Len(b) = m /\ Len(c) = n + m
      /\ \A i \in 1 .. n : a[i] = q[i].header
      /\ \A i \in 1 .. m : b[i] = r[i].header
      /\ \A i \in 1 .. n + m : c[i] = s[i].header
  BY <1>1, <1>3, <1>4, HeadersOfType
<1>6. PICK d \in Seq(Headers) : d = a \o b BY ConcatProperties
<1>7. Len(d) = n + m /\ \A i \in 1 .. n + m : d[i] = IF i <= n THEN a[i] ELSE b[i - n]
  BY <1>5, <1>6, ConcatProperties, ZenonT(30)
<1>8. ASSUME NEW i \in 1 .. n + m PROVE c[i] = d[i]
  <2>1. CASE i <= n
    <3>1. i \in 1 .. n BY <2>1
    <3>2. s[i] = q[i] /\ d[i] = a[i] BY <1>3, <1>7, <2>1
    <3>3. QED BY <1>5, <3>1, <3>2
  <2>2. CASE ~(i <= n)
    <3>1. i - n \in 1 .. m BY <2>2
    <3>2. s[i] = r[i - n] /\ d[i] = b[i - n] BY <1>3, <1>7, <2>2
    <3>3. QED BY <1>5, <3>1, <3>2
  <2>3. QED BY <2>1, <2>2
<1>9. c = d
  <2>1. Len(c) = Len(d) /\ \A i \in 1 .. Len(c) : c[i] = d[i] BY <1>5, <1>7, <1>8
  <2>2. QED BY <2>1, SeqEqual
<1>10. QED BY <1>2, <1>4, <1>6, <1>9

\* The header of a queue of one entry.
LEMMA HeadersOfOne ==
  ASSUME NEW e \in Entries PROVE HeadersOf(<<e>>) = <<e.header>>
BY DEF HeadersOf

\* The header of an entry that is appended is there once more.
LEMMA HeadersOfAppend ==
  ASSUME NEW q \in Seq(Entries), NEW e \in Entries, NEW h
  PROVE  Times(HeadersOf(Append(q, e)), h) = Times(HeadersOf(q), h) + Bit(e.header = h)
<1>1. Append(q, e) = q \o <<e>> BY AppendIsConcat
<1>2. <<e>> \in Seq(Entries) OBVIOUS
<1>3. HeadersOf(Append(q, e)) = HeadersOf(q) \o <<e.header>> BY <1>1, <1>2, HeadersOfConcat, HeadersOfOne
<1>4. HeadersOf(q) \in Seq(Headers) /\ e.header \in Headers BY HeadersOfType DEF Entries
<1>5. <<e.header>> \in Seq(Headers) BY <1>4
<1>6. Times(HeadersOf(q) \o <<e.header>>, h) = Times(HeadersOf(q), h) + Times(<<e.header>>, h)
  BY <1>4, <1>5, TimesConcat
<1>7. Times(<<e.header>>, h) = Bit(e.header = h) BY TimesOne
<1>8. QED BY <1>3, <1>6, <1>7, Zenon

\* The header of an entry that is taken is there once less.
LEMMA HeadersOfTail ==
  ASSUME NEW q \in Seq(Entries), q # <<>>, NEW h
  PROVE  Times(HeadersOf(q), h) = Bit(Head(q).header = h) + Times(HeadersOf(Tail(q)), h)
<1>1. Head(q) \in Entries /\ Tail(q) \in Seq(Entries) BY HeadTailProperties
<1>2. PICK e \in Entries, r \in Seq(Entries) : e = Head(q) /\ r = Tail(q) BY <1>1
<1>3. <<e>> \in Seq(Entries) OBVIOUS
<1>4. q = <<e>> \o r BY <1>2
<1>5. HeadersOf(q) = <<e.header>> \o HeadersOf(r) BY <1>3, <1>4, HeadersOfConcat, HeadersOfOne
<1>6. HeadersOf(r) \in Seq(Headers) /\ e.header \in Headers BY HeadersOfType DEF Entries
<1>7. <<e.header>> \in Seq(Headers) BY <1>6
<1>8. Times(<<e.header>> \o HeadersOf(r), h) = Times(<<e.header>>, h) + Times(HeadersOf(r), h)
  BY <1>6, <1>7, TimesConcat
<1>9. Times(<<e.header>>, h) = Bit(e.header = h) BY TimesOne
<1>10. QED BY <1>2, <1>5, <1>8, <1>9, Zenon

\* A queue that has no header twice is no longer than the pool.
LEMMA NoneTwice ==
  ASSUME NEW q \in Seq(Headers), \A h \in Headers : Times(q, h) <= 1
  PROVE  Len(q) <= BufferNum
<1>1. PICK n \in Nat : n = Len(q) OBVIOUS
<1>2. q \in [1 .. n -> Headers] BY <1>1
<1>3. ASSUME NEW i \in 1 .. n, NEW j \in 1 .. n, q[i] = q[j], i # j PROVE FALSE
  <2>1. PICK h \in Headers : h = q[i] BY <1>2
  <2>2. {i, j} \in SUBSET Positions(q, h) BY <1>1, <1>3, <2>1 DEF Positions
  <2>3. IsFiniteSet(Positions(q, h)) /\ Times(q, h) \in Nat BY PositionsFinite
  <2>4. Cardinality({i, j}) <= Times(q, h) BY <2>2, <2>3, FS_Subset DEF Times
  <2>5. Cardinality({i, j}) = 2
    <3>1. IsFiniteSet({i}) /\ Cardinality({i}) = 1 BY FS_Singleton
    <3>2. j \notin {i} BY <1>3
    <3>3. Cardinality({i} \cup {j}) = Cardinality({i}) + 1 BY <3>1, <3>2, FS_AddElement
    <3>4. {i} \cup {j} = {i, j} OBVIOUS
    <3>5. PICK c : c = Cardinality({i}) OBVIOUS
    <3>6. c = 1 BY <3>1, <3>5, Zenon
    <3>7. c + 1 = 2 BY <3>6
    <3>8. QED BY <3>3, <3>4, <3>5, <3>7, Zenon
  <2>6. QED BY <2>3, <2>4, <2>5
<1>4. q \in Injection(1 .. n, Headers) BY <1>2, <1>3 DEF Injection, IsInjective
<1>5. BufferNum \in Nat BY MmalAssumption
<1>6. IsFiniteSet(Headers) /\ Cardinality(Headers) = BufferNum BY <1>5, FS_Interval DEF Headers
<1>7. Cardinality(1 .. n) <= BufferNum BY <1>4, <1>6, FS_Injection
<1>8. Cardinality(1 .. n) = n BY FS_Interval
<1>9. QED BY <1>1, <1>7, <1>8

-----------------------------------------------------------------------------
(* Where a header is.                                                      *)

Fingers(r, h) ==
  IF (r.pc \in {"copy", "end", "release"} /\ r.header = h) \/ (r.pc = "send" /\ r.new = h) THEN 1 ELSE 0
Both(h) == Fingers(run["action"], h) + Fingers(run["worker"], h)
Hand(h) == IF worker.hand = h THEN 1 ELSE 0
Places(h) ==
  Times(vc.held, h) + Times(HeadersOf(component.queue), h) + Both(h) + Hand(h) + Times(pool.queue, h)

\* One is in one place at most, and in none only when sending it failed or the
\* program ends.
Excused == stop \/ "send" \in failed
InPlace ==
  \A h \in Headers :
    /\ Places(h) \in {0, 1}
    /\ pool.state = "live" /\ Places(h) = 0 => Excused
    /\ pool.state = "none" => Places(h) = 0

\* A thread has a header in its hand, or not.
LEMMA FingersAre == \A r, h : Fingers(r, h) \in {0, 1}
BY DEF Fingers

\* Only the thread that goes on changes how many threads have a header.
LEMMA BothGoes ==
  ASSUME NEW h, NEW t \in Threads, \A u \in Threads \ {t} : run'[u] = run[u],
         NEW b, b = Both(h), NEW b1, b1 = Both(h)',
         NEW f, f = Fingers(run[t], h), NEW f1, f1 = Fingers(run'[t], h)
  PROVE  b \in Nat /\ b1 \in Nat /\ b1 + f = b + f1
<1>1. Both(h)' = Fingers(run'["action"], h) + Fingers(run'["worker"], h) BY Zenon DEF Both
<1>2. PICK a, w, a1, w1 :
        /\ a = Fingers(run["action"], h) /\ w = Fingers(run["worker"], h)
        /\ a1 = Fingers(run'["action"], h) /\ w1 = Fingers(run'["worker"], h)
  OBVIOUS
<1>3. a \in {0, 1} /\ w \in {0, 1} /\ a1 \in {0, 1} /\ w1 \in {0, 1} BY <1>2, FingersAre
<1>4. b = a + w /\ b1 = a1 + w1 BY <1>1, <1>2, Zenon DEF Both
<1>5. (f = a /\ f1 = a1 /\ w1 = w) \/ (f = w /\ f1 = w1 /\ a1 = a) BY <1>2, ThreadsAre
<1>6. QED BY <1>3, <1>4, <1>5

\* The terms of the sum are numbers.
LEMMA PlacesNow ==
  ASSUME TypeInv, NEW h
  PROVE  /\ Times(vc.held, h) \in Nat /\ Times(HeadersOf(component.queue), h) \in Nat /\ Both(h) \in Nat
         /\ Hand(h) \in {0, 1} /\ Times(pool.queue, h) \in Nat
<1>1. vc.held \in Seq(Headers) /\ component.queue \in Seq(Entries) /\ pool.queue \in Seq(Headers)
  BY QueueLengths
<1>2. HeadersOf(component.queue) \in Seq(Headers) BY <1>1, HeadersOfType
<1>3. Times(vc.held, h) \in Nat /\ Times(pool.queue, h) \in Nat /\ Times(HeadersOf(component.queue), h) \in Nat
  BY <1>1, <1>2, PositionsFinite
<1>4. PICK a, w : a = Fingers(run["action"], h) /\ w = Fingers(run["worker"], h) OBVIOUS
<1>5. a \in {0, 1} /\ w \in {0, 1} BY <1>4, FingersAre
<1>6. a + w \in Nat BY <1>5
<1>7. Both(h) = a + w BY <1>4, Zenon DEF Both
<1>8. Hand(h) \in {0, 1} BY DEF Hand
<1>9. QED BY <1>3, <1>6, <1>7, <1>8

\* The sum and the sum after a step.
LEMMA PlacesAre ==
  ASSUME NEW h, NEW v, NEW q, NEW b, NEW k, NEW p, NEW s,
         Times(vc.held, h) = v, Times(HeadersOf(component.queue), h) = q, Both(h) = b, Hand(h) = k,
         Times(pool.queue, h) = p, v + q + b + k + p = s
  PROVE  Places(h) = s
BY Zenon DEF Places

\* In how many places a header is after a step, from each of them.
LEMMA PlacesThen ==
  ASSUME NEW h, NEW v, NEW q, NEW b, NEW k, NEW p, NEW s,
         Times(vc'.held, h) = v, Times(HeadersOf(component'.queue), h) = q, Both(h)' = b, Hand(h)' = k,
         Times(pool'.queue, h) = p, v + q + b + k + p = s
  PROVE  Places(h)' = s
BY Zenon DEF Places

\* A step that moves no header.
SamePlaces ==
  /\ vc'.held = vc.held /\ component'.queue = component.queue /\ pool'.queue = pool.queue
  /\ worker'.hand = worker.hand /\ \A h : Both(h)' = Both(h)

\* A step that leaves all the places alone.
LEMMA PlacesSame == ASSUME SamePlaces, NEW h PROVE Places(h)' = Places(h)
<1>1. Hand(h)' = Hand(h) BY DEF SamePlaces, Hand
<1>2. QED BY <1>1, Zenon DEF SamePlaces, Places

\* A part that arrives, or all headers the VideoCore gives back, get into the queue.
LEMMA PlacesArrive == ASSUME TypeInv, PartArrives, NEW h PROVE Places(h)' = Places(h)
<1>1. PICK part \in Part : Fills(part) BY DEF PartArrives
<1>2. vc.held \in Seq(Headers) /\ component.queue \in Seq(Entries) BY QueueLengths
<1>3. vc.held # <<>> /\ vc'.held = Tail(vc.held) /\ run' = run /\ pool' = pool /\ worker' = worker
  BY <1>1 DEF Fills, PartArrives, pluginVars
<1>4. PICK x \in Headers : x = Head(vc.held) BY <1>2, <1>3
<1>5. PICK e \in Entries : e = [header |-> x, part |-> part] BY DEF Entries
<1>6. component'.queue = Append(component.queue, e) BY <1>1, <1>4, <1>5 DEF Fills
<1>7. PICK i : i = Bit(x = h) OBVIOUS
<1>8. i \in {0, 1} BY <1>7 DEF Bit
<1>9. e.header = x BY <1>5
<1>10. PICK v1 : v1 = Times(Tail(vc.held), h) OBVIOUS
<1>11. v1 \in Nat
  <2>1. Tail(vc.held) \in Seq(Headers) BY <1>2, <1>3, TailLength
  <2>2. QED BY <1>10, <2>1, PositionsFinite
<1>12. Times(vc.held, h) = i + v1
  <2>1. Times(vc.held, h) = Bit(Head(vc.held) = h) + Times(Tail(vc.held), h) BY <1>2, <1>3, TimesTail
  <2>2. QED BY <1>4, <1>7, <1>10, <2>1, Zenon
<1>13. PICK q, b, k, p :
         q = Times(HeadersOf(component.queue), h) /\ b = Both(h) /\ k = Hand(h) /\ p = Times(pool.queue, h)
  OBVIOUS
<1>14. q \in Nat /\ b \in Nat /\ k \in {0, 1} /\ p \in Nat BY <1>13, PlacesNow
<1>15. Times(HeadersOf(component'.queue), h) = q + i
  <2>1. Times(HeadersOf(Append(component.queue, e)), h) = Times(HeadersOf(component.queue), h) + Bit(e.header = h)
    BY <1>2, HeadersOfAppend
  <2>2. QED BY <1>6, <1>7, <1>9, <1>13, <2>1, Zenon
<1>16. PICK v, q1, s : v = i + v1 /\ q1 = q + i /\ s = v + q + b + k + p OBVIOUS
<1>17. v1 + q1 + b + k + p = s BY <1>8, <1>11, <1>14, <1>16
<1>18. Times(vc.held, h) = v /\ Times(vc'.held, h) = v1 /\ Times(HeadersOf(component'.queue), h) = q1
  BY <1>3, <1>10, <1>12, <1>15, <1>16, Zenon
<1>19. Both(h)' = b /\ Hand(h)' = k /\ Times(pool'.queue, h) = p BY <1>3, <1>13 DEF Both, Hand
<1>20. Places(h) = s BY <1>13, <1>16, <1>18, PlacesAre
<1>21. Places(h)' = s BY <1>13, <1>17, <1>18, <1>19, PlacesThen
<1>22. QED BY <1>20, <1>21

\* Headers that the VideoCore gives back are in the queue instead.
LEMMA PlacesGivenBack ==
  ASSUME TypeInv, PortDisabled, component'.queue = component.queue \o Emptied(vc.held), vc'.held = <<>>, NEW h
  PROVE  Places(h)' = Places(h)
<1>1. vc.held \in Seq(Headers) /\ component.queue \in Seq(Entries) BY QueueLengths
<1>2. PICK e : e = Emptied(vc.held) OBVIOUS
<1>3. e \in Seq(Entries) /\ Len(e) = Len(vc.held) BY <1>2, EmptiedLength
<1>4. \A i \in 1 .. Len(vc.held) : e[i] = [header |-> vc.held[i], part |-> NoPart] BY <1>2, EmptiedLength
<1>5. PICK s : s = HeadersOf(e) OBVIOUS
<1>6. s \in Seq(Headers) /\ Len(s) = Len(vc.held) /\ \A i \in 1 .. Len(vc.held) : s[i] = e[i].header
  BY <1>3, <1>5, HeadersOfType
<1>7. ASSUME NEW i \in 1 .. Len(vc.held) PROVE s[i] = vc.held[i]
  <2>1. PICK x : x = vc.held[i] OBVIOUS
  <2>2. e[i] = [header |-> x, part |-> NoPart] BY <1>4, <2>1
  <2>3. e[i].header = x BY <2>2
  <2>4. QED BY <1>6, <2>1, <2>3
<1>8. s = vc.held BY <1>1, <1>6, <1>7, SeqEqual
<1>9. HeadersOf(component'.queue) = HeadersOf(component.queue) \o vc.held
  <2>1. component'.queue = component.queue \o e BY <1>2, Zenon
  <2>2. HeadersOf(component.queue \o e) = HeadersOf(component.queue) \o HeadersOf(e) BY <1>1, <1>3, HeadersOfConcat
  <2>3. QED BY <1>5, <1>8, <2>1, <2>2, Zenon
<1>10. HeadersOf(component.queue) \in Seq(Headers) BY <1>1, HeadersOfType
<1>11. PICK v, q, b, k, p :
         /\ v = Times(vc.held, h) /\ q = Times(HeadersOf(component.queue), h) /\ b = Both(h) /\ k = Hand(h)
         /\ p = Times(pool.queue, h)
  OBVIOUS
<1>12. v \in Nat /\ q \in Nat /\ b \in Nat /\ k \in {0, 1} /\ p \in Nat BY <1>11, PlacesNow
<1>13. Times(HeadersOf(component'.queue), h) = q + v
  <2>1. Times(HeadersOf(component.queue) \o vc.held, h) = Times(HeadersOf(component.queue), h) + Times(vc.held, h)
    BY <1>1, <1>10, TimesConcat
  <2>2. QED BY <1>9, <1>11, <2>1, Zenon
<1>14. Times(vc'.held, h) = 0 BY TimesNone
<1>15. PICK q1, s1 : q1 = q + v /\ s1 = v + q + b + k + p OBVIOUS
<1>16. 0 + q1 + b + k + p = s1 BY <1>12, <1>15
<1>17. Times(HeadersOf(component'.queue), h) = q1 BY <1>13, <1>15, Zenon
<1>18. run' = run /\ pool' = pool /\ worker'.hand = worker.hand BY DEF PortDisabled
<1>19. Both(h)' = b /\ Hand(h)' = k /\ Times(pool'.queue, h) = p BY <1>11, <1>18 DEF Both, Hand
<1>20. Places(h) = s1 BY <1>11, <1>15, PlacesAre
<1>21. Places(h)' = s1 BY <1>14, <1>16, <1>17, <1>19, PlacesThen
<1>22. QED BY <1>20, <1>21

\* The header of the callback that begins.
LEMMA PlacesBegin ==
  ASSUME TypeInv, NEW t \in Threads, Begins(t), UNCHANGED <<vc, pool, worker>>, NEW h
  PROVE  Places(h)' = Places(h)
<1>1. component.queue \in Seq(Entries) /\ component.queue # <<>> BY QueueLengths DEF Begins
<1>2. PICK e \in Entries : e = Head(component.queue) BY <1>1, TailLength
<1>3. PICK i : i = Bit(e.header = h) OBVIOUS
<1>4. i \in {0, 1} BY <1>3 DEF Bit
<1>5. PICK q1 : q1 = Times(HeadersOf(component'.queue), h) OBVIOUS
<1>6. q1 \in Nat
  <2>1. component'.queue \in Seq(Entries) BY <1>1, TailLength DEF Begins
  <2>2. HeadersOf(component'.queue) \in Seq(Headers) BY <2>1, HeadersOfType
  <2>3. QED BY <1>5, <2>2, PositionsFinite
<1>7. Times(HeadersOf(component.queue), h) = i + q1
  <2>1. Times(HeadersOf(component.queue), h)
          = Bit(Head(component.queue).header = h) + Times(HeadersOf(Tail(component.queue)), h)
    BY <1>1, HeadersOfTail
  <2>2. component'.queue = Tail(component.queue) BY DEF Begins
  <2>3. QED BY <1>2, <1>3, <1>5, <2>1, <2>2, Zenon
<1>8. PICK v, b, b1, k, p :
         /\ v = Times(vc.held, h) /\ b = Both(h) /\ b1 = Both(h)' /\ k = Hand(h) /\ p = Times(pool.queue, h)
  OBVIOUS
<1>9. v \in Nat /\ b \in Nat /\ k \in {0, 1} /\ p \in Nat BY <1>8, PlacesNow
<1>10. b1 = b + i
  <2>1. Fingers(run[t], h) = 0 BY IdleIs DEF Begins, Fingers
  <2>2. Fingers(run'[t], h) = i
    <3>1. PICK x, part : x = e.header /\ part = e.part OBVIOUS
    <3>2. run'[t] = [pc |-> "copy", header |-> x, part |-> part, new |-> 0, complete |-> FALSE]
      BY <1>2, <3>1 DEF Begins
    <3>3. run'[t].pc = "copy" /\ run'[t].header = x BY <3>2
    <3>4. QED BY <1>3, <3>1, <3>3 DEF Fingers, Bit
  <2>3. \A u \in Threads \ {t} : run'[u] = run[u] BY DEF Begins
  <2>4. b \in Nat /\ b1 \in Nat /\ b1 + 0 = b + i BY <1>8, <2>1, <2>2, <2>3, BothGoes
  <2>5. QED BY <1>4, <2>4
<1>11. PICK q, s : q = i + q1 /\ s = v + q + b + k + p OBVIOUS
<1>12. v + q1 + b1 + k + p = s BY <1>4, <1>6, <1>9, <1>10, <1>11
<1>13. Times(HeadersOf(component.queue), h) = q BY <1>7, <1>11, Zenon
<1>14. Hand(h)' = k /\ Times(pool'.queue, h) = p /\ Times(vc'.held, h) = v BY <1>8 DEF Hand
<1>15. Places(h) = s BY <1>8, <1>11, <1>13, PlacesAre
<1>16. Places(h)' = s BY <1>5, <1>8, <1>12, <1>14, PlacesThen
<1>17. QED BY <1>15, <1>16

\* A callback that goes on: the header stays, goes back to the pool, or comes from it.
LEMMA PlacesStay ==
  ASSUME TypeInv, NEW t \in Threads, Copies(t) \/ Completes(t) \/ Finishes(t) \/ (Gets(t) /\ pool' = pool), NEW h
  PROVE  Places(h)' = Places(h)
<1>1. /\ vc' = vc /\ component'.queue = component.queue /\ pool' = pool /\ worker' = worker
      /\ \A u \in Threads \ {t} : run'[u] = run[u]
  BY DEF Copies, Completes, Finishes, Gets, Goes, pluginVars
<1>2. ASSUME NEW x PROVE Fingers(run'[t], x) = Fingers(run[t], x)
  <2>1. CASE Copies(t)
    <3>1. PICK pc \in {"end", "release"} : run'[t] = At(t, pc) BY <2>1 DEF Copies, Goes
    <3>2. run'[t].pc = pc /\ run'[t].header = run[t].header BY <3>1 DEF At
    <3>3. QED BY <2>1, <3>2 DEF Fingers, Copies
  <2>2. CASE Completes(t)
    <3>1. run'[t].pc = "release" /\ run'[t].header = run[t].header BY <2>2 DEF Completes, Goes
    <3>2. QED BY <2>2, <3>1 DEF Fingers, Completes
  <2>3. CASE Finishes(t) BY <2>3, IdleIs DEF Fingers, Finishes, Goes
  <2>4. CASE Gets(t) /\ pool' = pool
    <3>1. run'[t] = At(t, "done")
      <4>1. CASE Takes
        <5>1. pool.queue \in Seq(Headers) BY QueueLengths
        <5>2. Len(Tail(pool.queue)) = Len(pool.queue) - 1 /\ Len(pool.queue) \in Nat
          BY <4>1, <5>1, TailLength DEF Takes
        <5>3. Tail(pool.queue) = pool.queue BY <2>4, <4>1 DEF Takes
        <5>4. PICK n \in Nat : n = Len(pool.queue) BY <5>2
        <5>5. Len(Tail(pool.queue)) = n BY <5>3, <5>4, Zenon
        <5>6. n = n - 1 BY <5>2, <5>4, <5>5
        <5>7. QED BY <5>6
      <4>2. CASE ~Takes BY <2>4, <4>2 DEF Gets, Goes
      <4>3. QED BY <4>1, <4>2
    <3>2. run'[t].pc = "done" /\ run[t].pc = "get" BY <2>4, <3>1 DEF At, Gets
    <3>3. QED BY <3>2 DEF Fingers
  <2>5. QED BY <2>1, <2>2, <2>3, <2>4
<1>3. ASSUME NEW x PROVE Both(x)' = Both(x)
  <2>1. PICK b, b1, f : b = Both(x) /\ b1 = Both(x)' /\ f = Fingers(run[t], x) OBVIOUS
  <2>2. f \in {0, 1} BY <2>1, FingersAre
  <2>3. b \in Nat /\ b1 \in Nat /\ b1 + f = b + f BY <1>1, <1>2, <2>1, BothGoes
  <2>4. QED BY <2>1, <2>2, <2>3
<1>4. SamePlaces BY <1>1, <1>3 DEF SamePlaces
<1>5. QED BY <1>4, PlacesSame

\* A header that is released is in the pool instead of in a hand.
LEMMA PlacesReturned == ASSUME TypeInv, NEW t \in Threads, Returns(t), NEW h PROVE Places(h)' = Places(h)
<1>1. /\ vc' = vc /\ component' = component /\ worker' = worker /\ run[t].pc = "release"
      /\ \A u \in Threads \ {t} : run'[u] = run[u]
  BY DEF Returns, Goes, pluginVars
<1>2. PICK x \in Headers : x = run[t].header BY <1>1 DEF TypeInv, Named
<1>3. PICK i : i = Bit(x = h) OBVIOUS
<1>4. i \in {0, 1} BY <1>3 DEF Bit
<1>5. PICK v, q, b, b1, k, p :
        /\ v = Times(vc.held, h) /\ q = Times(HeadersOf(component.queue), h) /\ b = Both(h) /\ b1 = Both(h)'
        /\ k = Hand(h) /\ p = Times(pool.queue, h)
  OBVIOUS
<1>6. v \in Nat /\ q \in Nat /\ b \in Nat /\ k \in {0, 1} /\ p \in Nat BY <1>5, PlacesNow
<1>7. b1 \in Nat /\ b1 + i = b
  <2>1. Fingers(run[t], h) = i BY <1>1, <1>2, <1>3 DEF Fingers, Bit
  <2>2. Fingers(run'[t], h) = 0
    <3>1. PICK pc \in {"get", "done"} : run'[t] = At(t, pc) BY DEF Returns, Goes
    <3>2. run'[t].pc = pc BY <3>1 DEF At
    <3>3. QED BY <3>2 DEF Fingers
  <2>3. b \in Nat /\ b1 \in Nat /\ b1 + i = b + 0 BY <1>1, <1>5, <2>1, <2>2, BothGoes
  <2>4. QED BY <1>4, <2>3
<1>8. Times(pool'.queue, h) = p + i
  <2>1. pool'.queue = Append(pool.queue, x) BY <1>2 DEF Returns
  <2>2. Times(Append(pool.queue, x), h) = Times(pool.queue, h) + Bit(x = h) BY QueueLengths, TimesAppend
  <2>3. QED BY <1>3, <1>5, <2>1, <2>2, Zenon
<1>9. PICK p1, s : p1 = p + i /\ s = v + q + b + k + p OBVIOUS
<1>10. v + q + b1 + k + p1 = s BY <1>4, <1>6, <1>7, <1>9
<1>11. /\ Times(vc'.held, h) = v /\ Times(HeadersOf(component'.queue), h) = q /\ Hand(h)' = k
       /\ Times(pool'.queue, h) = p1
  BY <1>1, <1>5, <1>8, <1>9 DEF Hand
<1>12. Places(h) = s BY <1>5, <1>9, PlacesAre
<1>13. Places(h)' = s BY <1>5, <1>10, <1>11, PlacesThen
<1>14. QED BY <1>12, <1>13

\* How many there are in the queue of the pool without its first one.
LEMMA PoolTaken ==
  ASSUME TypeInv, Takes, NEW h
  PROVE  /\ Times(pool'.queue, h) \in Nat
         /\ Times(pool.queue, h) = Bit(Head(pool.queue) = h) + Times(pool'.queue, h)
<1>1. pool.queue \in Seq(Headers) /\ pool.queue # <<>> BY QueueLengths DEF Takes
<1>2. pool'.queue = Tail(pool.queue) BY DEF Takes
<1>3. Tail(pool.queue) \in Seq(Headers) BY <1>1, TailLength
<1>4. Times(Tail(pool.queue), h) \in Nat BY <1>3, PositionsFinite
<1>5. Times(pool.queue, h) = Bit(Head(pool.queue) = h) + Times(Tail(pool.queue), h) BY <1>1, TimesTail
<1>6. QED BY <1>2, <1>4, <1>5, Zenon

\* A header that a callback takes is in its hand instead of the pool.
LEMMA PlacesGot ==
  ASSUME TypeInv, NEW t \in Threads, Gets(t), pool' # pool, NEW h PROVE Places(h)' = Places(h)
<1>1. /\ vc' = vc /\ component' = component /\ worker' = worker /\ run[t].pc = "get" /\ Takes
  BY DEF Gets, pluginVars
<1>2. PICK x \in Headers : x = Head(pool.queue) BY <1>1 DEF Takes
<1>3. PICK i : i = Bit(x = h) OBVIOUS
<1>4. i \in {0, 1} BY <1>3 DEF Bit
<1>5. PICK v, q, b, b1, k, p1 :
        /\ v = Times(vc.held, h) /\ q = Times(HeadersOf(component.queue), h) /\ b = Both(h) /\ b1 = Both(h)'
        /\ k = Hand(h) /\ p1 = Times(pool'.queue, h)
  OBVIOUS
<1>6. v \in Nat /\ q \in Nat /\ b \in Nat /\ k \in {0, 1} /\ p1 \in Nat BY <1>1, <1>5, PlacesNow, PoolTaken
<1>7. b1 \in Nat /\ b1 = b + i
  <2>1. Fingers(run[t], h) = 0 BY <1>1 DEF Fingers
  <2>2. PICK r : r = [pc |-> "send", header |-> run[t].header, part |-> run[t].part, new |-> x,
                      complete |-> run[t].complete]
    OBVIOUS
  <2>3. Goes(t, r) BY <1>2, <2>2 DEF Gets
  <2>4. run'[t].pc = "send" /\ run'[t].new = x BY <2>2, <2>3 DEF Goes
  <2>5. Fingers(run'[t], h) = i BY <1>3, <2>4 DEF Fingers, Bit
  <2>6. \A u \in Threads \ {t} : run'[u] = run[u] BY <2>3 DEF Goes
  <2>7. b \in Nat /\ b1 \in Nat /\ b1 + 0 = b + i BY <1>5, <2>1, <2>5, <2>6, BothGoes
  <2>8. QED BY <1>4, <2>7
<1>8. Times(pool.queue, h) = i + p1
  <2>1. Times(pool.queue, h) = Bit(Head(pool.queue) = h) + Times(pool'.queue, h) BY <1>1, PoolTaken
  <2>2. QED BY <1>2, <1>3, <1>5, <2>1, Zenon
<1>9. PICK p, s : p = i + p1 /\ s = v + q + b + k + p OBVIOUS
<1>10. v + q + b1 + k + p1 = s BY <1>4, <1>6, <1>7, <1>9
<1>11. /\ Times(vc'.held, h) = v /\ Times(HeadersOf(component'.queue), h) = q /\ Hand(h)' = k
       /\ Times(pool.queue, h) = p
  BY <1>1, <1>5, <1>8, <1>9 DEF Hand
<1>12. Places(h) = s BY <1>5, <1>9, <1>11, PlacesAre
<1>13. Places(h)' = s BY <1>5, <1>10, <1>11, PlacesThen
<1>14. QED BY <1>12, <1>13

\* A header that the worker takes is in its hand instead of the pool.
LEMMA PlacesTaken ==
  ASSUME TypeInv, HeaderTaken, pool' # pool, NEW h \in Headers PROVE Places(h)' = Places(h)
<1>1. /\ vc' = vc /\ component' = component /\ run' = run /\ Takes /\ worker'.hand = Head(pool.queue)
      /\ worker.hand = 0
  BY DEF HeaderTaken, TypeInv, Named
<1>2. PICK x \in Headers : x = Head(pool.queue) BY <1>1 DEF Takes
<1>3. PICK i : i = Bit(x = h) OBVIOUS
<1>4. i \in {0, 1} BY <1>3 DEF Bit
<1>5. PICK v, q, b, p1 :
        /\ v = Times(vc.held, h) /\ q = Times(HeadersOf(component.queue), h) /\ b = Both(h)
        /\ p1 = Times(pool'.queue, h)
  OBVIOUS
<1>6. v \in Nat /\ q \in Nat /\ b \in Nat /\ p1 \in Nat BY <1>1, <1>5, PlacesNow, PoolTaken
<1>7. Hand(h) = 0 /\ Hand(h)' = i
  <2>1. h # 0 BY DEF Headers
  <2>2. QED BY <1>1, <1>2, <1>3, <2>1 DEF Hand, Bit
<1>8. Times(pool.queue, h) = i + p1
  <2>1. Times(pool.queue, h) = Bit(Head(pool.queue) = h) + Times(pool'.queue, h) BY <1>1, PoolTaken
  <2>2. QED BY <1>2, <1>3, <1>5, <2>1, Zenon
<1>9. PICK p, s : p = i + p1 /\ s = v + q + b + 0 + p OBVIOUS
<1>10. v + q + b + i + p1 = s BY <1>4, <1>6, <1>9
<1>11. /\ Times(vc'.held, h) = v /\ Times(HeadersOf(component'.queue), h) = q /\ Both(h)' = b
       /\ Times(pool.queue, h) = p
  BY <1>1, <1>5, <1>8, <1>9 DEF Both
<1>12. Places(h) = s BY <1>5, <1>7, <1>9, <1>11, PlacesAre
<1>13. Places(h)' = s BY <1>5, <1>7, <1>10, <1>11, PlacesThen
<1>14. QED BY <1>12, <1>13

\* A header that is given to the VideoCore, or forgotten: by its failure, or when
\* the port is disabled.
LEMMA HeldGiven ==
  ASSUME TypeInv, NEW x \in Headers, Given(x), NEW h
  PROVE  \/ Times(vc'.held, h) = Times(vc.held, h) + Bit(x = h)
         \/ vc'.held = vc.held /\ ("send" \in failed' \/ ~port.enabled)
<1>1. vc.held \in Seq(Headers) BY QueueLengths
<1>2. CASE vc'.held = Append(vc.held, x)
  <2>1. Times(Append(vc.held, x), h) = Times(vc.held, h) + Bit(x = h) BY <1>1, TimesAppend
  <2>2. QED BY <1>2, <2>1, Zenon
<1>3. CASE vc' = vc /\ ("send" \in failed' \/ ~port.enabled) BY <1>3
<1>4. QED BY <1>2, <1>3 DEF Given

\* A header that a callback sends is with the VideoCore, unless sending fails.
LEMMA PlacesRefilled ==
  ASSUME TypeInv, NEW t \in Threads, Refills(t), NEW h
  PROVE  /\ Places(h)' = Places(h) \/ "send" \in failed' \/ ~port.enabled
         /\ Places(h) \in Nat /\ Places(h)' \in Nat /\ Places(h)' <= Places(h)
<1>1. /\ component' = component /\ pool' = pool /\ worker' = worker /\ run[t].pc = "send" BY DEF Refills, pluginVars
<1>2. PICK x \in Headers : x = run[t].new BY <1>1 DEF TypeInv, Named
<1>3. PICK i : i = Bit(x = h) OBVIOUS
<1>4. i \in {0, 1} BY <1>3 DEF Bit
<1>5. PICK v, v1, q, b, b1, k, p :
        /\ v = Times(vc.held, h) /\ v1 = Times(vc'.held, h) /\ q = Times(HeadersOf(component.queue), h)
        /\ b = Both(h) /\ b1 = Both(h)' /\ k = Hand(h) /\ p = Times(pool.queue, h)
  OBVIOUS
<1>6. v \in Nat /\ q \in Nat /\ b \in Nat /\ k \in {0, 1} /\ p \in Nat BY <1>5, PlacesNow
<1>7. b1 \in Nat /\ b1 + i = b
  <2>1. PICK r : r = [pc |-> "done", header |-> run[t].header, part |-> run[t].part, new |-> 0,
                      complete |-> run[t].complete]
    OBVIOUS
  <2>2. Goes(t, r) BY <2>1 DEF Refills
  <2>3. run'[t].pc = "done" BY <2>1, <2>2 DEF Goes
  <2>4. Fingers(run'[t], h) = 0 BY <2>3 DEF Fingers
  <2>5. Fingers(run[t], h) = i BY <1>1, <1>2, <1>3 DEF Fingers, Bit
  <2>6. \A u \in Threads \ {t} : run'[u] = run[u] BY <2>2 DEF Goes
  <2>7. b \in Nat /\ b1 \in Nat /\ b1 + i = b + 0 BY <1>5, <2>4, <2>5, <2>6, BothGoes
  <2>8. QED BY <1>4, <2>7
<1>8. v1 = v + i \/ (v1 = v /\ ("send" \in failed' \/ ~port.enabled))
  <2>1. \/ Times(vc'.held, h) = Times(vc.held, h) + Bit(x = h)
        \/ vc'.held = vc.held /\ ("send" \in failed' \/ ~port.enabled)
    BY <1>2, HeldGiven DEF Refills
  <2>2. QED BY <1>3, <1>5, <2>1, Zenon
<1>9. PICK s, s1 : s = v + q + b + k + p /\ s1 = v1 + q + b1 + k + p OBVIOUS
<1>10. /\ s \in Nat /\ s1 \in Nat /\ s1 <= s
       /\ s = s1 \/ "send" \in failed' \/ ~port.enabled
  <2>1. v1 = v + i => s1 = s BY <1>4, <1>6, <1>7, <1>9
  <2>2. v1 = v => s1 \in Nat /\ s1 <= s BY <1>4, <1>6, <1>7, <1>9
  <2>3. s \in Nat BY <1>6, <1>9
  <2>4. QED BY <1>8, <2>1, <2>2, <2>3
<1>11. Times(HeadersOf(component'.queue), h) = q /\ Hand(h)' = k /\ Times(pool'.queue, h) = p
  BY <1>1, <1>5 DEF Hand
<1>12. Places(h) = s BY <1>5, <1>9, PlacesAre
<1>13. Places(h)' = s1 BY <1>5, <1>9, <1>11, PlacesThen
<1>14. QED BY <1>10, <1>12, <1>13

\* A header that the worker gives is with the VideoCore, unless sending fails.
LEMMA PlacesGiven ==
  ASSUME TypeInv, HeaderGiven, NEW h \in Headers
  PROVE  /\ Places(h)' = Places(h) \/ "send" \in failed' \/ ~port.enabled
         /\ Places(h) \in Nat /\ Places(h)' \in Nat /\ Places(h)' <= Places(h)
<1>1. component' = component /\ pool' = pool /\ run' = run /\ worker'.hand = 0 BY DEF HeaderGiven
<1>2. PICK x \in Headers : x = worker.hand BY DEF HeaderGiven, TypeInv, Named
<1>3. PICK i : i = Bit(x = h) OBVIOUS
<1>4. i \in {0, 1} BY <1>3 DEF Bit
<1>5. PICK v, v1, q, b, p :
        /\ v = Times(vc.held, h) /\ v1 = Times(vc'.held, h) /\ q = Times(HeadersOf(component.queue), h)
        /\ b = Both(h) /\ p = Times(pool.queue, h)
  OBVIOUS
<1>6. v \in Nat /\ q \in Nat /\ b \in Nat /\ p \in Nat BY <1>5, PlacesNow
<1>7. Hand(h) = i /\ Hand(h)' = 0
  <2>1. h # 0 BY DEF Headers
  <2>2. QED BY <1>1, <1>2, <1>3, <2>1 DEF Hand, Bit
<1>8. v1 = v + i \/ (v1 = v /\ ("send" \in failed' \/ ~port.enabled))
  <2>1. \/ Times(vc'.held, h) = Times(vc.held, h) + Bit(x = h)
        \/ vc'.held = vc.held /\ ("send" \in failed' \/ ~port.enabled)
    BY <1>2, HeldGiven DEF HeaderGiven
  <2>2. QED BY <1>3, <1>5, <2>1, Zenon
<1>9. PICK s, s1 : s = v + q + b + i + p /\ s1 = v1 + q + b + 0 + p OBVIOUS
<1>10. /\ s \in Nat /\ s1 \in Nat /\ s1 <= s
       /\ s = s1 \/ "send" \in failed' \/ ~port.enabled
  <2>1. v1 = v + i => s1 = s BY <1>4, <1>6, <1>9
  <2>2. v1 = v => s1 \in Nat /\ s1 <= s BY <1>4, <1>6, <1>9
  <2>3. s \in Nat BY <1>4, <1>6, <1>9
  <2>4. QED BY <1>8, <2>1, <2>2, <2>3
<1>11. Times(HeadersOf(component'.queue), h) = q /\ Both(h)' = b /\ Times(pool'.queue, h) = p
  BY <1>1, <1>5 DEF Both
<1>12. Places(h) = s BY <1>5, <1>7, <1>9, PlacesAre
<1>13. Places(h)' = s1 BY <1>5, <1>7, <1>9, <1>11, PlacesThen
<1>14. QED BY <1>10, <1>12, <1>13

\* What a step may do with a header while the pool stays as it is.
KeptInPlace(h) ==
  /\ pool'.state = pool.state /\ (Excused => Excused')
  /\ \/ Places(h)' = Places(h)
     \/ Places(h) \in Nat /\ Places(h)' \in Nat /\ Places(h)' <= Places(h) /\ Excused'
InPlaceOf(h) ==
  /\ Places(h) \in {0, 1}
  /\ pool.state = "live" /\ Places(h) = 0 => Excused
  /\ pool.state = "none" => Places(h) = 0

\* KeptInPlace is enough to keep a header in its place.
LEMMA InPlaceThen ==
  ASSUME NEW h, InPlaceOf(h), KeptInPlace(h)
  PROVE  InPlaceOf(h)'
<1>1. PICK s, s1 : s = Places(h) /\ s1 = Places(h)' OBVIOUS
<1>2. /\ s \in {0, 1} /\ (pool.state = "live" /\ s = 0 => Excused) /\ (pool.state = "none" => s = 0)
  BY <1>1 DEF InPlaceOf
<1>3. /\ pool'.state = pool.state /\ (Excused => Excused')
      /\ s1 = s \/ (s \in Nat /\ s1 \in Nat /\ s1 <= s /\ Excused')
  BY <1>1 DEF KeptInPlace
<1>4. s1 \in {0, 1} /\ (pool'.state = "live" /\ s1 = 0 => Excused') /\ (pool'.state = "none" => s1 = 0)
  BY <1>2, <1>3
<1>5. QED BY <1>1, <1>4 DEF InPlaceOf

\* What excuses a lost header does not go away.
LEMMA ExcusedStays == ASSUME Does PROVE Excused => Excused'
<1>1. failed \subseteq failed' BY FailedGrows
<1>2. stop' = stop \/ stop'
  <2>1. CASE Stops BY <2>1 DEF Stops
  <2>2. CASE PartArrives \/ ActionBegins BY <2>2 DEF PartArrives, ActionBegins, pluginVars
  <2>3. ASSUME NEW t \in Threads, InCallback(t) PROVE stop' = stop
    BY <2>3 DEF InCallback, Copies, Completes, Returns, Gets, Refills, Finishes, pluginVars
  <2>4. CASE Opens \/ Shoots
    BY <2>4 DEF Opens, Shoots, SetsUp, PoolMade, Connected, PortEnabled, Decided, Counted, HeaderTaken,
         HeaderGiven, Captured, Awaited
  <2>5. CASE Closes
    BY <2>5 DEF Closes, SemaphoreDeleted, SendingStopped, ActionLocked, PortDisabled, Drained, Unlocked,
         TransitAwaited, PoolFreed, ComponentsGone, BufferFreed
  <2>6. CASE Reading BY <2>6 DEF Reading, Waits, Locks, TakesCopy
  <2>7. QED BY <2>1, <2>2, <2>3, <2>4, <2>5, <2>6 DEF Does
<1>3. QED BY <1>1, <1>2 DEF Excused

\* A callback keeps every header in its place.
LEMMA InPlaceCallback ==
  ASSUME TypeInv, Control, NEW t \in Threads, InCallback(t), NEW h PROVE KeptInPlace(h)
<1>1. Excused => Excused' BY ExcusedStays DEF Does
<1>2. pool'.state = pool.state
  BY DEF InCallback, Copies, Completes, Returns, Gets, Takes, Refills, Finishes
<1>3. CASE Copies(t) \/ Completes(t) \/ Finishes(t) \/ (Gets(t) /\ pool' = pool)
  BY <1>1, <1>2, <1>3, PlacesStay DEF KeptInPlace
<1>4. CASE Returns(t) BY <1>1, <1>2, <1>4, PlacesReturned DEF KeptInPlace
<1>5. CASE Gets(t) /\ pool' # pool BY <1>1, <1>2, <1>5, PlacesGot DEF KeptInPlace
<1>6. CASE Refills(t)
  <2>1. /\ Places(h)' = Places(h) \/ "send" \in failed' \/ ~port.enabled
        /\ Places(h) \in Nat /\ Places(h)' \in Nat /\ Places(h)' <= Places(h)
    BY <1>6, PlacesRefilled
  <2>2. ~port.enabled => stop
    <3>1. run[t] # Idle BY StaysBusy
    <3>2. worker.pc \notin Opening \cup {"exit"} BY <3>1 DEF Control, Staged, Unopened
    <3>3. worker.pc \in WorkerPcs BY DEF TypeInv, PluginType, Workers
    <3>4. QED BY <3>2, <3>3 DEF Control, Staged, WorkerPcs
  <2>3. stop' = stop BY <1>6 DEF Refills, pluginVars
  <2>4. QED BY <1>1, <1>2, <2>1, <2>2, <2>3 DEF KeptInPlace, Excused
<1>7. QED BY <1>3, <1>4, <1>5, <1>6 DEF InCallback

\* So does the worker, but where it makes and frees the pool.
LEMMA InPlaceWorker ==
  ASSUME TypeInv, Control, Opens \/ Shoots \/ Closes, ~PoolMade, ~PoolFreed, NEW h \in Headers PROVE KeptInPlace(h)
<1>1. Excused => Excused' BY ExcusedStays DEF Does
<1>2. CASE HeaderTaken /\ pool' # pool
  <2>1. pool'.state = pool.state BY <1>2 DEF HeaderTaken, Takes
  <2>2. QED BY <1>1, <1>2, <2>1, PlacesTaken DEF KeptInPlace
<1>3. CASE HeaderGiven
  <2>1. /\ Places(h)' = Places(h) \/ "send" \in failed' \/ ~port.enabled
        /\ Places(h) \in Nat /\ Places(h)' \in Nat /\ Places(h)' <= Places(h)
    BY <1>3, PlacesGiven
  <2>2. pool' = pool /\ worker.pc = "give" BY <1>3 DEF HeaderGiven
  <2>3. port.enabled BY <2>2 DEF Control, Staged, Shooting
  <2>4. QED BY <1>1, <2>1, <2>2, <2>3 DEF KeptInPlace, Excused
<1>4. CASE PortDisabled /\ component' # component
  <2>1. pool' = pool /\ component'.queue = component.queue \o Emptied(vc.held) /\ vc'.held = <<>>
    BY <1>4 DEF PortDisabled
  <2>2. QED BY <1>1, <1>4, <2>1, PlacesGivenBack DEF KeptInPlace
<1>5. CASE Drained
  <2>1. pool' = pool /\ worker' = worker /\ vc' = vc /\ Begins("worker") BY <1>5 DEF Drained
  <2>2. QED BY <1>1, <2>1, PlacesBegin, ThreadsAre DEF KeptInPlace
<1>6. CASE /\ ~(HeaderTaken /\ pool' # pool) /\ ~HeaderGiven /\ ~Drained
           /\ ~(PortDisabled /\ component' # component)
  <2>1. run' = run BY <1>6, WorkerRuns
  <2>2. vc'.held = vc.held /\ component'.queue = component.queue /\ pool' = pool
    <3>1. CASE Opens BY <3>1 DEF Opens, SetsUp, PoolMade, Connected, PortEnabled, mmalVars
    <3>2. CASE Shoots
      BY <1>6, <3>2 DEF Shoots, Decided, Counted, HeaderTaken, Captured, Awaited, mmalVars
    <3>3. CASE PortDisabled
      <4>1. component' = component BY <1>6, <3>3
      <4>2. CASE vc' = vc BY <3>3, <4>1, <4>2 DEF PortDisabled
      <4>3. CASE component'.queue = component.queue \o Emptied(vc.held) /\ vc'.held = <<>>
        <5>1. vc.held \in Seq(Headers) /\ component.queue \in Seq(Entries) BY QueueLengths
        <5>2. PICK s \in Seq(Entries) : s = Emptied(vc.held) /\ Len(s) = Len(vc.held) BY EmptiedLength
        <5>3. Len(component.queue \o s) = Len(component.queue) + Len(s) BY <5>1, <5>2, ConcatProperties
        <5>4. PICK n \in Nat, m \in Nat : n = Len(component.queue) /\ m = Len(vc.held) BY <5>1
        <5>5. component.queue \o s = component.queue BY <4>1, <4>3, <5>2
        <5>6. n = n + m BY <5>2, <5>3, <5>4, <5>5
        <5>7. m = 0 BY <5>6
        <5>8. vc.held = <<>> BY <5>4, <5>7, QueueLengths
        <5>9. QED BY <3>3, <4>1, <4>3, <5>8 DEF PortDisabled
      <4>4. QED BY <3>3, <4>2, <4>3 DEF PortDisabled
    <3>4. CASE Closes /\ ~PortDisabled
      BY <1>6, <3>4 DEF Closes, SemaphoreDeleted, SendingStopped, ActionLocked, Unlocked, TransitAwaited,
           ComponentsGone, BufferFreed, mmalVars
    <3>5. QED BY <3>1, <3>2, <3>3, <3>4
  <2>3. worker'.hand = worker.hand
    <3>1. CASE Opens BY <3>1 DEF Opens, SetsUp, PoolMade, Connected, PortEnabled, WorkerAt
    <3>2. CASE HeaderTaken
      <4>1. pool' = pool BY <1>6, <3>2
      <4>2. CASE Takes
        <5>1. pool.queue \in Seq(Headers) BY QueueLengths
        <5>2. Len(Tail(pool.queue)) = Len(pool.queue) - 1 /\ Len(pool.queue) \in Nat
          BY <4>2, <5>1, TailLength DEF Takes
        <5>3. Tail(pool.queue) = pool.queue BY <4>1, <4>2 DEF Takes
        <5>4. PICK n \in Nat : n = Len(pool.queue) BY <5>2
        <5>5. Len(Tail(pool.queue)) = n BY <5>3, <5>4, Zenon
        <5>6. n = n - 1 BY <5>2, <5>4, <5>5
        <5>7. QED BY <5>6
      <4>3. CASE ~Takes BY <3>2, <4>3 DEF HeaderTaken, WorkerAt
      <4>4. QED BY <4>2, <4>3
    <3>3. CASE Shoots /\ ~HeaderTaken
      BY <1>6, <3>3 DEF Shoots, Decided, Counted, Captured, Awaited, WorkerAt
    <3>4. CASE Closes
      BY <1>6, <3>4 DEF Closes, SemaphoreDeleted, SendingStopped, ActionLocked, PortDisabled, Unlocked,
           TransitAwaited, PoolFreed, ComponentsGone, BufferFreed, WorkerAt
    <3>5. QED BY <3>1, <3>2, <3>3, <3>4
  <2>4. SamePlaces BY <2>1, <2>2, <2>3 DEF SamePlaces, Both
  <2>5. QED BY <1>1, <2>2, <2>4, PlacesSame DEF KeptInPlace
<1>7. QED BY <1>2, <1>3, <1>4, <1>5, <1>6

\* The pool is made with each header once, and freed with those it has.
LEMMA InPlaceMade == ASSUME TypeInv, Control, PoolMade, NEW h \in Headers PROVE InPlaceOf(h)'
<1>1. Unopened /\ pool.queue = <<>> BY DEF Control, Staged, PoolMade, Opening
<1>2. /\ vc' = vc /\ component' = component /\ run' = run /\ worker'.hand = worker.hand
      /\ pool'.state = "live" /\ pool'.queue = [i \in Headers |-> i] /\ worker.hand = 0
  BY DEF PoolMade, WorkerAt, TypeInv, Named
<1>3. Times(vc'.held, h) = 0 BY <1>1, <1>2, TimesNone DEF Unopened
<1>4. Times(HeadersOf(component'.queue), h) = 0
  <2>1. HeadersOf(<<>>) = <<>> BY DEF HeadersOf
  <2>2. QED BY <1>1, <1>2, <2>1, TimesNone DEF Unopened
<1>5. Both(h)' = 0 BY <1>1, <1>2, ThreadsAre, IdleIs DEF Both, Fingers, Unopened
<1>6. Hand(h)' = 0
  <2>1. h # 0 BY DEF Headers
  <2>2. QED BY <1>2, <2>1 DEF Hand
<1>7. Times(pool'.queue, h) = 1 BY <1>2, TimesAll
<1>8. 0 + 0 + 0 + 0 + 1 = 1 OBVIOUS
<1>9. Places(h)' = 1 BY <1>3, <1>4, <1>5, <1>6, <1>7, <1>8, PlacesThen
<1>10. QED BY <1>2, <1>9 DEF InPlaceOf

\* When the pool is freed, a header is still in one place at most.
LEMMA InPlaceFreed == ASSUME TypeInv, NEW h, InPlaceOf(h), PoolFreed PROVE InPlaceOf(h)'
<1>1. /\ vc' = vc /\ component' = component /\ run' = run /\ worker'.hand = worker.hand
      /\ pool'.state = "freed" /\ pool'.queue = <<>>
  BY DEF PoolFreed, WorkerAt
<1>2. PICK v, q, b, k, p :
        /\ v = Times(vc.held, h) /\ q = Times(HeadersOf(component.queue), h) /\ b = Both(h) /\ k = Hand(h)
        /\ p = Times(pool.queue, h)
  OBVIOUS
<1>3. v \in Nat /\ q \in Nat /\ b \in Nat /\ k \in {0, 1} /\ p \in Nat BY <1>2, PlacesNow
<1>4. PICK s, s1 : s = v + q + b + k + p /\ s1 = v + q + b + k + 0 OBVIOUS
<1>5. Places(h) = s BY <1>2, <1>4, PlacesAre
<1>6. Times(pool'.queue, h) = 0 BY <1>1, TimesNone
<1>7. /\ Times(vc'.held, h) = v /\ Times(HeadersOf(component'.queue), h) = q /\ Both(h)' = b /\ Hand(h)' = k
  BY <1>1, <1>2 DEF Both, Hand
<1>8. Places(h)' = s1 BY <1>4, <1>6, <1>7, PlacesThen
<1>9. s \in {0, 1} BY <1>5 DEF InPlaceOf
<1>10. s1 \in {0, 1} BY <1>3, <1>4, <1>9
<1>11. QED BY <1>1, <1>8, <1>10 DEF InPlaceOf

\* Whatever is done, every header is in its place.
LEMMA InPlaceKept == ASSUME TypeInv, Control, InPlace, Does PROVE InPlace'
<1>1. ASSUME NEW h \in Headers PROVE InPlaceOf(h)'
  <2>1. InPlaceOf(h) BY DEF InPlace, InPlaceOf
  <2>2. CASE PoolMade BY <2>2, InPlaceMade
  <2>3. CASE PoolFreed BY <2>1, <2>3, InPlaceFreed
  <2>4. CASE (Opens \/ Shoots \/ Closes) /\ ~PoolMade /\ ~PoolFreed BY <2>1, <2>4, InPlaceWorker, InPlaceThen
  <2>5. ASSUME NEW t \in Threads, InCallback(t) PROVE InPlaceOf(h)' BY <2>1, <2>5, InPlaceCallback, InPlaceThen
  <2>6. Excused => Excused' BY ExcusedStays
  <2>7. CASE PartArrives
    <3>1. Places(h)' = Places(h) BY <2>7, PlacesArrive
    <3>2. pool' = pool BY <2>7 DEF PartArrives, Fills
    <3>3. KeptInPlace(h) BY <2>6, <3>1, <3>2 DEF KeptInPlace
    <3>4. QED BY <2>1, <3>3, InPlaceThen
  <2>8. CASE ActionBegins
    <3>1. Begins("action") /\ vc' = vc /\ pool' = pool /\ worker' = worker BY <2>8 DEF ActionBegins, pluginVars
    <3>2. Places(h)' = Places(h) BY <3>1, PlacesBegin, ThreadsAre
    <3>3. KeptInPlace(h) BY <2>6, <3>1, <3>2 DEF KeptInPlace
    <3>4. QED BY <2>1, <3>3, InPlaceThen
  <2>9. CASE Reading \/ Stops
    <3>1. vc' = vc /\ component' = component /\ pool' = pool /\ run' = run /\ worker' = worker
      BY <2>9 DEF Reading, Waits, Locks, TakesCopy, Stops, mmalVars
    <3>2. SamePlaces BY <3>1 DEF SamePlaces, Both
    <3>3. KeptInPlace(h) BY <2>6, <3>1, <3>2, PlacesSame DEF KeptInPlace
    <3>4. QED BY <2>1, <3>3, InPlaceThen
  <2>10. QED BY <2>2, <2>3, <2>4, <2>5, <2>7, <2>8, <2>9 DEF Does
<1>2. QED BY <1>1 DEF InPlace, InPlaceOf

\* In the beginning there is no header.
LEMMA FirstInPlace == ASSUME Init PROVE InPlace
<1>1. /\ component.queue = <<>> /\ vc.held = <<>> /\ pool.queue = <<>> /\ pool.state = "none"
      /\ run = [t \in Threads |-> Idle]
  BY DEF Init, MmalInit
<1>2. worker.hand = 0 BY DEF Init
<1>3. ASSUME NEW h \in Headers PROVE Places(h) = 0
  <2>1. Times(vc.held, h) = 0 /\ Times(pool.queue, h) = 0 BY <1>1, TimesNone
  <2>2. HeadersOf(<<>>) = <<>> BY DEF HeadersOf
  <2>3. Times(HeadersOf(component.queue), h) = 0 BY <1>1, <2>2, TimesNone
  <2>4. Both(h) = 0 BY <1>1, ThreadsAre, IdleIs DEF Both, Fingers
  <2>5. Hand(h) = 0
    <3>1. h # 0 BY DEF Headers
    <3>2. QED BY <1>2, <3>1 DEF Hand
  <2>6. 0 + 0 + 0 + 0 + 0 = 0 OBVIOUS
  <2>7. QED BY <2>1, <2>3, <2>4, <2>5, <2>6, PlacesAre
<1>4. QED BY <1>1, <1>3 DEF InPlace

-----------------------------------------------------------------------------
(* What is said of all headers, and how many there are.                    *)

\* How many of the two threads are in a set.
Member(x, S) == IF x \in S THEN 1 ELSE 0

\* How many threads there are in a set of them.
LEMMA HowMany ==
  ASSUME NEW S \in SUBSET Threads
  PROVE  Cardinality(S) = Member("action", S) + Member("worker", S)
<1>1. CASE S = {}
  <2>1. Cardinality(S) = 0 BY <1>1, FS_EmptySet
  <2>2. Member("action", S) = 0 /\ Member("worker", S) = 0 BY <1>1 DEF Member
  <2>3. QED BY <2>1, <2>2
<1>2. CASE S = {"action"}
  <2>1. Cardinality(S) = 1 BY <1>2, FS_Singleton
  <2>2. Member("action", S) = 1 /\ Member("worker", S) = 0 BY <1>2, ThreadsAre DEF Member
  <2>3. QED BY <2>1, <2>2
<1>3. CASE S = {"worker"}
  <2>1. Cardinality(S) = 1 BY <1>3, FS_Singleton
  <2>2. Member("action", S) = 0 /\ Member("worker", S) = 1 BY <1>3, ThreadsAre DEF Member
  <2>3. QED BY <2>1, <2>2
<1>4. CASE S = {"action", "worker"}
  <2>1. IsFiniteSet({"action"}) /\ Cardinality({"action"}) = 1 BY FS_Singleton
  <2>2. Cardinality({"action"} \cup {"worker"}) = Cardinality({"action"}) + 1
    BY <2>1, FS_AddElement, ThreadsAre
  <2>3. S = {"action"} \cup {"worker"} BY <1>4
  <2>4. Member("action", S) = 1 /\ Member("worker", S) = 1 BY <1>4 DEF Member
  <2>5. QED BY <2>1, <2>2, <2>3, <2>4
<1>5. QED BY <1>1, <1>2, <1>3, <1>4, ThreadsAre

\* Busy counts the threads that are in a callback.
LEMMA BusyAre == Busy = Cardinality({t \in Threads : run[t] # Idle})
<1>1. PICK S \in SUBSET Threads : S = {t \in Threads : run[t] # Idle} OBVIOUS
<1>2. Cardinality(S) = Member("action", S) + Member("worker", S) BY HowMany
<1>3. Member("action", S) = Bit(run["action"] # Idle) /\ Member("worker", S) = Bit(run["worker"] # Idle)
  BY <1>1, ThreadsAre DEF Member, Bit
<1>4. QED BY <1>1, <1>2, <1>3, Zenon DEF Busy

\* Both counts the callbacks that have a header and the threads that send it.
LEMMA BothAre ==
  ASSUME NEW h
  PROVE  /\ Cardinality(CallbacksOf(h)) \in Nat /\ Cardinality(SendersOf(h)) \in Nat
         /\ Both(h) = Cardinality(CallbacksOf(h)) + Cardinality(SendersOf(h))
<1>1. PICK C \in SUBSET Threads : C = CallbacksOf(h) BY DEF CallbacksOf
<1>2. PICK S \in SUBSET Threads : S = SendersOf(h) BY DEF SendersOf
<1>3. Cardinality(C) = Member("action", C) + Member("worker", C) BY HowMany
<1>4. Cardinality(S) = Member("action", S) + Member("worker", S) BY HowMany
<1>5. ASSUME NEW t \in Threads
      PROVE  /\ Member(t, C) \in {0, 1} /\ Member(t, S) \in {0, 1}
             /\ Fingers(run[t], h) = Member(t, C) + Member(t, S)
  <2>1. t \in C <=> run[t].pc \in {"copy", "end", "release"} /\ run[t].header = h BY <1>1 DEF CallbacksOf
  <2>2. t \in S <=> run[t].pc = "send" /\ run[t].new = h BY <1>2 DEF SendersOf
  <2>3. ~(t \in C /\ t \in S) BY <2>1, <2>2
  <2>4. QED BY <2>1, <2>2, <2>3 DEF Member, Fingers
<1>6. PICK ca, cw, sa, sw :
        /\ ca = Member("action", C) /\ cw = Member("worker", C)
        /\ sa = Member("action", S) /\ sw = Member("worker", S)
  OBVIOUS
<1>7. ca \in {0, 1} /\ cw \in {0, 1} /\ sa \in {0, 1} /\ sw \in {0, 1} BY <1>5, <1>6, ThreadsAre
<1>8. Fingers(run["action"], h) = ca + sa /\ Fingers(run["worker"], h) = cw + sw BY <1>5, <1>6, ThreadsAre
<1>9. Both(h) = (ca + sa) + (cw + sw) BY <1>8, Zenon DEF Both
<1>10. Cardinality(C) = ca + cw /\ Cardinality(S) = sa + sw BY <1>3, <1>4, <1>6, Zenon
<1>11. (ca + sa) + (cw + sw) = (ca + cw) + (sa + sw) /\ ca + cw \in Nat /\ sa + sw \in Nat BY <1>7
<1>12. QED BY <1>1, <1>2, <1>9, <1>10, <1>11

\* Places counts what the property counts.
LEMMA PlacesOutside ==
  ASSUME TypeInv, NEW h \in Headers
  PROVE  Outside(h) \in Nat /\ Places(h) = Outside(h) + Cardinality(Positions(pool.queue, h))
<1>1. PICK v, q, b, k, p :
        /\ v = Times(vc.held, h) /\ q = Times(HeadersOf(component.queue), h) /\ b = Both(h) /\ k = Hand(h)
        /\ p = Times(pool.queue, h)
  OBVIOUS
<1>2. v \in Nat /\ q \in Nat /\ b \in Nat /\ k \in {0, 1} /\ p \in Nat BY <1>1, PlacesNow
<1>3. PICK c, s : c = Cardinality(CallbacksOf(h)) /\ s = Cardinality(SendersOf(h)) OBVIOUS
<1>4. c \in Nat /\ s \in Nat /\ b = c + s BY <1>1, <1>3, BothAre
<1>5. q = Cardinality({i \in DOMAIN component.queue : component.queue[i].header = h})
  <2>1. component.queue \in Seq(Entries) BY QueueLengths
  <2>2. PICK r : r = HeadersOf(component.queue) OBVIOUS
  <2>3. DOMAIN r = DOMAIN component.queue /\ \A i \in DOMAIN component.queue : r[i] = component.queue[i].header
    BY <2>2 DEF HeadersOf
  <2>4. Positions(r, h) = {i \in DOMAIN component.queue : component.queue[i].header = h}
    BY <2>3 DEF Positions
  <2>5. QED BY <1>1, <2>2, <2>4 DEF Times
<1>6. v = Cardinality(Positions(vc.held, h)) /\ p = Cardinality(Positions(pool.queue, h)) BY <1>1 DEF Times
<1>7. Outside(h) = v + c + s + q + k BY <1>1, <1>3, <1>5, <1>6 DEF Outside, Hand
<1>8. PICK n, m : n = v + c + s + q + k /\ m = v + q + b + k + p OBVIOUS
<1>9. n \in Nat /\ m = n + p BY <1>2, <1>4, <1>8
<1>10. Places(h) = m BY <1>1, <1>8, PlacesAre
<1>11. QED BY <1>6, <1>7, <1>8, <1>9, <1>10

\* When the pool is freed none is anywhere, but for a port that was not disabled.
LEMMA NoneOutside ==
  ASSUME TypeInv, Control, pool.state = "freed", "disable" \notin failed, NEW h \in Headers
  PROVE  Outside(h) = 0
<1>1. worker.pc \in Disabled /\ port.transit = 0 BY DEF Control, Disablings
<1>2. vc.held = <<>> /\ component.queue = <<>> /\ \A t \in Threads : run[t] = Idle
  <2>1. ~(port.transit > 0) BY <1>1
  <2>2. QED BY <2>1, Counted1
<1>3. worker.hand = 0 BY <1>1 DEF TypeInv, Named, Disabled
<1>4. CallbacksOf(h) = {} /\ SendersOf(h) = {} BY <1>2, IdleIs DEF CallbacksOf, SendersOf
<1>5. /\ Positions(vc.held, h) = {} /\ {i \in DOMAIN component.queue : component.queue[i].header = h} = {}
  BY <1>2 DEF Positions
<1>6. worker.hand # h BY <1>3 DEF Headers
<1>7. Cardinality({}) = 0 BY FS_EmptySet
<1>8. QED BY <1>4, <1>5, <1>6, <1>7 DEF Outside

\* One place for each header is what HeadersAccounted says of all of them.
LEMMA Accounted == ASSUME TypeInv, Control, InPlace PROVE HeadersAccounted
<1>1. port.transit = Len(vc.held) + Len(component.queue) + Cardinality({t \in Threads : run[t] # Idle})
  BY BusyAre, Zenon DEF Control, InTransit
<1>2. ASSUME NEW h \in Headers
      PROVE  LET places == Outside(h) + Cardinality(Positions(pool.queue, h))
             IN  /\ pool.state = "none" => places = 0
                 /\ pool.state = "live" => places <= 1 /\ (places = 0 => stop \/ "send" \in failed)
                 /\ pool.state = "freed" => (Outside(h) = 0 \/ "disable" \in failed)
  <2>1. PICK s : s = Places(h) OBVIOUS
  <2>2. /\ s \in {0, 1} /\ (pool.state = "live" /\ s = 0 => stop \/ "send" \in failed)
        /\ (pool.state = "none" => s = 0)
    BY <2>1 DEF InPlace, Excused
  <2>3. s = Outside(h) + Cardinality(Positions(pool.queue, h)) BY <2>1, PlacesOutside
  <2>4. s <= 1 BY <2>2
  <2>5. pool.state = "freed" => (Outside(h) = 0 \/ "disable" \in failed) BY NoneOutside
  <2>6. QED BY <2>2, <2>3, <2>4, <2>5
<1>3. QED BY <1>1, <1>2 DEF HeadersAccounted

\* There are no more on their way than the pool has, and one that returns.
LEMMA Few ==
  ASSUME TypeInv, Control, InPlace
  PROVE  port.transit \in 0 .. BufferNum + 1 /\ Len(pool.queue) <= BufferNum
<1>1. /\ vc.held \in Seq(Headers) /\ component.queue \in Seq(Entries) /\ pool.queue \in Seq(Headers)
  BY QueueLengths
<1>2. PICK r \in Seq(Headers) : r = HeadersOf(component.queue) /\ Len(r) = Len(component.queue)
  BY <1>1, HeadersOfType
<1>3. ASSUME NEW h \in Headers PROVE Times(vc.held, h) + Times(r, h) <= 1 /\ Times(pool.queue, h) <= 1
  <2>1. PICK v, q, b, k, p :
          /\ v = Times(vc.held, h) /\ q = Times(HeadersOf(component.queue), h) /\ b = Both(h) /\ k = Hand(h)
          /\ p = Times(pool.queue, h)
    OBVIOUS
  <2>2. v \in Nat /\ q \in Nat /\ b \in Nat /\ k \in {0, 1} /\ p \in Nat BY <2>1, PlacesNow
  <2>3. PICK s : s = v + q + b + k + p OBVIOUS
  <2>4. Places(h) = s BY <2>1, <2>3, PlacesAre
  <2>5. s \in {0, 1} BY <2>4 DEF InPlace
  <2>6. v + q <= 1 /\ p <= 1 BY <2>2, <2>3, <2>5
  <2>7. QED BY <1>2, <2>1, <2>6
<1>4. PICK l \in Seq(Headers) : l = vc.held \o r BY <1>1, <1>2, ConcatProperties
<1>5. Len(l) = Len(vc.held) + Len(component.queue)
  <2>1. Len(vc.held \o r) = Len(vc.held) + Len(r) BY <1>1, ConcatProperties
  <2>2. QED BY <1>2, <1>4, <2>1, Zenon
<1>6. \A h \in Headers : Times(l, h) <= 1
  <2>1. ASSUME NEW h \in Headers PROVE Times(l, h) <= 1
    <3>1. Times(vc.held \o r, h) = Times(vc.held, h) + Times(r, h) BY <1>1, TimesConcat
    <3>2. QED BY <1>3, <1>4, <3>1
  <2>2. QED BY <2>1
<1>7. Len(l) <= BufferNum BY <1>6, NoneTwice
<1>8. Len(pool.queue) <= BufferNum
  <2>1. \A h \in Headers : Times(pool.queue, h) <= 1 BY <1>3
  <2>2. QED BY <1>1, <2>1, NoneTwice
<1>9. Busy \in {0, 1} BY ThreadsAre DEF Control, Acting, Busy, Bit
<1>10. PICK n, l1, q, b : n = port.transit /\ l1 = Len(vc.held) /\ q = Len(component.queue) /\ b = Busy OBVIOUS
<1>11. n \in Int /\ l1 \in Nat /\ q \in Nat /\ b \in {0, 1} BY <1>9, <1>10, QueueLengths
<1>12. n = l1 + q + b BY <1>10, Zenon DEF Control, InTransit
<1>13. l1 + q <= BufferNum BY <1>5, <1>7, <1>10
<1>14. BufferNum \in Nat BY MmalAssumption
<1>15. n \in 0 .. BufferNum + 1 BY <1>11, <1>12, <1>13, <1>14
<1>16. QED BY <1>8, <1>10, <1>15

-----------------------------------------------------------------------------
(* The parts that are on their way.                                        *)

Arrived == Len(component.queue)
Coming(i) == component.queue[i].part
Linked == port.contexts \/ vc.held # <<>>

\* They follow each other up to the one the encoder is at; those that were given
\* back empty come last, and then the encoder gets no header any more.
ProperParts == \A i \in 1 .. Arrived : Coming(i) = NoPart \/ Proper(Coming(i))
InOrder == \A i \in 2 .. Arrived : Coming(i) = NoPart \/ Follows(Coming(i), After(Coming(i - 1)))
EmptyLast == \A i \in 1 .. Arrived, j \in 1 .. Arrived : i <= j /\ Coming(i) = NoPart => Coming(j) = NoPart
UpTo == Arrived > 0 /\ Linked => Coming(Arrived) # NoPart /\ After(Coming(Arrived)) = Encoded
Chained == ProperParts /\ InOrder /\ EmptyLast /\ UpTo

\* The next one comes after the place pos.
Rest(pos) ==
  /\ Arrived > 0 => Coming(1) = NoPart \/ Follows(Coming(1), pos)
  /\ Arrived = 0 /\ Linked => pos = Encoded

\* The part that a callback is about to copy.
CopyFollows(p) ==
  IF p = NoPart THEN ~Linked /\ (Arrived > 0 => Coming(1) = NoPart) ELSE Proper(p) /\ Rest(After(p))
CopyChained == \A t \in Threads : run[t].pc = "copy" => CopyFollows(run[t].part)

\* There is room for what is to come.
AtRest == \A t \in Threads : run[t].pc \notin {"copy", "end"}
RoomLeft ==
  /\ offset <= MaxParts
  /\ \A t \in Threads : run[t].pc = "copy" /\ run[t].part # NoPart => offset < run[t].part.no
  /\ AtRest =>
       /\ Arrived > 0 /\ Coming(1) # NoPart => offset < Coming(1).no
       /\ Arrived = 0 /\ Linked => offset <= vc.part
Sizes == board.size <= MaxParts /\ reader.size <= MaxParts
Parts == Chained /\ CopyChained /\ RoomLeft /\ Sizes

\* Arrived counts the entries of the queue.
LEMMA ArrivedIs == ASSUME TypeInv PROVE Arrived \in Nat /\ (component.queue = <<>> <=> Arrived = 0)
BY QueueLengths DEF Arrived

\* An entry that is appended arrives last.
LEMMA QueueAppends ==
  ASSUME TypeInv, NEW e \in Entries, component'.queue = Append(component.queue, e)
  PROVE  /\ Arrived' = Arrived + 1 /\ (\A i \in 1 .. Arrived : Coming(i)' = Coming(i))
         /\ \A i : i = Arrived + 1 => Coming(i)' = e.part
<1>1. component.queue \in Seq(Entries) BY QueueLengths
<1>2. PICK q \in Seq(Entries), r \in Seq(Entries) : q = component.queue /\ r = component'.queue
  <2>1. Append(component.queue, e) \in Seq(Entries) BY <1>1
  <2>2. QED BY <1>1, <2>1
<1>3. r = Append(q, e) BY <1>2
<1>4. Len(r) = Len(q) + 1 /\ (\A i \in 1 .. Len(q) : r[i] = q[i]) /\ r[Len(q) + 1] = e BY <1>3, AppendProperties
<1>5. Arrived = Len(q) /\ Arrived' = Len(r) BY <1>2 DEF Arrived
<1>6. (\A i : Coming(i) = q[i].part) /\ (\A i : Coming(i)' = r[i].part) BY <1>2 DEF Coming
<1>7. PICK n \in Nat : n = Len(q) OBVIOUS
<1>8. Arrived = n /\ Arrived' = n + 1 BY <1>4, <1>5, <1>7
<1>9. \A i \in 1 .. n : Coming(i)' = Coming(i) BY <1>4, <1>6, <1>7
<1>10. ASSUME NEW i, i = n + 1 PROVE Coming(i)' = e.part
  <2>1. r[n + 1] = e BY <1>4, <1>7
  <2>2. QED BY <1>6, <1>10, <2>1, Zenon
<1>11. QED BY <1>8, <1>9, <1>10

\* When the first entry is taken, the others move up.
LEMMA QueueTail ==
  ASSUME TypeInv, component.queue # <<>>, component'.queue = Tail(component.queue)
  PROVE  /\ Arrived > 0 /\ Arrived' = Arrived - 1 /\ Head(component.queue).part = Coming(1)
         /\ \A i \in 1 .. Arrived - 1 : Coming(i)' = Coming(i + 1)
<1>1. component.queue \in Seq(Entries) BY QueueLengths
<1>2. PICK q \in Seq(Entries), r \in Seq(Entries) : q = component.queue /\ r = component'.queue
  <2>1. Tail(component.queue) \in Seq(Entries) BY <1>1
  <2>2. QED BY <1>1, <2>1
<1>3. r = Tail(q) /\ q # <<>> BY <1>2
<1>4. Len(q) > 0 /\ Len(q) \in Nat /\ Len(r) = Len(q) - 1 /\ (\A i \in 1 .. Len(q) - 1 : r[i] = q[i + 1]) /\ Head(q) = q[1]
  BY <1>3
<1>5. Arrived = Len(q) /\ Arrived' = Len(r) BY <1>2 DEF Arrived
<1>6. (\A i : Coming(i) = q[i].part) /\ (\A i : Coming(i)' = r[i].part) BY <1>2 DEF Coming
<1>7. QED BY <1>2, <1>4, <1>5, <1>6

\* The headers that come back come after what has arrived, and without parts.
LEMMA QueueEmptied ==
  ASSUME TypeInv, component'.queue = component.queue \o Emptied(vc.held)
  PROVE  /\ Arrived' \in Nat /\ Arrived' >= Arrived /\ (\A i \in 1 .. Arrived : Coming(i)' = Coming(i))
         /\ \A i \in 1 .. Arrived' : i > Arrived => Coming(i)' = NoPart
<1>1. component.queue \in Seq(Entries) BY QueueLengths
<1>2. PICK s \in Seq(Entries) : s = Emptied(vc.held) BY EmptiedLength
<1>3. \A i \in 1 .. Len(s) : s[i].part = NoPart
  <2>1. ASSUME NEW i \in 1 .. Len(vc.held) PROVE s[i].part = NoPart
    <3>1. PICK h : h = vc.held[i] OBVIOUS
    <3>2. s[i] = [header |-> h, part |-> NoPart] BY <1>2, <3>1, EmptiedLength
    <3>3. QED BY <3>2
  <2>2. QED BY <1>2, <2>1, EmptiedLength
<1>4. PICK q \in Seq(Entries), r \in Seq(Entries) : q = component.queue /\ r = component'.queue
  <2>1. component.queue \o s \in Seq(Entries) BY <1>1, ConcatProperties
  <2>2. QED BY <1>1, <1>2, <2>1
<1>5. r = q \o s BY <1>2, <1>4
<1>6. PICK n \in Nat, m \in Nat : n = Len(q) /\ m = Len(s) OBVIOUS
<1>7. Len(r) = n + m /\ \A i \in 1 .. n + m : r[i] = IF i <= n THEN q[i] ELSE s[i - n]
  BY <1>5, <1>6, ConcatProperties
<1>8. Arrived = n /\ Arrived' = n + m BY <1>4, <1>6, <1>7 DEF Arrived
<1>9. (\A i : Coming(i) = q[i].part) /\ (\A i : Coming(i)' = r[i].part) BY <1>4 DEF Coming
<1>10. ASSUME NEW i \in 1 .. n + m, i > n PROVE r[i].part = NoPart
  <2>1. i - n \in 1 .. m /\ ~(i <= n) BY <1>10
  <2>2. r[i] = s[i - n] BY <1>7, <2>1
  <2>3. QED BY <1>3, <1>6, <2>1, <2>2
<1>11. ASSUME NEW i \in 1 .. n PROVE r[i] = q[i] BY <1>7
<1>12. QED BY <1>8, <1>9, <1>10, <1>11

\* At most one thread is in a callback.
LEMMA OneBusy ==
  ASSUME Control
  PROVE  /\ \A t \in Threads, u \in Threads : run[t] # Idle /\ u # t => run[u] = Idle
         /\ component.owner = "none" => \A t \in Threads : run[t] = Idle
         /\ component.owner = "worker" /\ run["worker"] = Idle => \A t \in Threads : run[t] = Idle
BY ThreadsAre DEF Control, Acting

\* A callback begins only when none is running.
LEMMA BeginsAlone == ASSUME Control, ActionBegins \/ Drained PROVE \A t \in Threads : run[t] = Idle
BY OneBusy DEF ActionBegins, Drained, Begins

\* A step that leaves the queue alone, and adds no part to copy.
QuietStep ==
  /\ component'.queue = component.queue /\ (Linked' => Linked) /\ (Linked' => Encoded' = Encoded)
  /\ \A t \in Threads : run'[t].pc = "copy" => run[t].pc = "copy" /\ run'[t].part = run[t].part

\* A step that leaves the parts alone keeps their chain.
LEMMA ChainedQuiet == ASSUME Chained, CopyChained, QuietStep PROVE Chained' /\ CopyChained'
<1>1. Arrived' = Arrived /\ \A i : Coming(i)' = Coming(i) BY DEF QuietStep, Arrived, Coming
<1>2. Chained' BY <1>1 DEF Chained, ProperParts, InOrder, EmptyLast, UpTo, QuietStep
<1>3. ASSUME NEW pos, Rest(pos) PROVE Rest(pos)' BY <1>1, <1>3 DEF Rest, QuietStep
<1>4. ASSUME NEW t \in Threads, run'[t].pc = "copy", NEW p, p = run'[t].part
      PROVE  CopyFollows(p)'
  <2>1. run[t].part = p /\ run[t].pc = "copy" BY <1>4 DEF QuietStep
  <2>2. CopyFollows(p) BY <2>1 DEF CopyChained
  <2>3. CASE p = NoPart BY <1>1, <2>2, <2>3 DEF CopyFollows, QuietStep
  <2>4. CASE p # NoPart
    <3>1. Proper(p) /\ Rest(After(p)) BY <2>2, <2>4 DEF CopyFollows
    <3>2. Rest(After(p))' BY <1>3, <3>1
    <3>3. QED BY <2>4, <3>1, <3>2 DEF CopyFollows
  <2>5. QED BY <2>3, <2>4
<1>5. QED BY <1>2, <1>4 DEF CopyChained

\* One more part arrives.
LEMMA PartsArrive == ASSUME TypeInv, Parts, PartArrives PROVE Parts'
<1>1. PICK p \in Part : Fills(p) BY DEF PartArrives
<1>2. PICK h \in Headers : h = Head(vc.held)
  <2>1. vc.held \in Seq(Headers) /\ vc.held # <<>> BY <1>1, QueueLengths DEF Fills
  <2>2. QED BY <2>1, TailLength
<1>3. PICK e \in Entries : e = [header |-> h, part |-> p] BY DEF Entries
<1>4. component'.queue = Append(component.queue, e) /\ e.part = p BY <1>1, <1>2, <1>3 DEF Fills
<1>5. PICK n \in Nat : n = Arrived BY ArrivedIs
<1>6. /\ Arrived' = n + 1 /\ (\A i \in 1 .. n : Coming(i)' = Coming(i)) /\ (\A i : i = n + 1 => Coming(i)' = p)
  BY <1>4, <1>5, QueueAppends
<1>7. /\ p # NoPart /\ Proper(p) /\ Follows(p, Encoded) /\ Encoded' = After(p) /\ Linked
      /\ run' = run /\ offset' = offset /\ board' = board /\ reader' = reader
  BY <1>1 DEF Fills, Linked, PartArrives, pluginVars
<1>8. \A i \in 1 .. n + 1 : Coming(i)' = IF i = n + 1 THEN p ELSE Coming(i) BY <1>6
<1>9. n > 0 => Coming(n) # NoPart /\ After(Coming(n)) = Encoded BY <1>5, <1>7 DEF Parts, Chained, UpTo
<1>10. \A i \in 1 .. n : Coming(i) # NoPart
  <2>1. ASSUME NEW i \in 1 .. n, Coming(i) = NoPart PROVE FALSE
    <3>1. n \in 1 .. n /\ i <= n OBVIOUS
    <3>2. Coming(n) = NoPart BY <1>5, <2>1, <3>1 DEF Parts, Chained, EmptyLast
    <3>3. QED BY <1>9, <3>1, <3>2
  <2>2. QED BY <2>1
<1>11. ProperParts'
  <2>1. \A i \in 1 .. n : Coming(i) = NoPart \/ Proper(Coming(i)) BY <1>5 DEF Parts, Chained, ProperParts
  <2>2. \A i \in 1 .. n + 1 : Coming(i)' = NoPart \/ Proper(Coming(i)') BY <1>7, <1>8, <2>1
  <2>3. QED BY <1>6, <2>2 DEF ProperParts, Proper
<1>12. InOrder'
  <2>1. \A i \in 2 .. n : Coming(i) = NoPart \/ Follows(Coming(i), After(Coming(i - 1)))
    BY <1>5 DEF Parts, Chained, InOrder
  <2>2. ASSUME NEW i \in 2 .. n + 1, NEW j, j = i - 1
        PROVE  Coming(i)' = NoPart \/ Follows(Coming(i)', After(Coming(j)'))
    <3>1. j \in 1 .. n BY <2>2
    <3>2. Coming(j)' = Coming(j) BY <1>6, <3>1
    <3>3. CASE i \in 2 .. n
      <4>1. i \in 1 .. n BY <3>3
      <4>2. Coming(i)' = Coming(i) BY <1>6, <4>1
      <4>3. Coming(i) = NoPart \/ Follows(Coming(i), After(Coming(j))) BY <2>1, <2>2, <3>3
      <4>4. QED BY <3>2, <4>2, <4>3
    <3>4. CASE i = n + 1
      <4>1. j = n /\ n > 0 BY <2>2, <3>1, <3>4
      <4>2. Coming(i)' = p /\ After(Coming(j)) = Encoded BY <1>6, <1>9, <3>4, <4>1
      <4>3. QED BY <1>7, <3>2, <4>2
    <3>5. QED BY <3>3, <3>4
  <2>3. QED BY <1>6, <2>2 DEF InOrder, Follows, After
<1>13. EmptyLast'
  <2>1. \A i \in 1 .. n + 1 : Coming(i)' # NoPart BY <1>7, <1>8, <1>10
  <2>2. QED BY <1>6, <2>1 DEF EmptyLast
<1>14. UpTo'
  <2>1. ASSUME NEW i, i = n + 1 PROVE Coming(i)' = p BY <1>6, <2>1
  <2>2. PICK m : m = n + 1 OBVIOUS
  <2>3. Arrived' = m /\ component'.queue[m].part = p BY <1>6, <2>1, <2>2 DEF Coming
  <2>4. QED BY <1>7, <2>3 DEF UpTo, Coming, After
<1>15. ASSUME NEW pos, Rest(pos) PROVE Rest(pos)'
  <2>1. CASE n = 0
    <3>1. pos = Encoded BY <1>5, <1>7, <1>15, <2>1 DEF Rest
    <3>2. Coming(1)' = p BY <1>6, <2>1
    <3>3. Arrived' > 0 BY <1>6
    <3>4. QED BY <1>7, <3>1, <3>2, <3>3 DEF Rest
  <2>2. CASE n > 0
    <3>1. Coming(1)' = Coming(1) /\ Arrived' > 0 BY <1>6, <2>2
    <3>2. Arrived > 0 BY <1>5, <2>2
    <3>3. QED BY <1>15, <3>1, <3>2 DEF Rest
  <2>3. QED BY <2>1, <2>2
<1>16. CopyChained'
  <2>1. ASSUME NEW t \in Threads, run'[t].pc = "copy", NEW q, q = run'[t].part PROVE CopyFollows(q)'
    <3>1. CopyFollows(q) BY <1>7, <2>1 DEF Parts, CopyChained
    <3>2. q # NoPart BY <1>7, <3>1 DEF CopyFollows
    <3>3. Proper(q) /\ Rest(After(q)) BY <3>1, <3>2 DEF CopyFollows
    <3>4. Rest(After(q))' BY <1>15, <3>3
    <3>5. QED BY <3>2, <3>3, <3>4 DEF CopyFollows
  <2>2. QED BY <2>1 DEF CopyChained
<1>17. RoomLeft'
  <2>1. offset' <= MaxParts BY <1>7 DEF Parts, RoomLeft
  <2>2. \A t \in Threads : run'[t].pc = "copy" /\ run'[t].part # NoPart => offset' < run'[t].part.no
    BY <1>7 DEF Parts, RoomLeft
  <2>3. ASSUME AtRest' PROVE offset' < Coming(1)'.no \/ Coming(1)' = NoPart
    <3>1. AtRest BY <1>7, <2>3 DEF AtRest
    <3>2. CASE n = 0
      <4>1. offset <= vc.part BY <1>5, <1>7, <3>1, <3>2 DEF Parts, RoomLeft
      <4>2. p.no = vc.part + 1 BY <1>7 DEF Follows, Encoded
      <4>3. offset \in Nat /\ vc.part \in Nat BY EncoderNumbers DEF TypeInv, PluginType
      <4>4. offset < p.no BY <4>1, <4>2, <4>3
      <4>5. Coming(1)' = p BY <1>6, <3>2
      <4>6. QED BY <1>7, <4>4, <4>5
    <3>3. CASE n > 0
      <4>1. Coming(1)' = Coming(1) BY <1>6, <3>3
      <4>2. Coming(1) # NoPart => offset < Coming(1).no BY <1>5, <3>1, <3>3 DEF Parts, RoomLeft
      <4>3. QED BY <1>7, <4>1, <4>2
    <3>4. QED BY <3>2, <3>3
  <2>4. Arrived' > 0 /\ ~(Arrived' = 0) BY <1>6
  <2>5. QED BY <2>1, <2>2, <2>3, <2>4 DEF RoomLeft
<1>18. Sizes' BY <1>7 DEF Parts, Sizes
<1>19. QED BY <1>11, <1>12, <1>13, <1>14, <1>16, <1>17, <1>18 DEF Parts, Chained

\* The callback of the first one begins.
LEMMA PartsBegin ==
  ASSUME TypeInv, Parts, NEW t \in Threads, Begins(t), \A u \in Threads : run[u] = Idle,
         UNCHANGED <<port, vc, offset, board, reader>>
  PROVE  Parts'
<1>1. component.queue # <<>> /\ component'.queue = Tail(component.queue) BY DEF Begins
<1>2. PICK n \in Nat : n = Arrived BY ArrivedIs
<1>3. /\ n > 0 /\ Arrived' = n - 1 /\ Head(component.queue).part = Coming(1)
      /\ \A i \in 1 .. n - 1 : Coming(i)' = Coming(i + 1)
  BY <1>1, <1>2, QueueTail
<1>4. PICK p : p = Coming(1) OBVIOUS
<1>5. run'[t].pc = "copy" /\ run'[t].part = p /\ (\A u \in Threads \ {t} : run'[u] = Idle)
  <2>1. PICK e : e = Head(component.queue).header OBVIOUS
  <2>2. run'[t] = [pc |-> "copy", header |-> e, part |-> p, new |-> 0, complete |-> FALSE]
    BY <1>3, <1>4, <2>1 DEF Begins
  <2>3. \A u \in Threads \ {t} : run'[u] = Idle BY DEF Begins
  <2>4. QED BY <2>2, <2>3
<1>6. (Linked' <=> Linked) /\ Encoded' = Encoded BY DEF Linked, Encoded
<1>7. ProperParts'
  <2>1. \A i \in 1 .. n : Coming(i) = NoPart \/ Proper(Coming(i)) BY <1>2 DEF Parts, Chained, ProperParts
  <2>2. ASSUME NEW i \in 1 .. n - 1 PROVE Coming(i)' = NoPart \/ Proper(Coming(i)')
    <3>1. i + 1 \in 1 .. n OBVIOUS
    <3>2. QED BY <1>3, <2>1, <3>1
  <2>3. QED BY <1>3, <2>2 DEF ProperParts, Proper
<1>8. InOrder'
  <2>1. \A i \in 2 .. n : Coming(i) = NoPart \/ Follows(Coming(i), After(Coming(i - 1)))
    BY <1>2 DEF Parts, Chained, InOrder
  <2>2. ASSUME NEW i \in 2 .. n - 1, NEW j, j = i - 1
        PROVE  Coming(i)' = NoPart \/ Follows(Coming(i)', After(Coming(j)'))
    <3>1. i \in 1 .. n - 1 /\ j \in 1 .. n - 1 /\ i + 1 \in 2 .. n /\ j + 1 = i /\ (i + 1) - 1 = i BY <2>2
    <3>2. Coming(i)' = Coming(i + 1) /\ Coming(j)' = Coming(i) BY <1>3, <3>1
    <3>3. Coming(i + 1) = NoPart \/ Follows(Coming(i + 1), After(Coming(i))) BY <2>1, <3>1
    <3>4. QED BY <3>2, <3>3
  <2>3. QED BY <1>3, <2>2 DEF InOrder, Follows, After
<1>9. EmptyLast'
  <2>1. \A i \in 1 .. n, j \in 1 .. n : i <= j /\ Coming(i) = NoPart => Coming(j) = NoPart
    BY <1>2 DEF Parts, Chained, EmptyLast
  <2>2. ASSUME NEW i \in 1 .. n - 1, NEW j \in 1 .. n - 1, i <= j, Coming(i)' = NoPart PROVE Coming(j)' = NoPart
    <3>1. i + 1 \in 1 .. n /\ j + 1 \in 1 .. n /\ i + 1 <= j + 1 BY <2>2
    <3>2. Coming(i + 1) = NoPart BY <1>3, <2>2
    <3>3. Coming(j + 1) = NoPart BY <2>1, <3>1, <3>2
    <3>4. QED BY <1>3, <3>3
  <2>3. QED BY <1>3, <2>2 DEF EmptyLast
<1>10. UpTo'
  <2>1. ASSUME n - 1 > 0, Linked
        PROVE  component'.queue[n - 1].part # NoPart /\ After(component'.queue[n - 1].part) = Encoded
    <3>1. Coming(n) # NoPart /\ After(Coming(n)) = Encoded BY <1>2, <1>3, <2>1 DEF Parts, Chained, UpTo
    <3>2. n - 1 \in 1 .. n - 1 /\ (n - 1) + 1 = n BY <2>1
    <3>3. \A i \in 1 .. n - 1 : component'.queue[i].part = Coming(i + 1) BY <1>3 DEF Coming
    <3>4. component'.queue[n - 1].part = Coming(n) BY <3>2, <3>3
    <3>5. QED BY <3>1, <3>4
  <2>2. QED BY <1>3, <1>6, <2>1 DEF UpTo, Coming, After
<1>11. CopyFollows(p)'
  <2>1. CASE p = NoPart
    <3>1. \A j \in 1 .. n : Coming(j) = NoPart
      <4>1. ASSUME NEW j \in 1 .. n PROVE Coming(j) = NoPart
        <5>1. 1 \in 1 .. n /\ 1 <= j BY <1>3
        <5>2. QED BY <1>2, <1>4, <2>1, <5>1 DEF Parts, Chained, EmptyLast
      <4>2. QED BY <4>1
    <3>2. n \in 1 .. n BY <1>3
    <3>3. ~Linked BY <1>2, <1>3, <3>1, <3>2 DEF Parts, Chained, UpTo
    <3>4. n - 1 > 0 => Coming(1)' = NoPart
      <4>1. n - 1 > 0 => 1 \in 1 .. n - 1 /\ 1 + 1 \in 1 .. n OBVIOUS
      <4>2. QED BY <1>3, <3>1, <4>1
    <3>5. QED BY <1>3, <1>6, <2>1, <3>3, <3>4 DEF CopyFollows
  <2>2. CASE p # NoPart
    <3>1. 1 \in 1 .. n BY <1>3
    <3>2. Proper(p) BY <1>2, <1>4, <2>2, <3>1 DEF Parts, Chained, ProperParts
    <3>3. CASE n = 1
      <4>1. Linked => After(p) = Encoded BY <1>2, <1>3, <1>4, <3>3 DEF Parts, Chained, UpTo
      <4>2. Arrived' = 0 BY <1>3, <3>3
      <4>3. Rest(After(p))' BY <1>6, <4>1, <4>2 DEF Rest
      <4>4. QED BY <2>2, <3>2, <4>3 DEF CopyFollows
    <3>4. CASE n > 1
      <4>1. 1 \in 1 .. n - 1 /\ 2 \in 2 .. n /\ 1 + 1 = 2 /\ 2 - 1 = 1 BY <3>4
      <4>2. Coming(1)' = Coming(2) BY <1>3, <4>1
      <4>3. Coming(2) = NoPart \/ Follows(Coming(2), After(Coming(1))) BY <1>2, <4>1 DEF Parts, Chained, InOrder
      <4>4. Arrived' > 0 BY <1>3, <3>4
      <4>5. Rest(After(p))' BY <1>4, <4>2, <4>3, <4>4 DEF Rest
      <4>6. QED BY <2>2, <3>2, <4>5 DEF CopyFollows
    <3>5. QED BY <1>3, <3>3, <3>4
  <2>3. QED BY <2>1, <2>2
<1>12. CopyChained'
  <2>1. ASSUME NEW u \in Threads, run'[u].pc = "copy", NEW q, q = run'[u].part PROVE CopyFollows(q)'
    BY <1>5, <1>11, <2>1, IdleIs
  <2>2. QED BY <2>1 DEF CopyChained
<1>13. RoomLeft'
  <2>1. AtRest BY IdleIs DEF AtRest
  <2>2. p # NoPart => offset < p.no BY <1>2, <1>3, <1>4, <2>1 DEF Parts, RoomLeft
  <2>3. \A u \in Threads : run'[u].pc = "copy" /\ run'[u].part # NoPart => offset' < run'[u].part.no
    BY <1>5, <2>2, IdleIs
  <2>4. ~AtRest' BY <1>5 DEF AtRest
  <2>5. offset' <= MaxParts BY DEF Parts, RoomLeft
  <2>6. QED BY <2>3, <2>4, <2>5 DEF RoomLeft
<1>14. Sizes' BY DEF Parts, Sizes
<1>15. QED BY <1>7, <1>8, <1>9, <1>10, <1>12, <1>13, <1>14 DEF Parts, Chained

\* The headers that are given back come last, and are empty.
LEMMA PartsGivenBack ==
  ASSUME TypeInv, Control, Parts, PortDisabled, component'.queue = component.queue \o Emptied(vc.held),
         vc'.held = <<>>
  PROVE  Parts'
<1>1. PICK n \in Nat : n = Arrived BY ArrivedIs
<1>2. PICK m : m = Arrived' OBVIOUS
<1>3. /\ m \in Nat /\ m >= n /\ (\A i \in 1 .. n : Coming(i)' = Coming(i))
      /\ \A i \in 1 .. m : i > n => Coming(i)' = NoPart
  BY <1>1, <1>2, QueueEmptied
<1>4. run' = run /\ offset' = offset /\ board' = board /\ reader' = reader /\ ~Linked'
  BY DEF PortDisabled, Linked
<1>5. \A t \in Threads : run[t] = Idle
  <2>1. component.owner = "worker" BY DEF Control, Acting, PortDisabled
  <2>2. run["worker"] = Idle BY DEF Control, Acting, PortDisabled
  <2>3. QED BY <2>1, <2>2, OneBusy
<1>6. ProperParts'
  <2>1. \A i \in 1 .. n : Coming(i) = NoPart \/ Proper(Coming(i)) BY <1>1 DEF Parts, Chained, ProperParts
  <2>2. ASSUME NEW i \in 1 .. m PROVE Coming(i)' = NoPart \/ Proper(Coming(i)')
    <3>1. CASE i > n BY <1>3, <3>1
    <3>2. CASE ~(i > n)
      <4>1. i \in 1 .. n BY <1>3, <3>2
      <4>2. QED BY <1>3, <2>1, <4>1
    <3>3. QED BY <3>1, <3>2
  <2>3. QED BY <1>2, <2>2 DEF ProperParts, Proper
<1>7. InOrder'
  <2>1. \A i \in 2 .. n : Coming(i) = NoPart \/ Follows(Coming(i), After(Coming(i - 1)))
    BY <1>1 DEF Parts, Chained, InOrder
  <2>2. ASSUME NEW i \in 2 .. m, NEW j, j = i - 1
        PROVE  Coming(i)' = NoPart \/ Follows(Coming(i)', After(Coming(j)'))
    <3>1. CASE i > n
      <4>1. i \in 1 .. m OBVIOUS
      <4>2. QED BY <1>3, <3>1, <4>1
    <3>2. CASE ~(i > n)
      <4>1. i \in 1 .. n /\ i \in 2 .. n /\ j \in 1 .. n BY <1>3, <2>2, <3>2
      <4>2. Coming(i)' = Coming(i) /\ Coming(j)' = Coming(j) BY <1>3, <4>1
      <4>3. QED BY <2>1, <2>2, <4>1, <4>2
    <3>3. QED BY <3>1, <3>2
  <2>3. QED BY <1>2, <2>2 DEF InOrder, Follows, After
<1>8. EmptyLast'
  <2>1. \A i \in 1 .. n, j \in 1 .. n : i <= j /\ Coming(i) = NoPart => Coming(j) = NoPart
    BY <1>1 DEF Parts, Chained, EmptyLast
  <2>2. ASSUME NEW i \in 1 .. m, NEW j \in 1 .. m, i <= j, Coming(i)' = NoPart PROVE Coming(j)' = NoPart
    <3>1. CASE j > n BY <1>3, <3>1
    <3>2. CASE ~(j > n)
      <4>1. i \in 1 .. n /\ j \in 1 .. n BY <1>3, <2>2, <3>2
      <4>2. QED BY <1>3, <2>1, <2>2, <4>1
    <3>3. QED BY <3>1, <3>2
  <2>3. QED BY <1>2, <2>2 DEF EmptyLast
<1>9. UpTo' BY <1>4 DEF UpTo
<1>10. CopyChained' BY <1>4, <1>5, IdleIs DEF CopyChained
<1>11. RoomLeft'
  <2>1. AtRest BY <1>5, IdleIs DEF AtRest
  <2>2. n > 0 /\ Coming(1) # NoPart => offset < Coming(1).no BY <1>1, <2>1 DEF Parts, RoomLeft
  <2>3. m > 0 /\ Coming(1)' # NoPart => offset' < Coming(1)'.no
    <3>1. ASSUME m > 0, Coming(1)' # NoPart PROVE offset' < Coming(1)'.no
      <4>1. 1 \in 1 .. m BY <1>3, <3>1
      <4>2. ~(1 > n) BY <1>3, <3>1, <4>1
      <4>3. 1 \in 1 .. n /\ n > 0 BY <4>2
      <4>4. Coming(1)' = Coming(1) BY <1>3, <4>3
      <4>5. QED BY <1>4, <2>2, <3>1, <4>3, <4>4
    <3>2. QED BY <3>1
  <2>4. \A t \in Threads : run'[t].pc # "copy" BY <1>4, <1>5, IdleIs
  <2>5. offset' <= MaxParts BY <1>4 DEF Parts, RoomLeft
  <2>6. QED BY <1>2, <1>4, <2>3, <2>4, <2>5 DEF RoomLeft
<1>12. Sizes' BY <1>4 DEF Parts, Sizes
<1>13. QED BY <1>6, <1>7, <1>8, <1>9, <1>10, <1>11, <1>12 DEF Parts, Chained

\* A step that copies nothing keeps the room that is left.
LEMMA RoomQuiet ==
  ASSUME RoomLeft, QuietStep, offset' = offset,
         \A t \in Threads : run[t].pc \in {"copy", "end"} => run'[t].pc \in {"copy", "end"}
  PROVE  RoomLeft'
<1>1. Arrived' = Arrived /\ \A i : Coming(i)' = Coming(i) BY DEF QuietStep, Arrived, Coming
<1>2. Linked' => Linked /\ vc'.part = vc.part BY DEF QuietStep, Encoded
<1>3. AtRest' => AtRest BY DEF AtRest
<1>4. \A t \in Threads : run'[t].pc = "copy" => run[t].pc = "copy" /\ run'[t].part = run[t].part BY DEF QuietStep
<1>5. Coming(1)' = Coming(1) BY <1>1
<1>6. QED BY <1>1, <1>2, <1>3, <1>4, <1>5 DEF RoomLeft

\* Callbacks keep the queue, and where the encoder is.
LEMMA QuietCallback == ASSUME NEW t \in Threads, InCallback(t) PROVE QuietStep
<1>1. component'.queue = component.queue
  BY DEF InCallback, Copies, Completes, Returns, Gets, Refills, Finishes
<1>2. (Linked' => Linked) /\ Encoded' = Encoded
  <2>1. CASE Refills(t) BY <2>1 DEF Refills, Given, PortKept, EncoderKept, Linked, Encoded
  <2>2. CASE ~Refills(t)
    <3>1. vc' = vc /\ port'.contexts = port.contexts
      BY <2>2 DEF InCallback, Copies, Completes, Returns, Gets, Finishes, PortKept
    <3>2. QED BY <3>1 DEF Linked, Encoded
  <2>3. QED BY <2>1, <2>2
<1>3. run'[t].pc # "copy"
  <2>1. CASE Copies(t)
    <3>1. PICK pc \in {"end", "release"} : run'[t] = At(t, pc) BY <2>1 DEF Copies, Goes
    <3>2. QED BY <3>1 DEF At
  <2>2. CASE Completes(t) BY <2>2 DEF Completes, Goes
  <2>3. CASE Returns(t)
    <3>1. PICK pc \in {"get", "done"} : run'[t] = At(t, pc) BY <2>3 DEF Returns, Goes
    <3>2. QED BY <3>1 DEF At
  <2>4. CASE Gets(t)
    <3>1. CASE run'[t] = At(t, "done") BY <3>1 DEF At
    <3>2. CASE Takes /\ run'[t] = [pc |-> "send", header |-> run[t].header, part |-> run[t].part,
                                   new |-> Head(pool.queue), complete |-> run[t].complete]
      <4>1. PICK h : h = Head(pool.queue) OBVIOUS
      <4>2. PICK r : r = [pc |-> "send", header |-> run[t].header, part |-> run[t].part, new |-> h,
                          complete |-> run[t].complete]
        OBVIOUS
      <4>3. run'[t] = r /\ r.pc = "send" BY <3>2, <4>1, <4>2
      <4>4. QED BY <4>3
    <3>3. QED BY <2>4, <3>1, <3>2 DEF Gets, Goes
  <2>5. CASE Refills(t) BY <2>5 DEF Refills, Goes
  <2>6. CASE Finishes(t) BY <2>6, IdleIs DEF Finishes, Goes
  <2>7. QED BY <2>1, <2>2, <2>3, <2>4, <2>5, <2>6 DEF InCallback
<1>4. \A u \in Threads \ {t} : run'[u] = run[u] BY StaysBusy
<1>5. QED BY <1>1, <1>2, <1>3, <1>4 DEF QuietStep

\* A callback keeps the chain of the parts and the room in the buffer.
LEMMA PartsCallback == ASSUME TypeInv, Control, Parts, NEW t \in Threads, InCallback(t) PROVE Parts'
<1>1. QuietStep BY QuietCallback
<1>2. Chained' /\ CopyChained' BY <1>1, ChainedQuiet DEF Parts
<1>3. run[t] # Idle /\ \A u \in Threads \ {t} : run'[u] = run[u] /\ run[u] = Idle
  BY StaysBusy, OneBusy
<1>4. MaxParts \in Nat /\ offset \in Nat /\ MaxParts > 0 BY EncoderNumbers DEF TypeInv, PluginType
<1>n. Arrived' = Arrived /\ Coming(1)' = Coming(1) BY <1>1 DEF QuietStep, Arrived, Coming
<1>5. CASE Copies(t)
  <2>1. PICK p \in Part : p = run[t].part BY DEF TypeInv, MmalType, Runs
  <2>2. /\ run[t].pc = "copy"
        /\ (offset' = offset + 1 /\ p.data) \/ (offset' = offset /\ ~p.data)
        /\ board'.size = board.size /\ reader' = reader /\ vc' = vc /\ port' = port
        /\ run'[t] = At(t, IF p.last \/ p.aborted THEN "end" ELSE "release")
    BY <1>5, <2>1 DEF Copies, Goes
  <2>3. CopyFollows(p) /\ (p # NoPart => offset < p.no) BY <2>1, <2>2 DEF Parts, CopyChained, RoomLeft
  <2>4. p.no \in Nat /\ (p # NoPart => Proper(p) /\ offset' <= p.no /\ p.no <= MaxParts)
    <3>1. p.no \in 0 .. MaxParts BY DEF Part
    <3>2. QED BY <1>4, <2>2, <2>3, <3>1 DEF CopyFollows, Proper
  <2>5. p = NoPart => offset' = offset BY <2>2 DEF NoPart
  <2>6. offset' <= MaxParts
    <3>1. offset <= MaxParts BY DEF Parts, RoomLeft
    <3>2. offset' \in Nat BY <1>4, <2>2
    <3>3. QED BY <1>4, <2>4, <2>5, <3>1, <3>2
  <2>7. CASE p.last \/ p.aborted
    <3>1. run'[t].pc = "end" BY <2>2, <2>7 DEF At
    <3>2. ~AtRest' BY <3>1 DEF AtRest
    <3>3. \A u \in Threads : run'[u].pc # "copy" BY <1>3, <3>1, IdleIs
    <3>4. RoomLeft' BY <2>6, <3>2, <3>3 DEF RoomLeft
    <3>5. Sizes' BY <2>2 DEF Parts, Sizes
    <3>6. QED BY <1>2, <3>4, <3>5 DEF Parts
  <2>8. CASE ~(p.last \/ p.aborted)
    <3>1. run'[t].pc = "release" BY <2>2, <2>8 DEF At
    <3>2. \A u \in Threads : run'[u].pc # "copy" BY <1>3, <3>1, IdleIs
    <3>3. CASE p = NoPart
      <4>1. ~Linked /\ (Arrived > 0 => Coming(1) = NoPart) BY <2>3, <3>3 DEF CopyFollows
      <4>2. ~Linked' BY <1>1, <4>1 DEF QuietStep
      <4>3. RoomLeft' BY <1>n, <2>6, <3>2, <4>1, <4>2 DEF RoomLeft
      <4>4. Sizes' BY <2>2 DEF Parts, Sizes
      <4>5. QED BY <1>2, <4>3, <4>4 DEF Parts
    <3>4. CASE p # NoPart
      <4>1. Rest(After(p)) BY <2>3, <3>4 DEF CopyFollows
      <4>2. Arrived > 0 => Coming(1) = NoPart \/ Coming(1).no = p.no + 1
        BY <2>4, <2>8, <3>4, <4>1 DEF Rest, Follows, After
      <4>3. Arrived = 0 /\ Linked => vc.part = p.no BY <2>8, <4>1 DEF Rest, After, Encoded
      <4>4. offset' <= p.no /\ offset' \in Nat BY <1>4, <2>2, <2>4, <3>4
      <4>5. Arrived' > 0 /\ Coming(1)' # NoPart => offset' < Coming(1)'.no BY <1>n, <2>4, <4>2, <4>4
      <4>6. Arrived' = 0 /\ Linked' => offset' <= vc'.part BY <1>n, <1>1, <2>2, <4>3, <4>4 DEF QuietStep
      <4>7. RoomLeft' BY <2>6, <3>2, <4>5, <4>6 DEF RoomLeft
      <4>8. Sizes' BY <2>2 DEF Parts, Sizes
      <4>9. QED BY <1>2, <4>7, <4>8 DEF Parts
    <3>5. QED BY <3>3, <3>4
  <2>9. QED BY <2>7, <2>8
<1>6. CASE Completes(t)
  <2>1. /\ offset' = 0 /\ board'.size = offset /\ reader'.size = reader.size /\ run'[t].pc = "release"
        /\ vc' = vc
    BY <1>6 DEF Completes, Goes
  <2>2. \A u \in Threads : run'[u].pc # "copy" BY <1>3, <2>1, IdleIs
  <2>3. Arrived > 0 /\ Coming(1) # NoPart => 0 < Coming(1).no
    <3>1. ASSUME Arrived > 0, Coming(1) # NoPart PROVE 0 < Coming(1).no
      <4>1. 1 \in 1 .. Arrived BY <3>1, ArrivedIs
      <4>2. Proper(Coming(1)) BY <3>1, <4>1 DEF Parts, Chained, ProperParts
      <4>3. QED BY <4>2 DEF Proper
    <3>2. QED BY <3>1
  <2>4. vc.part \in Nat BY EncoderNumbers
  <2>5. RoomLeft' BY <1>4, <1>n, <2>1, <2>2, <2>3, <2>4 DEF RoomLeft
  <2>6. Sizes' BY <2>1 DEF Parts, Sizes, RoomLeft
  <2>7. QED BY <1>2, <2>5, <2>6 DEF Parts
<1>7. CASE Returns(t) \/ Gets(t) \/ Refills(t) \/ Finishes(t)
  <2>1. offset' = offset /\ board' = board /\ reader' = reader /\ run[t].pc \notin {"copy", "end"}
    BY <1>7 DEF Returns, Gets, Refills, Finishes, pluginVars
  <2>2. \A u \in Threads : run[u].pc \in {"copy", "end"} => run'[u].pc \in {"copy", "end"} BY <1>3, <2>1
  <2>3. RoomLeft' BY <1>1, <2>1, <2>2, RoomQuiet DEF Parts
  <2>4. Sizes' BY <2>1 DEF Parts, Sizes
  <2>5. QED BY <1>2, <2>3, <2>4 DEF Parts
<1>8. QED BY <1>5, <1>6, <1>7 DEF InCallback

\* Nothing was on its way before the port is enabled.
LEMMA PartsEnabled == ASSUME TypeInv, Control, Parts, PortEnabled PROVE Parts'
<1>1. Unopened BY DEF Control, Staged, PortEnabled, Opening
<1>2. /\ component'.queue = <<>> /\ run' = run /\ vc' = vc /\ offset' = 0 /\ board' = board /\ reader' = reader
      /\ vc.part = 0
  BY <1>1 DEF PortEnabled, Unopened
<1>3. Arrived' = 0 BY <1>2 DEF Arrived
<1>4. \A t \in Threads : run'[t].pc = "idle" BY <1>1, <1>2, IdleIs DEF Unopened
<1>5. Chained' BY <1>3 DEF Chained, ProperParts, InOrder, EmptyLast, UpTo
<1>6. CopyChained' BY <1>4 DEF CopyChained
<1>7. RoomLeft' BY <1>2, <1>3, <1>4, EncoderNumbers DEF RoomLeft
<1>8. Sizes' BY <1>2 DEF Parts, Sizes
<1>9. QED BY <1>5, <1>6, <1>7, <1>8 DEF Parts

\* Steps of the worker that leave the queue alone.
LEMMA QuietWorker ==
  ASSUME Opens \/ Shoots \/ Closes, ~PortEnabled, ~Drained,
         ~(PortDisabled /\ component'.queue = component.queue \o Emptied(vc.held) /\ vc'.held = <<>>)
  PROVE  QuietStep /\ run' = run /\ offset' = offset /\ board'.size = board.size /\ reader' = reader
<1>1. run' = run BY WorkerRuns
<1>2. offset' = offset /\ board'.size = board.size /\ reader' = reader
  BY DEF Opens, Shoots, Closes, SetsUp, PoolMade, Connected, PortEnabled, Decided, Counted, HeaderTaken,
         HeaderGiven, Captured, Awaited, SemaphoreDeleted, SendingStopped, ActionLocked, PortDisabled,
         Unlocked, TransitAwaited, PoolFreed, ComponentsGone, BufferFreed
<1>3. component'.queue = component.queue /\ (Linked' => Linked) /\ Encoded' = Encoded
  <2>1. CASE Opens BY <2>1 DEF Opens, SetsUp, PoolMade, Connected, mmalVars, Linked, Encoded, EncoderKept
  <2>2. CASE HeaderGiven
    BY <2>2 DEF HeaderGiven, Given, PortKept, EncoderKept, Linked, Encoded
  <2>3. CASE Shoots /\ ~HeaderGiven
    BY <2>3 DEF Shoots, Decided, Counted, HeaderTaken, Captured, Awaited, mmalVars, Linked, Encoded
  <2>4. CASE PortDisabled BY <2>4 DEF PortDisabled, Linked, Encoded
  <2>5. CASE Closes /\ ~PortDisabled
    BY <2>5 DEF Closes, SemaphoreDeleted, SendingStopped, ActionLocked, Unlocked, TransitAwaited, PoolFreed,
         ComponentsGone, BufferFreed, mmalVars, Linked, Encoded
  <2>6. QED BY <2>1, <2>2, <2>3, <2>4, <2>5
<1>4. QED BY <1>1, <1>2, <1>3 DEF QuietStep

\* A step that leaves the parts alone keeps Parts.
LEMMA PartsQuiet ==
  ASSUME Parts, QuietStep, run' = run, offset' = offset, board'.size = board.size,
         reader'.size = reader.size \/ reader'.size = board.size
  PROVE  Parts'
<1>1. Chained' /\ CopyChained' BY ChainedQuiet DEF Parts
<1>2. RoomLeft' BY RoomQuiet DEF Parts
<1>3. Sizes' BY DEF Parts, Sizes
<1>4. QED BY <1>1, <1>2, <1>3 DEF Parts

\* Whatever is done, Parts is kept.
LEMMA PartsKept == ASSUME TypeInv, Control, Parts, Does PROVE Parts'
<1>1. CASE PartArrives BY <1>1, PartsArrive
<1>2. CASE ActionBegins
  <2>1. Begins("action") /\ UNCHANGED <<port, vc, offset, board, reader>> BY <1>2 DEF ActionBegins, pluginVars
  <2>2. QED BY <1>2, <2>1, BeginsAlone, PartsBegin, ThreadsAre
<1>3. ASSUME NEW t \in Threads, InCallback(t) PROVE Parts' BY <1>3, PartsCallback
<1>4. CASE PortEnabled BY <1>4, PartsEnabled
<1>5. CASE Drained
  <2>1. Begins("worker") /\ UNCHANGED <<port, vc, offset, board, reader>> BY <1>5 DEF Drained
  <2>2. QED BY <1>5, <2>1, BeginsAlone, PartsBegin, ThreadsAre
<1>6. CASE PortDisabled /\ component'.queue = component.queue \o Emptied(vc.held) /\ vc'.held = <<>>
  BY <1>6, PartsGivenBack
<1>7. CASE /\ Opens \/ Shoots \/ Closes
           /\ ~PortEnabled /\ ~Drained
           /\ ~(PortDisabled /\ component'.queue = component.queue \o Emptied(vc.held) /\ vc'.held = <<>>)
  BY <1>7, QuietWorker, PartsQuiet
<1>8. CASE Reading \/ Stops
  <2>1. /\ component' = component /\ port' = port /\ vc' = vc /\ run' = run /\ offset' = offset
        /\ board'.size = board.size /\ reader'.size \in {reader.size, board.size}
    BY <1>8 DEF Reading, Waits, Locks, TakesCopy, Stops, ReaderSame, mmalVars
  <2>2. QuietStep BY <2>1 DEF QuietStep, Linked, Encoded
  <2>3. QED BY <2>1, <2>2, PartsQuiet
<1>9. QED BY <1>1, <1>2, <1>3, <1>4, <1>5, <1>6, <1>7, <1>8 DEF Does

\* In the beginning no part is on its way.
LEMMA FirstParts == ASSUME Init PROVE Parts
<1>1. /\ component.queue = <<>> /\ ~port.contexts /\ vc.held = <<>> /\ run = [t \in Threads |-> Idle]
  BY DEF Init, MmalInit
<1>2. offset = 0 /\ board.size = 0 /\ reader.size = 0 BY DEF Init
<1>3. Arrived = 0 /\ ~Linked BY <1>1 DEF Arrived, Linked
<1>4. \A t \in Threads : run[t].pc = "idle" BY <1>1, IdleIs
<1>5. Chained BY <1>3 DEF Chained, ProperParts, InOrder, EmptyLast, UpTo
<1>6. CopyChained BY <1>4 DEF CopyChained
<1>7. MaxParts \in Nat BY MmalAssumption
<1>8. RoomLeft BY <1>2, <1>3, <1>4, <1>7 DEF RoomLeft
<1>9. Sizes BY <1>2, <1>7 DEF Sizes
<1>10. QED BY <1>5, <1>6, <1>8, <1>9 DEF Parts

-----------------------------------------------------------------------------
(* The picture in the global buffer, as long as no transfer has failed.    *)

Copied == <<board.buf[1].frame, offset>>
Prefix(n) == \A i \in 1 .. n : board.buf[i].no = i /\ board.buf[i].frame = board.buf[1].frame
Bounded(n, m) == \A i \in 1 .. n : board.buf[i].last <=> i = m
AllSent == \A i \in 1 .. Arrived : Sent(Coming(i))
CopyOrdered ==
  \A t \in Threads : run[t].pc = "copy" => Sent(run[t].part) /\ (run[t].part # NoPart => Follows(run[t].part, Copied))
EndOrdered ==
  /\ \A t \in Threads : run[t].pc = "end" =>
       offset > 0 /\ Rest(<<board.buf[1].frame, 0>>) /\ Bounded(offset, offset)
  /\ (\A t \in Threads : run[t].pc # "end") => Bounded(offset, 0)
BoardOrdered ==
  /\ Prefix(offset)
  /\ offset > 0 <=> board.owner = "callback"
  /\ offset = 0 => Prefix(board.size) /\ Bounded(board.size, board.size)
Ordered == AllSent /\ CopyOrdered /\ EndOrdered /\ (AtRest => Rest(Copied)) /\ BoardOrdered

\* What the output plugin has read is older than the picture that it will read,
\* or, when waits may return unasked, that picture.
Reads ==
  /\ reader.pc = "copy" <=> board.owner = "reader"
  /\ reader.pc = "copy" => reader.size = board.size
  /\ reader.pc \in {"woken", "copy"} => board.size > 0 \/ "wakeup" \in mayFail
  /\ reader.got # <<>> =>
       /\ board.size > 0
       /\ reader.got[1].frame \in Nat /\ reader.got[1].frame <= board.buf[1].frame
       /\ offset > 0 => reader.got[1].frame < board.buf[1].frame
       /\ reader.pc \in {"woken", "copy"} =>
            reader.got[1].frame < board.buf[1].frame \/ "wakeup" \in mayFail
WholeInv == "transfer" \notin failed => Ordered /\ Reads

\* What the invariants say of the buffer and of the offset in it.
LEMMA BoardIs ==
  ASSUME TypeInv, Parts
  PROVE  /\ offset \in Nat /\ board.size \in Nat /\ MaxParts \in Nat /\ offset <= MaxParts /\ board.size <= MaxParts
         /\ board.buf \in [1 .. MaxParts -> Part] /\ 1 \in 1 .. MaxParts /\ board.buf[1].frame \in Nat
         /\ board.owner \in {"none", "callback", "reader"}
<1>1. offset \in Nat /\ board.size \in Nat /\ board.buf \in [1 .. MaxParts -> Part]
      /\ board.owner \in {"none", "callback", "reader"}
  BY DEF TypeInv, PluginType, BoardsOf, Buffers, Lockers
<1>2. MaxParts \in Nat /\ 1 \in 1 .. MaxParts BY EncoderNumbers
<1>3. board.buf[1].frame \in Nat
  <2>1. board.buf[1] \in Part BY <1>1, <1>2
  <2>2. MaxFrames \in Nat BY EncoderNumbers
  <2>3. QED BY <2>1, <2>2 DEF Part
<1>4. QED BY <1>1, <1>2, <1>3 DEF Parts, RoomLeft, Sizes

\* What comes next after a place stays so, in steps that leave the queue alone and
\* when a part arrives.
LEMMA RestQuiet == ASSUME QuietStep, NEW pos, Rest(pos) PROVE Rest(pos)'
<1>1. Arrived' = Arrived /\ \A i : Coming(i)' = Coming(i) BY DEF QuietStep, Arrived, Coming
<1>2. QED BY <1>1 DEF Rest, QuietStep

\* A part that arrives comes last.
LEMMA QueueArrives ==
  ASSUME TypeInv, NEW p \in Part, Fills(p)
  PROVE  /\ Arrived' = Arrived + 1 /\ (\A i \in 1 .. Arrived : Coming(i)' = Coming(i))
         /\ \A i : i = Arrived + 1 => Coming(i)' = p
<1>1. PICK h \in Headers : h = Head(vc.held)
  <2>1. vc.held \in Seq(Headers) /\ vc.held # <<>> BY QueueLengths DEF Fills
  <2>2. QED BY <2>1, TailLength
<1>2. PICK e \in Entries : e = [header |-> h, part |-> p] BY DEF Entries
<1>3. component'.queue = Append(component.queue, e) /\ e.part = p BY <1>1, <1>2 DEF Fills
<1>4. QED BY <1>3, QueueAppends

\* It does not change which part comes next.
LEMMA RestArrives == ASSUME TypeInv, NEW p \in Part, Fills(p), NEW pos, Rest(pos) PROVE Rest(pos)'
<1>1. PICK n \in Nat : n = Arrived BY ArrivedIs
<1>2. /\ Arrived' = n + 1 /\ (\A i \in 1 .. n : Coming(i)' = Coming(i)) /\ (\A i : i = n + 1 => Coming(i)' = p)
  BY <1>1, QueueArrives
<1>3. Follows(p, Encoded) /\ Linked BY DEF Fills, Linked
<1>4. CASE n = 0
  <2>1. pos = Encoded BY <1>1, <1>3, <1>4 DEF Rest
  <2>2. Coming(1)' = p BY <1>2, <1>4
  <2>3. Arrived' > 0 BY <1>2
  <2>4. QED BY <1>3, <2>1, <2>2, <2>3 DEF Rest
<1>5. CASE n > 0
  <2>1. Coming(1)' = Coming(1) /\ Arrived' > 0 BY <1>2, <1>5
  <2>2. Arrived > 0 BY <1>1, <1>5
  <2>3. QED BY <2>1, <2>2 DEF Rest
<1>6. QED BY <1>4, <1>5

\* Steps that do nothing with the picture.
SamePicture ==
  offset' = offset /\ board'.buf = board.buf /\ board'.size = board.size
SameCallbacks ==
  \A t \in Threads : (run'[t].pc = "copy" <=> run[t].pc = "copy") /\ (run'[t].pc = "end" <=> run[t].pc = "end")

\* A step that leaves the picture and the parts alone keeps Ordered.
LEMMA OrderedQuiet ==
  ASSUME Ordered, QuietStep, SamePicture, SameCallbacks, board'.owner = "callback" <=> board.owner = "callback"
  PROVE  Ordered'
<1>1. Arrived' = Arrived /\ \A i : Coming(i)' = Coming(i) BY DEF QuietStep, Arrived, Coming
<1>2. AllSent' BY <1>1 DEF Ordered, AllSent, Sent
<1>3. Copied' = Copied BY DEF SamePicture, Copied
<1>4. CopyOrdered'
  <2>1. ASSUME NEW t \in Threads, run'[t].pc = "copy", NEW p, p = run'[t].part
        PROVE  Sent(p) /\ (p # NoPart => Follows(p, Copied'))
    <3>1. run[t].pc = "copy" /\ run[t].part = p BY <2>1 DEF QuietStep
    <3>2. QED BY <1>3, <3>1 DEF Ordered, CopyOrdered
  <2>2. QED BY <2>1 DEF CopyOrdered, Sent, Follows
<1>5. EndOrdered'
  <2>1. ASSUME Rest(<<board.buf[1].frame, 0>>) PROVE Rest(<<board.buf[1].frame, 0>>)'
    <3>1. PICK pos : pos = <<board.buf[1].frame, 0>> OBVIOUS
    <3>2. Rest(pos)' BY <2>1, <3>1, RestQuiet
    <3>3. <<board.buf[1].frame, 0>>' = pos BY <3>1 DEF SamePicture
    <3>4. QED BY <3>2, <3>3 DEF Rest
  <2>2. QED BY <2>1 DEF Ordered, EndOrdered, Bounded, SamePicture, SameCallbacks
<1>6. AtRest' => Rest(Copied)'
  <2>1. ASSUME AtRest' PROVE Rest(Copied)'
    <3>1. AtRest BY <2>1 DEF AtRest, SameCallbacks
    <3>2. PICK pos : pos = Copied OBVIOUS
    <3>3. Rest(pos)' BY <3>1, <3>2, RestQuiet DEF Ordered
    <3>4. QED BY <1>3, <3>2, <3>3 DEF Rest
  <2>2. QED BY <2>1
<1>7. BoardOrdered' BY DEF Ordered, BoardOrdered, Prefix, Bounded, SamePicture
<1>8. QED BY <1>2, <1>4, <1>5, <1>6, <1>7 DEF Ordered

\* A part that arrives follows on from those that are there.
LEMMA OrderedArrive == ASSUME TypeInv, Ordered, PartArrives, "transfer" \notin failed' PROVE Ordered'
<1>1. PICK p \in Part : Fills(p) BY DEF PartArrives
<1>2. run' = run /\ offset' = offset /\ board' = board /\ Sent(p) BY <1>1 DEF Fills, PartArrives, pluginVars
<1>3. \A pos : Rest(pos) => Rest(pos)' BY <1>1, RestArrives
<1>4. AllSent'
  <2>1. PICK n \in Nat : n = Arrived BY ArrivedIs
  <2>2. /\ Arrived' = n + 1 /\ (\A i \in 1 .. n : Coming(i)' = Coming(i)) /\ (\A i : i = n + 1 => Coming(i)' = p)
    BY <1>1, <2>1, QueueArrives
  <2>3. ASSUME NEW i \in 1 .. n + 1 PROVE Sent(Coming(i)')
    <3>1. CASE i = n + 1 BY <1>2, <2>2, <3>1
    <3>2. CASE i # n + 1
      <4>1. i \in 1 .. n BY <3>2
      <4>2. QED BY <2>1, <2>2, <4>1 DEF Ordered, AllSent
    <3>3. QED BY <3>1, <3>2
  <2>4. QED BY <2>2, <2>3 DEF AllSent, Sent
<1>5. CopyOrdered' BY <1>2 DEF Ordered, CopyOrdered, Copied, Sent, Follows
<1>6. EndOrdered'
  <2>1. ASSUME Rest(<<board.buf[1].frame, 0>>) PROVE Rest(<<board.buf[1].frame, 0>>)'
    <3>1. PICK pos : pos = <<board.buf[1].frame, 0>> OBVIOUS
    <3>2. Rest(pos)' BY <1>3, <2>1, <3>1
    <3>3. <<board.buf[1].frame, 0>>' = pos BY <1>2, <3>1
    <3>4. QED BY <3>2, <3>3 DEF Rest
  <2>2. QED BY <1>2, <2>1 DEF Ordered, EndOrdered, Bounded
<1>7. AtRest' => Rest(Copied)'
  <2>1. ASSUME AtRest' PROVE Rest(Copied)'
    <3>1. AtRest BY <1>2, <2>1 DEF AtRest
    <3>2. PICK pos : pos = Copied OBVIOUS
    <3>3. Rest(pos)' BY <1>3, <3>1, <3>2 DEF Ordered
    <3>4. Copied' = pos BY <1>2, <3>2 DEF Copied
    <3>5. QED BY <3>3, <3>4 DEF Rest
  <2>2. QED BY <2>1
<1>8. BoardOrdered' BY <1>2 DEF Ordered, BoardOrdered, Prefix, Bounded
<1>9. QED BY <1>4, <1>5, <1>6, <1>7, <1>8 DEF Ordered

\* The callback of the first part begins.
LEMMA OrderedBegins ==
  ASSUME TypeInv, Ordered, NEW t \in Threads, Begins(t), \A u \in Threads : run[u] = Idle,
         UNCHANGED <<offset, board>>
  PROVE  Ordered'
<1>1. component.queue # <<>> /\ component'.queue = Tail(component.queue) BY DEF Begins
<1>2. PICK n \in Nat : n = Arrived BY ArrivedIs
<1>3. /\ n > 0 /\ Arrived' = n - 1 /\ Head(component.queue).part = Coming(1)
      /\ \A i \in 1 .. n - 1 : Coming(i)' = Coming(i + 1)
  BY <1>1, <1>2, QueueTail
<1>4. PICK p : p = Coming(1) OBVIOUS
<1>5. run'[t].pc = "copy" /\ run'[t].part = p /\ (\A u \in Threads \ {t} : run'[u] = Idle)
  <2>1. PICK e : e = Head(component.queue).header OBVIOUS
  <2>2. run'[t] = [pc |-> "copy", header |-> e, part |-> p, new |-> 0, complete |-> FALSE]
    BY <1>3, <1>4, <2>1 DEF Begins
  <2>3. \A u \in Threads \ {t} : run'[u] = Idle BY DEF Begins
  <2>4. QED BY <2>2, <2>3
<1>6. AllSent'
  <2>1. ASSUME NEW i \in 1 .. n - 1 PROVE Sent(Coming(i)')
    <3>1. i + 1 \in 1 .. n OBVIOUS
    <3>2. Sent(Coming(i + 1)) BY <1>2, <3>1 DEF Ordered, AllSent
    <3>3. QED BY <1>3, <3>2
  <2>2. QED BY <1>3, <2>1 DEF AllSent, Sent
<1>7. AtRest BY IdleIs DEF AtRest
<1>8. Sent(p) /\ (p # NoPart => Follows(p, Copied))
  <2>1. 1 \in 1 .. n BY <1>3
  <2>2. Sent(p) BY <1>2, <1>4, <2>1 DEF Ordered, AllSent
  <2>3. Rest(Copied) BY <1>7 DEF Ordered
  <2>4. QED BY <1>2, <1>3, <1>4, <2>2, <2>3 DEF Rest
<1>9. Copied' = Copied BY DEF Copied
<1>10. CopyOrdered'
  <2>1. ASSUME NEW u \in Threads, run'[u].pc = "copy", NEW q, q = run'[u].part
        PROVE  Sent(q) /\ (q # NoPart => Follows(q, Copied'))
    <3>1. q = p BY <1>5, <2>1, IdleIs
    <3>2. QED BY <1>8, <1>9, <3>1
  <2>2. QED BY <2>1 DEF CopyOrdered, Sent, Follows
<1>11. EndOrdered'
  <2>1. \A u \in Threads : run[u].pc # "end" /\ run'[u].pc # "end" BY <1>5, IdleIs
  <2>2. Bounded(offset, 0) BY <2>1 DEF Ordered, EndOrdered
  <2>3. QED BY <2>1, <2>2 DEF EndOrdered, Bounded
<1>12. ~AtRest' BY <1>5 DEF AtRest
<1>13. BoardOrdered' BY DEF Ordered, BoardOrdered, Prefix, Bounded
<1>14. QED BY <1>6, <1>10, <1>11, <1>12, <1>13 DEF Ordered

\* The headers that are given back come last, and have no part.
LEMMA OrderedGivenBack ==
  ASSUME TypeInv, Ordered, PortDisabled, component'.queue = component.queue \o Emptied(vc.held), vc'.held = <<>>
  PROVE  Ordered'
<1>1. run' = run /\ offset' = offset /\ board' = board /\ ~Linked' BY DEF PortDisabled, Linked
<1>2. PICK n \in Nat : n = Arrived BY ArrivedIs
<1>3. PICK m \in Nat : m = Arrived' BY QueueEmptied
<1>4. /\ m >= n /\ (\A i \in 1 .. n : Coming(i)' = Coming(i)) /\ \A i \in 1 .. m : i > n => Coming(i)' = NoPart
  BY <1>2, <1>3, QueueEmptied
<1>5. AllSent'
  <2>1. ASSUME NEW i \in 1 .. m PROVE Sent(Coming(i)')
    <3>1. CASE i > n BY <1>4, <3>1 DEF Sent
    <3>2. CASE ~(i > n)
      <4>1. i \in 1 .. n BY <3>2
      <4>2. QED BY <1>2, <1>4, <4>1 DEF Ordered, AllSent
    <3>3. QED BY <3>1, <3>2
  <2>2. QED BY <1>3, <2>1 DEF AllSent, Sent
<1>6. ASSUME NEW pos, Rest(pos) PROVE Rest(pos)'
  <2>1. m > 0 => Coming(1)' = NoPart \/ Follows(Coming(1)', pos)
    <3>1. CASE n > 0
      <4>1. 1 \in 1 .. n BY <3>1
      <4>2. Coming(1)' = Coming(1) BY <1>4, <4>1
      <4>3. QED BY <1>2, <1>6, <3>1, <4>2 DEF Rest
    <3>2. CASE ~(n > 0)
      <4>1. m > 0 => 1 \in 1 .. m /\ 1 > n BY <3>2
      <4>2. QED BY <1>4, <4>1
    <3>3. QED BY <3>1, <3>2
  <2>2. QED BY <1>1, <1>3, <2>1 DEF Rest, Follows
<1>7. CopyOrdered' BY <1>1 DEF Ordered, CopyOrdered, Copied, Sent, Follows
<1>8. EndOrdered'
  <2>1. ASSUME Rest(<<board.buf[1].frame, 0>>) PROVE Rest(<<board.buf[1].frame, 0>>)'
    <3>1. PICK pos : pos = <<board.buf[1].frame, 0>> OBVIOUS
    <3>2. Rest(pos)' BY <1>6, <2>1, <3>1
    <3>3. <<board.buf[1].frame, 0>>' = pos BY <1>1, <3>1
    <3>4. QED BY <3>2, <3>3 DEF Rest
  <2>2. QED BY <1>1, <2>1 DEF Ordered, EndOrdered, Bounded
<1>9. AtRest' => Rest(Copied)'
  <2>1. ASSUME AtRest' PROVE Rest(Copied)'
    <3>1. AtRest BY <1>1, <2>1 DEF AtRest
    <3>2. PICK pos : pos = Copied OBVIOUS
    <3>3. Rest(pos)' BY <1>6, <3>1, <3>2 DEF Ordered
    <3>4. Copied' = pos BY <1>1, <3>2 DEF Copied
    <3>5. QED BY <3>3, <3>4 DEF Rest
  <2>2. QED BY <2>1
<1>10. BoardOrdered' BY <1>1 DEF Ordered, BoardOrdered, Prefix, Bounded
<1>11. QED BY <1>5, <1>7, <1>8, <1>9, <1>10 DEF Ordered

\* Nothing was copied before the port is enabled.
LEMMA OrderedEnabled == ASSUME TypeInv, Control, PortEnabled PROVE Ordered'
<1>1. Unopened BY DEF Control, Staged, PortEnabled, Opening
<1>2. component' = component /\ vc' = vc /\ run' = run /\ offset' = offset /\ board' = board BY DEF PortEnabled
<1>3. Arrived' = 0 BY <1>1, <1>2 DEF Unopened, Arrived
<1>4. \A t \in Threads : run'[t].pc = "idle" BY <1>1, <1>2, IdleIs DEF Unopened
<1>5. offset' = 0 /\ board'.owner # "callback" /\ board'.size = 0 BY <1>1, <1>2 DEF Unopened
<1>6. AllSent' BY <1>3 DEF AllSent
<1>7. CopyOrdered' BY <1>4 DEF CopyOrdered
<1>8. EndOrdered' BY <1>4, <1>5 DEF EndOrdered, Bounded
<1>9. Copied' = Encoded' BY <1>1, <1>2 DEF Copied, Encoded, Unopened
<1>10. Rest(Copied)' BY <1>3, <1>9 DEF Rest
<1>11. BoardOrdered' BY <1>5 DEF BoardOrdered, Prefix, Bounded
<1>12. QED BY <1>6, <1>7, <1>8, <1>10, <1>11 DEF Ordered

\* A part is copied behind those before it.
LEMMA BufferGets ==
  ASSUME TypeInv, Parts, Ordered, NEW t \in Threads, Copies(t), NEW p \in Part, p = run[t].part, p # NoPart,
         \A u \in Threads : run[u].pc # "end"
  PROVE  /\ offset' = offset + 1 /\ p.no = offset + 1 /\ p.no \in Nat /\ ~p.aborted
         /\ board'.buf[1].frame = p.frame /\ board'.owner = "callback"
         /\ Prefix(offset)' /\ Bounded(offset, IF p.last THEN offset ELSE 0)'
<1>1. PICK n \in Nat : n = offset BY BoardIs
<1>2. PICK buf \in [1 .. MaxParts -> Part] : buf = board.buf BY BoardIs
<1>3. /\ run[t].pc = "copy" /\ p.data /\ ~p.aborted /\ Follows(p, Copied)
  BY DEF Ordered, CopyOrdered, Sent, Copies
<1>4. /\ n = 0 => board.owner = "none"
      /\ board'.owner = IF n = 0 THEN "callback" ELSE board.owner
      /\ board'.buf = [buf EXCEPT ![n + 1] = p] /\ offset' = n + 1
  BY <1>1, <1>2, <1>3 DEF Copies
<1>5. p.no = n + 1 /\ p.frame = IF n = 0 THEN buf[1].frame + 1 ELSE buf[1].frame
  BY <1>1, <1>2, <1>3 DEF Follows, Copied
<1>6. MaxParts \in Nat /\ 1 \in 1 .. MaxParts /\ n + 1 \in 1 .. MaxParts
  <2>1. CopyFollows(p) BY <1>3 DEF Parts, CopyChained
  <2>2. p.no \in 1 .. MaxParts BY <2>1 DEF CopyFollows, Proper
  <2>3. QED BY <1>5, <2>2, BoardIs
<1>7. PICK next \in [1 .. MaxParts -> Part] : next = board'.buf BY <1>2, <1>4, <1>6
<1>8. next[n + 1] = p /\ \A i \in 1 .. n : next[i] = buf[i]
  <2>1. next = [buf EXCEPT ![n + 1] = p] BY <1>4, <1>7
  <2>2. \A i \in 1 .. n : i \in 1 .. MaxParts /\ i # n + 1 BY <1>6
  <2>3. QED BY <1>6, <2>1, <2>2
<1>9. next[1].frame = p.frame
  <2>1. CASE n = 0 BY <1>8, <2>1
  <2>2. CASE n # 0
    <3>1. 1 \in 1 .. n BY <2>2
    <3>2. QED BY <1>5, <1>8, <2>2, <3>1
  <2>3. QED BY <2>1, <2>2
<1>10. board'.owner = "callback"
  <2>1. n > 0 => board.owner = "callback" BY <1>1 DEF Ordered, BoardOrdered
  <2>2. QED BY <1>4, <2>1
<1>11. \A i \in 1 .. n + 1 : next[i].no = i /\ next[i].frame = next[1].frame
  <2>1. \A i \in 1 .. n : buf[i].no = i /\ buf[i].frame = buf[1].frame
    BY <1>1, <1>2 DEF Ordered, BoardOrdered, Prefix
  <2>2. ASSUME NEW i \in 1 .. n + 1 PROVE next[i].no = i /\ next[i].frame = next[1].frame
    <3>1. CASE i = n + 1 BY <1>5, <1>8, <1>9, <3>1
    <3>2. CASE i # n + 1
      <4>1. i \in 1 .. n /\ 1 \in 1 .. n BY <3>2
      <4>2. QED BY <1>8, <2>1, <4>1
    <3>3. QED BY <3>1, <3>2
  <2>3. QED BY <2>2
<1>12. \A i \in 1 .. n + 1 : next[i].last <=> i = IF p.last THEN n + 1 ELSE 0
  <2>1. \A i \in 1 .. n : buf[i].last <=> i = 0 BY <1>1, <1>2 DEF Ordered, EndOrdered, Bounded
  <2>2. ASSUME NEW i \in 1 .. n + 1 PROVE next[i].last <=> i = IF p.last THEN n + 1 ELSE 0
    <3>1. CASE i = n + 1 BY <1>8, <3>1
    <3>2. CASE i # n + 1
      <4>1. i \in 1 .. n /\ i # 0 BY <3>2
      <4>2. ~next[i].last BY <1>8, <2>1, <4>1
      <4>3. QED BY <3>2, <4>1, <4>2
    <3>3. QED BY <3>1, <3>2
  <2>3. QED BY <2>2
<1>13. Prefix(offset)' BY <1>4, <1>7, <1>11 DEF Prefix
<1>14. Bounded(offset, IF p.last THEN offset ELSE 0)' BY <1>4, <1>7, <1>12 DEF Bounded
<1>15. QED BY <1>1, <1>3, <1>4, <1>5, <1>7, <1>9, <1>10, <1>13, <1>14

\* A part that is copied follows on from those that are in the buffer.
LEMMA OrderedCopies ==
  ASSUME TypeInv, Control, Parts, Ordered, NEW t \in Threads, Copies(t)
  PROVE  Ordered'
<1>1. QuietStep BY QuietCallback DEF InCallback
<1>2. run[t] # Idle /\ \A u \in Threads \ {t} : run'[u] = run[u] /\ run[u] = Idle
  BY StaysBusy, OneBusy DEF InCallback
<1>3. Arrived' = Arrived /\ \A i : Coming(i)' = Coming(i) BY <1>1 DEF QuietStep, Arrived, Coming
<1>4. AllSent' BY <1>3 DEF Ordered, AllSent, Sent
<1>5. PICK p \in Part : p = run[t].part BY DEF TypeInv, MmalType, Runs
<1>6. run[t].pc = "copy" /\ run'[t].pc = IF p.last \/ p.aborted THEN "end" ELSE "release"
  BY <1>5 DEF Copies, Goes, At
<1>7. \A u \in Threads : run'[u].pc # "copy" BY <1>2, <1>6, IdleIs
<1>8. CopyOrdered' BY <1>7 DEF CopyOrdered
<1>9. CopyFollows(p) BY <1>5, <1>6 DEF Parts, CopyChained
<1>10. \A u \in Threads : run[u].pc # "end" BY <1>2, <1>6, IdleIs
<1>11. CASE p = NoPart
  <2>1. ~p.data /\ ~p.last /\ ~p.aborted BY <1>11 DEF NoPart
  <2>2. board' = board /\ offset' = offset BY <1>5, <2>1 DEF Copies
  <2>3. run'[t].pc = "release" BY <1>6, <2>1
  <2>4. \A u \in Threads : run'[u].pc # "end" BY <1>2, <2>3, IdleIs
  <2>5. EndOrdered' BY <1>10, <2>2, <2>4 DEF Ordered, EndOrdered, Bounded
  <2>6. ~Linked /\ (Arrived > 0 => Coming(1) = NoPart) BY <1>9, <1>11 DEF CopyFollows
  <2>7. Rest(Copied)'
    <3>1. ~Linked' BY <1>1, <2>6 DEF QuietStep
    <3>2. QED BY <1>3, <2>6, <3>1 DEF Rest
  <2>8. BoardOrdered' BY <2>2 DEF Ordered, BoardOrdered, Prefix, Bounded
  <2>9. QED BY <1>4, <1>8, <2>5, <2>7, <2>8 DEF Ordered
<1>12. CASE p # NoPart
  <2>1. /\ offset' = offset + 1 /\ p.no = offset + 1 /\ p.no \in Nat /\ ~p.aborted
        /\ board'.buf[1].frame = p.frame /\ board'.owner = "callback"
        /\ Prefix(offset)' /\ Bounded(offset, IF p.last THEN offset ELSE 0)'
    BY <1>5, <1>10, <1>12, BufferGets
  <2>2. offset' > 0 BY <2>1, BoardIs
  <2>3. BoardOrdered' BY <2>1, <2>2 DEF BoardOrdered
  <2>4. PICK pos : pos = After(p) OBVIOUS
  <2>5. Rest(pos)' BY <1>1, <1>9, <1>12, <2>4, RestQuiet DEF CopyFollows
  <2>6. CASE p.last
    <3>1. run'[t].pc = "end" BY <1>6, <2>6
    <3>2. ~AtRest' BY <3>1 DEF AtRest
    <3>3. pos = <<board.buf[1].frame, 0>>' BY <2>1, <2>4, <2>6 DEF After
    <3>4. Rest(<<board.buf[1].frame, 0>>)' BY <2>5, <3>3 DEF Rest
    <3>5. Bounded(offset, offset)' BY <2>1, <2>6
    <3>6. EndOrdered' BY <2>2, <3>1, <3>4, <3>5 DEF EndOrdered
    <3>7. QED BY <1>4, <1>8, <2>3, <3>2, <3>6 DEF Ordered
  <2>7. CASE ~p.last
    <3>1. run'[t].pc = "release" BY <1>6, <2>1, <2>7
    <3>2. \A u \in Threads : run'[u].pc # "end" BY <1>2, <3>1, IdleIs
    <3>3. Bounded(offset, 0)' BY <2>1, <2>7
    <3>4. EndOrdered' BY <3>2, <3>3 DEF EndOrdered
    <3>5. pos = Copied' BY <2>1, <2>4, <2>7 DEF After, Copied
    <3>6. Rest(Copied)' BY <2>5, <3>5 DEF Rest
    <3>7. QED BY <1>4, <1>8, <2>3, <3>4, <3>6 DEF Ordered
  <2>8. QED BY <2>6, <2>7
<1>13. QED BY <1>11, <1>12

\* The picture is complete.
LEMMA OrderedCompletes ==
  ASSUME TypeInv, Control, Parts, Ordered, NEW t \in Threads, Completes(t)
  PROVE  Ordered'
<1>1. QuietStep BY QuietCallback DEF InCallback
<1>2. run[t] # Idle /\ \A u \in Threads \ {t} : run'[u] = run[u] /\ run[u] = Idle
  BY StaysBusy, OneBusy DEF InCallback
<1>3. Arrived' = Arrived /\ \A i : Coming(i)' = Coming(i) BY <1>1 DEF QuietStep, Arrived, Coming
<1>4. AllSent' BY <1>3 DEF Ordered, AllSent, Sent
<1>5. run[t].pc = "end" /\ run'[t].pc = "release" BY DEF Completes, Goes
<1>6. \A u \in Threads : run'[u].pc \notin {"copy", "end"} BY <1>2, <1>5, IdleIs
<1>7. CopyOrdered' BY <1>6 DEF CopyOrdered
<1>8. board'.size = offset /\ board'.owner = "none" /\ board'.buf = board.buf /\ offset' = 0 BY DEF Completes
<1>9. EndOrdered' BY <1>6, <1>8 DEF EndOrdered, Bounded
<1>10. Rest(<<board.buf[1].frame, 0>>) /\ Bounded(offset, offset) BY <1>5 DEF Ordered, EndOrdered
<1>11. Rest(Copied)'
  <2>1. PICK pos : pos = <<board.buf[1].frame, 0>> OBVIOUS
  <2>2. Rest(pos)' BY <1>1, <1>10, <2>1, RestQuiet
  <2>3. pos = Copied' BY <1>8, <2>1 DEF Copied
  <2>4. QED BY <2>2, <2>3 DEF Rest
<1>12. Prefix(offset)' BY <1>8 DEF Prefix
<1>13. Prefix(board.size)' /\ Bounded(board.size, board.size)'
  BY <1>8, <1>10 DEF Ordered, BoardOrdered, Prefix, Bounded
<1>14. BoardOrdered' BY <1>8, <1>12, <1>13 DEF BoardOrdered
<1>15. QED BY <1>4, <1>7, <1>9, <1>11, <1>14 DEF Ordered

\* Steps of the worker leave the picture alone.
LEMMA WorkerPicture ==
  ASSUME Opens \/ Shoots \/ Closes
  PROVE  offset' = offset /\ board'.size = board.size /\ board'.buf = board.buf /\ board'.owner = board.owner
         /\ reader' = reader
BY DEF Opens, Shoots, Closes, SetsUp, PoolMade, Connected, PortEnabled, Decided, Counted, HeaderTaken,
       HeaderGiven, Captured, Awaited, SemaphoreDeleted, SendingStopped, ActionLocked, PortDisabled, Drained,
       Unlocked, TransitAwaited, PoolFreed, ComponentsGone, BufferFreed

\* As long as no transfer fails, Ordered is kept.
LEMMA OrderedKept ==
  ASSUME TypeInv, Control, Parts, Ordered, Reads, Does, "transfer" \notin failed'
  PROVE  Ordered'
<1>1. CASE PartArrives BY <1>1, OrderedArrive
<1>2. CASE ActionBegins
  <2>1. Begins("action") /\ UNCHANGED <<offset, board>> BY <1>2 DEF ActionBegins, pluginVars
  <2>2. QED BY <1>2, <2>1, BeginsAlone, OrderedBegins, ThreadsAre
<1>3. ASSUME NEW t \in Threads, InCallback(t) PROVE Ordered'
  <2>1. CASE Copies(t) BY <2>1, OrderedCopies
  <2>2. CASE Completes(t) BY <2>2, OrderedCompletes
  <2>3. CASE Returns(t) \/ Gets(t) \/ Refills(t) \/ Finishes(t)
    <3>1. QuietStep BY <1>3, QuietCallback
    <3>2. SamePicture /\ board' = board BY <2>3 DEF Returns, Gets, Refills, Finishes, pluginVars, SamePicture
    <3>3. run[t].pc \notin {"copy", "end"} /\ run'[t].pc \notin {"copy", "end"}
      <4>1. Idle.pc = "idle" BY IdleIs
      <4>2. CASE Returns(t) BY <4>2 DEF Returns, Goes, At
      <4>3. CASE Gets(t) BY <4>3 DEF Gets, Goes, At
      <4>4. CASE Refills(t) BY <4>4 DEF Refills, Goes
      <4>5. CASE Finishes(t) BY <4>1, <4>5 DEF Finishes, Goes
      <4>6. QED BY <2>3, <4>2, <4>3, <4>4, <4>5
    <3>4. SameCallbacks BY <1>3, <3>3, StaysBusy DEF SameCallbacks
    <3>5. QED BY <3>1, <3>2, <3>4, OrderedQuiet
  <2>4. QED BY <1>3, <2>1, <2>2, <2>3 DEF InCallback
<1>4. CASE PortEnabled BY <1>4, OrderedEnabled
<1>5. CASE Drained
  <2>1. Begins("worker") /\ UNCHANGED <<offset, board>> BY <1>5 DEF Drained
  <2>2. QED BY <1>5, <2>1, BeginsAlone, OrderedBegins, ThreadsAre
<1>6. CASE PortDisabled /\ component'.queue = component.queue \o Emptied(vc.held) /\ vc'.held = <<>>
  BY <1>6, OrderedGivenBack
<1>7. CASE /\ Opens \/ Shoots \/ Closes
           /\ ~PortEnabled /\ ~Drained
           /\ ~(PortDisabled /\ component'.queue = component.queue \o Emptied(vc.held) /\ vc'.held = <<>>)
  <2>1. QuietStep /\ run' = run BY <1>7, QuietWorker
  <2>2. SamePicture /\ board'.owner = board.owner BY <1>7, WorkerPicture DEF SamePicture
  <2>3. SameCallbacks BY <2>1 DEF SameCallbacks
  <2>4. QED BY <2>1, <2>2, <2>3, OrderedQuiet
<1>8. CASE Reading \/ Stops
  <2>1. component' = component /\ port' = port /\ vc' = vc /\ run' = run /\ offset' = offset
    BY <1>8 DEF Reading, Waits, Locks, TakesCopy, Stops, mmalVars
  <2>2. QuietStep BY <2>1 DEF QuietStep, Linked, Encoded
  <2>3. SamePicture /\ (board'.owner = "callback" <=> board.owner = "callback")
    BY <1>8, <2>1 DEF Reading, Waits, Locks, TakesCopy, Stops, SamePicture, Reads
  <2>4. SameCallbacks BY <2>1 DEF SameCallbacks
  <2>5. QED BY <2>2, <2>3, <2>4, OrderedQuiet
<1>9. QED BY <1>1, <1>2, <1>3, <1>4, <1>5, <1>6, <1>7, <1>8 DEF Does

\* The picture that is read.
LEMMA PictureTaken ==
  ASSUME TypeInv, Parts, Ordered, Reads, TakesCopy, board.live
  PROVE  \/ "wakeup" \in mayFail /\ reader.got = <<>> /\ reader'.got = <<>>
         \/ /\ WholePicture(reader'.got) /\ reader'.got # <<>> /\ reader'.got[1].frame = board.buf[1].frame
            /\ board.size > 0
            /\ reader.got # <<>> =>
                 \/ reader'.got[1].frame > reader.got[1].frame
                 \/ "wakeup" \in mayFail /\ reader'.got[1].frame = reader.got[1].frame
<1>1. PICK n \in Nat : n = board.size BY BoardIs
<1>2. PICK buf \in [1 .. MaxParts -> Part] : buf = board.buf BY BoardIs
<1>3. /\ reader.pc = "copy" /\ reader.size = n /\ board.owner = "reader"
       /\ reader'.got = SubSeq(buf, 1, n)
  BY <1>1, <1>2 DEF TakesCopy, Reads
<1>4. CASE n = 0
  <2>1. SubSeq(buf, 1, 0) = <<>> BY <1>2, BoardIs
  <2>2. "wakeup" \in mayFail /\ reader.got = <<>> BY <1>1, <1>3, <1>4 DEF Reads
  <2>3. QED BY <1>3, <1>4, <2>1, <2>2
<1>5. SUFFICES ASSUME n # 0
                PROVE  /\ WholePicture(reader'.got) /\ reader'.got # <<>> /\ reader'.got[1].frame = buf[1].frame
                       /\ reader.got # <<>> =>
                            \/ reader'.got[1].frame > reader.got[1].frame
                            \/ "wakeup" \in mayFail /\ reader'.got[1].frame = reader.got[1].frame
  BY <1>1, <1>2, <1>4
<1>6. n > 0 BY <1>1, <1>5
<1>7. offset = 0 /\ Prefix(n) /\ Bounded(n, n)
  <2>1. ~(offset > 0) BY <1>3 DEF Ordered, BoardOrdered
  <2>2. offset = 0 BY <2>1, BoardIs
  <2>3. QED BY <1>1, <2>2 DEF Ordered, BoardOrdered
<1>8. PICK got \in Seq(Part) : got = SubSeq(buf, 1, n)
  <2>1. n <= MaxParts BY <1>1, BoardIs
  <2>2. SubSeq(buf, 1, n) = [i \in 1 .. n |-> buf[i]]
    <3>1. SubSeq(buf, 1, n) = [i \in 1 .. (1 + n - 1) |-> buf[i + 1 - 1]] BY <1>6, <2>1, BoardIs
    <3>2. 1 + n - 1 = n /\ \A i \in 1 .. n : i + 1 - 1 = i OBVIOUS
    <3>3. QED BY <3>1, <3>2
  <2>3. \A i \in 1 .. n : buf[i] \in Part BY <2>1, BoardIs
  <2>4. [i \in 1 .. n |-> buf[i]] \in Seq(Part)
    <3>1. PICK f : f = [i \in 1 .. n |-> buf[i]] OBVIOUS
    <3>2. f \in [1 .. n -> Part] BY <2>3, <3>1
    <3>3. QED BY <3>1, <3>2
  <2>5. QED BY <2>2, <2>4
<1>9. Len(got) = n /\ \A i \in 1 .. n : got[i] = buf[i] BY <1>6, <1>8, BoardIs, <1>1
<1>10. reader'.got = got BY <1>8, <1>3
<1>11. got # <<>> /\ got[1] = buf[1] BY <1>6, <1>9
<1>12. WholePicture(got)
  <2>1. \A i \in 1 .. n : buf[i].no = i /\ buf[i].frame = buf[1].frame /\ (buf[i].last <=> i = n)
    BY <1>2, <1>7 DEF Prefix, Bounded
  <2>2. DOMAIN got = 1 .. n BY <1>9
  <2>3. QED BY <1>9, <1>11, <2>1, <2>2 DEF WholePicture
<1>13. reader.got # <<>> =>
         /\ reader.got[1].frame \in Nat /\ reader.got[1].frame <= buf[1].frame
         /\ reader.got[1].frame < buf[1].frame \/ "wakeup" \in mayFail
  BY <1>2, <1>3 DEF Reads
<1>14. buf[1].frame \in Nat BY <1>2, BoardIs
<1>15. reader.got # <<>> =>
         buf[1].frame > reader.got[1].frame \/ ("wakeup" \in mayFail /\ buf[1].frame = reader.got[1].frame)
  BY <1>13, <1>14
<1>16. QED BY <1>10, <1>11, <1>12, <1>15

\* What was read, and what is to be read.
ReadsQuiet ==
  /\ reader' = reader /\ offset' = offset /\ mayFail' = mayFail
  /\ board'.size = board.size /\ board'.buf = board.buf /\ board'.owner = board.owner

\* A step that leaves alone what Reads speaks of.
LEMMA ReadsSame == ASSUME Reads, ReadsQuiet PROVE Reads' BY DEF Reads, ReadsQuiet

\* A part that is copied belongs to a newer picture than what was read.
LEMMA ReadsCopies ==
  ASSUME TypeInv, Control, Parts, Ordered, Reads, NEW t \in Threads, Copies(t)
  PROVE  Reads'
<1>1. PICK p \in Part : p = run[t].part BY DEF TypeInv, MmalType, Runs
<1>2. run[t].pc = "copy" /\ \A u \in Threads \ {t} : run[u] = Idle BY StaysBusy, OneBusy DEF InCallback, Copies
<1>3. \A u \in Threads : run[u].pc # "end" BY <1>2, IdleIs
<1>4. reader' = reader /\ mayFail' = mayFail BY MayFailKept DEF Copies, Does, InCallback
<1>5. CASE p = NoPart
  <2>1. ~p.data BY <1>5 DEF NoPart
  <2>2. board' = board /\ offset' = offset BY <1>1, <2>1 DEF Copies
  <2>3. QED BY <1>4, <2>2, ReadsSame DEF ReadsQuiet
<1>6. CASE p # NoPart
  <2>1. PICK n \in Nat, f \in Nat : n = offset /\ f = board.buf[1].frame BY BoardIs
  <2>2. board'.buf[1].frame = p.frame /\ board'.owner = "callback" /\ offset' = n + 1
    BY <1>1, <1>3, <1>6, <2>1, BufferGets
  <2>3. p.data /\ p.frame = IF n = 0 THEN f + 1 ELSE f
    BY <1>1, <1>2, <1>6, <2>1 DEF Ordered, CopyOrdered, Sent, Follows, Copied
  <2>4. board'.size = board.size /\ (n = 0 => board.owner = "none") /\ (n > 0 => board.owner = "callback")
    BY <1>1, <2>1, <2>3 DEF Copies, Ordered, BoardOrdered
  <2>5. reader.pc # "copy"
    <3>1. board.owner # "reader" BY <2>1, <2>4
    <3>2. QED BY <3>1 DEF Reads
  <2>6. /\ reader.pc \in {"woken", "copy"} => board.size > 0 \/ "wakeup" \in mayFail
        /\ reader.got # <<>> => board.size > 0
    BY DEF Reads
  <2>7. ASSUME reader.got # <<>> PROVE reader.got[1].frame \in Nat /\ reader.got[1].frame < p.frame
    <3>1. PICK g \in Nat : g = reader.got[1].frame BY <2>7 DEF Reads
    <3>2. g <= f /\ (n > 0 => g < f) BY <2>1, <2>7, <3>1 DEF Reads
    <3>3. g < p.frame BY <2>3, <3>2
    <3>4. QED BY <3>1, <3>3
  <2>8. p.frame \in Nat BY <2>3
  <2>9. QED BY <1>4, <2>2, <2>4, <2>5, <2>6, <2>7, <2>8 DEF Reads
<1>7. QED BY <1>5, <1>6

\* A picture that is passed on is newer than what was read.
LEMMA ReadsCompletes ==
  ASSUME TypeInv, Ordered, Reads, NEW t \in Threads, Completes(t)
  PROVE  Reads'
<1>1. offset > 0 BY DEF Ordered, EndOrdered, Completes
<1>2. board.owner = "callback" BY <1>1 DEF Ordered, BoardOrdered
<1>3. reader.pc # "copy" BY <1>2 DEF Reads
<1>4. board'.size = offset /\ board'.owner = "none" /\ board'.buf = board.buf /\ reader'.got = reader.got
      /\ reader'.pc # "copy"
  BY <1>3 DEF Completes
<1>5. reader.got # <<>> => /\ reader.got[1].frame \in Nat /\ reader.got[1].frame <= board.buf[1].frame
                           /\ reader.got[1].frame < board.buf[1].frame
  BY <1>1 DEF Reads
<1>6. QED BY <1>1, <1>4, <1>5 DEF Reads

\* What is read is the picture in the buffer.
LEMMA ReadsReading ==
  ASSUME TypeInv, Parts, Ordered, Reads, Reading
  PROVE  Reads'
<1>1. CASE Waits BY <1>1 DEF Waits, ReaderSame, Reads, mmalVars
<1>2. CASE Locks BY <1>2 DEF Locks, Reads, mmalVars
<1>3. CASE TakesCopy
  <2>1. /\ board'.owner = "none" /\ board'.buf = board.buf /\ board'.size = board.size
        /\ reader'.pc = "idle" /\ offset' = offset
    BY <1>3 DEF TakesCopy
  <2>2. offset = 0
    <3>1. board.owner = "reader" BY <1>3 DEF TakesCopy, Reads
    <3>2. QED BY <3>1, BoardIs DEF Ordered, BoardOrdered
  <2>3. reader'.got = <<>> \/ (board.size > 0 /\ reader'.got[1].frame = board.buf[1].frame)
    <3>1. CASE board.live BY <1>3, <3>1, PictureTaken
    <3>2. CASE ~board.live BY <1>3, <3>2 DEF TakesCopy
    <3>3. QED BY <3>1, <3>2
  <2>4. board.buf[1].frame \in Nat BY BoardIs
  <2>5. QED BY <2>1, <2>2, <2>3, <2>4 DEF Reads
<1>4. QED BY <1>1, <1>2, <1>3 DEF Reading

\* Whatever is done, Reads is kept.
LEMMA ReadsKept ==
  ASSUME TypeInv, Control, Parts, Ordered, Reads, Does
  PROVE  Reads'
<1>1. CASE PartArrives BY <1>1, MayFailKept, ReadsSame DEF PartArrives, pluginVars, ReadsQuiet
<1>2. CASE ActionBegins BY <1>2, MayFailKept, ReadsSame DEF ActionBegins, pluginVars, ReadsQuiet
<1>3. ASSUME NEW t \in Threads, InCallback(t) PROVE Reads'
  <2>1. CASE Copies(t) BY <2>1, ReadsCopies
  <2>2. CASE Completes(t) BY <2>2, ReadsCompletes
  <2>3. CASE Returns(t) \/ Gets(t) \/ Refills(t) \/ Finishes(t)
    <3>1. ReadsQuiet BY <2>3, MayFailKept DEF Returns, Gets, Refills, Finishes, pluginVars, ReadsQuiet
    <3>2. QED BY <3>1, ReadsSame
  <2>4. QED BY <1>3, <2>1, <2>2, <2>3 DEF InCallback
<1>4. CASE Opens \/ Shoots \/ Closes BY <1>4, MayFailKept, WorkerPicture, ReadsSame DEF ReadsQuiet
<1>5. CASE Reading BY <1>5, ReadsReading
<1>6. CASE Stops BY <1>6, MayFailKept, ReadsSame DEF Stops, ReadsQuiet
<1>7. QED BY <1>1, <1>2, <1>3, <1>4, <1>5, <1>6 DEF Does

\* Whatever is done, WholeInv is kept.
LEMMA WholeKept == ASSUME TypeInv, Control, Parts, WholeInv, Does PROVE WholeInv'
<1>1. ASSUME "transfer" \notin failed' PROVE Ordered' /\ Reads'
  <2>1. "transfer" \notin failed BY <1>1, FailedGrows
  <2>2. Ordered /\ Reads BY <2>1 DEF WholeInv
  <2>3. QED BY <1>1, <2>2, OrderedKept, ReadsKept
<1>2. QED BY <1>1 DEF WholeInv

\* In the beginning there is no picture.
LEMMA FirstWhole == ASSUME Init PROVE WholeInv
<1>1. component.queue = <<>> /\ vc.frame = 0 /\ vc.part = 0 /\ run = [t \in Threads |-> Idle]
  BY DEF Init, MmalInit
<1>2. /\ offset = 0 /\ board.owner = "none" /\ board.size = 0
      /\ board.buf = [i \in 1 .. MaxParts |-> NoPart] /\ reader.pc = "idle" /\ reader.got = <<>>
  BY DEF Init
<1>3. board.buf[1].frame = 0
  <2>1. 1 \in 1 .. MaxParts BY MmalAssumption
  <2>2. board.buf[1] = NoPart BY <1>2, <2>1
  <2>3. QED BY <2>2 DEF NoPart
<1>4. Arrived = 0 BY <1>1 DEF Arrived
<1>5. \A t \in Threads : run[t].pc = "idle" BY <1>1, IdleIs
<1>6. AllSent BY <1>4 DEF AllSent
<1>7. CopyOrdered BY <1>5 DEF CopyOrdered
<1>8. EndOrdered BY <1>2, <1>5 DEF EndOrdered, Bounded
<1>9. Copied = Encoded BY <1>1, <1>2, <1>3 DEF Copied, Encoded
<1>10. Rest(Copied) BY <1>4, <1>9 DEF Rest
<1>11. BoardOrdered BY <1>2 DEF BoardOrdered, Prefix, Bounded
<1>12. Reads BY <1>2 DEF Reads
<1>13. QED BY <1>6, <1>7, <1>8, <1>10, <1>11, <1>12 DEF WholeInv, Ordered

\* What the output reads in a step.
ReadsWholeStep ==
  reader.pc = "copy" /\ reader'.pc = "idle" /\ board.live /\ "transfer" \notin failed =>
    \/ "wakeup" \in mayFail /\ reader.got = <<>> /\ reader'.got = <<>>
    \/ /\ WholePicture(reader'.got)
       /\ reader.got # <<>> =>
            \/ reader'.got[1].frame > reader.got[1].frame
            \/ "wakeup" \in mayFail /\ reader'.got[1].frame = reader.got[1].frame

\* Only an output that copies goes on to wait for the next.
LEMMA CopyOnly == ASSUME Does, reader.pc = "copy", reader'.pc = "idle" PROVE TakesCopy
<1>1. ASSUME PartArrives \/ ActionBegins PROVE FALSE BY <1>1 DEF PartArrives, ActionBegins, pluginVars
<1>2. ASSUME NEW t \in Threads, InCallback(t) PROVE FALSE
  BY <1>2 DEF InCallback, Copies, Completes, Returns, Gets, Refills, Finishes, pluginVars
<1>3. ASSUME Opens \/ Shoots \/ Closes PROVE FALSE BY <1>3, WorkerPicture
<1>4. ASSUME Waits \/ Locks \/ Stops PROVE FALSE BY <1>4 DEF Waits, Locks, Stops, ReaderSame
<1>5. QED BY <1>1, <1>2, <1>3, <1>4 DEF Does, Reading

\* What it gets is a whole picture, and a newer one.
LEMMA ReadsWholeDone == ASSUME TypeInv, Parts, WholeInv, Does PROVE ReadsWholeStep
<1> SUFFICES ASSUME reader.pc = "copy", reader'.pc = "idle", board.live, "transfer" \notin failed
             PROVE  ReadsWholeStep
  BY DEF ReadsWholeStep
<1>1. Ordered /\ Reads BY DEF WholeInv
<1>2. TakesCopy BY CopyOnly
<1>3. QED BY <1>1, <1>2, PictureTaken DEF ReadsWholeStep

-----------------------------------------------------------------------------
(* The picture the worker waits for.                                       *)

Calm == Arrived = 0 /\ \A t \in Threads : run[t] = Idle
Ends(r) == (r.pc = "copy" /\ r.part.last) \/ r.pc = "end" \/ r.complete
EndsNow == Ends(run["action"])
Empty(r) == r.part = NoPart /\ r.pc # "end" /\ ~r.complete
Nothing == (\A i \in 1 .. Arrived : Coming(i) = NoPart) /\ \A t \in Threads : Empty(run[t])
Asked == {"loop", "count", "take", "give", "capture", "sleep"}

\* It is asked for, or its last part is the last that is on its way, or its callback
\* has yet to post the semaphore, or the semaphore is posted.
LastPart == \A i \in 1 .. Arrived : Coming(i).last => i = Arrived /\ vc.asked = 0
Waited ==
  /\ vc.asked \in {0, 1} /\ LastPart
  /\ EndsNow => Arrived = 0 /\ vc.asked = 0
  /\ semaphore.count > 0 => Calm /\ vc.asked = 0 /\ semaphore.count = 1
  /\ vc.asked = 0 => (Arrived > 0 /\ Coming(Arrived).last) \/ EndsNow \/ semaphore.count > 0
Token ==
  /\ worker.pc \in Asked => vc.asked = 0 /\ Calm /\ semaphore.count = 0
  /\ worker.pc = "await" => Waited
  /\ worker.pc \in Closing => vc.asked = 0 /\ Nothing
  /\ ~semaphore.misused
TokenInv == stills /\ "transfer" \notin failed => Token

\* The places of the worker before, in and after its wait.
LEMMA PcsAre ==
  /\ \A pc \in WorkerPcs : pc \in Asked \/ pc = "await" \/ pc \in Closing \/ pc \in Opening \cup {"exit"}
  /\ \A pc \in Closing : pc \notin Asked /\ pc # "await" /\ pc \notin Opening \cup {"exit"}
  /\ \A pc \in Asked : pc # "await" /\ pc \notin Opening \cup {"exit"} /\ pc \in Shooting
  /\ "await" \in Shooting /\ "await" \notin Opening \cup {"exit"}
BY DEF WorkerPcs, Asked, Closing, Disabling, Disabled, Opening, Shooting

\* Where nothing is on its way, no picture ends.
LEMMA CalmIs == ASSUME Calm PROVE Nothing /\ ~EndsNow
BY IdleIs, ThreadsAre DEF Calm, Nothing, Empty, EndsNow, Ends

\* Before the port is enabled, nothing is on its way.
LEMMA UnopenedCalm == ASSUME Unopened PROVE Calm /\ vc.asked = 0 /\ semaphore.count = 0
BY DEF Unopened, Calm, Arrived

\* Steps that do nothing for the picture that is waited for.
SameToken ==
  /\ component'.queue = component.queue /\ run' = run /\ vc'.asked = vc.asked
  /\ semaphore'.count = semaphore.count /\ semaphore'.misused = semaphore.misused

\* A step that leaves the picture and the semaphore alone keeps Token.
LEMMA TokenSame ==
  ASSUME Token, SameToken,
         worker'.pc = worker.pc \/ (worker.pc \in Asked /\ worker'.pc \in Asked)
           \/ (worker.pc \in Closing /\ worker'.pc \in Closing) \/ worker'.pc \in Opening \cup {"exit"}
           \/ (worker.pc \in Asked /\ worker'.pc \in Closing)
  PROVE  Token'
<1>1. Arrived' = Arrived /\ \A i : Coming(i)' = Coming(i) BY DEF SameToken, Arrived, Coming
<1>2. /\ (Calm => Calm') /\ (Nothing => Nothing') /\ (EndsNow' <=> EndsNow)
  BY <1>1 DEF SameToken, Calm, Nothing, EndsNow
<1>3. Waited => Waited' BY <1>1, <1>2 DEF SameToken, Waited, LastPart
<1>4. Calm => Nothing BY CalmIs
<1>5. worker'.pc \in Asked => vc'.asked = 0 /\ Calm' /\ semaphore'.count = 0
  BY <1>2, PcsAre DEF Token, SameToken
<1>6. worker'.pc = "await" => Waited' BY <1>3, PcsAre DEF Token
<1>7. worker'.pc \in Closing => vc'.asked = 0 /\ Nothing' BY <1>2, <1>4, PcsAre DEF Token, SameToken
<1>8. ~semaphore'.misused BY DEF Token, SameToken
<1>9. QED BY <1>5, <1>6, <1>7, <1>8 DEF Token

\* A part arrives only while the worker waits.
LEMMA TokenArrives ==
  ASSUME TypeInv, Control, stills, Token, PartArrives PROVE Token'
<1>1. PICK p \in Part : Fills(p) BY DEF PartArrives
<1>2. run' = run /\ semaphore' = semaphore /\ worker' = worker BY <1>1 DEF Fills, PartArrives, pluginVars
<1>3. vc.asked > 0
  <2>1. vc.part > 0 \/ vc.asked > 0 \/ vc.streams BY <1>1 DEF Fills, Encodes
  <2>2. QED BY <2>1 DEF TypeInv, Asking
<1>4. worker.pc = "await"
  <2>1. worker.pc \in WorkerPcs BY DEF TypeInv, PluginType, Workers
  <2>2. worker.pc \notin Asked /\ worker.pc \notin Closing BY <1>3 DEF Token
  <2>3. worker.pc \notin Opening \cup {"exit"} BY <1>3, UnopenedCalm DEF Control, Staged
  <2>4. QED BY <2>1, <2>2, <2>3, PcsAre
<1>5. Waited /\ vc.asked = 1 BY <1>3, <1>4 DEF Token, Waited
<1>6. vc'.asked = IF p.last THEN 0 ELSE 1
  <2>1. vc'.asked = IF p.last /\ vc.asked > 0 THEN vc.asked - 1 ELSE vc.asked BY <1>1 DEF Fills
  <2>2. QED BY <1>5, <2>1
<1>7. PICK n \in Nat : n = Arrived BY ArrivedIs
<1>8. /\ Arrived' = n + 1 /\ (\A i \in 1 .. n : Coming(i)' = Coming(i)) /\ (\A i : i = n + 1 => Coming(i)' = p)
  BY <1>1, <1>7, QueueArrives
<1>9. (\A i \in 1 .. n : ~Coming(i).last) /\ ~EndsNow /\ ~(semaphore.count > 0)
  BY <1>5, <1>7 DEF Waited, LastPart
<1>10. LastPart'
  <2>1. ASSUME NEW i \in 1 .. n + 1, Coming(i)'.last PROVE i = n + 1 /\ vc'.asked = 0
    <3>1. i = n + 1
      <4>1. ASSUME i # n + 1 PROVE FALSE
        <5>1. i \in 1 .. n BY <4>1
        <5>2. QED BY <1>8, <1>9, <2>1, <5>1
      <4>2. QED BY <4>1
    <3>2. p.last BY <1>8, <2>1, <3>1
    <3>3. QED BY <1>6, <3>1, <3>2
  <2>2. QED BY <1>8, <2>1 DEF LastPart
<1>11. ~EndsNow' BY <1>2, <1>9 DEF EndsNow
<1>12. ~(semaphore'.count > 0) BY <1>2, <1>9
<1>13. vc'.asked = 0 => Arrived' > 0 /\ Coming(Arrived)'.last
  <2>1. ASSUME vc'.asked = 0 PROVE component'.queue[n + 1].part.last
    <3>1. p.last BY <1>6, <2>1
    <3>2. Coming(n + 1)' = p BY <1>8
    <3>3. QED BY <3>1, <3>2 DEF Coming
  <2>2. Len(component'.queue) = n + 1 BY <1>8 DEF Arrived
  <2>3. vc'.asked = 0 => component'.queue[Len(component'.queue)].part.last BY <2>1, <2>2
  <2>4. n + 1 > 0 OBVIOUS
  <2>5. QED BY <1>8, <2>3, <2>4 DEF Coming, Arrived
<1>14. vc'.asked \in {0, 1} BY <1>6
<1>15. Waited' BY <1>10, <1>11, <1>12, <1>13, <1>14 DEF Waited
<1>16. QED BY <1>2, <1>4, <1>15, PcsAre DEF Token

\* The callback of the first part begins.
LEMMA TokenBegins ==
  ASSUME TypeInv, Control, Token, NEW t \in Threads, Begins(t), \A u \in Threads : run[u] = Idle,
         t = "action" \/ worker.pc \in Closing, UNCHANGED <<vc, semaphore, worker>>
  PROVE  Token'
<1>1. component.queue # <<>> /\ component'.queue = Tail(component.queue) BY DEF Begins
<1>2. PICK n \in Nat : n = Arrived BY ArrivedIs
<1>3. /\ n > 0 /\ Arrived' = n - 1 /\ Head(component.queue).part = Coming(1)
      /\ \A i \in 1 .. n - 1 : Coming(i)' = Coming(i + 1)
  BY <1>1, <1>2, QueueTail
<1>4. PICK p : p = Coming(1) OBVIOUS
<1>5. /\ run'[t].pc = "copy" /\ run'[t].part = p /\ run'[t].complete = FALSE
      /\ (\A u \in Threads \ {t} : run'[u] = Idle)
  <2>1. PICK e : e = Head(component.queue).header OBVIOUS
  <2>2. run'[t] = [pc |-> "copy", header |-> e, part |-> p, new |-> 0, complete |-> FALSE]
    BY <1>3, <1>4, <2>1 DEF Begins
  <2>3. \A u \in Threads \ {t} : run'[u] = Idle BY DEF Begins
  <2>4. QED BY <2>2, <2>3
<1>6. ~Calm BY <1>2, <1>3 DEF Calm
<1>7. worker.pc \notin Asked BY <1>6 DEF Token
<1>8. worker.pc = "await" => Waited'
  <2>1. ASSUME worker.pc = "await" PROVE Waited'
    <3>1. Waited /\ t = "action" BY <2>1, PcsAre DEF Token
    <3>2. ~(semaphore.count > 0) BY <1>6, <3>1 DEF Waited
    <3>3. ~EndsNow BY IdleIs, ThreadsAre DEF EndsNow, Ends
    <3>4. \A i \in 1 .. n : Coming(i).last => i = n /\ vc.asked = 0 BY <1>2, <3>1 DEF Waited, LastPart
    <3>5. LastPart'
      <4>1. ASSUME NEW i \in 1 .. n - 1, Coming(i)'.last PROVE i = n - 1 /\ vc.asked = 0
        <5>1. i + 1 \in 1 .. n BY <1>3
        <5>2. Coming(i + 1).last BY <1>3, <4>1
        <5>3. i + 1 = n /\ vc.asked = 0 BY <3>4, <5>1, <5>2
        <5>4. QED BY <5>3
      <4>2. QED BY <1>3, <4>1 DEF LastPart
    <3>6. EndsNow' <=> p.last BY <1>5, <3>1 DEF EndsNow, Ends
    <3>7. p.last => Arrived' = 0 /\ vc.asked = 0
      <4>1. 1 \in 1 .. n BY <1>3
      <4>2. p.last => 1 = n /\ vc.asked = 0 BY <1>4, <3>4, <4>1
      <4>3. QED BY <1>3, <4>2
    <3>8. vc.asked = 0 => (Arrived' > 0 /\ Coming(Arrived)'.last) \/ p.last
      <4>1. ASSUME vc.asked = 0, ~p.last PROVE n - 1 > 0 /\ component'.queue[n - 1].part.last
        <5>1. Coming(n).last BY <1>2, <3>1, <3>2, <3>3, <4>1 DEF Waited
        <5>2. n # 1 BY <1>4, <4>1, <5>1
        <5>3. n - 1 \in 1 .. n - 1 /\ (n - 1) + 1 = n /\ n - 1 > 0 BY <1>3, <5>2
        <5>4. \A i \in 1 .. n - 1 : component'.queue[i].part = Coming(i + 1) BY <1>3 DEF Coming
        <5>5. component'.queue[n - 1].part = Coming(n) BY <5>3, <5>4
        <5>6. QED BY <5>1, <5>3, <5>5
      <4>2. Len(component'.queue) = n - 1 BY <1>3 DEF Arrived
      <4>3. ASSUME vc.asked = 0, ~p.last PROVE component'.queue[Len(component'.queue)].part.last
        BY <4>1, <4>2, <4>3
      <4>4. QED BY <1>3, <4>1, <4>3 DEF Coming, Arrived
    <3>9. QED BY <3>1, <3>2, <3>5, <3>6, <3>7, <3>8 DEF Waited
  <2>2. QED BY <2>1
<1>9. worker.pc \in Closing => Nothing'
  <2>1. ASSUME worker.pc \in Closing PROVE Nothing'
    <3>1. \A i \in 1 .. n : Coming(i) = NoPart BY <1>2, <2>1 DEF Token, Nothing
    <3>2. ASSUME NEW i \in 1 .. n - 1 PROVE Coming(i)' = NoPart
      <4>1. i + 1 \in 1 .. n OBVIOUS
      <4>2. QED BY <1>3, <3>1, <4>1
    <3>3. p = NoPart
      <4>1. 1 \in 1 .. n BY <1>3
      <4>2. QED BY <1>4, <3>1, <4>1
    <3>4. \A u \in Threads : Empty(run'[u]) BY <1>5, <3>3, IdleIs DEF Empty
    <3>5. QED BY <1>3, <3>2, <3>4 DEF Nothing
  <2>2. QED BY <2>1
<1>10. QED BY <1>7, <1>8, <1>9 DEF Token

\* A callback goes on.
LEMMA TokenStays ==
  ASSUME TypeInv, Control, Token, Waited, NEW t \in Threads, t = "action", run[t] # Idle,
         QuietStep, EndsNow' <=> EndsNow, vc'.asked = vc.asked, semaphore' = semaphore
  PROVE  Waited'
<1>1. Arrived' = Arrived /\ \A i : Coming(i)' = Coming(i) BY DEF QuietStep, Arrived, Coming
<1>2. ~Calm BY DEF Calm
<1>3. ~(semaphore.count > 0) BY <1>2 DEF Waited
<1>4. QED BY <1>1, <1>3 DEF Waited, LastPart

\* The parts that come to an end in a callback are those of the picture.
LEMMA EndsStay ==
  ASSUME NEW t \in Threads, Copies(t) \/ Completes(t) \/ Returns(t) \/ Gets(t) \/ Refills(t),
         run[t].pc = "copy" => ~run[t].part.aborted
  PROVE  /\ Ends(run'[t]) <=> Ends(run[t])
         /\ Empty(run[t]) => Empty(run'[t])
<1>1. NoPart.last = FALSE BY DEF NoPart
<1>2. CASE Copies(t) BY <1>1, <1>2 DEF Copies, Goes, At, Ends, Empty
<1>3. CASE Completes(t) BY <1>3 DEF Completes, Goes, Ends, Empty
<1>4. CASE Returns(t) BY <1>4 DEF Returns, Goes, At, Ends, Empty
<1>5. CASE Gets(t) BY <1>5 DEF Gets, Goes, At, Ends, Empty
<1>6. CASE Refills(t) BY <1>6 DEF Refills, Goes, Ends, Empty
<1>7. QED BY <1>2, <1>3, <1>4, <1>5, <1>6

\* A callback that completes the picture posts the semaphore, once.
LEMMA TokenCallback ==
  ASSUME TypeInv, Control, CopyOrdered, Token, NEW t \in Threads, InCallback(t)
  PROVE  Token'
<1>1. QuietStep BY QuietCallback
<1>2. run[t] # Idle /\ \A u \in Threads \ {t} : run'[u] = run[u] /\ run[u] = Idle BY StaysBusy, OneBusy
<1>3. worker' = worker
  BY DEF InCallback, Copies, Completes, Returns, Gets, Refills, Finishes, pluginVars
<1>4. vc'.asked = vc.asked
  BY DEF InCallback, Copies, Completes, Returns, Gets, Refills, Finishes, EncoderKept
<1>5. Arrived' = Arrived /\ \A i : Coming(i)' = Coming(i) BY <1>1 DEF QuietStep, Arrived, Coming
<1>6. worker.pc \notin Asked BY <1>2 DEF Token, Calm
<1>7. worker.pc \notin Opening \cup {"exit"} BY <1>2, UnopenedCalm DEF Control, Staged, Calm
<1>8. run[t].pc = "copy" => ~run[t].part.aborted
  <2>1. NoPart.aborted = FALSE BY DEF NoPart
  <2>2. QED BY <2>1 DEF CopyOrdered, Sent
<1>9. worker.pc = "await" => t = "action"
  <2>1. run["worker"] # Idle => worker.pc = "drain" BY DEF Control, Acting
  <2>2. QED BY <1>2, <2>1, ThreadsAre
<1>10. CASE Copies(t) \/ Completes(t) \/ Returns(t) \/ Gets(t) \/ Refills(t)
  <2>1. (Ends(run'[t]) <=> Ends(run[t])) /\ (Empty(run[t]) => Empty(run'[t])) BY <1>8, <1>10, EndsStay
  <2>2. semaphore' = semaphore BY <1>10 DEF Copies, Completes, Returns, Gets, Refills, pluginVars
  <2>3. ASSUME worker.pc = "await" PROVE Waited'
    <3>1. EndsNow' <=> EndsNow BY <1>9, <2>1, <2>3 DEF EndsNow
    <3>2. QED BY <1>1, <1>2, <1>4, <1>9, <2>2, <2>3, <3>1, TokenStays DEF Token
  <2>4. ASSUME worker.pc \in Closing PROVE vc'.asked = 0 /\ Nothing'
    <3>1. Nothing /\ vc.asked = 0 BY <2>4 DEF Token
    <3>2. \A u \in Threads : Empty(run'[u]) BY <1>2, <2>1, <3>1 DEF Nothing
    <3>3. QED BY <1>4, <1>5, <3>1, <3>2 DEF Nothing
  <2>5. QED BY <1>3, <1>6, <2>2, <2>3, <2>4 DEF Token
<1>11. CASE Finishes(t)
  <2>1. \A u \in Threads : run'[u] = Idle BY <1>2, <1>11 DEF Finishes, Goes
  <2>2. run[t].pc = "done" BY <1>11 DEF Finishes
  <2>3. PICK c \in Nat : c = semaphore.count BY DEF TypeInv, PluginType, Semaphores
  <2>4. /\ semaphore'.count = c + Bit(run[t].complete /\ semaphore.live)
        /\ semaphore'.misused <=> semaphore.misused \/ (run[t].complete /\ ~semaphore.live)
    BY <1>11, <2>3 DEF Finishes
  <2>5. ASSUME worker.pc = "await" PROVE Waited' /\ ~semaphore'.misused
    <3>1. Waited /\ t = "action" BY <1>9, <2>5 DEF Token
    <3>2. semaphore.live BY <2>5 DEF Control, Staged, Shooting
    <3>3. ~(semaphore.count > 0) BY <1>2, <3>1 DEF Waited, Calm
    <3>4. EndsNow <=> run[t].complete BY <2>2, <3>1 DEF EndsNow, Ends
    <3>5. ~EndsNow' BY <2>1, IdleIs, ThreadsAre DEF EndsNow, Ends
    <3>6. run["action"].complete \in BOOLEAN BY ThreadsAre DEF TypeInv, MmalType, Runs
    <3>7. CASE run[t].complete
      <4>1. semaphore'.count = 1 BY <2>3, <2>4, <3>2, <3>3, <3>7 DEF Bit
      <4>2. Arrived = 0 /\ vc.asked = 0 BY <3>1, <3>4, <3>7 DEF Waited
      <4>3. Calm' BY <1>5, <2>1, <4>2 DEF Calm
      <4>4. LastPart' BY <1>5, <4>2 DEF LastPart
      <4>5. Waited' BY <1>4, <3>5, <4>1, <4>2, <4>3, <4>4 DEF Waited
      <4>6. ~semaphore'.misused BY <2>4, <3>2 DEF Token
      <4>7. QED BY <4>5, <4>6
    <3>8. CASE ~run[t].complete
      <4>1. semaphore'.count = c BY <2>3, <2>4, <3>8 DEF Bit
      <4>2. LastPart' BY <1>4, <1>5, <3>1 DEF LastPart, Waited
      <4>3. Waited' BY <1>4, <1>5, <2>3, <3>1, <3>3, <3>4, <3>5, <3>8, <4>1, <4>2 DEF Waited
      <4>4. ~semaphore'.misused BY <2>4, <3>2 DEF Token
      <4>5. QED BY <4>3, <4>4
    <3>9. QED BY <3>7, <3>8
  <2>6. ASSUME worker.pc \in Closing PROVE vc'.asked = 0 /\ Nothing' /\ ~semaphore'.misused
    <3>1. Nothing /\ vc.asked = 0 BY <2>6 DEF Token
    <3>2. ~run[t].complete BY <3>1 DEF Nothing, Empty
    <3>3. \A u \in Threads : Empty(run'[u]) BY <2>1, IdleIs DEF Empty
    <3>4. Nothing' BY <1>5, <3>1, <3>3 DEF Nothing
    <3>5. ~semaphore'.misused BY <2>4, <3>2 DEF Token
    <3>6. QED BY <1>4, <3>1, <3>4, <3>5
  <2>7. worker.pc \in WorkerPcs BY DEF TypeInv, PluginType, Workers
  <2>8. worker.pc = "await" \/ worker.pc \in Closing BY <1>6, <1>7, <2>7, PcsAre
  <2>9. ~semaphore'.misused BY <2>5, <2>6, <2>8
  <2>10. QED BY <1>3, <1>6, <2>5, <2>6, <2>9 DEF Token
<1>12. QED BY <1>10, <1>11 DEF InCallback

\* The worker.
LEMMA TokenOpens == ASSUME TypeInv, Control, stills, Token, Opens PROVE Token'
<1>1. CASE PortEnabled
  <2>1. Unopened BY <1>1 DEF Control, Staged, PortEnabled, Opening
  <2>2. worker'.pc = "loop" BY <1>1 DEF PortEnabled, WorkerAt
  <2>3. vc' = vc /\ component' = component /\ run' = run /\ semaphore'.count = semaphore.count
        /\ semaphore'.misused = semaphore.misused
    BY <1>1 DEF PortEnabled
  <2>4. Calm /\ vc.asked = 0 /\ semaphore.count = 0 BY <2>1, UnopenedCalm
  <2>5. Calm' BY <2>3, <2>4 DEF Calm, Arrived
  <2>6. "loop" \in Asked /\ "loop" # "await" /\ "loop" \notin Closing BY DEF Asked, Closing, Disabling, Disabled
  <2>7. QED BY <2>2, <2>3, <2>4, <2>5, <2>6 DEF Token
<1>2. CASE SetsUp \/ PoolMade \/ Connected
  <2>1. SameToken BY <1>2 DEF SetsUp, PoolMade, Connected, SameToken, mmalVars, EncoderKept
  <2>2. worker'.pc \in Opening \cup {"exit"} \/ (worker.pc \in Closing /\ worker'.pc \in Closing)
    BY <1>2 DEF SetsUp, PoolMade, Connected, WorkerAt, Opening, Closing, Disabling, Disabled
  <2>3. QED BY <2>1, <2>2, TokenSame
<1>3. QED BY <1>1, <1>2 DEF Opens

\* The worker asks for a picture when the last one is over, and waits for it.
LEMMA TokenShoots == ASSUME TypeInv, Control, stills, Token, Shoots PROVE Token'
<1>1. CASE Decided
  <2>1. SameToken BY <1>1 DEF Decided, SameToken, mmalVars
  <2>2. (worker.pc \in Asked /\ worker'.pc \in Asked \cup Closing)
        \/ (worker.pc \in Closing /\ worker'.pc \in Closing)
    BY <1>1 DEF Decided, Asked, Closing, Disabling, Disabled
  <2>3. QED BY <2>1, <2>2, TokenSame
<1>2. CASE Counted \/ HeaderTaken \/ HeaderGiven
  <2>1. SameToken
    <3>1. CASE Counted BY <3>1 DEF Counted, SameToken, mmalVars
    <3>2. CASE HeaderTaken BY <3>2 DEF HeaderTaken, SameToken
    <3>3. CASE HeaderGiven BY <3>3 DEF HeaderGiven, SameToken, EncoderKept
    <3>4. QED BY <1>2, <3>1, <3>2, <3>3
  <2>2. worker.pc \in Asked /\ worker'.pc \in Asked
    BY <1>2 DEF Counted, HeaderTaken, HeaderGiven, WorkerAt, Asked
  <2>3. QED BY <2>1, <2>2, TokenSame
<1>3. CASE Captured
  <2>1. worker.pc \in Asked BY <1>3 DEF Captured, Asked
  <2>2. vc.asked = 0 /\ Calm /\ semaphore.count = 0 BY <2>1 DEF Token
  <2>3. component' = component /\ run' = run /\ semaphore' = semaphore BY <1>3 DEF Captured
  <2>4. CASE vc'.asked = vc.asked + 1 /\ WorkerAt("await")
    <3>1. worker'.pc = "await" /\ vc'.asked = 1 BY <2>2, <2>4 DEF WorkerAt
    <3>2. Arrived' = 0 /\ ~EndsNow' BY <2>2, <2>3, CalmIs DEF Calm, Arrived, EndsNow
    <3>3. semaphore'.count = 0 /\ ~semaphore'.misused BY <2>2, <2>3 DEF Token
    <3>4. LastPart' BY <3>2 DEF LastPart
    <3>5. Waited' BY <3>1, <3>2, <3>3, <3>4 DEF Waited
    <3>6. QED BY <3>1, <3>3, <3>5, PcsAre DEF Token
  <2>5. CASE vc' = vc /\ WorkerAt("loop")
    <3>1. SameToken BY <2>3, <2>5 DEF SameToken
    <3>2. worker'.pc \in Asked BY <2>5 DEF WorkerAt, Asked
    <3>3. QED BY <2>1, <3>1, <3>2, TokenSame
  <2>6. QED BY <1>3, <2>4, <2>5 DEF Captured
<1>4. CASE Awaited
  <2>1. Waited /\ worker'.pc = "loop" BY <1>4 DEF Awaited, WorkerAt, Token
  <2>2. Calm /\ vc.asked = 0 /\ semaphore.count = 1 BY <1>4, <2>1 DEF Waited, Awaited
  <2>3. vc' = vc /\ component' = component /\ run' = run /\ semaphore'.count = semaphore.count - 1
        /\ semaphore'.misused = semaphore.misused
    BY <1>4 DEF Awaited, mmalVars
  <2>4. semaphore'.count = 0 BY <2>2, <2>3
  <2>5. Calm' BY <2>2, <2>3 DEF Calm, Arrived
  <2>6. "loop" \in Asked /\ "loop" # "await" /\ "loop" \notin Closing BY DEF Asked, Closing, Disabling, Disabled
  <2>7. QED BY <2>1, <2>2, <2>3, <2>4, <2>5, <2>6 DEF Token
<1>5. QED BY <1>1, <1>2, <1>3, <1>4 DEF Shoots

\* The semaphore is deleted when the picture is over.
LEMMA TokenCloses == ASSUME TypeInv, Control, Token, Closes PROVE Token'
<1>1. CASE Drained
  <2>1. worker.pc \in Closing /\ Begins("worker") /\ UNCHANGED <<vc, semaphore, worker>>
    BY <1>1 DEF Drained, Closing, Disabling
  <2>2. QED BY <1>1, <2>1, BeginsAlone, TokenBegins, ThreadsAre
<1>2. CASE PortDisabled /\ component'.queue = component.queue \o Emptied(vc.held) /\ vc'.held = <<>>
  <2>1. worker.pc \in Closing /\ worker'.pc \in Closing BY <1>2 DEF PortDisabled, Closing, Disabling
  <2>2. Nothing /\ vc.asked = 0 BY <2>1 DEF Token
  <2>3. run' = run /\ semaphore' = semaphore BY <1>2 DEF PortDisabled
  <2>4. vc'.asked = 0 BY <1>2, <2>2 DEF PortDisabled
  <2>5. PICK n \in Nat : n = Arrived BY ArrivedIs
  <2>6. PICK m \in Nat : m = Arrived' BY <1>2, QueueEmptied
  <2>7. (\A i \in 1 .. n : Coming(i)' = Coming(i)) /\ \A i \in 1 .. m : i > n => Coming(i)' = NoPart
    BY <1>2, <2>5, <2>6, QueueEmptied
  <2>8. ASSUME NEW i \in 1 .. m PROVE Coming(i)' = NoPart
    <3>1. CASE i > n BY <2>7, <3>1
    <3>2. CASE ~(i > n)
      <4>1. i \in 1 .. n BY <3>2
      <4>2. QED BY <2>2, <2>5, <2>7, <4>1 DEF Nothing
    <3>3. QED BY <3>1, <3>2
  <2>9. Nothing' BY <2>2, <2>3, <2>6, <2>8 DEF Nothing
  <2>10. QED BY <2>1, <2>3, <2>4, <2>9, PcsAre DEF Token
<1>3. CASE /\ ~Drained
           /\ ~(PortDisabled /\ component'.queue = component.queue \o Emptied(vc.held) /\ vc'.held = <<>>)
  <2>1. worker.pc \in Closing /\ worker'.pc \in Closing
    BY <1>3 DEF Closes, SemaphoreDeleted, SendingStopped, ActionLocked, PortDisabled, Unlocked, TransitAwaited,
           PoolFreed, ComponentsGone, BufferFreed, WorkerAt, Callers, Closing, Disabling, Disabled
  <2>2. SameToken
    BY <1>3 DEF Closes, SemaphoreDeleted, SendingStopped, ActionLocked, PortDisabled, Unlocked, TransitAwaited,
           PoolFreed, ComponentsGone, BufferFreed, SameToken, mmalVars
  <2>3. QED BY <2>1, <2>2, TokenSame
<1>4. QED BY <1>1, <1>2, <1>3

\* Whether stills are taken is said on the command line.
LEMMA StillsKept == ASSUME Does PROVE stills' = stills
<1>1. CASE Opens \/ Shoots \/ Closes
  BY <1>1 DEF Opens, Shoots, Closes, SetsUp, PoolMade, Connected, PortEnabled, Decided, Counted, HeaderTaken,
         HeaderGiven, Captured, Awaited, SemaphoreDeleted, SendingStopped, ActionLocked, PortDisabled, Drained,
         Unlocked, TransitAwaited, PoolFreed, ComponentsGone, BufferFreed
<1>2. ASSUME NEW t \in Threads, InCallback(t) PROVE stills' = stills
  BY <1>2 DEF InCallback, Copies, Completes, Returns, Gets, Refills, Finishes, pluginVars
<1>3. CASE PartArrives \/ ActionBegins \/ Reading \/ Stops
  BY <1>3 DEF PartArrives, ActionBegins, Reading, Waits, Locks, TakesCopy, Stops, pluginVars
<1>4. QED BY <1>1, <1>2, <1>3 DEF Does

\* Whatever is done, TokenInv is kept.
LEMMA TokenKept == ASSUME TypeInv, Control, Parts, WholeInv, TokenInv, Does PROVE TokenInv'
<1>1. stills' = stills BY StillsKept
<1>2. ASSUME stills, "transfer" \notin failed' PROVE Token'
  <2>1. Token /\ CopyOrdered BY <1>2, FailedGrows DEF TokenInv, WholeInv, Ordered
  <2>2. CASE PartArrives BY <1>2, <2>1, <2>2, TokenArrives
  <2>3. CASE ActionBegins
    <3>1. Begins("action") /\ UNCHANGED <<vc, semaphore, worker>> BY <2>3 DEF ActionBegins, pluginVars
    <3>2. QED BY <2>1, <2>3, <3>1, BeginsAlone, TokenBegins, ThreadsAre
  <2>4. ASSUME NEW t \in Threads, InCallback(t) PROVE Token' BY <2>1, <2>4, TokenCallback
  <2>5. CASE Opens \/ Shoots \/ Closes BY <1>2, <2>1, <2>5, TokenOpens, TokenShoots, TokenCloses
  <2>6. CASE Reading \/ Stops
    <3>1. SameToken /\ worker' = worker BY <2>6 DEF Reading, Waits, Locks, TakesCopy, Stops, SameToken, mmalVars
    <3>2. QED BY <2>1, <3>1, TokenSame
  <2>7. QED BY <2>2, <2>3, <2>4, <2>5, <2>6 DEF Does
<1>3. QED BY <1>1, <1>2 DEF TokenInv

\* In the beginning no picture is asked for.
LEMMA FirstToken == ASSUME Init PROVE TokenInv
<1>1. worker.pc = "camera" /\ ~semaphore.misused BY DEF Init
<1>2. "camera" \in Opening BY DEF Opening
<1>3. worker.pc \notin Asked /\ worker.pc # "await" /\ worker.pc \notin Closing BY <1>1, <1>2, PcsAre
<1>4. QED BY <1>1, <1>3 DEF TokenInv, Token

-----------------------------------------------------------------------------
(* Headers are counted, and given to the port, while nothing moves.        *)

Giving == {"count", "take", "give", "capture"}
Reliable == ~stills \/ "transfer" \notin failed
Settled == Calm /\ vc.part = 0 /\ vc.asked = 0 /\ ~vc.streams
Counting ==
  /\ ~stills => worker.pc \notin {"loop", "await"} /\ (worker.pc \in Giving => Settled)
  /\ Reliable /\ worker.pc = "take" => worker.num <= Len(pool.queue)
  /\ Reliable /\ worker.pc = "give" => worker.num <= Len(pool.queue) + 1
  /\ fault = "null header" => ~Reliable
  /\ worker.num <= BufferNum

\* While headers are counted and given, nothing moves that has one.
LEMMA SettledIs == ASSUME TypeInv, Counting, TokenInv, Reliable, worker.pc \in Giving PROVE Settled
<1>1. CASE ~stills BY <1>1 DEF Counting
<1>2. CASE stills
  <2>1. worker.pc \in Asked BY DEF Giving, Asked
  <2>2. Calm /\ vc.asked = 0 BY <1>2, <2>1 DEF Reliable, TokenInv, Token
  <2>3. ~vc.streams /\ (vc.part > 0 => vc.asked > 0) BY <1>2 DEF TypeInv, Asking
  <2>4. vc.part = 0 BY <2>2, <2>3, EncoderNumbers
  <2>5. QED BY <2>2, <2>3, <2>4 DEF Settled
<1>3. QED BY <1>1, <1>2

\* So no part arrives and no callback runs.
LEMMA SettledStill ==
  ASSUME TypeInv, Settled
  PROVE  ~PartArrives /\ ~ActionBegins /\ ~Drained /\ \A t \in Threads : ~InCallback(t)
<1>1. ~PartArrives
  <2>1. ASSUME NEW p \in Part, Fills(p) PROVE FALSE
    <3>1. vc.part > 0 \/ vc.asked > 0 \/ vc.streams BY <2>1 DEF Fills, Encodes
    <3>2. QED BY <3>1 DEF Settled
  <2>2. QED BY <2>1 DEF PartArrives
<1>2. component.queue = <<>> BY ArrivedIs DEF Settled, Calm
<1>3. ~ActionBegins /\ ~Drained BY <1>2 DEF ActionBegins, Drained, Begins
<1>4. \A t \in Threads : ~InCallback(t) BY StaysBusy DEF Settled, Calm
<1>5. QED BY <1>1, <1>3, <1>4

\* Callbacks take headers and give some back, but not while these are counted.
LEMMA CountingMoves ==
  ASSUME TypeInv, Counting, TokenInv, Does,
         PartArrives \/ ActionBegins \/ Drained \/ (\E t \in Threads : InCallback(t))
  PROVE  Counting'
<1>1. worker.pc \in Giving => ~Reliable
  <2>1. ASSUME worker.pc \in Giving, Reliable PROVE FALSE
    <3>1. Settled BY <2>1, SettledIs
    <3>2. QED BY <3>1, SettledStill
  <2>2. QED BY <2>1
<1>2. worker' = worker
  BY DEF PartArrives, ActionBegins, Drained, InCallback, Copies, Completes, Returns, Gets, Refills, Finishes,
         pluginVars
<1>3. stills' = stills /\ failed \subseteq failed' BY StillsKept, FailedGrows
<1>4. Reliable' => Reliable BY <1>3 DEF Reliable
<1>5. fault' = "null header" => fault = "null header"
  BY DEF PartArrives, ActionBegins, Drained, Fills, Begins, InCallback, Copies, Completes, Returns, Gets, Refills,
         Finishes
<1>6. fault' = "null header" => ~Reliable' BY <1>4, <1>5 DEF Counting
<1>7. ~stills => worker.pc \notin Giving BY <1>1 DEF Reliable
<1>8. QED BY <1>1, <1>2, <1>3, <1>4, <1>6, <1>7 DEF Counting, Giving

\* Opening keeps Counting: no header is counted yet.
LEMMA CountingOpens == ASSUME TypeInv, Control, Counting, Opens PROVE Counting'
<1>1. failed' = failed /\ fault' = fault /\ stills' = stills /\ worker'.num = worker.num
  BY DEF Opens, SetsUp, PoolMade, Connected, PortEnabled, WorkerAt, mmalVars
<1>2. CASE PortEnabled
  <2>1. Unopened BY <1>2 DEF Control, Staged, PortEnabled, Opening
  <2>2. vc' = vc /\ component' = component /\ run' = run BY <1>2 DEF PortEnabled
  <2>3. Settled BY <2>1, UnopenedCalm DEF Settled, Unopened
  <2>4. Settled' BY <2>2, <2>3 DEF Settled, Calm, Arrived
  <2>5. worker'.pc = IF stills THEN "loop" ELSE "count" BY <1>2 DEF PortEnabled, WorkerAt
  <2>6. QED BY <1>1, <2>4, <2>5 DEF Counting, Reliable
<1>3. CASE SetsUp \/ PoolMade \/ Connected
  <2>1. worker'.pc \notin {"loop", "await", "count", "take", "give", "capture"}
    BY <1>3 DEF SetsUp, PoolMade, Connected, WorkerAt
  <2>2. QED BY <1>1, <2>1 DEF Counting, Reliable, Giving
<1>4. QED BY <1>2, <1>3 DEF Opens

\* The worker takes no more headers than it has counted.
LEMMA CountingShoots ==
  ASSUME TypeInv, Control, InPlace, Counting, TokenInv, Shoots, Does PROVE Counting'
<1>1. stills' = stills /\ failed \subseteq failed' BY StillsKept, FailedGrows
<1>2. Reliable' => Reliable BY <1>1 DEF Reliable
<1>3. ASSUME worker.pc \in Giving, ~stills PROVE Settled BY <1>3, SettledIs DEF Reliable
<1>4. CASE Decided
  <2>1. vc' = vc /\ component' = component /\ run' = run /\ fault' = fault /\ failed' = failed
        /\ worker'.num = worker.num
    BY <1>4 DEF Decided, mmalVars
  <2>2. worker'.pc \in {"delete", "off"} \/ (worker.pc = "loop" /\ worker'.pc = "count") BY <1>4 DEF Decided
  <2>3. QED BY <1>1, <2>1, <2>2 DEF Counting, Reliable, Giving
<1>5. CASE Counted
  <2>1. vc' = vc /\ component' = component /\ run' = run /\ fault' = fault /\ failed' = failed /\ pool' = pool
    BY <1>5 DEF Counted, mmalVars
  <2>2. worker.pc = "count" /\ worker'.pc = "take" /\ worker'.num = Len(pool.queue) BY <1>5 DEF Counted
  <2>3. PICK n \in Nat : n = Len(pool.queue) BY QueueLengths
  <2>4. n <= BufferNum BY <2>3, Few
  <2>5. ~stills => Settled' BY <1>3, <2>1, <2>2 DEF Giving, Settled, Calm, Arrived
  <2>6. worker'.num <= Len(pool'.queue) BY <2>1, <2>2, <2>3
  <2>7. worker'.num <= BufferNum BY <2>2, <2>3, <2>4
  <2>8. QED BY <1>1, <2>1, <2>2, <2>5, <2>6, <2>7 DEF Counting, Reliable
<1>6. CASE HeaderTaken
  <2>1. vc' = vc /\ component' = component /\ run' = run /\ failed' = failed /\ worker.pc = "take"
    BY <1>6 DEF HeaderTaken
  <2>2. ~stills => Settled' BY <1>3, <2>1 DEF Giving, Settled, Calm, Arrived
  <2>3. worker.num \in Nat /\ Reliable => worker.num <= Len(pool.queue) BY <2>1 DEF Counting
  <2>4. worker.num \in Nat BY DEF TypeInv, PluginType, Workers
  <2>5. CASE worker'.pc = "capture" /\ worker'.num = worker.num /\ fault' = fault
    BY <1>1, <2>1, <2>2, <2>5 DEF Counting, Reliable
  <2>6. CASE Takes /\ worker'.pc = "give" /\ worker'.num = worker.num /\ fault' = fault
    <3>1. Len(pool'.queue) = Len(pool.queue) - 1 BY <2>6, TailLength, QueueLengths DEF Takes
    <3>2. PICK n \in Nat : n = Len(pool.queue) BY QueueLengths
    <3>3. Len(pool'.queue) + 1 = n BY <3>1, <3>2
    <3>4. Reliable => worker'.num <= Len(pool'.queue) + 1 BY <2>3, <2>4, <2>6, <3>2, <3>3
    <3>5. QED BY <1>1, <1>2, <2>1, <2>2, <2>6, <3>4 DEF Counting
  <2>7. CASE worker.num > 0 /\ pool.queue = <<>> /\ fault' = "null header" /\ UNCHANGED <<pool, worker>>
    <3>1. Len(pool.queue) = 0
      <4>1. pool.queue = <<>> BY <2>7
      <4>2. Len(<<>>) = 0 OBVIOUS
      <4>3. QED BY <4>1, <4>2, Zenon
    <3>2. ~Reliable
      <4>1. PICK k \in Nat : k = worker.num BY <2>4
      <4>2. k > 0 BY <2>7, <4>1
      <4>3. Reliable => k <= 0
        <5>1. Reliable => worker.num <= Len(pool.queue) BY <2>3, <2>4
        <5>2. QED BY <3>1, <4>1, <5>1, Zenon
      <4>4. QED BY <4>2, <4>3
    <3>3. ~Reliable' BY <1>2, <3>2
    <3>4. QED BY <1>1, <2>1, <2>2, <2>7, <3>3 DEF Counting
  <2>8. QED BY <1>6, <2>5, <2>6, <2>7 DEF HeaderTaken, WorkerAt
<1>7. CASE HeaderGiven
  <2>1. worker.pc = "give" /\ worker'.pc = "take" /\ worker'.num = worker.num - 1 /\ pool' = pool /\ fault' = fault
        /\ component' = component /\ run' = run /\ EncoderKept
    BY <1>7 DEF HeaderGiven
  <2>2. ~stills => Settled' BY <1>3, <2>1 DEF Giving, Settled, Calm, Arrived, EncoderKept
  <2>3. PICK k \in Nat : k = worker.num BY DEF TypeInv, PluginType, Workers
  <2>4. PICK n \in Nat : n = Len(pool.queue) BY QueueLengths
  <2>5. Reliable => k <= n + 1 BY <2>1, <2>3, <2>4 DEF Counting
  <2>6. Reliable => worker'.num <= Len(pool'.queue) BY <2>1, <2>3, <2>4, <2>5
  <2>7. worker'.num <= BufferNum
    <3>1. k <= BufferNum BY <2>3 DEF Counting
    <3>2. QED BY <2>1, <2>3, <3>1, EncoderNumbers
  <2>8. QED BY <1>1, <1>2, <2>1, <2>2, <2>6, <2>7 DEF Counting
<1>8. CASE Captured
  <2>1. worker'.pc = (IF stills THEN worker'.pc ELSE "sleep") /\ worker'.pc \in {"await", "loop", "sleep"}
        /\ worker'.num = worker.num /\ fault' = fault
    BY <1>8 DEF Captured, WorkerAt
  <2>2. QED BY <1>1, <1>2, <2>1 DEF Counting, Giving
<1>9. CASE Awaited
  <2>1. worker.pc = "await" /\ worker'.pc = "loop" /\ worker'.num = worker.num /\ fault' = fault /\ failed' = failed
    BY <1>9 DEF Awaited, WorkerAt, mmalVars
  <2>2. QED BY <1>1, <2>1 DEF Counting, Reliable, Giving
<1>10. QED BY <1>4, <1>5, <1>6, <1>7, <1>8, <1>9 DEF Shoots

\* Closing keeps Counting: headers are not counted any more.
LEMMA CountingCloses == ASSUME Counting, Closes, ~Drained, Does PROVE Counting'
<1>1. stills' = stills /\ failed \subseteq failed' BY StillsKept, FailedGrows
<1>2. Reliable' => Reliable BY <1>1 DEF Reliable
<1>3. worker'.pc \in Closing /\ worker'.num = worker.num /\ (fault' = "null header" => fault = "null header")
  BY DEF Closes, SemaphoreDeleted, SendingStopped, ActionLocked, PortDisabled, Unlocked, TransitAwaited,
         PoolFreed, ComponentsGone, BufferFreed, WorkerAt, Callers, Closing, Disabling, Disabled, mmalVars
<1>4. worker'.pc \notin {"loop", "await", "count", "take", "give", "capture"}
  BY <1>3 DEF Closing, Disabling, Disabled
<1>5. QED BY <1>1, <1>2, <1>3, <1>4 DEF Counting, Giving

\* Whatever is done, Counting is kept.
LEMMA CountingKept == ASSUME TypeInv, Control, InPlace, Counting, TokenInv, Does PROVE Counting'
<1>1. CASE PartArrives \/ ActionBegins \/ Drained \/ (\E t \in Threads : InCallback(t)) BY <1>1, CountingMoves
<1>2. CASE Opens BY <1>2, CountingOpens
<1>3. CASE Shoots BY <1>3, CountingShoots
<1>4. CASE Closes /\ ~Drained BY <1>4, CountingCloses
<1>5. CASE Reading \/ Stops
  <2>1. /\ worker' = worker /\ pool' = pool /\ vc' = vc /\ component' = component /\ run' = run /\ failed' = failed
        /\ fault' = fault /\ stills' = stills
    BY <1>5 DEF Reading, Waits, Locks, TakesCopy, Stops, mmalVars
  <2>2. Settled' <=> Settled BY <2>1 DEF Settled, Calm, Arrived
  <2>3. QED BY <2>1, <2>2 DEF Counting, Reliable
<1>6. QED BY <1>1, <1>2, <1>3, <1>4, <1>5 DEF Does

\* In the beginning nothing is counted.
LEMMA FirstCounting == ASSUME Init PROVE Counting
<1>1. worker.pc = "camera" /\ worker.num = 0 /\ fault = "none" BY DEF Init, MmalInit
<1>2. BufferNum \in Nat BY MmalAssumption
<1>3. QED BY <1>1, <1>2 DEF Counting, Giving

-----------------------------------------------------------------------------
(* The semaphore counts no more than the parts that the encoder has filled. *)

Most == MaxFrames * MaxParts
Filled == IF vc.part = 0 THEN vc.frame * MaxParts ELSE (vc.frame - 1) * MaxParts + vc.part
InAction == Bit(run["action"] # Idle)
Pending == Arrived + InAction
Posted ==
  /\ semaphore.live => semaphore.count + Pending <= Filled
  /\ semaphore.count <= Most

\* A product grows with its factor.
LEMMA LessTimes == ASSUME NEW m \in Nat, NEW a \in Nat, NEW b \in Nat, a <= b PROVE a * m \in Nat /\ a * m <= b * m
<1>1. PICK d \in Nat : b = a + d
  <2>1. b - a \in Nat /\ b = a + (b - a) OBVIOUS
  <2>2. QED BY <2>1
<1>2. b * m = a * m + d * m BY <1>1
<1>3. d * m \in Nat /\ a * m \in Nat OBVIOUS
<1>4. PICK x \in Nat, y \in Nat : x = a * m /\ y = d * m BY <1>3
<1>5. b * m = x + y BY <1>2, <1>4
<1>6. x <= b * m BY <1>5
<1>7. QED BY <1>3, <1>4, <1>6

\* As many parts as the pictures up to now have are no more than all pictures have.
LEMMA FilledBound ==
  ASSUME NEW f \in Nat, NEW k \in Nat, NEW m \in Nat, NEW l \in Nat, f <= l, k < m, k > 0 => f > 0,
         NEW n, n = IF k = 0 THEN f * m ELSE (f - 1) * m + k
  PROVE  n \in Nat /\ l * m \in Nat /\ n <= l * m
<1>1. f * m \in Nat /\ f * m <= l * m BY LessTimes
<1>2. l * m \in Nat OBVIOUS
<1>3. CASE k = 0
  <2>1. n = f * m BY <1>3
  <2>2. QED BY <1>1, <1>2, <2>1
<1>4. CASE k # 0
  <2>1. PICK e \in Nat : f = e + 1
    <3>1. f > 0 BY <1>4
    <3>2. f - 1 \in Nat /\ f = (f - 1) + 1 BY <3>1
    <3>3. QED BY <3>2
  <2>2. f - 1 = e /\ f * m = e * m + m BY <2>1
  <2>3. e * m \in Nat OBVIOUS
  <2>4. PICK x \in Nat, y \in Nat, z \in Nat : x = e * m /\ y = f * m /\ z = l * m BY <1>1, <1>2, <2>3
  <2>5. n = x + k
    <3>1. n = (f - 1) * m + k BY <1>4
    <3>2. QED BY <2>2, <2>4, <3>1
  <2>6. y = x + m /\ y <= z BY <1>1, <2>2, <2>4
  <2>7. x + k \in Nat /\ x + k <= z BY <2>6
  <2>8. QED BY <2>4, <2>5, <2>7
<1>5. QED BY <1>3, <1>4

\* No more parts are filled than there may be.
LEMMA FilledIs == ASSUME TypeInv PROVE Filled \in Nat /\ Most \in Nat /\ Filled <= Most
<1>1. PICK f \in Nat, k \in Nat, m \in Nat, l \in Nat : f = vc.frame /\ k = vc.part /\ m = MaxParts /\ l = MaxFrames
  BY EncoderNumbers
<1>2. f <= l /\ k < m /\ (k > 0 => f > 0) BY <1>1, EncoderNumbers DEF TypeInv, Asking
<1>3. PICK n : n = IF k = 0 THEN f * m ELSE (f - 1) * m + k OBVIOUS
<1>4. n \in Nat /\ l * m \in Nat /\ n <= l * m BY <1>2, <1>3, FilledBound
<1>5. Filled = n /\ Most = l * m BY <1>1, <1>3 DEF Filled, Most
<1>6. QED BY <1>4, <1>5

\* The same, after a step.
LEMMA FilledThen == ASSUME TypeInv' PROVE Filled' \in Nat /\ Most \in Nat /\ Filled' <= Most
<1>1. MaxFrames \in Nat /\ MaxParts \in Nat BY MmalAssumption
<1>2. vc'.part \in PartNos /\ vc'.frame \in FrameNos BY DEF TypeInv, MmalType, Vcs
<1>3. PICK f \in Nat, k \in Nat, m \in Nat, l \in Nat :
        f = vc'.frame /\ k = vc'.part /\ m = MaxParts /\ l = MaxFrames
  BY <1>1, <1>2 DEF PartNos, FrameNos
<1>4. f <= l /\ k < m /\ (k > 0 => f > 0) BY <1>1, <1>2, <1>3 DEF PartNos, FrameNos, TypeInv, Asking
<1>5. PICK n : n = IF k = 0 THEN f * m ELSE (f - 1) * m + k OBVIOUS
<1>6. n \in Nat /\ l * m \in Nat /\ n <= l * m BY <1>4, <1>5, FilledBound
<1>7. Filled' = n /\ Most = l * m BY <1>3, <1>5 DEF Filled, Most
<1>8. QED BY <1>6, <1>7

\* A part that arrives is one more.
LEMMA FilledGrows == ASSUME TypeInv, NEW p \in Part, Fills(p) PROVE Filled' \in Int /\ Filled' >= Filled + 1
<1>1. PICK f \in Nat, k \in Nat, m \in Nat : f = vc.frame /\ k = vc.part /\ m = MaxParts BY EncoderNumbers
<1>2. k < m /\ (k > 0 => f > 0) BY <1>1, EncoderNumbers DEF TypeInv, Asking
<1>3. /\ p.no = k + 1 /\ p.frame = (IF k = 0 THEN f + 1 ELSE f)
      /\ vc'.frame = p.frame /\ vc'.part = IF p.last THEN 0 ELSE p.no
  BY <1>1 DEF Fills, Follows, Encoded, After
<1>4. Filled = IF k = 0 THEN f * m ELSE (f - 1) * m + k BY <1>1 DEF Filled
<1>5. CASE k = 0
  <2>1. f * m \in Nat /\ (f + 1) * m = f * m + m OBVIOUS
  <2>2. PICK x \in Nat : x = f * m BY <2>1
  <2>3. Filled = x BY <1>4, <1>5, <2>2
  <2>4. vc'.frame = f + 1 /\ p.no = 1 BY <1>3, <1>5
  <2>5. CASE p.last
    <3>1. vc'.part = 0 BY <1>3, <2>5
    <3>2. Filled' = (f + 1) * m BY <1>1, <2>4, <3>1 DEF Filled
    <3>3. Filled' = x + m BY <2>1, <2>2, <3>2
    <3>4. x + m >= x + 1 /\ x + m \in Int BY <1>2
    <3>5. QED BY <2>3, <3>3, <3>4
  <2>6. CASE ~p.last
    <3>1. vc'.part = 1 BY <1>3, <2>4, <2>6
    <3>2. Filled' = (f + 1 - 1) * m + 1 BY <1>1, <2>4, <3>1 DEF Filled
    <3>3. f + 1 - 1 = f OBVIOUS
    <3>4. Filled' = x + 1 BY <2>2, <3>2, <3>3
    <3>5. QED BY <2>3, <3>4
  <2>7. QED BY <2>5, <2>6
<1>6. CASE k # 0
  <2>1. PICK e \in Nat : f = e + 1
    <3>1. f > 0 BY <1>2, <1>6
    <3>2. f - 1 \in Nat /\ f = (f - 1) + 1 BY <3>1
    <3>3. QED BY <3>2
  <2>2. f - 1 = e /\ f * m = e * m + m /\ e * m \in Nat BY <2>1
  <2>3. PICK x \in Nat : x = e * m BY <2>2
  <2>4. Filled = x + k
    <3>1. Filled = (f - 1) * m + k BY <1>4, <1>6
    <3>2. QED BY <2>2, <2>3, <3>1
  <2>5. vc'.frame = f /\ p.no = k + 1 BY <1>3, <1>6
  <2>6. CASE p.last
    <3>1. vc'.part = 0 BY <1>3, <2>6
    <3>2. Filled' = f * m BY <1>1, <2>5, <3>1 DEF Filled
    <3>3. Filled' = x + m BY <2>2, <2>3, <3>2
    <3>4. x + m >= x + k + 1 /\ x + m \in Int BY <1>2
    <3>5. QED BY <2>4, <3>3, <3>4
  <2>7. CASE ~p.last
    <3>1. vc'.part = k + 1 /\ k + 1 # 0 BY <1>3, <2>5, <2>7
    <3>2. Filled' = (f - 1) * m + (k + 1) BY <1>1, <2>5, <3>1 DEF Filled
    <3>3. Filled' = x + (k + 1) BY <2>2, <2>3, <3>2
    <3>4. x + (k + 1) >= x + k + 1 /\ x + (k + 1) \in Int OBVIOUS
    <3>5. QED BY <2>4, <3>3, <3>4
  <2>8. QED BY <2>6, <2>7
<1>7. QED BY <1>5, <1>6

\* What Posted counts are numbers.
LEMMA PostedNumbers ==
  ASSUME TypeInv PROVE semaphore.count \in Nat /\ Arrived \in Nat /\ InAction \in {0, 1} /\ Pending \in Nat
<1>1. semaphore.count \in Nat BY DEF TypeInv, PluginType, Semaphores
<1>2. InAction \in {0, 1} BY DEF InAction, Bit
<1>3. QED BY <1>1, <1>2, ArrivedIs DEF Pending

\* The same, after a step.
LEMMA NumbersThen ==
  ASSUME TypeInv' PROVE semaphore'.count \in Nat /\ InAction' \in {0, 1} /\ Pending' \in Nat
<1>1. semaphore'.count \in Nat BY DEF TypeInv, PluginType, Semaphores
<1>2. InAction' \in {0, 1} BY DEF InAction, Bit
<1>3. component'.queue \in Seq(Entries) BY DEF TypeInv, MmalType, Components, EntrySeqs
<1>4. Arrived' \in Nat BY <1>3 DEF Arrived
<1>5. PICK a \in Nat, b \in {0, 1} : a = Arrived' /\ b = InAction' BY <1>2, <1>4
<1>6. a + b \in Nat OBVIOUS
<1>7. Pending' = a + b BY <1>5 DEF Pending
<1>8. QED BY <1>1, <1>2, <1>6, <1>7

\* Fewer are pending or posted, or more are filled, or the semaphore is not there.
LEMMA PostedThen ==
  ASSUME TypeInv', Posted, semaphore'.live => semaphore'.count + Pending' <= Filled',
         semaphore'.live \/ semaphore'.count = semaphore.count
  PROVE  Posted'
<1>1. Most' = Most BY DEF Most
<1>2. CASE semaphore'.live
  <2>1. PICK c \in Nat, r \in Nat : c = semaphore'.count /\ r = Pending' BY NumbersThen
  <2>2. PICK f \in Nat, m \in Nat : f = Filled' /\ m = Most' /\ f <= m BY <1>1, FilledThen
  <2>3. c + r <= f BY <1>2, <2>1, <2>2
  <2>4. c <= m BY <2>2, <2>3
  <2>5. QED BY <1>2, <2>1, <2>2, <2>4 DEF Posted
<1>3. CASE ~semaphore'.live BY <1>1, <1>3 DEF Posted
<1>4. QED BY <1>2, <1>3

\* Where the encoder has not moved, as many parts are filled.
LEMMA FilledSame == ASSUME vc'.frame = vc.frame, vc'.part = vc.part PROVE Filled' = Filled BY DEF Filled

SamePending ==
  component'.queue = component.queue /\ (run'["action"] # Idle <=> run["action"] # Idle)

\* Where no callback begins or ends, as many posts are to come.
LEMMA PendingSame == ASSUME SamePending PROVE Pending' = Pending
<1>1. Arrived' = Arrived BY DEF SamePending, Arrived
<1>2. InAction' = InAction BY DEF SamePending, InAction, Bit
<1>3. QED BY <1>1, <1>2 DEF Pending

\* A step that posts nothing and fills nothing keeps Posted.
LEMMA PostedSame ==
  ASSUME TypeInv', Posted, SamePending, vc'.frame = vc.frame, vc'.part = vc.part,
         semaphore'.live => semaphore.live, semaphore'.count = semaphore.count
  PROVE  Posted'
<1>1. Pending' = Pending /\ Filled' = Filled BY PendingSame, FilledSame
<1>2. QED BY <1>1, PostedThen DEF Posted

\* A part that arrives may be posted once.
LEMMA PostedArrives == ASSUME TypeInv, TypeInv', Posted, PartArrives PROVE Posted'
<1>1. PICK p \in Part : Fills(p) BY DEF PartArrives
<1>2. semaphore' = semaphore /\ run' = run BY <1>1 DEF Fills, PartArrives, pluginVars
<1>3. PICK c \in Nat, a \in Nat, b \in Nat : c = semaphore.count /\ a = Arrived /\ b = InAction BY PostedNumbers
<1>4. PICK f \in Nat : f = Filled BY FilledIs
<1>5. PICK g \in Nat : g = Filled' /\ g >= f + 1 BY <1>1, <1>4, FilledGrows, FilledThen
<1>6. Arrived' = a + 1 BY <1>1, <1>3, QueueArrives
<1>7. InAction' = b BY <1>2, <1>3 DEF InAction
<1>8. semaphore.live => c + (a + b) <= f BY <1>3, <1>4 DEF Posted, Pending
<1>9. semaphore.live => c + ((a + 1) + b) <= g BY <1>5, <1>8
<1>10. semaphore'.live => semaphore'.count + Pending' <= Filled'
  <2>1. Pending' = (a + 1) + b BY <1>6, <1>7 DEF Pending
  <2>2. QED BY <1>2, <1>3, <1>5, <1>9, <2>1
<1>11. QED BY <1>2, <1>10, PostedThen

\* A callback that begins posts for the part that it took.
LEMMA PostedBegins == ASSUME TypeInv, TypeInv', Posted, ActionBegins PROVE Posted'
<1>1. semaphore' = semaphore /\ vc' = vc /\ Begins("action") BY DEF ActionBegins, pluginVars
<1>2. PICK c \in Nat, a \in Nat : c = semaphore.count /\ a = Arrived BY PostedNumbers
<1>3. Arrived' = a - 1 BY <1>1, <1>2, QueueTail DEF Begins
<1>4. InAction = 0 BY <1>1 DEF Begins, InAction, Bit
<1>5. InAction' \in {0, 1} BY NumbersThen
<1>6. PICK b \in {0, 1} : b = InAction' BY <1>5
<1>7. Filled' = Filled BY <1>1, FilledSame
<1>8. PICK f \in Nat : f = Filled BY FilledIs
<1>9. semaphore.live => c + (a + 0) <= f BY <1>2, <1>4, <1>8 DEF Posted, Pending
<1>10. semaphore.live => c + ((a - 1) + b) <= f BY <1>9
<1>11. Pending' = (a - 1) + b BY <1>3, <1>6 DEF Pending
<1>12. QED BY <1>1, <1>2, <1>7, <1>8, <1>10, <1>11, PostedThen

\* A callback that ends has posted once at most.
LEMMA PostedFinishes ==
  ASSUME TypeInv, Control, TypeInv', Posted, NEW t \in Threads, Finishes(t) PROVE Posted'
<1>1. PICK c \in Nat, a \in Nat : c = semaphore.count /\ a = Arrived BY PostedNumbers
<1>2. Arrived' = a BY <1>1 DEF Finishes, Arrived
<1>3. Filled' = Filled BY FilledSame DEF Finishes
<1>4. PICK f \in Nat : f = Filled BY FilledIs
<1>5. semaphore'.live = semaphore.live /\ semaphore'.count = c + Bit(run[t].complete /\ semaphore.live)
  BY <1>1 DEF Finishes
<1>6. CASE semaphore.live
  <2>1. t = "action"
    <3>1. run[t] # Idle BY IdleIs DEF Finishes
    <3>2. run["worker"] # Idle => worker.pc = "drain" BY DEF Control, Acting
    <3>3. worker.pc # "drain" BY <1>6 DEF Control, Staged, Shooting
    <3>4. QED BY <3>1, <3>2, <3>3, ThreadsAre
  <2>2. InAction = 1 /\ InAction' = 0
    <3>1. run["action"] # Idle BY <2>1, IdleIs DEF Finishes
    <3>2. run'["action"] = Idle BY <2>1 DEF Finishes, Goes
    <3>3. QED BY <3>1, <3>2 DEF InAction, Bit
  <2>3. c + (a + 1) <= f BY <1>1, <1>4, <1>6, <2>2 DEF Posted, Pending
  <2>4. PICK d \in {0, 1} : d = Bit(run[t].complete /\ semaphore.live) BY DEF Bit
  <2>5. (c + d) + (a + 0) <= f BY <2>3
  <2>6. semaphore'.count = c + d BY <1>5, <2>4
  <2>7. Pending' = a + 0 BY <1>2, <2>2 DEF Pending
  <2>8. QED BY <1>3, <1>4, <1>5, <1>6, <2>5, <2>6, <2>7, PostedThen
<1>7. CASE ~semaphore.live
  <2>1. semaphore'.count = c BY <1>1, <1>5, <1>7 DEF Bit
  <2>2. ~semaphore'.live BY <1>5, <1>7
  <2>3. QED BY <1>1, <2>1, <2>2, PostedThen
<1>8. QED BY <1>6, <1>7

\* A callback keeps Posted.
LEMMA PostedCallback ==
  ASSUME TypeInv, Control, TypeInv', Posted, NEW t \in Threads, InCallback(t) PROVE Posted'
<1>1. CASE Finishes(t) BY <1>1, PostedFinishes
<1>2. CASE Copies(t) \/ Completes(t) \/ Returns(t) \/ Gets(t) \/ Refills(t)
  <2>1. semaphore' = semaphore /\ component' = component /\ vc'.frame = vc.frame /\ vc'.part = vc.part
    BY <1>2 DEF Copies, Completes, Returns, Gets, Refills, pluginVars, EncoderKept
  <2>2. ~Finishes(t)
    BY <1>2 DEF Copies, Completes, Returns, Gets, Refills, Finishes
  <2>3. run[t] # Idle /\ run'[t] # Idle /\ \A u \in Threads \ {t} : run'[u] = run[u] BY <2>2, StaysBusy
  <2>4. run'["action"] # Idle <=> run["action"] # Idle BY <2>3, ThreadsAre
  <2>5. QED BY <2>1, <2>4, PostedSame DEF SamePending
<1>3. QED BY <1>1, <1>2 DEF InCallback

\* The worker posts nothing.
LEMMA PostedWorker ==
  ASSUME TypeInv, Control, TypeInv', Control', Posted, Opens \/ Shoots \/ Closes PROVE Posted'
<1>1. CASE PortEnabled
  <2>1. Unopened BY <1>1 DEF Control, Staged, PortEnabled, Opening
  <2>2. semaphore'.count = 0 /\ component'.queue = <<>> /\ run'["action"] = Idle
    BY <1>1, <2>1, ThreadsAre DEF PortEnabled, Unopened
  <2>3. Arrived' = 0 /\ InAction' = 0 BY <2>2 DEF Arrived, InAction, Bit
  <2>4. Pending' = 0 BY <2>3 DEF Pending
  <2>5. Filled' \in Nat BY FilledThen
  <2>6. semaphore'.count + Pending' <= Filled' BY <2>2, <2>4, <2>5
  <2>7. semaphore'.count = semaphore.count BY <1>1 DEF PortEnabled
  <2>8. QED BY <2>6, <2>7, PostedThen
<1>2. CASE Awaited
  <2>1. PICK c \in Nat, r \in Nat : c = semaphore.count /\ r = Pending BY PostedNumbers
  <2>2. vc' = vc /\ component' = component /\ run' = run /\ c > 0 /\ semaphore'.count = c - 1
        /\ semaphore'.live = semaphore.live
    BY <1>2, <2>1 DEF Awaited, mmalVars
  <2>3. Pending' = r BY <2>1, <2>2, PendingSame DEF SamePending
  <2>4. PICK f \in Nat : f = Filled BY FilledIs
  <2>5. Filled' = f BY <2>2, <2>4, FilledSame
  <2>6. semaphore.live BY <1>2 DEF Awaited, Control, Staged, Shooting
  <2>7. c + r <= f BY <2>1, <2>4, <2>6 DEF Posted
  <2>8. (c - 1) + r <= f BY <2>7
  <2>9. QED BY <2>2, <2>3, <2>5, <2>6, <2>8, PostedThen
<1>3. CASE (Opens /\ ~PortEnabled) \/ (Shoots /\ ~Awaited)
  <2>1. semaphore' = semaphore /\ component' = component /\ run' = run /\ vc'.frame = vc.frame /\ vc'.part = vc.part
    BY <1>3 DEF Opens, SetsUp, PoolMade, Connected, Shoots, Decided, Counted, HeaderTaken, HeaderGiven, Captured,
           EncoderKept, mmalVars
  <2>2. QED BY <2>1, PostedSame DEF SamePending
<1>4. CASE Closes
  <2>1. semaphore'.count = semaphore.count
    BY <1>4 DEF Closes, SemaphoreDeleted, SendingStopped, ActionLocked, PortDisabled, Drained, Unlocked,
           TransitAwaited, PoolFreed, ComponentsGone, BufferFreed, mmalVars
  <2>2. worker'.pc \notin Shooting \cup {"delete"}
    BY <1>4 DEF Closes, SemaphoreDeleted, SendingStopped, ActionLocked, PortDisabled, Drained, Unlocked,
           TransitAwaited, PoolFreed, ComponentsGone, BufferFreed, WorkerAt, Callers, Shooting
  <2>3. ~semaphore'.live BY <2>2 DEF Control, Staged
  <2>4. QED BY <2>1, <2>3, PostedThen
<1>5. QED BY <1>1, <1>2, <1>3, <1>4

\* Whatever is done, Posted is kept.
LEMMA PostedKept == ASSUME TypeInv, Control, Posted, Does PROVE Posted'
<1>1. TypeInv' /\ Control' BY TypeInvKept, ControlKept
<1>2. CASE PartArrives BY <1>1, <1>2, PostedArrives
<1>3. CASE ActionBegins BY <1>1, <1>3, PostedBegins
<1>4. ASSUME NEW t \in Threads, InCallback(t) PROVE Posted' BY <1>1, <1>4, PostedCallback
<1>5. CASE Opens \/ Shoots \/ Closes BY <1>1, <1>5, PostedWorker
<1>6. CASE Reading \/ Stops
  <2>1. semaphore' = semaphore /\ component' = component /\ run' = run /\ vc' = vc
    BY <1>6 DEF Reading, Waits, Locks, TakesCopy, Stops, mmalVars
  <2>2. QED BY <1>1, <2>1, PostedSame DEF SamePending
<1>7. QED BY <1>2, <1>3, <1>4, <1>5, <1>6 DEF Does

\* In the beginning nothing is posted.
LEMMA FirstPosted == ASSUME Init PROVE Posted
<1>1. semaphore.count = 0 /\ ~semaphore.live BY DEF Init
<1>2. Most \in Nat BY FirstTypes, FilledIs
<1>3. QED BY <1>1, <1>2 DEF Posted

-----------------------------------------------------------------------------
(* The invariant, and what it says.                                        *)

IInv == TypeInv /\ Control /\ InPlace /\ Parts /\ WholeInv /\ TokenInv /\ Counting /\ Posted

\* The invariant holds in the beginning.
LEMMA FirstIInv == ASSUME Init PROVE IInv
BY FirstTypes, FirstControl, FirstInPlace, FirstParts, FirstWhole, FirstToken, FirstCounting, FirstPosted DEF IInv

\* A step that changes nothing.
LEMMA NoStep == ASSUME IInv, UNCHANGED vars PROVE IInv'
<1>1. /\ pool' = pool /\ port' = port /\ component' = component /\ vc' = vc /\ run' = run /\ mayFail' = mayFail
      /\ failed' = failed /\ fault' = fault /\ stills' = stills /\ stop' = stop /\ worker' = worker
      /\ semaphore' = semaphore /\ offset' = offset /\ board' = board /\ reader' = reader
  BY DEF vars, mmalVars, pluginVars
<1>2. TypeInv' BY <1>1 DEF IInv, TypeInv, MmalType, PluginType, Asking, Named
<1>3. Control'
  <2>1. Unopened => Unopened' BY <1>1 DEF Unopened
  <2>2. InTransit' BY <1>1 DEF IInv, Control, InTransit, Busy
  <2>3. Staged' BY <1>1, <2>1 DEF IInv, Control, Staged
  <2>4. Disablings' BY <1>1 DEF IInv, Control, Disablings
  <2>5. Acting' BY <1>1 DEF IInv, Control, Acting
  <2>6. QED BY <2>2, <2>3, <2>4, <2>5 DEF Control
<1>4. InPlace'
  <2>1. ASSUME NEW h PROVE Places(h)' = Places(h) BY <1>1 DEF Places, Both, Hand
  <2>2. QED BY <1>1, <2>1 DEF IInv, InPlace, Excused
<1>5. Arrived' = Arrived /\ (\A i : Coming(i)' = Coming(i)) /\ (Linked' <=> Linked) /\ Encoded' = Encoded
      /\ Copied' = Copied
  BY <1>1 DEF Arrived, Coming, Linked, Encoded, Copied
<1>6. QuietStep BY <1>1, <1>5 DEF QuietStep
<1>7. Parts' BY <1>1, <1>6, PartsQuiet DEF IInv
<1>8. WholeInv'
  <2>1. ASSUME "transfer" \notin failed PROVE Ordered' /\ Reads'
    <3>1. Ordered /\ Reads BY <2>1 DEF IInv, WholeInv
    <3>2. Ordered' BY <1>1, <1>6, <3>1, OrderedQuiet DEF SamePicture, SameCallbacks
    <3>3. Reads' BY <1>1, <3>1, ReadsSame DEF ReadsQuiet
    <3>4. QED BY <3>2, <3>3
  <2>2. QED BY <1>1, <2>1 DEF WholeInv
<1>9. TokenInv'
  <2>1. SameToken BY <1>1 DEF SameToken
  <2>2. QED BY <1>1, <2>1, TokenSame DEF IInv, TokenInv
<1>10. Counting' BY <1>1, <1>5 DEF IInv, Counting, Reliable, Settled, Calm
<1>11. Posted' BY <1>1, <1>2, PostedSame DEF IInv, SamePending
<1>12. QED BY <1>2, <1>3, <1>4, <1>7, <1>8, <1>9, <1>10, <1>11 DEF IInv

\* Every step keeps the invariant.
LEMMA IInvKept == ASSUME IInv, [Next]_vars PROVE IInv'
<1>1. CASE Next
  <2>1. Does BY <1>1, Steps DEF IInv
  <2>2. QED
    BY <2>1, TypeInvKept, ControlKept, InPlaceKept, PartsKept, WholeKept, TokenKept, CountingKept, PostedKept
    DEF IInv
<1>2. CASE UNCHANGED vars BY <1>2, NoStep
<1>3. QED BY <1>1, <1>2

\* The invariant holds in every state of a behaviour.
LEMMA Invariant == Spec => []IInv
<1>1. Init => IInv BY FirstIInv
<1>2. IInv /\ [Next]_vars => IInv' BY IInvKept
<1>3. QED BY <1>1, <1>2, PTL DEF Spec

\* A header is in one place of all those the worker, the callbacks, the library
\* and the VideoCore keep; it is lost only when sending it failed or the program
\* ends, and none is anywhere when mmal_port_pool_destroy frees the pool.
THEOREM EachHeaderAccounted == Spec => []HeadersAccounted
<1>1. IInv => HeadersAccounted BY Accounted DEF IInv
<1>2. QED BY <1>1, Invariant, PTL

\* As long as no transfer failed and the global buffer is there, what an output
\* plugin copies from it is all parts of one picture, in order, and of a newer
\* one each time; where pthread_cond_wait may return unasked, of none before the
\* first, or of the same one again, but never of an older one.
THEOREM EachPictureWhole == Spec => ReadsWhole
<1>1. IInv /\ [Next]_vars =>
        [reader.pc = "copy" /\ reader'.pc = "idle" /\ board.live /\ "transfer" \notin failed =>
           \/ "wakeup" \in mayFail /\ reader.got = <<>> /\ reader'.got = <<>>
           \/ /\ WholePicture(reader'.got)
              /\ reader.got # <<>> =>
                   \/ reader'.got[1].frame > reader.got[1].frame
                   \/ "wakeup" \in mayFail /\ reader'.got[1].frame = reader.got[1].frame]_vars
  <2>1. ASSUME IInv, Next PROVE ReadsWholeStep BY <2>1, Steps, ReadsWholeDone DEF IInv
  <2>2. QED BY <2>1 DEF ReadsWholeStep
<1>2. QED BY <1>1, Invariant, PTL DEF Spec, ReadsWhole

\* What the parts of the invariant say of the faults.
LEMMA Explained == ASSUME IInv PROVE FaultsExplained
<1>1. fault = "null header" => stills /\ "transfer" \in failed BY DEF IInv, Counting, Reliable
<1>2. (fault = "freed context" => "disable" \in failed) /\ fault # "no callback" BY DEF IInv, Control, Disablings
<1>3. semaphore.misused => ~stills \/ "transfer" \in failed BY DEF IInv, TokenInv, Token
<1>4. QED BY <1>1, <1>2, <1>3 DEF FaultsExplained

\* A missing header is sent only after a transfer that failed, a context that is
\* freed is used only when the port could not be disabled, no callback is missing,
\* and the semaphore that worker_thread deletes is not posted afterwards, but by
\* video or after a transfer that failed.
THEOREM EachFaultExplained == Spec => []FaultsExplained
<1>1. IInv => FaultsExplained BY Explained
<1>2. QED BY <1>1, Invariant, PTL

\* What the parts of the invariant say of the ranges.
LEMMA Typed == ASSUME IInv PROVE TypeOK
<1>1. /\ TypeInv /\ Control /\ InPlace /\ Parts /\ Counting /\ Posted BY DEF IInv
<1>2. pool \in [state : {"none", "live", "freed"}, queue : Seq(Headers)]
  BY <1>1 DEF TypeInv, MmalType, Pools, PoolStates, HeaderSeqs
<1>3. port \in [enabled : BOOLEAN, callback : BOOLEAN, contexts : BOOLEAN, transit : 0 .. BufferNum + 1]
  <2>1. port \in Ports /\ port.transit \in 0 .. BufferNum + 1 BY <1>1, Few DEF TypeInv, MmalType
  <2>2. QED BY <2>1 DEF Ports
<1>4. component.owner \in {"none"} \cup Threads /\ component.queue \in Seq([header : Headers, part : Part])
      /\ component.destroyed \in BOOLEAN
  BY <1>1 DEF TypeInv, MmalType, Components, Owners, EntrySeqs, Entries
<1>5. vc.held \in Seq(Headers) /\ vc.streams \in BOOLEAN /\ vc.fed \in BOOLEAN
      /\ vc.frame \in 0 .. MaxFrames /\ vc.part \in 0 .. MaxParts - 1
  BY <1>1 DEF TypeInv, MmalType, Vcs, HeaderSeqs, FrameNos, PartNos
<1>6. vc.asked \in 0 .. MaxFrames
  <2>1. PICK f \in Nat, k \in Nat, a \in Nat, l \in Nat :
          f = vc.frame /\ k = vc.part /\ a = vc.asked /\ l = MaxFrames
    BY <1>1, EncoderNumbers
  <2>2. (k > 0 => f > 0) /\ (~stills => a = 0) BY <1>1, <2>1 DEF TypeInv, Asking
  <2>3. stills => f + a <= l + Bit(k > 0) BY <1>1, <2>1 DEF TypeInv, Asking
  <2>4. a \in 0 .. l BY <2>2, <2>3 DEF Bit
  <2>5. QED BY <2>1, <2>4
<1>7. run \in [Threads -> [pc : {"idle", "copy", "end", "release", "get", "send", "done"},
                           header : 0 .. BufferNum, part : Part, new : 0 .. BufferNum, complete : BOOLEAN]]
  BY <1>1 DEF TypeInv, MmalType, Runs, RunPcs, HeaderNos
<1>8. \E t \in Threads : run[t] = Idle BY <1>1, OneBusy, ThreadsAre
<1>9. failed \subseteq mayFail /\ mayFail \in FailureSets
      /\ fault \in {"none", "freed context", "no callback", "null header"}
  BY <1>1 DEF TypeInv, MmalType
<1>10. worker.pc \in {"camera", "encoder", "pool", "connect", "enable", "exit", "loop", "count", "take", "give",
                      "capture", "await", "sleep", "delete", "off", "lock", "message", "drain", "transit",
                      "disconnect", "pools", "components", "cleanup", "ended"}
  BY <1>1 DEF TypeInv, PluginType, Workers, WorkerPcs, Opening, Shooting, Closing, Disabling, Disabled
<1>11. worker.num \in 0 .. BufferNum /\ worker.hand \in 0 .. BufferNum /\ worker.round \in 1 .. 3
       /\ worker.ok \in BOOLEAN
  <2>1. worker.num \in Nat /\ worker.num <= BufferNum /\ BufferNum \in Nat
    BY <1>1, MmalAssumption DEF TypeInv, PluginType, Workers, Counting
  <2>2. worker.hand \in 0 .. BufferNum /\ worker.round \in 1 .. 3 /\ worker.ok \in BOOLEAN
    BY <1>1 DEF TypeInv, PluginType, Workers, HeaderNos, Rounds
  <2>3. QED BY <2>1, <2>2
<1>12. semaphore \in [live : BOOLEAN, count : 0 .. MaxFrames * MaxParts, misused : BOOLEAN]
  <2>1. PICK c \in Nat, m \in Nat : c = semaphore.count /\ m = MaxFrames * MaxParts
    BY <1>1, PostedNumbers, FilledIs DEF Most
  <2>2. c <= m BY <1>1, <2>1 DEF Posted, Most
  <2>3. c \in 0 .. m BY <2>2
  <2>4. semaphore \in Semaphores BY <1>1 DEF TypeInv, PluginType
  <2>5. QED BY <2>1, <2>3, <2>4 DEF Semaphores
<1>13. offset \in 0 .. MaxParts
  <2>1. offset \in Nat /\ offset <= MaxParts /\ MaxParts \in Nat BY <1>1, BoardIs
  <2>2. QED BY <2>1
<1>14. board \in [owner : {"none", "callback", "reader"}, live : BOOLEAN, buf : [1 .. MaxParts -> Part],
                  size : 0 .. MaxParts]
  <2>1. board.size \in Nat /\ board.size <= MaxParts /\ MaxParts \in Nat BY <1>1, BoardIs
  <2>2. board.size \in 0 .. MaxParts BY <2>1
  <2>3. board \in BoardsOf BY <1>1 DEF TypeInv, PluginType
  <2>4. QED BY <2>2, <2>3 DEF BoardsOf, Lockers, Buffers
<1>15. reader.pc \in {"idle", "wait", "woken", "copy"} /\ reader.size \in 0 .. MaxParts
  <2>1. reader.size \in Nat /\ reader.size <= MaxParts /\ MaxParts \in Nat
    BY <1>1, BoardIs DEF TypeInv, PluginType, Parts, Sizes
  <2>2. QED BY <1>1, <2>1 DEF TypeInv, PluginType
<1>16. stills \in BOOLEAN /\ stop \in BOOLEAN BY <1>1 DEF TypeInv, PluginType
<1>17. QED
  BY <1>2, <1>3, <1>4, <1>5, <1>6, <1>7, <1>8, <1>9, <1>10, <1>11, <1>12, <1>13, <1>14, <1>15, <1>16
  DEF TypeOK

\* The state is of the right type: no picture has more parts than the buffer has
\* room for, encoder_buffer_callback is in one thread at most, and no more headers
\* are on their way, counted or posted than there may be.
THEOREM TypeCorrect == Spec => []TypeOK
<1>1. IInv => TypeOK BY Typed
<1>2. QED BY <1>1, Invariant, PTL

=============================================================================
