------------------------------ MODULE Raspicam ------------------------------
(***************************************************************************)
(* The input plugin of the Raspberry Pi's camera (input_raspicam.c) on the *)
(* MMAL library: its worker, which sets the camera up, asks for pictures   *)
(* and closes everything, the callback of the encoder, which copies the    *)
(* parts of a picture to the global buffer, and one output plugin.         *)
(*                                                                         *)
(* The worker cannot be cancelled: input_stop changes nothing, it ends     *)
(* because main has set stop.  The end of the process, which main does not *)
(* hold back for this thread, is left to Streamer.                         *)
(*                                                                         *)
(* Mutants, which no specification uses, stand before what they replace.   *)
(***************************************************************************)
EXTENDS Mmal

VARIABLES
  stills,     \* -usestills: pictures one by one, else video
  stop,       \* pglobal->stop
  worker,     \* worker_thread
  semaphore,  \* complete_semaphore; was it posted after its deletion
  offset,     \* callback_data.offset, in parts
  board,      \* pglobal->in[plugin_number]: db, buf, size
  reader      \* an output plugin

pluginVars == <<stills, stop, worker, semaphore, offset, board, reader>>
vars == <<mmalVars, pluginVars>>

Init ==
  /\ MmalInit
  /\ stills \in BOOLEAN
  /\ stop = FALSE
  /\ worker = [pc |-> "camera", num |-> 0, hand |-> 0, round |-> 1, ok |-> TRUE]
  /\ semaphore = [live |-> FALSE, count |-> 0, misused |-> FALSE]
  /\ offset = 0
  /\ board = [owner |-> "none", live |-> TRUE, buf |-> [i \in 1 .. MaxParts |-> NoPart], size |-> 0]
  /\ reader = [pc |-> "idle", size |-> 0, got |-> <<>>]

\* Nothing runs any longer in a process that crashed or called exit.
Running == fault = "none" /\ worker.pc # "exit"

-----------------------------------------------------------------------------
(* encoder_buffer_callback, in the thread t.                               *)

CallbackSteps(t, pc) == run[t].pc = pc

\* Mutant: every part leaves db unlocked.
CopyPart_Unlocks(t) ==
  /\ CallbackSteps(t, "copy")
  /\ LET part == run[t].part
     IN  /\ part.data => board.owner = "none"
         /\ board' = IF ~part.data THEN board ELSE [board EXCEPT !.buf[offset + 1] = part]
         /\ offset' = IF part.data THEN offset + 1 ELSE offset
         /\ run' = [run EXCEPT ![t].pc = IF part.last \/ part.aborted THEN "end" ELSE "release"]
  /\ UNCHANGED <<pool, port, component, vc, mayFail, failed, fault, stills, stop, worker, semaphore, reader>>

\* A part with data is copied behind the ones before it; the first one locks db.
CopyPart(t) ==
  /\ CallbackSteps(t, "copy")
  /\ LET part == run[t].part
     IN  /\ part.data /\ offset = 0 => board.owner = "none"
         /\ board' = IF ~part.data THEN board
                     ELSE [board EXCEPT !.owner = IF offset = 0 THEN "callback" ELSE @, !.buf[offset + 1] = part]
         /\ offset' = IF part.data THEN offset + 1 ELSE offset
         /\ run' = [run EXCEPT ![t].pc = IF part.last \/ part.aborted THEN "end" ELSE "release"]
  /\ UNCHANGED <<pool, port, component, vc, mayFail, failed, fault, stills, stop, worker, semaphore, reader>>

\* The end of a picture, or a transfer that failed: db is unlocked, whoever
\* locked it.
EndPicture(t) ==
  /\ CallbackSteps(t, "end")
  /\ board' = [board EXCEPT !.size = offset, !.owner = "none"]
  /\ offset' = 0
  /\ reader' = IF reader.pc = "wait" THEN [reader EXCEPT !.pc = "woken"] ELSE reader
  /\ run' = [run EXCEPT ![t].pc = "release", ![t].complete = TRUE]
  /\ UNCHANGED <<pool, port, component, vc, mayFail, failed, fault, stills, stop, worker, semaphore>>

\* Mutant: the port gets nothing back.
Release_NoRefill(t) ==
  /\ CallbackSteps(t, "release")
  /\ HeaderRelease(run[t].header)
  /\ run' = [run EXCEPT ![t].pc = "done"]
  /\ UNCHANGED <<port, component, vc, mayFail, failed, fault, pluginVars>>

\* The header goes back to the pool; a port still enabled gets another one.
Release(t) ==
  /\ CallbackSteps(t, "release")
  /\ HeaderRelease(run[t].header)
  /\ run' = [run EXCEPT ![t].pc = IF port.enabled THEN "get" ELSE "done"]
  /\ UNCHANGED <<port, component, vc, mayFail, failed, fault, pluginVars>>

GetHeader(t) ==
  /\ CallbackSteps(t, "get")
  /\ \/ /\ pool.queue # <<>>
        /\ pool' = [pool EXCEPT !.queue = Tail(@)]
        /\ run' = [run EXCEPT ![t].pc = "send", ![t].new = Head(pool.queue)]
     \/ /\ pool.queue = <<>>
        /\ run' = [run EXCEPT ![t].pc = "done"]
        /\ UNCHANGED pool
  /\ UNCHANGED <<port, component, vc, mayFail, failed, fault, pluginVars>>

SendHeader(t) ==
  /\ CallbackSteps(t, "send")
  /\ SendBuffer(run[t].new)
  /\ run' = [run EXCEPT ![t].pc = "done", ![t].new = 0]
  /\ UNCHANGED <<pool, component, mayFail, fault, pluginVars>>

\* A complete picture posts the semaphore, deleted or not.
CallbackEnds(t) ==
  /\ CallbackSteps(t, "done")
  /\ CallbackReturns(t)
  /\ semaphore' = IF ~run[t].complete THEN semaphore
                  ELSE IF semaphore.live THEN [semaphore EXCEPT !.count = @ + 1]
                  ELSE [semaphore EXCEPT !.misused = TRUE]
  /\ UNCHANGED <<pool, vc, mayFail, failed, fault, stills, stop, worker, offset, board, reader>>

Callback(t) ==
  \/ CopyPart(t) \/ EndPicture(t) \/ Release(t) \/ GetHeader(t) \/ SendHeader(t) \/ CallbackEnds(t)

-----------------------------------------------------------------------------
(* worker_thread: from the camera to the port of the encoder.              *)

AtWorker(pc) == worker.pc = pc
WorkerGoes(pc) == worker' = [worker EXCEPT !.pc = pc]

NextStage == [camera |-> "encoder", encoder |-> "pool", pool |-> "connect", connect |-> "enable"]

CreateComponents ==
  /\ worker.pc \in {"camera", "encoder"}
  /\ WorkerGoes(NextStage[worker.pc])
  /\ UNCHANGED <<mmalVars, stills, stop, semaphore, offset, board, reader>>

CreatePool ==
  /\ AtWorker("pool")
  /\ PoolCreate
  /\ WorkerGoes("connect")
  /\ UNCHANGED <<port, component, vc, run, mayFail, failed, fault, stills, stop, semaphore, offset, board, reader>>

Connect ==
  /\ AtWorker("connect")
  /\ vc' = [vc EXCEPT !.fed = TRUE]
  /\ WorkerGoes("enable")
  /\ UNCHANGED <<pool, port, component, run, mayFail, failed, fault, stills, stop, semaphore, offset, board, reader>>

EnablePort ==
  /\ AtWorker("enable")
  /\ PortEnable
  /\ semaphore' = [semaphore EXCEPT !.live = TRUE]
  /\ WorkerGoes(IF stills THEN "loop" ELSE "count")
  /\ UNCHANGED <<pool, component, vc, run, mayFail, failed, fault, stills, stop, offset, board, reader>>

\* What cannot be created, connected or enabled ends the whole process.
SetupFails ==
  /\ worker.pc \in {"camera", "encoder", "pool", "connect", "enable"}
  /\ WorkerGoes("exit")
  /\ UNCHANGED <<mmalVars, stills, stop, semaphore, offset, board, reader>>

-----------------------------------------------------------------------------
(* worker_thread: taking pictures.                                         *)

Unmoved == UNCHANGED <<stills, stop, offset, board, reader>>

\* The loop over stills ends when main has set stop.  Pictures are bounded here,
\* where nothing is half done.
StillsLoop ==
  /\ AtWorker("loop")
  /\ \/ stop /\ WorkerGoes("delete")
     \/ ~stop /\ vc.frame + vc.asked < MaxFrames /\ WorkerGoes("count")
  /\ UNCHANGED <<mmalVars, semaphore>> /\ Unmoved

\* Mutant: one header more.
CountHeaders_OneMore ==
  /\ AtWorker("count")
  /\ worker' = [worker EXCEPT !.pc = "take", !.num = Len(pool.queue) + 1]
  /\ UNCHANGED <<mmalVars, semaphore>> /\ Unmoved

\* mmal_queue_length; as many headers are sent, though callbacks may take some of
\* them meanwhile.
CountHeaders ==
  /\ AtWorker("count")
  /\ worker' = [worker EXCEPT !.pc = "take", !.num = Len(pool.queue)]
  /\ UNCHANGED <<mmalVars, semaphore>> /\ Unmoved

\* A header that is not there is reported, and sent all the same.
TakeHeader ==
  /\ AtWorker("take")
  /\ \/ /\ worker.num = 0 /\ WorkerGoes("capture")
        /\ UNCHANGED <<pool, fault>>
     \/ /\ worker.num > 0 /\ pool.queue # <<>>
        /\ worker' = [worker EXCEPT !.pc = "give", !.hand = Head(pool.queue)]
        /\ pool' = [pool EXCEPT !.queue = Tail(@)]
        /\ UNCHANGED fault
     \/ /\ worker.num > 0 /\ pool.queue = <<>>
        /\ fault' = "null header"
        /\ UNCHANGED <<pool, worker>>
  /\ UNCHANGED <<port, component, vc, run, mayFail, failed, semaphore>> /\ Unmoved

GiveHeader ==
  /\ AtWorker("give")
  /\ SendBuffer(worker.hand)
  /\ worker' = [worker EXCEPT !.pc = "take", !.hand = 0, !.num = @ - 1]
  /\ UNCHANGED <<pool, component, run, mayFail, fault, semaphore>> /\ Unmoved

\* Mutant: the next picture is begun while this one is under way.
Capture_NoWait ==
  /\ AtWorker("capture")
  /\ vc' = IF stills THEN [vc EXCEPT !.asked = @ + 1] ELSE [vc EXCEPT !.streams = TRUE]
  /\ WorkerGoes(IF stills THEN "loop" ELSE "sleep")
  /\ UNCHANGED <<pool, port, component, run, mayFail, failed, fault, semaphore>> /\ Unmoved

\* MMAL_PARAMETER_CAPTURE: one picture of the still port, or the video starts.
Capture ==
  /\ AtWorker("capture")
  /\ \/ /\ vc' = IF stills THEN [vc EXCEPT !.asked = @ + 1] ELSE [vc EXCEPT !.streams = TRUE]
        /\ WorkerGoes(IF stills THEN "await" ELSE "sleep")
        /\ UNCHANGED failed
     \/ /\ MayFail("capture")
        /\ failed' = failed \cup {"capture"}
        /\ WorkerGoes(IF stills THEN "loop" ELSE "sleep")
        /\ UNCHANGED vc
  /\ UNCHANGED <<pool, port, component, run, mayFail, fault, semaphore>> /\ Unmoved

\* The wait for the capture has no time limit.
Await ==
  /\ AtWorker("await") /\ semaphore.count > 0
  /\ semaphore' = [semaphore EXCEPT !.count = @ - 1]
  /\ WorkerGoes("loop")
  /\ UNCHANGED mmalVars /\ Unmoved

Sleep ==
  /\ AtWorker("sleep") /\ stop
  /\ WorkerGoes("delete")
  /\ UNCHANGED <<mmalVars, semaphore>> /\ Unmoved

-----------------------------------------------------------------------------
(* worker_thread: closing everything.                                      *)

\* The semaphore goes first, while the port still calls back.
DeleteSemaphore ==
  /\ AtWorker("delete")
  /\ semaphore' = [semaphore EXCEPT !.live = FALSE]
  /\ WorkerGoes("off")
  /\ UNCHANGED mmalVars /\ Unmoved

TurnOff ==
  /\ AtWorker("off")
  /\ StopSending
  /\ WorkerGoes("lock")
  /\ UNCHANGED <<pool, component, vc, run, mayFail, failed, fault, semaphore>> /\ Unmoved

LockAction ==
  /\ AtWorker("lock")
  /\ ActionLock
  /\ WorkerGoes("message")
  /\ UNCHANGED <<pool, port, vc, run, mayFail, failed, fault, semaphore>> /\ Unmoved

DisablePort ==
  /\ AtWorker("message")
  /\ \E ok \in BOOLEAN :
       /\ VcPortDisable(ok)
       /\ worker' = [worker EXCEPT !.pc = "drain", !.ok = ok]
  /\ UNCHANGED <<pool, run, mayFail, semaphore>> /\ Unmoved

DrainOne ==
  /\ AtWorker("drain")
  /\ Drain
  /\ UNCHANGED <<pool, port, vc, mayFail, failed, worker, semaphore>> /\ Unmoved

\* Where mmal_port_disable was called from: the worker, mmal_port_pool_destroy or
\* mmal_component_destroy.
ReturnTo == <<"disconnect", "pools", "components">>

\* Mutant: the callbacks that are queued are not waited for.
Unlock_NoDrain ==
  /\ AtWorker("drain") /\ run["worker"] = Idle
  /\ component' = [component EXCEPT !.owner = "none"]
  /\ port' = [port EXCEPT !.enabled = ~worker.ok]
  /\ WorkerGoes(ReturnTo[worker.round])
  /\ UNCHANGED <<pool, vc, run, mayFail, failed, fault, semaphore>> /\ Unmoved

Unlock ==
  /\ AtWorker("drain")
  /\ DisableEnds(worker.ok)
  /\ WorkerGoes(IF worker.ok THEN "transit" ELSE ReturnTo[worker.round])
  /\ UNCHANGED <<pool, vc, run, mayFail, failed, fault, semaphore>> /\ Unmoved

AwaitTransit ==
  /\ AtWorker("transit")
  /\ TransitWait
  /\ WorkerGoes(ReturnTo[worker.round])
  /\ UNCHANGED <<pool, component, vc, run, mayFail, failed, fault, semaphore>> /\ Unmoved

\* mmal_connection_destroy, mmal_component_disable
Disconnect ==
  /\ AtWorker("disconnect")
  /\ vc' = [vc EXCEPT !.fed = FALSE]
  /\ WorkerGoes("pools")
  /\ UNCHANGED <<pool, port, component, run, mayFail, failed, fault, semaphore>> /\ Unmoved

\* A port that is still enabled is disabled once more, by mmal_port_pool_destroy
\* and by mmal_component_destroy.
DisableAgain ==
  /\ port.enabled
  /\ \/ AtWorker("pools") /\ worker.round = 1
     \/ AtWorker("components") /\ worker.round < 3
  /\ worker' = [worker EXCEPT !.pc = "off", !.round = IF AtWorker("pools") THEN 2 ELSE 3]
  /\ UNCHANGED <<mmalVars, semaphore>> /\ Unmoved

DestroyPool ==
  /\ AtWorker("pools") /\ (port.enabled => worker.round = 2)
  /\ PoolDestroy
  /\ WorkerGoes("components")
  /\ UNCHANGED <<port, component, vc, run, mayFail, failed, fault, semaphore>> /\ Unmoved

DestroyComponents ==
  /\ AtWorker("components") /\ (port.enabled => worker.round = 3)
  /\ ComponentDestroy
  /\ WorkerGoes("cleanup")
  /\ UNCHANGED <<pool, port, vc, run, mayFail, failed, fault, semaphore>> /\ Unmoved

\* worker_cleanup frees the global buffer without db.
WorkerCleanup ==
  /\ AtWorker("cleanup")
  /\ board' = [board EXCEPT !.live = FALSE]
  /\ WorkerGoes("ended")
  /\ UNCHANGED <<mmalVars, stills, stop, semaphore, offset, reader>>

SetUp == CreateComponents \/ CreatePool \/ Connect \/ EnablePort
TakePictures == StillsLoop \/ CountHeaders \/ TakeHeader \/ GiveHeader \/ Capture \/ Await \/ Sleep
CloseAll ==
  \/ DeleteSemaphore \/ TurnOff \/ LockAction \/ DisablePort \/ DrainOne \/ Unlock \/ AwaitTransit
  \/ Disconnect \/ DisableAgain \/ DestroyPool \/ DestroyComponents \/ WorkerCleanup

-----------------------------------------------------------------------------
(* Output plugin and main.                                                 *)

\* It locks db and waits for a picture, which unlocks db.
ReaderWaits ==
  /\ reader.pc = "idle" /\ board.owner = "none"
  /\ reader' = [reader EXCEPT !.pc = "wait"]
  /\ UNCHANGED <<mmalVars, stills, stop, worker, semaphore, offset, board>>

\* pthread_cond_wait returns without a broadcast; no output tests anything then.
SpuriousWakeup ==
  /\ "wakeup" \in mayFail /\ reader.pc = "wait"
  /\ reader' = [reader EXCEPT !.pc = "woken"]
  /\ UNCHANGED <<mmalVars, stills, stop, worker, semaphore, offset, board>>

ReaderLocks ==
  /\ reader.pc = "woken" /\ board.owner = "none"
  /\ board' = [board EXCEPT !.owner = "reader"]
  /\ reader' = [reader EXCEPT !.pc = "copy", !.size = board.size]
  /\ UNCHANGED <<mmalVars, stills, stop, worker, semaphore, offset>>

\* Memory that worker_cleanup has freed holds no picture.
ReaderCopies ==
  /\ reader.pc = "copy"
  /\ board' = [board EXCEPT !.owner = "none"]
  /\ reader' = [reader EXCEPT !.pc = "idle",
                             !.got = IF board.live THEN SubSeq(board.buf, 1, reader.size) ELSE <<>>]
  /\ UNCHANGED <<mmalVars, stills, stop, worker, semaphore, offset>>

Stop ==
  /\ ~stop /\ stop' = TRUE
  /\ UNCHANGED <<mmalVars, stills, worker, semaphore, offset, board, reader>>

\* The threads of the library between two callbacks.
Library == (VcFill \/ ActionThread) /\ UNCHANGED pluginVars

Step ==
  \/ Library
  \/ \E t \in Threads : Callback(t)
  \/ SetUp \/ SetupFails \/ TakePictures \/ CloseAll
  \/ ReaderWaits \/ SpuriousWakeup \/ ReaderLocks \/ ReaderCopies
  \/ Stop

Next == Running /\ Step

\* Threads that can run do, the encoder fills the headers it has, and a mutex is
\* given at last to a thread that waits for it again and again.  Nobody need stop
\* the program, and nothing need fail.
Fairness ==
  /\ WF_vars(Running /\ VcFill /\ UNCHANGED pluginVars)
  /\ WF_vars(Running /\ ActionThread /\ UNCHANGED pluginVars)
  /\ \A t \in Threads : WF_vars(Running /\ Callback(t))
  /\ SF_vars(Running /\ \E t \in Threads : CopyPart(t))
  /\ WF_vars(Running /\ SetUp)
  /\ WF_vars(Running /\ TakePictures)
  /\ SF_vars(Running /\ CloseAll)
  /\ SF_vars(Running /\ ReaderLocks)
  /\ WF_vars(Running /\ ReaderCopies)

Spec == Init /\ [][Next]_vars
FairSpec == Spec /\ Fairness

-----------------------------------------------------------------------------
(* Properties.                                                             *)

\* The state is of the right type: no picture has more parts than the buffer has
\* room for, whichever transfers failed, and a thread is in one callback at most.
TypeOK ==
  /\ pool \in [state : {"none", "live", "freed"}, queue : Seq(Headers)]
  /\ port \in [enabled : BOOLEAN, callback : BOOLEAN, contexts : BOOLEAN, transit : 0 .. BufferNum + 1]
  /\ component.owner \in {"none"} \cup Threads
  /\ component.queue \in Seq([header : Headers, part : Part])
  /\ component.destroyed \in BOOLEAN
  /\ vc.held \in Seq(Headers)
  /\ vc.frame \in 0 .. MaxFrames /\ vc.part \in 0 .. MaxParts - 1
  /\ vc.asked \in 0 .. MaxFrames /\ vc.streams \in BOOLEAN /\ vc.fed \in BOOLEAN
  /\ run \in [Threads -> [pc : {"idle", "copy", "end", "release", "get", "send", "done"},
                          header : 0 .. BufferNum, part : Part, new : 0 .. BufferNum, complete : BOOLEAN]]
  /\ \E t \in Threads : run[t] = Idle
  /\ failed \subseteq mayFail /\ mayFail \in FailureSets
  /\ fault \in {"none", "freed context", "no callback", "null header"}
  /\ worker.pc \in {"camera", "encoder", "pool", "connect", "enable", "exit", "loop", "count", "take", "give",
                    "capture", "await", "sleep", "delete", "off", "lock", "message", "drain", "transit",
                    "disconnect", "pools", "components", "cleanup", "ended"}
  /\ worker.num \in 0 .. BufferNum /\ worker.hand \in 0 .. BufferNum
  /\ worker.round \in 1 .. 3 /\ worker.ok \in BOOLEAN
  /\ semaphore \in [live : BOOLEAN, count : 0 .. MaxFrames * MaxParts, misused : BOOLEAN]
  /\ offset \in 0 .. MaxParts
  /\ board \in [owner : {"none", "callback", "reader"}, live : BOOLEAN,
                buf : [1 .. MaxParts -> Part], size : 0 .. MaxParts]
  /\ reader.pc \in {"idle", "wait", "woken", "copy"} /\ reader.size \in 0 .. MaxParts
  /\ stills \in BOOLEAN /\ stop \in BOOLEAN

CallbacksOf(header) == {t \in Threads : run[t].pc \in {"copy", "end", "release"} /\ run[t].header = header}
SendersOf(header) == {t \in Threads : run[t].pc = "send" /\ run[t].new = header}
Positions(queue, header) == {i \in DOMAIN queue : queue[i] = header}

\* Where a header is outside of the queue of the pool.
Outside(header) ==
  Cardinality(Positions(vc.held, header)) + Cardinality(CallbacksOf(header)) + Cardinality(SendersOf(header))
  + Cardinality({i \in DOMAIN component.queue : component.queue[i].header = header})
  + (IF worker.hand = header THEN 1 ELSE 0)

\* A header is in one place of all those the worker, the callbacks, the library
\* and the VideoCore keep: it is lost only when sending it failed or the program
\* ends, the library counts exactly those on their way, and none is anywhere when
\* the pool is freed, but for a port that could not be disabled.
HeadersAccounted ==
  /\ port.transit = Len(vc.held) + Len(component.queue) + Cardinality({t \in Threads : run[t] # Idle})
  /\ \A header \in Headers :
       LET places == Outside(header) + Cardinality(Positions(pool.queue, header))
       IN  /\ pool.state = "none" => places = 0
           /\ pool.state = "live" => places <= 1 /\ (places = 0 => stop \/ "send" \in failed)
           /\ pool.state = "freed" => (Outside(header) = 0 \/ "disable" \in failed)

\* The program does not crash, nor touch the semaphore it deleted, unless a call
\* or a transfer failed: a missing header is sent only after a transfer that did,
\* a context that is freed is used only when the port could not be disabled, and
\* the callback is never gone while a header comes back.  Video, which does not
\* use the semaphore, posts it even then.
FaultsExplained ==
  /\ fault = "null header" => stills /\ "transfer" \in failed
  /\ fault = "freed context" => "disable" \in failed
  /\ fault # "no callback"
  /\ semaphore.misused => ~stills \/ "transfer" \in failed

WholePicture(parts) ==
  /\ parts # <<>>
  /\ \A i \in DOMAIN parts :
       parts[i].no = i /\ parts[i].frame = parts[1].frame /\ (parts[i].last <=> i = Len(parts))

\* As long as no transfer failed and the global buffer is there, what an output
\* plugin copies is all parts of one picture, in order, and of a newer one each
\* time.  Where its wait may return unasked, the same picture may come again, and
\* nothing before the first, but no part of one and no older one.
ReadsWhole ==
  [][ reader.pc = "copy" /\ reader'.pc = "idle" /\ board.live /\ "transfer" \notin failed =>
        \/ "wakeup" \in mayFail /\ reader.got = <<>> /\ reader'.got = <<>>
        \/ /\ WholePicture(reader'.got)
           /\ reader.got # <<>> =>
                \/ reader'.got[1].frame > reader.got[1].frame
                \/ "wakeup" \in mayFail /\ reader'.got[1].frame = reader.got[1].frame ]_vars

\* No wait goes on for ever: for the capture, for db by an output plugin that was
\* woken, and for the worker, by a program that is to stop; unless headers were
\* lost, or the program crashed.  db may stay locked once the program is to stop.
WaitsEnd ==
  /\ AtWorker("await") ~> (~AtWorker("await") \/ "send" \in failed \/ ~Running)
  /\ reader.pc = "woken" ~> (reader.pc = "idle" \/ "send" \in failed \/ stop \/ ~Running)
  /\ stop ~> (AtWorker("ended") \/ "send" \in failed \/ ~Running)

=============================================================================
