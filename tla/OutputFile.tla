----------------------------- MODULE OutputFile -----------------------------
(***************************************************************************)
(* The file output plugin of mjpg-streamer (output_file.c).                *)
(*                                                                         *)
(* Its worker thread waits for a fresh frame, copies it into the static    *)
(* buffer frame and writes it, without the mutex db, to a file named after *)
(* the second of the day and a counter; every so many files it deletes the *)
(* oldest ones (maintain_ringbuffer), or, with -m, it appends the frame to *)
(* one mjpg file.  HTTP client threads enter the plugin through output_cmd *)
(* when a browser asks to take a snapshot (client_thread, case A_TAKE):    *)
(* they copy the current frame into the same static buffer, write it to a  *)
(* file of their own and then send the browser a fresh frame.              *)
(*                                                                         *)
(* write() takes the bytes of the buffer in two halves, so that a file can *)
(* show two pictures, or the beginning of one.  The camera is an           *)
(* environment that publishes a picture in one step, as FrameHandoff shows *)
(* it does for the owners of db.  The link to the last picture (-l) and    *)
(* the command that is run for each one (-c) are left out, and strftime is *)
(* given room for every name.                                              *)
(***************************************************************************)
EXTENDS Integers, Sequences, FiniteSets

CONSTANTS
  Setups,  \* what the program is started with and may meet:
           \*   takers    HTTP client threads that may be asked for a snapshot
           \*   size      -s: how many files to keep, -1 when not given
           \*   exceed    -e: by how many the ring buffer may be exceeded
           \*   movie     -m: record one mjpg file instead of pictures?
           \*   failures  may realloc and the deletion of a file fail?
           \*   short     may write() store less than it was given?
           \*   spurious  may pthread_cond_wait return without a broadcast?
           \*   jumps     may the local time be set back?
           \*   pics, seconds, restarts
           \*             bounds: pictures the camera publishes, seconds that
           \*             pass, crashes followed by a restart
  Sizes,   \* the sizes of frames
  Slack,   \* how much larger than the frame the buffer is allocated
  Freed    \* what is read from memory that was freed

ASSUME SetupsAssumption ==
  \A s \in Setups :
    /\ s.size \in Int /\ s.exceed \in Int /\ s.movie \in BOOLEAN /\ s.failures \in BOOLEAN
    /\ s.short \in BOOLEAN /\ s.spurious \in BOOLEAN /\ s.jumps \in BOOLEAN
    /\ s.pics \in Nat /\ s.seconds \in Nat /\ s.restarts \in Nat
ASSUME SizesAssumption == Sizes \subseteq Nat \ {0} /\ Slack \in Nat
ASSUME FreedAssumption == Freed \notin Nat

VARIABLES
  setup,     \* the options, chosen on the command line
  clock,     \* the second that localtime() makes of time()
  restarts,  \* how many times the program was restarted
  pic,       \* the picture in the global buffer and its size
  stuck,     \* is db held by a thread that no longer exists?
  frame,     \* the static buffer: its allocation, its real size, its picture
  maxSize,   \* max_frame_size: the size the plugin believes the buffer has
  worker,    \* the worker thread: pc, allocation it writes from, its frame
  counter,   \* the counter in the names of files
  disk,      \* the pictures in the folder
  movie,     \* the frames in the mjpg file
  taker      \* each taker: pc, allocation it writes from, its picture, whether
             \* the file is complete, and the picture sent to the browser

vars == <<setup, clock, restarts, pic, stuck, frame, maxSize, worker, counter, disk, movie, taker>>

Takers == setup.takers
ringSize == setup.size          \* ringbuffer_size
Exceed == setup.exceed          \* ringbuffer_exceed
mjpeg == setup.movie            \* is mjpgFileName set?
environment == <<setup, clock, restarts, pic, stuck>>

-----------------------------------------------------------------------------
\* A written picture: the picture the thread copied and the two halves that
\* came out of the buffer.  0 is a half not written yet.
NoWrite == [from |-> 0, first |-> 0, second |-> 0]
WholeWrite(f) == f.first = f.from /\ f.second = f.from
Beginning(f) == f.second = 0 /\ f.first \in {0, f.from}

\* A picture in the folder is named by second and counter; seq is the order in
\* which pictures were opened, run the run of the program that did (history).
FileName(f) == <<f.t, f.n>>
Written == {f.seq : f \in disk}
NextSeq == IF disk = {} THEN 1 ELSE 1 + CHOOSE s \in Written : \A r \in Written : r <= s

IdleWorker == [pc |-> "loop", gen |-> 0, out |-> NoWrite]
IdleTaker == [pc |-> "idle", gen |-> 0, out |-> NoWrite, saved |-> FALSE, sent |-> 0]

\* Mutant: the counter starts at -1.
Init_CounterMinusOne ==
  /\ setup \in Setups
  /\ clock = 1 /\ restarts = 0
  /\ pic = [no |-> 0, size |-> 0]
  /\ stuck = FALSE
  /\ frame = [gen |-> 0, size |-> 0, pic |-> 0]
  /\ maxSize = 0
  /\ worker = IdleWorker
  /\ counter = -1
  /\ disk = {} /\ movie = <<>>
  /\ taker = [t \in Takers |-> IdleTaker]

Init ==
  /\ setup \in Setups
  /\ clock = 1 /\ restarts = 0
  /\ pic = [no |-> 0, size |-> 0]
  /\ stuck = FALSE
  /\ frame = [gen |-> 0, size |-> 0, pic |-> 0]
  /\ maxSize = 0
  /\ worker = IdleWorker
  /\ counter = 0
  /\ disk = {} /\ movie = <<>>
  /\ taker = [t \in Takers |-> IdleTaker]

-----------------------------------------------------------------------------
(* The environment.                                                        *)

\* The camera publishes: whoever is in pthread_cond_wait is woken.
Publish ==
  /\ ~stuck /\ pic.no < setup.pics
  /\ \E s \in Sizes : pic' = [no |-> pic.no + 1, size |-> s]
  /\ worker' = IF worker.pc = "wait" THEN [worker EXCEPT !.pc = "copy"] ELSE worker
  /\ taker' = [t \in Takers |-> IF taker[t].pc = "wait"
                                THEN [taker[t] EXCEPT !.pc = "send"] ELSE taker[t]]
  /\ UNCHANGED <<setup, clock, restarts, stuck, frame, maxSize, counter, disk, movie>>

\* pthread_cond_wait may return although nobody has published, and neither the
\* worker nor send_snapshot looks at anything before it goes on.  The bound on
\* such wakeups of the worker is on what it has saved.
Saves == counter + Len(movie)
SpuriousWakeup ==
  /\ setup.spurious
  /\ \/ /\ worker.pc = "wait" /\ Saves <= setup.pics
        /\ worker' = [worker EXCEPT !.pc = "copy"]
        /\ UNCHANGED taker
     \/ \E t \in Takers : /\ taker[t].pc = "wait"
                           /\ taker' = [taker EXCEPT ![t].pc = "send"]
                           /\ UNCHANGED worker
  /\ UNCHANGED <<environment, frame, maxSize, counter, disk, movie>>

Tick ==
  /\ clock < setup.seconds /\ clock' = clock + 1
  /\ UNCHANGED <<setup, restarts, pic, stuck, frame, maxSize, worker, counter, disk, movie, taker>>

\* The local time goes back: the clock is set, or summer time ends.
SetBack ==
  /\ setup.jumps /\ clock' \in 1 .. clock - 1
  /\ UNCHANGED <<setup, restarts, pic, stuck, frame, maxSize, worker, counter, disk, movie, taker>>

\* The process dies and is started again: what is on disk stays, except that
\* output_init truncates the mjpg file.  Pictures are numbered from 1 again.
Restart ==
  /\ restarts < setup.restarts /\ restarts' = restarts + 1
  /\ clock' \in {clock, clock + 1}
  /\ pic' = [no |-> 0, size |-> 0] /\ stuck' = FALSE
  /\ frame' = [gen |-> 0, size |-> 0, pic |-> 0] /\ maxSize' = 0
  /\ worker' = IdleWorker /\ counter' = 0
  /\ movie' = <<>>
  /\ taker' = [t \in Takers |-> IdleTaker]
  /\ UNCHANGED <<setup, disk>>

-----------------------------------------------------------------------------
(* The static buffer.                                                      *)

\* A frame larger than max_frame_size makes realloc move the buffer.
Grows == pic.size > maxSize

\* Mutant: the copy is made only when the buffer was enlarged.
CopyToFrame_OnlyWhenGrown ==
  /\ frame' = IF Grows
              THEN [gen |-> frame.gen + 1, size |-> pic.size + Slack, pic |-> pic.no]
              ELSE frame
  /\ maxSize' = IF Grows THEN pic.size + Slack ELSE maxSize

\* Copy the current frame into the buffer, with db held: nothing, as picture 0,
\* before the first publication.  What is copied into a buffer that is too
\* small, or was freed, is lost.
CopyToFrame ==
  LET fits == frame.size >= pic.size
  IN  /\ frame' = IF Grows /\ frame.pic # Freed
                  THEN [gen |-> frame.gen + 1, size |-> pic.size + Slack, pic |-> pic.no]
                  ELSE [frame EXCEPT !.pic = IF fits THEN pic.no ELSE Freed]
      /\ maxSize' = IF Grows THEN pic.size + Slack ELSE maxSize

\* realloc failed: max_frame_size has been raised all the same.
ReallocFails ==
  /\ setup.failures /\ Grows
  /\ maxSize' = pic.size + Slack
  /\ UNCHANGED frame

\* The bytes write() finds behind the pointer it was called with.
BytesAt(gen) == IF gen = frame.gen THEN frame.pic ELSE Freed

-----------------------------------------------------------------------------
(* worker_thread.                                                          *)

\* Mutant: the worker copies without waiting for a fresh frame.
WorkerLoop_NoWait ==
  /\ worker.pc = "loop" /\ ~stuck
  /\ worker' = [worker EXCEPT !.pc = "copy"]
  /\ UNCHANGED <<environment, frame, maxSize, counter, disk, movie, taker>>

\* Loop head, and entry of pthread_cond_wait.  The thread waits only when db
\* can be had.
WorkerLoop ==
  /\ worker.pc = "loop" /\ ~stuck
  /\ worker' = [worker EXCEPT !.pc = "wait"]
  /\ UNCHANGED <<environment, frame, maxSize, counter, disk, movie, taker>>

\* Mutant: a failed realloc is not noticed.
WorkerCopy_GoesOn ==
  /\ worker.pc = "copy" /\ ~stuck
  /\ \/ CopyToFrame
     \/ setup.failures /\ Grows /\ maxSize' = pic.size + Slack
        /\ frame' = [frame EXCEPT !.pic = IF frame.size >= pic.size THEN pic.no ELSE Freed]
  /\ worker' = [worker EXCEPT !.pc = IF mjpeg THEN "first" ELSE "open",
                              !.out = [NoWrite EXCEPT !.from = pic.no]]
  /\ UNCHANGED <<environment, counter, disk, movie, taker>>

WorkerCopy ==
  /\ worker.pc = "copy" /\ ~stuck
  /\ \/ /\ CopyToFrame
        /\ worker' = [worker EXCEPT !.pc = IF mjpeg THEN "first" ELSE "open",
                                    !.out = [NoWrite EXCEPT !.from = pic.no]]
     \/ /\ ReallocFails
        /\ worker' = [worker EXCEPT !.pc = "dead"]
  /\ UNCHANGED <<environment, counter, disk, movie, taker>>

\* open() with O_CREAT and O_TRUNC of a name made of the time and the counter;
\* or it fails, or localtime() does before the counter has gone up.
WorkerOpen ==
  /\ worker.pc = "open"
  /\ \/ /\ worker' = [worker EXCEPT !.pc = "first"]
        /\ counter' = counter + 1
        /\ disk' = {f \in disk : FileName(f) # <<clock, counter>>}
                     \cup {[t |-> clock, n |-> counter, seq |-> NextSeq,
                       run |-> restarts, data |-> worker.out]}
     \/ /\ worker' = [worker EXCEPT !.pc = "dead"]
        /\ counter' \in {counter, counter + 1}
        /\ UNCHANGED disk
  /\ UNCHANGED <<environment, frame, maxSize, movie, taker>>

\* The file that the worker has opened last.
Current == CHOOSE f \in disk : \A g \in disk : g.seq <= f.seq

Store(data) ==
  IF mjpeg
  THEN /\ movie' = IF worker.pc = "first" THEN Append(movie, data)
                   ELSE [movie EXCEPT ![Len(movie)] = data]
       /\ UNCHANGED disk
  ELSE /\ disk' = (disk \ {Current}) \cup {[Current EXCEPT !.data = data]}
       /\ UNCHANGED movie

\* write(fd, frame, frame_size), first half; or write() fails and the thread
\* returns.
WorkerFirst ==
  /\ worker.pc = "first"
  /\ \/ LET out == [worker.out EXCEPT !.first = BytesAt(frame.gen)]
        IN  /\ worker' = [pc |-> "second", gen |-> frame.gen, out |-> out]
            /\ Store(out)
     \/ /\ worker' = [worker EXCEPT !.pc = "dead"]
        /\ UNCHANGED <<disk, movie>>
  /\ UNCHANGED <<environment, frame, maxSize, counter, taker>>

\* The second half; or write() has stored less than it was given, which is not
\* looked at.
WorkerSecond ==
  /\ worker.pc = "second"
  /\ \E bytes \in {BytesAt(worker.gen)} \cup IF setup.short THEN {0} ELSE {} :
       LET out == [worker.out EXCEPT !.second = bytes]
       IN  /\ worker' = [worker EXCEPT !.pc = IF mjpeg THEN "loop" ELSE "maintain", !.out = out]
           /\ Store(out)
  /\ UNCHANGED <<environment, frame, maxSize, counter, taker>>

\* Mutant: the names sort by counter first.
Before_ByCounter(f, g) == f.n < g.n \/ (f.n = g.n /\ f.t < g.t)

\* The names sort by second, then by counter.  maintain_ringbuffer deletes the
\* first of them and keeps ringSize.
Before(f, g) == f.t < g.t \/ (f.t = g.t /\ f.n < g.n)

Doomed == {f \in disk : Cardinality({g \in disk : Before(f, g)}) >= ringSize}

\* Mutant: no maintenance after the first picture.
MaintenanceDue_NotFirst == Exceed <= 0 \/ counter % (Exceed + 1) = 0

MaintenanceDue == Exceed <= 0 \/ counter = 1 \/ counter % (Exceed + 1) = 0

WorkerMaintain ==
  /\ worker.pc = "maintain"
  /\ worker' = IdleWorker
  /\ IF MaintenanceDue /\ ringSize >= 0
     THEN \E gone \in IF setup.failures THEN SUBSET Doomed ELSE {Doomed} :
            disk' = disk \ gone
     ELSE UNCHANGED disk
  /\ UNCHANGED <<environment, frame, maxSize, counter, movie, taker>>

\* output_stop cancels the worker: worker_cleanup frees the buffer.  A thread
\* cancelled in pthread_cond_wait owns db again and nobody unlocks it.
WorkerCancelled ==
  /\ worker.pc \in {"loop", "wait", "open", "first", "maintain"}
  /\ stuck' = (worker.pc = "wait")
  /\ worker' = [IdleWorker EXCEPT !.pc = "dead"]
  /\ frame' = [gen |-> frame.gen + 1, size |-> -1, pic |-> Freed]
  /\ UNCHANGED <<setup, clock, restarts, pic, maxSize, counter, disk, movie, taker>>

WorkerStep ==
  WorkerLoop \/ WorkerCopy \/ WorkerOpen \/ WorkerFirst \/ WorkerSecond \/ WorkerMaintain

-----------------------------------------------------------------------------
(* client_thread, case A_TAKE, and output_cmd with OUT_FILE_CMD_TAKE.      *)

TakerGoes(t, new) ==
  /\ taker' = [taker EXCEPT ![t] = new]
  /\ UNCHANGED <<environment, worker, counter, disk, movie>>

\* Without "filename=" in the URL the browser gets an error, but ret is still
\* 0 and send_snapshot is called.
TakeWithoutName(t) ==
  /\ taker[t].pc = "idle" /\ ~stuck
  /\ TakerGoes(t, [IdleTaker EXCEPT !.pc = "wait"])
  /\ UNCHANGED <<frame, maxSize>>

TakeRequest(t) ==
  /\ taker[t].pc = "idle"
  /\ TakerGoes(t, [IdleTaker EXCEPT !.pc = "copy"])
  /\ UNCHANGED <<frame, maxSize>>

\* output_cmd does not wait for a fresh frame.
TakeCopy(t) ==
  /\ taker[t].pc = "copy" /\ ~stuck
  /\ \/ /\ CopyToFrame
        /\ TakerGoes(t, [taker[t] EXCEPT !.pc = "first",
                                         !.out = [NoWrite EXCEPT !.from = pic.no]])
     \/ /\ ReallocFails
        /\ TakerGoes(t, IdleTaker)

\* open() or write() fails and the browser gets an error, or the first half of
\* the buffer is in the file.
TakeFirst(t) ==
  /\ taker[t].pc = "first"
  /\ \/ TakerGoes(t, [taker[t] EXCEPT !.pc = "second", !.gen = frame.gen,
                                      !.out.first = BytesAt(frame.gen)])
     \/ TakerGoes(t, IdleTaker)
  /\ UNCHANGED <<frame, maxSize>>

\* The second half is written, or write() has left it out, the file is closed,
\* and send_snapshot waits.
TakeSecond(t) ==
  /\ taker[t].pc = "second" /\ ~stuck
  /\ \E bytes \in {BytesAt(taker[t].gen)} \cup IF setup.short THEN {0} ELSE {} :
       TakerGoes(t, [taker[t] EXCEPT !.pc = "wait", !.saved = TRUE, !.out.second = bytes])
  /\ UNCHANGED <<frame, maxSize>>

TakeSend(t) ==
  /\ taker[t].pc = "send" /\ ~stuck
  /\ TakerGoes(t, [taker[t] EXCEPT !.pc = "idle", !.sent = pic.no])
  /\ UNCHANGED <<frame, maxSize>>

TakerStep(t) ==
  TakeWithoutName(t) \/ TakeRequest(t) \/ TakeCopy(t) \/ TakeFirst(t) \/ TakeSecond(t) \/ TakeSend(t)

Next ==
  \/ Publish \/ SpuriousWakeup \/ Tick \/ SetBack \/ Restart
  \/ WorkerStep \/ WorkerCancelled
  \/ \E t \in Takers : TakerStep(t)

Spec == Init /\ [][Next]_vars

-----------------------------------------------------------------------------
(* Properties.                                                             *)

Pictures == 0 .. setup.pics
Writes == [from : Pictures, first : Pictures \cup {Freed}, second : Pictures \cup {Freed}]

\* Every variable stays in its range; a restart may take a second of its own.
TypeOK ==
  /\ clock \in 1 .. setup.seconds + restarts + 1 /\ restarts \in 0 .. setup.restarts
  /\ pic.no \in Pictures /\ pic.size \in Sizes \cup {0}
  /\ stuck \in BOOLEAN
  /\ frame.gen \in Nat /\ frame.size \in Int /\ frame.pic \in Pictures \cup {Freed}
  /\ maxSize \in Nat /\ counter \in Nat
  /\ worker.pc \in {"loop", "wait", "copy", "open", "first", "second", "maintain", "dead"}
  /\ worker.out \in Writes
  /\ \A f \in disk : f.t \in Nat /\ f.n \in Nat /\ f.seq \in Nat /\ f.data \in Writes
  /\ \A i \in DOMAIN movie : movie[i] \in Writes
  /\ \A t \in Takers : taker[t].out \in Writes /\ taker[t].sent \in Pictures

\* "ringbuffer size: size to size + exceed": when the worker waits for its next
\* frame, having saved at least one, no more files than that are in the folder,
\* those of the runs before included, if all that should be deleted was.
RingBound ==
  ringSize >= 0 /\ ~setup.failures /\ worker.pc = "wait" /\ counter > 0
    => Cardinality(disk) <= ringSize + (IF Exceed > 0 THEN Exceed ELSE 0)

\* "delete oldest files, just keep size most recent files": whatever the names
\* say, ringSize files are left when one goes, and without a ring buffer none
\* goes.  A file that goes leaves at least ringSize files that were opened after
\* it, unless "the time is not valid": the local time was set back and a file
\* opened before it bears a later second, or a file of another run of the
\* program bears its second, where the counter, which restarts at 0, no longer
\* tells which is older.
TimeValid(f) ==
  /\ setup.jumps => \A g \in disk : g.seq < f.seq => g.t <= f.t
  /\ \A g \in disk : g.run # f.run => g.t # f.t
KeepsNewest ==
  [][worker.pc = "maintain" /\ disk' # disk =>
       /\ ringSize >= 0 /\ Cardinality(disk') >= ringSize
       /\ \A f \in disk \ disk' :
            TimeValid(f) => Cardinality({g \in disk : g.seq > f.seq}) >= ringSize]_vars

\* "copy frame to our local buffer now": what is saved, to a file or to the mjpg
\* file, is the frame that was copied or a beginning of it, as long as no browser
\* asks for a snapshot.  Only a file that its run has opened last may be a
\* beginning, while it is written or when its worker has died of it, unless
\* write() stores less than it was given.  The mjpg file holds the frames in the
\* order of their publication, each once, unless the worker wakes spuriously:
\* it then saves the same frame again, or, before the first one, an empty one.
LastOfRun(f) == \A g \in disk : g.run = f.run => g.seq <= f.seq
SavedWhole ==
  Takers = {} =>
    /\ \A f \in disk :
         \/ WholeWrite(f.data)
         \/ /\ Beginning(f.data)
            /\ \/ setup.short
               \/ LastOfRun(f) /\ (f.run = restarts => worker.pc \in {"first", "second", "dead"})
    /\ \A i \in DOMAIN movie :
         /\ \/ WholeWrite(movie[i])
            \/ Beginning(movie[i]) /\ (setup.short \/ (i = Len(movie) /\ worker.pc \in {"second", "dead"}))
         /\ i > 1 => \/ movie[i].from > movie[i - 1].from
                     \/ setup.spurious /\ movie[i].from = movie[i - 1].from

\* The same of the files of the worker, for as long as the worker has not been
\* cancelled: a reading of the comment that leaves the shutdown aside.
WorkerSavesWhole ==
  worker.pc # "dead" => \A f \in disk : f.data.second # 0 => WholeWrite(f.data)

\* Whatever the threads do to the buffer, a file never shows a picture older
\* than the one its thread copied.
NotOlder(d) ==
  /\ d.first # 0 => d.first = Freed \/ d.first >= d.from
  /\ d.second # 0 => d.second = Freed \/ d.second >= d.from
SavedNotOlder ==
  /\ \A f \in disk : NotOlder(f.data)
  /\ \A t \in Takers : NotOlder(taker[t].out)

\* What is saved, to a file, to the mjpg file or as a snapshot, is sound: never
\* older than what its thread copied, and without snapshots always whole.
SavedSound == SavedWhole /\ SavedNotOlder

=============================================================================
