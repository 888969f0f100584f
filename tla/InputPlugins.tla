---------------------------- MODULE InputPlugins ----------------------------
(***************************************************************************)
(* The input plugins that publish pictures from a folder (input_file.c), a *)
(* PTP camera (input_ptp2.c), OpenCV (input_opencv.cpp) and a built-in     *)
(* animation (input_testpicture.c): their init, run, stop and cleanup      *)
(* functions and their worker threads.                                     *)
(*                                                                         *)
(* A section with db locked is one step, because no other thread looks at  *)
(* the board in between, unless the code leaves the section without        *)
(* unlocking or sleeps in it.                                              *)
(***************************************************************************)
EXTENDS StreamerState

SourceGoes(k, pc) == source' = [source EXCEPT ![k].pc = pc]

\* A new picture, and pthread_cond_broadcast.
Publish(b, size) ==
  /\ board[b].pic < conf.pics
  /\ board' = [board EXCEPT ![b].buf = "live", ![b].pic = @ + 1, ![b].size = size]
  /\ sink' = Woken(b)

Frees(b) == board' = [board EXCEPT ![b].buf = IF @ = "live" THEN "freed" ELSE @]

\* worker_cleanup frees the buffer of its board without db, once per library:
\* free() of what another library has freed aborts the program.
CleanupFrees(kind, b) ==
  /\ cleaned' = cleaned \cup {kind}
  /\ IF kind \in cleaned
     THEN UNCHANGED <<board, fault>>
     ELSE /\ Frees(b)
          /\ fault' = IF board[b].buf = "freed" THEN "double free" ELSE fault

-----------------------------------------------------------------------------
(* input_file.c.                                                           *)

\* input_init remembers its id, in a variable of the library.
FileInit(k) ==
  /\ InKind(k) = "file"
  /\ number' = [number EXCEPT !["file"] = k]
  /\ UNCHANGED control_mutex

FileRun(k) ==
  /\ InKind(k) = "file"
  /\ worker' = [worker EXCEPT !["file"] = k]
  /\ SourceGoes(k, "grab")
  /\ UNCHANGED <<board, number>>

\* The end of the loop and of a cancelled thread.
FileEnds(k) ==
  /\ SourceGoes(k, "ended")
  /\ CleanupFrees("file", number["file"])
  /\ UNCHANGED <<sink, control_mutex>>

\* inotify fails, there is no picture in the folder, open or fstat fails: the
\* loop ends.  Or scandir fails, before the cleanup handler is registered.
FileGivesUp(k) ==
  \/ FileEnds(k)
  \/ SourceGoes(k, "ended") /\ UNCHANGED <<board, sink, cleaned, control_mutex, fault>>

\* With db locked the old buffer is freed, which aborts the program when another
\* library has freed it already, and a new one filled.  When malloc fails the
\* loop is left with db locked; when read fails it is unlocked; a thread that is
\* cancelled in read frees the new buffer and leaves db locked.
FilePublish(k) ==
  LET b == number["file"]
  IN  /\ Free(b)
      /\ \/ /\ board[b].buf = "freed"
            /\ fault' = "double free" /\ UNCHANGED <<board, source, sink, cleaned>>
         \/ /\ board[b].buf # "freed"
            /\ \E s \in conf.sizes : Publish(b, s)
            /\ UNCHANGED <<source, cleaned, fault>>
         \/ /\ board[b].buf # "freed"
            /\ \/ board' = [board EXCEPT ![b].owner = Source(k), ![b].buf = "null"]
               \/ board' = [board EXCEPT ![b].buf = "null", ![b].size = 0]
               \/ /\ Source(k) \in cancelled
                  /\ board' = [board EXCEPT ![b].owner = Source(k),
                                          ![b].buf = IF "file" \in cleaned THEN "live" ELSE "freed"]
            /\ SourceGoes(k, "ended") /\ cleaned' = cleaned \cup {"file"}
            /\ UNCHANGED <<sink, fault>>
      /\ UNCHANGED control_mutex

FileStep(k) ==
  /\ InKind(k) = "file" /\ source[k].pc = "grab"
  /\ FileGivesUp(k) \/ FilePublish(k)

-----------------------------------------------------------------------------
(* input_testpicture.c.                                                    *)

\* plugin_number is never assigned and stays that of the first board.
TestpictureInit(k) ==
  /\ InKind(k) = "testpicture"
  /\ UNCHANGED <<number, control_mutex>>

\* input_run allocates the buffer of its own board.
TestpictureRun(k) ==
  /\ InKind(k) = "testpicture"
  /\ worker' = [worker EXCEPT !["testpicture"] = k]
  /\ board' = [board EXCEPT ![k].buf = "live"]
  /\ SourceGoes(k, "grab")
  /\ UNCHANGED number

TestpictureEnds(k) ==
  /\ SourceGoes(k, "ended")
  /\ CleanupFrees("testpicture", number["testpicture"])
  /\ UNCHANGED <<sink, control_mutex>>

\* Whatever its id, the thread serves the first board, and writes through a
\* null pointer when that has no buffer.
TestpictureStep(k) ==
  LET b == number["testpicture"]
  IN  /\ InKind(k) = "testpicture" /\ source[k].pc = "grab" /\ Free(b)
      /\ \/ /\ board[b].buf = "null"
            /\ fault' = "null buffer" /\ UNCHANGED <<board, sink>>
         \/ /\ board[b].buf # "null"
            /\ \E s \in conf.sizes :
                 /\ board[b].pic < conf.pics
                 /\ board' = [board EXCEPT ![b].pic = @ + 1, ![b].size = s]
            /\ sink' = Woken(b)
            /\ UNCHANGED fault
      /\ UNCHANGED <<source, cleaned, control_mutex>>

-----------------------------------------------------------------------------
(* input_opencv.cpp.                                                       *)

\* input_init keeps everything in the context of its input.
OpencvInit(k) ==
  /\ InKind(k) = "opencv"
  /\ UNCHANGED <<number, control_mutex>>

OpencvRun(k) ==
  /\ InKind(k) = "opencv"
  /\ board' = [board EXCEPT ![k].buf = "null", ![k].size = 0]
  /\ SourceGoes(k, "grab")
  /\ UNCHANGED <<worker, number>>

\* The vector that the board points into is destroyed with the thread.
OpencvEnds(k) ==
  /\ SourceGoes(k, "ended") /\ Frees(k)
  /\ UNCHANGED <<sink, cleaned, control_mutex, fault>>

\* capture.read gives a picture, or fails and the loop ends.
OpencvStep(k) ==
  /\ InKind(k) = "opencv" /\ source[k].pc = "grab"
  /\ \/ /\ Free(k)
        /\ \E s \in conf.sizes : Publish(k, s)
        /\ UNCHANGED <<source, cleaned, control_mutex, fault>>
     \/ OpencvEnds(k)

-----------------------------------------------------------------------------
(* input_ptp2.c.                                                           *)

PtpInit(k) ==
  /\ InKind(k) = "ptp2"
  /\ control_mutex' = Nobody
  /\ UNCHANGED number

\* input_run: without a camera, or when gphoto fails, it reports success all
\* the same and no thread is started.
PtpRun(k) ==
  /\ InKind(k) = "ptp2"
  /\ number' = [number EXCEPT !["ptp2"] = k]
  /\ \/ worker' = [worker EXCEPT !["ptp2"] = k] /\ SourceGoes(k, "start")
     \/ UNCHANGED <<worker, source>>
  /\ UNCHANGED board

\* capture allocates the buffer, and returns when there is no memory.
PtpStart(k) ==
  /\ source[k].pc = "start"
  /\ \/ /\ board' = [board EXCEPT ![number["ptp2"]].buf = "live"]
        /\ SourceGoes(k, "grab")
     \/ SourceGoes(k, "ended") /\ UNCHANGED board
  /\ UNCHANGED <<sink, control_mutex>>

PtpCapture(k) ==
  /\ source[k].pc = "grab" /\ control_mutex = Nobody
  /\ control_mutex' = Source(k)
  /\ SourceGoes(k, "camera")
  /\ UNCHANGED <<board, sink>>

\* CAMERA_CHECK_GP returns from the thread: gp_file_new or
\* gp_camera_capture_preview failed, and control_mutex stays locked.
PtpCaptureFails(k) ==
  /\ source[k].pc = "camera"
  /\ SourceGoes(k, "ended")
  /\ UNCHANGED <<board, sink, control_mutex>>

\* The camera gave nothing for the fifth time in a row, no pointer to the data,
\* or there is no memory: the thread returns with both mutexes locked.
PtpGivesUp(k, b) ==
  /\ SourceGoes(k, "ended")
  /\ board' = [board EXCEPT ![b].owner = Source(k)]
  /\ UNCHANGED <<sink, control_mutex>>

\* Nothing came: the camera is restarted, which takes three seconds with both
\* mutexes locked.
PtpRestarts(k, b) ==
  /\ source[k].tries <= 3 /\ board[b].pic < conf.pics
  /\ source' = [source EXCEPT ![k].pc = "restart", ![k].tries = @ + 1]
  /\ board' = [board EXCEPT ![b].owner = Source(k)]
  /\ UNCHANGED <<sink, control_mutex>>

\* The picture is copied and published; gp_file_unref may fail with db locked
\* and nobody woken.
PtpPublish(k, b) ==
  /\ control_mutex' = Nobody
  /\ \/ /\ \E s \in conf.sizes : Publish(b, s)
        /\ source' = [source EXCEPT ![k].pc = "grab", ![k].tries = 0]
     \/ /\ board' = [board EXCEPT ![b].owner = Source(k)]
        /\ SourceGoes(k, "ended")
        /\ UNCHANGED sink

PtpSection(k) ==
  LET b == number["ptp2"]
  IN  /\ source[k].pc = "camera" /\ Free(b)
      /\ PtpGivesUp(k, b) \/ PtpRestarts(k, b) \/ PtpPublish(k, b)

\* The same section after the restart: the empty picture is published, or the
\* thread returns with db locked, because the camera still has no data or, with
\* control_mutex unlocked, because gp_file_unref fails.
PtpRestarted(k) ==
  LET b == number["ptp2"]
  IN  /\ source[k].pc = "restart"
      /\ \/ /\ board[b].pic < conf.pics
            /\ control_mutex' = Nobody
            /\ board' = [board EXCEPT ![b].owner = Nobody, ![b].pic = @ + 1, ![b].size = 0]
            /\ sink' = Woken(b)
            /\ SourceGoes(k, "grab")
         \/ /\ SourceGoes(k, "ended") /\ control_mutex' \in {control_mutex, Nobody}
            /\ UNCHANGED <<board, sink>>

PtpStep(k) ==
  /\ InKind(k) = "ptp2"
  /\ PtpStart(k) \/ PtpCapture(k) \/ PtpCaptureFails(k) \/ PtpSection(k) \/ PtpRestarted(k)
  /\ UNCHANGED <<cleaned, fault>>

\* cleanup frees the buffer without db; what is locked stays locked.
PtpEnds(k) ==
  /\ SourceGoes(k, "ended") /\ Frees(number["ptp2"])
  /\ UNCHANGED <<sink, control_mutex, cleaned, fault>>

\* input_cmd with the zoom: a client thread takes control_mutex.
ZoomLock ==
  /\ main.pc = "pause" /\ \E k \in Inputs : InKind(k) = "ptp2"
  /\ zoomer = "idle" /\ control_mutex = Nobody
  /\ zoomer' = "zooms" /\ control_mutex' = Zoomer

ZoomUnlock ==
  /\ zoomer = "zooms"
  /\ zoomer' = "idle" /\ control_mutex' = Nobody

Zoom ==
  /\ Running
  /\ ZoomLock \/ ZoomUnlock
  /\ UNCHANGED <<hostVars, board, source, sink, libraryVars, cancelled, misuse, fault>>

-----------------------------------------------------------------------------
(* All of them.                                                            *)

\* input_init and input_run; a plugin for which they fail ends the program.
InputInit(k) == FileInit(k) \/ TestpictureInit(k) \/ OpencvInit(k) \/ PtpInit(k)
InputRun(k) == FileRun(k) \/ TestpictureRun(k) \/ OpencvRun(k) \/ PtpRun(k)

Ends(k) ==
  \/ InKind(k) = "file" /\ FileEnds(k)
  \/ InKind(k) = "testpicture" /\ TestpictureEnds(k)
  \/ InKind(k) = "opencv" /\ OpencvEnds(k)
  \/ InKind(k) = "ptp2" /\ PtpEnds(k)

\* The loop ends because global.stop is set, or in one of the calls where the
\* thread can be cancelled.
SourceStops(k) ==
  /\ \/ source[k].pc = "grab" /\ stop
     \/ source[k].pc \in {"grab", "camera", "restart"} /\ Source(k) \in cancelled
  /\ Ends(k)

\* A thread that locks a mutex after its destruction does not get it.
SourceMisuses(k) ==
  /\ source[k].pc \in {"grab", "camera"}
  /\ board[IF InKind(k) = "opencv" THEN k ELSE number[InKind(k)]].destroyed
  /\ SourceGoes(k, "ended")
  /\ misuse' = misuse \cup {Source(k)}
  /\ UNCHANGED <<board, sink, cleaned, control_mutex, fault>>

SourceStep(k) ==
  /\ Running
  /\ \/ /\ FileStep(k) \/ TestpictureStep(k) \/ OpencvStep(k) \/ PtpStep(k) \/ SourceStops(k)
        /\ UNCHANGED misuse
     \/ SourceMisuses(k)
  /\ UNCHANGED <<hostVars, worker, number, frame, zoomer, cancelled>>

\* input_stop.  pthread_cancel of a thread that was never started crashes;
\* opencv looks first whether its context is still there.
InputStop(k) ==
  LET t == IF InKind(k) = "opencv" THEN IF source[k].pc = "none" THEN 0 ELSE k
           ELSE worker[InKind(k)]
  IN  IF t = 0
      THEN fault' = "no thread" /\ UNCHANGED cancelled
      ELSE cancelled' = cancelled \cup {Source(t)} /\ UNCHANGED fault

=============================================================================
