----------------------------- MODULE UvcCapture -----------------------------
(***************************************************************************)
(* The UVC camera while its resolution is changed (input_uvc.c, v4l2uvc.c).*)
(*                                                                         *)
(* The camera thread dequeues pictures from the video device through the   *)
(* struct vdIn and publishes them.  setResolution tears the device down    *)
(* and sets it up again through the same struct.  An HTTP client thread    *)
(* calls it for the command IN_CMD_RESOLUTION; with dv_timings the camera  *)
(* thread calls it too, when the device is silent or its source changes.   *)
(* Nothing but the field streamingState keeps the two apart: the camera    *)
(* thread looks at it once per frame and waits while it is PAUSED.         *)
(*                                                                         *)
(* FrameHandoff models the mutex and the shutdown, which are left out here.*)
(*                                                                         *)
(* A size is one that the device can give, or 0: whatever stands before    *)
(* the table of resolutions, which a negative number asks for.             *)
(***************************************************************************)
EXTENDS Integers, FiniteSets

CONSTANTS
  Commanders,    \* HTTP client threads that change the resolution
  Cam,           \* the camera thread
  Resolutions,   \* sizes of a picture, as positive numbers
  DvModes,       \* is dv_timings set?
  CameraFails,   \* may the device fail or fall silent of itself?
  MaxPics,       \* bound: pictures the device delivers
  MaxChanges     \* bound: calls of setResolution

ASSUME CamAssumption == Cam \notin Commanders
ASSUME ResolutionsAssumption == Resolutions # {} /\ Resolutions \subseteq Nat \ {0}
ASSUME OptionsAssumption == DvModes \subseteq BOOLEAN /\ CameraFails \in BOOLEAN
ASSUME BoundsAssumption == {MaxPics, MaxChanges} \subseteq Nat

VARIABLES
  dv,        \* vd->dv_timings
  vd,        \* struct vdIn: state, fd, res (width and height), mem (the open
             \* file whose buffers are mapped), tmp (the temporary picture)
  files,     \* the driver's open files: are buffers set up, does it stream?
  changes,   \* how often setResolution was called
  opens,     \* how often the device was opened
  pics,      \* how many pictures the device has delivered
  cam,       \* the camera thread: pc, and the file its buffer came from
  call,      \* each thread in setResolution: pc and the resolution wanted
  global,    \* pglobal->in[id]: room (the size of buf) and the picture in it
  reported,  \* in_formats[].currentResolution, as the size it stands for
  failed,    \* did the last setResolution for a command to return fail? (history)
  overlap,   \* who has worked on the device at once (history): "camera", a command
             \* while the camera thread was not held in its wait for PAUSED to end;
             \* "calls", two threads in setResolution
  fault      \* the access that was not allowed to happen, or "none"

vars == <<dv, vd, files, changes, opens, pics, cam, call, global, reported, failed, overlap, fault>>

-----------------------------------------------------------------------------
Callers == Commanders \cup {Cam}

\* Nothing behind a pointer, and a buffer that has been allocated.
NoTmp == [live |-> FALSE, pic |-> 0, res |-> 0]
BlankTmp(r) == [live |-> TRUE, pic |-> 0, res |-> r]
Idle == [pc |-> "idle", res |-> 0]
Sizes == Resolutions \cup {0}

IsOpen(f) == f \in DOMAIN files
Without(f) == [g \in DOMAIN files \ {f} |-> files[g]]

\* init_videoIn, input_run and the start of cam_thread have succeeded.
Init ==
  /\ dv \in DvModes
  /\ \E r \in Resolutions :
       /\ vd = [state |-> "ON", fd |-> 1, res |-> r, mem |-> 1, tmp |-> BlankTmp(r)]
       /\ global = [room |-> r, pic |-> 0]
       /\ reported = r
  /\ files = [f \in {1} |-> [ready |-> TRUE, streams |-> TRUE]]
  /\ changes = 0 /\ opens = 1 /\ pics = 0
  /\ cam = [pc |-> "loop", from |-> 0]
  /\ call = [p \in Callers |-> Idle]
  /\ failed = FALSE /\ overlap = {} /\ fault = "none"

-----------------------------------------------------------------------------
(* cam_thread.                                                             *)

\* Is thread p in the middle of its work on the device?
Works(p) == call[p].pc \notin {"idle", "pause", "off", "report"}
Mark(who, condition) == IF condition THEN {who} ELSE {}

CamGoes(pc) == cam' = [cam EXCEPT !.pc = pc]

\* Thread p calls setResolution for resolution r.
Calls(p, r) ==
  /\ changes < MaxChanges /\ changes' = changes + 1
  /\ call' = [call EXCEPT ![p] = [pc |-> "pause", res |-> r]]

\* endloop and cam_cleanup: the struct and the buffers are freed, and the
\* descriptor stays open.
Cleanup ==
  /\ CamGoes("dead")
  /\ vd' = [vd EXCEPT !.state = IF @ = "ON" THEN "OFF" ELSE @, !.tmp = NoTmp]
  /\ files' = IF vd.state = "ON" /\ IsOpen(vd.fd)
              THEN [files EXCEPT ![vd.fd].streams = FALSE] ELSE files
  /\ global' = [room |-> 0, pic |-> 0]

CamDies == Cleanup /\ UNCHANGED <<changes, opens, pics, call, overlap, fault>>

CamCrashes(f) ==
  /\ fault' = f /\ CamGoes("crash")
  /\ UNCHANGED <<vd, files, changes, opens, pics, call, global, overlap>>

\* The wait while PAUSED, at the head of the loop.
CamLoop ==
  /\ cam.pc = "loop" /\ vd.state # "PAUSED"
  /\ CamGoes("select") /\ overlap' = overlap \cup Mark("camera", \E c \in Commanders : Works(c))
  /\ UNCHANGED <<vd, files, changes, opens, pics, call, global, fault>>

\* select() on a descriptor that is closed fails; a device that does not stream
\* is ready at once, and the error comes with VIDIOC_DQBUF.
CamSelect ==
  /\ cam.pc = "select"
  /\ \/ /\ IsOpen(vd.fd)
        /\ \/ CamGoes("grab")
           \/ CamGoes("loop")                     \* EINTR
           \/ dv /\ CamGoes("events")             \* only an event is pending
        /\ UNCHANGED <<vd, files, changes, opens, pics, call, global, overlap, fault>>
     \/ (~IsOpen(vd.fd) \/ CameraFails) /\ CamDies

\* select() times out: with dv_timings the camera is set up again.
CamTimeout ==
  /\ cam.pc = "select" /\ CameraFails
  /\ IF dv
     THEN /\ CamGoes("set")
          /\ Calls(Cam, vd.res)
          /\ UNCHANGED <<vd, files, opens, pics, global, overlap, fault>>
     ELSE CamDies

\* uvcGrab, VIDIOC_DQBUF.  A buffer that is too short to be a picture is not
\* copied.
CamDequeue ==
  /\ cam.pc = "grab"
  /\ \/ /\ IsOpen(vd.fd) /\ files[vd.fd].streams /\ pics < MaxPics
        /\ \/ cam' = [pc |-> "copy", from |-> vd.fd] /\ pics' = pics + 1
           \/ cam' = [pc |-> "requeue", from |-> vd.fd] /\ pics' = pics
        /\ UNCHANGED <<vd, files, changes, opens, call, global, overlap, fault>>
     \/ /\ IsOpen(vd.fd) => ~files[vd.fd].streams \/ CameraFails
        /\ CamDies

\* uvcGrab, memcpy(vd->tmpbuffer, vd->mem[...]).  The buffers of another open
\* file hold nothing yet.
CamCopy ==
  /\ cam.pc = "copy"
  /\ \/ vd.mem = 0 /\ CamCrashes("unmapped")
     \/ ~vd.tmp.live /\ CamCrashes("freed")
     \/ /\ vd.mem # 0 /\ vd.tmp.live
        /\ vd' = [vd EXCEPT !.tmp.pic = IF vd.mem = cam.from THEN pics ELSE 0]
        /\ CamGoes("requeue")
        /\ UNCHANGED <<files, changes, opens, pics, call, global, overlap, fault>>

\* uvcGrab, VIDIOC_QBUF: in another open file the buffer is queued already.
\* Then the frame is skipped (every, minimum size, frame dropping) or goes on
\* to be published.
CamRequeue ==
  /\ cam.pc = "requeue"
  /\ \/ /\ IsOpen(vd.fd) /\ vd.fd = cam.from
        /\ CamGoes("publish") \/ CamGoes("events")
        /\ UNCHANGED <<vd, files, changes, opens, pics, call, global, overlap, fault>>
     \/ (~IsOpen(vd.fd) \/ vd.fd # cam.from \/ CameraFails) /\ CamDies

\* memcpy_picture or compress_image_to_jpeg, under db.  buf has the size that
\* input_run gave it.
CamPublish ==
  /\ cam.pc = "publish"
  /\ \/ ~vd.tmp.live /\ CamCrashes("freed")
     \/ vd.tmp.live /\ vd.tmp.res > global.room /\ CamCrashes("overrun")
     \/ /\ vd.tmp.live
        /\ global' = [global EXCEPT !.pic = vd.tmp.pic]
        /\ CamGoes("events")
        /\ UNCHANGED <<vd, files, changes, opens, pics, call, overlap, fault>>

\* other_select_handlers: with dv_timings a change of the source is handled.
CamEvents ==
  /\ cam.pc = "events"
  /\ \/ CamGoes("loop") /\ UNCHANGED <<changes, call>>
     \/ dv /\ CamGoes("set") /\ Calls(Cam, vd.res)
  /\ UNCHANGED <<vd, files, opens, pics, global, overlap, fault>>

CamStep ==
  /\ CamLoop \/ CamSelect \/ CamTimeout \/ CamDequeue \/ CamCopy \/ CamRequeue
       \/ CamPublish \/ CamEvents
  /\ UNCHANGED <<dv, reported, failed>>

-----------------------------------------------------------------------------
(* setResolution, called by thread p.                                      *)

\* input_cmd, IN_CMD_RESOLUTION: the number of a resolution in in_formats.  One that
\* is too large is refused, and does nothing; a negative one is not tested, and what
\* stands before the table is taken for a size, or cannot be read.
Command(c) ==
  /\ call[c].pc = "idle"
  /\ \/ \E r \in Sizes : Calls(c, r) /\ UNCHANGED fault
     \/ fault' = "index" /\ UNCHANGED <<changes, call>>
  /\ UNCHANGED <<vd, files, opens, pics, cam, global, reported, failed, overlap>>

\* A command that comes after cam_cleanup uses the struct that was freed.
UsesFreed(c) ==
  /\ call[c].pc \notin {"idle", "report"} /\ cam.pc = "dead"
  /\ fault' = "freed" /\ overlap' = overlap \cup {"camera"}
  /\ UNCHANGED <<vd, files, changes, opens, pics, cam, call, global, reported, failed>>

\* Thread p is at pc in setResolution; the history notes whether the camera
\* thread is held, and whether another thread works on the device.
At(p, pc) == call[p].pc = pc /\ (p # Cam => cam.pc # "dead")
Notes(p) ==
  overlap' = overlap \cup Mark("camera", p # Cam /\ cam.pc # "loop")
                     \cup Mark("calls", \E q \in Callers \ {p} : Works(q))
CallGoes(p, pc) == call' = [call EXCEPT ![p].pc = pc]

\* setResolution returns -1.
Fails(p) ==
  /\ call' = [call EXCEPT ![p] = Idle]
  /\ IF p = Cam THEN CamGoes("fail") /\ UNCHANGED failed
                ELSE failed' = TRUE /\ UNCHANGED cam
  /\ UNCHANGED <<pics, global, reported, fault>>

Continues(p, pc) ==
  /\ CallGoes(p, pc)
  /\ UNCHANGED <<pics, cam, global, reported, failed, fault>>

\* The camera thread leaves its loop when its own setResolution failed.
CamGivesUp ==
  /\ cam.pc = "fail" /\ CamDies
  /\ UNCHANGED <<reported, failed>>

Pause(p) ==
  /\ At(p, "pause")
  /\ vd' = [vd EXCEPT !.state = "PAUSED"]
  /\ Continues(p, "off") /\ UNCHANGED <<files, opens, overlap>>

\* video_disable: VIDIOC_STREAMOFF.
StreamOff(p) ==
  /\ At(p, "off") /\ Notes(p) /\ UNCHANGED opens
  /\ \/ /\ IsOpen(vd.fd)
        /\ files' = [files EXCEPT ![vd.fd].streams = FALSE]
        /\ vd' = [vd EXCEPT !.state = "PAUSED"]
        /\ Continues(p, "close")
     \/ /\ ~IsOpen(vd.fd) \/ CameraFails
        /\ Fails(p) /\ UNCHANGED <<vd, files>>

\* Mutant: the descriptor is not closed.
UnmapAndClose_NoClose(p) ==
  /\ At(p, "close") /\ Notes(p)
  /\ vd' = [vd EXCEPT !.mem = 0]
  /\ Continues(p, "open") /\ UNCHANGED <<opens, files>>

\* munmap of the buffers and close of the descriptor.
UnmapAndClose(p) ==
  /\ At(p, "close") /\ Notes(p)
  /\ vd' = [vd EXCEPT !.mem = 0]
  /\ files' = Without(vd.fd)
  /\ Continues(p, "open") /\ UNCHANGED opens

\* vd->width and height, and the open of init_v4l2.
Open(p) ==
  /\ At(p, "open") /\ Notes(p)
  /\ \/ /\ opens' = opens + 1
        /\ vd' = [vd EXCEPT !.res = call[p].res, !.fd = opens + 1]
        /\ files' = [f \in DOMAIN files \cup {opens + 1} |->
                       IF IsOpen(f) THEN files[f] ELSE [ready |-> FALSE, streams |-> FALSE]]
        /\ Continues(p, "init")
     \/ /\ CameraFails
        /\ vd' = [vd EXCEPT !.res = call[p].res, !.fd = 0]
        /\ Fails(p) /\ UNCHANGED <<files, opens>>

\* The rest of init_v4l2: format, buffers, mapping, queueing.  The driver lets
\* only one open file have buffers.  The resolution is the one that the driver
\* gives, or with dv_timings the source.  After a failure the descriptor stays open.
InitDevice(p) ==
  LET possible == IsOpen(vd.fd) /\ \A f \in DOMAIN files : ~files[f].ready
  IN  /\ At(p, "init") /\ Notes(p) /\ UNCHANGED opens
      /\ \/ /\ possible
            /\ files' = [files EXCEPT ![vd.fd].ready = TRUE]
            /\ \E r \in Resolutions : vd' = [vd EXCEPT !.mem = vd.fd, !.res = r]
            /\ Continues(p, "alloc")
         \/ /\ ~possible \/ CameraFails
            /\ Fails(p) /\ UNCHANGED <<vd, files>>

\* Mutant: the buffer is freed and not allocated again.
Realloc_FreesOnly(p) ==
  /\ At(p, "alloc") /\ Notes(p) /\ UNCHANGED <<files, opens>>
  /\ vd' = [vd EXCEPT !.tmp = NoTmp] /\ Continues(p, "enable")

\* free_framebuffer and init_framebuffer.
Realloc(p) ==
  /\ At(p, "alloc") /\ Notes(p) /\ UNCHANGED <<files, opens>>
  /\ \/ vd' = [vd EXCEPT !.tmp = BlankTmp(vd.res)] /\ Continues(p, "enable")
     \/ CameraFails /\ vd' = [vd EXCEPT !.tmp = NoTmp] /\ Fails(p)

\* Mutant: the result of VIDIOC_STREAMON is not looked at.
Enable_Ignores(p) ==
  /\ At(p, "enable") /\ Notes(p) /\ UNCHANGED opens
  /\ files' \in {files} \cup (IF IsOpen(vd.fd) THEN {[files EXCEPT ![vd.fd].streams = TRUE]} ELSE {})
  /\ vd' = [vd EXCEPT !.state = "ON"]
  /\ IF p = Cam THEN CallGoes(p, "idle") /\ CamGoes("loop")
                ELSE CallGoes(p, "report") /\ UNCHANGED cam
  /\ UNCHANGED <<pics, global, reported, failed, fault>>

\* Mutant: the state stays PAUSED.
Enable_StaysPaused(p) ==
  /\ At(p, "enable") /\ Notes(p) /\ IsOpen(vd.fd) /\ UNCHANGED <<opens, vd>>
  /\ files' = [files EXCEPT ![vd.fd].streams = TRUE]
  /\ IF p = Cam THEN CallGoes(p, "idle") /\ CamGoes("loop")
                ELSE CallGoes(p, "report") /\ UNCHANGED cam
  /\ UNCHANGED <<pics, global, reported, failed, fault>>

\* video_enable: VIDIOC_STREAMON.  The camera thread goes on with its loop, a
\* command returns to input_cmd.
Enable(p) ==
  LET possible == IsOpen(vd.fd) /\ files[vd.fd].ready
  IN  /\ At(p, "enable") /\ Notes(p) /\ UNCHANGED opens
      /\ \/ /\ possible
            /\ files' = [files EXCEPT ![vd.fd].streams = TRUE]
            /\ vd' = [vd EXCEPT !.state = "ON"]
            /\ IF p = Cam THEN CallGoes(p, "idle") /\ CamGoes("loop")
                          ELSE CallGoes(p, "report") /\ UNCHANGED cam
            /\ UNCHANGED <<pics, global, reported, failed, fault>>
         \/ /\ ~possible \/ CameraFails
            /\ Fails(p) /\ UNCHANGED <<vd, files>>

\* Mutant: resolutions are counted from 1 in one place and from 0 in the other.
Report_OffByOne(c) ==
  /\ call[c].pc = "report"
  /\ reported' = call[c].res - 1 /\ failed' = FALSE
  /\ call' = [call EXCEPT ![c] = Idle]
  /\ UNCHANGED <<vd, files, changes, opens, pics, cam, global, overlap, fault>>

\* input_cmd notes the new resolution for the browser.
Report(c) ==
  /\ call[c].pc = "report"
  /\ reported' = call[c].res /\ failed' = FALSE
  /\ call' = [call EXCEPT ![c] = Idle]
  /\ UNCHANGED <<vd, files, changes, opens, pics, cam, global, overlap, fault>>

SetResolution(p) ==
  /\ \/ Pause(p) \/ StreamOff(p) \/ UnmapAndClose(p) \/ Open(p) \/ InitDevice(p)
     \/ Realloc(p) \/ Enable(p)
  /\ UNCHANGED <<dv, changes>>

CommandStep(c) == (Command(c) \/ UsesFreed(c) \/ Report(c)) /\ UNCHANGED dv

Next ==
  /\ fault = "none"
  /\ \/ CamStep
     \/ CamGivesUp /\ UNCHANGED dv
     \/ \E p \in Callers : SetResolution(p)
     \/ \E c \in Commanders : CommandStep(c)

Spec == Init /\ [][Next]_vars

\* A thread inside setResolution, and the camera thread, are not suspended for
\* ever; commands come or do not come.
FairSpec ==
  /\ Spec
  /\ WF_vars(fault = "none" /\ (CamStep \/ (CamGivesUp /\ UNCHANGED dv)))
  /\ \A p \in Callers : WF_vars(fault = "none" /\ SetResolution(p))

-----------------------------------------------------------------------------
(* Properties.                                                             *)

\* Every variable stays in its range.
TypeOK ==
  /\ dv \in BOOLEAN
  /\ vd \in [state : {"ON", "OFF", "PAUSED"}, fd : 0 .. MaxChanges + 1, res : Sizes,
             mem : 0 .. MaxChanges + 1,
             tmp : [live : BOOLEAN, pic : 0 .. MaxPics, res : Sizes]]
  /\ DOMAIN files \subseteq 1 .. MaxChanges + 1
  /\ \A f \in DOMAIN files : files[f] \in [ready : BOOLEAN, streams : BOOLEAN]
  /\ opens \in 1 .. MaxChanges + 1 /\ pics \in 0 .. MaxPics /\ changes \in 0 .. MaxChanges
  /\ cam \in [pc : {"loop", "select", "grab", "copy", "requeue", "publish", "events",
                    "set", "fail", "dead", "crash"}, from : 0 .. MaxChanges + 1]
  /\ call \in [Callers -> [pc : {"idle", "pause", "off", "close", "open", "init", "alloc",
                                "enable", "report"}, res : Sizes]]
  /\ global \in [room : Sizes, pic : 0 .. MaxPics]
  /\ reported \in Sizes /\ failed \in BOOLEAN /\ overlap \subseteq {"camera", "calls"}
  /\ fault \in {"none", "unmapped", "freed", "overrun", "index"}

\* The wait for PAUSED to end is all that keeps the camera thread and a command
\* apart, and it is enough exactly when one command at a time works on the device
\* and the camera thread is held there: then nobody touches what another has
\* unmapped or freed.  (The size of the global buffer, and the number of a
\* resolution that no table has, are other matters.)
HeldIsSafe == overlap = {} => fault \in {"none", "overrun", "index"}

\* Where no two threads are in setResolution at once, a descriptor that was replaced
\* has been closed, so that a series of changes and failures never leaves two open.
NoLeakedFile == "calls" \notin overlap => DOMAIN files \subseteq {vd.fd}

\* When streamingState is ON and nobody is changing it, the device streams from
\* buffers that are set up and mapped, and there is room for the picture, even
\* after a command that overlapped with the work of the camera thread.  Two
\* threads in setResolution at once, two commands or a command and the camera
\* thread with dv_timings, break it.
Quiet == \A p \in Callers : call[p].pc \in {"idle", "report"}
OnIsReady ==
  "calls" \notin overlap /\ vd.state = "ON" /\ Quiet /\ cam.pc # "dead" =>
    /\ IsOpen(vd.fd) /\ files[vd.fd].ready /\ files[vd.fd].streams
    /\ vd.mem = vd.fd /\ vd.tmp.live

\* All of this: the device is never used after it is gone, never leaked, and ready
\* when it is said to be on.
DeviceSound == HeldIsSafe /\ NoLeakedFile /\ OnIsReady

\* The camera thread comes out of its wait, or a change of the resolution
\* failed.
PauseEnds ==
  cam.pc = "loop" /\ vd.state = "PAUSED" ~> cam.pc # "loop" \/ failed \/ fault # "none"

=============================================================================
