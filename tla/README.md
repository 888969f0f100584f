# Verification of the robot's camera and service software

TLA+ models of the concurrent parts of this repository, the TLC runs that check
them on small instances, and machine-checked proofs, for every value of the constants,
of what the runs check on those instances.

The repository is the software of a small mobile robot. Its heart is a fork of
**mjpg-streamer** (`src/mjpg-streamer/mjpg-streamer-experimental`, C, threads),
which reads a camera and serves the pictures over HTTP. Around it are Python
services: visual odometry and circle detection (asyncio), an IMU service
(selectors), telepresence (motors driven from a browser) and a capture service for
calibration. Below, `M` stands for `src/mjpg-streamer/mjpg-streamer-experimental`.

## 1. Inventory

### 1.1 mjpg-streamer

| Component | State | Operations | Interacts with |
|---|---|---|---|
| hand-off (`M/mjpg_streamer.h`, `plugins/input.h`) | per input: `buf`, `size`, `timestamp`, mutex `db`, condition `db_update`; `global.stop` | lock, write, broadcast, unlock; lock, wait, copy, unlock | every input and output plugin |
| start and shutdown (`mjpg_streamer.c`) | lists of plugins, `global.stop` | load, init, run; `signal_handler` cancels threads, destroys `db` and `db_update`, exits | all plugins |
| `input_uvc` | `struct vdIn` (descriptor, mapped buffers, `tmpbuffer`, `streamingState`), the driver's open files | `cam_thread`, `uvcGrab`, `setResolution`, controls | publishes; is called by HTTP client threads through `input_cmd` |
| `input_http` | `extractor_state`, a socket | connect, receive, extract, publish | reads another server's `send_stream` |
| `input_file`, `input_opencv`, `input_ptp2`, `input_raspicam`, `input_testpicture` | a folder and inotify; a capture; a camera; a pool of buffers | one producer thread or callback each | publish |
| `output_http` (`httpd.c`) | listening sockets, one `cfd` per accepted connection | `server_thread`; `client_thread`: read, check the password, answer, close | waits for frames; sends commands to inputs and outputs |
| `output_file` | the static `frame`, `max_frame_size`, the folder, the counter | `worker_thread`, `maintain_ringbuffer`, `output_cmd` | waits for frames; is called by HTTP client threads |
| `output_udp`, `output_rtsp`, `output_zmqserver`, `output_viewer`, `output_autofocus` | a socket or a display, a copy of the frame | one consumer thread each | wait for frames |

What is hard: the threads of different plugins share buffers under one mutex, and
some only by habit; a frame is announced by a condition variable that no predicate
guards; commands of HTTP clients run inside other plugins; threads are cancelled at
shutdown while others wait; every system call may fail with the ones before it done.

What makes them right: a client sends whole pictures, fresh ones, in order; whoever
locks unlocks on every path; a connection is served by its own thread and closed
once; a file holds the picture that was copied; the folder keeps its bound; a change
of the resolution leaves a device that streams.

### 1.2 The Python services

| Component | State | Operations | Interacts with |
|---|---|---|---|
| position, circles (`servidor.py`, `servico_circulos.py`) | a queue per web socket, the set of queues, a worker task | put a result into every queue; handler: receive, get, send | browsers, the camera |
| IMU (`servicoimu.py`) | a list of sockets, the last reading | select; read the sensor; accept; send to all | clients over TCP |
| telepresence (`servidor.py`, `motorctrl.py`) | the motors | a message sets both motors | browsers |
| capture (`camera_stream.py`) | the newest frame, `keep_alive` | capture loop, stream handler, shutdown | browsers, the camera |

What is hard: order and loss between a worker and slow browsers, a browser that
leaves in the middle of an await, a worker that dies unseen, the shutdown.

What makes them right: no result is skipped or overtaken, a queue lives as long as
its handler, a browser that left is noticed, motors stop when nobody drives.

Sequential parts (libjpeg conversion, scripts, notebooks, data, web pages, build
files) are outside of the project, and of the vendored MMAL library only the path of
the buffers, on which `input_raspicam` depends, is inside. The components,
each with its state of modelling, and the hazards of the code, each at its line with
the properties that watch it, are listed in `PROJECT.json`.

## 2. Modules

| Module | Models | Checked by | Proved in |
|---|---|---|---|
| `FrameBoard` | the promise of the hand-off, without threads | `FrameHandoff` (as `BoardSpec`) | |
| `FrameHandoff` | `cam_thread`, `send_snapshot`, `send_stream`, `signal_handler` | `MCFrameHandoff`, 2 runs | `FrameHandoffProofs` |
| `StreamerState` | `struct globals` and the static variables of the plugin libraries | `MCStreamer` | `StreamerProofs` |
| `InputPlugins` | `input_file`, `input_ptp2`, `input_opencv`, `input_testpicture` | `MCStreamer` | `StreamerProofs` |
| `OutputPlugins` | `output_udp`, `output_rtsp`, `output_zmqserver`, `output_viewer`, `output_autofocus` | `MCStreamer` | `StreamerProofs` |
| `Streamer` | `main` and `signal_handler`, composing the three above | `MCStreamer`, 1 run | `StreamerProofs` |
| `OutputFile` | `output_file.c`, and A_TAKE of `httpd.c` | `MCOutputFile`, 2 runs | `OutputFileProofs` |
| `UvcCapture` | capture of `input_uvc.c`, `v4l2uvc.c` with `setResolution` | `MCUvcCamera` | `UvcCameraProofs` |
| `UvcControls` | the controls of `input_uvc.c` and `v4l2uvc.c`, and `command()` of `httpd.c` | `MCUvcCamera` | `UvcCameraProofs` |
| `UvcCamera` | commands of either kind, composing the two above | `MCUvcCamera`, 1 run | `UvcCameraProofs` |
| `Mmal` | the path of a buffer header through the MMAL library | `MCRaspicam` | `RaspicamProofs` |
| `Raspicam` | `input_raspicam.c` and an output, on `Mmal` | `MCRaspicam`, 1 run | `RaspicamProofs` |
| `HttpServer` | `server_thread`, `client_thread` | `MCHttpServer`, 2 runs | `HttpServerProofs` |
| `MjpgProxy` | `input_http`: `mjpg-proxy.c`, `misc.c` | `MCMjpgProxy`, 1 run | `MjpgProxyProofs` |
| `ResultService` | the position and the circle service | `MCResultService`, 1 run | `ServicesProofs` |
| `ImuService`, `Telepresence`, `CaptureService` | the other three services | `MCRobotServices` | `ServicesProofs` |
| `RobotServices` | one of these three per behaviour | `MCRobotServices`, 1 run | `ServicesProofs` |

`FrameHandoff` is the module the others lean on. It models the mutex at the grain of single
accesses and shows that a publication, and a copy, is one step of `FrameBoard` for everybody
who owns `db`. `OutputFile`, `UvcCapture`, `MjpgProxy` and the plugins of `Streamer` therefore
take a publication, and a copy under `db`, as one step, except where the code leaves such a
section without unlocking or sleeps inside it. `HttpServer` leaves the frame to `FrameHandoff`
and the file of a "take" request to `OutputFile`.

An operator whose comment begins with "Mutant:" is a plausible mistake in the
definition after it. It is never part of a specification; with it in place of that
definition the property named in `PROJECT.json` is violated.

### 2.1 FrameHandoff

A picture is the number of its capture. `image`, `size` and `stamp` (the three
fields of the global buffer) and the three fields of every `copy` each carry the
number of the picture they belong to, so that a mixture is visible.

* Camera thread, `cam`: loop head; `Grab` (select and `uvcGrab`, which keeps the old
  picture when the driver returns an empty buffer); `CamSkips` (frame dropping);
  `CamLock`, `WriteImage`, `WriteSize`, `WriteStamp`, `Broadcast`; `CamFails` and the
  cleanup, which frees the buffer and clears its size **without** `db`.
* Client threads, `pc[c]`: `Connect`, `StreamHead`, `EnterWait` (the first half of
  `pthread_cond_wait`), `Relock` (its second half), `ReadSize`, `AllocFails`,
  `ReadStamp`, `CopyImage`, `Send`.
* `signal_handler`, `sig`: `SigStop`, `SigCancel`, `SigExit`.

`pthread_cond_wait` is a set of waiters (those at `"wait"`); a broadcast moves all of
them to `"relock"`. `published`, `asked` and `copy[c].pub` are history: they count
publications and guard no step but the bound of `Grab`.

### 2.2 OutputFile

The static `frame` is an allocation number `gen`, its real size, and the picture in
it. `maxSize` is `max_frame_size`, what the plugin believes. `write()` takes the bytes
in two halves (`WorkerFirst`, `WorkerSecond`; `TakeFirst`, `TakeSecond`), each from
the allocation whose address the call was given: a half read after another thread's
copy shows that picture, one read after `realloc` moved the buffer shows `Freed`; where
`setup.short` says that `write()` may store less than it was given, the second half may
stay out, which the code, looking only for a negative result, takes for success. A
file on disk has the second and the counter of its name, the order of its opening
(history), and the halves. `Restart` is a crash: the disk stays, the counter begins
at 0 and the mjpg file is truncated. `stuck` is `db` held by a thread that was cancelled
in `pthread_cond_wait`: it owns the mutex again when it is cancelled, and
`worker_cleanup` does not unlock it.

`pthread_cond_wait` is called without a predicate (`output_file.c:220`): with
`setup.spurious` the worker, and a snapshot that waits, may go on without a broadcast
(`SpuriousWakeup`). With `setup.jumps` the local time may be set back (`SetBack`), which is
the time that "is not valid" of the comment at line 149.

### 2.3 UvcCapture

`vd` is the `struct vdIn` that the camera thread and `setResolution` share. `files`
are the open files of the driver, which lets one of them have buffers at a time.
The camera thread goes `loop`, `select`, `grab`, `copy`, `requeue`, `publish`,
`events`; a caller of `setResolution` goes `pause`, `off`, `close`, `open`, `init`,
`alloc`, `enable`, and every one of these may fail where the call may. `fault` is
set by the first access to memory that is unmapped, freed or too small, and ends the
behaviour. `overlap` (history) records who worked on the device at once:
`"camera"`, a command and the camera thread that was not held in its wait for PAUSED to
end; `"calls"`, two threads in `setResolution`. The driver may give another size than it
was asked for, and the code takes it (`InitDevice`). A command names a resolution by its
number: one that is too large is refused; a negative one passes the test, and its size is
what stands before the table (0 in `Sizes`) or cannot be read (the fault `"index"`).

`UvcControls` is the other use of `input_cmd`. `camera` holds the values in the device,
`listed` what browsers are shown. A thread in `input_cmd` (`writer`) goes `v4l2`
(`FindControl`), `ioctl`, `cache` (`v4l2SetControl` notes the value), `note` (`input_cmd`
notes it again, beside the first control) and, for a browser, `answer`. `orders` are the
calls of `cam_thread` for the options of the command line, in their order. Which value the
camera fixes while an automatic mode is on (`Mode`, `Settable`) is the driver's, and
external. A camera that changes a value of itself in an automatic mode is left out.

`UvcCamera` chooses in its initial state whether browsers change the resolution or set
controls. The two share the descriptor and nothing else, an ioctl on one that is closed
fails, and `UvcControls` lets every ioctl fail.

### 2.4 HttpServer

`boxes` are the `cfd` structures: one is allocated for each return of `select()`, the
descriptor is written into it by `Accept`, and the client thread copies and frees it
(`TakeBox`). A thread reads the request line and the headers, each of which may time
out, checks the password, answers (`Answer`) and closes; a request that is none is answered
with an error before the password is looked at. A snapshot and a stream then wait for the
camera's next picture (`"wait"`), without a timeout and without a look at the browser:
`Publish` wakes them, as a spurious wakeup may, and once `CameraEnds` has happened nothing
else does. `SendPicture` writes to a browser that may have left (`gone`).

### 2.5 ResultService

One asyncio loop: an action is what a coroutine does from one await that blocks to the
next. `put()` on a queue without a limit does not block, so a result reaches all
queues in one step. `forgets` chooses the service: after a failed send the circle
service removes the queue, the position service raises and does not. `last`, `item` and
`queue` hold numbers of results, counted modulo `Numbers`; `ResultsSound` compares
neighbours only, and `Numbers > MaxQueue + 2` keeps them apart. A handler learns that its
browser has left from CLOSE, from `ws.closed` at its loop head, or from a failed send; from a
lost one, aiohttp may not know yet, so that it may as well go on.

### 2.6 MjpgProxy

The parser sees one byte at a time, so that the pieces in which `recv()` delivers make
no difference to it. `toCome` is what the other server has written and this one has
not processed. Bytes that no test tells apart are one value; the bit mask of
`is_crlf` is modelled by the sets of bytes that pass it. `Connect` writes the head of
`send_stream`'s response or a refusal; `Hangup` is possible after every byte.

### 2.7 Streamer

`conf` is the command line: kinds of inputs, and outputs with the input each reads. `main`
opens and runs the plugins one by one (`OpenInput`, `OpenOutput`, `RunInput`, `RunOutput`),
any of which may fail and end the program, and pauses. `Interrupt` is SIGINT, from the
start on; then `StopInput`, `StopOutput`, `Destroy` (mutex and condition variable of the
board that has the *index of the output*) and `Close` follow `signal_handler`. A board has
its `owner` (the mutex `db`), its buffer (`null`, `live`, `freed`) and the number of its
picture. What is static in a library (`worker`, `number`, `cleaned`, `frame`) is indexed by
the kind of plugin, so that two plugins of one kind share it as they do in the program.

A thread of an input (`source`) is at one program counter per loop, and one more where it
sleeps or blocks while it holds a lock (`PtpSection`, `Zoom`). A thread of an output (`sink`)
goes `request` (a datagram, for two of them), `lock`, `wait`, `woken`, `copy`, `deliver`,
`head`; none of them tests a predicate after its wait, and on a command line with `spurious`
the wait may return unasked (`SpuriousWakeup`). A thread that is cancelled goes to its cleanup
from the points where `pthread_cancel` can act. `misuse` (history) holds threads that used a
board after its destruction; `fault` ends the behaviour: a NULL thread cancelled, a NULL
buffer copied, a buffer freed twice.

### 2.8 Mmal and Raspicam

A buffer header is a number. It is in the queue of the pool, with the VideoCore
(`vc.held`), in the callback queue of the component, in a callback (`run`) or in the hand
of the worker, and `port.transit` counts it the way `mmal_port.c` does. The VideoCore fills
headers with parts of pictures (`VcFill`); `ActionThread` calls the callback of the plugin,
which copies a part, posts the semaphore after the last one, and sends another header
(`CopyPart`, `EndPicture`, `Release`, `GetHeader`, `SendHeader`). The worker sets up
(`CreateComponents` to `EnablePort`), asks for pictures (`StillsLoop` to `Sleep`), and closes
everything in three rounds (`DeleteSemaphore` to `WorkerCleanup`), in which
`mmal_port_disable` calls the same callback in the worker's own thread (`DrainOne`).
`mayFail` says which failures a behaviour may meet; `"wakeup"` among them is a wait of the
output that returns unasked.

### 2.9 RobotServices

`ImuService` is one thread: `select`, the events of the round in any order (`accept()` and
the IMU may fail), `send` to each
client on sockets that take all of a packet, a part, or nothing. `Telepresence` and
`CaptureService` are coroutines: an action is what runs from one await to the next. aiohttp's
shutdown (a time for the handlers, cancellation, then `on_cleanup`) is external. That
aiohttp *may* cancel the handlers of the capture service that are left is in the model
(`CancelHandlers`), but nothing rests on it: the FIXME at `camera_stream.py:66` says that the
service is held by a client until its connection is closed, so fairness lets `run_app` end
only when all handlers are over. The three programs share nothing; `RobotServices` runs one
of them per behaviour.

## 3. Runs

All runs are exhaustive for their constants. Deadlock is not checked, since every one of
these programs may stop: a process that has exited, a thread that has died and a
browser that asks for nothing more are final states.

| Run | Instance | States | Shows |
|---|---|---|---|
| `FrameHandoff` | 2 clients, 2 captures, 2 publications, no spurious wakeups | 856 000 | mutual exclusion on every path, whole frames, fresh frames, order, refinement of `FrameBoard` |
| `FrameHandoffLive` | 2 clients, 1 publication, spurious wakeups, fairness | 213 000 | a woken client delivers; only an abandoned client holds the shutdown back |
| `Streamer` | 15 command lines of 1 or 2 inputs and 1 or 2 outputs, 1 or 2 pictures, a signal at any time, spurious wakeups on 4 of them | 315 000 | outputs deliver whole pictures, ever newer ones, or the same again after a spurious wakeup; woken outputs deliver; an orderly shutdown is tidy and ends |
| `OutputFile` | 21 set-ups: alone or with a taker, ring of -1, 0 or 1, exceed of 0 or 1, pictures or movie, with and without failing realloc and unlink, set-backs of the time, short writes, spurious wakeups; 3 pictures, 2 seconds, 1 restart | 5.2 M | the bound of the ring across a restart, only the oldest deleted while the time is valid, nothing older than what was copied is saved, whole files and a movie in order without takers, and what a short write or a spurious wakeup changes of that |
| `OutputFileTorn` | worker and one taker | violation | a file with two pictures |
| `UvcCamera` | 1 thread that changes between 2 resolutions twice, 2 pictures, with and without dv_timings, every call may fail; or 2 browsers, 2 commands, 5 cameras with their options | 1.4 M | what PAUSED protects, no leaked descriptor, ON means streaming, the wait ends; controls in range, listed as they are, options applied, answers true |
| `Raspicam` | 2 headers, 2 parts, 2 pictures, stills and video, one kind of failure per behaviour, spurious wakeups among them | 188 000 | no header lost, faults only after failures, whole pictures in order, no wait without end |
| `HttpServer` | 1 socket, 2 connections, 3 kinds of request, `pthread_create` may fail, browsers may leave, the camera may end | 547 000 | own thread, closed once, no leak, the password; connections end, except a stream to a browser that stays and those that wait for a camera that has ended |
| `HttpServerTwo` | 2 sockets, 2 connections | violation | two connections in one `cfd` |
| `ResultService` | 2 browsers, both services, queues of 2, the worker may die | 1.2 M | no gap, no queue left without a reason, leaving is noticed |
| `MjpgProxy` | 113 pictures, 2 per connection, a buffer of 12 bytes | 1.1 M | whole pictures, none missed, length never negative |
| `RobotServices` | IMU: 2 clients, sockets of one packet and a half, 3 samples; 2 drivers, 2 messages on their way; 1 viewer, 3 pictures, 2 requests | 195 000 | streams without gaps, nothing ends without a reason, what is over is given up, and only a viewer that stays or is not noticed holds the capture service |

### 3.1 Why the bounds are enough

* **FrameHandoff.** Two clients show all pairs (two waiters woken by one broadcast, one
  copying while the other waits). Two publications are what it takes to send a stale,
  a repeated or a mixed frame. The safety properties are proved for any number of
  either.
* **Streamer.** Each kind of plugin occurs, and each way in which numbers can go wrong:
  several outputs for one input, as many of both, a library loaded twice on either side,
  an output that reads an input before its own number, or one that is not there. Two
  pictures are what can be mixed or overtaken, in sizes that buffers do and do not allow
  for; a package of `output_zmqserver` is of two. Four command lines let waits return
  unasked, for an output that copies at once, for a package, and for each order of first
  picture and first wait; one delivery more than there are pictures shows a repetition.
* **OutputFile.** Sizes 1 and 3 with a slack of 1: a frame that fits, one that makes
  `realloc` move the buffer, and one that would overrun a buffer of the wrong size. Three
  pictures per run reach the maintenance of the first file and that of the exceed, for a ring
  of zero or one with an exceed of zero or one; a
  restart gives two runs of the program on one disk; two seconds separate them or not, and
  are enough for the time to be set back. Set-backs, short writes and spurious wakeups are
  options of a set-up, so that the properties are checked with and without each.
* **UvcCamera.** Two changes put a second one behind a failed or an overlapping first,
  and with dv_timings one in each thread. Growing and shrinking are both among the two
  resolutions. Two browsers and the camera thread give all pairs of writers; the cameras
  have a control that cannot be read, automatic modes of both classes, and options that
  are out of range, unknown to the camera, or overwrite each other; 0 and 101 are a value
  that every control takes and one that none does.
* **Raspicam.** Two headers let one be filled while the other is in a callback; two parts
  make a first that locks `db` and a last that unlocks it; two pictures show what one
  leaves behind. One kind of failure at a time keeps a cause apart from its effects; a
  spurious wakeup counts as one.
* **RobotServices.** Room for three halves of a packet makes a socket that takes all of
  one, half of the next, and then nothing; three samples come after that. Two drivers let
  one stop the motors that the other moves. Three pictures let a viewer skip one.
* **HttpServer.** Two connections are what the `cfd` can confuse. Three kinds reach each
  way through a thread: "take" fails, or waits as a snapshot does; a stream waits again and
  again; a command is answered at once or refused, as files, JSON and CGI are.
* **ResultService.** A queue of two with one result in the hand of the handler and one
  received makes four successive results, any of which could be lost. The bound on
  queues is a guard of `Work` for clients that are served; the real queues grow.
* **MjpgProxy.** The boundary has three bytes, two of them equal, as the real one begins
  with repeated bytes. Pictures are *all* strings of up to four bytes over `-`, `b` and a
  line feed without the boundary, so every false start of the search is among
  them; two pictures show what one leaves behind for the next; 7 and 8 bytes are one
  and two more than fit.

### 3.2 Fairness

* `FrameHandoff`: weak fairness of the camera thread and of the handler's steps, and of a
  client inside its critical section (threads the kernel schedules); strong fairness of
  `Relock`: the mutex is released after a bounded copy every time, and a thread that
  keeps asking is not refused for ever. None of SIGINT, connections, spurious wakeups or
  a browser that reads.
* `Streamer`: the steps of `main` and of the handler once they have begun, the threads of
  plugins, and the end of a zoom. None of datagrams, a camera that answers, spurious
  wakeups, or the signal.
* `UvcCamera`: the camera thread and every thread inside `setResolution` go on.
* `Raspicam`: weak fairness of the VideoCore, the action thread and its callbacks, and the
  worker; strong fairness of `CloseAll`, `ReaderLocks` and `CopyPart`, which compete for
  mutexes that are released again and again. None of spurious wakeups.
* `RobotServices`: of the service that the behaviour runs, the IMU's thread, the handlers that
  have a message, the end of the telepresence's `main` (where aiohttp cancels the handlers it
  has waited for), and the writes to a viewer whose page is gone, which fail at once. A browser that is
  there need not take what is written to it. The end of the capture service is fair only
  where all of its handlers are over.
* `HttpServer`: the server thread and every client thread go on, but a thread that waits
  for a picture only by a publication. Reads have a timeout of 5 seconds in the code, so a
  read ends one way or the other; a browser that stays takes what is written to it. A camera
  that has not ended publishes again; whether it ends is open. Nobody need leave, and a
  stream to a browser that stays is not required to end.
* `ResultService`: the loop runs what can run, and the worker produces while it lives.

Specifications of the other modules state no fairness, and only safety is claimed there.

## 4. Proofs

A theorem speaks of every value of the constants that the named assumptions allow: any
number of clients, sockets, buffers, pictures, restarts, and any command line.

| Module | Theorem | Says | Assumes |
|---|---|---|---|
| `FrameHandoffProofs` | `TypeCorrect` | `[]TypeOK` | |
| | `MutualExclusion` | `[]LockDiscipline`: the owner of `db` is the thread between its lock and its unlock, failed allocations included | |
| | `NoTornFrame` | `[]WholeFrame` | |
| | `NoStaleFrame` | `[]FreshFrame` | no spurious wakeups |
| | `StreamsGoForward` | `SendsForward` | no spurious wakeups |
| | `HandoffImplementsBoard` | `Spec => BoardSpec` | no spurious wakeups |
| `StreamerProofs` | `TypeCorrect` | `[]TypeOK` | |
| | `ShutdownIsTidy` | `[]TidyShutdown`: an orderly shutdown cancels what is there, frees once, and only threads that were told to stop use a board after its destruction | |
| | `DeliveriesAreWhole` | `DeliversWhole`: whole pictures, each newer than the one before; the same again, or nothing before the first, on a command line where waits may return unasked | |
| `OutputFileProofs` | `TypeCorrect` | `[]TypeOK` | |
| | `RingIsBounded` | `[]RingBound` | |
| | `NewestAreKept` | `KeepsNewest`: the ring keeps its size, and a file goes only when as many newer ones stay, unless its time is not valid | |
| | `SavedIsSound` | `[]SavedSound`: whole files (or their beginnings, with short writes), a movie in order (with repetitions, if wakeups may be spurious), nothing older than what was copied | |
| `UvcCameraProofs` | `CameraTypeCorrect` | `[]CameraTypeOK` | |
| | `ControlsStaySound` | `[]ControlsSound`: no user control leaves its range, and the list and the answers are true | |
| | `CameraStaysSound` | `[]CameraSound`: what PAUSED protects, no leaked descriptor, ON means streaming, the options of the command line are applied | |
| `HttpServerProofs` | `TypeCorrect` | `[]TypeOK` | |
| | `AcceptedServed` | `[]AcceptedIsServed` | one listening socket |
| | `PasswordIsRespected` | `[]PasswordRespected` | one listening socket |
| `ServicesProofs` | `TypeCorrect` | `[]TypeOK`, of `ResultService` | |
| | `ResultsAreSound` | `[]ResultsSound`: no result skipped or overtaken, no queue left without a reason | |
| | `ServicesTypeCorrect` | `[]ServicesTypeOK`, of `RobotServices` | |
| | `NoStreamHasGaps` | `[]StreamsGoOn` | |
| | `EveryEndExplained` | `[]EndsExplained` | |
| `MjpgProxyProofs` | `TypeCorrect` | `[]TypeOK`: with it, that no length is negative and the buffer is not overrun | |
| | `DeliveredIsWhole` | `[]DeliveredWhole` | |
| | `NoneIsMissed` | `[]NoneMissed` | |
| `RaspicamProofs` | `TypeCorrect` | `[]TypeOK`: with it, that no more is written to the global buffer than it holds | |
| | `EachHeaderAccounted` | `[]HeadersAccounted` | |
| | `EachPictureWhole` | `ReadsWhole`: one whole picture, newer each time; the same again, or nothing before the first, if `"wakeup"` is among the failures | |
| | `EachFaultExplained` | `[]FaultsExplained` | |

"One listening socket" and "no spurious wakeups" are hypotheses of the theorems, and both
are needed: with two sockets the run `HttpServerTwo` violates `AcceptedIsServed`, and a
spurious wakeup sends a frame twice. In `StreamerProofs`, `OutputFileProofs` and
`RaspicamProofs` spurious wakeups are no hypothesis: the command line, the set-up or the
failures say whether they happen, the theorem covers both, and the property names what they
change. The other hypotheses are the assumptions
that the modules name:

* `FrameHandoff`: camera thread, "nobody" and clients are different; what freed memory
  holds is not the number of a picture. `OutputFile` and `StreamerState` assume the latter too.
* `OutputFile`: the ring and its exceed are numbers, of either sign; a picture has a size.
* `StreamerState`: a command line names up to `MAX_INPUT_PLUGINS` inputs and as many outputs,
  at least one of each (`main` takes the default ones otherwise); an output may
  name an input that is not there.
* `UvcControls`: a camera has each control once, with an initial value in its range.
  `UvcCapture`: there is a resolution; the camera thread is not a client.
* `HttpServer`: there is a socket, and a kind of request for each branch of the code.
* `ResultService`: results are counted modulo a number that tells those in one queue apart.
* `MjpgProxy`: pictures do not hold the boundary, and the headers of a response fit into the
  buffer. Both are of the code: the boundary is a fixed string that nothing keeps out
  of a picture, and the headers are 300 bytes where the buffer has 256 KB.
* `Mmal`: the pool has a header, a picture has a part, and the calls that may fail are the four
  that the code tests. Stills and video, and every set of failures, are covered at once.
* `ImuService`: a socket holds something; `Telepresence`, `CaptureService`: bounds are numbers.

### 4.1 The hand-off

`WholeFrame` is not inductive: it speaks of a client that is about to send. The
strengthening has three parts.

1. `LockDiscipline` keeps the camera thread out of the buffer while a client is
   between `"size"` and `"image"`.
2. `BufferState` says what the three fields hold at each point of the camera thread:
   outside of its critical section all three agree, inside it the first ones are
   already the new picture's; after the cleanup `image` is `Freed` and `size` is 0.
3. `CopyState` says that what a client has copied so far agrees with the buffer. This is
   where the cleanup without `db` enters: the size may have become 0, or the image
   `Freed`, in the middle of a copy, and `WholeFrame` has to allow for it.

Freshness needs `WaitState`: a client past its wait has been overtaken by a
publication and has taken none since. The step that needs it is `Broadcast`, which
wakes waiters after `WriteStamp` has counted the publication. With a spurious wakeup the
step `"wait"` to `"relock"` breaks it, and so do the programs: neither `send_snapshot` nor
`send_stream` tests a predicate after the wait.

The refinement maps `latest` to the stamp of the buffer, counted by `published`, and `seen`
to the copies. `WriteStamp` is `Publish`, `FreeBuffer` is `Retire`, `CopyImage` is
`Deliver`, or `Lose` after the cleanup; every other step is a stutter. That the copied
image equals the stamp on the board is `CopyState` and `BufferState` together.

### 4.2 main and its plugins

Both invariants of `StreamerProofs` speak of static data that plugins of one kind share, and
each property excepts the command lines for which the sharing is harmful; the invariants
say the same for each point of the start, not only for the end.

`TidyInv` is about the shutdown. `Started` is the order of the start: threads of outputs begin
after those of all inputs. `OutputsNumbered` and `Owned` say that the number and the thread a
library knows are those of its only plugin from the time it is opened or run. `Told` says how far
the handler has come: the threads it has passed are cancelled. `Destroyed` says which boards
are gone. `TidyShutdown` follows at `Destroy` and at every use of a board: an output that
reads a destroyed board reads one with a number not greater than `main.i`, and it
was cancelled before (`InOrder`).

`WholeInv` is about the pictures. `BoardsHold`: a board whose buffer is freed has lost its
input (`Retired`). `WokenByNew`: an output that was woken by a publication finds a newer
picture than its last one, on a board that has a buffer; one that woke unasked finds no older
one. `Carried`: the buffers of an output are as large as its library believes (`Room`), and
what it has sent, followed by what its slots hold, is a chain of pictures that grows
(`Chain`). The chain is what the property cannot say alone: a package of `output_zmqserver` is
sent long after its first picture was copied.

### 4.3 The file output

`RoundBound` gives the bound of the ring at each point of a round, in terms of the counter
modulo the exceed; `RingBound` follows from it. Before the first maintenance of a run nothing
is known, as the disk is that of the run before. The bound is about cardinalities, and the
steps that need most are the deletions, which leave the newest files up to the bound, and a
file that replaces one of the same name. `NamesOrdered`: within a run the order of counters is
that of opening, and over seconds that of names, unless the time was set back. Of the files
that were opened before one whose time is valid none sorts after it, which gives
`KeepsNewest`. `WholeInv` (without takers) says that the buffer holds the picture the worker
is writing; `AgeInv` (with them) that nobody writes from a buffer older than his copy.

### 4.4 The camera

The device: `Counted` bounds the descriptors by the calls that may still open one. `Alone` says
how far the device is set up at each step of the one thread that works on it (`Stage`); it
holds while no two threads are in `setResolution`. `Held` says that a command works only while
the camera thread is at its loop head, and that the camera thread has its buffers otherwise,
as long as PAUSED has kept them apart. `InSet` is for the call that the camera thread makes
itself, for dv_timings, and holds whatever overlaps.

The controls: `RangeKept` and `AnswerTrue` need what a thread has made sure of before its
ioctl (`AllSure`): the control was found, and a value that gets to a user control is in its
range. `ListTrue` is not inductive, because it does not say what a thread is about to note.
`Noted` says that: the value that a thread has set is the camera's until it is noted, and is in
the list once `v4l2SetControl` has noted it. `OneAtATime` says that two threads that are there
for one control have made it `torn`. The step that needs most is `Note`, which writes beside
the first control: either that is the control it set, whose value it then repeats, or the
first entry is `spoilt` from there on. `Applied` says which options the camera thread has
passed and what each has left in the camera, which later options may overwrite.

### 4.5 The HTTP server

`TypeInv` is inductive for any number of sockets. What a thread waits for, and who has left,
touches nothing that the two other properties speak of. `OwnInv` is the chain of ownership with one
socket: the `cfd` of a round is the server's until it has spawned (`ServerOwns`), then of the
thread that starts, which serves the connection that is its own until it closes it
(`ThreadsOwn`). With two sockets `ServerOwns` breaks at the second `Accept` of a round.
`AllGuarded` adds what may have been sent at each step of a thread.

### 4.6 The services

`ResultService`: the result a browser has, the one in the hand of its handler, and those in its
queue are successive, up to the newest (`Chain`). A handler that starts finds its queue empty
(`Fresh`), because it has registered nowhere; the property does not say it.

`RobotServices`: the three services share nothing, so the invariant has a part for each. In the
IMU service `Due` is the last sample a client has been sent, which depends on
whether the round has still to serve it; the property speaks of the head of the loop. A stream
that ends in half a packet is one whose socket was full once. In the capture service no
number that anyone holds is above the last picture of the camera.

### 4.7 The parser of input_http

`ProxyInv` says where in the response the extractor is, byte by byte in the headers, and within
a picture by the number of its bytes that have come: the buffer holds them, and `matched` is
the length of the longest end of them that begins a boundary (`Matching`). `DeliveredInv`
relates what was published to the pictures sent so far. The step that needs most is a byte
that breaks a partial match: the picture holds no boundary, and the two dashes at the
beginning of it decide where the search goes on.

### 4.8 The raspicam

`RaspicamProofs` first says what each action does in terms of sets of records (`Does`, a
disjunction with one member per action, and `Steps`), so that the eight parts of the
invariant `IInv` need not look at the actions again. The parts lean on each other in this
order:

1. `TypeInv`: types, and that a callback or the worker that handles a header has one
   (`Named`). `Asking` bounds the pictures asked for.
2. `Control`: where the worker is and what it has set up or undone (`Staged`, `Disablings`), who
   acts for the component (`Acting`: the action thread outside of a callback has not the
   mutex, and the worker has it while it drains), and that `port.transit` is the sum
   of three places (`InTransit`). From `InTransit`: when `mmal_port_disable` has waited for 0, no
   callback is left, so that the pointer it then clears is not used again.
3. `InPlace`: the occurrences of a header in the two queues, with the VideoCore, in the callbacks
   and in the worker's hand add up to one, or to none if that is excused (`Excused`). The lemmas on
   `Times` count the occurrences in a queue after `Append`, `Tail` and the join that gives
   all headers back. `HeadersAccounted` follows from 2 and 3.
4. `Parts`: the parts on their way follow each other up to the one the encoder is at, and
   headers that were given back empty come after them (`Chained`); the part in a callback comes
   before these (`CopyChained`). So the offset never passes the number of the next part
   (`RoomLeft`), and the global buffer is large enough even when transfers fail.
5. `WholeInv`, until a transfer fails: what is in the buffer is the beginning of a picture that
   the parts on their way go on with (`Ordered`), `db` is locked exactly while this beginning
   is not empty, and an output that was woken will read a newer picture than its last
   one, or at least no older one if it woke unasked (`Reads`). `ReadsWhole` is the step that copies.
6. `TokenInv`, for stills, until a transfer fails: a picture that is waited for is in one stage
   only: asked for, its last part on its way, its callback about to post, or posted
   (`Waited`). After the wait nothing is on its way, so that `sem_delete` comes after all posts.
7. `Counting`: headers are counted and taken from the pool while nothing is on its way (`Settled`,
   from `Token`, and for video because it does so once, before the capture), so that none is
   missing. A failed transfer ends the wait while other parts of the picture are still to
   come, and this is the only cause of "null header".
8. `Posted`: the semaphore and the headers still on their way together are no more than the
   parts that were filled. This gives the bound in `TypeOK`, also when transfers fail.

`FaultsExplained` follows from 2, 6 and 7, `TypeOK` from all but 5 and 6.

### 4.9 What the proofs brought out

* Two threads in `setResolution` at once break more than the run of one thread shows; the
  exception for overlapping calls in `CameraSound` came from the attempt to prove it without.
* `TypeOK` of `OutputFile` bounded the clock one second too low for a set-up of no seconds.
* `input_ptp2` loaded twice (section 5).

### 4.10 Only model-checked

Liveness under fairness (`WokenDelivers`, `ShutdownStuckOnlyOnAbandoned`, `ShutdownEnds`,
`PauseEnds`, `WaitsEnd`, `ConnectionsEnd`, `LeaverNoticed`, `ServicesSettle`) needs ENABLED,
which the proof system does not have. Of safety nothing is left to the runs alone: each invariant
and each action property that a passing run checks, and the refinement of `FrameBoard`, is
one of the theorems. `HttpServer` with two sockets is only run: there the properties fail.

## 5. What was found

Two runs end in a violation, each of something that a comment in the code says:

1. **A file with two pictures** (`OutputFileTorn`, `output_file.c:602`). `output_cmd`
   copies into the static buffer that the worker is writing from; "our local buffer" of
   lines 239 and 601 is shared.
2. **Two connections in one `cfd`** (`HttpServerTwo`, `httpd.c:1580`). With an IPv4 and an
   IPv6 socket ready in one round, the second accept overwrites what the first client
   thread has not copied.

Seen while modelling, and part of the models, without a run that is meant to fail:

Of the hand-off and the shutdown:

* No output and no client tests a predicate after `pthread_cond_wait`: a wait that returns
  unasked (POSIX allows it) sends, saves or shows the same picture again, or an empty one
  before the first. The models have it (`SpuriousWakeup`, in `FrameHandoff` the constant that
  allows it), and the properties say that nothing worse comes of it.
* A snapshot waits for the next picture without a limit (`httpd.c:411`): when the camera has
  ended, its connection stays open though its browser has left, and so does that of a stream.
  `ConnectionsEnd` shows that these are the only ones.
* The shutdown may hang (`mjpg_streamer.c:115`): `pthread_cond_destroy(&db_update)` is
  called while client threads may wait on it, and the camera thread that could wake them
  has been cancelled. A C library that waits for the waiters there never gets to
  `exit(0)`. `ShutdownStuckOnlyOnAbandoned` shows that this is the only way.
* `signal_handler` destroys boards by the index of the *output*: with more outputs than
  inputs it destroys what was never made, and an output that reads an input with a smaller
  number than its own uses a board that is gone. `InOrder` in `TidyShutdown` excepts that.
* Ctrl+C while plugins are being started cancels a thread that does not exist, and a
  library that is loaded twice cancels one thread twice and frees one buffer twice:
  `Sound` and `main.ready` in `Orderly`.
* `input_testpicture` never sets `plugin_number`: as a second input it publishes on the
  first board.
* `input_ptp2` keeps the number of its board in a static variable (`input_ptp2.c:32`), which
  its thread reads each time: loaded twice, the thread of the first publishes on the board of
  the second, which may have no buffer yet. `OnePtp` in `DeliversWhole` excepts it; the
  proof of `DeliveriesAreWhole` brought it out.
* All pictures of a package of `output_zmqserver` share one `max_frame_size`: a buffer
  that was not grown is taken for one that was (`Fits`).
* `input_file` and `input_ptp2` leave their loop with `db` locked when memory or the camera
  fails (`LeftLocked`).

Of the inputs:

* Every connection of `input_http` publishes the headers of the response as its first
  picture: the mask of `is_crlf` (`misc.c:24`) lets "OK", before the line end of the
  status line, pass for a line end. `DeliveredWhole` states it. With an exact test the
  content would begin after the headers, the first boundary would come at once, and the
  length given to `memcpy` would be negative, which is what `TypeOK` of `MjpgProxy` watches.
* A resolution with a negative number passes the test for its range (`input_uvc.c:902`), and
  what stands before the table is read and asked for: the fault `"index"`.
* A change of the resolution may end the capture (`v4l2uvc.c:973`): PAUSED is looked at
  once per frame; between `select` and `VIDIOC_DQBUF` the camera thread finds the stream
  switched off and leaves.
* A larger resolution is copied into the global buffer of the first one
  (`input_uvc.c:499`): the fault `"overrun"` of `UvcCapture`, which `CameraSound` leaves
  aside.
* `input_cmd` writes the value of every control beside the first one of the list
  (`input_uvc.c:894`, `i` is 0), and a value out of range is not set, is noted there all the
  same, and is answered with 0. `ListTrue` and `AnswerTrue` in `ControlsSound` say when the
  list and the answer can be trusted. Values of extended controls are never noted.
* `-pl`, announced as the power line filter, sets the vertical flip (`input_uvc.c:613`);
  `-cagc`, the chroma gain, sets the white balance (line 647); `-cb`, the color balance,
  sets the hue to the value of `-cagc` (line 658).
* `VIDIOC_S_JPEGCOMP` and `VIDIOC_G_JPEGCOMP` are compared with EINVAL, which `ioctl` does
  not return: a JPEG quality is always offered and always said to be set.
* A command for a plugin that is not loaded is answered with 200 and 0 (`httpd.c:990`).
* `input_raspicam` sends a null header after a transfer that failed; deletes the semaphore
  while callbacks post it; frees pool and contexts when the port could not be disabled;
  leaves `db` locked when the end cuts a picture; and waits for a capture without a limit
  (`FaultsExplained`, `HeadersAccounted`, `WaitsEnd` name the condition of each).

Of the outputs and the services:

* The browser that takes a snapshot into a file is sent the *next* frame
  (`httpd.c:1408`), though the comment at 1367 speaks of the saved one. Without
  `filename=` it gets an error and then a frame (`httpd.c:1394-1408`): `TakeWithoutName`.
* A worker of `output_file` cancelled while it waits leaves `db` locked: `stuck`.
* `write()` is tested for a negative result only (`output_file.c:279`, `:328`): a file or a
  movie that was cut short counts as saved. `SavedSound` allows it where `short` is set.
* The names of files are local time (`output_file.c:251-259`): when the clock or the end of
  summer time sets it back, newer files sort before older ones and are deleted in their
  place, as the comment at line 149 says. `TimeValid` in `KeepsNewest` says for which files
  the order can be relied on.
* After a restart within one second the newest file sorts before older ones, as its
  counter is 0 again; `KeepsNewest` therefore excepts files of different runs with the
  same second, and is false without that exception.
* `-s 0` deletes every picture, though the plugin announces "no ringbuffer"
  (`output_file.c:160` and 485); `RingBound` holds with a bound of 0.
* One client of the IMU service that is reset, or reads too slowly, ends the service for
  all; a partial `send()` shifts the packets of its stream for good. A failure of
  `accept()` or of the IMU ends it too, and the program then exits as if it were told to, since
  `__exit__` hides the exception.
* The motors stay as they were when a message is no number or a browser is lost without a
  word: `EndsExplained` lists these cases.
* A stream of the capture service goes on while its viewer stays, and polls for ever when no
  fresh picture comes by which to notice that he has left: in both cases the code does not end
  the service by itself, as the FIXME at `camera_stream.py:66` says. `ServicesSettle` says
  that nothing else holds it, and does not claim that the service ends before.
* When the camera of the circle service fails its worker ends unseen (`servico_circulos.py:70`),
  and its browsers wait for ever: `LeaverNoticed` leaves that case out, since nothing in the
  code guards it.

## 6. What is not modelled, and why

* Pixels, JPEG, URLs, base64, JSON and HTML: data without control. This is most of the
  repository's lines that no definition stands for: the built-in pictures of
  `input_testpicture` are 9 800 lines of numbers, and `RaspiCamControl.c`, `dynctrl.c`,
  `processJPEG_onlyCenter.c`, `jpeg_utils.c` and the printing of JSON in `httpd.c` are
  tables and conversions without shared state.
* Of the MMAL library: graphs, wrappers, clocks, events, parameters, and connections by
  pools. The plugin does not call them, or its connections run on the VideoCore. That is
  another 7 000 lines.
* MANAGMENT and WXP_COMPAT in `httpd.c`: off in the default build.
* `accept()` of `httpd.c` returning -1, and `write()` blocking for ever. What `output_udp`
  saves is what it hands to `write()`.
* In `OutputFile`, the link to the newest file (`-l`), the command run after each file (`-c`)
  and the delay, and `strftime()` failing for want of room; in
  `output_zmqserver`, `output_cmd` and the file it saves, which repeat `output_file`. In
  `UvcControls`, the list of formats and `dynctrl.c`. In `MjpgProxy`, name resolution.
* `input_control`: a copy of a part of `input_uvc` that does not compile
  (`calloc(sizeof)`).
* Signals that arrive a second time.
* aiohttp, OpenCV, V4L2 and pthreads are external: they are modelled from how the code uses
  them.
* The computation of positions and circles: a number that grows, or an exception.

## 7. Plan

The hand-off, the composition of `main` with its plugins, the raspicam, the controls and
all services stand, and their safety is proved. What is left, in this order:

1. The producers and consumers of `Streamer` as refinements of `FrameBoard`, one board each.
2. `output_cmd` of `output_zmqserver`, and the dispatch of commands to outputs.
3. The whole of `httpd.c`'s request parsing as operators, checked against the grammar of
   requests.
