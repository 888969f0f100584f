---------------------------- MODULE FrameHandoff ----------------------------
(***************************************************************************)
(* How mjpg-streamer hands camera frames to its HTTP clients.              *)
(*                                                                         *)
(* One camera thread (input_uvc.c, cam_thread) writes each JPEG into the   *)
(* global buffer of its input plugin and broadcasts db_update; every HTTP  *)
(* client thread (httpd.c, send_snapshot and send_stream) waits on that    *)
(* condition variable, copies size, timestamp and image while it holds the *)
(* mutex db, and writes its copy to the socket without the mutex.  The     *)
(* signal handler (mjpg_streamer.c, signal_handler) stops all of them.     *)
(*                                                                         *)
(* A picture is the number of its capture.  The three fields of the global *)
(* buffer and of a client's copy (image, size, stamp) each carry the       *)
(* number of the picture they belong to, so that a copy made of two        *)
(* pictures is visible.                                                    *)
(***************************************************************************)
EXTENDS Naturals

CONSTANTS
  Clients,          \* the HTTP client threads
  Cam, Nobody,      \* the owners of db that are not clients: the camera
                    \* thread, and no thread at all
  Freed,            \* what memcpy reads from a buffer that was freed
  MaxCaptures,      \* bound: pictures the camera delivers
  MaxPublished,     \* bound: pictures written to the buffer
  SpuriousWakeups,  \* may pthread_cond_wait return without a broadcast?
  DestroyWaits      \* does pthread_cond_destroy wait for the waiters?

ASSUME ClientsAssumption == Nobody \notin Clients /\ Cam \notin Clients /\ Cam # Nobody
ASSUME FreedAssumption == Freed \notin Nat
ASSUME BoundsAssumption == MaxCaptures \in Nat /\ MaxPublished \in Nat
ASSUME FlagsAssumption == SpuriousWakeups \in BOOLEAN /\ DestroyWaits \in BOOLEAN

VARIABLES
  sig,        \* how far signal_handler has come
  cam,        \* where the camera thread is
  tmp,        \* the picture in videoIn->tmpbuffer
  image,      \* pglobal->in[i].buf
  size,       \* pglobal->in[i].size
  stamp,      \* pglobal->in[i].timestamp
  published,  \* how many pictures the buffer has held (history)
  db,         \* the owner of the mutex pglobal->in[i].db
  pc,         \* where each client thread is
  kind,       \* what each client was asked for
  asked,      \* value of published when the client began to wait (history)
  copy        \* the client's copy: frame, frame_size, timestamp and the
              \* value of published when it was taken (history)

camVars == <<cam, tmp, image, size, stamp, published>>
clientVars == <<pc, kind, asked, copy>>
vars == <<sig, camVars, db, clientVars>>

-----------------------------------------------------------------------------
Kinds == {"snapshot", "stream"}
SigStates == {"running", "stopping", "cancelled", "exited"}
CamStates == {"head", "select", "grabbed", "image", "size", "stamp",
              "signal", "free", "clear", "dead"}
ClientStates == {"idle", "head", "enter", "wait", "relock", "size", "stamp",
                 "image", "send"}

\* The points at which a thread holds db.
CamHolds == cam \in {"image", "size", "stamp", "signal"}
ClientHolds(c) == pc[c] \in {"size", "stamp", "image"}

\* global.stop, and a process that has not called exit() yet.
stop == sig # "running"
Alive == sig # "exited"

NoCopy == [image |-> 0, size |-> 0, stamp |-> 0, pub |-> 0]

Init ==
  /\ sig = "running"
  /\ cam = "head" /\ tmp = 0
  /\ image = 0 /\ size = 0 /\ stamp = 0 /\ published = 0
  /\ db = Nobody
  /\ pc = [c \in Clients |-> "idle"]
  /\ kind = [c \in Clients |-> "snapshot"]
  /\ asked = [c \in Clients |-> 0]
  /\ copy = [c \in Clients |-> NoCopy]

-----------------------------------------------------------------------------
(* The camera thread.                                                      *)

CamGoes(from, to) == Alive /\ cam = from /\ cam' = to

\* Mutant: the loop forgets to look at global.stop.
CamHead_IgnoresStop ==
  /\ CamGoes("head", "select")
  /\ UNCHANGED <<sig, tmp, image, size, stamp, published, db, clientVars>>

\* while(!pglobal->stop)
CamHead ==
  /\ Alive /\ cam = "head"
  /\ cam' = IF stop THEN "free" ELSE "select"
  /\ UNCHANGED <<sig, tmp, image, size, stamp, published, db, clientVars>>

\* select() says the device is readable and uvcGrab succeeds: the picture in
\* tmpbuffer is a new one, or still the old one when the driver returned an
\* empty buffer.
Grab ==
  /\ CamGoes("select", "grabbed")
  /\ published < MaxPublished
  /\ \/ tmp < MaxCaptures /\ tmp' = tmp + 1
     \/ tmp' = tmp
  /\ UNCHANGED <<sig, image, size, stamp, published, db, clientVars>>

\* select() or uvcGrab fails, select() times out, or the thread is cancelled.
CamFails ==
  /\ CamGoes("select", "free")
  /\ UNCHANGED <<sig, tmp, image, size, stamp, published, db, clientVars>>

\* select() is interrupted, or the picture is dropped (every, minimum_size,
\* soft_framedrop).
CamSkips ==
  /\ \/ CamGoes("select", "head")
     \/ CamGoes("grabbed", "head")
  /\ UNCHANGED <<sig, tmp, image, size, stamp, published, db, clientVars>>

\* Mutant: the picture is written without taking db.
CamLock_NoLock ==
  /\ CamGoes("grabbed", "image")
  /\ UNCHANGED <<sig, tmp, image, size, stamp, published, db, clientVars>>

CamLock ==
  /\ CamGoes("grabbed", "image")
  /\ db = Nobody /\ db' = Cam
  /\ UNCHANGED <<sig, tmp, image, size, stamp, published, clientVars>>

WriteImage ==
  /\ CamGoes("image", "size")
  /\ image' = tmp
  /\ UNCHANGED <<sig, tmp, size, stamp, published, db, clientVars>>

WriteSize ==
  /\ CamGoes("size", "stamp")
  /\ size' = tmp
  /\ UNCHANGED <<sig, tmp, image, stamp, published, db, clientVars>>

WriteStamp ==
  /\ CamGoes("stamp", "signal")
  /\ stamp' = tmp
  /\ published' = published + 1
  /\ UNCHANGED <<sig, tmp, image, size, db, clientVars>>

\* pthread_cond_broadcast and pthread_mutex_unlock: every waiter is woken and
\* must take db again before its pthread_cond_wait returns.
Broadcast ==
  /\ CamGoes("signal", "head")
  /\ db' = Nobody
  /\ pc' = [c \in Clients |-> IF pc[c] = "wait" THEN "relock" ELSE pc[c]]
  /\ UNCHANGED <<sig, tmp, image, size, stamp, published, kind, asked, copy>>

\* cam_cleanup: free(in->buf), then in->size = 0.  It does not take db.
FreeBuffer ==
  /\ CamGoes("free", "clear")
  /\ image' = Freed
  /\ UNCHANGED <<sig, tmp, size, stamp, published, db, clientVars>>

\* Mutant: the size is left as garbage instead of being cleared.
ClearSize_Garbage ==
  /\ CamGoes("clear", "dead")
  /\ size' = Freed
  /\ UNCHANGED <<sig, tmp, image, stamp, published, db, clientVars>>

ClearSize ==
  /\ CamGoes("clear", "dead")
  /\ size' = 0
  /\ UNCHANGED <<sig, tmp, image, stamp, published, db, clientVars>>

CamStep ==
  \/ CamHead \/ Grab \/ CamFails \/ CamSkips \/ CamLock \/ WriteImage
  \/ WriteSize \/ WriteStamp \/ Broadcast \/ FreeBuffer \/ ClearSize

-----------------------------------------------------------------------------
(* The client threads.                                                     *)

ClientGoes(c, from, to) ==
  Alive /\ pc[c] = from /\ pc' = [pc EXCEPT ![c] = to]

\* server_thread accepts a connection and client_thread reads a request.  A
\* stream begins with its response header; write() may fail.
Connect(c, k) ==
  /\ sig \in {"running", "stopping"}
  /\ \/ k = "snapshot" /\ ClientGoes(c, "idle", "enter")
     \/ k = "stream" /\ ClientGoes(c, "idle", "head")
  /\ kind' = [kind EXCEPT ![c] = k]
  /\ UNCHANGED <<sig, camVars, db, asked, copy>>

\* send_stream: while(!pglobal->stop)
StreamHead(c) ==
  /\ \/ stop /\ ClientGoes(c, "head", "idle")
     \/ ~stop /\ ClientGoes(c, "head", "enter")
  /\ UNCHANGED <<sig, camVars, db, kind, asked, copy>>

\* Mutant: the client takes whatever picture is there instead of waiting.
EnterWait_TakesOld(c) ==
  /\ ClientGoes(c, "enter", IF published > 0 THEN "relock" ELSE "wait")
  /\ db = Nobody
  /\ asked' = [asked EXCEPT ![c] = published]
  /\ UNCHANGED <<sig, camVars, db, kind, copy>>

\* pthread_mutex_lock and the first half of pthread_cond_wait, which queues
\* the thread and releases db.
EnterWait(c) ==
  /\ ClientGoes(c, "enter", "wait")
  /\ db = Nobody
  /\ asked' = [asked EXCEPT ![c] = published]
  /\ UNCHANGED <<sig, camVars, db, kind, copy>>

SpuriousWakeup(c) ==
  /\ SpuriousWakeups
  /\ ClientGoes(c, "wait", "relock")
  /\ UNCHANGED <<sig, camVars, db, kind, asked, copy>>

\* The second half of pthread_cond_wait.
Relock(c) ==
  /\ ClientGoes(c, "relock", "size")
  /\ db = Nobody /\ db' = c
  /\ UNCHANGED <<sig, camVars, kind, asked, copy>>

\* frame_size = pglobal->in[i].size
ReadSize(c) ==
  /\ ClientGoes(c, "size", "stamp")
  /\ copy' = [copy EXCEPT ![c].size = size]
  /\ UNCHANGED <<sig, camVars, db, kind, asked>>

\* Mutant: the error path returns without unlocking db.
AllocFails_KeepsLock(c) ==
  /\ ClientGoes(c, "stamp", "idle")
  /\ UNCHANGED <<sig, camVars, db, kind, asked, copy>>

\* malloc or realloc fails: unlock, answer 500 and end.
AllocFails(c) ==
  /\ ClientGoes(c, "stamp", "idle")
  /\ db' = Nobody
  /\ UNCHANGED <<sig, camVars, kind, asked, copy>>

\* Mutant: db is unlocked before the image is copied.
ReadStamp_Unlocks(c) ==
  /\ ClientGoes(c, "stamp", "image")
  /\ copy' = [copy EXCEPT ![c].stamp = stamp]
  /\ db' = Nobody
  /\ UNCHANGED <<sig, camVars, kind, asked>>

ReadStamp(c) ==
  /\ ClientGoes(c, "stamp", "image")
  /\ copy' = [copy EXCEPT ![c].stamp = stamp]
  /\ UNCHANGED <<sig, camVars, db, kind, asked>>

\* memcpy(frame, pglobal->in[i].buf, frame_size) and pthread_mutex_unlock.
\* Nothing is read when frame_size is 0.
CopyImage(c) ==
  /\ ClientGoes(c, "image", "send")
  /\ copy' = [copy EXCEPT ![c] =
                 [image |-> IF copy[c].size = 0 THEN 0 ELSE image,
                  size |-> copy[c].size, stamp |-> copy[c].stamp,
                  pub |-> published]]
  /\ db' = Nobody
  /\ UNCHANGED <<sig, camVars, kind, asked>>

\* The frame is written to the socket, or write() fails and the request ends.
Send(c) ==
  /\ \/ ClientGoes(c, "send", "idle")
     \/ kind[c] = "stream" /\ ClientGoes(c, "send", "head")
  /\ UNCHANGED <<sig, camVars, db, kind, asked, copy>>

ClientStep(c) ==
  \/ \E k \in Kinds : Connect(c, k)
  \/ StreamHead(c) \/ EnterWait(c) \/ SpuriousWakeup(c) \/ Relock(c)
  \/ ReadSize(c) \/ AllocFails(c) \/ ReadStamp(c) \/ CopyImage(c) \/ Send(c)

-----------------------------------------------------------------------------
(* signal_handler.                                                         *)

\* global.stop = 1
SigStop ==
  /\ sig = "running" /\ sig' = "stopping"
  /\ UNCHANGED <<camVars, db, clientVars>>

\* in[i].stop cancels the camera thread, out[i].stop the server thread.
SigCancel ==
  /\ sig = "stopping" /\ sig' = "cancelled"
  /\ UNCHANGED <<camVars, db, clientVars>>

\* pthread_cond_destroy, pthread_mutex_destroy, dlclose and exit(0).  The C
\* library may make pthread_cond_destroy wait until nobody waits on db_update.
SigExit ==
  /\ sig = "cancelled" /\ sig' = "exited"
  /\ DestroyWaits => \A c \in Clients : pc[c] # "wait"
  /\ UNCHANGED <<camVars, db, clientVars>>

SigStep == SigStop \/ SigCancel \/ SigExit

Next ==
  \/ CamStep
  \/ \E c \in Clients : ClientStep(c)
  \/ SigStep

Spec == Init /\ [][Next]_vars

(***************************************************************************)
(* Fairness.  The handler and the camera thread are runnable threads that  *)
(* the kernel schedules; a client that was woken keeps asking for db, whose*)
(* owners all release it after a bounded copy, so it is not refused for    *)
(* ever.  Nothing is assumed of SIGINT, of new connections, of spurious    *)
(* wakeups or of a peer that reads its socket.                             *)
(***************************************************************************)
Fairness ==
  /\ WF_vars(CamStep)
  /\ WF_vars(SigCancel \/ SigExit)
  /\ \A c \in Clients :
       /\ SF_vars(Relock(c))
       /\ WF_vars(ReadSize(c) \/ AllocFails(c) \/ ReadStamp(c) \/ CopyImage(c))

FairSpec == Spec /\ Fairness

-----------------------------------------------------------------------------
(* Properties.                                                             *)

Copies == [image : Nat \cup {Freed}, size : Nat, stamp : Nat, pub : Nat]

\* Every variable stays in its range.
TypeOK ==
  /\ sig \in SigStates /\ cam \in CamStates
  /\ tmp \in 0 .. MaxCaptures /\ size \in Nat /\ stamp \in Nat /\ published \in Nat
  /\ image \in Nat \cup {Freed}
  /\ db \in Clients \cup {Cam, Nobody}
  /\ pc \in [Clients -> ClientStates]
  /\ kind \in [Clients -> Kinds]
  /\ asked \in [Clients -> Nat]
  /\ copy \in [Clients -> Copies]

\* The thread that owns db is the one between its lock and its unlock, on
\* every path through the critical sections, failed allocations included.
LockDiscipline ==
  /\ CamHolds <=> db = Cam
  /\ \A c \in Clients : ClientHolds(c) <=> db = c

\* What a client is about to send was cut out of one picture: size, timestamp
\* and bytes belong together.  The only exception is a camera thread that is
\* cleaning up, which frees the buffer and clears its size without db: then
\* the client sends nothing, or whatever the freed memory holds.
Whole(c) == copy[c].image = copy[c].size /\ copy[c].stamp = copy[c].size
CleaningUp == cam \in {"clear", "dead"}

WholeFrame ==
  \A c \in Clients : pc[c] = "send" =>
    \/ Whole(c)
    \/ CleaningUp /\ (copy[c].image = Freed \/ copy[c].size = 0)

\* "wait for a fresh frame": a client sends a frame that was published after
\* it began to wait.
FreshFrame ==
  \A c \in Clients : pc[c] = "send" => copy[c].pub > asked[c]

\* No publication is sent twice to one client, and none is sent out of order.
SendsForward ==
  [][\A c \in Clients :
       pc[c] = "image" /\ pc'[c] = "send" => copy'[c].pub > copy[c].pub]_vars

\* A client whose pthread_cond_wait was ended gets db and takes its copy (or
\* gives up for want of memory), whatever the other threads do.
WokenDelivers ==
  \A c \in Clients :
    pc[c] = "relock" ~> (pc[c] \in {"send", "idle"} \/ ~Alive)

\* "pressing CTRL+C sends signals to this process instead of just killing it"
\* (mjpg_streamer.c:86): a shutdown that has not ended can only be waiting for
\* clients that no camera thread is left to wake.
ShutdownStuckOnlyOnAbandoned ==
  stop ~> (~Alive \/ (cam = "dead" /\ \E c \in Clients : pc[c] = "wait"))

(***************************************************************************)
(* The frame board is what the handoff promises: a register that holds the *)
(* latest publication, read by each client in increasing order.            *)
(***************************************************************************)
Board ==
  INSTANCE FrameBoard WITH
    Pictures <- 0 .. MaxCaptures,
    latest <- [pub |-> published, picture |-> stamp],
    open   <- ~CleaningUp,
    seen   <- [c \in Clients |-> [pub |-> copy[c].pub, picture |-> copy[c].image]]

BoardSpec == Board!Spec

=============================================================================
