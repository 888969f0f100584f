--------------------------- MODULE UvcCameraProofs ---------------------------
(***************************************************************************)
(* Proofs about the UVC camera, for every camera, command line and set of  *)
(* browsers: what commands for the resolution cannot do to the device      *)
(* (DeviceSound), and what commands for the controls cannot do to them and *)
(* to what browsers are told (ControlsSound).                              *)
(***************************************************************************)
EXTENDS UvcCamera, FiniteSetTheorems, TLAPS

-----------------------------------------------------------------------------
(* A change of the resolution: the inductive invariant.                    *)

Stops == {"idle", "pause", "off", "close", "open", "init", "alloc", "enable", "report"}
Places == {"loop", "select", "grab", "copy", "requeue", "publish", "events",
           "set", "fail", "dead", "crash"}
Files == 0 .. MaxChanges + 1
Tmps == [live : BOOLEAN, pic : 0 .. MaxPics, res : Sizes]
Vds == [state : {"ON", "OFF", "PAUSED"}, fd : Files, res : Sizes, mem : Files, tmp : Tmps]
Buffers == [ready : BOOLEAN, streams : BOOLEAN]
Cams == [pc : Places, from : Files]
Requests == [pc : Stops, res : Sizes]

\* Who may still open the device: each thread does it once in a call.
Pending == {p \in Callers : call[p].pc \in {"pause", "off", "close", "open"}}
Counted == IsFiniteSet(Pending) /\ opens + Cardinality(Pending) <= changes + 1

FilesType ==
  /\ files = [f \in DOMAIN files |-> files[f]]
  /\ DOMAIN files \subseteq 1 .. MaxChanges + 1
  /\ \A f \in DOMAIN files : files[f] \in Buffers

CallType == call \in [Callers -> Requests]

CountType == opens \in Nat \ {0} /\ pics \in 0 .. MaxPics /\ changes \in 0 .. MaxChanges

TypeInv ==
  /\ dv \in BOOLEAN /\ vd \in Vds /\ FilesType /\ CountType
  /\ cam \in Cams /\ CallType /\ Counted
  /\ global \in [room : Sizes, pic : 0 .. MaxPics]
  /\ reported \in Sizes /\ failed \in BOOLEAN /\ overlap \subseteq {"camera", "calls"}
  /\ fault \in {"none", "unmapped", "freed", "overrun", "index"}

Running == {"select", "grab", "copy", "requeue", "publish", "events"}

\* The device streams from its buffers, and there is room for a picture.
Ready ==
  /\ IsOpen(vd.fd) /\ files[vd.fd].ready /\ files[vd.fd].streams
  /\ vd.mem = vd.fd /\ vd.tmp.live

\* How far the device is set up at each step of the one thread that works on it.
Stage(pc) ==
  /\ vd.state = "PAUSED"
  /\ pc = "open" => DOMAIN files = {}
  /\ pc \in {"alloc", "enable"} => IsOpen(vd.fd) /\ files[vd.fd].ready /\ vd.mem = vd.fd
  /\ pc = "enable" => vd.tmp.live

Alone ==
  "calls" \notin overlap =>
    /\ \A p, q \in Callers : Works(p) /\ Works(q) => p = q
    /\ DOMAIN files \subseteq {vd.fd}
    /\ cam.pc # "dead" =>
         /\ \A p \in Callers : Works(p) => Stage(call[p].pc)
         /\ vd.state = "ON" /\ (\A p \in Callers : ~Works(p)) => Ready

\* Where a command works on the device the camera thread is held, and while it is
\* not held it finds its buffers.
Held ==
  overlap = {} =>
    /\ fault \in {"none", "overrun", "index"}
    /\ \A c \in Commanders : Works(c) => cam.pc = "loop"
    /\ cam.pc \in Running => vd.tmp.live /\ vd.mem # 0

\* The camera thread is in setResolution exactly where its loop called it, and
\* leaves the device OFF only when it ends.
InSet ==
  fault = "none" =>
    /\ call[Cam].pc # "idle" <=> cam.pc = "set"
    /\ call[Cam].pc # "report"
    /\ vd.state = "OFF" => cam.pc = "dead"

SoundInv == TypeInv /\ Alone /\ Held /\ InSet

-----------------------------------------------------------------------------
\* What the assignments of one field do.
LEMMA VdState ==
  ASSUME vd \in Vds, NEW s \in {"ON", "OFF", "PAUSED"}, vd' = [vd EXCEPT !.state = s]
  PROVE  /\ vd' \in Vds /\ vd'.state = s /\ vd'.fd = vd.fd /\ vd'.res = vd.res
         /\ vd'.mem = vd.mem /\ vd'.tmp = vd.tmp
<1>1. vd = [state |-> vd.state, fd |-> vd.fd, res |-> vd.res, mem |-> vd.mem, tmp |-> vd.tmp]
  BY DEF Vds
<1>2. vd' = [state |-> s, fd |-> vd.fd, res |-> vd.res, mem |-> vd.mem, tmp |-> vd.tmp]
  BY <1>1
<1>3. QED BY <1>2 DEF Vds

\* The same of tmpbuffer.
LEMMA VdTmp ==
  ASSUME vd \in Vds, NEW t \in Tmps, vd' = [vd EXCEPT !.tmp = t]
  PROVE  /\ vd' \in Vds /\ vd'.state = vd.state /\ vd'.fd = vd.fd /\ vd'.res = vd.res
         /\ vd'.mem = vd.mem /\ vd'.tmp = t
<1>1. vd = [state |-> vd.state, fd |-> vd.fd, res |-> vd.res, mem |-> vd.mem, tmp |-> vd.tmp]
  BY DEF Vds
<1>2. vd' = [state |-> vd.state, fd |-> vd.fd, res |-> vd.res, mem |-> vd.mem, tmp |-> t]
  BY <1>1
<1>3. QED BY <1>2 DEF Vds

\* The same of the picture in it.
LEMMA VdPic ==
  ASSUME vd \in Vds, NEW n \in 0 .. MaxPics, vd' = [vd EXCEPT !.tmp.pic = n]
  PROVE  /\ vd' \in Vds /\ vd'.state = vd.state /\ vd'.fd = vd.fd /\ vd'.res = vd.res
         /\ vd'.mem = vd.mem /\ vd'.tmp.live = vd.tmp.live
<1>1. vd = [state |-> vd.state, fd |-> vd.fd, res |-> vd.res, mem |-> vd.mem, tmp |-> vd.tmp]
  BY DEF Vds
<1>2. vd.tmp = [live |-> vd.tmp.live, pic |-> vd.tmp.pic, res |-> vd.tmp.res]
  BY DEF Vds, Tmps
<1>3. vd' = [state |-> vd.state, fd |-> vd.fd, res |-> vd.res, mem |-> vd.mem,
             tmp |-> [live |-> vd.tmp.live, pic |-> n, res |-> vd.tmp.res]]
  BY <1>1, <1>2
<1>4. QED BY <1>3 DEF Vds, Tmps

\* A thread goes on in setResolution.
LEMMA CallMoves ==
  ASSUME CallType, NEW p \in Callers, NEW pc \in Stops, call' = [call EXCEPT ![p].pc = pc],
         call[p].pc # "idle" \/ pc = "idle"
  PROVE  /\ CallType' /\ call'[p].pc = pc /\ call'[p].res = call[p].res
         /\ \A q \in Callers \ {p} : call'[q] = call[q]
<1>1. call[p] = [pc |-> call[p].pc, res |-> call[p].res] BY DEF CallType, Requests
<1>2. [call[p] EXCEPT !.pc = pc] = [pc |-> pc, res |-> call[p].res] BY <1>1
<1>3. call' = [call EXCEPT ![p] = [pc |-> pc, res |-> call[p].res]] BY <1>2
<1>4. /\ call' \in [Callers -> Requests] /\ call'[p].pc = pc /\ call'[p].res = call[p].res
      /\ \A q \in Callers \ {p} : call'[q] = call[q]
  BY <1>3 DEF CallType, Requests
<1>5. QED BY <1>4 DEF CallType, Callers

\* A thread is given another call.
LEMMA CallSet ==
  ASSUME CallType, NEW p \in Callers, NEW pc \in Stops, NEW r \in Sizes,
         call' = [call EXCEPT ![p] = [pc |-> pc, res |-> r]]
  PROVE  /\ CallType' /\ call'[p].pc = pc /\ call'[p].res = r
         /\ \A q \in Callers \ {p} : call'[q] = call[q]
<1>1. /\ call' \in [Callers -> Requests] /\ call'[p].pc = pc /\ call'[p].res = r
      /\ \A q \in Callers \ {p} : call'[q] = call[q]
  BY DEF CallType, Requests
<1>2. QED BY <1>1 DEF CallType, Callers

\* The camera thread goes on.
LEMMA CamMoves ==
  ASSUME cam \in Cams, NEW pc \in Places, CamGoes(pc)
  PROVE  cam' \in Cams /\ cam'.pc = pc /\ cam'.from = cam.from
<1>1. cam = [pc |-> cam.pc, from |-> cam.from] BY DEF Cams
<1>2. cam' = [pc |-> pc, from |-> cam.from] BY <1>1 DEF CamGoes
<1>3. QED BY <1>2 DEF Cams

\* One descriptor has other buffers.
LEMMA NewBuffers ==
  ASSUME FilesType, NEW g \in DOMAIN files, NEW b \in Buffers, files' = [files EXCEPT ![g] = b]
  PROVE  /\ FilesType' /\ DOMAIN files' = DOMAIN files /\ files'[g] = b
         /\ \A f \in DOMAIN files \ {g} : files'[f] = files[f]
BY DEF FilesType

\* VIDIOC_STREAMON and VIDIOC_STREAMOFF.
LEMMA FileStreams ==
  ASSUME FilesType, NEW g \in DOMAIN files, NEW b \in BOOLEAN,
         files' = [files EXCEPT ![g].streams = b]
  PROVE  /\ FilesType' /\ DOMAIN files' = DOMAIN files /\ files'[g].streams = b
         /\ \A f \in DOMAIN files : files'[f].ready = files[f].ready
<1>1. files[g] = [ready |-> files[g].ready, streams |-> files[g].streams]
  BY DEF FilesType, Buffers
<1>2. PICK e : e = [ready |-> files[g].ready, streams |-> b] OBVIOUS
<1>3. e \in Buffers /\ e.streams = b /\ e.ready = files[g].ready BY <1>2 DEF FilesType, Buffers
<1>4. [files[g] EXCEPT !.streams = b] = [ready |-> files[g].ready, streams |-> b] BY <1>1
<1>5. files' = [files EXCEPT ![g] = e] BY <1>2, <1>4
<1>6. QED BY <1>3, <1>5, NewBuffers

\* VIDIOC_REQBUFS and mmap.
LEMMA FileReady ==
  ASSUME FilesType, NEW g \in DOMAIN files, NEW b \in BOOLEAN,
         files' = [files EXCEPT ![g].ready = b]
  PROVE  FilesType' /\ DOMAIN files' = DOMAIN files /\ files'[g].ready = b
<1>1. files[g] = [ready |-> files[g].ready, streams |-> files[g].streams]
  BY DEF FilesType, Buffers
<1>2. PICK e : e = [ready |-> b, streams |-> files[g].streams] OBVIOUS
<1>3. e \in Buffers /\ e.ready = b BY <1>2 DEF FilesType, Buffers
<1>4. [files[g] EXCEPT !.ready = b] = [ready |-> b, streams |-> files[g].streams] BY <1>1
<1>5. files' = [files EXCEPT ![g] = e] BY <1>2, <1>4
<1>6. QED BY <1>3, <1>5, NewBuffers


\* A call that is given up opens nothing any more, and each call opens once.
LEMMA CountStep ==
  ASSUME Counted, opens \in Nat, changes \in Nat, NEW p \in Callers,
         \A q \in Callers \ {p} : call'[q] = call[q],
         \/ UNCHANGED <<opens, changes>> /\ (p \in Pending' => p \in Pending)
         \/ opens' = opens /\ changes' = changes + 1
         \/ opens' = opens + 1 /\ changes' = changes /\ p \in Pending /\ p \notin Pending'
  PROVE  Counted'
<1>1. Pending' \subseteq Pending \cup {p} BY DEF Pending, Callers
<1>2. IsFiniteSet(Pending) /\ Cardinality(Pending) \in Nat BY FS_CardinalityType DEF Counted
<1>3. CASE UNCHANGED <<opens, changes>> /\ (p \in Pending' => p \in Pending)
  <2>1. Pending' \subseteq Pending BY <1>1, <1>3
  <2>2. IsFiniteSet(Pending') /\ Cardinality(Pending') <= Cardinality(Pending)
    BY <1>2, <2>1, FS_Subset
  <2>3. Cardinality(Pending') \in Nat BY <2>2, FS_CardinalityType
  <2>4. QED BY <1>2, <1>3, <2>2, <2>3 DEF Counted
<1>4. CASE opens' = opens /\ changes' = changes + 1
  <2>1. /\ IsFiniteSet(Pending \cup {p})
        /\ Cardinality(Pending \cup {p}) <= Cardinality(Pending) + 1
    <3>1. /\ IsFiniteSet(Pending \cup {p})
          /\ \/ Cardinality(Pending \cup {p}) = Cardinality(Pending)
             \/ Cardinality(Pending \cup {p}) = Cardinality(Pending) + 1
      BY <1>2, FS_AddElement
    <3>2. QED BY <1>2, <3>1
  <2>2. /\ IsFiniteSet(Pending') /\ Cardinality(Pending \cup {p}) \in Nat
        /\ Cardinality(Pending') <= Cardinality(Pending \cup {p})
    BY <1>1, <2>1, FS_Subset, FS_CardinalityType
  <2>3. Cardinality(Pending') \in Nat BY <2>2, FS_CardinalityType
  <2>4. QED BY <1>2, <1>4, <2>1, <2>2, <2>3 DEF Counted
<1>5. CASE opens' = opens + 1 /\ changes' = changes /\ p \in Pending /\ p \notin Pending'
  <2>1. Pending' \subseteq Pending \ {p} BY <1>1, <1>5
  <2>2. /\ IsFiniteSet(Pending \ {p})
        /\ Cardinality(Pending \ {p}) = Cardinality(Pending) - 1
    BY <1>2, <1>5, FS_RemoveElement
  <2>3. /\ IsFiniteSet(Pending') /\ Cardinality(Pending \ {p}) \in Nat
        /\ Cardinality(Pending') <= Cardinality(Pending \ {p})
    BY <2>1, <2>2, FS_Subset, FS_CardinalityType
  <2>4. Cardinality(Pending') \in Nat BY <2>3, FS_CardinalityType
  <2>5. QED BY <1>2, <1>5, <2>2, <2>3, <2>4 DEF Counted
<1>6. QED BY <1>3, <1>4, <1>5

\* The descriptors that are given out are as few as the bound on the calls says.
LEMMA OpensBound ==
  ASSUME Counted, opens \in Nat, changes \in 0 .. MaxChanges
  PROVE  /\ opens <= MaxChanges + 1
         /\ Pending # {} => opens + 1 <= MaxChanges + 1
<1>1. MaxChanges \in Nat BY BoundsAssumption
<1>2. IsFiniteSet(Pending) /\ Cardinality(Pending) \in Nat BY FS_CardinalityType DEF Counted
<1>3. opens <= MaxChanges + 1 BY <1>1, <1>2 DEF Counted
<1>4. Pending # {} => Cardinality(Pending) # 0 BY <1>2, FS_EmptySet
<1>5. QED BY <1>1, <1>2, <1>3, <1>4 DEF Counted

\* cam_cleanup.
LEMMA CleanupDoes ==
  ASSUME TypeInv, Cleanup
  PROVE  /\ vd' \in Vds /\ vd'.fd = vd.fd /\ FilesType' /\ DOMAIN files' = DOMAIN files
         /\ cam' \in Cams /\ cam'.pc = "dead" /\ global' \in [room : Sizes, pic : 0 .. MaxPics]
         /\ vd.state # "ON" => vd'.state = vd.state
<1>1. cam' \in Cams /\ cam'.pc = "dead" BY CamMoves DEF Cleanup, TypeInv, Places
<1>2. MaxPics \in Nat BY BoundsAssumption
<1>3. NoTmp \in Tmps BY <1>2 DEF NoTmp, Tmps, Sizes
<1>4. PICK t \in Tmps : t = NoTmp BY <1>3
<1>5. PICK o : o = IF vd.state = "ON" THEN "OFF" ELSE vd.state OBVIOUS
<1>6. vd = [state |-> vd.state, fd |-> vd.fd, res |-> vd.res, mem |-> vd.mem, tmp |-> vd.tmp]
  BY DEF TypeInv, Vds
<1>7. vd' = [state |-> o, fd |-> vd.fd, res |-> vd.res, mem |-> vd.mem, tmp |-> t]
  <2>1. vd' = [vd EXCEPT !.state = IF vd.state = "ON" THEN "OFF" ELSE vd.state, !.tmp = NoTmp]
    BY DEF Cleanup
  <2>2. vd' = [vd EXCEPT !.state = o, !.tmp = t] BY <2>1, <1>4, <1>5
  <2>3. QED BY <1>6, <2>2
<1>8. o \in {"ON", "OFF", "PAUSED"} /\ (vd.state # "ON" => o = vd.state)
  BY <1>5 DEF TypeInv, Vds
<1>9. vd' \in Vds /\ vd'.fd = vd.fd /\ vd'.state = o BY <1>7, <1>8 DEF TypeInv, Vds
<1>10. FilesType' /\ DOMAIN files' = DOMAIN files
  <2>1. CASE vd.state = "ON" /\ IsOpen(vd.fd)
    <3>1. PICK b \in BOOLEAN : b = FALSE OBVIOUS
    <3>2. files' = [files EXCEPT ![vd.fd].streams = b] BY <2>1, <3>1 DEF Cleanup
    <3>3. QED BY <2>1, <3>2, FileStreams DEF IsOpen, TypeInv
  <2>2. CASE ~(vd.state = "ON" /\ IsOpen(vd.fd))
    BY <2>2 DEF Cleanup, TypeInv, FilesType, Buffers
  <2>3. QED BY <2>1, <2>2
<1>11. global' \in [room : Sizes, pic : 0 .. MaxPics] BY <1>2 DEF Cleanup, Sizes
<1>12. QED BY <1>1, <1>8, <1>9, <1>10, <1>11

\* The camera thread goes on and the device stays.
SameDevice == UNCHANGED <<dv, vd, files, opens, global, reported, failed>>

\* Types stay where the device does.
LEMMA SameType ==
  ASSUME TypeInv, SameDevice, UNCHANGED <<changes, call>>, cam' \in Cams, pics' \in 0 .. MaxPics,
         overlap' \subseteq {"camera", "calls"},
         fault' \in {"none", "unmapped", "freed", "overrun", "index"}
  PROVE  TypeInv'
BY DEF TypeInv, SameDevice, FilesType, CountType, CallType, Counted, Pending, Vds, Tmps, Files,
       Sizes, Requests, Cams

\* A call of setResolution by the camera thread itself.
LEMMA OwnCall ==
  ASSUME TypeInv, SameDevice, Calls(Cam, vd.res), CamGoes("set"), UNCHANGED <<pics, overlap, fault>>
  PROVE  /\ TypeInv' /\ cam'.pc = "set" /\ call'[Cam].pc = "pause"
         /\ \A q \in Callers \ {Cam} : call'[q] = call[q]
<1>1. Cam \in Callers BY DEF Callers
<1>2. vd.res \in Sizes BY DEF TypeInv, Vds
<1>3. PICK pc \in Stops : pc = "pause" BY DEF Stops
<1>4. PICK r \in Sizes : r = vd.res BY <1>2
<1>5. call' = [call EXCEPT ![Cam] = [pc |-> pc, res |-> r]] BY <1>3, <1>4 DEF Calls
<1>6. /\ CallType' /\ call'[Cam].pc = "pause"
      /\ \A q \in Callers \ {Cam} : call'[q] = call[q]
  BY <1>1, <1>2, <1>3, <1>4, <1>5, CallSet DEF TypeInv
<1>7. cam' \in Cams /\ cam'.pc = "set" BY CamMoves DEF TypeInv, Places
<1>8. opens \in Nat /\ changes \in Nat /\ opens' = opens /\ changes' = changes + 1
  BY DEF TypeInv, CountType, SameDevice, Calls
<1>9. Counted' BY <1>1, <1>6, <1>8, CountStep DEF TypeInv
<1>10. CountType'
  <2>1. MaxChanges \in Nat BY BoundsAssumption
  <2>2. changes' \in 0 .. MaxChanges BY <1>8, <2>1 DEF Calls, TypeInv, CountType
  <2>3. QED BY <2>2 DEF CountType, TypeInv, SameDevice
<1>11. FilesType' BY DEF TypeInv, SameDevice, FilesType
<1>12. QED BY <1>6, <1>7, <1>9, <1>10, <1>11 DEF TypeInv, SameDevice

\* Types, when the camera thread ends.
LEMMA CamDiesType ==
  ASSUME TypeInv, CamDies, UNCHANGED <<dv, reported, failed>>
  PROVE  TypeInv'
<1>1. /\ vd' \in Vds /\ FilesType' /\ cam' \in Cams /\ global' \in [room : Sizes, pic : 0 .. MaxPics]
  BY CleanupDoes DEF CamDies
<1>2. UNCHANGED <<changes, opens, pics, call, overlap, fault>> BY DEF CamDies
<1>3. CountType' /\ CallType' /\ Counted'
  BY <1>2 DEF TypeInv, CountType, CallType, Counted, Pending
<1>4. QED BY <1>1, <1>2, <1>3 DEF TypeInv

\* Types, when the camera thread touches memory that is gone.
LEMMA CamCrashesType ==
  ASSUME TypeInv, NEW f \in {"unmapped", "freed", "overrun"}, CamCrashes(f),
         UNCHANGED <<dv, reported, failed>>
  PROVE  TypeInv' /\ fault' = f
<1>1. cam' \in Cams BY CamMoves DEF TypeInv, Places, CamCrashes
<1>2. SameDevice /\ UNCHANGED <<changes, call>> /\ pics' \in 0 .. MaxPics
      /\ overlap' \subseteq {"camera", "calls"} /\ fault' = f
  BY DEF CamCrashes, SameDevice, TypeInv, CountType
<1>3. QED BY <1>1, <1>2, SameType

\* Types, at every step of the camera thread.
LEMMA CamStepType == ASSUME TypeInv, CamStep PROVE TypeInv'
<1> USE DEF CamStep
<1>1. CASE CamLoop
  <2>1. cam' \in Cams BY <1>1, CamMoves DEF CamLoop, TypeInv, Places
  <2>2. overlap' \subseteq {"camera", "calls"} BY <1>1 DEF CamLoop, TypeInv, Mark
  <2>3. QED BY <1>1, <2>1, <2>2, SameType DEF CamLoop, SameDevice, TypeInv, CountType
<1>2. CASE CamSelect
  <2>1. CASE CamDies BY <2>1, CamDiesType
  <2>2. ASSUME NEW pc \in {"grab", "loop", "events"}, CamGoes(pc),
               UNCHANGED <<vd, files, changes, opens, pics, call, global, overlap, fault>>
        PROVE  TypeInv'
    <3>1. cam' \in Cams BY <2>2, CamMoves DEF TypeInv, Places
    <3>2. QED BY <2>2, <3>1, SameType DEF SameDevice, TypeInv, CountType
  <2>3. QED BY <1>2, <2>1, <2>2 DEF CamSelect
<1>3. CASE CamTimeout
  <2>1. CASE CamDies BY <2>1, CamDiesType
  <2>2. CASE CamGoes("set") /\ Calls(Cam, vd.res)
             /\ UNCHANGED <<vd, files, opens, pics, global, overlap, fault>>
    BY <2>2, OwnCall DEF SameDevice
  <2>3. QED BY <1>3, <2>1, <2>2 DEF CamTimeout
<1>4. CASE CamDequeue
  <2>1. CASE CamDies BY <2>1, CamDiesType
  <2>2. ASSUME NEW pc \in {"copy", "requeue"}, IsOpen(vd.fd),
               cam' = [pc |-> pc, from |-> vd.fd], pics' \in {pics, pics + 1}, pics < MaxPics,
               UNCHANGED <<vd, files, changes, opens, call, global, overlap, fault>>
        PROVE  TypeInv'
    <3>1. cam' \in Cams BY <2>2 DEF TypeInv, Vds, Places, Cams
    <3>2. pics' \in 0 .. MaxPics BY <2>2, BoundsAssumption DEF TypeInv, CountType
    <3>3. QED BY <2>2, <3>1, <3>2, SameType DEF SameDevice, TypeInv
  <2>3. QED BY <1>4, <2>1, <2>2 DEF CamDequeue
<1>5. CASE CamCopy
  <2>1. CASE CamCrashes("unmapped") BY <2>1, CamCrashesType
  <2>2. CASE CamCrashes("freed") BY <2>2, CamCrashesType
  <2>3. CASE /\ vd' = [vd EXCEPT !.tmp.pic = IF vd.mem = cam.from THEN pics ELSE 0]
             /\ CamGoes("requeue")
             /\ UNCHANGED <<files, changes, opens, pics, call, global, overlap, fault>>
    <3>1. cam' \in Cams BY <2>3, CamMoves DEF TypeInv, Places
    <3>2. PICK n : n = IF vd.mem = cam.from THEN pics ELSE 0 OBVIOUS
    <3>3. n \in 0 .. MaxPics BY <3>2, BoundsAssumption DEF TypeInv, CountType
    <3>4. vd' \in Vds
      <4>1. vd' = [vd EXCEPT !.tmp.pic = n] BY <2>3, <3>2
      <4>2. QED BY <4>1, <3>3, VdPic DEF TypeInv
    <3>5. CountType' /\ CallType' /\ Counted' /\ FilesType'
      BY <2>3 DEF TypeInv, CountType, CallType, Counted, Pending, FilesType
    <3>6. QED BY <2>3, <3>1, <3>4, <3>5 DEF TypeInv
  <2>4. QED BY <1>5, <2>1, <2>2, <2>3 DEF CamCopy
<1>6. CASE CamRequeue
  <2>1. CASE CamDies BY <2>1, CamDiesType
  <2>2. ASSUME NEW pc \in {"publish", "events"}, CamGoes(pc),
               UNCHANGED <<vd, files, changes, opens, pics, call, global, overlap, fault>>
        PROVE  TypeInv'
    <3>1. cam' \in Cams BY <2>2, CamMoves DEF TypeInv, Places
    <3>2. QED BY <2>2, <3>1, SameType DEF SameDevice, TypeInv, CountType
  <2>3. QED BY <1>6, <2>1, <2>2 DEF CamRequeue
<1>7. CASE CamPublish
  <2>1. CASE CamCrashes("freed") BY <2>1, CamCrashesType
  <2>2. CASE CamCrashes("overrun") BY <2>2, CamCrashesType
  <2>3. CASE /\ global' = [global EXCEPT !.pic = vd.tmp.pic] /\ CamGoes("events")
             /\ UNCHANGED <<vd, files, changes, opens, pics, call, overlap, fault>>
    <3>1. cam' \in Cams BY <2>3, CamMoves DEF TypeInv, Places
    <3>2. vd.tmp.pic \in 0 .. MaxPics BY DEF TypeInv, Vds, Tmps
    <3>3. global' \in [room : Sizes, pic : 0 .. MaxPics] BY <2>3, <3>2 DEF TypeInv
    <3>4. CountType' /\ CallType' /\ Counted' /\ FilesType'
      BY <2>3 DEF TypeInv, CountType, CallType, Counted, Pending, FilesType
    <3>5. QED BY <2>3, <3>1, <3>3, <3>4 DEF TypeInv
  <2>4. QED BY <1>7, <2>1, <2>2, <2>3 DEF CamPublish
<1>8. CASE CamEvents
  <2>1. CASE CamGoes("loop") /\ UNCHANGED <<changes, call>>
    <3>1. cam' \in Cams BY <2>1, CamMoves DEF TypeInv, Places
    <3>2. QED BY <1>8, <2>1, <3>1, SameType DEF CamEvents, SameDevice, TypeInv, CountType
  <2>2. CASE CamGoes("set") /\ Calls(Cam, vd.res)
    BY <1>8, <2>2, OwnCall DEF SameDevice, CamEvents
  <2>3. QED BY <1>8, <2>1, <2>2 DEF CamEvents
<1>9. QED BY <1>1, <1>2, <1>3, <1>4, <1>5, <1>6, <1>7, <1>8

\* A step of setResolution after which the call goes on.
LEMMA ContinuesType ==
  ASSUME TypeInv, NEW p \in Callers, NEW pc \in Stops, Continues(p, pc), call[p].pc # "idle",
         vd' \in Vds, FilesType', UNCHANGED <<dv, changes>>, overlap' \subseteq {"camera", "calls"},
         \/ opens' = opens /\ (pc \in {"pause", "off", "close", "open"} => p \in Pending)
         \/ opens' = opens + 1 /\ p \in Pending /\ pc \notin {"pause", "off", "close", "open"}
  PROVE  /\ TypeInv' /\ call'[p].pc = pc
         /\ \A q \in Callers \ {p} : call'[q] = call[q]
<1>1. /\ CallType' /\ call'[p].pc = pc
      /\ \A q \in Callers \ {p} : call'[q] = call[q]
  BY CallMoves DEF Continues, CallGoes, TypeInv
<1>2. opens \in Nat \ {0} /\ changes \in Nat BY DEF TypeInv, CountType
<1>3. p \in Pending' <=> pc \in {"pause", "off", "close", "open"} BY <1>1 DEF Pending, Callers
<1>4. Counted' BY <1>1, <1>2, <1>3, CountStep DEF TypeInv
<1>5. CountType' BY <1>2 DEF TypeInv, CountType, Continues
<1>6. QED BY <1>1, <1>4, <1>5 DEF TypeInv, Continues

\* A step with which setResolution returns -1.
LEMMA FailsType ==
  ASSUME TypeInv, NEW p \in Callers, Fails(p), call[p].pc # "idle",
         vd' \in Vds, FilesType', UNCHANGED <<dv, changes, opens>>,
         overlap' \subseteq {"camera", "calls"}
  PROVE  /\ TypeInv' /\ call'[p].pc = "idle"
         /\ \A q \in Callers \ {p} : call'[q] = call[q]
         /\ cam'.pc = IF p = Cam THEN "fail" ELSE cam.pc
<1>1. PICK pc \in Stops : pc = "idle" BY DEF Stops
<1>2. PICK r \in Sizes : r = 0 BY DEF Sizes
<1>3. call' = [call EXCEPT ![p] = [pc |-> pc, res |-> r]] BY <1>1, <1>2 DEF Fails, Idle
<1>4. /\ CallType' /\ call'[p].pc = "idle"
      /\ \A q \in Callers \ {p} : call'[q] = call[q]
  BY <1>1, <1>3, CallSet DEF TypeInv
<1>5. opens \in Nat \ {0} /\ changes \in Nat BY DEF TypeInv, CountType
<1>6. p \notin Pending' BY <1>4 DEF Pending
<1>7. Counted' BY <1>4, <1>5, <1>6, CountStep DEF TypeInv
<1>8. CountType' BY DEF TypeInv, CountType, Fails
<1>9. cam' \in Cams /\ cam'.pc = (IF p = Cam THEN "fail" ELSE cam.pc)
  <2>1. CASE p = Cam BY <2>1, CamMoves DEF Fails, TypeInv, Places
  <2>2. CASE p # Cam BY <2>2 DEF Fails, TypeInv
  <2>3. QED BY <2>1, <2>2
<1>10. failed' \in BOOLEAN BY DEF Fails, TypeInv
<1>11. QED BY <1>4, <1>7, <1>8, <1>9, <1>10 DEF TypeInv, Fails

\* Types, of what is noted of an overlap.
LEMMA NotesType ==
  ASSUME TypeInv, NEW p, Notes(p) PROVE overlap' \subseteq {"camera", "calls"}
BY DEF TypeInv, Notes, Mark

\* Types, and what the first step of setResolution does: the device is PAUSED.
LEMMA PauseType ==
  ASSUME TypeInv, NEW p \in Callers, Pause(p), UNCHANGED <<dv, changes>>
  PROVE  /\ TypeInv' /\ call'[p].pc = "off" /\ vd'.state = "PAUSED" /\ vd'.fd = vd.fd
         /\ vd'.mem = vd.mem /\ vd'.tmp = vd.tmp
         /\ \A q \in Callers \ {p} : call'[q] = call[q]
<1>1. PICK o \in {"ON", "OFF", "PAUSED"} : o = "PAUSED" OBVIOUS
<1>2. vd' = [vd EXCEPT !.state = o] BY <1>1 DEF Pause
<1>3. /\ vd' \in Vds /\ vd'.state = "PAUSED" /\ vd'.fd = vd.fd /\ vd'.mem = vd.mem
      /\ vd'.tmp = vd.tmp
  BY <1>1, <1>2, VdState DEF TypeInv
<1>4. PICK pc \in Stops : pc = "off" BY DEF Stops
<1>5. Continues(p, pc) /\ call[p].pc = "pause" /\ UNCHANGED <<files, opens, overlap>>
  BY <1>4 DEF Pause, At
<1>6. FilesType' BY <1>5 DEF TypeInv, FilesType
<1>7. p \in Pending BY <1>5 DEF Pending
<1>8. overlap' \subseteq {"camera", "calls"} BY <1>5 DEF TypeInv
<1>9. QED BY <1>3, <1>4, <1>5, <1>6, <1>7, <1>8, ContinuesType

\* The second: the stream is off, or the call is given up.
LEMMA StreamOffType ==
  ASSUME TypeInv, NEW p \in Callers, StreamOff(p), UNCHANGED <<dv, changes>>
  PROVE  /\ TypeInv' /\ DOMAIN files' = DOMAIN files
         /\ \A q \in Callers \ {p} : call'[q] = call[q]
         /\ \/ /\ call'[p].pc = "close" /\ vd'.state = "PAUSED" /\ vd'.fd = vd.fd
               /\ vd'.mem = vd.mem /\ vd'.tmp = vd.tmp /\ UNCHANGED <<cam, fault>>
            \/ Fails(p) /\ UNCHANGED <<vd, files>> /\ call'[p].pc = "idle"
<1>1. /\ call[p].pc = "off" /\ overlap' \subseteq {"camera", "calls"} /\ UNCHANGED opens
  BY NotesType DEF StreamOff, At
<1>2. CASE /\ IsOpen(vd.fd) /\ files' = [files EXCEPT ![vd.fd].streams = FALSE]
           /\ vd' = [vd EXCEPT !.state = "PAUSED"] /\ Continues(p, "close")
  <2>1. PICK o \in {"ON", "OFF", "PAUSED"} : o = "PAUSED" OBVIOUS
  <2>2. vd' = [vd EXCEPT !.state = o] BY <1>2, <2>1
  <2>3. /\ vd' \in Vds /\ vd'.state = "PAUSED" /\ vd'.fd = vd.fd /\ vd'.mem = vd.mem
        /\ vd'.tmp = vd.tmp
    BY <2>1, <2>2, VdState DEF TypeInv
  <2>4. PICK b \in BOOLEAN : b = FALSE OBVIOUS
  <2>5. files' = [files EXCEPT ![vd.fd].streams = b] BY <1>2, <2>4
  <2>6. FilesType' /\ DOMAIN files' = DOMAIN files
    BY <1>2, <2>5, FileStreams DEF TypeInv, IsOpen
  <2>7. PICK pc \in Stops : pc = "close" BY DEF Stops
  <2>8. Continues(p, pc) /\ p \in Pending BY <1>1, <1>2, <2>7 DEF Pending
  <2>9. /\ TypeInv' /\ call'[p].pc = pc
        /\ \A q \in Callers \ {p} : call'[q] = call[q]
    BY <1>1, <2>3, <2>6, <2>8, ContinuesType
  <2>10. QED BY <1>2, <2>3, <2>6, <2>7, <2>9 DEF Continues
<1>3. CASE Fails(p) /\ UNCHANGED <<vd, files>>
  <2>1. vd' \in Vds /\ FilesType' /\ DOMAIN files' = DOMAIN files
    BY <1>3 DEF TypeInv, FilesType
  <2>2. QED BY <1>1, <1>3, <2>1, FailsType
<1>4. QED BY <1>2, <1>3 DEF StreamOff

\* The third: the descriptor is closed and the buffers are gone.
LEMMA CloseType ==
  ASSUME TypeInv, NEW p \in Callers, UnmapAndClose(p), UNCHANGED <<dv, changes>>
  PROVE  /\ TypeInv' /\ call'[p].pc = "open" /\ vd'.state = vd.state /\ vd'.fd = vd.fd
         /\ vd'.tmp = vd.tmp /\ DOMAIN files' = DOMAIN files \ {vd.fd}
         /\ \A q \in Callers \ {p} : call'[q] = call[q]
<1>1. /\ call[p].pc = "close" /\ overlap' \subseteq {"camera", "calls"} /\ UNCHANGED opens
  BY NotesType DEF UnmapAndClose, At
<1>2. vd = [state |-> vd.state, fd |-> vd.fd, res |-> vd.res, mem |-> vd.mem, tmp |-> vd.tmp]
  BY DEF TypeInv, Vds
<1>3. vd' = [state |-> vd.state, fd |-> vd.fd, res |-> vd.res, mem |-> 0, tmp |-> vd.tmp]
  BY <1>2 DEF UnmapAndClose
<1>4. 0 \in Files BY BoundsAssumption DEF Files
<1>5. vd' \in Vds /\ vd'.state = vd.state /\ vd'.fd = vd.fd /\ vd'.tmp = vd.tmp
  BY <1>3, <1>4 DEF TypeInv, Vds
<1>6. FilesType' /\ DOMAIN files' = DOMAIN files \ {vd.fd}
  BY DEF UnmapAndClose, Without, TypeInv, FilesType
<1>7. PICK pc \in Stops : pc = "open" BY DEF Stops
<1>8. Continues(p, pc) /\ p \in Pending BY <1>1, <1>7 DEF Pending, UnmapAndClose
<1>9. /\ TypeInv' /\ call'[p].pc = pc
      /\ \A q \in Callers \ {p} : call'[q] = call[q]
  BY <1>1, <1>5, <1>6, <1>8, ContinuesType
<1>10. QED BY <1>5, <1>6, <1>7, <1>9

\* The fourth: there is a new descriptor, or none.
LEMMA OpenType ==
  ASSUME TypeInv, NEW p \in Callers, Open(p), UNCHANGED <<dv, changes>>
  PROVE  /\ TypeInv' /\ vd'.state = vd.state /\ vd'.tmp = vd.tmp
         /\ \A q \in Callers \ {p} : call'[q] = call[q]
         /\ \/ /\ call'[p].pc = "init" /\ DOMAIN files' = DOMAIN files \cup {vd'.fd}
               /\ UNCHANGED <<cam, fault>>
            \/ Fails(p) /\ UNCHANGED <<files, opens>> /\ call'[p].pc = "idle"
<1>1. /\ call[p].pc = "open" /\ overlap' \subseteq {"camera", "calls"}
  BY NotesType DEF Open, At
<1>2. vd = [state |-> vd.state, fd |-> vd.fd, res |-> vd.res, mem |-> vd.mem, tmp |-> vd.tmp]
  BY DEF TypeInv, Vds
<1>3. call[p].res \in Sizes BY DEF TypeInv, CallType, Requests
<1>4. opens \in Nat \ {0} /\ opens + 1 <= MaxChanges + 1 /\ MaxChanges \in Nat /\ p \in Pending
  BY <1>1, OpensBound, BoundsAssumption DEF TypeInv, CountType, Pending
<1>5. CASE /\ opens' = opens + 1
           /\ vd' = [vd EXCEPT !.res = call[p].res, !.fd = opens + 1]
           /\ files' = [f \in DOMAIN files \cup {opens + 1} |->
                 IF IsOpen(f) THEN files[f] ELSE [ready |-> FALSE, streams |-> FALSE]]
           /\ Continues(p, "init")
  <2>1. PICK n : n = opens + 1 OBVIOUS
  <2>2. n \in Files /\ n \in 1 .. MaxChanges + 1 BY <1>4, <2>1 DEF Files
  <2>3. vd' = [state |-> vd.state, fd |-> n, res |-> call[p].res, mem |-> vd.mem, tmp |-> vd.tmp]
    BY <1>2, <1>5, <2>1
  <2>4. vd' \in Vds /\ vd'.state = vd.state /\ vd'.fd = n /\ vd'.tmp = vd.tmp
    BY <1>3, <2>2, <2>3 DEF TypeInv, Vds
  <2>5. PICK e : e = [ready |-> FALSE, streams |-> FALSE] OBVIOUS
  <2>6. e \in Buffers BY <2>5 DEF Buffers
  <2>7. files' = [f \in DOMAIN files \cup {n} |-> IF f \in DOMAIN files THEN files[f] ELSE e]
    BY <1>5, <2>1, <2>5 DEF IsOpen
  <2>8. FilesType' /\ DOMAIN files' = DOMAIN files \cup {n}
    <3> HIDE <2>1, <2>5
    <3>1. /\ DOMAIN files' = DOMAIN files \cup {n}
          /\ \A f \in DOMAIN files \cup {n} : files'[f] \in Buffers
          /\ files' = [f \in DOMAIN files' |-> files'[f]]
      BY <2>6, <2>7 DEF TypeInv, FilesType
    <3>2. QED BY <2>2, <3>1 DEF TypeInv, FilesType
  <2>9. PICK pc \in Stops : pc = "init" BY DEF Stops
  <2>10. Continues(p, pc) /\ pc \notin {"pause", "off", "close", "open"} BY <1>5, <2>9
  <2>11. /\ TypeInv' /\ call'[p].pc = pc
         /\ \A q \in Callers \ {p} : call'[q] = call[q]
    BY <1>1, <1>4, <1>5, <2>4, <2>8, <2>10, ContinuesType
  <2>12. QED BY <2>4, <2>8, <2>9, <2>10, <2>11 DEF Continues
<1>6. CASE /\ vd' = [vd EXCEPT !.res = call[p].res, !.fd = 0]
           /\ Fails(p) /\ UNCHANGED <<files, opens>>
  <2>1. vd' = [state |-> vd.state, fd |-> 0, res |-> call[p].res, mem |-> vd.mem, tmp |-> vd.tmp]
    BY <1>2, <1>6
  <2>2. 0 \in Files BY BoundsAssumption DEF Files
  <2>3. vd' \in Vds /\ vd'.state = vd.state /\ vd'.tmp = vd.tmp
    BY <1>3, <2>1, <2>2 DEF TypeInv, Vds
  <2>4. FilesType' BY <1>6 DEF TypeInv, FilesType
  <2>5. QED BY <1>1, <1>6, <2>3, <2>4, FailsType
<1>7. QED BY <1>5, <1>6 DEF Open

\* The fifth: the new descriptor has its buffers, or the call is given up.
LEMMA InitDeviceType ==
  ASSUME TypeInv, NEW p \in Callers, InitDevice(p), UNCHANGED <<dv, changes>>
  PROVE  /\ TypeInv' /\ DOMAIN files' = DOMAIN files /\ vd'.fd = vd.fd /\ vd'.state = vd.state
         /\ vd'.tmp = vd.tmp
         /\ \A q \in Callers \ {p} : call'[q] = call[q]
         /\ \/ /\ call'[p].pc = "alloc" /\ IsOpen(vd.fd) /\ files'[vd.fd].ready
               /\ vd'.mem = vd.fd /\ UNCHANGED <<cam, fault>>
            \/ Fails(p) /\ UNCHANGED <<vd, files>> /\ call'[p].pc = "idle"
<1>1. /\ call[p].pc = "init" /\ overlap' \subseteq {"camera", "calls"} /\ UNCHANGED opens
  BY NotesType DEF InitDevice, At
<1>2. vd = [state |-> vd.state, fd |-> vd.fd, res |-> vd.res, mem |-> vd.mem, tmp |-> vd.tmp]
  BY DEF TypeInv, Vds
<1>3. CASE /\ IsOpen(vd.fd) /\ files' = [files EXCEPT ![vd.fd].ready = TRUE]
           /\ \E r \in Resolutions : vd' = [vd EXCEPT !.mem = vd.fd, !.res = r]
           /\ Continues(p, "alloc")
  <2>1. PICK r \in Sizes : vd' = [vd EXCEPT !.mem = vd.fd, !.res = r]
    BY <1>3 DEF Sizes
  <2>2. vd' = [state |-> vd.state, fd |-> vd.fd, res |-> r, mem |-> vd.fd, tmp |-> vd.tmp]
    BY <1>2, <2>1
  <2>3. /\ vd' \in Vds /\ vd'.state = vd.state /\ vd'.fd = vd.fd /\ vd'.tmp = vd.tmp
        /\ vd'.mem = vd.fd
    BY <2>2 DEF TypeInv, Vds
  <2>4. PICK b \in BOOLEAN : b = TRUE OBVIOUS
  <2>5. files' = [files EXCEPT ![vd.fd].ready = b] BY <1>3, <2>4
  <2>6. FilesType' /\ DOMAIN files' = DOMAIN files /\ files'[vd.fd].ready
    BY <1>3, <2>4, <2>5, FileReady DEF TypeInv, IsOpen
  <2>7. PICK pc \in Stops : pc = "alloc" BY DEF Stops
  <2>8. Continues(p, pc) /\ pc \notin {"pause", "off", "close", "open"} BY <1>3, <2>7
  <2>9. /\ TypeInv' /\ call'[p].pc = pc
        /\ \A q \in Callers \ {p} : call'[q] = call[q]
    BY <1>1, <2>3, <2>6, <2>8, ContinuesType
  <2>10. QED BY <1>3, <2>3, <2>6, <2>7, <2>8, <2>9 DEF Continues
<1>4. CASE Fails(p) /\ UNCHANGED <<vd, files>>
  <2>1. vd' \in Vds /\ FilesType' BY <1>4 DEF TypeInv, FilesType
  <2>2. QED BY <1>1, <1>4, <2>1, FailsType
<1>5. QED BY <1>3, <1>4 DEF InitDevice

\* The sixth: tmpbuffer has room for the new resolution.
LEMMA ReallocType ==
  ASSUME TypeInv, NEW p \in Callers, Realloc(p), UNCHANGED <<dv, changes>>
  PROVE  /\ TypeInv' /\ UNCHANGED files /\ vd'.fd = vd.fd /\ vd'.state = vd.state
         /\ vd'.mem = vd.mem
         /\ \A q \in Callers \ {p} : call'[q] = call[q]
         /\ \/ call'[p].pc = "enable" /\ vd'.tmp.live /\ UNCHANGED <<cam, fault>>
            \/ Fails(p) /\ call'[p].pc = "idle"
<1>1. /\ call[p].pc = "alloc" /\ overlap' \subseteq {"camera", "calls"}
      /\ UNCHANGED <<files, opens>>
  BY NotesType DEF Realloc, At
<1>2. FilesType' BY <1>1 DEF TypeInv, FilesType
<1>3. MaxPics \in Nat BY BoundsAssumption
<1>4. CASE vd' = [vd EXCEPT !.tmp = BlankTmp(vd.res)] /\ Continues(p, "enable")
  <2>1. BlankTmp(vd.res) \in Tmps /\ BlankTmp(vd.res).live
    BY <1>3 DEF BlankTmp, Tmps, Sizes, TypeInv, Vds
  <2>2. PICK t \in Tmps : t = BlankTmp(vd.res) BY <2>1
  <2>3. vd' = [vd EXCEPT !.tmp = t] BY <1>4, <2>2
  <2>4. /\ vd' \in Vds /\ vd'.state = vd.state /\ vd'.fd = vd.fd /\ vd'.mem = vd.mem
        /\ vd'.tmp = t
    BY <2>3, VdTmp DEF TypeInv
  <2>5. PICK pc \in Stops : pc = "enable" BY DEF Stops
  <2>6. Continues(p, pc) /\ pc \notin {"pause", "off", "close", "open"} BY <1>4, <2>5
  <2>7. /\ TypeInv' /\ call'[p].pc = pc
        /\ \A q \in Callers \ {p} : call'[q] = call[q]
    BY <1>1, <1>2, <2>4, <2>6, ContinuesType
  <2>8. QED BY <1>1, <2>1, <2>2, <2>4, <2>5, <2>6, <2>7 DEF Continues
<1>5. CASE vd' = [vd EXCEPT !.tmp = NoTmp] /\ Fails(p)
  <2>1. NoTmp \in Tmps BY <1>3 DEF NoTmp, Tmps, Sizes
  <2>2. PICK t \in Tmps : t = NoTmp BY <2>1
  <2>3. vd' = [vd EXCEPT !.tmp = t] BY <1>5, <2>2
  <2>4. vd' \in Vds /\ vd'.state = vd.state /\ vd'.fd = vd.fd /\ vd'.mem = vd.mem
    BY <2>3, VdTmp DEF TypeInv
  <2>5. QED BY <1>1, <1>2, <1>5, <2>4, FailsType
<1>6. QED BY <1>4, <1>5 DEF Realloc

\* The last: the stream is on, or the call is given up.
LEMMA EnableType ==
  ASSUME TypeInv, NEW p \in Callers, Enable(p), UNCHANGED <<dv, changes>>
  PROVE  /\ TypeInv' /\ DOMAIN files' = DOMAIN files /\ vd'.fd = vd.fd /\ vd'.mem = vd.mem
         /\ vd'.tmp = vd.tmp
         /\ \A q \in Callers \ {p} : call'[q] = call[q]
         /\ \/ /\ vd'.state = "ON" /\ IsOpen(vd.fd) /\ files'[vd.fd].ready /\ files'[vd.fd].streams
               /\ call'[p].pc = IF p = Cam THEN "idle" ELSE "report"
               /\ cam'.pc = IF p = Cam THEN "loop" ELSE cam.pc
               /\ UNCHANGED fault
            \/ Fails(p) /\ UNCHANGED <<vd, files>> /\ call'[p].pc = "idle"
<1>1. /\ call[p].pc = "enable" /\ overlap' \subseteq {"camera", "calls"} /\ UNCHANGED opens
  BY NotesType DEF Enable, At
<1>2. CASE /\ IsOpen(vd.fd) /\ files[vd.fd].ready
           /\ files' = [files EXCEPT ![vd.fd].streams = TRUE]
           /\ vd' = [vd EXCEPT !.state = "ON"]
           /\ IF p = Cam THEN CallGoes(p, "idle") /\ CamGoes("loop")
                         ELSE CallGoes(p, "report") /\ UNCHANGED cam
           /\ UNCHANGED <<pics, global, reported, failed, fault>>
  <2>1. PICK o \in {"ON", "OFF", "PAUSED"} : o = "ON" OBVIOUS
  <2>2. vd' = [vd EXCEPT !.state = o] BY <1>2, <2>1
  <2>3. /\ vd' \in Vds /\ vd'.state = "ON" /\ vd'.fd = vd.fd /\ vd'.mem = vd.mem
        /\ vd'.tmp = vd.tmp
    BY <2>1, <2>2, VdState DEF TypeInv
  <2>4. PICK b \in BOOLEAN : b = TRUE OBVIOUS
  <2>5. files' = [files EXCEPT ![vd.fd].streams = b] BY <1>2, <2>4
  <2>6. /\ FilesType' /\ DOMAIN files' = DOMAIN files /\ files'[vd.fd].streams = b
        /\ files'[vd.fd].ready = files[vd.fd].ready
    BY <1>2, <2>5, FileStreams DEF TypeInv, IsOpen
  <2>7. PICK pc \in Stops : pc = IF p = Cam THEN "idle" ELSE "report" BY DEF Stops
  <2>8. call' = [call EXCEPT ![p].pc = pc] BY <1>2, <2>7 DEF CallGoes
  <2>9. /\ CallType' /\ call'[p].pc = pc
        /\ \A q \in Callers \ {p} : call'[q] = call[q]
    BY <1>1, <2>8, CallMoves DEF TypeInv
  <2>10. p \notin Pending' BY <2>7, <2>9 DEF Pending
  <2>11. opens \in Nat /\ changes \in Nat BY DEF TypeInv, CountType
  <2>12. Counted' BY <1>1, <2>9, <2>10, <2>11, CountStep DEF TypeInv
  <2>13. cam' \in Cams /\ cam'.pc = (IF p = Cam THEN "loop" ELSE cam.pc)
    <3>1. CASE p = Cam BY <1>2, <3>1, CamMoves DEF TypeInv, Places
    <3>2. CASE p # Cam BY <1>2, <3>2 DEF TypeInv
    <3>3. QED BY <3>1, <3>2
  <2>14. CountType' BY <1>1, <1>2 DEF TypeInv, CountType
  <2>15. TypeInv' BY <1>1, <1>2, <2>3, <2>6, <2>9, <2>12, <2>13, <2>14 DEF TypeInv
  <2>16. QED BY <1>2, <2>3, <2>4, <2>6, <2>7, <2>9, <2>13, <2>15
<1>3. CASE Fails(p) /\ UNCHANGED <<vd, files>>
  <2>1. vd' \in Vds /\ FilesType' BY <1>3 DEF TypeInv, FilesType
  <2>2. QED BY <1>1, <1>3, <2>1, FailsType
<1>4. QED BY <1>2, <1>3 DEF Enable

\* Types, when a client thread commands, and is answered.
LEMMA CommandType ==
  ASSUME TypeInv, NEW c \in Commanders, CommandStep(c)
  PROVE  TypeInv'
<1>1. c \in Callers BY DEF Callers
<1>2. ASSUME Command(c), NEW r \in Sizes, Calls(c, r), UNCHANGED fault PROVE TypeInv'
  <2>1. Calls(c, r) BY <1>2
  <2>2. PICK pc \in Stops : pc = "pause" BY DEF Stops
  <2>4. call' = [call EXCEPT ![c] = [pc |-> pc, res |-> r]] BY <2>1, <2>2 DEF Calls
  <2>5. CallType' /\ \A q \in Callers \ {c} : call'[q] = call[q]
    BY <1>1, <2>4, CallSet DEF TypeInv
  <2>6. UNCHANGED <<dv, vd, files, opens, pics, cam, global, reported, failed, overlap, fault>>
    BY <1>2 DEF Command, CommandStep
  <2>7. opens \in Nat /\ changes \in Nat /\ opens' = opens /\ changes' = changes + 1
    BY <2>1, <2>6 DEF TypeInv, CountType, Calls
  <2>8. Counted' BY <1>1, <2>5, <2>7, CountStep DEF TypeInv
  <2>9. CountType'
    <3>1. MaxChanges \in Nat BY BoundsAssumption
    <3>2. changes' \in 0 .. MaxChanges BY <2>1, <2>7, <3>1 DEF Calls, TypeInv, CountType
    <3>3. QED BY <2>6, <3>2 DEF CountType, TypeInv
  <2>10. FilesType' BY <2>6 DEF TypeInv, FilesType
  <2>11. QED BY <2>5, <2>6, <2>8, <2>9, <2>10 DEF TypeInv
<1>3. CASE UsesFreed(c)
  <2>1. /\ UNCHANGED <<dv, vd, files, changes, opens, pics, cam, call, global, reported, failed>>
        /\ fault' = "freed" /\ overlap' = overlap \cup {"camera"}
    BY <1>3 DEF UsesFreed, CommandStep
  <2>2. CountType' /\ CallType' /\ Counted' /\ FilesType'
    BY <2>1 DEF TypeInv, CountType, CallType, Counted, Pending, FilesType
  <2>3. QED BY <2>1, <2>2 DEF TypeInv
<1>4. CASE Report(c)
  <2>1. /\ call[c].pc = "report" /\ reported' = call[c].res /\ failed' = FALSE
        /\ UNCHANGED <<dv, vd, files, changes, opens, pics, cam, global, overlap, fault>>
    BY <1>4 DEF Report, CommandStep
  <2>2. PICK pc \in Stops : pc = "idle" BY DEF Stops
  <2>3. PICK z \in Sizes : z = 0 BY DEF Sizes
  <2>4. call' = [call EXCEPT ![c] = [pc |-> pc, res |-> z]] BY <1>4, <2>2, <2>3 DEF Report, Idle
  <2>5. /\ CallType' /\ call'[c].pc = "idle"
        /\ \A q \in Callers \ {c} : call'[q] = call[q]
    BY <1>1, <2>2, <2>4, CallSet DEF TypeInv
  <2>6. opens \in Nat /\ changes \in Nat /\ c \notin Pending'
    BY <2>5 DEF TypeInv, CountType, Pending
  <2>7. Counted' BY <1>1, <2>1, <2>5, <2>6, CountStep DEF TypeInv
  <2>8. CountType' /\ FilesType' BY <2>1 DEF TypeInv, CountType, FilesType
  <2>9. reported' \in Sizes BY <1>1, <2>1 DEF TypeInv, CallType, Requests
  <2>10. QED BY <2>1, <2>5, <2>7, <2>8, <2>9 DEF TypeInv
<1>5. CASE Command(c) /\ fault' = "index" /\ UNCHANGED <<changes, call>>
  <2>1. UNCHANGED <<dv, vd, files, changes, opens, pics, cam, call, global, reported, failed, overlap>>
    BY <1>5 DEF Command, CommandStep
  <2>2. CountType' /\ CallType' /\ Counted' /\ FilesType'
    BY <2>1 DEF TypeInv, CountType, CallType, Counted, Pending, FilesType
  <2>3. QED BY <1>5, <2>1, <2>2 DEF TypeInv
<1>6. QED BY <1>2, <1>3, <1>4, <1>5 DEF CommandStep, Command

\* The state and the place of everything that the camera thread works on.
SameVd == /\ vd'.state = vd.state /\ vd'.fd = vd.fd /\ vd'.mem = vd.mem
          /\ vd'.tmp.live = vd.tmp.live

\* Outside setResolution the camera thread leaves the device as it is, until it ends.
LEMMA CamDoes ==
  ASSUME TypeInv, CamStep \/ CamGivesUp,
         UNCHANGED <<dv, reported, failed>>
  PROVE  /\ cam.pc \in Running \cup {"loop", "fail"}
         /\ \/ /\ cam'.pc = "set" /\ call'[Cam].pc = "pause"
               /\ \A q \in Callers \ {Cam} : call'[q] = call[q]
               /\ SameVd /\ UNCHANGED <<files, overlap, fault>> /\ cam.pc \in Running
            \/ CamDies /\ cam.pc # "loop"
            \/ /\ cam'.pc = "crash" /\ SameVd /\ UNCHANGED <<files, call, overlap>>
               /\ \/ fault' = "unmapped" /\ cam.pc = "copy" /\ vd.mem = 0
                  \/ fault' = "freed" /\ cam.pc \in {"copy", "publish"} /\ ~vd.tmp.live
                  \/ fault' = "overrun" /\ cam.pc = "publish"
            \/ /\ cam'.pc \in Running \cup {"loop"} /\ SameVd /\ UNCHANGED <<files, call, fault>>
               /\ \/ /\ cam.pc = "loop" /\ vd.state # "PAUSED"
                     /\ overlap' = overlap \cup Mark("camera", \E c \in Commanders : Works(c))
                  \/ cam.pc \in Running /\ UNCHANGED overlap
<1> USE DEF CamStep, Running
<1> DEFINE Goes(pc) == CamGoes(pc) /\ UNCHANGED <<vd, files, call, overlap, fault>>
<1>1. ASSUME NEW pc \in Running \cup {"loop"}, Goes(pc), cam.pc \in Running
      PROVE  /\ cam'.pc \in Running \cup {"loop"} /\ SameVd /\ UNCHANGED <<files, call, fault>>
             /\ cam.pc \in Running /\ UNCHANGED overlap
  BY <1>1, CamMoves DEF SameVd, TypeInv, Places
<1>2. ASSUME Calls(Cam, vd.res), CamGoes("set"),
             UNCHANGED <<dv, vd, files, opens, pics, global, reported, failed, overlap, fault>>
      PROVE  /\ cam'.pc = "set" /\ call'[Cam].pc = "pause"
             /\ \A q \in Callers \ {Cam} : call'[q] = call[q]
             /\ SameVd /\ UNCHANGED <<files, overlap, fault>>
  BY <1>2, OwnCall DEF SameVd, SameDevice
<1>3. ASSUME NEW f \in {"unmapped", "freed", "overrun"}, CamCrashes(f)
      PROVE  /\ cam'.pc = "crash" /\ SameVd /\ UNCHANGED <<files, call, overlap>> /\ fault' = f
  BY <1>3, CamMoves DEF SameVd, TypeInv, Places, CamCrashes
<1>4. CASE CamLoop
  <2>1. cam'.pc = "select" BY <1>4, CamMoves DEF CamLoop, TypeInv, Places
  <2>2. QED BY <1>4, <2>1 DEF CamLoop, SameVd
<1>5. CASE CamSelect BY <1>1, <1>5 DEF CamSelect
<1>6. CASE CamTimeout BY <1>2, <1>6 DEF CamTimeout, Calls
<1>7. CASE CamDequeue
  <2>1. CASE CamDies BY <1>7, <2>1 DEF CamDequeue
  <2>2. ASSUME NEW pc \in {"copy", "requeue"}, cam' = [pc |-> pc, from |-> vd.fd]
        PROVE  cam'.pc \in Running
    BY <2>2
  <2>3. QED BY <1>7, <2>1, <2>2 DEF CamDequeue, SameVd
<1>8. CASE CamCopy
  <2>1. CASE vd.mem = 0 /\ CamCrashes("unmapped") BY <1>3, <1>8, <2>1 DEF CamCopy
  <2>2. CASE ~vd.tmp.live /\ CamCrashes("freed") BY <1>3, <1>8, <2>2 DEF CamCopy
  <2>3. CASE /\ vd' = [vd EXCEPT !.tmp.pic = IF vd.mem = cam.from THEN pics ELSE 0]
             /\ CamGoes("requeue")
             /\ UNCHANGED <<files, changes, opens, pics, call, global, overlap, fault>>
    <3>1. PICK n : n = IF vd.mem = cam.from THEN pics ELSE 0 OBVIOUS
    <3>2. n \in 0 .. MaxPics BY <3>1, BoundsAssumption DEF TypeInv, CountType
    <3>3. vd' = [vd EXCEPT !.tmp.pic = n] BY <2>3, <3>1
    <3>4. SameVd BY <3>2, <3>3, VdPic DEF TypeInv, SameVd
    <3>5. cam'.pc = "requeue" BY <2>3, CamMoves DEF TypeInv, Places
    <3>6. QED BY <1>8, <2>3, <3>4, <3>5 DEF CamCopy
  <2>4. QED BY <1>8, <2>1, <2>2, <2>3 DEF CamCopy
<1>9. CASE CamRequeue BY <1>1, <1>9 DEF CamRequeue
<1>10. CASE CamPublish
  <2>1. CASE ~vd.tmp.live /\ CamCrashes("freed") BY <1>3, <1>10, <2>1 DEF CamPublish
  <2>2. CASE CamCrashes("overrun") BY <1>3, <1>10, <2>2 DEF CamPublish
  <2>3. CASE Goes("events") BY <1>1, <1>10, <2>3 DEF CamPublish
  <2>4. QED BY <1>10, <2>1, <2>2, <2>3 DEF CamPublish
<1>11. CASE CamEvents BY <1>1, <1>2, <1>11 DEF CamEvents, Calls
<1>12. CASE CamGivesUp BY <1>12 DEF CamGivesUp
<1>13. QED BY <1>4, <1>5, <1>6, <1>7, <1>8, <1>9, <1>10, <1>11, <1>12

\* The place of the camera thread in setResolution.
LEMMA CamInSet ==
  ASSUME TypeInv, InSet, fault = "none", CamStep \/ CamGivesUp,
         UNCHANGED <<dv, reported, failed>>
  PROVE  InSet'
<1>1. call[Cam].pc = "idle" /\ vd.state # "OFF"
  BY CamDoes DEF InSet, Running
<1>2. Cam \in Callers BY DEF Callers
<1>3. CASE CamDies
  <2>1. cam'.pc = "dead" /\ UNCHANGED call BY <1>3, CleanupDoes DEF CamDies
  <2>2. QED BY <1>1, <2>1 DEF InSet
<1>4. CASE ~CamDies BY <1>1, <1>4, CamDoes DEF InSet, SameVd, Running
<1>5. QED BY <1>3, <1>4

\* Where nobody moves in setResolution and the device stays, so does Alone.
LEMMA AloneSame ==
  ASSUME Alone, SameVd, UNCHANGED files, "calls" \in overlap => "calls" \in overlap',
         cam.pc = "dead" => cam'.pc = "dead",
         \A p \in Callers : Works(p)' = Works(p) /\ (Works(p) => call'[p] = call[p])
  PROVE  Alone'
BY DEF Alone, SameVd, Stage, Ready, IsOpen, Callers

\* The camera thread keeps Alone.
LEMMA CamAlone ==
  ASSUME TypeInv, Alone, InSet, fault = "none", CamStep \/ CamGivesUp,
         UNCHANGED <<dv, reported, failed>>
  PROVE  Alone'
<1>1. cam.pc # "dead" BY CamDoes DEF Running
<1>2. CASE CamDies
  <2>1. /\ cam'.pc = "dead" /\ vd'.fd = vd.fd /\ DOMAIN files' = DOMAIN files
        /\ UNCHANGED <<call, overlap>>
    BY <1>2, CleanupDoes DEF CamDies
  <2>2. QED BY <2>1 DEF Alone, Works
<1>3. CASE ~CamDies
  <2>1. SameVd /\ UNCHANGED files /\ ("calls" \in overlap => "calls" \in overlap')
    BY <1>3, CamDoes DEF Mark
  <2>2. CASE UNCHANGED call
    <3>1. \A p \in Callers : Works(p)' = Works(p) BY <2>2 DEF Works
    <3>2. QED BY <1>1, <2>1, <2>2, <3>1, AloneSame
  <2>3. CASE call'[Cam].pc = "pause" /\ \A q \in Callers \ {Cam} : call'[q] = call[q]
    <3>1. call[Cam].pc = "idle" BY CamDoes DEF InSet, Running
    <3>2. ~Works(Cam) /\ ~Works(Cam)' BY <2>3, <3>1 DEF Works
    <3>3. \A p \in Callers \ {Cam} : (Works(p)' <=> Works(p)) /\ call'[p] = call[p]
      BY <2>3 DEF Works
    <3>4. \A p \in Callers : Works(p)' = Works(p) /\ (Works(p) => call'[p] = call[p])
      BY <3>2, <3>3 DEF Works
    <3>5. QED BY <1>1, <2>1, <3>4, AloneSame
  <2>4. QED BY <1>3, <2>2, <2>3, CamDoes
<1>4. QED BY <1>2, <1>3

\* The camera thread keeps Held: it is noted where it goes on beside a command.
LEMMA CamHeld ==
  ASSUME TypeInv, Alone, Held, InSet, fault = "none", CamStep \/ CamGivesUp,
         UNCHANGED <<dv, reported, failed>>
  PROVE  Held'
<1> SUFFICES ASSUME overlap' = {} PROVE Held' BY DEF Held
<1>1. call[Cam].pc = "idle" /\ vd.state # "OFF" /\ cam.pc # "dead"
  BY CamDoes DEF InSet, Running
<1>2. overlap = {}
  BY CamDoes DEF CamDies
<1>3. /\ \A c \in Commanders : Works(c) => cam.pc = "loop"
      /\ cam.pc \in Running => vd.tmp.live /\ vd.mem # 0
  BY <1>2 DEF Held
<1>4. \A c \in Commanders : call'[c] = call[c]
  BY CamDoes, CamAssumption DEF CamDies, Callers
<1>5. CASE CamDies
  <2>1. cam'.pc = "dead" /\ UNCHANGED <<overlap, fault>> BY <1>5, CleanupDoes DEF CamDies
  <2>2. cam.pc # "loop" BY <2>1, CamDoes DEF Running
  <2>3. QED BY <1>3, <1>4, <2>1, <2>2 DEF Held, Works, Running
<1>6. CASE ~CamDies /\ cam.pc = "loop" /\ cam'.pc # "crash" /\ cam'.pc # "set"
  <2>1. vd.state # "PAUSED" /\ SameVd /\ UNCHANGED <<files, call, fault>>
        /\ \A c \in Commanders : ~Works(c)
    BY <1>6, CamDoes DEF Mark, Running
  <2>2. \A p \in Callers : ~Works(p) BY <1>1, <2>1 DEF Works, Callers
  <2>3. Ready BY <1>1, <1>2, <2>1, <2>2 DEF Alone, TypeInv, Vds
  <2>4. vd.mem # 0 /\ vd.tmp.live BY <2>3 DEF Ready, IsOpen, TypeInv, FilesType
  <2>5. QED BY <1>2, <1>4, <2>1, <2>4 DEF Held, SameVd, Works
<1>7. CASE ~CamDies /\ ~(cam.pc = "loop" /\ cam'.pc # "crash" /\ cam'.pc # "set")
  BY <1>2, <1>3, <1>4, <1>7, CamDoes DEF Held, SameVd, Works, Running
<1>8. QED BY <1>5, <1>6, <1>7

\* A step on the device, after which the thread is alone on it or an overlap is
\* noted.
LEMMA NotesAlone ==
  ASSUME TypeInv, Alone, NEW p \in Callers, Notes(p),
         \A q \in Callers \ {p} : call'[q] = call[q],
         "calls" \notin overlap =>
           /\ DOMAIN files' \subseteq {vd'.fd}
           /\ Works(p)' => Stage(call[p].pc)'
           /\ vd'.state = "ON" /\ ~Works(p)' => Ready'
  PROVE  Alone'
<1> SUFFICES ASSUME "calls" \notin overlap' PROVE Alone' BY DEF Alone
<1>1. "calls" \notin overlap /\ \A q \in Callers \ {p} : ~Works(q) BY DEF Notes, Mark
<1>2. \A q \in Callers \ {p} : ~Works(q)' BY <1>1 DEF Works
<1>3. QED BY <1>1, <1>2 DEF Alone, Callers

\* A thread that goes on in setResolution keeps Held.
LEMMA NotesHeld ==
  ASSUME Held, NEW p \in Callers, Notes(p), UNCHANGED fault,
         \A q \in Callers \ {p} : call'[q] = call[q],
         p # Cam => cam'.pc = cam.pc, p = Cam => cam'.pc \notin Running
  PROVE  Held'
<1> SUFFICES ASSUME overlap' = {} PROVE Held' BY DEF Held
<1>1. /\ overlap = {} /\ (p # Cam => cam.pc = "loop")
      /\ \A q \in Callers \ {p} : ~Works(q)
  BY DEF Notes, Mark
<1>2. \A q \in Callers \ {p} : ~Works(q)' BY <1>1 DEF Works
<1>3. CASE p = Cam
  BY <1>1, <1>2, <1>3, CamAssumption DEF Held, Callers
<1>4. CASE p # Cam
  BY <1>1, <1>2, <1>4 DEF Held, Callers, Running
<1>5. QED BY <1>3, <1>4

\* The thread is at work on the device.
LEMMA AtWork ==
  ASSUME SoundInv, fault = "none", NEW p \in Callers, call[p].pc \notin {"idle", "report"},
         p # Cam => cam.pc # "dead"
  PROVE  cam.pc # "dead" /\ (p = Cam => cam.pc = "set") /\ Cam \in Callers
BY DEF SoundInv, InSet, Callers

\* A call that is given up keeps the invariant.
LEMMA FailsDoes ==
  ASSUME SoundInv, fault = "none", NEW p \in Callers, Fails(p), Notes(p),
         call[p].pc \notin {"idle", "report"}, p # Cam => cam.pc # "dead",
         vd' \in Vds, FilesType', UNCHANGED <<dv, changes, opens>>, vd'.state = vd.state,
         "calls" \notin overlap =>
           DOMAIN files' \subseteq {vd'.fd} /\ (vd'.state = "ON" => Ready')
  PROVE  SoundInv'
<1>1. /\ TypeInv' /\ call'[p].pc = "idle"
      /\ \A q \in Callers \ {p} : call'[q] = call[q]
      /\ cam'.pc = IF p = Cam THEN "fail" ELSE cam.pc
      /\ UNCHANGED fault
  BY FailsType, NotesType DEF SoundInv, Fails
<1>2. Alone' BY <1>1, NotesAlone DEF SoundInv, Works
<1>3. Held' BY <1>1, NotesHeld DEF SoundInv, Running
<1>4. InSet' BY <1>1, AtWork DEF SoundInv, InSet, Callers
<1>5. QED BY <1>1, <1>2, <1>3, <1>4 DEF SoundInv

\* So does a call that goes on.
LEMMA GoesOnDoes ==
  ASSUME SoundInv, fault = "none", NEW p \in Callers, Notes(p), TypeInv',
         \A q \in Callers \ {p} : call'[q] = call[q],
         call[p].pc \notin {"idle", "report"}, p # Cam => cam.pc # "dead",
         call'[p].pc \in {"close", "open", "init", "alloc", "enable"},
         UNCHANGED <<cam, fault>>, vd'.state \in {"PAUSED", vd.state},
         "calls" \notin overlap => DOMAIN files' \subseteq {vd'.fd} /\ Stage(call[p].pc)'
  PROVE  SoundInv'
<1>1. Works(p)' BY DEF Works
<1>2. Alone' BY <1>1, NotesAlone DEF SoundInv
<1>3. Held' BY AtWork, NotesHeld DEF SoundInv, Running
<1>4. InSet' BY AtWork DEF SoundInv, InSet, Callers
<1>5. QED BY <1>2, <1>3, <1>4 DEF SoundInv

\* Every step of setResolution keeps the invariant.
LEMMA SetResolutionStep ==
  ASSUME SoundInv, fault = "none", NEW p \in Callers, SetResolution(p)
  PROVE  SoundInv'
<1> USE DEF SetResolution
<1>1. TypeInv /\ Alone /\ InSet BY DEF SoundInv
<1>2. CASE Pause(p)
  <2>1. /\ TypeInv' /\ call'[p].pc = "off" /\ vd'.state = "PAUSED" /\ vd'.fd = vd.fd
        /\ vd'.mem = vd.mem /\ vd'.tmp = vd.tmp
        /\ \A q \in Callers \ {p} : call'[q] = call[q]
    BY <1>1, <1>2, PauseType
  <2>2. call[p].pc = "pause" /\ UNCHANGED <<files, overlap, cam, fault>>
    BY <1>2 DEF Pause, At, Continues
  <2>3. \A q \in Callers : (Works(q)' <=> Works(q)) /\ (Works(q) => call'[q] = call[q])
    BY <2>1, <2>2 DEF Works
  <2>4. Alone' BY <2>1, <2>2, <2>3 DEF SoundInv, Alone, Stage, IsOpen
  <2>5. Held' BY <2>1, <2>2, <2>3 DEF SoundInv, Held, Callers
  <2>6. InSet' BY <2>1, <2>2 DEF SoundInv, InSet, Callers
  <2>7. QED BY <2>1, <2>4, <2>5, <2>6 DEF SoundInv
<1>3. CASE StreamOff(p)
  <2>1. call[p].pc = "off" /\ Notes(p) /\ (p # Cam => cam.pc # "dead") /\ UNCHANGED opens
    BY <1>3 DEF StreamOff, At
  <2>2. cam.pc # "dead" /\ ~Works(p) BY <2>1, AtWork DEF Works
  <2>3. CASE Fails(p) /\ UNCHANGED <<vd, files>>
    <3>1. TypeInv' BY <1>1, <1>3, StreamOffType
    <3>2. CASE \A q \in Callers : ~Works(q)
      <4>1. "calls" \notin overlap =>
              DOMAIN files' \subseteq {vd'.fd} /\ (vd'.state = "ON" => Ready')
        BY <1>1, <2>2, <2>3, <3>2 DEF Alone, Ready, IsOpen
      <4>2. QED BY <2>1, <2>3, <3>1, <4>1, FailsDoes DEF TypeInv
    <3>3. CASE ~\A q \in Callers : ~Works(q)
      <4>1. "calls" \notin overlap => vd.state = "PAUSED" /\ DOMAIN files \subseteq {vd.fd}
        BY <1>1, <2>2, <3>3 DEF Alone, Stage
      <4>2. QED BY <2>1, <2>3, <3>1, <4>1, FailsDoes DEF TypeInv
    <3>4. QED BY <3>2, <3>3
  <2>4. CASE /\ call'[p].pc = "close" /\ vd'.state = "PAUSED" /\ vd'.fd = vd.fd
             /\ vd'.mem = vd.mem /\ vd'.tmp = vd.tmp /\ UNCHANGED <<cam, fault>>
    <3>1. /\ TypeInv' /\ DOMAIN files' = DOMAIN files
          /\ \A q \in Callers \ {p} : call'[q] = call[q]
      BY <1>1, <1>3, StreamOffType
    <3>2. "calls" \notin overlap => DOMAIN files' \subseteq {vd'.fd} /\ Stage(call[p].pc)'
      BY <1>1, <2>4, <3>1 DEF Alone, Stage
    <3>3. QED BY <2>1, <2>4, <3>1, <3>2, GoesOnDoes
  <2>5. QED BY <1>1, <1>3, <2>3, <2>4, StreamOffType
<1>4. CASE UnmapAndClose(p)
  <2>1. /\ call[p].pc = "close" /\ Notes(p) /\ (p # Cam => cam.pc # "dead")
        /\ UNCHANGED <<cam, fault>>
    BY <1>4 DEF UnmapAndClose, At, Continues
  <2>2. cam.pc # "dead" /\ Works(p) BY <2>1, AtWork DEF Works
  <2>3. /\ TypeInv' /\ call'[p].pc = "open" /\ vd'.state = vd.state /\ vd'.fd = vd.fd
        /\ vd'.tmp = vd.tmp /\ DOMAIN files' = DOMAIN files \ {vd.fd}
        /\ \A q \in Callers \ {p} : call'[q] = call[q]
    BY <1>1, <1>4, CloseType
  <2>4. "calls" \notin overlap => DOMAIN files' \subseteq {vd'.fd} /\ Stage(call[p].pc)'
    BY <1>1, <2>2, <2>3 DEF Alone, Stage
  <2>5. QED BY <2>1, <2>3, <2>4, GoesOnDoes
<1>5. CASE Open(p)
  <2>1. call[p].pc = "open" /\ Notes(p) /\ (p # Cam => cam.pc # "dead")
    BY <1>5 DEF Open, At
  <2>2. cam.pc # "dead" /\ Works(p) BY <2>1, AtWork DEF Works
  <2>3. "calls" \notin overlap => vd.state = "PAUSED" /\ DOMAIN files = {}
    BY <1>1, <2>1, <2>2 DEF Alone, Stage
  <2>4. /\ TypeInv' /\ vd'.state = vd.state
        /\ \A q \in Callers \ {p} : call'[q] = call[q]
    BY <1>1, <1>5, OpenType
  <2>5. CASE /\ call'[p].pc = "init" /\ DOMAIN files' = DOMAIN files \cup {vd'.fd}
             /\ UNCHANGED <<cam, fault>>
    <3>1. "calls" \notin overlap => DOMAIN files' \subseteq {vd'.fd} /\ Stage(call[p].pc)'
      BY <2>3, <2>4, <2>5 DEF Stage
    <3>2. QED BY <2>1, <2>4, <2>5, <3>1, GoesOnDoes
  <2>6. CASE Fails(p) /\ UNCHANGED <<files, opens>>
    BY <2>1, <2>3, <2>4, <2>6, FailsDoes DEF TypeInv
  <2>7. QED BY <1>1, <1>5, <2>5, <2>6, OpenType
<1>6. CASE InitDevice(p)
  <2>1. call[p].pc = "init" /\ Notes(p) /\ (p # Cam => cam.pc # "dead") /\ UNCHANGED opens
    BY <1>6 DEF InitDevice, At
  <2>2. cam.pc # "dead" /\ Works(p) BY <2>1, AtWork DEF Works
  <2>3. "calls" \notin overlap => vd.state = "PAUSED" /\ DOMAIN files \subseteq {vd.fd}
    BY <1>1, <2>1, <2>2 DEF Alone, Stage
  <2>4. /\ TypeInv' /\ DOMAIN files' = DOMAIN files /\ vd'.fd = vd.fd /\ vd'.state = vd.state
        /\ \A q \in Callers \ {p} : call'[q] = call[q]
    BY <1>1, <1>6, InitDeviceType
  <2>5. CASE /\ call'[p].pc = "alloc" /\ IsOpen(vd.fd) /\ files'[vd.fd].ready
             /\ vd'.mem = vd.fd /\ UNCHANGED <<cam, fault>>
    <3>1. "calls" \notin overlap => DOMAIN files' \subseteq {vd'.fd} /\ Stage(call[p].pc)'
      BY <2>3, <2>4, <2>5 DEF Stage, IsOpen
    <3>2. QED BY <2>1, <2>4, <2>5, <3>1, GoesOnDoes
  <2>6. CASE Fails(p) /\ UNCHANGED <<vd, files>>
    BY <2>1, <2>3, <2>4, <2>6, FailsDoes DEF TypeInv
  <2>7. QED BY <1>1, <1>6, <2>5, <2>6, InitDeviceType
<1>7. CASE Realloc(p)
  <2>1. /\ call[p].pc = "alloc" /\ Notes(p) /\ (p # Cam => cam.pc # "dead")
        /\ UNCHANGED <<files, opens>>
    BY <1>7 DEF Realloc, At
  <2>2. cam.pc # "dead" /\ Works(p) BY <2>1, AtWork DEF Works
  <2>3. "calls" \notin overlap =>
          /\ vd.state = "PAUSED" /\ DOMAIN files \subseteq {vd.fd}
          /\ IsOpen(vd.fd) /\ files[vd.fd].ready /\ vd.mem = vd.fd
    BY <1>1, <2>1, <2>2 DEF Alone, Stage
  <2>4. /\ TypeInv' /\ vd'.fd = vd.fd /\ vd'.state = vd.state /\ vd'.mem = vd.mem
        /\ \A q \in Callers \ {p} : call'[q] = call[q]
    BY <1>1, <1>7, ReallocType
  <2>5. CASE call'[p].pc = "enable" /\ vd'.tmp.live /\ UNCHANGED <<cam, fault>>
    <3>1. "calls" \notin overlap => DOMAIN files' \subseteq {vd'.fd} /\ Stage(call[p].pc)'
      BY <2>1, <2>3, <2>4, <2>5 DEF Stage, IsOpen
    <3>2. QED BY <2>1, <2>4, <2>5, <3>1, GoesOnDoes
  <2>6. CASE Fails(p)
    BY <2>1, <2>3, <2>4, <2>6, FailsDoes DEF TypeInv
  <2>7. QED BY <1>1, <1>7, <2>5, <2>6, ReallocType
<1>8. CASE Enable(p)
  <2>1. call[p].pc = "enable" /\ Notes(p) /\ (p # Cam => cam.pc # "dead") /\ UNCHANGED opens
    BY <1>8 DEF Enable, At
  <2>2. cam.pc # "dead" /\ Works(p) /\ (p = Cam => cam.pc = "set")
    BY <2>1, AtWork DEF Works
  <2>3. "calls" \notin overlap =>
          /\ vd.state = "PAUSED" /\ DOMAIN files \subseteq {vd.fd}
          /\ IsOpen(vd.fd) /\ files[vd.fd].ready /\ vd.mem = vd.fd /\ vd.tmp.live
    BY <1>1, <2>1, <2>2 DEF Alone, Stage
  <2>4. /\ TypeInv' /\ DOMAIN files' = DOMAIN files /\ vd'.fd = vd.fd /\ vd'.mem = vd.mem
        /\ vd'.tmp = vd.tmp
        /\ \A q \in Callers \ {p} : call'[q] = call[q]
    BY <1>1, <1>8, EnableType
  <2>5. CASE /\ vd'.state = "ON" /\ IsOpen(vd.fd) /\ files'[vd.fd].ready /\ files'[vd.fd].streams
             /\ call'[p].pc = IF p = Cam THEN "idle" ELSE "report"
             /\ cam'.pc = IF p = Cam THEN "loop" ELSE cam.pc
             /\ UNCHANGED fault
    <3>1. ~Works(p)' BY <2>5 DEF Works
    <3>2. "calls" \notin overlap => DOMAIN files' \subseteq {vd'.fd} /\ Ready'
      BY <2>3, <2>4, <2>5 DEF Ready, IsOpen
    <3>3. Alone' BY <1>1, <2>1, <2>4, <3>1, <3>2, NotesAlone
    <3>4. Held' BY <2>1, <2>4, <2>5, NotesHeld DEF SoundInv, Running
    <3>5. InSet' BY <2>1, <2>2, <2>4, <2>5 DEF SoundInv, InSet, Callers
    <3>6. QED BY <2>4, <3>3, <3>4, <3>5 DEF SoundInv
  <2>6. CASE Fails(p) /\ UNCHANGED <<vd, files>>
    BY <2>1, <2>3, <2>4, <2>6, FailsDoes DEF TypeInv
  <2>7. QED BY <1>1, <1>8, <2>5, <2>6, EnableType
<1>9. QED BY <1>2, <1>3, <1>4, <1>5, <1>6, <1>7, <1>8

\* So does every step of a client thread outside it.
LEMMA CommandSound ==
  ASSUME SoundInv, fault = "none", NEW c \in Commanders, CommandStep(c)
  PROVE  SoundInv'
<1>1. TypeInv' BY CommandType DEF SoundInv
<1>2. c \in Callers /\ c # Cam BY CamAssumption DEF Callers
<1>3. CASE UsesFreed(c)
  BY <1>1, <1>3 DEF UsesFreed, SoundInv, Alone, Held, InSet, Works, Stage, Ready, IsOpen
<1>4. ASSUME Command(c) \/ Report(c), UNCHANGED fault, call' # call PROVE SoundInv'
  <2>1. /\ call[c].pc \in {"idle", "report"} /\ call'[c].pc \in {"pause", "idle"}
        /\ \A q \in Callers \ {c} : call'[q] = call[q]
        /\ UNCHANGED <<vd, files, cam, overlap, fault>>
    BY <1>2, <1>4 DEF Command, Report, Calls, Idle, SoundInv, TypeInv, CallType
  <2>2. \A q \in Callers : (Works(q)' <=> Works(q)) /\ (Works(q) => call'[q] = call[q])
    BY <2>1 DEF Works
  <2>3. Alone' BY <2>1, <2>2 DEF SoundInv, Alone, Stage, Ready, IsOpen
  <2>4. Held' BY <2>1, <2>2 DEF SoundInv, Held, Callers
  <2>5. InSet' BY <1>2, <2>1 DEF SoundInv, InSet, Callers
  <2>6. QED BY <1>1, <2>3, <2>4, <2>5 DEF SoundInv
<1>5. CASE Command(c) /\ fault' = "index" /\ UNCHANGED call
  <2>1. UNCHANGED <<vd, files, cam, call, overlap>> BY <1>5 DEF Command
  <2>2. Alone' BY <2>1 DEF SoundInv, Alone, Stage, Ready, IsOpen, Works
  <2>3. Held' /\ InSet' BY <1>5, <2>1 DEF SoundInv, Held, InSet, Works
  <2>4. QED BY <1>1, <2>2, <2>3 DEF SoundInv
<1>6. CASE Report(c) /\ UNCHANGED call
  <2>1. call'[c] = Idle BY <1>2, <1>6 DEF Report, SoundInv, TypeInv, CallType
  <2>2. QED BY <1>6, <2>1 DEF Report, Idle
<1>7. Report(c) => UNCHANGED fault BY DEF Report
<1>8. Command(c) => (UNCHANGED fault /\ call' # call) \/ (fault' = "index" /\ UNCHANGED call)
  <2>1. ASSUME NEW r \in Sizes, Calls(c, r), call[c].pc = "idle" PROVE call' # call
    <3>1. call'[c].pc = "pause" BY <1>2, <2>1 DEF Calls, SoundInv, TypeInv, CallType
    <3>2. QED BY <2>1, <3>1
  <2>2. QED BY <2>1 DEF Command
<1>9. QED BY <1>3, <1>4, <1>5, <1>6, <1>7, <1>8 DEF CommandStep

\* Every step of the camera thread and of commands for the resolution keeps it.
LEMMA CaptureStep == SoundInv /\ [Next]_vars => SoundInv'
<1> SUFFICES ASSUME SoundInv, [Next]_vars PROVE SoundInv' OBVIOUS
<1>1. CASE UNCHANGED vars
  <2>1. TypeInv'
    BY <1>1 DEF vars, SoundInv, TypeInv, FilesType, CountType, CallType, Counted, Pending
  <2>2. Alone' /\ Held' /\ InSet'
    BY <1>1 DEF vars, SoundInv, Alone, Held, InSet, Stage, Ready, IsOpen, Works
  <2>3. QED BY <2>1, <2>2 DEF SoundInv
<1>2. CASE Next
  <2>1. fault = "none" BY <1>2 DEF Next
  <2>2. CASE CamStep \/ (CamGivesUp /\ UNCHANGED dv)
    <3>1. UNCHANGED <<dv, reported, failed>> BY <2>2 DEF CamStep, CamGivesUp
    <3>2. TypeInv' BY <2>2, <3>1, CamStepType, CamDiesType DEF SoundInv, CamGivesUp
    <3>3. QED BY <2>1, <2>2, <3>1, <3>2, CamInSet, CamAlone, CamHeld DEF SoundInv
  <2>3. ASSUME NEW p \in Callers, SetResolution(p) PROVE SoundInv'
    BY <2>1, <2>3, SetResolutionStep
  <2>4. ASSUME NEW c \in Commanders, CommandStep(c) PROVE SoundInv'
    BY <2>1, <2>4, CommandSound
  <2>5. QED BY <1>2, <2>2, <2>3, <2>4 DEF Next
<1>3. QED BY <1>1, <1>2

\* It holds of a camera that has just been opened.
LEMMA CaptureStart == Init => SoundInv
<1> SUFFICES ASSUME Init PROVE SoundInv OBVIOUS
<1> USE DEF Init
<1>1. MaxPics \in Nat /\ MaxChanges \in Nat BY BoundsAssumption
<1>2. PICK r \in Resolutions :
        /\ vd = [state |-> "ON", fd |-> 1, res |-> r, mem |-> 1, tmp |-> BlankTmp(r)]
        /\ global = [room |-> r, pic |-> 0] /\ reported = r
  OBVIOUS
<1>3. BlankTmp(r) \in Tmps /\ BlankTmp(r).live BY <1>1 DEF BlankTmp, Tmps, Sizes
<1>4. vd \in Vds BY <1>1, <1>2, <1>3 DEF Vds, Files, Sizes
<1>5. FilesType /\ DOMAIN files = {1} /\ files[1].ready /\ files[1].streams
  BY <1>1 DEF FilesType, Buffers
<1>6. \A p \in Callers : call[p] = Idle OBVIOUS
<1>7. CallType BY <1>6 DEF CallType, Requests, Idle, Stops, Sizes
<1>8. Counted
  <2>1. Pending = {} BY <1>6 DEF Pending, Idle
  <2>2. QED BY <2>1, FS_EmptySet DEF Counted
<1>9. CountType BY <1>1 DEF CountType
<1>10. cam \in Cams BY <1>1 DEF Cams, Places, Files
<1>11. global \in [room : Sizes, pic : 0 .. MaxPics] BY <1>1, <1>2 DEF Sizes
<1>12. dv \in BOOLEAN BY OptionsAssumption
<1>13. TypeInv BY <1>2, <1>4, <1>5, <1>7, <1>8, <1>9, <1>10, <1>11, <1>12 DEF TypeInv
<1>14. \A p \in Callers : call[p].pc = "idle" BY <1>6 DEF Idle
<1>15. Alone
  BY <1>2, <1>3, <1>5, <1>14 DEF Alone, Works, Ready, IsOpen
<1>16. Held BY <1>14 DEF Held, Works, Callers, Running
<1>17. InSet BY <1>2, <1>14 DEF InSet, Callers
<1>18. QED BY <1>13, <1>15, <1>16, <1>17 DEF SoundInv

\* It says all that DeviceSound and TypeOK do.
LEMMA CaptureGoal == SoundInv => DeviceSound /\ TypeOK
<1> SUFFICES ASSUME SoundInv PROVE DeviceSound /\ TypeOK OBVIOUS
<1>1. HeldIsSafe BY DEF SoundInv, Held, HeldIsSafe
<1>2. NoLeakedFile BY DEF SoundInv, Alone, NoLeakedFile
<1>3. OnIsReady BY DEF SoundInv, Alone, OnIsReady, Quiet, Works, Ready
<1>4. opens <= MaxChanges + 1
  BY OpensBound DEF SoundInv, TypeInv, CountType
<1>5. MaxChanges \in Nat BY BoundsAssumption
<1>6. opens \in 1 .. MaxChanges + 1 BY <1>4, <1>5 DEF SoundInv, TypeInv, CountType
<1>7. TypeOK
  BY <1>6 DEF SoundInv, TypeInv, CountType, TypeOK, FilesType, CallType, Vds, Tmps, Files, Sizes,
     Buffers, Cams, Places, Requests, Stops
<1>8. QED BY <1>1, <1>2, <1>3, <1>7 DEF DeviceSound

-----------------------------------------------------------------------------
(* Commands for the controls: the inductive invariant.                     *)

Stages == {"idle", "v4l2", "ioctl", "cache", "note", "jpeg", "answer"}

\* The list has each control once, and the controls of the camera are those with
\* the group "v4l2".
ListShape ==
  /\ listed = [i \in DOMAIN listed |-> listed[i]]
  /\ DOMAIN listed \subseteq Nat \ {0} /\ 1 \in DOMAIN listed
  /\ \A i \in DOMAIN listed :
       listed[i] = [id |-> listed[i].id, class |-> listed[i].class, min |-> listed[i].min,
                    max |-> listed[i].max, group |-> listed[i].group, value |-> listed[i].value]
  /\ \A i, j \in DOMAIN listed : listed[i].id = listed[j].id => i = j
  /\ \A i \in DOMAIN listed : listed[i].group = "v4l2" <=> listed[i].id \in DOMAIN camera
  /\ camera = [id \in DOMAIN camera |-> camera[id]]
  /\ spoilt \in BOOLEAN

WriterShape ==
  /\ writer = [w \in Writers |-> writer[w]]
  /\ \A w \in Writers :
       /\ writer[w] = [pc |-> writer[w].pc, group |-> writer[w].group, id |-> writer[w].id,
                       value |-> writer[w].value, res |-> writer[w].res, took |-> writer[w].took]
       /\ writer[w].pc \in Stages /\ writer[w].took \in BOOLEAN

\* What a thread, with its record r, has made sure of at each stage.
Sure(r) ==
  /\ r.pc = "jpeg" => r.group = "jpeg"
  /\ r.pc \in {"ioctl", "cache", "note"} => PositionOf(r.id) # 0
  /\ r.pc \in {"v4l2", "ioctl"} => ~r.took
  /\ r.pc = "ioctl" /\ EntryOf(r.id).class = "user" => InRange(EntryOf(r.id), r.value)
  /\ r.pc = "cache" => r.took
  /\ r.pc = "note" /\ ~r.took => ~InRange(EntryOf(r.id), r.value)
  /\ r.pc = "answer" /\ r.group = "v4l2" /\ r.res = 0 => PositionOf(r.id) # 0
AllSure == \A w \in Writers : Sure(writer[w])

\* What AnswerTrue says of one thread.
Honest(r) ==
  r.pc = "answer" /\ r.group = "v4l2" =>
    \/ r.res = -1 /\ ~r.took
    \/ r.res = 0 /\ r.took
    \/ r.res = 0 /\ ~InRange(EntryOf(r.id), r.value)

\* The camera has taken the value, which is not yet noted everywhere.
Noting(r) == r.took /\ r.pc \in {"cache", "note"}

\* Of two threads that note a value of the same control, one had overlapped the
\* other.
OneAtATime ==
  \A v, w \in Writers :
    v # w /\ Noting(writer[v]) /\ Noting(writer[w]) /\ writer[v].id = writer[w].id
      => writer[v].id \in torn

\* The value that a thread notes is the camera's, and is in the list once it is
\* noted there.
Agrees(r) ==
  Noting(r) =>
    /\ r.id \in DOMAIN camera
    /\ EntryOf(r.id).class = "user" /\ r.id \notin torn =>
         /\ camera[r.id] = r.value
         /\ r.pc = "note" /\ (PositionOf(r.id) = 1 => ~spoilt) => EntryOf(r.id).value = r.value
Noted == \A w \in Writers : Agrees(writer[w])

\* ListTrue, in which only threads whose value the camera took matter.
Shown(i) ==
  /\ listed[i].group = "v4l2" /\ listed[i].class = "user"
  /\ listed[i].id \in known \ torn /\ (i = 1 => ~spoilt)
  /\ \A w \in Writers : Noting(writer[w]) => writer[w].id # listed[i].id
  => listed[i].value = camera[listed[i].id]
ListHolds == \A i \in DOMAIN listed : Shown(i)

ControlsInv ==
  /\ ListShape /\ WriterShape /\ AllSure
  /\ OneAtATime /\ Noted /\ ListHolds /\ RangeKept /\ AnswerTrue

-----------------------------------------------------------------------------
(* Lemmas.                                                                 *)

\* Every entry is found by its control, and what is found is an entry of it.
LEMMA PositionIsThere ==
  ASSUME ListShape
  PROVE  /\ \A i \in DOMAIN listed : PositionOf(listed[i].id) = i
         /\ \A id : PositionOf(id) # 0 =>
              PositionOf(id) \in DOMAIN listed /\ listed[PositionOf(id)].id = id
<1>1. ASSUME NEW i \in DOMAIN listed PROVE PositionOf(listed[i].id) = i
  <2>1. {j \in DOMAIN listed : listed[j].id = listed[i].id} = {i} BY DEF ListShape
  <2>2. QED BY <2>1 DEF PositionOf
<1>2. ASSUME NEW id, PositionOf(id) # 0
      PROVE  PositionOf(id) \in DOMAIN listed /\ listed[PositionOf(id)].id = id
  <2>1. {j \in DOMAIN listed : listed[j].id = id} # {} BY <1>2 DEF PositionOf
  <2>2. PositionOf(id) \in {j \in DOMAIN listed : listed[j].id = id} BY <2>1 DEF PositionOf
  <2>3. QED BY <2>2
<1>3. QED BY <1>1, <1>2

\* Where the list stays, so does what is looked up in it.
LEMMA SameList ==
  ASSUME UNCHANGED listed
  PROVE  /\ \A id : PositionOf(id)' = PositionOf(id) /\ EntryOf(id)' = EntryOf(id)
         /\ \A e, v : InRange(e, v)' <=> InRange(e, v)
BY DEF PositionOf, EntryOf, InRange

\* A function with a new value for one argument.
LEMMA OneValue ==
  ASSUME NEW f, f = [x \in DOMAIN f |-> f[x]], NEW a \in DOMAIN f, NEW b
  PROVE  [f EXCEPT ![a] = b] = [x \in DOMAIN f |-> IF x = a THEN b ELSE f[x]]
OBVIOUS

\* A new value in one entry moves no control and changes nothing else of any.
LEMMA NewValue ==
  ASSUME ListShape, NEW p \in DOMAIN listed, NEW v,
         listed' = [listed EXCEPT ![p].value = v], camera' = camera, spoilt' \in BOOLEAN
  PROVE  /\ ListShape' /\ DOMAIN listed' = DOMAIN listed
         /\ \A i \in DOMAIN listed :
              /\ listed'[i].id = listed[i].id /\ listed'[i].class = listed[i].class
              /\ listed'[i].min = listed[i].min /\ listed'[i].max = listed[i].max
              /\ listed'[i].group = listed[i].group
              /\ i # p => listed'[i].value = listed[i].value
         /\ listed'[p].value = v
         /\ \A id : PositionOf(id)' = PositionOf(id)
<1> DEFINE e == [id |-> listed[p].id, class |-> listed[p].class, min |-> listed[p].min,
                 max |-> listed[p].max, group |-> listed[p].group, value |-> v]
<1>1. listed' = [i \in DOMAIN listed |-> IF i = p THEN e ELSE listed[i]]
  <2>1. [listed[p] EXCEPT !.value = v] = e BY DEF ListShape
  <2>2. listed' = [listed EXCEPT ![p] = e] BY <2>1
  <2>3. listed = [i \in DOMAIN listed |-> listed[i]] BY DEF ListShape
  <2> HIDE DEF e
  <2>4. [listed EXCEPT ![p] = e] = [i \in DOMAIN listed |-> IF i = p THEN e ELSE listed[i]]
    BY <2>3
  <2>5. QED BY <2>2, <2>4
<1>2. DOMAIN listed' = DOMAIN listed BY <1>1
<1>3. \A i \in DOMAIN listed :
        /\ listed'[i].id = listed[i].id /\ listed'[i].class = listed[i].class
        /\ listed'[i].min = listed[i].min /\ listed'[i].max = listed[i].max
        /\ listed'[i].group = listed[i].group
        /\ i # p => listed'[i].value = listed[i].value
  BY <1>1
<1>4. listed'[p].value = v BY <1>1
<1>5. ListShape'
  <2>1. listed' = [i \in DOMAIN listed' |-> listed'[i]] BY <1>1, <1>2
  <2>2. DOMAIN listed' \subseteq Nat \ {0} /\ 1 \in DOMAIN listed' BY <1>2 DEF ListShape
  <2>3. \A i \in DOMAIN listed' :
          listed'[i] = [id |-> listed'[i].id, class |-> listed'[i].class, min |-> listed'[i].min,
                        max |-> listed'[i].max, group |-> listed'[i].group, value |-> listed'[i].value]
    <3>1. TAKE i \in DOMAIN listed'
    <3>2. CASE i = p BY <3>2, <1>1
    <3>3. CASE i # p BY <3>3, <1>1 DEF ListShape
    <3>4. QED BY <3>2, <3>3
  <2>4. \A i, j \in DOMAIN listed' : listed'[i].id = listed'[j].id => i = j
    BY <1>2, <1>3 DEF ListShape
  <2>5. \A i \in DOMAIN listed' : listed'[i].group = "v4l2" <=> listed'[i].id \in DOMAIN camera'
    BY <1>2, <1>3 DEF ListShape
  <2>6. QED BY <2>1, <2>2, <2>3, <2>4, <2>5 DEF ListShape
<1>6. ASSUME NEW id PROVE PositionOf(id)' = PositionOf(id)
  <2>1. {j \in DOMAIN listed' : listed'[j].id = id} = {j \in DOMAIN listed : listed[j].id = id}
    BY <1>2, <1>3
  <2> DEFINE S == {j \in DOMAIN listed : listed[j].id = id}
             T == {j \in DOMAIN listed' : listed'[j].id = id}
  <2>2. PositionOf(id) = IF S = {} THEN 0 ELSE CHOOSE i \in S : TRUE BY DEF PositionOf
  <2>3. PositionOf(id)' = IF T = {} THEN 0 ELSE CHOOSE i \in T : TRUE BY DEF PositionOf
  <2>4. S = T BY <2>1
  <2> HIDE DEF S, T
  <2>5. QED BY <2>2, <2>3, <2>4
<1>7. QED BY <1>2, <1>3, <1>4, <1>5, <1>6

\* A thread that moves leaves the records of the others alone.
LEMMA WriterMoves ==
  ASSUME WriterShape, NEW w \in Writers, NEW r, writer' = [writer EXCEPT ![w] = r],
         r = [pc |-> r.pc, group |-> r.group, id |-> r.id, value |-> r.value, res |-> r.res, took |-> r.took],
         r.pc \in Stages, r.took \in BOOLEAN
  PROVE  /\ WriterShape' /\ writer'[w] = r
         /\ \A v \in Writers \ {w} : writer'[v] = writer[v]
<1>1. writer = [v \in Writers |-> writer[v]] BY DEF WriterShape
<1>2. writer' = [v \in Writers |-> IF v = w THEN r ELSE writer[v]] BY <1>1
<1>3. writer' = [v \in Writers |-> writer'[v]] BY <1>2
<1>4. ASSUME NEW v \in Writers
      PROVE  /\ writer'[v] = [pc |-> writer'[v].pc, group |-> writer'[v].group, id |-> writer'[v].id,
                              value |-> writer'[v].value, res |-> writer'[v].res, took |-> writer'[v].took]
             /\ writer'[v].pc \in Stages /\ writer'[v].took \in BOOLEAN
  <2>1. CASE v = w BY <2>1, <1>2
  <2>2. CASE v # w
    <3>1. writer'[v] = writer[v] BY <2>2, <1>2
    <3>2. QED BY <3>1 DEF WriterShape
  <2>3. QED BY <2>1, <2>2
<1>5. QED BY <1>2, <1>3, <1>4 DEF WriterShape

-----------------------------------------------------------------------------
(* The initial states.                                                     *)

\* Nobody writes yet, and what could be read is what the camera has.
LEMMA ControlsStart == ControlsInit => ControlsInv
<1> SUFFICES ASSUME ControlsInit PROVE ControlsInv
  OBVIOUS
<1>1. PICK s \in Starts, class \in {"user", "extended"} :
        /\ camera = [id \in {control.id : control \in ToSet(s.controls)} |->
                       (CHOOSE control \in ToSet(s.controls) : control.id = id).initial]
        /\ listed = EnumerateControls(s.controls, s.readable, class)
        /\ known = s.readable
        /\ writer = [w \in Writers |-> AtRest]
        /\ torn = {} /\ spoilt = FALSE
  BY DEF ControlsInit
<1> DEFINE cs == s.controls
           n == Len(cs)
<1>2. cs \in Seq(Controls) /\ DOMAIN cs = 1 .. n /\ n \in Nat BY StartsAssumption
<1>3. \A i \in 1 .. n :
        /\ cs[i] \in Controls
        /\ cs[i].initial >= cs[i].min /\ cs[i].initial <= cs[i].max
        /\ \A j \in 1 .. n : cs[i].id = cs[j].id => i = j
  BY <1>2, StartsAssumption
<1>4. ToSet(cs) = {cs[i] : i \in 1 .. n} BY <1>2 DEF ToSet
<1>5. DOMAIN listed = 1 .. n + 1 BY <1>1, <1>2 DEF EnumerateControls
<1>6. ASSUME NEW i \in 1 .. n
      PROVE  /\ listed[i] = ControlReaded(cs[i], known)
             /\ camera[cs[i].id] = cs[i].initial /\ cs[i].id \in DOMAIN camera
             /\ listed[i].id = cs[i].id /\ listed[i].class = cs[i].class /\ listed[i].group = "v4l2"
             /\ listed[i].min = cs[i].min /\ listed[i].max = cs[i].max
             /\ cs[i].id \in known => listed[i].value = cs[i].initial
  <2>1. listed[i] = ControlReaded(cs[i], known) BY <1>1, <1>2 DEF EnumerateControls
  <2>2. (CHOOSE control \in ToSet(cs) : control.id = cs[i].id) = cs[i]
    BY <1>3, <1>4
  <2>3. camera[cs[i].id] = cs[i].initial /\ cs[i].id \in DOMAIN camera BY <2>2, <1>1, <1>4
  <2>4. QED BY <2>1, <2>3 DEF ControlReaded
<1>7. listed[n + 1] = [id |-> "jpeg", class |-> class, min |-> 0, max |-> 100, group |-> "jpeg", value |-> 0]
  BY <1>1, <1>2 DEF EnumerateControls
<1>8. "jpeg" \notin DOMAIN camera BY <1>1, <1>3, <1>4 DEF Controls
<1>9. ListShape
  <2>1. listed = [i \in DOMAIN listed |-> listed[i]]
    BY <1>1 DEF EnumerateControls
  <2>2. DOMAIN listed \subseteq Nat \ {0} /\ 1 \in DOMAIN listed BY <1>5, <1>2
  <2>3. \A i \in DOMAIN listed :
          listed[i] = [id |-> listed[i].id, class |-> listed[i].class, min |-> listed[i].min,
                       max |-> listed[i].max, group |-> listed[i].group, value |-> listed[i].value]
    <3>1. TAKE i \in DOMAIN listed
    <3>2. CASE i = n + 1 BY <3>2, <1>7
    <3>3. CASE i \in 1 .. n
      <4>1. listed[i] = ControlReaded(cs[i], known) BY <3>3, <1>6
      <4>2. PICK a, b, c, d, v :
              listed[i] = [id |-> a, class |-> b, min |-> c, max |-> d, group |-> "v4l2", value |-> v]
        BY <4>1 DEF ControlReaded
      <4>3. QED BY <4>2
    <3>4. QED BY <3>2, <3>3, <1>2, <1>5
  <2>4. \A i \in 1 .. n : listed[i].id # "jpeg" BY <1>6, <1>8
  <2>5. \A i, j \in DOMAIN listed : listed[i].id = listed[j].id => i = j
    <3>1. SUFFICES ASSUME NEW i \in 1 .. n + 1, NEW j \in 1 .. n + 1, listed[i].id = listed[j].id
                   PROVE  i = j
      BY <1>5
    <3>2. listed[n + 1].id = "jpeg" BY <1>7
    <3>3. CASE i \in 1 .. n /\ j \in 1 .. n BY <3>1, <3>3, <1>3, <1>6
    <3>4. CASE i = n + 1 /\ j = n + 1 BY <3>4
    <3>5. CASE i # j /\ (i = n + 1 \/ j = n + 1) BY <3>1, <3>2, <3>5, <2>4, <1>2
    <3>6. QED BY <3>3, <3>4, <3>5, <1>2
  <2>6. \A i \in DOMAIN listed : listed[i].group = "v4l2" <=> listed[i].id \in DOMAIN camera
    BY <1>2, <1>5, <1>6, <1>7, <1>8
  <2>7. camera = [id \in DOMAIN camera |-> camera[id]] BY <1>1
  <2>8. QED BY <2>1, <2>2, <2>3, <2>5, <2>6, <2>7, <1>1 DEF ListShape
<1>10. WriterShape /\ \A w \in Writers : writer[w] = AtRest
  BY <1>1 DEF WriterShape, AtRest, Record, Stages
<1>11. /\ AllSure
       /\ OneAtATime /\ Noted /\ AnswerTrue
  <2>0. AtRest.pc = "idle" /\ AtRest.took = FALSE BY DEF AtRest, Record
  <2>1. \A w \in Writers : writer[w].pc = "idle" /\ ~writer[w].took BY <1>10, <2>0
  <2>2. QED BY <2>1 DEF AllSure, Sure, OneAtATime, Noted, Agrees, Noting, AnswerTrue, Writers
<1>12. ASSUME NEW i \in DOMAIN listed, listed[i].group = "v4l2"
       PROVE  i \in 1 .. n
  BY <1>12, <1>2, <1>5, <1>7
<1>13. ListHolds
  <2>1. ASSUME NEW i \in DOMAIN listed, listed[i].group = "v4l2", listed[i].id \in known
        PROVE  listed[i].value = camera[listed[i].id]
    BY <2>1, <1>6, <1>12
  <2>2. QED BY <2>1 DEF ListHolds, Shown
<1>14. RangeKept
  <2>1. ASSUME NEW i \in DOMAIN listed, listed[i].group = "v4l2"
        PROVE  InRange(listed[i], camera[listed[i].id])
    BY <2>1, <1>3, <1>6, <1>12 DEF InRange
  <2>2. QED BY <2>1 DEF RangeKept
<1>15. QED BY <1>9, <1>10, <1>11, <1>13, <1>14 DEF ControlsInv

-----------------------------------------------------------------------------
(* The steps.                                                              *)

\* A thread that goes on keeps what it was asked for.
LEMMA GoesOn ==
  ASSUME WriterShape, NEW w \in Writers, NEW pc, WriterGoes(w, pc)
  PROVE  writer' = [writer EXCEPT ![w] =
                      Record(pc, writer[w].group, writer[w].id, writer[w].value, writer[w].res, writer[w].took)]
<1>1. [writer[w] EXCEPT !.pc = pc] =
        Record(pc, writer[w].group, writer[w].id, writer[w].value, writer[w].res, writer[w].took)
  BY DEF WriterShape, Record
<1>2. writer' = [writer EXCEPT ![w] = [writer[w] EXCEPT !.pc = pc]] BY DEF WriterGoes
<1>3. QED BY <1>1, <1>2

\* The result goes into the record, or the camera thread rests again.
LEMMA Returned ==
  ASSUME WriterShape, NEW w \in Writers, NEW res, Returns(w, res)
  PROVE  writer' = [writer EXCEPT ![w] =
                      IF w = Starter THEN Record("idle", "v4l2", "", 0, 0, FALSE)
                      ELSE Record("answer", writer[w].group, writer[w].id, writer[w].value, res, writer[w].took)]
BY DEF Returns, AtRest

\* A step of a thread that notes nothing, before and after, disturbs nobody.
LEMMA QuietStep ==
  ASSUME ControlsInv, NEW w \in Writers, NEW r, writer' = [writer EXCEPT ![w] = r],
         r = Record(r.pc, r.group, r.id, r.value, r.res, r.took),
         r.pc \in Stages, r.took \in BOOLEAN,
         ~Noting(writer[w]), ~Noting(r), Sure(r), w \in Asking => Honest(r),
         UNCHANGED <<camera, listed, torn, known, spoilt>>
  PROVE  ControlsInv'
<1>1. /\ WriterShape' /\ writer'[w] = r
      /\ \A v \in Writers \ {w} : writer'[v] = writer[v]
  BY WriterMoves DEF ControlsInv, Record
<1>2. ListShape' BY DEF ControlsInv, ListShape
<1>3. /\ \A id : PositionOf(id)' = PositionOf(id) /\ EntryOf(id)' = EntryOf(id)
      /\ \A e, v : InRange(e, v)' <=> InRange(e, v)
  BY SameList
<1>4. AllSure'
  <2>1. SUFFICES ASSUME NEW v \in Writers PROVE Sure(writer[v])'
    BY DEF AllSure
  <2>2. Sure(writer'[v])
    <3>1. CASE v = w BY <3>1, <1>1
    <3>2. CASE v # w BY <3>2, <1>1 DEF ControlsInv, AllSure
    <3>3. QED BY <3>1, <3>2
  <2>3. QED BY <2>2, <1>3 DEF Sure
<1>5. AnswerTrue'
  <2>1. SUFFICES ASSUME NEW v \in Asking PROVE Honest(writer[v])'
    BY DEF AnswerTrue, Honest
  <2>2. Honest(writer'[v])
    <3>1. CASE v = w BY <3>1, <1>1
    <3>2. CASE v # w BY <3>2, <1>1 DEF ControlsInv, AnswerTrue, Honest, Writers
    <3>3. QED BY <3>1, <3>2
  <2>3. QED BY <2>2, <1>3 DEF Honest
<1>6. \A v \in Writers : Noting(writer'[v]) => v # w /\ writer'[v] = writer[v] BY <1>1
<1>7. OneAtATime'
  <2>1. OneAtATime BY DEF ControlsInv
  <2>2. QED BY <2>1, <1>6 DEF OneAtATime, Noting
<1>8. Noted'
  <2>1. SUFFICES ASSUME NEW v \in Writers, Noting(writer'[v]) PROVE Agrees(writer[v])'
    BY DEF Noted, Agrees, Noting
  <2>2. Agrees(writer'[v]) BY <2>1, <1>6 DEF ControlsInv, Noted
  <2>3. QED BY <2>2, <1>3 DEF Agrees, Noting
<1>9. ListHolds'
  <2>1. \A id : (\A v \in Writers : Noting(writer'[v]) => writer'[v].id # id)
                  => \A v \in Writers : Noting(writer[v]) => writer[v].id # id
    BY <1>1
  <2>2. ListHolds BY DEF ControlsInv
  <2>3. QED BY <2>1, <2>2 DEF ListHolds, Shown, Noting
<1>10. RangeKept' BY <1>3 DEF ControlsInv, RangeKept, InRange
<1>11. QED BY <1>1, <1>2, <1>4, <1>5, <1>7, <1>8, <1>9, <1>10 DEF ControlsInv

\* A thread whose value the camera did not take returns -1.
LEMMA GivenUp ==
  ASSUME ControlsInv, NEW w \in Writers, Returns(w, -1), writer[w].took = FALSE,
         UNCHANGED <<camera, listed, torn, known, spoilt>>
  PROVE  ControlsInv'
<1>0. WriterShape BY DEF ControlsInv
<1>1. CASE w = Starter
  <2> DEFINE r == Record("idle", "v4l2", "", 0, 0, FALSE)
  <2>1. writer' = [writer EXCEPT ![w] = r] BY <1>0, <1>1, Returned
  <2>2. r.pc = "idle" /\ r.took = FALSE /\ r = Record(r.pc, r.group, r.id, r.value, r.res, r.took)
    BY DEF Record
  <2> HIDE DEF r
  <2>3. QED BY <2>1, <2>2, QuietStep DEF Sure, Honest, Noting, Stages
<1>2. CASE w # Starter
  <2> DEFINE r == Record("answer", writer[w].group, writer[w].id, writer[w].value, -1, writer[w].took)
  <2>1. writer' = [writer EXCEPT ![w] = r] BY <1>0, <1>2, Returned
  <2>2. /\ r.pc = "answer" /\ r.res = -1 /\ r.took = FALSE
        /\ r = Record(r.pc, r.group, r.id, r.value, r.res, r.took)
    BY DEF Record
  <2> HIDE DEF r
  <2>3. Sure(r) BY <2>2 DEF Sure
  <2>4. Honest(r) BY <2>2 DEF Honest
  <2>5. ~Noting(r) /\ ~Noting(writer[w]) BY <2>2 DEF Noting
  <2>6. QED BY <2>1, <2>2, <2>3, <2>4, <2>5, QuietStep DEF Stages
<1>3. QED BY <1>1, <1>2

\* Steps that begin or end a command, or only look at the list.
LEMMA QuietSteps ==
  ASSUME ControlsInv, NEW w \in Writers,
         \/ w = Starter /\ SetOption
         \/ w \in Asking /\ (Give(w) \/ JpegQuality(w) \/ Written(w))
         \/ FindControl(w)
  PROVE  ControlsInv'
<1> USE StarterAssumption
<1>0. WriterShape BY DEF ControlsInv
<1>1. CASE w = Starter /\ SetOption
  <2> DEFINE r == Record("v4l2", "v4l2", Head(orders)[1], Head(orders)[2], 0, FALSE)
  <2>1. writer' = [writer EXCEPT ![w] = r] BY <1>1 DEF SetOption
  <2>2. writer[w].pc = "idle" /\ UNCHANGED <<camera, listed, torn, known, spoilt>> BY <1>1 DEF SetOption
  <2>3. r.pc = "v4l2" /\ r.took = FALSE /\ r = Record(r.pc, r.group, r.id, r.value, r.res, r.took)
    BY DEF Record
  <2> HIDE DEF r
  <2>4. QED BY <1>1, <2>1, <2>2, <2>3, QuietStep DEF Sure, Noting, Stages
<1>2. CASE w \in Asking /\ Give(w)
  <2>0. PICK group \in {"v4l2", "jpeg", "generic", "elsewhere"}, value \in Values :
          \E id \in IF group = "v4l2" THEN DOMAIN camera \cup {"jpeg", "unknown"} ELSE {"jpeg"} :
            writer' = [writer EXCEPT ![w] =
              Record(IF group \in {"generic", "elsewhere"} THEN "answer" ELSE group, group, id, value,
                     IF group = "generic" THEN -1 ELSE 0, FALSE)]
    BY <1>2 DEF Give
  <2>1. PICK id :
          writer' = [writer EXCEPT ![w] =
            Record(IF group \in {"generic", "elsewhere"} THEN "answer" ELSE group, group, id, value,
                   IF group = "generic" THEN -1 ELSE 0, FALSE)]
    BY <2>0
  <2> DEFINE r == Record(IF group \in {"generic", "elsewhere"} THEN "answer" ELSE group, group, id, value,
                         IF group = "generic" THEN -1 ELSE 0, FALSE)
  <2>2. writer[w].pc = "idle" /\ UNCHANGED <<camera, listed, torn, known, spoilt>> BY <1>2 DEF Give
  <2>3. /\ r.pc = IF group \in {"generic", "elsewhere"} THEN "answer" ELSE group
        /\ r.group = group /\ r.took = FALSE
        /\ r = Record(r.pc, r.group, r.id, r.value, r.res, r.took)
    BY DEF Record
  <2>4. writer' = [writer EXCEPT ![w] = r] BY <2>1
  <2> HIDE DEF r
  <2>5. r.pc \in {"v4l2", "jpeg", "answer"} /\ (r.pc = "answer" => r.group # "v4l2") BY <2>3
  <2>6. QED BY <2>2, <2>3, <2>4, <2>5, QuietStep DEF Sure, Honest, Noting, Stages
<1>3. CASE w \in Asking /\ JpegQuality(w)
  <2>1. PICK res : Returns(w, res) BY <1>3 DEF JpegQuality
  <2>2. writer[w].pc = "jpeg" /\ UNCHANGED <<camera, listed, torn, known, spoilt>> BY <1>3 DEF JpegQuality
  <2> DEFINE r == Record("answer", writer[w].group, writer[w].id, writer[w].value, res, writer[w].took)
  <2>3. writer' = [writer EXCEPT ![w] = r] BY <1>0, <1>3, <2>1, Returned
  <2>4. /\ r.pc = "answer" /\ r.group = writer[w].group /\ r.took = writer[w].took
        /\ r = Record(r.pc, r.group, r.id, r.value, r.res, r.took)
    BY DEF Record
  <2> HIDE DEF r
  <2>5. writer[w].took \in BOOLEAN BY <1>0 DEF WriterShape
  <2>6. writer[w].group = "jpeg" BY <2>2 DEF ControlsInv, AllSure, Sure
  <2>7. QED BY <2>2, <2>3, <2>4, <2>5, <2>6, QuietStep DEF Sure, Honest, Noting, Stages
<1>4. CASE w \in Asking /\ Written(w)
  <2> DEFINE r == Record("idle", "v4l2", "", 0, 0, FALSE)
  <2>1. writer' = [writer EXCEPT ![w] = r] BY <1>4 DEF Written, AtRest
  <2>2. writer[w].pc = "answer" /\ UNCHANGED <<camera, listed, torn, known, spoilt>> BY <1>4 DEF Written
  <2>3. r.pc = "idle" /\ r.took = FALSE /\ r = Record(r.pc, r.group, r.id, r.value, r.res, r.took)
    BY DEF Record
  <2> HIDE DEF r
  <2>4. QED BY <2>1, <2>2, <2>3, QuietStep DEF Sure, Honest, Noting, Stages
<1>5. CASE FindControl(w)
  <2>1. writer[w].pc = "v4l2" /\ UNCHANGED <<camera, listed, torn, known, spoilt>> BY <1>5 DEF FindControl
  <2>2. writer[w].took = FALSE
    BY <2>1, <1>0 DEF ControlsInv, AllSure, Sure, WriterShape
  <2>3. CASE Returns(w, -1)
    BY <2>1, <2>2, <2>3, GivenUp
  <2>4. CASE /\ PositionOf(writer[w].id) # 0 /\ ~InRange(EntryOf(writer[w].id), writer[w].value)
             /\ WriterGoes(w, "note")
    <3> DEFINE r == Record("note", writer[w].group, writer[w].id, writer[w].value, writer[w].res, writer[w].took)
    <3>1. writer' = [writer EXCEPT ![w] = r] BY <1>0, <2>4, GoesOn
    <3>2. /\ r.pc = "note" /\ r.id = writer[w].id /\ r.value = writer[w].value /\ r.took = FALSE
          /\ r = Record(r.pc, r.group, r.id, r.value, r.res, r.took)
      BY <2>2 DEF Record
    <3> HIDE DEF r
    <3>3. QED BY <2>1, <2>4, <3>1, <3>2, QuietStep DEF Sure, Honest, Noting, Stages
  <2>5. CASE /\ PositionOf(writer[w].id) # 0
             /\ EntryOf(writer[w].id).class = "user" => InRange(EntryOf(writer[w].id), writer[w].value)
             /\ WriterGoes(w, "ioctl")
    <3> DEFINE r == Record("ioctl", writer[w].group, writer[w].id, writer[w].value, writer[w].res, writer[w].took)
    <3>1. writer' = [writer EXCEPT ![w] = r] BY <1>0, <2>5, GoesOn
    <3>2. /\ r.pc = "ioctl" /\ r.id = writer[w].id /\ r.value = writer[w].value /\ r.took = FALSE
          /\ r = Record(r.pc, r.group, r.id, r.value, r.res, r.took)
      BY <2>2 DEF Record
    <3> HIDE DEF r
    <3>3. QED BY <2>1, <2>5, <3>1, <3>2, QuietStep DEF Sure, Honest, Noting, Stages
  <2>6. QED BY <1>5, <2>3, <2>4, <2>5 DEF FindControl
<1>6. QED BY <1>1, <1>2, <1>3, <1>4, <1>5

\* An entry that does not change is shown rightly if the camera's value is in it.
LEMMA StillShown ==
  ASSUME NEW i, UNCHANGED <<listed, known, spoilt>>,
         listed[i].group = "v4l2" /\ listed[i].class = "user"
           /\ listed[i].id \in known \ torn' /\ (i = 1 => ~spoilt)
           /\ (\A v \in Writers : Noting(writer'[v]) => writer'[v].id # listed[i].id)
           => listed[i].value = camera'[listed[i].id]
  PROVE  Shown(i)'
BY DEF Shown, Noting

\* The camera takes the value.
LEMMA IoctlTakes ==
  ASSUME ControlsInv, NEW w \in Writers, writer[w].pc = "ioctl", Settable(writer[w].id),
         camera' = [camera EXCEPT ![writer[w].id] = Taken(EntryOf(writer[w].id), writer[w].value)],
         writer' = [writer EXCEPT ![w] =
           Record(IF EntryOf(writer[w].id).class = "user" THEN "cache" ELSE "note",
                  writer[w].group, writer[w].id, writer[w].value, writer[w].res, TRUE)],
         torn' = IF Overlaps(w, writer[w].id) THEN torn \cup {writer[w].id} ELSE torn,
         UNCHANGED <<listed, known, spoilt>>
  PROVE  ControlsInv'
<1> DEFINE id == writer[w].id
           r == Record(IF EntryOf(id).class = "user" THEN "cache" ELSE "note",
                       writer[w].group, id, writer[w].value, writer[w].res, TRUE)
<1>1. /\ r.pc = IF EntryOf(id).class = "user" THEN "cache" ELSE "note"
      /\ r.id = id /\ r.value = writer[w].value /\ r.took = TRUE
      /\ r = Record(r.pc, r.group, r.id, r.value, r.res, r.took)
  BY DEF Record
<1>2. writer' = [writer EXCEPT ![w] = r] OBVIOUS
<1> HIDE DEF r
<1>2a. /\ Noting(r) /\ r.pc # "answer"
       /\ EntryOf(id).class = "user" => r.pc = "cache"
  BY <1>1 DEF Noting
<1>3. /\ WriterShape' /\ writer'[w] = r
      /\ \A v \in Writers \ {w} : writer'[v] = writer[v]
  BY <1>1, <1>2, WriterMoves DEF ControlsInv, Record, Stages
<1>4. /\ \A x : PositionOf(x)' = PositionOf(x) /\ EntryOf(x)' = EntryOf(x)
      /\ \A e, v : InRange(e, v)' <=> InRange(e, v)
  BY SameList
<1>5. /\ PositionOf(id) # 0
      /\ PositionOf(id) \in DOMAIN listed /\ listed[PositionOf(id)].id = id
      /\ EntryOf(id) = listed[PositionOf(id)]
      /\ EntryOf(id).class = "user" => InRange(EntryOf(id), writer[w].value)
  <2>1. Sure(writer[w]) /\ ListShape BY DEF ControlsInv, AllSure
  <2>2. /\ PositionOf(id) # 0
        /\ EntryOf(id).class = "user" => InRange(EntryOf(id), writer[w].value)
    BY <2>1 DEF Sure
  <2>3. PositionOf(id) \in DOMAIN listed /\ listed[PositionOf(id)].id = id
    BY <2>1, <2>2, PositionIsThere
  <2>4. EntryOf(id) = listed[PositionOf(id)] BY DEF EntryOf
  <2>5. QED BY <2>2, <2>3, <2>4
<1>6. /\ id \in DOMAIN camera
      /\ camera' = [x \in DOMAIN camera |-> IF x = id THEN Taken(EntryOf(id), writer[w].value) ELSE camera[x]]
  <2>1. id \in DOMAIN camera BY DEF Settable
  <2>2. camera = [x \in DOMAIN camera |-> camera[x]] BY DEF ControlsInv, ListShape
  <2> DEFINE t == Taken(EntryOf(id), writer[w].value)
  <2>3. camera' = [camera EXCEPT ![id] = t] OBVIOUS
  <2> HIDE DEF t
  <2>4. [camera EXCEPT ![id] = t] = [x \in DOMAIN camera |-> IF x = id THEN t ELSE camera[x]]
    BY <2>1, <2>2, OneValue
  <2>5. camera' = [x \in DOMAIN camera |-> IF x = id THEN t ELSE camera[x]] BY <2>3, <2>4
  <2>6. QED BY <2>1, <2>5 DEF t
<1>7. EntryOf(id).class = "user" => camera'[id] = writer[w].value BY <1>6 DEF Taken
<1>8. ListShape'
  <2>1. DOMAIN camera' = DOMAIN camera BY <1>6
  <2>2. camera' = [x \in DOMAIN camera' |-> camera'[x]] BY <1>6
  <2>3. ListShape /\ listed' = listed /\ spoilt' = spoilt BY DEF ControlsInv
  <2>4. QED BY <2>1, <2>2, <2>3 DEF ListShape
<1>9. AllSure'
  <2>1. SUFFICES ASSUME NEW v \in Writers PROVE Sure(writer[v])'
    BY DEF AllSure
  <2>2. Sure(writer'[v])
    <3>1. CASE v = w
      <4>1. Sure(r) BY <1>1, <1>5 DEF Sure
      <4>2. QED BY <3>1, <4>1, <1>3
    <3>2. CASE v # w BY <3>2, <1>3 DEF ControlsInv, AllSure
    <3>3. QED BY <3>1, <3>2
  <2>3. QED BY <2>2, <1>4 DEF Sure
<1>10. AnswerTrue'
  <2>1. SUFFICES ASSUME NEW v \in Asking PROVE Honest(writer[v])'
    BY DEF AnswerTrue, Honest
  <2>2. Honest(writer'[v])
    <3>1. CASE v = w
      <4>1. Honest(r) BY <1>2a DEF Honest
      <4>2. QED BY <3>1, <4>1, <1>3
    <3>2. CASE v # w BY <3>2, <1>3 DEF ControlsInv, AnswerTrue, Honest, Writers
    <3>3. QED BY <3>1, <3>2
  <2>3. QED BY <2>2, <1>4 DEF Honest
<1>11. torn \subseteq torn' OBVIOUS
<1>12. ASSUME NEW v \in Writers \ {w}, Noting(writer'[v]), writer'[v].id = id
       PROVE  id \in torn'
  BY <1>12, <1>3 DEF Overlaps, Noting
<1>13. OneAtATime'
  <2>1. SUFFICES ASSUME NEW u \in Writers, NEW v \in Writers, u # v, Noting(writer'[u]), Noting(writer'[v]),
                        writer'[u].id = writer'[v].id
                 PROVE  writer'[u].id \in torn'
    BY DEF OneAtATime, Noting
  <2>2. CASE u = w \/ v = w BY <2>1, <2>2, <1>1, <1>3, <1>12
  <2>3. CASE u # w /\ v # w BY <2>1, <2>3, <1>3, <1>11 DEF ControlsInv, OneAtATime
  <2>4. QED BY <2>2, <2>3
<1>14. Noted'
  <2>1. SUFFICES ASSUME NEW v \in Writers, Noting(writer'[v])
                 PROVE  /\ writer'[v].id \in DOMAIN camera'
                        /\ EntryOf(writer'[v].id).class = "user" /\ writer'[v].id \notin torn' =>
                             /\ camera'[writer'[v].id] = writer'[v].value
                             /\ writer'[v].pc = "note" /\ (PositionOf(writer'[v].id) = 1 => ~spoilt)
                                  => EntryOf(writer'[v].id).value = writer'[v].value
    BY <1>4 DEF Noted, Agrees, Noting
  <2>2. CASE v = w
    <3>1. writer'[v] = r BY <2>2, <1>3
    <3>2. r.id \in DOMAIN camera' BY <1>1, <1>6
    <3>3. EntryOf(r.id).class = "user" => camera'[r.id] = r.value /\ r.pc # "note"
      BY <1>1, <1>7, <1>2a
    <3>4. QED BY <3>1, <3>2, <3>3
  <2>3. CASE v # w
    <3>1. writer'[v] = writer[v] /\ Agrees(writer[v])
      BY <2>3, <1>3 DEF ControlsInv, Noted
    <3>2. writer[v].id \in DOMAIN camera BY <2>1, <3>1 DEF Agrees
    <3>3. writer[v].id \in torn' \/ camera'[writer[v].id] = camera[writer[v].id]
      BY <2>1, <2>3, <3>1, <3>2, <1>6, <1>12
    <3>4. DOMAIN camera' = DOMAIN camera BY <1>6
    <3>5. QED BY <2>1, <3>1, <3>2, <3>3, <3>4, <1>11 DEF Agrees
  <2>4. QED BY <2>2, <2>3
<1>15. ListHolds'
  <2>0. SUFFICES ASSUME NEW i \in DOMAIN listed PROVE Shown(i)'
    BY DEF ListHolds
  <2>1. SUFFICES ASSUME listed[i].group = "v4l2", listed[i].class = "user",
                        listed[i].id \in known \ torn', i = 1 => ~spoilt,
                        \A v \in Writers : Noting(writer'[v]) => writer'[v].id # listed[i].id
                 PROVE  listed[i].value = camera'[listed[i].id]
    BY StillShown
  <2>2. listed[i].id # id BY <2>1, <1>1, <1>3, <1>2a
  <2>3. \A v \in Writers : Noting(writer[v]) => writer[v].id # listed[i].id
    BY <2>1, <2>2, <1>3
  <2>4. listed[i].value = camera[listed[i].id]
    BY <2>1, <2>3, <1>11 DEF ControlsInv, ListHolds, Shown
  <2>5. camera'[listed[i].id] = camera[listed[i].id]
    BY <2>1, <2>2, <1>6 DEF ControlsInv, ListShape
  <2>6. QED BY <2>4, <2>5
<1>16. RangeKept'
  <2>1. SUFFICES ASSUME NEW i \in DOMAIN listed, listed[i].group = "v4l2", listed[i].class = "user"
                 PROVE  InRange(listed[i], camera'[listed[i].id])
    BY DEF RangeKept, InRange
  <2>2. CASE listed[i].id = id
    <3>1. i = PositionOf(id) BY <2>1, <2>2, PositionIsThere DEF ControlsInv
    <3>2. QED BY <3>1, <2>1, <2>2, <1>5, <1>7
  <2>3. CASE listed[i].id # id
    <3>1. camera'[listed[i].id] = camera[listed[i].id]
      BY <2>1, <2>3, <1>6 DEF ControlsInv, ListShape
    <3>2. QED BY <3>1, <2>1 DEF ControlsInv, RangeKept
  <2>4. QED BY <2>2, <2>3
<1>17. QED BY <1>3, <1>8, <1>9, <1>10, <1>13, <1>14, <1>15, <1>16 DEF ControlsInv

\* The call to the driver fails, or the camera takes the value.
LEMMA IoctlStep ==
  ASSUME ControlsInv, NEW w \in Writers, Ioctl(w)
  PROVE  ControlsInv'
<1>1. writer[w].pc = "ioctl" /\ UNCHANGED <<listed, known, spoilt>> BY DEF Ioctl
<1>2. CASE Returns(w, -1) /\ UNCHANGED <<camera, torn>>
  <2>1. writer[w].took = FALSE BY <1>1 DEF ControlsInv, AllSure, Sure, WriterShape
  <2>2. QED BY <1>1, <1>2, <2>1, GivenUp
<1>3. CASE /\ Settable(writer[w].id)
           /\ camera' = [camera EXCEPT ![writer[w].id] = Taken(EntryOf(writer[w].id), writer[w].value)]
           /\ writer' = [writer EXCEPT ![w] =
                Record(IF EntryOf(writer[w].id).class = "user" THEN "cache" ELSE "note",
                       @.group, @.id, @.value, @.res, TRUE)]
           /\ torn' = IF Overlaps(w, writer[w].id) THEN torn \cup {writer[w].id} ELSE torn
  BY <1>1, <1>3, IoctlTakes
<1>4. QED BY <1>2, <1>3 DEF Ioctl

\* What is looked up in the list after a new value in one entry.
LEMMA Lookups ==
  ASSUME ListShape, NEW p \in DOMAIN listed, NEW v,
         listed' = [listed EXCEPT ![p].value = v], camera' = camera, spoilt' \in BOOLEAN,
         NEW id, PositionOf(id) # 0
  PROVE  /\ EntryOf(id)'.class = EntryOf(id).class
         /\ \A u : InRange(EntryOf(id), u)' <=> InRange(EntryOf(id), u)
         /\ PositionOf(id) # p => EntryOf(id)'.value = EntryOf(id).value
         /\ PositionOf(id) = p => EntryOf(id)'.value = v
<1>1. PositionOf(id) \in DOMAIN listed BY PositionIsThere
<1>2. EntryOf(id)' = listed'[PositionOf(id)] /\ EntryOf(id) = listed[PositionOf(id)]
  BY NewValue DEF EntryOf
<1>3. /\ listed'[PositionOf(id)].class = listed[PositionOf(id)].class
      /\ listed'[PositionOf(id)].min = listed[PositionOf(id)].min
      /\ listed'[PositionOf(id)].max = listed[PositionOf(id)].max
      /\ PositionOf(id) # p => listed'[PositionOf(id)].value = listed[PositionOf(id)].value
      /\ listed'[p].value = v
  BY <1>1, NewValue
<1>4. QED BY <1>2, <1>3 DEF InRange

\* A thread that notes a value disturbs nothing but what the list says of values.
LEMMA ListStep ==
  ASSUME ControlsInv, NEW w \in Writers, NEW r, writer' = [writer EXCEPT ![w] = r],
         r = Record(r.pc, r.group, r.id, r.value, r.res, r.took),
         r.pc \in Stages, r.took \in BOOLEAN,
         Noting(r) => Noting(writer[w]) /\ r.id = writer[w].id, Sure(r), w \in Asking => Honest(r),
         NEW p \in DOMAIN listed, NEW u, listed' = [listed EXCEPT ![p].value = u],
         UNCHANGED <<camera, torn>>, spoilt' \in BOOLEAN
  PROVE  ListShape' /\ WriterShape' /\ AllSure' /\ AnswerTrue' /\ OneAtATime' /\ RangeKept'
<1>0. ListShape BY DEF ControlsInv
<1>1. /\ WriterShape' /\ writer'[w] = r
      /\ \A v \in Writers \ {w} : writer'[v] = writer[v]
  BY WriterMoves DEF ControlsInv, Record
<1>2. ListShape' BY <1>0, NewValue
<1>3. ASSUME NEW id, PositionOf(id) # 0
      PROVE  /\ PositionOf(id)' # 0
             /\ EntryOf(id)'.class = EntryOf(id).class
             /\ \A x : InRange(EntryOf(id), x)' <=> InRange(EntryOf(id), x)
  <2>1. PositionOf(id)' # 0 BY <1>0, <1>3, NewValue
  <2>2. /\ EntryOf(id)'.class = EntryOf(id).class
        /\ \A x : InRange(EntryOf(id), x)' <=> InRange(EntryOf(id), x)
    BY <1>0, <1>3, Lookups
  <2>3. QED BY <2>1, <2>2
<1>4. AllSure'
  <2>1. SUFFICES ASSUME NEW v \in Writers PROVE Sure(writer[v])'
    BY DEF AllSure
  <2>2. Sure(writer'[v])
    <3>1. CASE v = w BY <3>1, <1>1
    <3>2. CASE v # w BY <3>2, <1>1 DEF ControlsInv, AllSure
    <3>3. QED BY <3>1, <3>2
  <2>3. CASE PositionOf(writer'[v].id) # 0
    BY <2>2, <2>3, <1>3 DEF Sure
  <2>4. CASE PositionOf(writer'[v].id) = 0
    BY <2>2, <2>4 DEF Sure
  <2>5. QED BY <2>3, <2>4
<1>5. AnswerTrue'
  <2>1. SUFFICES ASSUME NEW v \in Asking PROVE Honest(writer[v])'
    BY DEF AnswerTrue, Honest
  <2>2. Honest(writer'[v]) /\ Sure(writer'[v])
    <3>1. CASE v = w BY <3>1, <1>1
    <3>2. CASE v # w BY <3>2, <1>1 DEF ControlsInv, AnswerTrue, Honest, Writers, AllSure
    <3>3. QED BY <3>1, <3>2
  <2>3. CASE PositionOf(writer'[v].id) # 0
    BY <2>2, <2>3, <1>3 DEF Honest
  <2>4. CASE PositionOf(writer'[v].id) = 0
    BY <2>2, <2>4 DEF Honest, Sure
  <2>5. QED BY <2>3, <2>4
<1>6. OneAtATime'
  <2>1. SUFFICES ASSUME NEW x \in Writers, NEW y \in Writers, x # y, Noting(writer'[x]), Noting(writer'[y]),
                        writer'[x].id = writer'[y].id
                 PROVE  writer'[x].id \in torn
    BY DEF OneAtATime, Noting
  <2>2. /\ Noting(writer[x]) /\ writer[x].id = writer'[x].id
        /\ Noting(writer[y]) /\ writer[y].id = writer'[y].id
    BY <2>1, <1>1
  <2>3. QED BY <2>1, <2>2 DEF ControlsInv, OneAtATime
<1>7. RangeKept'
  <2>1. SUFFICES ASSUME NEW i \in DOMAIN listed', listed'[i].group = "v4l2", listed'[i].class = "user"
                 PROVE  InRange(listed'[i], camera'[listed'[i].id])
    BY DEF RangeKept, InRange
  <2>2. /\ i \in DOMAIN listed
        /\ listed'[i].id = listed[i].id /\ listed'[i].class = listed[i].class
        /\ listed'[i].min = listed[i].min /\ listed'[i].max = listed[i].max
        /\ listed'[i].group = listed[i].group
    BY <1>0, NewValue
  <2>3. InRange(listed[i], camera[listed[i].id]) BY <2>1, <2>2 DEF ControlsInv, RangeKept
  <2>4. QED BY <2>2, <2>3 DEF InRange
<1>8. QED BY <1>1, <1>2, <1>4, <1>5, <1>6, <1>7

\* A user control is noted by v4l2SetControl.
LEMMA CacheStep ==
  ASSUME ControlsInv, NEW w \in Writers, Cache(w)
  PROVE  ControlsInv'
<1>0. PICK id, u, p : id = writer[w].id /\ u = writer[w].value /\ p = PositionOf(writer[w].id)
  OBVIOUS
<1> USE <1>0
<1> DEFINE r == Record("note", writer[w].group, id, u, writer[w].res, writer[w].took)
<1>1. /\ writer[w].pc = "cache" /\ listed' = [listed EXCEPT ![p].value = u]
      /\ known' = known \cup {id} /\ UNCHANGED <<camera, torn, spoilt>> /\ WriterGoes(w, "note")
  BY DEF Cache
<1>2. ListShape /\ WriterShape /\ Sure(writer[w]) /\ Agrees(writer[w])
  BY DEF ControlsInv, AllSure, Noted
<1>3. writer' = [writer EXCEPT ![w] = r] BY <1>1, <1>2, GoesOn
<1>4. p # 0 /\ writer[w].took = TRUE BY <1>1, <1>2 DEF Sure, WriterShape
<1>5. p \in DOMAIN listed /\ listed[p].id = id BY <1>2, <1>4, PositionIsThere
<1>6. /\ r.pc = "note" /\ r.id = id /\ r.value = u /\ r.took = TRUE
      /\ r = Record(r.pc, r.group, r.id, r.value, r.res, r.took)
  BY <1>4 DEF Record
<1> HIDE DEF r
<1>7. Noting(r) /\ Noting(writer[w]) BY <1>1, <1>4, <1>6 DEF Noting
<1>8. Sure(r) /\ Honest(r) BY <1>4, <1>6 DEF Sure, Honest
<1>9. spoilt' \in BOOLEAN BY <1>1, <1>2 DEF ListShape
<1>10. ListShape' /\ WriterShape' /\ AllSure' /\ AnswerTrue' /\ OneAtATime' /\ RangeKept'
  BY <1>1, <1>3, <1>5, <1>6, <1>7, <1>8, <1>9, ListStep DEF Stages
<1>10a. /\ \A i \in DOMAIN listed' :
             /\ i \in DOMAIN listed
             /\ listed'[i].id = listed[i].id /\ listed'[i].class = listed[i].class
             /\ listed'[i].group = listed[i].group
             /\ i # p => listed'[i].value = listed[i].value
        /\ listed'[p].value = u
        /\ \A x : PositionOf(x)' = PositionOf(x)
        /\ \A x : PositionOf(x) # 0 =>
             /\ EntryOf(x)'.class = EntryOf(x).class
             /\ PositionOf(x) # p => EntryOf(x)'.value = EntryOf(x).value
             /\ PositionOf(x) = p => EntryOf(x)'.value = u
  <2>1. listed' = [listed EXCEPT ![p].value = u] /\ camera' = camera BY <1>1
  <2>2. /\ DOMAIN listed' = DOMAIN listed
        /\ \A i \in DOMAIN listed :
             /\ listed'[i].id = listed[i].id /\ listed'[i].class = listed[i].class
             /\ listed'[i].group = listed[i].group
             /\ i # p => listed'[i].value = listed[i].value
        /\ listed'[p].value = u
        /\ \A x : PositionOf(x)' = PositionOf(x)
    BY <2>1, <1>2, <1>5, <1>9, NewValue
  <2>3. ASSUME NEW x, PositionOf(x) # 0
        PROVE  /\ EntryOf(x)'.class = EntryOf(x).class
               /\ PositionOf(x) # p => EntryOf(x)'.value = EntryOf(x).value
               /\ PositionOf(x) = p => EntryOf(x)'.value = u
    BY <2>1, <2>3, <1>2, <1>5, <1>9, Lookups
  <2>4. QED BY <2>2, <2>3
<1>11. /\ writer'[w] = r
       /\ \A v \in Writers \ {w} : writer'[v] = writer[v]
  BY <1>2, <1>3, <1>6, WriterMoves DEF Record, Stages
<1>12. Noted'
  <2>1. SUFFICES ASSUME NEW v \in Writers, Noting(writer'[v]) PROVE Agrees(writer[v])'
    BY DEF Noted, Agrees, Noting
  <2>2. CASE v = w
    <3>1. writer'[v] = r BY <2>2, <1>11
    <3>2. id \in DOMAIN camera BY <1>2, <1>7 DEF Agrees
    <3>3. EntryOf(id)'.class = EntryOf(id).class /\ EntryOf(id)'.value = u
      BY <1>10a, <1>4
    <3>4. EntryOf(id).class = "user" /\ id \notin torn => camera[id] = u
      BY <1>2, <1>7 DEF Agrees
    <3>5. QED BY <3>1, <3>2, <3>3, <3>4, <1>1, <1>6 DEF Agrees
  <2>3. CASE v # w
    <3>0. PICK x : x = writer[v].id OBVIOUS
    <3>1. writer'[v] = writer[v] /\ Noting(writer[v]) /\ Agrees(writer[v]) /\ Sure(writer[v])
      BY <2>1, <2>3, <1>11 DEF ControlsInv, Noted, AllSure
    <3>2. x = id => id \in torn
      BY <2>3, <3>0, <3>1, <1>7 DEF ControlsInv, OneAtATime
    <3>3. PositionOf(x) # 0 BY <3>0, <3>1 DEF Sure, Noting
    <3>4. PositionOf(x) = p => x = id
      BY <3>0, <3>3, <1>2, <1>5, PositionIsThere
    <3>5. /\ EntryOf(x)'.class = EntryOf(x).class
          /\ PositionOf(x) # p => EntryOf(x)'.value = EntryOf(x).value
      BY <3>0, <3>3, <1>10a
    <3>6. PositionOf(x)' = PositionOf(x)
      BY <1>10a
    <3>7. QED BY <3>0, <3>1, <3>2, <3>4, <3>5, <3>6, <1>1 DEF Agrees
  <2>4. QED BY <2>2, <2>3
<1>13. ListHolds'
  <2>1. SUFFICES ASSUME NEW i \in DOMAIN listed' PROVE Shown(i)'
    BY DEF ListHolds
  <2>2. /\ i \in DOMAIN listed
        /\ listed'[i].id = listed[i].id /\ listed'[i].class = listed[i].class
        /\ listed'[i].group = listed[i].group
        /\ i # p => listed'[i].value = listed[i].value
    BY <1>10a
  <2>3. CASE i = p
    <3>1. Noting(writer'[w]) /\ writer'[w].id = listed'[i].id
      BY <2>2, <2>3, <1>5, <1>6, <1>7, <1>11
    <3>2. QED BY <3>1 DEF Shown, Noting
  <2>4. CASE i # p
    <3>1. listed[i].id # id BY <2>2, <2>4, <1>2, <1>5 DEF ListShape
    <3>2. Shown(i) BY <2>2 DEF ControlsInv, ListHolds
    <3>3. (\A v \in Writers : Noting(writer'[v]) => writer'[v].id # listed[i].id)
            => \A v \in Writers : Noting(writer[v]) => writer[v].id # listed[i].id
      BY <3>1, <1>11
    <3>4. QED BY <3>1, <3>2, <3>3, <2>2, <2>4, <1>1 DEF Shown, Noting
  <2>5. QED BY <2>3, <2>4
<1>14. QED BY <1>10, <1>12, <1>13 DEF ControlsInv

\* input_cmd notes the value beside the first control, and returns 0.
LEMMA NoteStep ==
  ASSUME ControlsInv, NEW w \in Writers, Note(w)
  PROVE  ControlsInv'
<1>0. PICK id, u : id = writer[w].id /\ u = writer[w].value
  OBVIOUS
<1> USE <1>0
<1> DEFINE r == IF w = Starter THEN Record("idle", "v4l2", "", 0, 0, FALSE)
                ELSE Record("answer", writer[w].group, id, u, 0, writer[w].took)
<1>1. /\ writer[w].pc = "note" /\ listed' = [listed EXCEPT ![1].value = u]
      /\ spoilt' = (spoilt \/ id # listed[1].id \/ ~writer[w].took)
      /\ UNCHANGED <<camera, torn, known>> /\ Returns(w, 0)
  BY DEF Note
<1>2. ListShape /\ WriterShape /\ Sure(writer[w]) /\ Agrees(writer[w])
  BY DEF ControlsInv, AllSure, Noted
<1>3. writer' = [writer EXCEPT ![w] = r] BY <1>1, <1>2, Returned
<1>4. /\ PositionOf(id) # 0 /\ writer[w].took \in BOOLEAN
      /\ ~writer[w].took => ~InRange(EntryOf(id), u)
  BY <1>1, <1>2 DEF Sure, WriterShape
<1>5. 1 \in DOMAIN listed BY <1>2 DEF ListShape
<1>6. /\ r = Record(r.pc, r.group, r.id, r.value, r.res, r.took)
      /\ \/ r.pc = "idle" /\ r.took = FALSE
         \/ /\ r.pc = "answer" /\ r.id = id /\ r.value = u /\ r.res = 0
            /\ r.took = writer[w].took
  BY DEF Record
<1> HIDE DEF r
<1>7. ~Noting(r) /\ r.pc \in Stages /\ r.took \in BOOLEAN BY <1>4, <1>6 DEF Noting, Stages
<1>8. Sure(r) /\ Honest(r) BY <1>4, <1>6 DEF Sure, Honest
<1>9. spoilt' \in BOOLEAN BY <1>1, <1>2 DEF ListShape
<1>10. ListShape' /\ WriterShape' /\ AllSure' /\ AnswerTrue' /\ OneAtATime' /\ RangeKept'
  BY <1>1, <1>3, <1>5, <1>6, <1>7, <1>8, <1>9, ListStep
<1>10a. /\ \A i \in DOMAIN listed' :
             /\ i \in DOMAIN listed
             /\ listed'[i].id = listed[i].id /\ listed'[i].class = listed[i].class
             /\ listed'[i].group = listed[i].group
             /\ i # 1 => listed'[i].value = listed[i].value
        /\ listed'[1].value = u
        /\ \A x : PositionOf(x)' = PositionOf(x)
        /\ \A x : PositionOf(x) # 0 =>
             /\ EntryOf(x)'.class = EntryOf(x).class
             /\ PositionOf(x) # 1 => EntryOf(x)'.value = EntryOf(x).value
             /\ PositionOf(x) = 1 => EntryOf(x)'.value = u
  <2>1. listed' = [listed EXCEPT ![1].value = u] /\ camera' = camera BY <1>1
  <2>2. /\ DOMAIN listed' = DOMAIN listed
        /\ \A i \in DOMAIN listed :
             /\ listed'[i].id = listed[i].id /\ listed'[i].class = listed[i].class
             /\ listed'[i].group = listed[i].group
             /\ i # 1 => listed'[i].value = listed[i].value
        /\ listed'[1].value = u
        /\ \A x : PositionOf(x)' = PositionOf(x)
    BY <2>1, <1>2, <1>5, <1>9, NewValue
  <2>3. ASSUME NEW x, PositionOf(x) # 0
        PROVE  /\ EntryOf(x)'.class = EntryOf(x).class
               /\ PositionOf(x) # 1 => EntryOf(x)'.value = EntryOf(x).value
               /\ PositionOf(x) = 1 => EntryOf(x)'.value = u
    BY <2>1, <2>3, <1>2, <1>5, <1>9, Lookups
  <2>4. QED BY <2>2, <2>3
<1>11. /\ writer'[w] = r
       /\ \A v \in Writers \ {w} : writer'[v] = writer[v]
  BY <1>2, <1>3, <1>6, <1>7, WriterMoves DEF Record
<1>12. ~spoilt' => ~spoilt /\ id = listed[1].id /\ Noting(writer[w])
  BY <1>1 DEF Noting
<1>13. Noted'
  <2>1. SUFFICES ASSUME NEW v \in Writers, Noting(writer'[v]) PROVE Agrees(writer[v])'
    BY DEF Noted, Agrees, Noting
  <2>2. v # w BY <2>1, <1>7, <1>11
  <2>3. writer'[v] = writer[v] /\ Noting(writer[v]) /\ Agrees(writer[v]) /\ Sure(writer[v])
    BY <2>1, <2>2, <1>11 DEF ControlsInv, Noted, AllSure
  <2>0. PICK x : x = writer[v].id OBVIOUS
  <2>4. PositionOf(x) # 0 BY <2>0, <2>3 DEF Sure, Noting
  <2>5. PositionOf(x) = 1 => x = listed[1].id
    BY <2>0, <2>4, <1>2, PositionIsThere
  <2>6. PositionOf(x) = 1 /\ ~spoilt' => x \in torn
    BY <2>0, <2>2, <2>3, <2>5, <1>12 DEF ControlsInv, OneAtATime
  <2>7. /\ EntryOf(x)'.class = EntryOf(x).class
        /\ PositionOf(x) # 1 => EntryOf(x)'.value = EntryOf(x).value
    BY <2>0, <2>4, <1>10a
  <2>8. PositionOf(x)' = PositionOf(x)
    BY <1>10a
  <2>9. QED BY <2>0, <2>3, <2>6, <2>7, <2>8, <1>1 DEF Agrees
<1>14. ListHolds'
  <2>1. SUFFICES ASSUME NEW i \in DOMAIN listed' PROVE Shown(i)'
    BY DEF ListHolds
  <2>2. /\ i \in DOMAIN listed
        /\ listed'[i].id = listed[i].id /\ listed'[i].class = listed[i].class
        /\ listed'[i].group = listed[i].group
        /\ i # 1 => listed'[i].value = listed[i].value
        /\ listed'[1].value = u
    BY <1>10a
  <2>3. Shown(i) /\ PositionOf(listed[i].id) = i /\ EntryOf(listed[i].id) = listed[i]
    BY <2>2, <1>2, PositionIsThere DEF ControlsInv, ListHolds, EntryOf
  <2>4. CASE Noting(writer[w]) /\ listed[i].id = id
    <3>1. listed[i].class = "user" /\ id \notin torn => camera[id] = u
      BY <2>3, <2>4, <1>2 DEF Agrees
    <3>2. listed[i].class = "user" /\ id \notin torn /\ i # 1 => listed[i].value = u
      BY <2>3, <2>4, <1>1, <1>2 DEF Agrees
    <3>3. QED BY <2>2, <2>4, <3>1, <3>2, <1>1 DEF Shown
  <2>5. CASE ~(Noting(writer[w]) /\ listed[i].id = id)
    <3>1. (\A v \in Writers : Noting(writer'[v]) => writer'[v].id # listed[i].id)
            => \A v \in Writers : Noting(writer[v]) => writer[v].id # listed[i].id
      BY <2>5, <1>11
    <3>2. i = 1 => spoilt' BY <2>5, <1>12
    <3>3. QED BY <3>1, <3>2, <2>2, <2>3, <1>1 DEF Shown, Noting
  <2>6. QED BY <2>4, <2>5
<1>15. QED BY <1>10, <1>13, <1>14 DEF ControlsInv

\* Every step keeps the invariant.
LEMMA ControlsStep == ControlsInv /\ [ControlsNext]_controlVars => ControlsInv'
<1> SUFFICES ASSUME ControlsInv, [ControlsNext]_controlVars PROVE ControlsInv'
  OBVIOUS
<1>1. CASE SetOption
  <2>1. Starter \in Writers BY DEF Writers
  <2>2. QED BY <1>1, <2>1, QuietSteps
<1>2. ASSUME NEW w \in Asking, Give(w) \/ JpegQuality(w) \/ Written(w) PROVE ControlsInv'
  <2>1. w \in Writers BY DEF Writers
  <2>2. QED BY <1>2, <2>1, QuietSteps
<1>3. ASSUME NEW w \in Writers, FindControl(w) PROVE ControlsInv'
  BY <1>3, QuietSteps
<1>4. ASSUME NEW w \in Writers, Ioctl(w) PROVE ControlsInv'
  BY <1>4, IoctlStep
<1>5. ASSUME NEW w \in Writers, Cache(w) PROVE ControlsInv'
  BY <1>5, CacheStep
<1>6. ASSUME NEW w \in Writers, Note(w) PROVE ControlsInv'
  BY <1>6, NoteStep
<1>7. CASE UNCHANGED controlVars
  <2>1. UNCHANGED <<camera, listed, writer, torn, known, spoilt>> BY <1>7 DEF controlVars
  <2>2. /\ \A id : PositionOf(id)' = PositionOf(id) /\ EntryOf(id)' = EntryOf(id)
        /\ \A e, v : InRange(e, v)' <=> InRange(e, v)
    BY <2>1, SameList
  <2>3. ListShape' /\ WriterShape' BY <2>1 DEF ControlsInv, ListShape, WriterShape
  <2>4. AllSure' BY <2>1, <2>2 DEF ControlsInv, AllSure, Sure
  <2>5. AnswerTrue' BY <2>1, <2>2 DEF ControlsInv, AnswerTrue
  <2>6. OneAtATime' BY <2>1 DEF ControlsInv, OneAtATime, Noting
  <2>7. Noted' BY <2>1, <2>2 DEF ControlsInv, Noted, Agrees, Noting
  <2>8. ListHolds' BY <2>1 DEF ControlsInv, ListHolds, Shown, Noting
  <2>9. RangeKept' BY <2>1 DEF ControlsInv, RangeKept, InRange
  <2>10. QED BY <2>3, <2>4, <2>5, <2>6, <2>7, <2>8, <2>9 DEF ControlsInv
<1>8. QED BY <1>1, <1>2, <1>3, <1>4, <1>5, <1>6, <1>7 DEF ControlsNext

\* The invariant says all that ControlsSound does.
LEMMA ControlsGoal == ControlsInv => ControlsSound
<1> SUFFICES ASSUME ControlsInv PROVE ControlsSound
  OBVIOUS
<1>1. ListTrue
  <2>1. SUFFICES ASSUME NEW i \in DOMAIN listed, listed[i].group = "v4l2", listed[i].class = "user",
                        listed[i].id \in known \ torn, i = 1 => ~spoilt,
                        \A w \in Writers : writer[w].id = listed[i].id => writer[w].pc \notin {"cache", "note"}
                 PROVE  listed[i].value = camera[listed[i].id]
    BY DEF ListTrue
  <2>2. \A w \in Writers : Noting(writer[w]) => writer[w].id # listed[i].id BY <2>1 DEF Noting
  <2>3. QED BY <2>1, <2>2 DEF ControlsInv, ListHolds, Shown
<1>2. QED BY <1>1 DEF ControlsInv, ControlsSound

\* Whatever browsers ask for, and however their threads and the camera thread
\* overlap, no user control leaves its range, and the list and the answers are true
\* as far as ListTrue and AnswerTrue say.
THEOREM ControlsStaySound == CameraSpec => []ControlsSound
<1>1. CameraInit => ControlsInv BY ControlsStart DEF CameraInit
<1>2. ControlsInv /\ [CameraNext]_cameraVars => ControlsInv'
  <2> SUFFICES ASSUME ControlsInv, [CameraNext]_cameraVars PROVE ControlsInv'
    OBVIOUS
  <2>1. [ControlsNext]_controlVars BY DEF CameraNext, cameraVars
  <2>2. QED BY <2>1, ControlsStep
<1>3. CameraSpec => []ControlsInv BY <1>1, <1>2, PTL DEF CameraSpec
<1>4. QED BY <1>3, ControlsGoal, PTL

-----------------------------------------------------------------------------
(* The ranges of the variables of the controls.                            *)

Groups == {"v4l2", "jpeg", "generic", "elsewhere"}

\* The controls that options set.
Names ==
  {"sharpness", "contrast", "saturation", "backlight", "rotate", "hflip", "vflip",
   "autobrightness", "brightness", "auto_white_balance", "white_balance", "exposure_auto",
   "exposure", "autogain", "gain", "hue_auto", "hue"}

WriterType ==
  /\ \A w \in Writers :
       /\ writer[w].group \in Groups /\ writer[w].value \in Int /\ writer[w].res \in {-1, 0}
       /\ w \in Asking => writer[w].id \in DOMAIN camera \cup {"", "jpeg", "unknown"}
  /\ writer[Starter].pc \notin {"jpeg", "answer"}

ListType ==
  \A i \in DOMAIN listed :
    /\ listed[i].class \in {"user", "extended"} /\ listed[i].group \in {"v4l2", "jpeg"}
    /\ listed[i].id \in DOMAIN camera \cup {"jpeg"}
    /\ listed[i].min \in Int /\ listed[i].max \in Int /\ listed[i].value \in Int

ControlsTypeInv ==
  /\ \A o \in DOMAIN options : options[o] \in [auto : Int, value : Int]
  /\ \A id \in DOMAIN camera : camera[id] \in Int
  /\ ListType /\ WriterType
  /\ jpeg \in [wanted : 0 .. 100, actual : 0 .. 100]
  /\ orders \in Seq(Names \X Int)
  /\ commands \in 0 .. MaxCommands /\ spoilt \in BOOLEAN /\ refused \in BOOLEAN
  /\ torn \subseteq known \cup DOMAIN camera /\ known \subseteq DOMAIN camera

\* One sequence of orders behind another, and what a sequence says.
Cat(a, b) == a \o b
Said(q) == {q[i] : i \in DOMAIN q}
Follows(q, mid, id) ==
  \A i \in DOMAIN q : q[i][1] = id => \E j \in DOMAIN q : j < i /\ q[j][1] = mid

\* What \o makes of two sequences.
LEMMA CatIs ==
  ASSUME NEW S, NEW a \in Seq(S), NEW b \in Seq(S)
  PROVE  /\ Cat(a, b) \in Seq(S) /\ Len(Cat(a, b)) = Len(a) + Len(b)
         /\ \A i \in 1 .. Len(a) : Cat(a, b)[i] = a[i]
         /\ \A i \in 1 .. Len(b) : Cat(a, b)[i + Len(a)] = b[i]
BY DEF Cat

\* Together they say what each of them does.
LEMMA SaidCat ==
  ASSUME NEW S, NEW a \in Seq(S), NEW b \in Seq(S)
  PROVE  Said(Cat(a, b)) = Said(a) \cup Said(b)
<1>1. PICK c : c = Cat(a, b) OBVIOUS
<1>2. PICK m \in Nat, n \in Nat : m = Len(a) /\ n = Len(b) OBVIOUS
<1>3. /\ c \in Seq(S) /\ DOMAIN c = 1 .. m + n /\ DOMAIN a = 1 .. m /\ DOMAIN b = 1 .. n
      /\ \A i \in 1 .. m : c[i] = a[i]
      /\ \A i \in 1 .. n : c[i + m] = b[i]
  <2>1. c \in Seq(S) /\ Len(c) = m + n BY <1>1, <1>2, CatIs
  <2>2. DOMAIN c = 1 .. m + n BY <2>1
  <2>3. DOMAIN a = 1 .. m /\ DOMAIN b = 1 .. n BY <1>2
  <2>4. \A i \in 1 .. m : c[i] = a[i] BY <1>1, <1>2, CatIs
  <2>5. \A i \in 1 .. n : c[i + m] = b[i]
    <3>1. \A i \in 1 .. Len(b) : Cat(a, b)[i + Len(a)] = b[i] BY CatIs
    <3>2. QED BY <3>1, <1>1, <1>2
  <2>6. QED BY <2>1, <2>2, <2>3, <2>4, <2>5
<1>4. ASSUME NEW i \in 1 .. m + n PROVE c[i] \in Said(a) \cup Said(b)
  <2>1. CASE i \in 1 .. m BY <1>3, <2>1 DEF Said
  <2>2. CASE i \notin 1 .. m
    <3>1. i - m \in 1 .. n /\ (i - m) + m = i BY <1>2, <2>2
    <3>2. c[i] = b[i - m] BY <1>3, <3>1
    <3>3. QED BY <1>3, <3>1, <3>2 DEF Said
  <2>3. QED BY <2>1, <2>2
<1>5. ASSUME NEW i \in 1 .. m PROVE a[i] \in Said(c)
  <2>1. i \in 1 .. m + n BY <1>2
  <2>2. QED BY <1>3, <2>1 DEF Said
<1>6. ASSUME NEW i \in 1 .. n PROVE b[i] \in Said(c)
  <2>1. i + m \in 1 .. m + n BY <1>2
  <2>2. QED BY <1>3, <2>1 DEF Said
<1>7. Said(c) = Said(a) \cup Said(b) BY <1>3, <1>4, <1>5, <1>6 DEF Said
<1>8. QED BY <1>1, <1>7

\* Where the mode comes first in both, it does in the whole.
LEMMA FollowsCat ==
  ASSUME NEW S, NEW a \in Seq(S), NEW b \in Seq(S), NEW mid, NEW id,
         Follows(a, mid, id), Follows(b, mid, id)
  PROVE  Follows(Cat(a, b), mid, id)
<1>1. PICK c : c = Cat(a, b) OBVIOUS
<1>2. PICK m \in Nat, n \in Nat : m = Len(a) /\ n = Len(b) OBVIOUS
<1>3. /\ c \in Seq(S) /\ DOMAIN c = 1 .. m + n /\ DOMAIN a = 1 .. m /\ DOMAIN b = 1 .. n
      /\ \A i \in 1 .. m : c[i] = a[i]
      /\ \A i \in 1 .. n : c[i + m] = b[i]
  <2>1. c \in Seq(S) /\ Len(c) = m + n BY <1>1, <1>2, CatIs
  <2>2. DOMAIN c = 1 .. m + n BY <2>1
  <2>3. DOMAIN a = 1 .. m /\ DOMAIN b = 1 .. n BY <1>2
  <2>4. \A i \in 1 .. m : c[i] = a[i] BY <1>1, <1>2, CatIs
  <2>5. \A i \in 1 .. n : c[i + m] = b[i]
    <3>1. \A i \in 1 .. Len(b) : Cat(a, b)[i + Len(a)] = b[i] BY CatIs
    <3>2. QED BY <3>1, <1>1, <1>2
  <2>6. QED BY <2>1, <2>2, <2>3, <2>4, <2>5
<1>4. ASSUME NEW i \in 1 .. m + n, c[i][1] = id
      PROVE  \E j \in 1 .. m + n : j < i /\ c[j][1] = mid
  <2>1. CASE i \in 1 .. m
    <3>1. PICK j \in 1 .. m : j < i /\ a[j][1] = mid BY <1>3, <1>4, <2>1 DEF Follows
    <3>2. j \in 1 .. m + n /\ c[j] = a[j] BY <1>2, <1>3
    <3>3. QED BY <3>1, <3>2
  <2>2. CASE i \notin 1 .. m
    <3>1. i - m \in 1 .. n /\ (i - m) + m = i BY <1>2, <2>2
    <3>2. c[i] = b[i - m] BY <1>3, <3>1
    <3>3. PICK j \in 1 .. n : j < i - m /\ b[j][1] = mid BY <1>3, <1>4, <3>1, <3>2 DEF Follows
    <3>4. j + m \in 1 .. m + n /\ j + m < i BY <1>2, <3>3
    <3>5. c[j + m] = b[j] BY <1>3
    <3>6. QED BY <3>3, <3>4, <3>5
  <2>3. QED BY <2>1, <2>2
<1>5. Follows(c, mid, id) BY <1>3, <1>4 DEF Follows
<1>6. QED BY <1>1, <1>5

\* What one option says.
LEMMA PlainIs ==
  ASSUME NEW o, NEW id \in Names, o \in DOMAIN options => options[o] \in [auto : Int, value : Int]
  PROVE  /\ Plain(o, id) \in Seq(Names \X Int)
         /\ Said(Plain(o, id)) = IF o \in DOMAIN options THEN {<<id, options[o].value>>} ELSE {}
         /\ \A mid, x : x # id => Follows(Plain(o, id), mid, x)
<1>1. CASE o \in DOMAIN options
  <2>1. PICK x : x = <<id, options[o].value>> OBVIOUS
  <2>2. x \in Names \X Int /\ x[1] = id BY <1>1, <2>1
  <2>3. Plain(o, id) = <<x>> BY <1>1, <2>1 DEF Plain
  <2> HIDE <2>1
  <2>4. <<x>> \in Seq(Names \X Int) /\ DOMAIN <<x>> = {1} /\ <<x>>[1] = x BY <2>2
  <2>5. Said(<<x>>) = {x} BY <2>4 DEF Said
  <2>6. \A mid, y : y # id => Follows(<<x>>, mid, y) BY <2>2, <2>4 DEF Follows
  <2>7. QED BY <1>1, <2>1, <2>3, <2>4, <2>5, <2>6
<1>2. CASE o \notin DOMAIN options
  <2>1. Plain(o, id) = <<>> BY <1>2 DEF Plain
  <2>2. Said(<<>>) = {} /\ \A mid, y : Follows(<<>>, mid, y) BY DEF Said, Follows
  <2>3. QED BY <1>2, <2>1, <2>2
<1>3. QED BY <1>1, <1>2

\* The same of an option with a mode.
LEMMA PairedIs ==
  ASSUME NEW o, NEW mode \in Names, NEW manual, NEW id \in Names, NEW value \in Int, mode # id,
         o \in DOMAIN options => options[o] \in [auto : Int, value : Int]
  PROVE  LET q == Paired(o, mode, manual, id, value)
         IN  /\ q \in Seq(Names \X Int)
             /\ Said(q) = (IF o \in DOMAIN options THEN {<<mode, options[o].auto>>} ELSE {})
                  \cup (IF o \in DOMAIN options /\ options[o].auto = manual THEN {<<id, value>>} ELSE {})
             /\ \A m, x : x # mode /\ (x = id => m = mode) => Follows(q, m, x)
<1>1. CASE o \notin DOMAIN options
  <2>1. Paired(o, mode, manual, id, value) = <<>> BY <1>1 DEF Paired
  <2>2. Said(<<>>) = {} /\ \A mid, y : Follows(<<>>, mid, y) BY DEF Said, Follows
  <2>3. QED BY <1>1, <2>1, <2>2
<1>2. CASE o \in DOMAIN options
  <2>1. PICK x, y : x = <<mode, options[o].auto>> /\ y = <<id, value>> OBVIOUS
  <2>2. x \in Names \X Int /\ x[1] = mode /\ y \in Names \X Int /\ y[1] = id BY <1>2, <2>1
  <2>3. CASE options[o].auto = manual
    <3>1. Paired(o, mode, manual, id, value) = Cat(<<x>>, <<y>>)
      BY <1>2, <2>1, <2>3 DEF Paired, Cat
    <3> HIDE <2>1
    <3>2. PICK a, b, c : a = <<x>> /\ b = <<y>> /\ c = Cat(a, b) OBVIOUS
    <3>3. /\ a \in Seq(Names \X Int) /\ Len(a) = 1 /\ a[1] = x
          /\ b \in Seq(Names \X Int) /\ Len(b) = 1 /\ b[1] = y
      BY <2>2, <3>2
    <3>4. c \in Seq(Names \X Int) /\ Len(c) = 2 /\ DOMAIN c = {1, 2}
      <4>1. Cat(a, b) \in Seq(Names \X Int) /\ Len(Cat(a, b)) = Len(a) + Len(b) BY <3>3, CatIs
      <4>2. c \in Seq(Names \X Int) /\ Len(c) = 2 BY <3>2, <3>3, <4>1
      <4>3. QED BY <4>2
    <3>5. c[1] = x /\ c[2] = y
      <4>1. \A n \in 1 .. Len(a) : Cat(a, b)[n] = a[n] BY <3>3, CatIs
      <4>2. \A n \in 1 .. Len(b) : Cat(a, b)[n + Len(a)] = b[n]
        <5>1. PICK S : S = Names \X Int OBVIOUS
        <5>2. a \in Seq(S) /\ b \in Seq(S) BY <3>3, <5>1
        <5> HIDE <5>1
        <5>3. QED BY <5>2, CatIs
      <4>3. Cat(a, b)[1] = a[1] BY <3>3, <4>1
      <4>4. Cat(a, b)[1 + 1] = b[1] BY <3>3, <4>2
      <4>5. QED BY <3>2, <3>3, <4>3, <4>4
    <3>6. Said(c) = {x, y} BY <3>4, <3>5 DEF Said
    <3>7. \A m, z : z # mode /\ (z = id => m = mode) => Follows(c, m, z)
      BY <2>2, <3>4, <3>5 DEF Follows
    <3>8. /\ Paired(o, mode, manual, id, value) = c
          /\ {x, y} = {<<mode, options[o].auto>>} \cup {<<id, value>>}
      BY <2>1, <3>1, <3>2
    <3>9. QED BY <1>2, <2>3, <3>4, <3>6, <3>7, <3>8
  <2>4. CASE options[o].auto # manual
    <3>1. Paired(o, mode, manual, id, value) = <<x>> BY <1>2, <2>1, <2>4 DEF Paired
    <3> HIDE <2>1
    <3>2. <<x>> \in Seq(Names \X Int) /\ DOMAIN <<x>> = {1} /\ <<x>>[1] = x BY <2>2
    <3>3. Said(<<x>>) = {x} BY <3>2 DEF Said
    <3>4. \A m, z : z # mode => Follows(<<x>>, m, z) BY <2>2, <3>2 DEF Follows
    <3>5. QED BY <1>2, <2>1, <2>4, <3>1, <3>2, <3>3, <3>4
  <2>5. QED BY <2>3, <2>4
<1>3. QED BY <1>1, <1>2

\* The orders in which the value of a setting comes after its mode.
InOrder(q) ==
  /\ Follows(q, "autobrightness", "brightness") /\ Follows(q, "auto_white_balance", "white_balance")
  /\ Follows(q, "exposure_auto", "exposure") /\ Follows(q, "autogain", "gain")

\* Sequences of orders that respect that, and what they say.
Fine(q, said) == q \in Seq(Names \X Int) /\ InOrder(q) /\ Said(q) = said

\* Respect for the order goes over to the whole.
LEMMA FineCat ==
  ASSUME NEW a, NEW b, NEW s, NEW t, Fine(a, s), Fine(b, t)
  PROVE  Fine(Cat(a, b), s \cup t)
<1>1. PICK S : S = Names \X Int OBVIOUS
<1>2. a \in Seq(S) /\ b \in Seq(S) /\ InOrder(a) /\ InOrder(b) /\ Said(a) = s /\ Said(b) = t
  BY <1>1 DEF Fine
<1>3. Cat(a, b) \in Seq(S) BY <1>2, CatIs
<1>4. Said(Cat(a, b)) = s \cup t BY <1>2, SaidCat
<1>5. InOrder(Cat(a, b))
  <2>1. \A m, i : Follows(a, m, i) /\ Follows(b, m, i) => Follows(Cat(a, b), m, i)
    BY <1>2, FollowsCat
  <2>2. QED BY <1>2, <2>1 DEF InOrder
<1>6. QED BY <1>1, <1>3, <1>4, <1>5 DEF Fine

\* The order of an option that sets one control, and those of one with a mode.
Simply(o, id) == IF o \in DOMAIN options THEN {<<id, options[o].value>>} ELSE {}
Moded(o, mode, manual, id, value) ==
  (IF o \in DOMAIN options THEN {<<mode, options[o].auto>>} ELSE {})
    \cup (IF o \in DOMAIN options /\ options[o].auto = manual THEN {<<id, value>>} ELSE {})

OptionsType == \A o \in DOMAIN options : options[o] \in [auto : Int, value : Int]

\* An option that sets one control respects the order, if that has no mode.
LEMMA PlainFine ==
  ASSUME OptionsType, NEW o, NEW id \in Names,
         id \notin {"brightness", "white_balance", "exposure", "gain"}
  PROVE  Fine(Plain(o, id), Simply(o, id))
<1>1. o \in DOMAIN options => options[o] \in [auto : Int, value : Int] BY DEF OptionsType
<1>2. /\ Plain(o, id) \in Seq(Names \X Int) /\ Said(Plain(o, id)) = Simply(o, id)
      /\ \A mid, x : x # id => Follows(Plain(o, id), mid, x)
  BY <1>1, PlainIs DEF Simply
<1>3. QED BY <1>2 DEF Fine, InOrder

\* An option with a mode respects it, as the mode is set first.
LEMMA PairedFine ==
  ASSUME OptionsType, NEW o, NEW mode \in Names, NEW manual, NEW id \in Names, NEW value \in Int,
         mode \notin {"brightness", "white_balance", "exposure", "gain"}, mode # id,
         id = "brightness" => mode = "autobrightness",
         id = "white_balance" => mode = "auto_white_balance",
         id = "exposure" => mode = "exposure_auto", id = "gain" => mode = "autogain"
  PROVE  Fine(Paired(o, mode, manual, id, value), Moded(o, mode, manual, id, value))
<1>1. o \in DOMAIN options => options[o] \in [auto : Int, value : Int] BY DEF OptionsType
<1>2. PICK q : q = Paired(o, mode, manual, id, value) OBVIOUS
<1>3. /\ q \in Seq(Names \X Int) /\ Said(q) = Moded(o, mode, manual, id, value)
      /\ \A m, x : x # mode /\ (x = id => m = mode) => Follows(q, m, x)
  BY <1>1, <1>2, PairedIs DEF Moded
<1>4. InOrder(q) BY <1>3 DEF InOrder
<1>5. QED BY <1>2, <1>3, <1>4 DEF Fine

\* Options are numbers.
LEMMA ValueOfInt == ASSUME OptionsType, NEW o PROVE ValueOf(o) \in Int
BY DEF OptionsType, ValueOf

\* The whole of cam_thread sets the mode of a setting before its value, and sets what the
\* options say.
LEMMA OrdersAre ==
  ASSUME OptionsType
  PROVE  Fine(Orders, 
                Simply("sh", "sharpness") \cup Simply("co", "contrast") \cup Simply("sa", "saturation")
                  \cup Simply("bk", "backlight") \cup Simply("rot", "rotate") \cup Simply("hf", "hflip")
                  \cup Simply("vf", "vflip") \cup Simply("pl", "vflip")
                  \cup Moded("br", "autobrightness", 0, "brightness", ValueOf("br"))
                  \cup Moded("wb", "auto_white_balance", 0, "white_balance", ValueOf("wb"))
                  \cup Moded("ex", "exposure_auto", 1, "exposure", ValueOf("ex"))
                  \cup Moded("gain", "autogain", 0, "gain", ValueOf("gain"))
                  \cup Moded("cagc", "auto_white_balance", 0, "white_balance", ValueOf("cagc"))
                  \cup Moded("cb", "hue_auto", 0, "hue", ValueOf("cagc")))
<1> DEFINE Free(id) == id \in Names /\ id \notin {"brightness", "white_balance", "exposure", "gain"}
<1>a. \A o, id : Free(id) => Fine(Plain(o, id), Simply(o, id)) BY PlainFine
<1>b. \A o, mode, manual, id : \A value \in Int :
        Free(mode) /\ id \in Names /\ mode # id
          /\ (id = "brightness" => mode = "autobrightness")
          /\ (id = "white_balance" => mode = "auto_white_balance")
          /\ (id = "exposure" => mode = "exposure_auto") /\ (id = "gain" => mode = "autogain")
        => Fine(Paired(o, mode, manual, id, value), Moded(o, mode, manual, id, value))
  BY PairedFine
<1>1. Fine(Plain("sh", "sharpness"), Simply("sh", "sharpness")) BY <1>a DEF Names
<1>2. Fine(Plain("co", "contrast"), Simply("co", "contrast")) BY <1>a DEF Names
<1>3. Fine(Plain("sa", "saturation"), Simply("sa", "saturation")) BY <1>a DEF Names
<1>4. Fine(Plain("bk", "backlight"), Simply("bk", "backlight")) BY <1>a DEF Names
<1>5. Fine(Plain("rot", "rotate"), Simply("rot", "rotate")) BY <1>a DEF Names
<1>6. Fine(Plain("hf", "hflip"), Simply("hf", "hflip")) BY <1>a DEF Names
<1>7. Fine(Plain("vf", "vflip"), Simply("vf", "vflip")) BY <1>a DEF Names
<1>8. Fine(Plain("pl", "vflip"), Simply("pl", "vflip")) BY <1>a DEF Names
<1>9. Fine(Paired("br", "autobrightness", 0, "brightness", ValueOf("br")),
          Moded("br", "autobrightness", 0, "brightness", ValueOf("br")))
  BY ValueOfInt, <1>b DEF Names
<1>10. Fine(Paired("wb", "auto_white_balance", 0, "white_balance", ValueOf("wb")),
          Moded("wb", "auto_white_balance", 0, "white_balance", ValueOf("wb")))
  BY ValueOfInt, <1>b DEF Names
<1>11. Fine(Paired("ex", "exposure_auto", 1, "exposure", ValueOf("ex")),
          Moded("ex", "exposure_auto", 1, "exposure", ValueOf("ex")))
  BY ValueOfInt, <1>b DEF Names
<1>12. Fine(Paired("gain", "autogain", 0, "gain", ValueOf("gain")),
          Moded("gain", "autogain", 0, "gain", ValueOf("gain")))
  BY ValueOfInt, <1>b DEF Names
<1>13. Fine(Paired("cagc", "auto_white_balance", 0, "white_balance", ValueOf("cagc")),
          Moded("cagc", "auto_white_balance", 0, "white_balance", ValueOf("cagc")))
  BY ValueOfInt, <1>b DEF Names
<1>14. Fine(Paired("cb", "hue_auto", 0, "hue", ValueOf("cagc")),
          Moded("cb", "hue_auto", 0, "hue", ValueOf("cagc")))
  BY ValueOfInt, <1>b DEF Names
<1>15. PICK q1, q2, q3, q4, q5, q6, q7, q8, q9, q10, q11, q12, q13, q14 :
         /\ q1 = Plain("sh", "sharpness")
         /\ q2 = Plain("co", "contrast")
         /\ q3 = Plain("sa", "saturation")
         /\ q4 = Plain("bk", "backlight")
         /\ q5 = Plain("rot", "rotate")
         /\ q6 = Plain("hf", "hflip")
         /\ q7 = Plain("vf", "vflip")
         /\ q8 = Plain("pl", "vflip")
         /\ q9 = Paired("br", "autobrightness", 0, "brightness", ValueOf("br"))
         /\ q10 = Paired("wb", "auto_white_balance", 0, "white_balance", ValueOf("wb"))
         /\ q11 = Paired("ex", "exposure_auto", 1, "exposure", ValueOf("ex"))
         /\ q12 = Paired("gain", "autogain", 0, "gain", ValueOf("gain"))
         /\ q13 = Paired("cagc", "auto_white_balance", 0, "white_balance", ValueOf("cagc"))
         /\ q14 = Paired("cb", "hue_auto", 0, "hue", ValueOf("cagc"))
  OBVIOUS
<1>16. PICK t1, t2, t3, t4, t5, t6, t7, t8, t9, t10, t11, t12, t13, t14 :
         /\ t1 = Simply("sh", "sharpness")
         /\ t2 = Simply("co", "contrast")
         /\ t3 = Simply("sa", "saturation")
         /\ t4 = Simply("bk", "backlight")
         /\ t5 = Simply("rot", "rotate")
         /\ t6 = Simply("hf", "hflip")
         /\ t7 = Simply("vf", "vflip")
         /\ t8 = Simply("pl", "vflip")
         /\ t9 = Moded("br", "autobrightness", 0, "brightness", ValueOf("br"))
         /\ t10 = Moded("wb", "auto_white_balance", 0, "white_balance", ValueOf("wb"))
         /\ t11 = Moded("ex", "exposure_auto", 1, "exposure", ValueOf("ex"))
         /\ t12 = Moded("gain", "autogain", 0, "gain", ValueOf("gain"))
         /\ t13 = Moded("cagc", "auto_white_balance", 0, "white_balance", ValueOf("cagc"))
         /\ t14 = Moded("cb", "hue_auto", 0, "hue", ValueOf("cagc"))
  OBVIOUS
<1>17. /\ Fine(q1, t1) /\ Fine(q2, t2) /\ Fine(q3, t3) /\ Fine(q4, t4) /\ Fine(q5, t5)
       /\ Fine(q6, t6) /\ Fine(q7, t7) /\ Fine(q8, t8) /\ Fine(q9, t9) /\ Fine(q10, t10)
       /\ Fine(q11, t11) /\ Fine(q12, t12) /\ Fine(q13, t13) /\ Fine(q14, t14)
  BY <1>1, <1>2, <1>3, <1>4, <1>5, <1>6, <1>7, <1>8, <1>9, <1>10, <1>11, <1>12, <1>13, <1>14, <1>15, <1>16
<1>18. Orders = Cat(Cat(Cat(Cat(Cat(Cat(Cat(Cat(Cat(Cat(Cat(Cat(Cat(q1, q2), q3), q4), q5), q6), q7), q8), q9), q10), q11), q12), q13), q14)
  BY <1>15 DEF Orders, Cat
<1> HIDE <1>1, <1>2, <1>3, <1>4, <1>5, <1>6, <1>7, <1>8, <1>9, <1>10, <1>11, <1>12, <1>13, <1>14, <1>15, <1>16
<1>19. Fine(Cat(Cat(Cat(Cat(Cat(Cat(Cat(Cat(Cat(Cat(Cat(Cat(Cat(q1, q2), q3), q4), q5), q6), q7), q8), q9), q10), q11), q12), q13), q14),
            t1 \cup t2 \cup t3 \cup t4 \cup t5 \cup t6 \cup t7 \cup t8 \cup t9 \cup t10 \cup t11 \cup t12 \cup t13 \cup t14)
  <2>1. Fine(Cat(q1, q2), t1 \cup t2) BY <1>17, FineCat
  <2>2. ASSUME NEW a, NEW t, Fine(a, t) PROVE Fine(Cat(a, q3), t \cup t3) BY <1>17, <2>2, FineCat
  <2>3. ASSUME NEW a, NEW t, Fine(a, t) PROVE Fine(Cat(a, q4), t \cup t4) BY <1>17, <2>3, FineCat
  <2>4. ASSUME NEW a, NEW t, Fine(a, t) PROVE Fine(Cat(a, q5), t \cup t5) BY <1>17, <2>4, FineCat
  <2>5. ASSUME NEW a, NEW t, Fine(a, t) PROVE Fine(Cat(a, q6), t \cup t6) BY <1>17, <2>5, FineCat
  <2>6. ASSUME NEW a, NEW t, Fine(a, t) PROVE Fine(Cat(a, q7), t \cup t7) BY <1>17, <2>6, FineCat
  <2>7. ASSUME NEW a, NEW t, Fine(a, t) PROVE Fine(Cat(a, q8), t \cup t8) BY <1>17, <2>7, FineCat
  <2>8. ASSUME NEW a, NEW t, Fine(a, t) PROVE Fine(Cat(a, q9), t \cup t9) BY <1>17, <2>8, FineCat
  <2>9. ASSUME NEW a, NEW t, Fine(a, t) PROVE Fine(Cat(a, q10), t \cup t10) BY <1>17, <2>9, FineCat
  <2>10. ASSUME NEW a, NEW t, Fine(a, t) PROVE Fine(Cat(a, q11), t \cup t11) BY <1>17, <2>10, FineCat
  <2>11. ASSUME NEW a, NEW t, Fine(a, t) PROVE Fine(Cat(a, q12), t \cup t12) BY <1>17, <2>11, FineCat
  <2>12. ASSUME NEW a, NEW t, Fine(a, t) PROVE Fine(Cat(a, q13), t \cup t13) BY <1>17, <2>12, FineCat
  <2>13. ASSUME NEW a, NEW t, Fine(a, t) PROVE Fine(Cat(a, q14), t \cup t14) BY <1>17, <2>13, FineCat
  <2>14. QED BY <2>1, <2>2, <2>3, <2>4, <2>5, <2>6, <2>7, <2>8, <2>9, <2>10, <2>11, <2>12, <2>13
<1>20. QED BY <1>16, <1>18, <1>19

\* What becomes of the record of a thread that goes on, and of one that returns.
LEMMA GoesDoes ==
  ASSUME WriterShape, NEW w \in Writers, NEW pc, WriterGoes(w, pc)
  PROVE  /\ \A v \in Writers \ {w} : writer'[v] = writer[v]
         /\ writer'[w].pc = pc /\ writer'[w].group = writer[w].group /\ writer'[w].id = writer[w].id
         /\ writer'[w].value = writer[w].value /\ writer'[w].res = writer[w].res
<1>1. PICK r : r = Record(pc, writer[w].group, writer[w].id, writer[w].value, writer[w].res, writer[w].took)
  OBVIOUS
<1>2. writer' = [writer EXCEPT ![w] = r] BY <1>1, GoesOn
<1>3. /\ r.pc = pc /\ r.group = writer[w].group /\ r.id = writer[w].id
      /\ r.value = writer[w].value /\ r.res = writer[w].res
  BY <1>1 DEF Record
<1>4. writer = [v \in Writers |-> writer[v]] BY DEF WriterShape
<1> HIDE <1>1
<1>5. writer'[w] = r /\ \A v \in Writers \ {w} : writer'[v] = writer[v] BY <1>2, <1>4
<1>6. QED BY <1>3, <1>5

\* What becomes of the record of a thread that returns.
LEMMA ReturnsDoes ==
  ASSUME WriterShape, NEW w \in Writers, NEW res, Returns(w, res)
  PROVE  /\ \A v \in Writers \ {w} : writer'[v] = writer[v]
         /\ w = Starter => writer'[w] = AtRest
         /\ w # Starter =>
              /\ writer'[w].pc = "answer" /\ writer'[w].group = writer[w].group
              /\ writer'[w].id = writer[w].id
              /\ writer'[w].value = writer[w].value /\ writer'[w].res = res
<1>1. PICK r : r = IF w = Starter THEN AtRest
                   ELSE Record("answer", writer[w].group, writer[w].id, writer[w].value, res, writer[w].took)
  OBVIOUS
<1>2. writer' = [writer EXCEPT ![w] = r] BY <1>1, Returned DEF AtRest
<1>3. /\ w = Starter => r = AtRest
      /\ w # Starter => /\ r.pc = "answer" /\ r.group = writer[w].group /\ r.id = writer[w].id
                        /\ r.value = writer[w].value /\ r.res = res
  BY <1>1 DEF Record
<1>4. writer = [v \in Writers |-> writer[v]] BY DEF WriterShape
<1> HIDE <1>1
<1>5. writer'[w] = r /\ \A v \in Writers \ {w} : writer'[v] = writer[v] BY <1>2, <1>4
<1>6. QED BY <1>3, <1>5

\* The camera takes a value.
Takes(w) ==
  /\ Settable(writer[w].id)
  /\ camera' = [camera EXCEPT ![writer[w].id] = Taken(EntryOf(writer[w].id), writer[w].value)]
  /\ torn' \in {torn, torn \cup {writer[w].id}}
  /\ UNCHANGED refused

\* The ioctl: the camera takes the value, or refuses it.
LEMMA TakesDoes ==
  ASSUME WriterShape, NEW w \in Writers, Ioctl(w)
  PROVE  \/ /\ Takes(w)
            /\ \A v \in Writers \ {w} : writer'[v] = writer[v]
            /\ writer'[w].pc \in {"cache", "note"} /\ writer'[w].group = writer[w].group
            /\ writer'[w].id = writer[w].id
            /\ writer'[w].value = writer[w].value /\ writer'[w].res = writer[w].res
         \/ Returns(w, -1) /\ UNCHANGED <<camera, torn>> /\ (refused' <=> refused \/ Settable(writer[w].id))
<1>1. CASE /\ Settable(writer[w].id)
           /\ camera' = [camera EXCEPT ![writer[w].id] = Taken(EntryOf(writer[w].id), writer[w].value)]
           /\ writer' = [writer EXCEPT ![w] =
                Record(IF EntryOf(writer[w].id).class = "user" THEN "cache" ELSE "note",
                       @.group, @.id, @.value, @.res, TRUE)]
           /\ torn' = IF Overlaps(w, writer[w].id) THEN torn \cup {writer[w].id} ELSE torn
           /\ UNCHANGED refused
  <2>1. PICK pc \in {"cache", "note"} : pc = IF EntryOf(writer[w].id).class = "user" THEN "cache" ELSE "note"
    OBVIOUS
  <2>2. PICK r : r = Record(pc, writer[w].group, writer[w].id, writer[w].value, writer[w].res, TRUE)
    OBVIOUS
  <2>3. writer' = [writer EXCEPT ![w] = r] BY <1>1, <2>1, <2>2
  <2>4. /\ r.pc = pc /\ r.group = writer[w].group /\ r.id = writer[w].id
        /\ r.value = writer[w].value /\ r.res = writer[w].res
    BY <2>2 DEF Record
  <2>5. writer = [v \in Writers |-> writer[v]] BY DEF WriterShape
  <2> HIDE <2>1, <2>2
  <2>6. writer'[w] = r /\ \A v \in Writers \ {w} : writer'[v] = writer[v] BY <2>3, <2>5
  <2>7. Takes(w) BY <1>1 DEF Takes
  <2>8. QED BY <2>4, <2>6, <2>7
<1>2. CASE Returns(w, -1) /\ refused' = (refused \/ Settable(writer[w].id)) /\ UNCHANGED <<camera, torn>>
  BY <1>2
<1>3. QED BY <1>1, <1>2 DEF Ioctl

\* The list changes in values only, and the camera keeps its controls.
LEMMA ListDoes ==
  ASSUME ControlsInv, NEW w \in Writers, Cache(w) \/ Note(w)
  PROVE  \E q \in DOMAIN listed :
           listed' = [listed EXCEPT ![q].value = writer[w].value]
             /\ camera' = camera /\ spoilt' \in BOOLEAN
<1>1. CASE Cache(w)
  <2>1. PositionOf(writer[w].id) \in DOMAIN listed
    BY <1>1, PositionIsThere DEF Cache, ControlsInv, AllSure, Sure
  <2>2. QED BY <1>1, <2>1 DEF Cache, ControlsInv, ListShape
<1>2. CASE Note(w) BY <1>2 DEF Note, ControlsInv, ListShape
<1>3. QED BY <1>1, <1>2

\* The entries keep all but a value.
LEMMA Entries ==
  ASSUME ControlsInv, NEW w \in Writers, Cache(w) \/ Note(w)
  PROVE  /\ DOMAIN listed' = DOMAIN listed
         /\ \A i \in DOMAIN listed :
              /\ listed'[i].id = listed[i].id /\ listed'[i].class = listed[i].class
              /\ listed'[i].min = listed[i].min /\ listed'[i].max = listed[i].max
              /\ listed'[i].group = listed[i].group
              /\ listed'[i].value \in {listed[i].value, writer[w].value}
<1>1. PICK q \in DOMAIN listed :
         listed' = [listed EXCEPT ![q].value = writer[w].value]
           /\ camera' = camera /\ spoilt' \in BOOLEAN
  BY ListDoes
<1>2. ListShape BY DEF ControlsInv
<1>3. PICK v : v = writer[w].value OBVIOUS
<1>4. /\ DOMAIN listed' = DOMAIN listed
      /\ \A i \in DOMAIN listed :
           /\ listed'[i].id = listed[i].id /\ listed'[i].class = listed[i].class
           /\ listed'[i].min = listed[i].min /\ listed'[i].max = listed[i].max
           /\ listed'[i].group = listed[i].group
           /\ i # q => listed'[i].value = listed[i].value
      /\ listed'[q].value = v
  BY <1>1, <1>2, <1>3, NewValue
<1>5. QED BY <1>3, <1>4

\* Can, for a control that the camera has, does not change.
LEMMA CanStays ==
  ASSUME ControlsInv, [ControlsNext]_controlVars, ListShape'
  PROVE  /\ \A id, v : Can(id, v)' <=> Can(id, v)
         /\ DOMAIN camera' = DOMAIN camera /\ options' = options
<1>1. ASSUME NEW w \in Writers, Cache(w) \/ Note(w)
      PROVE  \A id, v : Can(id, v)' <=> Can(id, v)
  <2>1. PICK q \in DOMAIN listed :
           listed' = [listed EXCEPT ![q].value = writer[w].value]
             /\ camera' = camera /\ spoilt' \in BOOLEAN
    BY <1>1, ListDoes
  <2>2. PICK u : u = writer[w].value OBVIOUS
  <2>3. listed' = [listed EXCEPT ![q].value = u] BY <2>1, <2>2
  <2>4. ListShape BY DEF ControlsInv
  <2>5. \A id : PositionOf(id)' = PositionOf(id) BY <2>1, <2>3, <2>4, NewValue
  <2>6. ASSUME NEW id, PositionOf(id) # 0
        PROVE  \A v : InRange(EntryOf(id), v)' <=> InRange(EntryOf(id), v)
    BY <2>1, <2>3, <2>4, <2>6, Lookups
  <2>7. QED BY <2>5, <2>6 DEF Can
<1>2. ASSUME UNCHANGED listed PROVE \A id, v : Can(id, v)' <=> Can(id, v)
  BY <1>2, SameList DEF Can
<1>3. ASSUME NEW w \in Writers, Ioctl(w) PROVE UNCHANGED listed /\ DOMAIN camera' = DOMAIN camera
  BY <1>3 DEF Ioctl
<1>4. ASSUME NEW w \in Writers, Cache(w) \/ Note(w) PROVE DOMAIN camera' = DOMAIN camera
  BY <1>4 DEF Cache, Note
<1>5. ASSUME NEW w \in Asking, Give(w) \/ JpegQuality(w) \/ Written(w)
      PROVE  UNCHANGED <<listed, camera, options>>
  BY <1>5 DEF Give, JpegQuality, Written
<1>6. ASSUME NEW w \in Writers, FindControl(w) PROVE UNCHANGED <<listed, camera>>
  BY <1>6 DEF FindControl
<1>7. CASE SetOption BY <1>2, <1>7 DEF SetOption
<1>8. CASE UNCHANGED controlVars BY <1>2, <1>8 DEF controlVars
<1>9. options' = options
  BY DEF ControlsNext, controlVars, SetOption, Give, JpegQuality, Written, FindControl, Ioctl, Cache, Note
<1>10. QED BY <1>1, <1>2, <1>3, <1>4, <1>5, <1>6, <1>7, <1>8, <1>9 DEF ControlsNext


\* The record of a thread that does nothing.
LEMMA AtRestIs ==
  /\ AtRest.pc = "idle" /\ AtRest.group = "v4l2" /\ AtRest.id = ""
  /\ AtRest.value \in Int /\ AtRest.res \in {-1, 0} /\ AtRest.took = FALSE
<1>1. AtRest = [pc |-> "idle", group |-> "v4l2", id |-> "", value |-> 0, res |-> 0, took |-> FALSE]
  BY DEF AtRest, Record
<1>2. AtRest.pc = "idle" /\ AtRest.group = "v4l2" /\ AtRest.id = "" /\ AtRest.took = FALSE BY <1>1
<1>3. AtRest.value = 0 /\ AtRest.res = 0 BY <1>1
<1>4. AtRest.value \in Int /\ AtRest.res \in {-1, 0} BY <1>3
<1>5. QED BY <1>2, <1>4

\* An entry of the list at the start has the type of an entry.
LEMMA ReadedType ==
  ASSUME NEW c \in Controls, NEW readable
  PROVE  LET e == ControlReaded(c, readable)
         IN  /\ e.class \in {"user", "extended"} /\ e.group = "v4l2" /\ e.id = c.id
             /\ e.min \in Int /\ e.max \in Int /\ e.value \in Int
<1>1. c.class \in {"user", "extended"} /\ c.min \in Int /\ c.max \in Int /\ c.initial \in Int
  BY DEF Controls
<1>2. Unread(c) \in Int
  <2>1. Unread(c) \in {0, 1, 3} BY DEF Unread
  <2>2. QED BY <2>1
<1>3. PICK v \in Int : v = IF c.id \in readable THEN c.initial ELSE Unread(c) BY <1>1, <1>2
<1>4. ControlReaded(c, readable) =
        [id |-> c.id, class |-> c.class, min |-> c.min, max |-> c.max, group |-> "v4l2", value |-> v]
  BY <1>3 DEF ControlReaded
<1>5. QED BY <1>1, <1>3, <1>4

\* Everything starts in its range.
LEMMA ControlsTypeStart == ControlsInit => ControlsTypeInv
<1> SUFFICES ASSUME ControlsInit PROVE ControlsTypeInv
  OBVIOUS
<1>1. PICK s \in Starts, class \in {"user", "extended"} :
        /\ options = s.options
        /\ camera = [id \in {control.id : control \in ToSet(s.controls)} |->
                       (CHOOSE control \in ToSet(s.controls) : control.id = id).initial]
        /\ listed = EnumerateControls(s.controls, s.readable, class)
        /\ known = s.readable
        /\ jpeg = [wanted |-> 0, actual |-> 0]
        /\ orders = Orders
        /\ writer = [w \in Writers |-> AtRest]
        /\ commands = 0 /\ torn = {} /\ spoilt = FALSE /\ refused = FALSE
  BY DEF ControlsInit
<1> DEFINE cs == s.controls
           n == Len(cs)
<1>2. cs \in Seq(Controls) /\ DOMAIN cs = 1 .. n /\ n \in Nat BY StartsAssumption
<1>3. \A i \in 1 .. n : cs[i] \in Controls BY <1>2
<1>4. ToSet(cs) = {cs[i] : i \in 1 .. n} BY <1>2 DEF ToSet
<1>5. DOMAIN camera = {cs[i].id : i \in 1 .. n} BY <1>1, <1>4
<1>6. OptionsType BY <1>1, StartsAssumption DEF OptionsType
<1>7. \A id \in DOMAIN camera : camera[id] \in Int
  <2>1. TAKE id \in DOMAIN camera
  <2>2. PICK c : c = CHOOSE control \in ToSet(cs) : control.id = id OBVIOUS
  <2>3. c \in ToSet(cs) BY <2>2, <1>4, <1>5
  <2>4. c \in Controls BY <2>3, <1>3, <1>4
  <2>5. camera[id] = c.initial BY <2>2, <1>1
  <2>6. QED BY <2>4, <2>5 DEF Controls
<1>8. ListType
  <2>1. DOMAIN listed = 1 .. n + 1 BY <1>1, <1>2 DEF EnumerateControls
  <2>2. ASSUME NEW i \in 1 .. n
        PROVE  /\ listed[i].class \in {"user", "extended"} /\ listed[i].group = "v4l2"
               /\ listed[i].id \in DOMAIN camera
               /\ listed[i].min \in Int /\ listed[i].max \in Int /\ listed[i].value \in Int
    <3>1. listed[i] = ControlReaded(cs[i], s.readable) BY <1>1, <1>2 DEF EnumerateControls
    <3>2. QED BY <3>1, <1>3, <1>5, ReadedType
  <2>3. listed[n + 1] = [id |-> "jpeg", class |-> class, min |-> 0, max |-> 100, group |-> "jpeg", value |-> 0]
    BY <1>1, <1>2 DEF EnumerateControls
  <2>4. /\ listed[n + 1].class \in {"user", "extended"} /\ listed[n + 1].group = "jpeg"
        /\ listed[n + 1].id = "jpeg" /\ listed[n + 1].min \in Int
        /\ listed[n + 1].max \in Int /\ listed[n + 1].value \in Int
    BY <2>3
  <2>5. \A i \in DOMAIN listed : i = n + 1 \/ i \in 1 .. n BY <2>1, <1>2
  <2>6. QED BY <2>2, <2>4, <2>5 DEF ListType
<1>9. WriterType
  <2>1. \A w \in Writers : writer[w] = AtRest BY <1>1
  <2>2. Starter \in Writers BY DEF Writers
  <2>3. \A w \in Writers :
          /\ writer[w].pc = "idle" /\ writer[w].group = "v4l2" /\ writer[w].id = ""
          /\ writer[w].value \in Int /\ writer[w].res \in {-1, 0}
    BY <2>1, AtRestIs
  <2>4. QED BY <2>2, <2>3 DEF WriterType, Groups
<1>10. orders \in Seq(Names \X Int) BY <1>1, <1>6, OrdersAre DEF Fine
<1>11. known \subseteq DOMAIN camera
  <2>1. s.readable \subseteq {s.controls[i].id : i \in DOMAIN s.controls} BY StartsAssumption
  <2>2. QED BY <2>1, <1>1, <1>2, <1>5
<1>12. /\ jpeg \in [wanted : 0 .. 100, actual : 0 .. 100]
       /\ commands \in 0 .. MaxCommands /\ spoilt \in BOOLEAN /\ refused \in BOOLEAN
       /\ torn \subseteq known \cup DOMAIN camera
  <2>1. jpeg \in [wanted : 0 .. 100, actual : 0 .. 100] BY <1>1
  <2>2. commands \in 0 .. MaxCommands BY <1>1, ValuesAssumption
  <2>3. spoilt \in BOOLEAN /\ refused \in BOOLEAN BY <1>1
  <2>4. torn \subseteq known \cup DOMAIN camera BY <1>1
  <2>5. QED BY <2>1, <2>2, <2>3, <2>4
<1>13. QED BY <1>6, <1>7, <1>8, <1>9, <1>10, <1>11, <1>12 DEF ControlsTypeInv, OptionsType

\* What one thread's record may hold.
RecordType(w, r, ids) ==
  /\ r.group \in Groups /\ r.value \in Int /\ r.res \in {-1, 0}
  /\ w \in Asking => r.id \in ids \cup {"", "jpeg", "unknown"}
  /\ w = Starter => r.pc \notin {"jpeg", "answer"}

\* The types of the records, thread by thread.
LEMMA ByRecord ==
  WriterType <=> \A w \in Writers : RecordType(w, writer[w], DOMAIN camera)
BY DEF WriterType, RecordType, Writers

\* One thread moves, and its record keeps its type.
LEMMA TypeMoves ==
  ASSUME WriterType, NEW w \in Writers, DOMAIN camera' = DOMAIN camera,
         \A v \in Writers \ {w} : writer'[v] = writer[v],
         RecordType(w, writer'[w], DOMAIN camera)
  PROVE  WriterType'
<1>1. \A v \in Writers : RecordType(v, writer'[v], DOMAIN camera')
  BY ByRecord
<1>2. QED BY <1>1 DEF WriterType, RecordType, Writers

\* Types, of a thread that returns.
LEMMA TypeReturns ==
  ASSUME WriterType, WriterShape, DOMAIN camera' = DOMAIN camera,
         NEW w \in Writers, NEW res \in {-1, 0}, Returns(w, res)
  PROVE  WriterType'
<1>1. RecordType(w, writer[w], DOMAIN camera) BY ByRecord
<1>2. /\ \A v \in Writers \ {w} : writer'[v] = writer[v]
      /\ w = Starter => writer'[w] = AtRest
      /\ w # Starter =>
           /\ writer'[w].pc = "answer" /\ writer'[w].group = writer[w].group
           /\ writer'[w].id = writer[w].id
           /\ writer'[w].value = writer[w].value /\ writer'[w].res = res
  BY ReturnsDoes
<1>3. RecordType(Starter, AtRest, DOMAIN camera)
  BY AtRestIs, StarterAssumption DEF RecordType, Groups
<1>4. RecordType(w, writer'[w], DOMAIN camera)
  <2>1. CASE w = Starter BY <2>1, <1>2, <1>3
  <2>2. CASE w # Starter BY <2>2, <1>1, <1>2 DEF RecordType
  <2>3. QED BY <2>1, <2>2
<1>5. QED BY <1>2, <1>4, TypeMoves

\* Types, of a thread that goes on.
LEMMA TypeGoes ==
  ASSUME WriterType, WriterShape, DOMAIN camera' = DOMAIN camera,
         NEW w \in Writers, NEW pc \in {"ioctl", "cache", "note"}, WriterGoes(w, pc)
  PROVE  WriterType'
<1>1. RecordType(w, writer[w], DOMAIN camera) BY ByRecord
<1>2. /\ \A v \in Writers \ {w} : writer'[v] = writer[v]
      /\ writer'[w].pc = pc /\ writer'[w].group = writer[w].group /\ writer'[w].id = writer[w].id
      /\ writer'[w].value = writer[w].value /\ writer'[w].res = writer[w].res
  BY GoesDoes
<1>3. RecordType(w, writer'[w], DOMAIN camera) BY <1>1, <1>2 DEF RecordType
<1>4. QED BY <1>2, <1>3, TypeMoves


\* A new order, which is one of those that options give.
LEMMA TypeOfSet ==
  ASSUME ControlsTypeInv, WriterShape, SetOption
  PROVE  ControlsTypeInv'
<1>1. Starter \in Writers BY DEF Writers
<1>2. orders \in Seq(Names \X Int) /\ orders # <<>> BY DEF ControlsTypeInv, SetOption
<1>3. Head(orders) \in Names \X Int /\ Tail(orders) \in Seq(Names \X Int) BY <1>2
<1>4. PICK h \in Names \X Int : h = Head(orders) BY <1>3
<1>5. PICK r : r = Record("v4l2", "v4l2", h[1], h[2], 0, FALSE) OBVIOUS
<1>6. writer' = [writer EXCEPT ![Starter] = r] BY <1>4, <1>5 DEF SetOption
<1>7. r.pc = "v4l2" /\ r.group = "v4l2" /\ r.value \in Int /\ r.res = 0 BY <1>5 DEF Record
<1>8. writer = [v \in Writers |-> writer[v]] BY DEF WriterShape
<1> HIDE <1>5
<1>9. writer'[Starter] = r /\ \A v \in Writers \ {Starter} : writer'[v] = writer[v]
  BY <1>1, <1>6, <1>8
<1>10. UNCHANGED <<options, camera, listed, jpeg, commands, torn, known, spoilt, refused>>
  BY DEF SetOption
<1>11. WriterType'
  <2>1. RecordType(Starter, writer'[Starter], DOMAIN camera)
    BY <1>7, <1>9, StarterAssumption DEF RecordType, Groups
  <2>2. QED BY <1>1, <1>9, <1>10, <2>1, TypeMoves DEF ControlsTypeInv
<1>12. orders' \in Seq(Names \X Int) BY <1>3 DEF SetOption
<1>13. ListType' BY <1>10 DEF ControlsTypeInv, ListType
<1>14. QED BY <1>10, <1>11, <1>12, <1>13 DEF ControlsTypeInv

\* What a browser asks for.
LEMMA TypeOfGive ==
  ASSUME ControlsTypeInv, WriterShape, NEW w \in Asking, Give(w)
  PROVE  ControlsTypeInv'
<1>1. w \in Writers /\ w # Starter BY StarterAssumption DEF Writers
<1>2. PICK group \in {"v4l2", "jpeg", "generic", "elsewhere"}, value \in Values :
        \E id \in IF group = "v4l2" THEN DOMAIN camera \cup {"jpeg", "unknown"} ELSE {"jpeg"} :
          writer' = [writer EXCEPT ![w] =
            Record(IF group \in {"generic", "elsewhere"} THEN "answer" ELSE group,
                   group, id, value, IF group = "generic" THEN -1 ELSE 0, FALSE)]
  BY DEF Give
<1>3. PICK id \in DOMAIN camera \cup {"jpeg", "unknown"} :
        writer' = [writer EXCEPT ![w] =
          Record(IF group \in {"generic", "elsewhere"} THEN "answer" ELSE group,
                 group, id, value, IF group = "generic" THEN -1 ELSE 0, FALSE)]
  <2>1. CASE group = "v4l2" BY <1>2, <2>1
  <2>2. CASE group # "v4l2" BY <1>2, <2>2
  <2>3. QED BY <2>1, <2>2
<1>4. PICK pc, res :
        /\ pc = IF group \in {"generic", "elsewhere"} THEN "answer" ELSE group
        /\ res = IF group = "generic" THEN -1 ELSE 0
  OBVIOUS
<1>4a. res \in {-1, 0} BY <1>4
<1>5. PICK r : r = Record(pc, group, id, value, res, FALSE) OBVIOUS
<1>6. writer' = [writer EXCEPT ![w] = r] BY <1>3, <1>4, <1>5
<1>7. r.group = group /\ r.id = id /\ r.value = value /\ r.res = res BY <1>5 DEF Record
<1>8. writer = [v \in Writers |-> writer[v]] BY DEF WriterShape
<1> HIDE <1>4, <1>5
<1>9. writer'[w] = r /\ \A v \in Writers \ {w} : writer'[v] = writer[v]
  BY <1>1, <1>6, <1>8
<1>10. UNCHANGED <<options, camera, listed, jpeg, orders, torn, known, spoilt, refused>>
  BY DEF Give
<1>11. WriterType'
  <2>1. RecordType(w, writer'[w], DOMAIN camera)
    BY <1>1, <1>4a, <1>7, <1>9, ValuesAssumption DEF RecordType, Groups
  <2>2. QED BY <1>1, <1>9, <1>10, <2>1, TypeMoves DEF ControlsTypeInv
<1>12. commands' \in 0 .. MaxCommands BY ValuesAssumption DEF Give, ControlsTypeInv
<1>13. ListType' BY <1>10 DEF ControlsTypeInv, ListType
<1>14. QED BY <1>10, <1>11, <1>12, <1>13 DEF ControlsTypeInv

\* The quality of JPEG.
LEMMA TypeOfJpeg ==
  ASSUME ControlsTypeInv, WriterShape, NEW w \in Asking, JpegQuality(w)
  PROVE  ControlsTypeInv'
<1>1. w \in Writers BY DEF Writers
<1>2. UNCHANGED <<options, camera, listed, orders, commands, torn, known, spoilt, refused>>
  BY DEF JpegQuality
<1>3. PICK m, z : m = -1 /\ z = 0 OBVIOUS
<1>4. m \in {-1, 0} /\ z \in {-1, 0} BY <1>3
<1>5. Returns(w, m) \/ Returns(w, z) BY <1>3 DEF JpegQuality
<1>6. jpeg' \in [wanted : 0 .. 100, actual : 0 .. 100]
  <2>1. jpeg \in [wanted : 0 .. 100, actual : 0 .. 100] BY DEF ControlsTypeInv
  <2>2. CASE writer[w].value \notin 0 .. 100 BY <2>1, <2>2 DEF JpegQuality
  <2>3. CASE writer[w].value \in 0 .. 100
    <3>1. PICK v \in 0 .. 100 : v = writer[w].value BY <2>3
    <3>2. PICK actual \in {v, jpeg.actual} : jpeg' = [wanted |-> v, actual |-> actual]
      BY <2>3, <3>1 DEF JpegQuality
    <3>3. actual \in 0 .. 100 BY <2>1, <3>2
    <3>4. QED BY <3>2, <3>3
  <2>4. QED BY <2>2, <2>3
<1> HIDE <1>3
<1>7. WriterType' BY <1>1, <1>2, <1>4, <1>5, TypeReturns DEF ControlsTypeInv
<1>8. ListType' BY <1>2 DEF ControlsTypeInv, ListType
<1>9. QED BY <1>2, <1>6, <1>7, <1>8 DEF ControlsTypeInv

\* An answer that has been written.
LEMMA TypeOfWritten ==
  ASSUME ControlsTypeInv, WriterShape, NEW w \in Asking, Written(w)
  PROVE  ControlsTypeInv'
<1>1. w \in Writers /\ w # Starter BY StarterAssumption DEF Writers
<1>2. UNCHANGED <<options, camera, listed, jpeg, orders, commands, torn, known, spoilt, refused>>
  BY DEF Written
<1>3. writer = [v \in Writers |-> writer[v]] BY DEF WriterShape
<1>4. writer'[w] = AtRest /\ \A v \in Writers \ {w} : writer'[v] = writer[v]
  BY <1>1, <1>3 DEF Written
<1>5. RecordType(w, AtRest, DOMAIN camera) BY <1>1, AtRestIs DEF RecordType, Groups
<1>6. RecordType(w, writer'[w], DOMAIN camera) BY <1>4, <1>5
<1>7. WriterType' BY <1>1, <1>2, <1>4, <1>6, TypeMoves DEF ControlsTypeInv
<1>8. ListType' BY <1>2 DEF ControlsTypeInv, ListType
<1>9. QED BY <1>2, <1>7, <1>8 DEF ControlsTypeInv

\* The control is looked for.
LEMMA TypeOfFind ==
  ASSUME ControlsTypeInv, WriterShape, NEW w \in Writers, FindControl(w)
  PROVE  ControlsTypeInv'
<1>1. UNCHANGED <<options, camera, listed, jpeg, orders, commands, torn, known, spoilt, refused>>
  BY DEF FindControl
<1>2. PICK m, i, n : m = -1 /\ i = "ioctl" /\ n = "note" OBVIOUS
<1>3. m \in {-1, 0} /\ {i, n} \subseteq {"ioctl", "cache", "note"} BY <1>2
<1>4. Returns(w, m) \/ WriterGoes(w, i) \/ WriterGoes(w, n) BY <1>2 DEF FindControl
<1> HIDE <1>2
<1>5. WriterType' BY <1>1, <1>3, <1>4, TypeReturns, TypeGoes DEF ControlsTypeInv
<1>6. ListType' BY <1>1 DEF ControlsTypeInv, ListType
<1>7. QED BY <1>1, <1>5, <1>6 DEF ControlsTypeInv

\* The camera takes a number, or nothing.
LEMMA TypeOfIoctl ==
  ASSUME ControlsTypeInv, ControlsInv, NEW w \in Writers, Ioctl(w)
  PROVE  ControlsTypeInv'
<1>1. UNCHANGED <<options, listed, jpeg, orders, commands, known, spoilt>> /\ writer[w].pc = "ioctl"
  BY DEF Ioctl
<1>2. WriterShape /\ ListShape BY DEF ControlsInv
<1>3. RecordType(w, writer[w], DOMAIN camera) BY ByRecord DEF ControlsTypeInv
<1>4. CASE /\ Takes(w)
           /\ \A v \in Writers \ {w} : writer'[v] = writer[v]
           /\ writer'[w].pc \in {"cache", "note"} /\ writer'[w].group = writer[w].group
           /\ writer'[w].id = writer[w].id
           /\ writer'[w].value = writer[w].value /\ writer'[w].res = writer[w].res
  <2>1. PICK id : id = writer[w].id OBVIOUS
  <2>2. id \in DOMAIN camera BY <1>4, <2>1 DEF Takes, Settable
  <2>3. PositionOf(id) \in DOMAIN listed
    BY <1>1, <1>2, <2>1, PositionIsThere DEF ControlsInv, AllSure, Sure
  <2>4. PICK t \in Int : t = Taken(EntryOf(id), writer[w].value)
    <3>1. EntryOf(id).min \in Int /\ EntryOf(id).max \in Int
      BY <2>3 DEF EntryOf, ControlsTypeInv, ListType
    <3>2. writer[w].value \in Int BY <1>3 DEF RecordType
    <3>3. QED BY <3>1, <3>2 DEF Taken
  <2>5. camera' = [camera EXCEPT ![id] = t] BY <1>4, <2>1, <2>4 DEF Takes
  <2>6. torn' \in {torn, torn \cup {id}} /\ UNCHANGED refused BY <1>4, <2>1 DEF Takes
  <2>7. camera = [x \in DOMAIN camera |-> camera[x]] BY <1>2 DEF ListShape
  <2> HIDE <2>4
  <2>8. DOMAIN camera' = DOMAIN camera /\ \A x \in DOMAIN camera : camera'[x] \in {t, camera[x]}
    BY <2>2, <2>5, <2>7
  <2>9. \A x \in DOMAIN camera' : camera'[x] \in Int BY <2>8 DEF ControlsTypeInv
  <2>10. torn' \subseteq known' \cup DOMAIN camera' /\ known' \subseteq DOMAIN camera'
    BY <1>1, <2>2, <2>6, <2>8 DEF ControlsTypeInv
  <2>11. WriterType'
    <3>1. RecordType(w, writer'[w], DOMAIN camera) BY <1>3, <1>4 DEF RecordType
    <3>2. QED BY <1>4, <2>8, <3>1, TypeMoves DEF ControlsTypeInv
  <2>12. ListType' BY <1>1, <2>8 DEF ControlsTypeInv, ListType
  <2>13. QED BY <1>1, <2>6, <2>9, <2>10, <2>11, <2>12 DEF ControlsTypeInv
<1>5. CASE Returns(w, -1) /\ UNCHANGED <<camera, torn>> /\ (refused' <=> refused \/ Settable(writer[w].id))
  <2>1. PICK m \in {-1, 0} : m = -1 OBVIOUS
  <2>2. Returns(w, m) BY <1>5, <2>1
  <2> HIDE <2>1
  <2>3. WriterType' BY <1>2, <1>5, <2>2, TypeReturns DEF ControlsTypeInv
  <2>4. ListType' BY <1>1, <1>5 DEF ControlsTypeInv, ListType
  <2>5. refused' \in BOOLEAN
    <3>1. CASE refused' = (refused \/ Settable(writer[w].id)) BY <3>1
    <3>2. CASE UNCHANGED refused BY <3>2 DEF ControlsTypeInv
    <3>3. QED BY <3>1, <3>2 DEF Ioctl
  <2>6. QED BY <1>1, <1>5, <2>3, <2>4, <2>5 DEF ControlsTypeInv
<1>6. QED BY <1>2, <1>4, <1>5, TakesDoes

\* The value goes into the list.
LEMMA TypeOfNoted ==
  ASSUME ControlsTypeInv, ControlsInv, NEW w \in Writers, Cache(w) \/ Note(w)
  PROVE  ControlsTypeInv'
<1>1. UNCHANGED <<options, camera, jpeg, orders, commands, torn, refused>>
  BY DEF Cache, Note
<1>2. WriterShape /\ ListShape BY DEF ControlsInv
<1>3. writer[w].value \in Int
  <2>1. RecordType(w, writer[w], DOMAIN camera) BY ByRecord DEF ControlsTypeInv
  <2>2. QED BY <2>1 DEF RecordType
<1>4. ListType'
  <2>1. PICK v \in Int : v = writer[w].value BY <1>3
  <2>2. /\ DOMAIN listed' = DOMAIN listed
        /\ \A i \in DOMAIN listed :
             /\ listed'[i].id = listed[i].id /\ listed'[i].class = listed[i].class
             /\ listed'[i].min = listed[i].min /\ listed'[i].max = listed[i].max
             /\ listed'[i].group = listed[i].group
             /\ listed'[i].value \in {listed[i].value, v}
    BY <2>1, Entries
  <2>3. QED BY <1>1, <2>2 DEF ControlsTypeInv, ListType
<1>5. WriterType'
  <2>1. PICK z, n : z = 0 /\ n = "note" OBVIOUS
  <2>2. z \in {-1, 0} /\ n \in {"ioctl", "cache", "note"} BY <2>1
  <2>3. Returns(w, z) \/ WriterGoes(w, n) BY <2>1 DEF Cache, Note
  <2> HIDE <2>1
  <2>4. QED BY <1>1, <1>2, <2>2, <2>3, TypeReturns, TypeGoes DEF ControlsTypeInv
<1>6. spoilt' \in BOOLEAN BY ListDoes
<1>7. known' \subseteq DOMAIN camera
  <2>1. CASE Cache(w)
    <3>1. Noting(writer[w]) BY <2>1 DEF Cache, ControlsInv, AllSure, Sure, Noting
    <3>2. writer[w].id \in DOMAIN camera BY <3>1 DEF ControlsInv, Noted, Agrees
    <3>3. QED BY <2>1, <3>2 DEF Cache, ControlsTypeInv
  <2>2. CASE Note(w) BY <2>2 DEF Note, ControlsTypeInv
  <2>3. QED BY <2>1, <2>2
<1>8. QED BY <1>1, <1>4, <1>5, <1>6, <1>7 DEF ControlsTypeInv

\* Every step of the controls keeps them in their ranges.
LEMMA ControlsTypeStep ==
  ControlsTypeInv /\ ControlsInv /\ [ControlsNext]_controlVars => ControlsTypeInv'
<1> SUFFICES ASSUME ControlsTypeInv, ControlsInv, [ControlsNext]_controlVars PROVE ControlsTypeInv'
  OBVIOUS
<1>1. WriterShape BY DEF ControlsInv
<1>2. CASE SetOption BY <1>1, <1>2, TypeOfSet
<1>3. ASSUME NEW w \in Asking, Give(w) \/ JpegQuality(w) \/ Written(w) PROVE ControlsTypeInv'
  BY <1>1, <1>3, TypeOfGive, TypeOfJpeg, TypeOfWritten
<1>4. ASSUME NEW w \in Writers, FindControl(w) \/ Ioctl(w) \/ Cache(w) \/ Note(w)
      PROVE  ControlsTypeInv'
  BY <1>1, <1>4, TypeOfFind, TypeOfIoctl, TypeOfNoted
<1>5. CASE UNCHANGED controlVars
  BY <1>5 DEF controlVars, ControlsTypeInv, ListType, WriterType
<1>6. QED BY <1>2, <1>3, <1>4, <1>5 DEF ControlsNext

\* The two invariants say all that ControlsTypeOK does.
LEMMA ControlsTypeGoal == ControlsTypeInv /\ ControlsInv => ControlsTypeOK
<1> SUFFICES ASSUME ControlsTypeInv, ControlsInv PROVE ControlsTypeOK
  OBVIOUS
<1>1. \A i \in DOMAIN orders : Len(orders[i]) = 2
  <2>1. TAKE i \in DOMAIN orders
  <2>2. orders[i] \in Names \X Int BY DEF ControlsTypeInv
  <2>3. PICK a \in Names, b \in Int : orders[i] = <<a, b>> BY <2>2
  <2>4. QED BY <2>3
<1>2. PICK ids : ids = DOMAIN camera \cup {"", "jpeg", "unknown"} \cup {orders[i][1] : i \in DOMAIN orders}
                         \cup {writer[Starter].id}
  OBVIOUS
<1>3. PICK recs : recs = [pc : Stages, group : Groups, id : ids, value : Int, res : {-1, 0}, took : BOOLEAN]
  OBVIOUS
<1>4. \A w \in Writers : writer[w] \in recs
  <2>1. TAKE w \in Writers
  <2>2. RecordType(w, writer[w], DOMAIN camera) BY ByRecord DEF ControlsTypeInv
  <2>3. writer[w].id \in ids BY <1>2, <2>2 DEF RecordType, Writers
  <2>4. /\ writer[w] = [pc |-> writer[w].pc, group |-> writer[w].group, id |-> writer[w].id,
                        value |-> writer[w].value, res |-> writer[w].res, took |-> writer[w].took]
        /\ writer[w].pc \in Stages /\ writer[w].took \in BOOLEAN
    BY DEF ControlsInv, WriterShape
  <2>5. QED BY <1>3, <2>2, <2>3, <2>4 DEF RecordType
<1>5. writer \in [Writers -> recs]
  <2>1. writer = [w \in Writers |-> writer[w]] BY DEF ControlsInv, WriterShape
  <2>2. QED BY <1>4, <2>1
<1>6. QED BY <1>1, <1>2, <1>3, <1>5 DEF ControlsTypeInv, ControlsTypeOK, ListType, WriterType, Stages, Groups

\* Of the descriptor and the buffers, the resolution and the settings, the list and
\* the values of the camera: every variable keeps its range, for every camera and
\* command line, and any number of threads that command.
THEOREM CameraTypeCorrect == CameraSpec => []CameraTypeOK
<1> DEFINE Inv == kind \in {"resolution", "controls"} /\ SoundInv /\ ControlsInv /\ ControlsTypeInv
<1>1. CameraInit => Inv
  BY CaptureStart, ControlsStart, ControlsTypeStart DEF CameraInit
<1>2. Inv /\ [CameraNext]_cameraVars => Inv'
  <2> SUFFICES ASSUME Inv, [CameraNext]_cameraVars PROVE Inv'
    OBVIOUS
  <2>1. [ControlsNext]_controlVars /\ [Next]_vars /\ kind' = kind BY DEF CameraNext, cameraVars
  <2>2. QED BY <2>1, CaptureStep, ControlsStep, ControlsTypeStep
<1>3. Inv => CameraTypeOK BY CaptureGoal, ControlsTypeGoal DEF CameraTypeOK
<1>4. QED BY <1>1, <1>2, <1>3, PTL DEF CameraSpec


-----------------------------------------------------------------------------
(* The options of the command line are applied: the inductive invariant.   *)

\* The camera thread is setting a control.
Now(id) == writer[Starter].pc \in {"v4l2", "ioctl"} /\ writer[Starter].id = id

\* What is left to set names a control, or gives it one value only.
Mentions(q, id) == \E x \in Said(q) : x[1] = id
OnlySays(q, id, v) == \A x \in Said(q) : x[1] = id => x[2] = v

\* A control that is set to one value only is to be set to it, or is being set, or
\* has it if the camera can.
Single(id, v) ==
  /\ Now(id) => writer[Starter].value = v
  /\ OnlySays(orders, id, v)
  /\ Now(id) \/ Mentions(orders, id) \/ InForce(id, v)

\* A setting whose mode comes first: it is set only where the mode was asked to be
\* the manual one, and then after the mode.
After(mid, auto, manual, id, v) ==
  /\ Single(mid, auto)
  /\ Now(id) => writer[Starter].value = v /\ auto = manual /\ InForce(mid, auto)
  /\ OnlySays(orders, id, v) /\ (Mentions(orders, id) => auto = manual)
  /\ auto = manual /\ Can(mid, manual) => Now(id) \/ Mentions(orders, id) \/ InForce(id, v)
  /\ Now(mid) \/ InForce(mid, auto) \/ Follows(orders, mid, id)

\* Until a browser gives a command, the camera thread is alone.
Solo == commands = 0 => \A w \in Asking : writer[w].pc = "idle"

Given(o) == o \in DOMAIN options
Wanted ==
  /\ Given("sh") => Single("sharpness", options["sh"].value)
  /\ Given("co") => Single("contrast", options["co"].value)
  /\ Given("sa") => Single("saturation", options["sa"].value)
  /\ Given("bk") => Single("backlight", options["bk"].value)
  /\ Given("rot") => Single("rotate", options["rot"].value)
  /\ Given("hf") => Single("hflip", options["hf"].value)
  /\ Given("vf") /\ ~Given("pl") => Single("vflip", options["vf"].value)
  /\ Given("br") =>
       After("autobrightness", options["br"].auto, 0, "brightness", options["br"].value)
  /\ Given("wb") /\ ~Given("cagc") =>
       After("auto_white_balance", options["wb"].auto, 0, "white_balance", options["wb"].value)
  /\ Given("ex") => After("exposure_auto", options["ex"].auto, 1, "exposure", options["ex"].value)
  /\ Given("gain") => After("autogain", options["gain"].auto, 0, "gain", options["gain"].value)

Applied ==
  /\ Solo /\ {"none", "jpeg"} \cap DOMAIN camera = {}
  /\ commands = 0 /\ ~refused => Wanted

\* The first of a sequence of orders, and the rest.
LEMMA SaidTail ==
  ASSUME NEW S, NEW q \in Seq(S), q # <<>>
  PROVE  /\ Said(q) = {Head(q)} \cup Said(Tail(q))
         /\ \A mid, id : Follows(q, mid, id) =>
              Head(q)[1] # id /\ (Head(q)[1] # mid => Follows(Tail(q), mid, id))
<1>1. PICK h, t : h = Head(q) /\ t = Tail(q) OBVIOUS
<1>2. PICK n \in Nat : n = Len(q) /\ n > 0 OBVIOUS
<1>3. DOMAIN q = 1 .. n /\ q[1] = h BY <1>1, <1>2
<1>4. t \in Seq(S) /\ Len(t) = n - 1 BY <1>1, <1>2
<1>5. DOMAIN t = 1 .. n - 1 BY <1>4
<1>6. \A i \in 1 .. n - 1 : t[i] = q[i + 1]
  <2>1. \A i \in 1 .. Len(q) - 1 : Tail(q)[i] = q[i + 1] OBVIOUS
  <2>2. QED BY <2>1, <1>1, <1>2
<1> HIDE <1>1
<1>7. ASSUME NEW i \in 1 .. n, i # 1 PROVE i - 1 \in 1 .. n - 1 /\ q[i] = t[i - 1]
  <2>1. i - 1 \in 1 .. n - 1 /\ (i - 1) + 1 = i BY <1>2, <1>7
  <2>2. QED BY <2>1, <1>6
<1>8. Said(q) = {h} \cup Said(t)
  <2>1. \A x \in Said(q) : x = h \/ x \in Said(t) BY <1>3, <1>5, <1>7 DEF Said
  <2>2. h \in Said(q) BY <1>2, <1>3 DEF Said
  <2>3. ASSUME NEW x \in Said(t) PROVE x \in Said(q)
    <3>1. PICK i \in 1 .. n - 1 : x = t[i] BY <1>5 DEF Said
    <3>2. i + 1 \in 1 .. n /\ x = q[i + 1] BY <3>1, <1>2, <1>6
    <3>3. QED BY <3>2, <1>3 DEF Said
  <2>4. QED BY <2>1, <2>2, <2>3
<1>9. ASSUME NEW mid, NEW id, Follows(q, mid, id)
      PROVE  h[1] # id /\ (h[1] # mid => Follows(t, mid, id))
  <2>1. h[1] # id
    <3>1. ASSUME h[1] = id PROVE FALSE
      <4>1. PICK j \in 1 .. n : j < 1 /\ q[j][1] = mid BY <1>2, <1>3, <1>9, <3>1 DEF Follows
      <4>2. QED BY <4>1
    <3>2. QED BY <3>1
  <2>2. ASSUME h[1] # mid, NEW i \in 1 .. n - 1, t[i][1] = id
        PROVE  \E j \in 1 .. n - 1 : j < i /\ t[j][1] = mid
    <3>1. i + 1 \in 1 .. n /\ q[i + 1] = t[i] BY <1>2, <1>6
    <3>2. PICK j \in 1 .. n : j < i + 1 /\ q[j][1] = mid BY <1>3, <1>9, <2>2, <3>1 DEF Follows
    <3>3. j # 1 BY <1>3, <2>2, <3>2
    <3>4. j - 1 \in 1 .. n - 1 /\ q[j] = t[j - 1] BY <1>7, <3>3
    <3>5. j - 1 < i BY <3>2
    <3>6. QED BY <3>2, <3>4, <3>5
  <2>3. QED BY <2>1, <2>2, <1>5 DEF Follows
<1>10. QED BY <1>1, <1>8, <1>9

\* What the camera thread does while it is alone: it takes up an order,
Begins ==
  /\ orders # <<>> /\ orders' = Tail(orders) /\ UNCHANGED camera
  /\ writer[Starter].pc = "idle"
  /\ \A id : Now(id)' <=> id = Head(orders)[1]
  /\ writer'[Starter].value = Head(orders)[2]

\* goes on with it,
Keeps ==
  /\ UNCHANGED <<orders, camera>>
  /\ \A id : (Now(id)' <=> Now(id)) /\ (Now(id) => writer'[Starter].value = writer[Starter].value)

\* or is done with it: the camera has taken the value, or could not.
Finishes ==
  /\ orders' = orders
  /\ \E cid :
       /\ \A id : (Now(id) <=> id = cid) /\ ~Now(id)'
       /\ \/ camera' = camera /\ ~(Can(cid, writer[Starter].value) /\ Settable(cid))
          \/ /\ Settable(cid)
             /\ \E t : /\ camera' = [camera EXCEPT ![cid] = t]
                       /\ Can(cid, writer[Starter].value) => t = writer[Starter].value

\* The camera thread has no other steps, as long as no browser has commanded.
LEMMA FindSteps ==
  ASSUME ControlsInv, FindControl(Starter)
  PROVE  Keeps \/ Finishes
<1>1. Starter \in Writers /\ WriterShape BY DEF Writers, ControlsInv
<1>2. writer[Starter].pc = "v4l2" /\ UNCHANGED <<orders, camera>> BY DEF FindControl
<1>3. PICK cid : cid = writer[Starter].id OBVIOUS
<1>4. \A id : Now(id) <=> id = cid BY <1>2, <1>3 DEF Now
<1>5. CASE PositionOf(cid) = 0 /\ Returns(Starter, -1)
  <2>1. writer'[Starter] = AtRest BY <1>1, <1>5, ReturnsDoes
  <2>2. writer'[Starter].pc = "idle" BY <2>1, AtRestIs
  <2>3. \A id : ~Now(id)' BY <2>2 DEF Now
  <2>4. ~Can(cid, writer[Starter].value) BY <1>5 DEF Can
  <2>5. QED BY <1>2, <1>4, <2>3, <2>4 DEF Finishes
<1>6. CASE ~InRange(EntryOf(cid), writer[Starter].value) /\ WriterGoes(Starter, "note")
  <2>1. writer'[Starter].pc = "note" BY <1>1, <1>6, GoesDoes
  <2>2. \A id : ~Now(id)' BY <2>1 DEF Now
  <2>3. ~Can(cid, writer[Starter].value) BY <1>6 DEF Can
  <2>4. QED BY <1>2, <1>4, <2>2, <2>3 DEF Finishes
<1>7. CASE WriterGoes(Starter, "ioctl")
  <2>1. /\ writer'[Starter].pc = "ioctl" /\ writer'[Starter].id = writer[Starter].id
        /\ writer'[Starter].value = writer[Starter].value
    BY <1>1, <1>7, GoesDoes
  <2>2. QED BY <1>2, <2>1 DEF Keeps, Now
<1>8. QED BY <1>3, <1>5, <1>6, <1>7 DEF FindControl

\* If the camera refuses nothing that it could take, the ioctl ends an order.
LEMMA IoctlSteps ==
  ASSUME ControlsInv, ControlsTypeInv, Ioctl(Starter), ~refused'
  PROVE  Finishes
<1>1. Starter \in Writers /\ WriterShape BY DEF Writers, ControlsInv
<1>2. writer[Starter].pc = "ioctl" /\ UNCHANGED orders BY DEF Ioctl
<1>3. PICK cid : cid = writer[Starter].id OBVIOUS
<1>4. \A id : Now(id) <=> id = cid BY <1>2, <1>3 DEF Now
<1>5. CASE Takes(Starter) /\ writer'[Starter].pc \in {"cache", "note"}
  <2>1. \A id : ~Now(id)' BY <1>5 DEF Now
  <2>2. PICK t : t = Taken(EntryOf(cid), writer[Starter].value) OBVIOUS
  <2>3. camera' = [camera EXCEPT ![cid] = t] /\ Settable(cid) BY <1>3, <1>5, <2>2 DEF Takes
  <2>4. Can(cid, writer[Starter].value) => t = writer[Starter].value BY <2>2 DEF Can, Taken
  <2>5. QED BY <1>2, <1>4, <2>1, <2>3, <2>4 DEF Finishes
<1>6. CASE Returns(Starter, -1) /\ UNCHANGED <<camera, torn>> /\ (refused' <=> refused \/ Settable(writer[Starter].id))
  <2>1. writer'[Starter] = AtRest BY <1>1, <1>6, ReturnsDoes
  <2>2. writer'[Starter].pc = "idle" BY <2>1, AtRestIs
  <2>3. \A id : ~Now(id)' BY <2>2 DEF Now
  <2>4. ~Settable(cid) BY <1>3, <1>6
  <2>5. QED BY <1>2, <1>4, <1>6, <2>3, <2>4 DEF Finishes
<1>7. QED BY <1>1, <1>5, <1>6, TakesDoes

\* What is noted in the list changes no order.
LEMMA NotedSteps ==
  ASSUME ControlsInv, Cache(Starter) \/ Note(Starter)
  PROVE  Keeps
<1>1. Starter \in Writers /\ WriterShape BY DEF Writers, ControlsInv
<1>2. writer[Starter].pc \in {"cache", "note"} /\ UNCHANGED <<orders, camera>> BY DEF Cache, Note
<1>3. PICK z, n : z = 0 /\ n = "note" OBVIOUS
<1>4. Returns(Starter, z) \/ WriterGoes(Starter, n) BY <1>3 DEF Cache, Note
<1>5. writer'[Starter] = AtRest \/ writer'[Starter].pc = n
  BY <1>1, <1>4, ReturnsDoes, GoesDoes
<1>6. writer'[Starter].pc \in {"idle", "note"} BY <1>3, <1>5, AtRestIs
<1>7. QED BY <1>2, <1>6 DEF Keeps, Now

\* So the camera thread has three kinds of steps, and no other thread moves.
LEMMA StarterSteps ==
  ASSUME ControlsInv, ControlsTypeInv, Solo, [ControlsNext]_controlVars, commands' = 0, ~refused'
  PROVE  commands = 0 /\ ~refused /\ (Begins \/ Keeps \/ Finishes)
<1>0. Starter \in Writers /\ WriterShape BY DEF Writers, ControlsInv
<1>1. commands \in Nat BY DEF ControlsTypeInv
<1>2. ASSUME NEW w \in Asking, Give(w) PROVE FALSE
  <2>1. commands' = commands + 1 BY <1>2 DEF Give
  <2>2. QED BY <1>1, <2>1
<1>3. commands = 0
  BY <1>2 DEF ControlsNext, controlVars, SetOption, JpegQuality, Written, FindControl, Ioctl, Cache, Note
<1>4. ASSUME NEW w \in Asking PROVE writer[w].pc = "idle" BY <1>3 DEF Solo
<1>5. ~refused
  <2>1. ASSUME NEW w \in Writers, Ioctl(w) PROVE ~refused BY <2>1 DEF Ioctl
  <2>2. QED BY <2>1 DEF ControlsNext, controlVars, SetOption, Give, JpegQuality, Written, FindControl, Cache, Note
<1>6. CASE SetOption
  <2>1. PICK r : r = Record("v4l2", "v4l2", Head(orders)[1], Head(orders)[2], 0, FALSE) OBVIOUS
  <2>2. writer' = [writer EXCEPT ![Starter] = r] BY <1>6, <2>1 DEF SetOption
  <2>3. r.pc = "v4l2" /\ r.id = Head(orders)[1] /\ r.value = Head(orders)[2] BY <2>1 DEF Record
  <2>4. writer = [v \in Writers |-> writer[v]] BY <1>0 DEF WriterShape
  <2> HIDE <2>1
  <2>5. writer'[Starter] = r BY <1>0, <2>2, <2>4
  <2>6. Begins BY <1>6, <2>3, <2>5 DEF SetOption, Begins, Now
  <2>7. QED BY <1>3, <1>5, <2>6
<1>7. ASSUME NEW w \in Asking PROVE ~(JpegQuality(w) \/ Written(w))
  BY <1>4 DEF JpegQuality, Written
<1>8. ASSUME NEW w \in Writers, FindControl(w) \/ Ioctl(w) \/ Cache(w) \/ Note(w) PROVE w = Starter
  BY <1>4, <1>8 DEF FindControl, Ioctl, Cache, Note, Writers
<1>9. CASE UNCHANGED controlVars
  <2>1. Keeps BY <1>9 DEF Keeps, Now, controlVars
  <2>2. QED BY <1>3, <1>5, <2>1
<1>10. CASE FindControl(Starter) \/ Ioctl(Starter) \/ Cache(Starter) \/ Note(Starter)
  BY <1>3, <1>5, <1>10, FindSteps, IoctlSteps, NotedSteps
<1>11. QED BY <1>2, <1>6, <1>7, <1>8, <1>9, <1>10 DEF ControlsNext


\* What the steps below need of the rest of the state.
Ground ==
  /\ orders \in Seq(Names \X Int) /\ {"none", "jpeg"} \cap DOMAIN camera = {}
  /\ camera = [id \in DOMAIN camera |-> camera[id]]
  /\ \A id : PositionOf(id) # 0 /\ id # "jpeg" => id \in DOMAIN camera

\* The invariants of the controls give it.
LEMMA GroundHolds ==
  ASSUME ControlsInv, ControlsTypeInv, {"none", "jpeg"} \cap DOMAIN camera = {}
  PROVE  Ground
<1>1. ListShape BY DEF ControlsInv
<1>2. ASSUME NEW id, PositionOf(id) # 0, id # "jpeg" PROVE id \in DOMAIN camera
  <2>1. PositionOf(id) \in DOMAIN listed /\ listed[PositionOf(id)].id = id
    BY <1>1, <1>2, PositionIsThere
  <2>2. QED BY <1>2, <2>1 DEF ControlsTypeInv, ListType
<1>3. QED BY <1>1, <1>2 DEF Ground, ControlsTypeInv, ListShape

\* A value in force stays, where the only value that is set is the same.
LEMMA ForceStays ==
  ASSUME Ground, Begins \/ Keeps \/ Finishes, \A i, u : Can(i, u)' <=> Can(i, u),
         NEW id \in Names, NEW v, InForce(id, v), Now(id) => writer[Starter].value = v
  PROVE  InForce(id, v)'
<1>1. CASE UNCHANGED camera BY <1>1 DEF InForce
<1>2. CASE Finishes /\ camera' # camera
  <2>1. PICK cid, t :
          /\ \A i : (Now(i) <=> i = cid)
          /\ camera' = [camera EXCEPT ![cid] = t]
          /\ Can(cid, writer[Starter].value) => t = writer[Starter].value
    BY <1>2 DEF Finishes
  <2>2. SUFFICES ASSUME Can(id, v) PROVE camera'[id] = v
    BY DEF InForce
  <2>3. PositionOf(id) # 0 /\ id # "jpeg" BY <2>2 DEF Can, Names
  <2>4. id \in DOMAIN camera /\ camera[id] = v BY <2>2, <2>3 DEF Ground, InForce
  <2>5. camera = [x \in DOMAIN camera |-> camera[x]] BY DEF Ground
  <2>6. CASE id = cid
    <3>1. t = v BY <2>1, <2>2, <2>6
    <3>2. QED BY <2>1, <2>4, <2>5, <2>6, <3>1
  <2>7. CASE id # cid BY <2>1, <2>4, <2>5, <2>7
  <2>8. QED BY <2>6, <2>7
<1>3. QED BY <1>1, <1>2 DEF Begins, Keeps

\* A control that could be set, and is done, has its value.
LEMMA DoneIsInForce ==
  ASSUME Ground, Finishes, \A i, u : Can(i, u)' <=> Can(i, u),
         NEW id \in Names, NEW v, Now(id), writer[Starter].value = v, Can(id, v) => Settable(id)
  PROVE  InForce(id, v)'
<1>1. PICK cid :
       /\ \A i : (Now(i) <=> i = cid) /\ ~Now(i)'
       /\ \/ camera' = camera /\ ~(Can(cid, writer[Starter].value) /\ Settable(cid))
          \/ /\ Settable(cid)
             /\ \E t : /\ camera' = [camera EXCEPT ![cid] = t]
                       /\ Can(cid, writer[Starter].value) => t = writer[Starter].value
  BY DEF Finishes
<1>2. cid = id BY <1>1
<1>3. CASE ~Can(id, v) BY <1>3 DEF InForce
<1>4. CASE Can(id, v)
  <2>1. PICK t : camera' = [camera EXCEPT ![id] = t] /\ t = v BY <1>1, <1>2, <1>4
  <2>2. PositionOf(id) # 0 /\ id # "jpeg" BY <1>4 DEF Can, Names
  <2>3. id \in DOMAIN camera /\ camera = [x \in DOMAIN camera |-> camera[x]] BY <2>2 DEF Ground
  <2>4. camera'[id] = v BY <2>1, <2>3
  <2>5. QED BY <2>4 DEF InForce
<1>5. QED BY <1>3, <1>4

\* The camera lets a control without a mode be set.
LEMMA FreeToSet ==
  ASSUME Ground, NEW id \in Names, Mode(id)[1] = "none", NEW v, Can(id, v)
  PROVE  Settable(id)
<1>1. PositionOf(id) # 0 /\ id # "jpeg" BY DEF Can, Names
<1>2. id \in DOMAIN camera /\ "none" \notin DOMAIN camera BY <1>1 DEF Ground
<1>3. QED BY <1>2 DEF Settable

\* What is left to say, after a step.
LEMMA SaidLater ==
  ASSUME Ground, Begins \/ Keeps \/ Finishes
  PROVE  /\ \A id, v : OnlySays(orders, id, v) => OnlySays(orders, id, v)'
         /\ \A id : Mentions(orders, id)' => Mentions(orders, id)
         /\ Begins => \A id : Mentions(orders, id) => Now(id)' \/ Mentions(orders, id)'
         /\ Begins => \A id, v : OnlySays(orders, id, v) /\ Now(id)' => writer'[Starter].value = v
         /\ ~Begins => orders' = orders
<1>1. CASE Begins
  <2>1. PICK S : S = Names \X Int OBVIOUS
  <2>2. orders \in Seq(S) /\ orders # <<>> BY <1>1, <2>1 DEF Ground, Begins
  <2>3. Said(orders) = {Head(orders)} \cup Said(Tail(orders)) BY <2>2, SaidTail
  <2>4. Said(orders)' = Said(Tail(orders)) BY <1>1 DEF Begins, Said
  <2>5. Said(orders) = {Head(orders)} \cup Said(orders)' BY <2>3, <2>4
  <2>6. QED BY <1>1, <2>5 DEF Begins, OnlySays, Mentions
<1>2. CASE orders' = orders /\ ~Begins
  <2>1. Said(orders)' = Said(orders) BY <1>2 DEF Said
  <2>2. QED BY <1>2, <2>1 DEF OnlySays, Mentions
<1>3. QED BY <1>1, <1>2 DEF Keeps, Finishes

\* A step towards the value of a control that one option sets.
LEMMA SingleStep ==
  ASSUME Ground, Begins \/ Keeps \/ Finishes, \A i, u : Can(i, u)' <=> Can(i, u),
         NEW id \in Names, Mode(id)[1] = "none", NEW v, Single(id, v)
  PROVE  Single(id, v)'
<1>1. Now(id)' => writer'[Starter].value = v
  <2>1. CASE Begins BY <2>1, SaidLater DEF Single
  <2>2. CASE Keeps BY <2>2 DEF Keeps, Single
  <2>3. CASE Finishes BY <2>3 DEF Finishes
  <2>4. QED BY <2>1, <2>2, <2>3
<1>2. OnlySays(orders, id, v)' BY SaidLater DEF Single
<1>3. (Now(id) \/ Mentions(orders, id) \/ InForce(id, v))'
  <2>1. CASE InForce(id, v) BY <2>1, ForceStays DEF Single
  <2>2. CASE Now(id)
    <3>1. ~Begins BY <2>2 DEF Begins, Now
    <3>2. CASE Keeps BY <2>2, <3>2 DEF Keeps
    <3>3. CASE Finishes
      <4>1. Can(id, v) => Settable(id) BY FreeToSet
      <4>2. InForce(id, v)' BY <2>2, <3>3, <4>1, DoneIsInForce DEF Single
      <4>3. QED BY <4>2
    <3>4. QED BY <3>1, <3>2, <3>3
  <2>3. CASE Mentions(orders, id)
    <3>1. CASE Begins BY <2>3, <3>1, SaidLater
    <3>2. CASE ~Begins
      <4>1. orders' = orders BY <3>2, SaidLater
      <4>2. Mentions(orders, id)' BY <2>3, <4>1 DEF Mentions, Said
      <4>3. QED BY <4>2
    <3>3. QED BY <3>1, <3>2
  <2>4. QED BY <2>1, <2>2, <2>3 DEF Single
<1>4. QED BY <1>1, <1>2, <1>3 DEF Single

\* A step towards a mode and the value that it lets set.
LEMMA AfterStep ==
  ASSUME Ground, Begins \/ Keeps \/ Finishes, \A i, u : Can(i, u)' <=> Can(i, u),
         NEW mid \in Names, Mode(mid)[1] = "none", NEW auto, NEW manual,
         NEW id \in Names, Mode(id)[1] = mid, Mode(id)[2] = manual,
         NEW v, After(mid, auto, manual, id, v)
  PROVE  After(mid, auto, manual, id, v)'
<1>1. Single(mid, auto)' BY SingleStep DEF After
<1>2. InForce(mid, auto) => InForce(mid, auto)' BY ForceStays DEF After, Single
<1>3. Begins => InForce(mid, auto) \/ Follows(orders, mid, id)
  BY DEF After, Begins, Now
<1>4. Begins /\ Follows(orders, mid, id)
        => ~Now(id)' /\ (Now(mid)' \/ Follows(orders, mid, id)')
  <2>1. SUFFICES ASSUME Begins, Follows(orders, mid, id)
                 PROVE  ~Now(id)' /\ (Now(mid)' \/ Follows(orders, mid, id)')
    OBVIOUS
  <2>2. PICK S : S = Names \X Int OBVIOUS
  <2>3. orders \in Seq(S) /\ orders # <<>> BY <2>1, <2>2 DEF Ground, Begins
  <2>4. Head(orders)[1] # id /\ (Head(orders)[1] # mid => Follows(Tail(orders), mid, id))
    BY <2>1, <2>3, SaidTail
  <2>5. Follows(Tail(orders), mid, id) => Follows(orders, mid, id)' BY <2>1 DEF Begins, Follows
  <2>6. QED BY <2>1, <2>4, <2>5 DEF Begins
<1>5. ~Begins => (Follows(orders, mid, id) => Follows(orders, mid, id)')
  <2>1. ~Begins => orders' = orders BY SaidLater
  <2>2. QED BY <2>1 DEF Follows
<1>6. Now(id)' => writer'[Starter].value = v /\ auto = manual /\ InForce(mid, auto)'
  <2>1. CASE Begins
    <3>1. Now(id)' => Mentions(orders, id)
      <4>1. PICK S : S = Names \X Int OBVIOUS
      <4>2. orders \in Seq(S) /\ orders # <<>> BY <2>1, <4>1 DEF Ground, Begins
      <4>3. Head(orders) \in Said(orders) BY <4>2, SaidTail
      <4>4. QED BY <2>1, <4>3 DEF Begins, Mentions
    <3>2. QED BY <1>2, <1>3, <1>4, <2>1, <3>1, SaidLater DEF After
  <2>2. CASE Keeps BY <1>2, <2>2 DEF Keeps, After
  <2>3. CASE Finishes BY <2>3 DEF Finishes
  <2>4. QED BY <2>1, <2>2, <2>3
<1>7. OnlySays(orders, id, v)' /\ (Mentions(orders, id)' => auto = manual)
  BY SaidLater DEF After
<1>8. ASSUME auto = manual, Can(mid, manual)
      PROVE  Now(id)' \/ Mentions(orders, id)' \/ InForce(id, v)'
  <2>1. CASE InForce(id, v) BY <2>1, ForceStays DEF After
  <2>2. CASE Now(id)
    <3>1. ~Begins BY <2>2 DEF Begins, Now
    <3>2. CASE Keeps BY <2>2, <3>2 DEF Keeps
    <3>3. CASE Finishes
      <4>1. ASSUME Can(id, v) PROVE Settable(id)
        <5>1. PositionOf(id) # 0 /\ id # "jpeg" BY <4>1 DEF Can, Names
        <5>2. camera[mid] = manual BY <1>8, <2>2 DEF After, InForce
        <5>3. QED BY <5>1, <5>2 DEF Ground, Settable
      <4>2. QED BY <2>2, <3>3, <4>1, DoneIsInForce DEF After
    <3>4. QED BY <3>1, <3>2, <3>3
  <2>3. CASE Mentions(orders, id)
    <3>1. CASE Begins BY <2>3, <3>1, SaidLater
    <3>2. CASE ~Begins
      <4>1. orders' = orders BY <3>2, SaidLater
      <4>2. Mentions(orders, id)' BY <2>3, <4>1 DEF Mentions, Said
      <4>3. QED BY <4>2
    <3>3. QED BY <3>1, <3>2
  <2>4. QED BY <1>8, <2>1, <2>2, <2>3 DEF After
<1>9. Now(mid)' \/ InForce(mid, auto)' \/ Follows(orders, mid, id)'
  <2>1. CASE Begins BY <1>2, <1>3, <1>4, <2>1
  <2>2. CASE Keeps
    <3>1. Now(mid) => Now(mid)' BY <2>2 DEF Keeps
    <3>2. ~Begins \/ Follows(orders, mid, id)' \/ InForce(mid, auto)' \/ Now(mid)'
      BY <1>2, <1>3, <1>4
    <3>3. QED BY <1>2, <1>5, <3>1, <3>2 DEF After
  <2>3. CASE Finishes /\ ~Begins
    <3>1. CASE Now(mid)
      <4>1. Can(mid, auto) => Settable(mid) BY FreeToSet
      <4>2. QED BY <2>3, <3>1, <4>1, DoneIsInForce DEF After, Single
    <3>2. CASE ~Now(mid) BY <1>2, <1>5, <2>3, <3>2 DEF After
    <3>3. QED BY <3>1, <3>2
  <2>4. QED BY <2>1, <2>2, <2>3
<1>10. (auto = manual /\ Can(mid, manual))' => auto = manual /\ Can(mid, manual) OBVIOUS
<1>11. QED BY <1>1, <1>6, <1>7, <1>8, <1>9, <1>10 DEF After


\* Which controls have a mode.
LEMMA Modes ==
  /\ \A id \in {"sharpness", "contrast", "saturation", "backlight", "rotate", "hflip", "vflip",
                "autobrightness", "auto_white_balance", "exposure_auto", "autogain"} :
       Mode(id)[1] = "none"
  /\ Mode("brightness")[1] = "autobrightness" /\ Mode("brightness")[2] = 0
  /\ Mode("white_balance")[1] = "auto_white_balance" /\ Mode("white_balance")[2] = 0
  /\ Mode("exposure")[1] = "exposure_auto" /\ Mode("exposure")[2] = 1
  /\ Mode("gain")[1] = "autogain" /\ Mode("gain")[2] = 0
BY DEF Mode

\* What one option says, by control.
LEMMA SimplySays ==
  ASSUME NEW o, NEW id
  PROVE  /\ \A x \in Simply(o, id) : Given(o) /\ x[1] = id /\ x[2] = options[o].value
         /\ Given(o) => \E x \in Simply(o, id) : x[1] = id
<1>1. PICK y : y = <<id, options[o].value>> OBVIOUS
<1>2. y[1] = id /\ y[2] = options[o].value BY <1>1
<1>3. Simply(o, id) = IF Given(o) THEN {y} ELSE {} BY <1>1 DEF Simply, Given
<1> HIDE <1>1
<1>4. QED BY <1>2, <1>3

\* The same of an option with a mode.
LEMMA ModedSays ==
  ASSUME NEW o, NEW mode, NEW manual, NEW id, NEW value
  PROVE  /\ \A x \in Moded(o, mode, manual, id, value) :
              /\ Given(o)
              /\ \/ x[1] = mode /\ x[2] = options[o].auto
                 \/ x[1] = id /\ x[2] = value /\ options[o].auto = manual
         /\ Given(o) => \E x \in Moded(o, mode, manual, id, value) : x[1] = mode
         /\ Given(o) /\ options[o].auto = manual =>
              \E x \in Moded(o, mode, manual, id, value) : x[1] = id
<1>1. PICK y, z : y = <<mode, options[o].auto>> /\ z = <<id, value>> OBVIOUS
<1>2. y[1] = mode /\ y[2] = options[o].auto /\ z[1] = id /\ z[2] = value BY <1>1
<1>3. Moded(o, mode, manual, id, value) =
        (IF Given(o) THEN {y} ELSE {}) \cup (IF Given(o) /\ options[o].auto = manual THEN {z} ELSE {})
  BY <1>1 DEF Moded, Given
<1> HIDE <1>1
<1>4. QED BY <1>2, <1>3

\* What is said of a control to which only one option gives a value.
LEMMA SingleStart ==
  ASSUME NEW id, NEW v, ~Now(id), NEW t, NEW rest, Said(orders) = t \cup rest,
         \A x \in t : x[1] = id => x[2] = v, \E x \in t : x[1] = id,
         \A x \in rest : x[1] # id
  PROVE  Single(id, v)
BY DEF Single, OnlySays, Mentions

\* What is said of a mode and its setting, to which only one option gives values.
LEMMA AfterStart ==
  ASSUME NEW mid, NEW auto, NEW manual, NEW id, NEW v, ~Now(mid), ~Now(id), mid # id,
         NEW t, NEW rest, Said(orders) = t \cup rest,
         \A x \in t : \/ x[1] = mid /\ x[2] = auto
                      \/ x[1] = id /\ x[2] = v /\ auto = manual,
         \E x \in t : x[1] = mid, auto = manual => \E x \in t : x[1] = id,
         \A x \in rest : x[1] # mid /\ x[1] # id, Follows(orders, mid, id)
  PROVE  After(mid, auto, manual, id, v)
<1>1. Single(mid, auto) BY DEF Single, OnlySays, Mentions
<1>2. OnlySays(orders, id, v) /\ (Mentions(orders, id) => auto = manual)
        /\ (auto = manual => Mentions(orders, id))
  BY DEF OnlySays, Mentions
<1>3. QED BY <1>1, <1>2 DEF After

\* At the start every option that the camera can follow is still to be set.
LEMMA WantedStart == ControlsInit => Applied
<1> SUFFICES ASSUME ControlsInit PROVE Applied
  OBVIOUS
<1>1. PICK s \in Starts :
        /\ options = s.options
        /\ camera = [id \in {control.id : control \in ToSet(s.controls)} |->
                       (CHOOSE control \in ToSet(s.controls) : control.id = id).initial]
        /\ orders = Orders
        /\ writer = [w \in Writers |-> AtRest]
  BY DEF ControlsInit
<1>2. OptionsType BY <1>1, StartsAssumption DEF OptionsType
<1>3. {"none", "jpeg"} \cap DOMAIN camera = {}
  <2>1. s.controls \in Seq(Controls) BY StartsAssumption
  <2>2. ToSet(s.controls) \subseteq Controls BY <2>1 DEF ToSet
  <2>3. \A c \in Controls : c.id \notin {"none", "jpeg"} BY DEF Controls
  <2>4. QED BY <1>1, <2>2, <2>3
<1>4. \A w \in Writers : writer[w].pc = "idle" BY <1>1 DEF AtRest, Record
<1>5. Solo BY <1>4 DEF Solo, Writers
<1>6. \A id : ~Now(id) BY <1>4 DEF Now, Writers
<1>7. PICK t1, t2, t3, t4, t5, t6, t7, t8, t9, t10, t11, t12, t13, t14 :
         /\ t1 = Simply("sh", "sharpness")
         /\ t2 = Simply("co", "contrast")
         /\ t3 = Simply("sa", "saturation")
         /\ t4 = Simply("bk", "backlight")
         /\ t5 = Simply("rot", "rotate")
         /\ t6 = Simply("hf", "hflip")
         /\ t7 = Simply("vf", "vflip")
         /\ t8 = Simply("pl", "vflip")
         /\ t9 = Moded("br", "autobrightness", 0, "brightness", ValueOf("br"))
         /\ t10 = Moded("wb", "auto_white_balance", 0, "white_balance", ValueOf("wb"))
         /\ t11 = Moded("ex", "exposure_auto", 1, "exposure", ValueOf("ex"))
         /\ t12 = Moded("gain", "autogain", 0, "gain", ValueOf("gain"))
         /\ t13 = Moded("cagc", "auto_white_balance", 0, "white_balance", ValueOf("cagc"))
         /\ t14 = Moded("cb", "hue_auto", 0, "hue", ValueOf("cagc"))
  OBVIOUS
<1>8. Fine(orders, t1 \cup t2 \cup t3 \cup t4 \cup t5 \cup t6 \cup t7 \cup t8 \cup t9 \cup t10
                     \cup t11 \cup t12 \cup t13 \cup t14)
  BY <1>1, <1>2, <1>7, OrdersAre
<1>9. /\ InOrder(orders)
      /\ Said(orders) = t1 \cup t2 \cup t3 \cup t4 \cup t5 \cup t6 \cup t7 \cup t8 \cup t9 \cup t10
                          \cup t11 \cup t12 \cup t13 \cup t14
  BY <1>8 DEF Fine
<1>10. /\ \A x \in t1 : x[1] = "sharpness"
       /\ \A x \in t2 : x[1] = "contrast"
       /\ \A x \in t3 : x[1] = "saturation"
       /\ \A x \in t4 : x[1] = "backlight"
       /\ \A x \in t5 : x[1] = "rotate"
       /\ \A x \in t6 : x[1] = "hflip"
       /\ \A x \in t7 : x[1] = "vflip"
       /\ \A x \in t8 : x[1] = "vflip"
  BY <1>7, SimplySays
<1>11. /\ \A x \in t9 : x[1] \in {"autobrightness", "brightness"}
       /\ \A x \in t10 : x[1] \in {"auto_white_balance", "white_balance"}
       /\ \A x \in t11 : x[1] \in {"exposure_auto", "exposure"}
       /\ \A x \in t12 : x[1] \in {"autogain", "gain"}
       /\ \A x \in t13 : x[1] \in {"auto_white_balance", "white_balance"}
       /\ \A x \in t14 : x[1] \in {"hue_auto", "hue"}
  <2>1. ASSUME NEW o, NEW mode, NEW manual, NEW id, NEW value,
               NEW x \in Moded(o, mode, manual, id, value)
        PROVE  x[1] \in {mode, id}
    BY ModedSays
  <2>2. QED BY <1>7, <2>1
<1>12. /\ ~Given("pl") => t8 = {}
       /\ ~Given("cagc") => t13 = {}
  BY <1>7 DEF Simply, Moded, Given
<1>13. \A o : Given(o) => ValueOf(o) = options[o].value BY DEF Given, ValueOf
<1>14. Given("sh") => Single("sharpness", options["sh"].value)
  <2>1. PICK rest : rest = t2 \cup t3 \cup t4 \cup t5 \cup t6 \cup t7 \cup t8 \cup t9 \cup t10 \cup t11 \cup t12 \cup t13 \cup t14
    OBVIOUS
  <2>2. Said(orders) = t1 \cup rest /\ \A x \in rest : x[1] # "sharpness"
    BY <1>9, <1>10, <1>11, <2>1
  <2>3. PICK v : v = options["sh"].value OBVIOUS
  <2>4. Given("sh") => (\A x \in t1 : x[2] = v) /\ \E x \in t1 : x[1] = "sharpness"
    BY <1>7, <2>3, SimplySays
  <2>5. ASSUME Given("sh") PROVE Single("sharpness", v)
    <3>1. /\ \A x \in t1 : x[1] = "sharpness" => x[2] = v
          /\ \E x \in t1 : x[1] = "sharpness"
      BY <2>4, <2>5
    <3>2. ~Now("sharpness") BY <1>6
    <3>3. QED BY <2>2, <3>1, <3>2, SingleStart
  <2>6. QED BY <2>3, <2>5
<1>15. Given("co") => Single("contrast", options["co"].value)
  <2>1. PICK rest : rest = t1 \cup t3 \cup t4 \cup t5 \cup t6 \cup t7 \cup t8 \cup t9 \cup t10 \cup t11 \cup t12 \cup t13 \cup t14
    OBVIOUS
  <2>2. Said(orders) = t2 \cup rest /\ \A x \in rest : x[1] # "contrast"
    BY <1>9, <1>10, <1>11, <2>1
  <2>3. PICK v : v = options["co"].value OBVIOUS
  <2>4. Given("co") => (\A x \in t2 : x[2] = v) /\ \E x \in t2 : x[1] = "contrast"
    BY <1>7, <2>3, SimplySays
  <2>5. ASSUME Given("co") PROVE Single("contrast", v)
    <3>1. /\ \A x \in t2 : x[1] = "contrast" => x[2] = v
          /\ \E x \in t2 : x[1] = "contrast"
      BY <2>4, <2>5
    <3>2. ~Now("contrast") BY <1>6
    <3>3. QED BY <2>2, <3>1, <3>2, SingleStart
  <2>6. QED BY <2>3, <2>5
<1>16. Given("sa") => Single("saturation", options["sa"].value)
  <2>1. PICK rest : rest = t1 \cup t2 \cup t4 \cup t5 \cup t6 \cup t7 \cup t8 \cup t9 \cup t10 \cup t11 \cup t12 \cup t13 \cup t14
    OBVIOUS
  <2>2. Said(orders) = t3 \cup rest /\ \A x \in rest : x[1] # "saturation"
    BY <1>9, <1>10, <1>11, <2>1
  <2>3. PICK v : v = options["sa"].value OBVIOUS
  <2>4. Given("sa") => (\A x \in t3 : x[2] = v) /\ \E x \in t3 : x[1] = "saturation"
    BY <1>7, <2>3, SimplySays
  <2>5. ASSUME Given("sa") PROVE Single("saturation", v)
    <3>1. /\ \A x \in t3 : x[1] = "saturation" => x[2] = v
          /\ \E x \in t3 : x[1] = "saturation"
      BY <2>4, <2>5
    <3>2. ~Now("saturation") BY <1>6
    <3>3. QED BY <2>2, <3>1, <3>2, SingleStart
  <2>6. QED BY <2>3, <2>5
<1>17. Given("bk") => Single("backlight", options["bk"].value)
  <2>1. PICK rest : rest = t1 \cup t2 \cup t3 \cup t5 \cup t6 \cup t7 \cup t8 \cup t9 \cup t10 \cup t11 \cup t12 \cup t13 \cup t14
    OBVIOUS
  <2>2. Said(orders) = t4 \cup rest /\ \A x \in rest : x[1] # "backlight"
    BY <1>9, <1>10, <1>11, <2>1
  <2>3. PICK v : v = options["bk"].value OBVIOUS
  <2>4. Given("bk") => (\A x \in t4 : x[2] = v) /\ \E x \in t4 : x[1] = "backlight"
    BY <1>7, <2>3, SimplySays
  <2>5. ASSUME Given("bk") PROVE Single("backlight", v)
    <3>1. /\ \A x \in t4 : x[1] = "backlight" => x[2] = v
          /\ \E x \in t4 : x[1] = "backlight"
      BY <2>4, <2>5
    <3>2. ~Now("backlight") BY <1>6
    <3>3. QED BY <2>2, <3>1, <3>2, SingleStart
  <2>6. QED BY <2>3, <2>5
<1>18. Given("rot") => Single("rotate", options["rot"].value)
  <2>1. PICK rest : rest = t1 \cup t2 \cup t3 \cup t4 \cup t6 \cup t7 \cup t8 \cup t9 \cup t10 \cup t11 \cup t12 \cup t13 \cup t14
    OBVIOUS
  <2>2. Said(orders) = t5 \cup rest /\ \A x \in rest : x[1] # "rotate"
    BY <1>9, <1>10, <1>11, <2>1
  <2>3. PICK v : v = options["rot"].value OBVIOUS
  <2>4. Given("rot") => (\A x \in t5 : x[2] = v) /\ \E x \in t5 : x[1] = "rotate"
    BY <1>7, <2>3, SimplySays
  <2>5. ASSUME Given("rot") PROVE Single("rotate", v)
    <3>1. /\ \A x \in t5 : x[1] = "rotate" => x[2] = v
          /\ \E x \in t5 : x[1] = "rotate"
      BY <2>4, <2>5
    <3>2. ~Now("rotate") BY <1>6
    <3>3. QED BY <2>2, <3>1, <3>2, SingleStart
  <2>6. QED BY <2>3, <2>5
<1>19. Given("hf") => Single("hflip", options["hf"].value)
  <2>1. PICK rest : rest = t1 \cup t2 \cup t3 \cup t4 \cup t5 \cup t7 \cup t8 \cup t9 \cup t10 \cup t11 \cup t12 \cup t13 \cup t14
    OBVIOUS
  <2>2. Said(orders) = t6 \cup rest /\ \A x \in rest : x[1] # "hflip"
    BY <1>9, <1>10, <1>11, <2>1
  <2>3. PICK v : v = options["hf"].value OBVIOUS
  <2>4. Given("hf") => (\A x \in t6 : x[2] = v) /\ \E x \in t6 : x[1] = "hflip"
    BY <1>7, <2>3, SimplySays
  <2>5. ASSUME Given("hf") PROVE Single("hflip", v)
    <3>1. /\ \A x \in t6 : x[1] = "hflip" => x[2] = v
          /\ \E x \in t6 : x[1] = "hflip"
      BY <2>4, <2>5
    <3>2. ~Now("hflip") BY <1>6
    <3>3. QED BY <2>2, <3>1, <3>2, SingleStart
  <2>6. QED BY <2>3, <2>5
<1>20. Given("vf") /\ ~Given("pl") => Single("vflip", options["vf"].value)
  <2>1. PICK rest : rest = t1 \cup t2 \cup t3 \cup t4 \cup t5 \cup t6 \cup t9 \cup t10 \cup t11 \cup t12 \cup t13 \cup t14
    OBVIOUS
  <2>2. ~Given("pl") => Said(orders) = t7 \cup rest
    BY <1>9, <1>12, <2>1
  <2>3. \A x \in rest : x[1] # "vflip" BY <1>10, <1>11, <2>1
  <2>4. Given("vf") => /\ \A x \in t7 : x[2] = options["vf"].value
                       /\ \E x \in t7 : x[1] = "vflip"
    BY <1>7, SimplySays
  <2>5. QED BY <1>6, <2>2, <2>3, <2>4, SingleStart
<1>21. Given("br") =>
         After("autobrightness", options["br"].auto, 0, "brightness", options["br"].value)
  <2>1. PICK rest : rest = t1 \cup t2 \cup t3 \cup t4 \cup t5 \cup t6 \cup t7 \cup t8 \cup t10 \cup t11 \cup t12 \cup t13 \cup t14
    OBVIOUS
  <2>2. Said(orders) = t9 \cup rest /\ \A x \in rest : x[1] # "autobrightness" /\ x[1] # "brightness"
    BY <1>9, <1>10, <1>11, <2>1
  <2>3. PICK z, a, v : z = 0 /\ a = options["br"].auto /\ v = options["br"].value OBVIOUS
  <2>4. Given("br") =>
          /\ \A x \in t9 : \/ x[1] = "autobrightness" /\ x[2] = a
                           \/ x[1] = "brightness" /\ x[2] = v /\ a = z
          /\ \E x \in t9 : x[1] = "autobrightness"
          /\ a = z => \E x \in t9 : x[1] = "brightness"
    BY <1>7, <1>13, <2>3, ModedSays
  <2>5. Follows(orders, "autobrightness", "brightness") BY <1>9 DEF InOrder
  <2> HIDE <2>1
  <2>6. Given("br") => After("autobrightness", a, z, "brightness", v)
    BY <1>6, <2>2, <2>4, <2>5, AfterStart
  <2>7. QED BY <2>3, <2>6
<1>22. Given("wb") /\ ~Given("cagc") =>
         After("auto_white_balance", options["wb"].auto, 0, "white_balance", options["wb"].value)
  <2>1. PICK rest : rest = t1 \cup t2 \cup t3 \cup t4 \cup t5 \cup t6 \cup t7 \cup t8 \cup t9 \cup t11 \cup t12 \cup t14
    OBVIOUS
  <2>2. ~Given("cagc") => Said(orders) = t10 \cup rest BY <1>9, <1>12, <2>1
  <2>3. \A x \in rest : x[1] # "auto_white_balance" /\ x[1] # "white_balance"
    BY <1>10, <1>11, <2>1
  <2>4. PICK z, a, v : z = 0 /\ a = options["wb"].auto /\ v = options["wb"].value OBVIOUS
  <2>5. Given("wb") =>
          /\ \A x \in t10 : \/ x[1] = "auto_white_balance" /\ x[2] = a
                            \/ x[1] = "white_balance" /\ x[2] = v /\ a = z
          /\ \E x \in t10 : x[1] = "auto_white_balance"
          /\ a = z => \E x \in t10 : x[1] = "white_balance"
    BY <1>7, <1>13, <2>4, ModedSays
  <2>6. Follows(orders, "auto_white_balance", "white_balance") BY <1>9 DEF InOrder
  <2> HIDE <2>1
  <2>7. Given("wb") /\ ~Given("cagc") => After("auto_white_balance", a, z, "white_balance", v)
    BY <1>6, <2>2, <2>3, <2>5, <2>6, AfterStart
  <2>8. QED BY <2>4, <2>7
<1>23. Given("ex") => After("exposure_auto", options["ex"].auto, 1, "exposure", options["ex"].value)
  <2>1. PICK rest : rest = t1 \cup t2 \cup t3 \cup t4 \cup t5 \cup t6 \cup t7 \cup t8 \cup t9 \cup t10 \cup t12 \cup t13 \cup t14
    OBVIOUS
  <2>2. Said(orders) = t11 \cup rest /\ \A x \in rest : x[1] # "exposure_auto" /\ x[1] # "exposure"
    BY <1>9, <1>10, <1>11, <2>1
  <2>3. PICK z, a, v : z = 1 /\ a = options["ex"].auto /\ v = options["ex"].value OBVIOUS
  <2>4. Given("ex") =>
          /\ \A x \in t11 : \/ x[1] = "exposure_auto" /\ x[2] = a
                            \/ x[1] = "exposure" /\ x[2] = v /\ a = z
          /\ \E x \in t11 : x[1] = "exposure_auto"
          /\ a = z => \E x \in t11 : x[1] = "exposure"
    BY <1>7, <1>13, <2>3, ModedSays
  <2>5. Follows(orders, "exposure_auto", "exposure") BY <1>9 DEF InOrder
  <2> HIDE <2>1
  <2>6. Given("ex") => After("exposure_auto", a, z, "exposure", v)
    BY <1>6, <2>2, <2>4, <2>5, AfterStart
  <2>7. QED BY <2>3, <2>6
<1>24. Given("gain") => After("autogain", options["gain"].auto, 0, "gain", options["gain"].value)
  <2>1. PICK rest : rest = t1 \cup t2 \cup t3 \cup t4 \cup t5 \cup t6 \cup t7 \cup t8 \cup t9 \cup t10 \cup t11 \cup t13 \cup t14
    OBVIOUS
  <2>2. Said(orders) = t12 \cup rest /\ \A x \in rest : x[1] # "autogain" /\ x[1] # "gain"
    BY <1>9, <1>10, <1>11, <2>1
  <2>3. PICK z, a, v : z = 0 /\ a = options["gain"].auto /\ v = options["gain"].value OBVIOUS
  <2>4. Given("gain") =>
          /\ \A x \in t12 : \/ x[1] = "autogain" /\ x[2] = a
                            \/ x[1] = "gain" /\ x[2] = v /\ a = z
          /\ \E x \in t12 : x[1] = "autogain"
          /\ a = z => \E x \in t12 : x[1] = "gain"
    BY <1>7, <1>13, <2>3, ModedSays
  <2>5. Follows(orders, "autogain", "gain") BY <1>9 DEF InOrder
  <2> HIDE <2>1
  <2>6. Given("gain") => After("autogain", a, z, "gain", v)
    BY <1>6, <2>2, <2>4, <2>5, AfterStart
  <2>7. QED BY <2>3, <2>6
<1>25. Wanted BY <1>14, <1>15, <1>16, <1>17, <1>18, <1>19, <1>20, <1>21, <1>22, <1>23, <1>24 DEF Wanted
<1>26. QED BY <1>3, <1>5, <1>25 DEF Applied


\* A step towards what is wanted.
LEMMA WantedStep ==
  ASSUME Ground, Begins \/ Keeps \/ Finishes, \A i, u : Can(i, u)' <=> Can(i, u),
         UNCHANGED options, Wanted
  PROVE  Wanted'
<1>1. \A id \in Names : \A v : Mode(id)[1] = "none" /\ Single(id, v) => Single(id, v)'
  BY SingleStep
<1>2. \A o : Given(o)' <=> Given(o) BY DEF Given
<1>3. ASSUME NEW o,
             NEW id \in {"sharpness", "contrast", "saturation", "backlight", "rotate", "hflip", "vflip"},
             Single(id, options[o].value)
      PROVE  Single(id, options[o].value)'
  <2>1. PICK v : v = options[o].value OBVIOUS
  <2>2. Single(id, v)' BY <1>1, <1>3, <2>1, Modes DEF Names
  <2>3. v = options'[o].value BY <2>1
  <2>4. QED BY <2>2, <2>3
<1>4. ASSUME NEW o, NEW mid \in Names, NEW manual, NEW id \in Names, Mode(mid)[1] = "none",
             Mode(id)[1] = mid, Mode(id)[2] = manual,
             After(mid, options[o].auto, manual, id, options[o].value)
      PROVE  After(mid, options[o].auto, manual, id, options[o].value)'
  <2>1. PICK a, v : a = options[o].auto /\ v = options[o].value OBVIOUS
  <2>2. After(mid, a, manual, id, v)' BY <1>4, <2>1, AfterStep
  <2>3. a = options'[o].auto /\ v = options'[o].value BY <2>1
  <2>4. QED BY <2>2, <2>3
<1>5. ASSUME NEW o, After("autobrightness", options[o].auto, 0, "brightness", options[o].value)
      PROVE  After("autobrightness", options[o].auto, 0, "brightness", options[o].value)'
  BY <1>4, <1>5, Modes DEF Names
<1>6. ASSUME NEW o, After("auto_white_balance", options[o].auto, 0, "white_balance", options[o].value)
      PROVE  After("auto_white_balance", options[o].auto, 0, "white_balance", options[o].value)'
  BY <1>4, <1>6, Modes DEF Names
<1>7. ASSUME NEW o, After("exposure_auto", options[o].auto, 1, "exposure", options[o].value)
      PROVE  After("exposure_auto", options[o].auto, 1, "exposure", options[o].value)'
  BY <1>4, <1>7, Modes DEF Names
<1>8. ASSUME NEW o, After("autogain", options[o].auto, 0, "gain", options[o].value)
      PROVE  After("autogain", options[o].auto, 0, "gain", options[o].value)'
  BY <1>4, <1>8, Modes DEF Names
<1>9. QED BY <1>2, <1>3, <1>5, <1>6, <1>7, <1>8 DEF Wanted

\* Every step keeps what the options want, until a browser commands or a value is refused.
LEMMA AppliedStep ==
  ControlsInv /\ ControlsTypeInv /\ Applied /\ [ControlsNext]_controlVars => Applied'
<1> SUFFICES ASSUME ControlsInv, ControlsTypeInv, Applied, [ControlsNext]_controlVars
             PROVE  Applied'
  OBVIOUS
<1>1. Ground BY GroundHolds DEF Applied
<1>2. /\ \A i, u : Can(i, u)' <=> Can(i, u)
      /\ DOMAIN camera' = DOMAIN camera /\ options' = options
  BY ControlsStep, CanStays DEF ControlsInv
<1>3. {"none", "jpeg"} \cap DOMAIN camera' = {} BY <1>2 DEF Applied
<1>4. Solo'
  <2>1. SUFFICES ASSUME commands' = 0, NEW w \in Asking PROVE writer'[w].pc = "idle"
    BY DEF Solo
  <2>2. WriterShape /\ w \in Writers /\ commands \in Nat /\ w # Starter /\ Starter \in Writers
    BY StarterAssumption DEF ControlsInv, ControlsTypeInv, Writers
  <2>3. ASSUME NEW v \in Asking, Give(v) PROVE FALSE
    <3>1. commands' = commands + 1 BY <2>3 DEF Give
    <3>2. QED BY <2>1, <2>2, <3>1
  <2>4. commands = 0
    BY <2>1, <2>3 DEF ControlsNext, controlVars, SetOption, JpegQuality, Written, FindControl, Ioctl, Cache, Note
  <2>5. \A v \in Asking : writer[v].pc = "idle" BY <2>4 DEF Applied, Solo
  <2>6. \A v \in Asking : ~(JpegQuality(v) \/ Written(v)) BY <2>5 DEF JpegQuality, Written
  <2>7. ASSUME NEW v \in Writers, FindControl(v) \/ Ioctl(v) \/ Cache(v) \/ Note(v) PROVE v = Starter
    BY <2>5, <2>7 DEF FindControl, Ioctl, Cache, Note, Writers
  <2>8. \/ \E r : writer' = [writer EXCEPT ![Starter] = r]
        \/ UNCHANGED writer
    BY <2>3, <2>6, <2>7 DEF ControlsNext, controlVars, SetOption, FindControl, Ioctl, Cache, Note,
       Returns, WriterGoes
  <2>9. writer = [v \in Writers |-> writer[v]] BY <2>2 DEF WriterShape
  <2>10. writer'[w] = writer[w] BY <2>2, <2>8, <2>9
  <2>11. QED BY <2>5, <2>10
<1>5. ASSUME commands' = 0, ~refused' PROVE Wanted'
  <2>1. commands = 0 /\ ~refused /\ (Begins \/ Keeps \/ Finishes)
    BY <1>5, StarterSteps DEF Applied
  <2>2. QED BY <1>1, <1>2, <2>1, WantedStep DEF Applied
<1>6. QED BY <1>3, <1>4, <1>5 DEF Applied

\* When nothing is left to set, what was wanted is in force.
LEMMA AppliedGoal == Applied => OptionsApplied
<1> SUFFICES ASSUME Applied, orders = <<>>, writer[Starter].pc = "idle", commands = 0, ~refused
             PROVE  LET given(o) == o \in DOMAIN options
                        simple   == [sh |-> "sharpness", co |-> "contrast", sa |-> "saturation",
                                     bk |-> "backlight", rot |-> "rotate", hf |-> "hflip", vf |-> "vflip"]
                        paired   == [br |-> "brightness", wb |-> "white_balance", ex |-> "exposure",
                                     gain |-> "gain"]
                    IN  /\ \A o \in DOMAIN simple :
                             given(o) /\ (o = "vf" => ~given("pl")) => InForce(simple[o], options[o].value)
                        /\ \A o \in DOMAIN paired :
                             given(o) /\ (o = "wb" => ~given("cagc")) =>
                               LET mode == Mode(paired[o])
                               IN  /\ InForce(mode[1], options[o].auto)
                                   /\ options[o].auto = mode[2] /\ Can(mode[1], mode[2])
                                        => InForce(paired[o], options[o].value)
  BY DEF OptionsApplied
<1>1. Wanted BY DEF Applied
<1>2. \A id : ~Now(id) /\ ~Mentions(orders, id) BY DEF Now, Mentions, Said
<1>3. \A id, v : Single(id, v) => InForce(id, v) BY <1>2 DEF Single
<1>4. \A mid, auto, manual, id, v :
        After(mid, auto, manual, id, v) =>
          InForce(mid, auto) /\ (auto = manual /\ Can(mid, manual) => InForce(id, v))
  BY <1>2, <1>3 DEF After
<1>5. ASSUME NEW o \in {"sh", "co", "sa", "bk", "rot", "hf", "vf"},
             Given(o), o = "vf" => ~Given("pl")
      PROVE  InForce([sh |-> "sharpness", co |-> "contrast", sa |-> "saturation",
                      bk |-> "backlight", rot |-> "rotate", hf |-> "hflip", vf |-> "vflip"][o],
                     options[o].value)
  <2>1. CASE o = "sh" BY <1>1, <1>3, <1>5, <2>1 DEF Wanted
  <2>2. CASE o = "co" BY <1>1, <1>3, <1>5, <2>2 DEF Wanted
  <2>3. CASE o = "sa" BY <1>1, <1>3, <1>5, <2>3 DEF Wanted
  <2>4. CASE o = "bk" BY <1>1, <1>3, <1>5, <2>4 DEF Wanted
  <2>5. CASE o = "rot" BY <1>1, <1>3, <1>5, <2>5 DEF Wanted
  <2>6. CASE o = "hf" BY <1>1, <1>3, <1>5, <2>6 DEF Wanted
  <2>7. CASE o = "vf" BY <1>1, <1>3, <1>5, <2>7 DEF Wanted
  <2>8. QED BY <2>1, <2>2, <2>3, <2>4, <2>5, <2>6, <2>7
<1>6. ASSUME NEW o \in {"br", "wb", "ex", "gain"}, Given(o), o = "wb" => ~Given("cagc"),
             NEW id, id = [br |-> "brightness", wb |-> "white_balance", ex |-> "exposure", gain |-> "gain"][o]
      PROVE  /\ InForce(Mode(id)[1], options[o].auto)
             /\ options[o].auto = Mode(id)[2] /\ Can(Mode(id)[1], Mode(id)[2])
                  => InForce(id, options[o].value)
  <2>1. CASE o = "br"
    <3>1. id = "brightness" BY <1>6, <2>1
    <3>2. Mode(id)[1] = "autobrightness" /\ Mode(id)[2] = 0 BY <3>1, Modes
    <3>3. QED BY <1>1, <1>4, <1>6, <2>1, <3>1, <3>2 DEF Wanted
  <2>2. CASE o = "wb"
    <3>1. id = "white_balance" BY <1>6, <2>2
    <3>2. Mode(id)[1] = "auto_white_balance" /\ Mode(id)[2] = 0 BY <3>1, Modes
    <3>3. QED BY <1>1, <1>4, <1>6, <2>2, <3>1, <3>2 DEF Wanted
  <2>3. CASE o = "ex"
    <3>1. id = "exposure" BY <1>6, <2>3
    <3>2. Mode(id)[1] = "exposure_auto" /\ Mode(id)[2] = 1 BY <3>1, Modes
    <3>3. QED BY <1>1, <1>4, <1>6, <2>3, <3>1, <3>2 DEF Wanted
  <2>4. CASE o = "gain"
    <3>1. id = "gain" BY <1>6, <2>4
    <3>2. Mode(id)[1] = "autogain" /\ Mode(id)[2] = 0 BY <3>1, Modes
    <3>3. QED BY <1>1, <1>4, <1>6, <2>4, <3>1, <3>2 DEF Wanted
  <2>5. QED BY <2>1, <2>2, <2>3, <2>4
<1>7. QED BY <1>5, <1>6 DEF Given

\* The device is never used after it is gone, nor leaked; what the command line asks
\* for is in force, mode before value, once the camera thread has set everything and
\* neither a browser nor a refusal came between, whatever the camera and the options.
THEOREM CameraStaysSound == CameraSpec => []CameraSound
<1> DEFINE Inv == SoundInv /\ ControlsInv /\ ControlsTypeInv /\ Applied
<1>1. CameraInit => Inv
  BY CaptureStart, ControlsStart, ControlsTypeStart, WantedStart DEF CameraInit
<1>2. Inv /\ [CameraNext]_cameraVars => Inv'
  <2> SUFFICES ASSUME Inv, [CameraNext]_cameraVars PROVE Inv'
    OBVIOUS
  <2>1. [ControlsNext]_controlVars /\ [Next]_vars BY DEF CameraNext, cameraVars
  <2>2. QED BY <2>1, CaptureStep, ControlsStep, ControlsTypeStep, AppliedStep
<1>3. Inv => CameraSound BY CaptureGoal, AppliedGoal DEF CameraSound
<1>4. QED BY <1>1, <1>2, <1>3, PTL DEF CameraSpec

=============================================================================
