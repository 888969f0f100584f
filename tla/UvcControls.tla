----------------------------- MODULE UvcControls -----------------------------
(***************************************************************************)
(* The controls of the UVC camera (v4l2uvc.c, input_cmd of input_uvc.c):   *)
(* brightness, pan, the quality of JPEG and so on.  enumerateControls makes*)
(* a list of them with their values, which browsers are shown; the camera  *)
(* thread sets those that the command line names before its first picture, *)
(* and HTTP client threads set what browsers ask for, each through         *)
(* input_cmd and without a lock.                                           *)
(*                                                                         *)
(* A control is named after its V4L2_CID.  The device belongs to           *)
(* UvcCapture: that an ioctl may fail is all that is left of it here.      *)
(***************************************************************************)
EXTENDS Integers, Sequences, SequencesExt

CONSTANTS
  Asking,      \* HTTP client threads that give commands
  Starter,     \* the camera thread
  Starts,      \* cameras and command lines: the controls in the order in which
               \* they are found, those whose value can be read, and the
               \* options that were given
  Values,      \* values that browsers ask for
  MaxCommands  \* bound: commands of browsers

ASSUME StarterAssumption == Starter \notin Asking
ASSUME ValuesAssumption == Values \subseteq Int /\ MaxCommands \in Nat

\* A camera has each control once, with a value in its range; the list gives the
\* quality of JPEG a number that no control has.  Options are given as numbers.
Controls ==
  [id : STRING \ {"jpeg", "none"}, class : {"user", "extended"}, min : Int, max : Int, initial : Int]
ASSUME StartsAssumption ==
  \A s \in Starts :
    /\ s.controls \in Seq(Controls)
    /\ \A i \in DOMAIN s.controls :
         LET c == s.controls[i]
         IN  c.initial >= c.min /\ c.initial <= c.max
               /\ \A j \in DOMAIN s.controls : c.id = s.controls[j].id => i = j
    /\ s.readable \subseteq {s.controls[i].id : i \in DOMAIN s.controls}
    /\ \A o \in DOMAIN s.options : s.options[o] \in [auto : Int, value : Int]

VARIABLES
  options,   \* the options of the command line: each is [auto, value]
  camera,    \* the value of each control in the camera
  listed,    \* in_parameters, with the value that is shown
  jpeg,      \* jpegcomp.quality, and the quality the camera works with
  orders,    \* what the camera thread still has to set
  writer,    \* each thread in input_cmd: where it is, group, control and value,
             \* its result, and did the camera take the value?
  commands,  \* how many commands browsers have given
  torn,      \* controls that two threads were setting at once (history)
  known,     \* controls whose value was read or set since the start (history)
  spoilt,    \* was the value of another command put beside the first control?
  refused    \* did the camera refuse a value that it could have taken? (history)

controlVars ==
  <<options, camera, listed, jpeg, orders, writer, commands, torn, known, spoilt, refused>>

Writers == Asking \cup {Starter}
Record(pc, group, id, value, res, took) ==
  [pc |-> pc, group |-> group, id |-> id, value |-> value, res |-> res, took |-> took]
AtRest == Record("idle", "v4l2", "", 0, 0, FALSE)

-----------------------------------------------------------------------------
(* The start.                                                              *)

\* An option that sets one control.
Plain(o, id) == IF o \in DOMAIN options THEN <<<<id, options[o].value>>>> ELSE <<>>

\* Mutant: the value is set before the mode.
Paired_ValueFirst(o, mode, manual, id, value) ==
  IF o \notin DOMAIN options THEN <<>>
  ELSE (IF options[o].auto = manual THEN <<<<id, value>>>> ELSE <<>>) \o <<<<mode, options[o].auto>>>>

\* An option that sets a mode, and then the value if the mode is the manual one.
Paired(o, mode, manual, id, value) ==
  IF o \notin DOMAIN options THEN <<>>
  ELSE <<<<mode, options[o].auto>>>> \o (IF options[o].auto = manual THEN <<<<id, value>>>> ELSE <<>>)

ValueOf(o) == IF o \in DOMAIN options THEN options[o].value ELSE 0

\* The options in the order of cam_thread.
Orders ==
  Plain("sh", "sharpness") \o Plain("co", "contrast") \o Plain("sa", "saturation")
    \o Plain("bk", "backlight") \o Plain("rot", "rotate") \o Plain("hf", "hflip")
    \o Plain("vf", "vflip") \o Plain("pl", "vflip")
    \o Paired("br", "autobrightness", 0, "brightness", ValueOf("br"))
    \o Paired("wb", "auto_white_balance", 0, "white_balance", ValueOf("wb"))
    \o Paired("ex", "exposure_auto", 1, "exposure", ValueOf("ex"))
    \o Paired("gain", "autogain", 0, "gain", ValueOf("gain"))
    \o Paired("cagc", "auto_white_balance", 0, "white_balance", ValueOf("cagc"))
    \o Paired("cb", "hue_auto", 0, "hue", ValueOf("cagc"))

\* control_readed: a control whose value cannot be read is shown as 0, or as what
\* sets it back.
Unread(control) ==
  IF control.class = "user" THEN 0
  ELSE CASE control.id \in {"pan_reset", "tilt_reset"} -> 1
         [] control.id = "pantilt_reset"               -> 3
         [] OTHER                                      -> 0
ControlReaded(control, readable) ==
  [id |-> control.id, class |-> control.class, min |-> control.min, max |-> control.max,
   group |-> "v4l2", value |-> IF control.id \in readable THEN control.initial ELSE Unread(control)]

\* enumerateControls: the quality of JPEG comes last, whether the camera has one
\* or not, because -1 is no EINVAL.  Its class is not set.
EnumerateControls(controls, readable, class) ==
  [i \in 1 .. Len(controls) + 1 |->
     IF i <= Len(controls) THEN ControlReaded(controls[i], readable)
     ELSE [id |-> "jpeg", class |-> class, min |-> 0, max |-> 100, group |-> "jpeg", value |-> 0]]

ControlsInit ==
  \E s \in Starts, class \in {"user", "extended"} :
    /\ options = s.options
    /\ camera = [id \in {control.id : control \in ToSet(s.controls)} |->
                   (CHOOSE control \in ToSet(s.controls) : control.id = id).initial]
    /\ listed = EnumerateControls(s.controls, s.readable, class)
    /\ known = s.readable
    /\ jpeg = [wanted |-> 0, actual |-> 0]
    /\ orders = Orders
    /\ writer = [w \in Writers |-> AtRest]
    /\ commands = 0 /\ torn = {} /\ spoilt = FALSE /\ refused = FALSE

-----------------------------------------------------------------------------
(* Commands, and input_cmd.                                                *)

\* The position of a control in the list, 0 if it is not there; the group of a
\* command is not compared, so that the quality of JPEG is found as well.
PositionOf(id) ==
  LET places == {i \in DOMAIN listed : listed[i].id = id}
  IN  IF places = {} THEN 0 ELSE CHOOSE i \in places : TRUE
EntryOf(id) == listed[PositionOf(id)]
InRange(entry, value) == value >= entry.min /\ value <= entry.max

WriterGoes(w, pc) == writer' = [writer EXCEPT ![w].pc = pc]

\* The camera thread goes on, whatever the result was; a client thread writes it.
Returns(w, res) ==
  writer' = [writer EXCEPT ![w] =
    IF w = Starter THEN AtRest ELSE Record("answer", @.group, @.id, @.value, res, @.took)]

\* command() of httpd.c: a request for a plugin that is not there, or for the
\* program itself, does nothing and is answered with 0.
Give(w) ==
  /\ writer[w].pc = "idle" /\ commands < MaxCommands
  /\ commands' = commands + 1
  /\ \E group \in {"v4l2", "jpeg", "generic", "elsewhere"}, value \in Values :
     \E id \in IF group = "v4l2" THEN DOMAIN camera \cup {"jpeg", "unknown"} ELSE {"jpeg"} :
       writer' = [writer EXCEPT ![w] =
         Record(IF group \in {"generic", "elsewhere"} THEN "answer" ELSE group,
                group, id, value, IF group = "generic" THEN -1 ELSE 0, FALSE)]
  /\ UNCHANGED <<options, camera, listed, jpeg, orders, torn, known, spoilt, refused>>

\* The next V4L_OPT_SET of cam_thread.
SetOption ==
  /\ writer[Starter].pc = "idle" /\ orders # <<>>
  /\ orders' = Tail(orders)
  /\ writer' = [writer EXCEPT ![Starter] =
                  Record("v4l2", "v4l2", Head(orders)[1], Head(orders)[2], 0, FALSE)]
  /\ UNCHANGED <<options, camera, listed, jpeg, commands, torn, known, spoilt, refused>>

\* Mutant: the range is not looked at.
FindControl_AnyValue(w) ==
  /\ writer[w].pc = "v4l2"
  /\ IF PositionOf(writer[w].id) = 0 THEN Returns(w, -1) ELSE WriterGoes(w, "ioctl")
  /\ UNCHANGED <<options, camera, listed, jpeg, orders, commands, torn, known, spoilt, refused>>

\* v4l2SetControl until the ioctl.  A value out of the range of a user control is
\* logged and not set, and the function returns 0 for it.
FindControl(w) ==
  LET id == writer[w].id
  IN  /\ writer[w].pc = "v4l2"
      /\ IF PositionOf(id) = 0 THEN Returns(w, -1)
         ELSE IF EntryOf(id).class = "user" /\ ~InRange(EntryOf(id), writer[w].value)
         THEN WriterGoes(w, "note")
         ELSE WriterGoes(w, "ioctl")
      /\ UNCHANGED <<options, camera, listed, jpeg, orders, commands, torn, known, spoilt, refused>>

\* The control that has to be at a given value before the camera lets this one be
\* set: the value of a setting is fixed while the camera chooses it.
Mode(id) ==
  CASE id = "brightness"    -> <<"autobrightness", 0>>
    [] id = "white_balance" -> <<"auto_white_balance", 0>>
    [] id = "exposure"      -> <<"exposure_auto", 1>>
    [] id = "gain"          -> <<"autogain", 0>>
    [] id = "hue"           -> <<"hue_auto", 0>>
    [] OTHER                -> <<"none", 0>>
Settable(id) ==
  LET mode == Mode(id)
  IN  id \in DOMAIN camera /\ (mode[1] \in DOMAIN camera => camera[mode[1]] = mode[2])

\* What the camera makes of a value: for an extended control it takes the nearest
\* one in its range.
Taken(entry, value) ==
  IF entry.class = "user" \/ InRange(entry, value) THEN value
  ELSE IF value < entry.min THEN entry.min ELSE entry.max

\* Is another thread between its ioctl and what it notes of this control?
Overlaps(w, id) ==
  \E v \in Writers \ {w} :
    writer[v].id = id /\ writer[v].took /\ writer[v].pc \in {"cache", "note"}

\* VIDIOC_S_CTRL or VIDIOC_S_EXT_CTRLS, which may fail at any time, as when the
\* device is closed.
Ioctl(w) ==
  LET id == writer[w].id
  IN  /\ writer[w].pc = "ioctl"
      /\ \/ /\ Settable(id)
            /\ camera' = [camera EXCEPT ![id] = Taken(EntryOf(id), writer[w].value)]
            /\ writer' = [writer EXCEPT ![w] =
                 Record(IF EntryOf(id).class = "user" THEN "cache" ELSE "note",
                        @.group, @.id, @.value, @.res, TRUE)]
            /\ torn' = IF Overlaps(w, id) THEN torn \cup {id} ELSE torn
            /\ UNCHANGED refused
         \/ /\ Returns(w, -1)
            /\ refused' = (refused \/ Settable(id))
            /\ UNCHANGED <<camera, torn>>
      /\ UNCHANGED <<options, listed, jpeg, orders, commands, known, spoilt>>

\* Mutant: v4l2SetControl does not note the value.
Cache_Forgets(w) ==
  /\ writer[w].pc = "cache"
  /\ WriterGoes(w, "note") /\ known' = known \cup {writer[w].id}
  /\ UNCHANGED <<options, camera, listed, jpeg, orders, commands, torn, spoilt, refused>>

\* The value is noted in the list by v4l2SetControl, for user controls,
Cache(w) ==
  /\ writer[w].pc = "cache"
  /\ listed' = [listed EXCEPT ![PositionOf(writer[w].id)].value = writer[w].value]
  /\ known' = known \cup {writer[w].id}
  /\ WriterGoes(w, "note")
  /\ UNCHANGED <<options, camera, jpeg, orders, commands, torn, spoilt, refused>>

\* and again by input_cmd, whose index i is still 0: beside the first control,
\* whichever was meant.
Note(w) ==
  /\ writer[w].pc = "note"
  /\ listed' = [listed EXCEPT ![1].value = writer[w].value]
  /\ spoilt' = (spoilt \/ writer[w].id # listed[1].id \/ ~writer[w].took)
  /\ Returns(w, 0)
  /\ UNCHANGED <<options, camera, jpeg, orders, commands, torn, known, refused>>

\* IN_CMD_JPEG_QUALITY: a refusal by the camera is not noticed, and the list keeps
\* the value of the start.
JpegQuality(w) ==
  /\ writer[w].pc = "jpeg"
  /\ IF writer[w].value \notin 0..100 THEN Returns(w, -1) /\ UNCHANGED jpeg
     ELSE /\ Returns(w, 0)
          /\ \E actual \in {writer[w].value, jpeg.actual} :
               jpeg' = [wanted |-> writer[w].value, actual |-> actual]
  /\ UNCHANGED <<options, camera, listed, orders, commands, torn, known, spoilt, refused>>

Written(w) ==
  /\ writer[w].pc = "answer"
  /\ writer' = [writer EXCEPT ![w] = AtRest]
  /\ UNCHANGED <<options, camera, listed, jpeg, orders, commands, torn, known, spoilt, refused>>

ControlsNext ==
  \/ SetOption
  \/ \E w \in Asking : Give(w) \/ JpegQuality(w) \/ Written(w)
  \/ \E w \in Writers : FindControl(w) \/ Ioctl(w) \/ Cache(w) \/ Note(w)

-----------------------------------------------------------------------------
(* Properties.                                                             *)

\* Every variable stays in its range.
ControlsTypeOK ==
  /\ \A o \in DOMAIN options : options[o] \in [auto : Int, value : Int]
  /\ \A id \in DOMAIN camera : camera[id] \in Int
  /\ \A i \in DOMAIN listed :
       /\ listed[i].class \in {"user", "extended"} /\ listed[i].group \in {"v4l2", "jpeg"}
       /\ listed[i].id \in DOMAIN camera \cup {"jpeg"} /\ listed[i].value \in Int
  /\ jpeg \in [wanted : 0..100, actual : 0..100]
  /\ \A i \in DOMAIN orders : Len(orders[i]) = 2
  /\ writer \in [Writers ->
       [pc : {"idle", "v4l2", "ioctl", "cache", "note", "jpeg", "answer"},
        group : {"v4l2", "jpeg", "generic", "elsewhere"},
        id : DOMAIN camera \cup {"", "jpeg", "unknown"} \cup {orders[i][1] : i \in DOMAIN orders}
               \cup {writer[Starter].id},
        value : Int, res : {-1, 0}, took : BOOLEAN]]
  /\ writer[Starter].pc \notin {"jpeg", "answer"}
  /\ commands \in 0..MaxCommands /\ {spoilt, refused} \subseteq BOOLEAN
  /\ torn \subseteq known \cup DOMAIN camera /\ known \subseteq DOMAIN camera

\* A user control never leaves the range that the camera gave for it, whoever
\* sets it.
RangeKept ==
  \A i \in DOMAIN listed :
    listed[i].group = "v4l2" /\ listed[i].class = "user" => InRange(listed[i], camera[listed[i].id])

\* The value browsers are shown for a user control is the camera's own, once it
\* was read or set, no thread is between setting and noting it, and no two threads
\* were there at once.  For the first of the list it holds only until a command
\* for another control, or one out of range, has put its value there.
ListTrue ==
  \A i \in DOMAIN listed :
    LET id == listed[i].id
    IN  /\ listed[i].group = "v4l2" /\ listed[i].class = "user"
        /\ id \in known \ torn /\ (i = 1 => ~spoilt)
        /\ \A w \in Writers : writer[w].id = id => writer[w].pc \notin {"cache", "note"}
        => listed[i].value = camera[id]

\* When the camera thread has set everything, and nobody else and no refusal
\* interfered, each option is in force that the camera can follow: mode and value.
\* Options -pl and -cagc set the controls of -vf and -wb, and -cb takes its value
\* from -cagc, so these three are left out, with what they overwrite.
Can(id, value) == PositionOf(id) # 0 /\ InRange(EntryOf(id), value)
InForce(id, value) == Can(id, value) => camera[id] = value
OptionsApplied ==
  LET given(o) == o \in DOMAIN options
      simple   == [sh |-> "sharpness", co |-> "contrast", sa |-> "saturation",
                   bk |-> "backlight", rot |-> "rotate", hf |-> "hflip", vf |-> "vflip"]
      paired   == [br |-> "brightness", wb |-> "white_balance", ex |-> "exposure", gain |-> "gain"]
  IN  orders = <<>> /\ writer[Starter].pc = "idle" /\ commands = 0 /\ ~refused =>
        /\ \A o \in DOMAIN simple :
             given(o) /\ (o = "vf" => ~given("pl")) => InForce(simple[o], options[o].value)
        /\ \A o \in DOMAIN paired :
             given(o) /\ (o = "wb" => ~given("cagc")) =>
               LET mode == Mode(paired[o])
               IN  /\ InForce(mode[1], options[o].auto)
                   /\ options[o].auto = mode[2] /\ Can(mode[1], mode[2])
                        => InForce(paired[o], options[o].value)

\* The answer to a command for a control of the camera: -1 means that the camera did
\* not take the value, and 0 that it did, or that the value was out of range.
AnswerTrue ==
  \A w \in Asking :
    writer[w].pc = "answer" /\ writer[w].group = "v4l2" =>
      \/ writer[w].res = -1 /\ ~writer[w].took
      \/ writer[w].res = 0 /\ writer[w].took
      \/ writer[w].res = 0 /\ ~InRange(EntryOf(writer[w].id), writer[w].value)

\* Browsers cannot take a control out of its range, and are told what the camera
\* holds and did.
ControlsSound == RangeKept /\ ListTrue /\ AnswerTrue

=============================================================================
