------------------------------ MODULE UvcCamera ------------------------------
(***************************************************************************)
(* The UVC camera as its users meet it: input_cmd takes commands for the   *)
(* resolution (UvcCapture) and for the controls (UvcControls).  The two    *)
(* share the descriptor and nothing else.  An ioctl on one that a change of*)
(* the resolution has closed fails, and UvcControls lets every ioctl fail; *)
(* no control is read again after a change.  So a behaviour here has       *)
(* commands of one kind.                                                   *)
(***************************************************************************)
EXTENDS UvcCapture, UvcControls

ASSUME ThreadsAssumption == Commanders \subseteq Asking /\ Starter = Cam

VARIABLE kind   \* what the commands are for

cameraVars == <<kind, vars, controlVars>>

\* Where the other kind does not move, it starts in one way only.
CameraInit ==
  /\ Init /\ ControlsInit
  /\ \/ kind = "resolution" /\ options = <<>> /\ camera = <<>> /\ listed[1].class = "user"
     \/ kind = "controls" /\ ~dv /\ \A r \in Resolutions : r >= reported

CameraNext ==
  \/ kind = "resolution" /\ Next /\ UNCHANGED <<kind, controlVars>>
  \/ kind = "controls" /\ ControlsNext /\ UNCHANGED <<kind, vars>>

\* As in UvcCapture: a thread inside setResolution, and the camera thread, are not
\* suspended for ever.
CameraSpec ==
  /\ CameraInit /\ [][CameraNext]_cameraVars
  /\ WF_vars(kind = "resolution" /\ fault = "none" /\ (CamStep \/ (CamGivesUp /\ UNCHANGED dv)))
  /\ \A p \in Callers : WF_vars(kind = "resolution" /\ fault = "none" /\ SetResolution(p))

\* Every variable of both parts stays in its range.
CameraTypeOK == kind \in {"resolution", "controls"} /\ TypeOK /\ ControlsTypeOK

\* The device is never used after it is gone, nor leaked, is ready when it is said
\* to be on, and is set up as the command line says.
CameraSound == DeviceSound /\ OptionsApplied

=============================================================================
