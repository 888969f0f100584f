SPECIFICATION CameraSpec
CONSTANTS
  Commanders = {c1}
  Asking = {c1, c2}
  Cam = Cam
  Starter = Cam
  Starts <- MCStarts
  Values <- MCValues
  MaxCommands = 2
  Resolutions = {1, 2}
  DvModes = {TRUE, FALSE}
  CameraFails = TRUE
  MaxPics = 2
  MaxChanges = 2
INVARIANTS CameraTypeOK CameraSound ControlsSound
PROPERTIES PauseEnds
CHECK_DEADLOCK FALSE
