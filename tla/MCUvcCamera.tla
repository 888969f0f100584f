----------------------------- MODULE MCUvcCamera -----------------------------
(* UvcCamera on small instances.                                           *)
EXTENDS UvcCamera

Control(id, class, min, max, initial) ==
  [id |-> id, class |-> class, min |-> min, max |-> max, initial |-> initial]
Option(auto, value) == [auto |-> auto, value |-> value]

Nothing == <<>>

MCValues == {0, 101}

\* A camera without controls; one whose brightness is automatic, with a control
\* that cannot be read; one that can be turned over; one whose exposure and
\* colours are automatic; one with a colour balance.
MCStarts ==
  { [controls |-> <<>>, readable |-> {}, options |-> Nothing],
    [controls |-> << Control("brightness", "user", 0, 2, 1), Control("autobrightness", "user", 0, 1, 1),
                     Control("pan_reset", "extended", 0, 1, 0) >>,
     readable |-> {"autobrightness"}, options |-> [br |-> Option(0, 2)]],
    [controls |-> << Control("sharpness", "user", 0, 2, 1), Control("vflip", "user", 0, 1, 0) >>,
     readable |-> {"vflip"},
     options |-> [sh |-> Option(0, 2), vf |-> Option(0, 1), pl |-> Option(0, 2), co |-> Option(0, 1)]],
    [controls |-> << Control("white_balance", "user", 0, 2, 0), Control("auto_white_balance", "user", 0, 1, 1),
                     Control("exposure", "extended", 0, 2, 0), Control("exposure_auto", "extended", 0, 1, 0) >>,
     readable |-> {"auto_white_balance", "exposure"},
     options |-> [wb |-> Option(0, 2), ex |-> Option(1, 1)]],
    [controls |-> << Control("hue_auto", "user", 0, 1, 1), Control("hue", "user", 0, 2, 1) >>,
     readable |-> {"hue_auto", "hue"}, options |-> [cb |-> Option(0, 2), vf |-> Option(0, 1)]] }

=============================================================================
