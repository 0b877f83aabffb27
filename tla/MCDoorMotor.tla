----------------------------- MODULE MCDoorMotor -----------------------------
(* The door on its registers, with the presence looked at before the timeout. *)
EXTENDS DoorMotor

MCDurations == {OpeningClosing, Inactivity}

Arc(orig, in, dest, out) == [orig |-> orig, in |-> in, dest |-> dest, out |-> out]

PresenceFirst == <<
    Arc("CLOSED",  "check_open",               "OPENING", "do_open_door"),
    Arc("OPENING", "check_opening_timeout",    "OPEN",    "do_stay_open"),
    Arc("OPEN",    "check_keep_open",          "OPEN",    "do_keep_open"),
    Arc("OPEN",    "check_closing_timeout",    "CLOSING", "do_close_door"),
    Arc("CLOSING", "check_presence_or_button", "OPENING", "do_stop_closing_door"),
    Arc("CLOSING", "check_closing_timeout",    "CLOSED",  "do_stay_closed") >>
=============================================================================
