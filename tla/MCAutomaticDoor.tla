--------------------------- MODULE MCAutomaticDoor ---------------------------
(* The two orders of the transition table that differ: in OPEN and CLOSING a *)
(* presence is looked at before the timeout, or after it.                    *)
EXTENDS AutomaticDoor

PresenceFirst == <<
    Arc("CLOSED",  "check_open",               "OPENING", "do_open_door"),
    Arc("OPENING", "check_opening_timeout",    "OPEN",    "do_stay_open"),
    Arc("OPEN",    "check_keep_open",          "OPEN",    "do_keep_open"),
    Arc("OPEN",    "check_closing_timeout",    "CLOSING", "do_close_door"),
    Arc("CLOSING", "check_presence_or_button", "OPENING", "do_stop_closing_door"),
    Arc("CLOSING", "check_closing_timeout",    "CLOSED",  "do_stay_closed") >>

TimeoutFirst == <<PresenceFirst[1], PresenceFirst[2], PresenceFirst[4],
                  PresenceFirst[3], PresenceFirst[6], PresenceFirst[5]>>
=============================================================================
