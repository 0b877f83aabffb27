------------------------------ MODULE MCSysTime ------------------------------
(* Delays shorter and longer than the ticks a call may take, and the longest *)
(* one, against a counter that wraps after eight ticks.                      *)
EXTENDS SysTime

MCDelays == {0, 4, 7}
=============================================================================
