---------------------------- MODULE MCDoorInputs ----------------------------
(* With the tables of MCAutomaticDoor.                                      *)
EXTENDS DoorInputs, MCAutomaticDoor
=============================================================================
