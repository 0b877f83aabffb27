---------------------------- MODULE MCPinConfig -----------------------------
(* The pins of the button, the sensor and the two LEDs on the Nucleo board:  *)
(* PC13, PA10, PB3 and PB4.                                                  *)
EXTENDS PinConfig

MCPort == [button |-> "C", pir |-> "A", led_opening |-> "B", led_closing |-> "B"]
MCPin == [button |-> 13, pir |-> 10, led_opening |-> 3, led_closing |-> 4]
=============================================================================
