----------------------------- MODULE MCFirmware -----------------------------
(* The board on instances of different sizes: the constants are numbers.    *)
EXTENDS Firmware

=============================================================================
