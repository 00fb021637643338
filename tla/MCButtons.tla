------------------------------ MODULE MCButtons ------------------------------
(* One board; one unit of time is 5 ms of the real constants.               *)
EXTENDS Buttons

=============================================================================
