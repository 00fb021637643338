----------------------------- MODULE MCFeedback -----------------------------
(* One board.                                                               *)
EXTENDS Feedback

=============================================================================
