------------------------------ MODULE MCScreen ------------------------------
(* Scores on both sides of every group, three that lose figures and one the *)
(* pending clicks carry over a group; every status, effect and combination  *)
(* of effects.                                                              *)
EXTENDS Screen

Snap(local, status, turbo, flash, milestone) ==
  [local |-> local, global |-> 2 * local, pending |-> 5, syncing |-> 3,
   status |-> status, turbo |-> turbo, flash |-> flash, milestone |-> milestone]

SomeSnapshots ==
  {Snap(local, status, FALSE, FALSE, FALSE) :
     local \in {0, 7, 996, 12034, 499999, 2345678}, status \in {"CONNECTING", "ONLINE", "OFFLINE", "SYNCING"}}
  \cup {Snap(local, "ONLINE", FALSE, FALSE, FALSE) : local \in {12345678, 1034567890}}
  \cup {Snap(28, status, turbo, flash, FALSE) :
     status \in {"ONLINE", "OFFLINE"}, turbo, flash \in BOOLEAN}
  \cup {Snap(28, "ONLINE", both, both, TRUE) : both \in BOOLEAN}

=============================================================================
