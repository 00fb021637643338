---------------------------- MODULE ClickDelivery ----------------------------
(***************************************************************************)
(* What a board promises about its clicks, without its calls, its timers    *)
(* and its connection: at-least-once delivery.  A click waits on the board  *)
(* until the server has taken it over or a reboot forgets it; an attempt    *)
(* nobody confirms may be counted and leaves the clicks waiting.  The board *)
(* keeps up to Limit of them.                                               *)
(***************************************************************************)
EXTENDS Integers

CONSTANT Limit

VARIABLES made, waiting, handed, lost,  \* clicks, where they are
          counted                       \* what the server has added up

vars == <<made, waiting, handed, lost, counted>>

Init == made = 0 /\ waiting = 0 /\ handed = 0 /\ lost = 0 /\ counted = 0

(* A click, which a full board may fail to keep.                            *)
Click ==
  /\ made' = made + 1
  /\ waiting' = waiting + 1 \/ (waiting >= Limit /\ waiting' = waiting)
  /\ UNCHANGED <<handed, lost, counted>>

(* The server confirms some of the clicks and counts at most those.         *)
HandOver ==
  /\ \E n \in 1..waiting :
       /\ waiting' = waiting - n /\ handed' = handed + n
       /\ \E got \in 0..n : counted' = counted + got
  /\ UNCHANGED <<made, lost>>

(* An attempt without a confirmation: everything still waits, or as much as *)
(* the board can keep.                                                      *)
Attempt ==
  /\ waiting' = waiting \/ (waiting > Limit /\ waiting' = Limit)
  /\ \E got \in 0..waiting : counted' = counted + got
  /\ UNCHANGED <<made, handed, lost>>

Reboot ==
  /\ lost' = lost + waiting /\ waiting' = 0
  /\ UNCHANGED <<made, handed, counted>>

Next == Click \/ HandOver \/ Attempt \/ Reboot

Spec == Init /\ [][Next]_vars

=============================================================================
