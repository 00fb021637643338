------------------------------- MODULE RpcCall -------------------------------
(***************************************************************************)
(* What the board's RPC client promises to task_rpc: one call at a time,    *)
(* each ends, a request is served at least once if the call succeeds and at *)
(* most MaxTries times whatever happens, and as long as no answer was torn  *)
(* the answer returned is an answer to this call and no other.              *)
(***************************************************************************)
EXTENDS Integers

CONSTANTS MaxCalls, MaxTries

VARIABLES
  calls,   \* calls begun so far; the last one is the current one
  busy,    \* it has not returned yet
  served,  \* how often the server has executed the request of each call
  outcome, \* what the last call returned: success, and the call it is about
  torn     \* part of an answer has been read on this connection

vars == <<calls, busy, served, outcome, torn>>

Outcomes == [ok : BOOLEAN, of : 0..MaxCalls]

Init ==
  /\ calls = 0 /\ busy = FALSE /\ torn = FALSE
  /\ served = [c \in 1..MaxCalls |-> 0]
  /\ outcome = [ok |-> FALSE, of |-> 0]

Begin ==
  /\ ~busy /\ calls < MaxCalls
  /\ calls' = calls + 1 /\ busy' = TRUE
  /\ UNCHANGED <<served, outcome, torn>>

(* Also after the call has given up.                                        *)
Serve(c) ==
  /\ c <= calls /\ served[c] < MaxTries
  /\ served' = [served EXCEPT ![c] = @ + 1]
  /\ UNCHANGED <<calls, busy, outcome, torn>>

End ==
  /\ busy /\ busy' = FALSE
  /\ outcome' \in Outcomes /\ torn' \in BOOLEAN
  /\ outcome'.of # 0 => served[outcome'.of] > 0
  /\ outcome'.of = 0 => ~outcome'.ok
  /\ ~torn => outcome'.of \in {0, calls}
  /\ UNCHANGED <<calls, served>>

(* A new connection starts with a clean stream.                             *)
Reconnect == torn' = FALSE /\ UNCHANGED <<calls, busy, served, outcome>>

Next == Begin \/ (\E c \in 1..MaxCalls : Serve(c)) \/ End \/ Reconnect

Safety == Init /\ [][Next]_vars

Spec == Safety /\ WF_vars(End)

=============================================================================
