------------------------------ MODULE Firmware ------------------------------
(***************************************************************************)
(* One board: the RPC task, the part of shared_state it works on, and the   *)
(* board's Lamport clock (firmware/tasks/task_rpc.c, middleware/            *)
(* shared_state.c, middleware/lamport.c, button A of button_handler.c).     *)
(*                                                                          *)
(* task_rpc runs from one blocking call to the next; "rpc" names the call   *)
(* or the point of the loop it is at.  The button interrupt comes between   *)
(* any two steps, and every shared_state function is one spinlock section.  *)
(* How long the task waits is abstracted: a timer may be due whenever the   *)
(* loop looks at it.  An RPC is one call with all its retries; the server   *)
(* behind it is "last", the stamp it keeps for this board, "counted", the   *)
(* clicks it has counted for it, and "replies", the answers it still caches *)
(* (GameManager has that side in detail).                                   *)
(***************************************************************************)
EXTENDS Integers

CONSTANTS
  BreakAt,        \* 3 failures open the circuit
  CounterMax,     \* COUNTER_MAX_SAFE
  LamportMax,     \* LAMPORT_MAX_SAFE
  Jump,           \* how far another board's traffic may move the server's clock
  MaxPresses,     \* bound: presses of button A
  MaxFaults       \* bound: failed calls, restarts and reboots

ASSUME FirmwareAssumption ==
  /\ BreakAt \in Nat \ {0} /\ CounterMax \in Nat /\ LamportMax \in Nat \ {0}
  /\ Jump \in Nat \ {0} /\ MaxPresses \in Nat /\ MaxFaults \in Nat

VARIABLES
  pending, syncing, status,  \* shared_state: pending_clicks, syncing_count, connection_status
  localScore,                \* shared_state: local_score (global_score is set beside it)
  lamport,                   \* lamport_L
  rpc,                       \* where task_rpc is
  registered, failures,      \* its locals: registered, consecutive_rpc_failures
  batch, stamp,              \* the clicks of the call in progress and its timestamp
  last, counted, replies,    \* the server, for this board
  presses, settled, dropped,  \* history of the clicks
  heard,                     \* history: highest stamp sent or received since boot
  faults                     \* history: counts towards MaxFaults

server == <<last, counted, replies>>
clicks == <<presses, settled, dropped>>
vars   == <<pending, syncing, status, localScore, lamport, rpc, registered, failures,
            batch, stamp, server, clicks, heard, faults>>

Init ==
  /\ pending = 0 /\ syncing = 0 /\ status = "CONNECTING"
  /\ localScore = 0 /\ lamport = 0
  /\ rpc = "boot" /\ registered = FALSE /\ failures = 0
  /\ batch = 0 /\ stamp = 0
  /\ last = 0 /\ counted = 0 /\ replies = {}
  /\ presses = 0 /\ settled = 0 /\ dropped = 0
  /\ heard = 0 /\ faults = 0

-----------------------------------------------------------------------------
(* Helpers.  X_Variant is X with a slip the code could have made; no action  *)
(* uses it, and some property below tells it from X.                        *)

SaturatingAdd_Plain(a, b) == a + b

SaturatingAdd(a, b) == IF a > CounterMax - b THEN CounterMax ELSE a + b

(* restore_clicks merges the batch with what was clicked meanwhile.         *)
Restored_Overwrites == batch

Restored == SaturatingAdd(pending, batch)

(* lamport_tick and lamport_update.                                         *)
Ticked == IF lamport >= LamportMax THEN 1 ELSE lamport + 1

Updated_Own(ts) == lamport + 1

Updated(ts) ==
  LET merged == IF ts > lamport /\ ts < LamportMax THEN ts ELSE lamport IN
  IF merged >= LamportMax THEN 1 ELSE merged + 1

(* The counter syncing_count after a sync that failed.                      *)
SyncingAfterFailure_Kept == syncing

SyncingAfterFailure == 0

(* The circuit opens.                                                       *)
StillRegistered_Always == registered

StillRegistered == registered /\ failures < BreakAt

Greater(a, b) == IF a > b THEN a ELSE b

(* A call fails in some way: it costs one of the instance's faults.         *)
Fault ==
  /\ faults < MaxFaults
  /\ faults' = faults + 1

Success == UNCHANGED faults

-----------------------------------------------------------------------------
(* Button A: gpio_irq_callback, after the debounce.                         *)
Press ==
  /\ presses < MaxPresses
  /\ presses' = presses + 1
  /\ pending' = SaturatingAdd(pending, 1)
  /\ UNCHANGED <<syncing, status, localScore, lamport, rpc, registered, failures, batch, stamp,
                 server, settled, dropped, heard, faults>>

(* Before the loop: the radio, the access point, the server's address.      *)
quiet == <<pending, syncing, localScore, lamport, registered, failures, batch, stamp,
           server, clicks, heard>>

Boot ==
  /\ rpc = "boot"
  /\ \/ rpc' = "wifi" /\ Success /\ UNCHANGED status
     \/ rpc' = "dead" /\ status' = "OFFLINE" /\ Fault
  /\ UNCHANGED quiet

WifiConnects ==
  /\ rpc = "wifi"
  /\ rpc' = "discover" /\ status' = "CONNECTING" /\ Success
  /\ UNCHANGED quiet

WifiFails ==
  /\ rpc = "wifi"
  /\ rpc' = "no_wifi" /\ status' = "OFFLINE" /\ Fault
  /\ UNCHANGED quiet

WifiRetries ==
  /\ rpc = "no_wifi"
  /\ rpc' = "wifi"
  /\ UNCHANGED <<quiet, status, faults>>

(* Discovery ends with an address, found or fallback.                       *)
Discovered ==
  /\ rpc = "discover"
  /\ rpc' = "top"
  /\ UNCHANGED <<quiet, status, faults>>

-----------------------------------------------------------------------------
(* The loop while not registered.                                           *)

RegisterStarts ==
  /\ rpc = "top" /\ ~registered
  /\ rpc' = "register" /\ status' = "CONNECTING"
  /\ UNCHANGED <<quiet, faults>>

RegisterFails ==
  /\ rpc = "register"
  /\ rpc' = "top" /\ status' = "OFFLINE" /\ Fault
  /\ UNCHANGED quiet

(* take_pending_clicks and lamport_tick before a call that carries clicks.  *)
TakeBatch ==
  /\ batch' = pending
  /\ pending' = 0
  /\ lamport' = Ticked
  /\ stamp' = Ticked
  /\ heard' = Greater(heard, Ticked)

NoBatch == batch' = 0 /\ stamp' = 0

RegisterSucceeds ==
  /\ rpc = "register"
  /\ registered' = TRUE /\ failures' = 0
  /\ Success
  /\ \/ /\ pending > 0
        /\ TakeBatch
        /\ syncing' = pending
        /\ rpc' = "sync" /\ status' = "SYNCING"
     \/ /\ pending = 0
        /\ rpc' = "first_scores" /\ status' = "ONLINE" /\ syncing' = 0
        /\ UNCHANGED <<pending, lamport, batch, stamp, heard>>
  /\ UNCHANGED <<localScore, server, clicks>>

(* The server handles a batch: "got" of its clicks count, its clock moves   *)
(* beyond the stamp, and it keeps the answer.                               *)
NextStamps == (Greater(stamp, last) + 1)..(Greater(stamp, last) + Jump)

Replied(answer, ts) ==
  /\ last' = ts
  /\ replies' = replies \cup {<<rpc, stamp, answer>>}

Counts(got, ts) == Replied("ok", ts) /\ counted' = counted + got

(* The answer to a batch: nothing of it stays on the board, and set_scores  *)
(* shows the score it carries.                                              *)
Answered(ts, score) ==
  /\ lamport' = Updated(ts)
  /\ heard' = Greater(heard, ts)
  /\ localScore' = score
  /\ settled' = settled + batch
  /\ NoBatch
  /\ UNCHANGED <<pending, presses, dropped>>

(* Counted in full, in part over the rate limit, or taken for the repetition *)
(* of a call an earlier boot made with the same stamp: the answer has a      *)
(* "result" in all three, so the branch for RATE_EXCEEDED is never taken.    *)
Counted ==
  \E got \in 0..batch, ts \in NextStamps : Counts(got, ts) /\ Answered(ts, counted')

Repeated ==
  /\ <<rpc, stamp, "ok">> \in replies
  /\ \E ts \in (stamp + 1)..last, score \in 0..counted : Answered(ts, score)
  /\ UNCHANGED server

SyncAnswered ==
  /\ rpc = "sync"
  /\ Counted \/ Repeated
  /\ syncing' = 0
  /\ rpc' = "first_scores" /\ status' = "ONLINE"
  /\ Success
  /\ UNCHANGED <<registered, failures>>

(* The request or the answer is lost, or the server answers with an error:  *)
(* the board cannot know whether the batch was counted, or refused.         *)
Unanswered ==
  \/ /\ rpc = "sync" \/ stamp > last
     /\ \E got \in 0..batch, ts \in NextStamps : Counts(got, ts)
  \/ /\ rpc = "add" /\ stamp <= last
     /\ \E ts \in NextStamps : Replied("refused", ts)
     /\ UNCHANGED counted
  \/ UNCHANGED server

SyncFails ==
  /\ rpc = "sync"
  /\ Unanswered
  /\ pending' = Restored /\ NoBatch
  /\ syncing' = SyncingAfterFailure
  /\ rpc' = "top" /\ status' = "OFFLINE" /\ registered' = FALSE
  /\ Fault
  /\ UNCHANGED <<localScore, lamport, failures, clicks, heard>>

(* parse_get_scores_response looks for "global_score" and "nodes"; the      *)
(* server's answer is a bare list of rows, so every score it returns is 0.  *)
ParsedScore == 0

FirstScores ==
  /\ rpc = "first_scores"
  /\ rpc' = "top"
  /\ \/ localScore' = ParsedScore /\ Success
     \/ UNCHANGED localScore /\ Fault
  /\ UNCHANGED <<pending, syncing, status, lamport, registered, failures, batch, stamp,
                 server, clicks, heard>>

-----------------------------------------------------------------------------
(* The loop while registered: clicks, heartbeat, circuit breaker, scores.   *)

AddStarts ==
  /\ rpc = "top" /\ registered
  /\ status = "ONLINE" /\ pending > 0
  /\ TakeBatch
  /\ rpc' = "add"
  /\ UNCHANGED <<syncing, status, localScore, registered, failures, server, clicks, faults>>

NothingToAdd ==
  /\ rpc = "top" /\ registered
  /\ ~(status = "ONLINE" /\ pending > 0)
  /\ rpc' = "beat"
  /\ UNCHANGED <<quiet, status, faults>>

(* Any answer with a "result".                                              *)
AddAnswered ==
  /\ rpc = "add"
  /\ \/ stamp > last /\ Counted
     \/ Repeated
  /\ failures' = 0
  /\ rpc' = "beat"
  /\ Success
  /\ UNCHANGED <<syncing, status, registered>>

(* LAMPORT_VIOLATION: the batch comes back and the clock moves on.          *)
AddRefused ==
  /\ rpc = "add"
  /\ stamp <= last
  /\ \E ts \in (stamp + 1)..(last + Jump) :
       /\ \/ ts \in NextStamps /\ Replied("refused", ts)
          \/ <<rpc, stamp, "refused">> \in replies /\ ts <= last /\ UNCHANGED <<last, replies>>
       /\ lamport' = Updated(ts)
       /\ heard' = Greater(heard, ts)
  /\ pending' = Restored /\ NoBatch
  /\ rpc' = "beat"
  /\ Success
  /\ UNCHANGED <<syncing, status, localScore, registered, failures, counted, clicks>>

AddFails ==
  /\ rpc = "add"
  /\ Unanswered
  /\ pending' = Restored /\ NoBatch
  /\ failures' = failures + 1
  /\ rpc' = "beat"
  /\ Fault
  /\ UNCHANGED <<syncing, status, localScore, lamport, registered, clicks, heard>>

HeartbeatStarts ==
  /\ rpc = "beat"
  /\ status = "ONLINE"
  /\ rpc' = "heartbeat"
  /\ UNCHANGED <<quiet, status, faults>>

NoHeartbeat ==
  /\ rpc = "beat"
  /\ rpc' = "breaker"
  /\ UNCHANGED <<quiet, status, faults>>

HeartbeatEnds ==
  /\ rpc = "heartbeat"
  /\ rpc' = "breaker"
  /\ \/ Success /\ UNCHANGED failures
     \/ Fault /\ failures' = failures + 1
  /\ UNCHANGED <<pending, syncing, status, localScore, lamport, registered, batch, stamp,
                 server, clicks, heard>>

(* The circuit breaker; the scores may be due in the same turn.             *)
BreakerChecks ==
  /\ rpc = "breaker"
  /\ registered' = StillRegistered
  /\ status' = IF failures >= BreakAt THEN "OFFLINE" ELSE status
  /\ failures' = IF failures >= BreakAt THEN 0 ELSE failures
  /\ rpc' \in {"refresh", "top"}
  /\ UNCHANGED <<pending, syncing, localScore, lamport, batch, stamp, server, clicks, heard,
                 faults>>

(* A local score of 0 is not shown; the status becomes ONLINE whatever the  *)
(* breaker decided in this turn.                                            *)
ScoresRefreshed ==
  /\ rpc = "refresh"
  /\ rpc' = "top"
  /\ \/ /\ localScore' = IF ParsedScore > 0 THEN ParsedScore ELSE localScore
        /\ status' = "ONLINE"
        /\ Success
     \/ UNCHANGED <<localScore, status>> /\ Fault
  /\ UNCHANGED <<pending, syncing, lamport, registered, failures, batch, stamp,
                 server, clicks, heard>>

-----------------------------------------------------------------------------
(* The surroundings: the server loses its clocks, the board its memory.     *)

ServerRestarts ==
  /\ faults < MaxFaults /\ faults' = faults + 1
  /\ last' = 0 /\ replies' = {}
  /\ UNCHANGED <<pending, syncing, status, localScore, lamport, rpc, registered, failures,
                 batch, stamp, counted, clicks, heard>>

BoardReboots ==
  /\ faults < MaxFaults /\ faults' = faults + 1
  /\ dropped' = dropped + pending + batch
  /\ pending' = 0 /\ syncing' = 0 /\ status' = "CONNECTING"
  /\ localScore' = 0 /\ lamport' = 0
  /\ rpc' = "boot" /\ registered' = FALSE /\ failures' = 0
  /\ batch' = 0 /\ stamp' = 0 /\ heard' = 0
  /\ UNCHANGED <<server, presses, settled>>

TaskStep ==
  \/ Boot \/ WifiConnects \/ WifiFails \/ WifiRetries \/ Discovered
  \/ RegisterStarts \/ RegisterFails \/ RegisterSucceeds
  \/ SyncAnswered \/ SyncFails \/ FirstScores
  \/ AddStarts \/ NothingToAdd \/ AddAnswered \/ AddRefused \/ AddFails
  \/ HeartbeatStarts \/ NoHeartbeat \/ HeartbeatEnds
  \/ BreakerChecks \/ ScoresRefreshed

Next == TaskStep \/ Press \/ ServerRestarts \/ BoardReboots

Spec == Init /\ [][Next]_vars

(* task_rpc is scheduled again whenever its call or its delay has ended.    *)
FairSpec == Spec /\ WF_vars(TaskStep)

-----------------------------------------------------------------------------
(* Properties.                                                              *)

Calls == {"add", "sync"}

(* An answer the server still holds is to a stamp its clock has passed.     *)
RepliesOK == replies \subseteq Calls \X (1..last) \X {"ok", "refused"}

(* Every variable keeps its type; a call that carries clicks carries some,  *)
(* under a stamp, and there is no batch outside such a call.                *)
TypeOK ==
  /\ pending \in 0..CounterMax /\ syncing \in Nat /\ localScore \in Nat
  /\ status \in {"CONNECTING", "ONLINE", "OFFLINE", "SYNCING"}
  /\ lamport \in Nat
  /\ rpc \in {"boot", "dead", "wifi", "no_wifi", "discover", "top", "register", "sync",
              "first_scores", "add", "beat", "heartbeat", "breaker", "refresh"}
  /\ registered \in BOOLEAN /\ failures \in Nat
  /\ batch \in Nat /\ stamp \in Nat
  /\ IF rpc \in Calls THEN batch > 0 /\ stamp > 0 ELSE batch = 0
  /\ last \in Nat /\ counted \in Nat
  /\ RepliesOK
  /\ presses \in Nat /\ settled \in Nat /\ dropped \in Nat
  /\ heard \in Nat /\ faults \in Nat

(* Inside the board no click is lost or doubled: each one is waiting, in    *)
(* the call in progress, handed over, or gone with a reboot, whatever       *)
(* presses come between taking a batch and restoring it.  Only a counter at *)
(* its limit forgets presses.                                               *)
ClicksConserved ==
  /\ pending + batch + settled + dropped <= presses
  /\ presses <= CounterMax => presses = pending + batch + settled + dropped

(* A registered board is ONLINE outside its registration: otherwise the     *)
(* loop would neither send its clicks nor its heartbeat, nor ever register  *)
(* again (task_rpc.c:319, 383).                                             *)
RegisteredIsOnline == registered /\ rpc # "sync" => status = "ONLINE"

(* The display shows the batch being synchronised during that sync only.    *)
SyncingShown == syncing = IF rpc = "sync" THEN batch ELSE 0

(* The clock never goes back: the timestamp of a call is beyond every stamp *)
(* sent or received since the boot, until the clock nears its reset.        *)
StampsGrow ==
  [][rpc' \in Calls /\ rpc \notin Calls /\ heard < LamportMax - 1 => stamp' > heard]_vars

(* When calls stop failing, every click is handed over, whatever was lost,  *)
(* refused or restored before, and from whatever state the circuit was in.  *)
AllSettled == <>[](rpc = "dead" \/ pending + batch = 0)

(* Calls, retries, restores and reconnections together deliver at least     *)
(* once: seen from outside, the board does only what ClickDelivery allows,  *)
(* so no click leaves it unless the server confirmed it or it rebooted, and *)
(* no attempt counts more than was waiting.                                 *)
Delivery ==
  INSTANCE ClickDelivery WITH Limit <- CounterMax, made <- presses,
    waiting <- pending + batch, handed <- settled, lost <- dropped

DeliversAtLeastOnce == Delivery!Spec

-----------------------------------------------------------------------------
(* Claims of the documentation and the comments that the code does not keep. *)

(* "RATE_EXCEEDED: ... restore_clicks(rejeitados)": of a batch that          *)
(* add_clicks takes in part, only the clicks it counted leave the board     *)
(* (docs/FIRMWARE.md:78-79, task_rpc.c:354-355).  Not the first batch: the  *)
(* limit never cuts it.                                                     *)
RejectedComeBack ==
  [][AddAnswered /\ counted > 0 /\ counted' > counted
       => settled' - settled = counted' - counted]_vars

=============================================================================
