--------------------------- MODULE FirmwareProofs ---------------------------
(* Proofs about one board, for every value of the constants.                *)
EXTENDS Firmware, TLAPS

(* Before its registration has succeeded the task holds registered = FALSE, *)
(* so no status it shows there contradicts RegisteredIsOnline.              *)
Unregistered ==
  rpc \in {"boot", "dead", "wifi", "no_wifi", "discover", "register"} => ~registered

(* The clock follows the highest stamp heard; a call carries the clock.     *)
ClockFollows ==
  /\ rpc \in Calls => stamp = lamport /\ stamp <= heard
  /\ heard < LamportMax - 1 => lamport \in heard..(heard + 1)

(* The inductive invariant.                                                 *)
BoardInv ==
  TypeOK /\ ClicksConserved /\ RegisteredIsOnline /\ SyncingShown /\ Unregistered /\ ClockFollows

-----------------------------------------------------------------------------
(* A counter below its limit gains what is added, one at its limit stays    *)
(* there (shared_state.c, saturating_add).                                  *)
LEMMA Saturates ==
  ASSUME NEW a \in 0..CounterMax, NEW b \in Nat
  PROVE  /\ SaturatingAdd(a, b) \in 0..CounterMax
         /\ SaturatingAdd(a, b) <= a + b
         /\ a + b <= CounterMax => SaturatingAdd(a, b) = a + b
BY FirmwareAssumption DEF SaturatingAdd, FirmwareAssumption

(* The clock stays a positive number.                                       *)
LEMMA ClockType ==
  ASSUME lamport \in Nat
  PROVE  /\ Ticked \in Nat \ {0}
         /\ \A ts \in Nat : Updated(ts) \in Nat \ {0}
BY FirmwareAssumption DEF Ticked, Updated, FirmwareAssumption

(* The answers the server holds, when it adds one and when it does not.     *)
LEMMA RepliesKept == RepliesOK /\ UNCHANGED server => RepliesOK'
BY DEF RepliesOK, server, Calls

(* The answer to a new stamp is beyond it.                                  *)
LEMMA RepliesGrow ==
  ASSUME RepliesOK, rpc \in Calls, last \in Nat, stamp \in Nat \ {0},
         NEW answer \in {"ok", "refused"}, NEW ts \in NextStamps, Replied(answer, ts)
  PROVE  RepliesOK'
<1>1. last < ts /\ stamp < ts /\ ts \in Nat
  BY FirmwareAssumption DEF NextStamps, Greater, FirmwareAssumption
<1>2. <<rpc, stamp, answer>> \in Calls \X (1..ts) \X {"ok", "refused"}
  BY <1>1
<1>3. ASSUME NEW reply \in replies
      PROVE  reply \in Calls \X (1..ts) \X {"ok", "refused"}
  <2>1. reply \in Calls \X (1..last) \X {"ok", "refused"}
    BY DEF RepliesOK
  <2>2. PICK call \in Calls, old \in 1..last, kind \in {"ok", "refused"} :
               reply = <<call, old, kind>>
    BY <2>1
  <2>3. old \in 1..ts
    BY <1>1
  <2> QED BY <2>2, <2>3
<1>4. replies' \subseteq Calls \X (1..ts) \X {"ok", "refused"}
  BY <1>2, <1>3 DEF Replied
<1>5. last' = ts
  BY DEF Replied
<1> QED BY <1>4, <1>5 DEF RepliesOK, Calls

-----------------------------------------------------------------------------
(* The instance starts in the invariant.                                    *)
LEMMA InitBoard == Init => BoardInv
<1> SUFFICES ASSUME Init PROVE BoardInv
  OBVIOUS
<1>1. RepliesOK
  BY DEF Init, RepliesOK
<1>2. TypeOK
  <2>1. 0 \in 0..CounterMax
    BY FirmwareAssumption DEF FirmwareAssumption
  <2>2. rpc \notin Calls
    BY DEF Init, Calls
  <2> QED BY <1>1, <2>1, <2>2 DEF Init, TypeOK
<1>3. ClicksConserved /\ SyncingShown
  BY FirmwareAssumption DEF Init, ClicksConserved, SyncingShown, FirmwareAssumption
<1>4. RegisteredIsOnline /\ Unregistered /\ ClockFollows
  BY FirmwareAssumption DEF Init, RegisteredIsOnline, Unregistered, ClockFollows, Calls,
     FirmwareAssumption
<1> QED BY <1>2, <1>3, <1>4 DEF BoardInv

(* The steps of the loop that touch neither clicks nor clock.               *)
QuietStep ==
  \/ Boot \/ WifiConnects \/ WifiFails \/ WifiRetries \/ Discovered
  \/ RegisterStarts \/ RegisterFails \/ FirstScores \/ NothingToAdd
  \/ HeartbeatStarts \/ NoHeartbeat \/ HeartbeatEnds \/ BreakerChecks \/ ScoresRefreshed

(* The steps that move no click and no clock keep the invariant.            *)
LEMMA QuietSteps == ASSUME BoardInv, QuietStep PROVE BoardInv'
<1>1. UNCHANGED <<pending, syncing, lamport, batch, stamp, server, clicks, heard>>
  <2>1. CASE Boot \/ WifiConnects \/ WifiFails \/ WifiRetries \/ Discovered
    BY <2>1 DEF Boot, WifiConnects, WifiFails, WifiRetries, Discovered, quiet
  <2>2. CASE RegisterStarts \/ RegisterFails \/ FirstScores \/ NothingToAdd
    BY <2>2 DEF RegisterStarts, RegisterFails, FirstScores, NothingToAdd, quiet
  <2>3. CASE HeartbeatStarts \/ NoHeartbeat \/ HeartbeatEnds
    BY <2>3 DEF HeartbeatStarts, NoHeartbeat, HeartbeatEnds, quiet
  <2>4. CASE BreakerChecks \/ ScoresRefreshed
    BY <2>4 DEF BreakerChecks, ScoresRefreshed
  <2> QED BY <2>1, <2>2, <2>3, <2>4 DEF QuietStep
<1>2. RepliesOK'
  BY <1>1, RepliesKept DEF BoardInv, TypeOK
<1>3. ClicksConserved'
  BY <1>1 DEF BoardInv, ClicksConserved, clicks
<1>4. /\ rpc \notin Calls /\ rpc' \notin Calls
      /\ registered' \in BOOLEAN /\ failures' \in Nat /\ localScore' \in Nat
      /\ faults' \in Nat
      /\ status' \in {"CONNECTING", "ONLINE", "OFFLINE", "SYNCING"}
      /\ rpc' \in {"dead", "wifi", "no_wifi", "discover", "top", "register", "beat",
                   "heartbeat", "breaker", "refresh"}
      /\ RegisteredIsOnline' /\ Unregistered'
  <2> USE DEF BoardInv, TypeOK, RegisteredIsOnline, SyncingShown, Unregistered, Calls, quiet,
      Success, Fault
  <2>1. CASE Boot
    BY <2>1 DEF Boot
  <2>2. CASE WifiConnects
    BY <2>2 DEF WifiConnects
  <2>3. CASE WifiFails
    BY <2>3 DEF WifiFails
  <2>4. CASE WifiRetries
    BY <2>4 DEF WifiRetries
  <2>5. CASE Discovered
    BY <2>5 DEF Discovered
  <2>6. CASE RegisterStarts
    BY <2>6 DEF RegisterStarts
  <2>7. CASE RegisterFails
    BY <2>7 DEF RegisterFails
  <2>8. CASE FirstScores
    BY <2>8 DEF FirstScores, ParsedScore
  <2>9. CASE NothingToAdd
    BY <2>9 DEF NothingToAdd
  <2>10. CASE HeartbeatStarts \/ NoHeartbeat
    BY <2>10 DEF HeartbeatStarts, NoHeartbeat
  <2>11. CASE HeartbeatEnds
    BY <2>11 DEF HeartbeatEnds
  <2>12. CASE BreakerChecks
    <3>1. CASE failures >= BreakAt
      <4>1. ~(failures < BreakAt)
        BY <3>1, FirmwareAssumption DEF FirmwareAssumption
      <4>2. registered' = FALSE /\ status' = "OFFLINE" /\ failures' = 0
        BY <2>12, <3>1, <4>1, Zenon DEF BreakerChecks, StillRegistered
      <4> QED BY <2>12, <4>2 DEF BreakerChecks
    <3>2. CASE ~(failures >= BreakAt)
      <4>1. failures < BreakAt
        BY <3>2, FirmwareAssumption DEF FirmwareAssumption
      <4>2. registered' = registered /\ status' = status /\ failures' = failures
        <5>1. registered \in BOOLEAN
          OBVIOUS
        <5> QED BY <2>12, <3>2, <4>1, <5>1, Zenon DEF BreakerChecks, StillRegistered
      <4> QED BY <2>12, <4>2 DEF BreakerChecks
    <3> QED BY <3>1, <3>2
  <2>13. CASE ScoresRefreshed
    BY <2>13 DEF ScoresRefreshed, ParsedScore
  <2> QED BY <2>1, <2>2, <2>3, <2>4, <2>5, <2>6, <2>7, <2>8, <2>9, <2>10, <2>11, <2>12, <2>13
          DEF QuietStep
<1>5. TypeOK'
  BY <1>1, <1>2, <1>4 DEF BoardInv, TypeOK, Calls, server, clicks
<1>6. SyncingShown' /\ ClockFollows'
  BY <1>1, <1>4 DEF BoardInv, SyncingShown, ClockFollows, Calls
<1> QED BY <1>3, <1>4, <1>5, <1>6 DEF BoardInv

-----------------------------------------------------------------------------
(* A batch leaves pending_clicks for its call.                              *)
LEMMA TakesBatch ==
  ASSUME BoardInv, TakeBatch, pending > 0, batch = 0
  PROVE  /\ batch' = pending /\ pending' = 0 /\ pending \in Nat
         /\ lamport' \in Nat \ {0} /\ stamp' = lamport' /\ stamp' <= heard' /\ heard' \in Nat
         /\ heard <= heard' /\ lamport' = Ticked
         /\ heard' < LamportMax - 1 => lamport' = heard'
<1>1. Ticked \in Nat \ {0}
  BY ClockType DEF BoardInv, TypeOK
<1>2. pending \in Nat /\ heard \in Nat /\ lamport \in Nat
  BY FirmwareAssumption DEF BoardInv, TypeOK, FirmwareAssumption
<1>3. ASSUME heard' < LamportMax - 1 PROVE lamport' = heard'
  BY <1>1, <1>2, <1>3, FirmwareAssumption
     DEF TakeBatch, Greater, Ticked, BoardInv, ClockFollows, FirmwareAssumption
<1> QED BY <1>1, <1>2, <1>3 DEF TakeBatch, Greater

(* AddStarts: the clicks go from waiting to the call.                       *)
LEMMA AddStartsStep == ASSUME BoardInv, AddStarts PROVE BoardInv'
<1>1. batch = 0 /\ pending > 0 /\ TakeBatch
  BY DEF BoardInv, TypeOK, AddStarts, Calls
<1> USE TakesBatch, <1>1
<1>2. RepliesOK'
  BY RepliesKept DEF BoardInv, TypeOK, AddStarts
<1>3. TypeOK'
  BY <1>2, FirmwareAssumption DEF BoardInv, TypeOK, AddStarts, Calls, server, clicks, FirmwareAssumption
<1>4. ClicksConserved'
  BY DEF BoardInv, TypeOK, ClicksConserved, AddStarts, clicks
<1>5. RegisteredIsOnline' /\ SyncingShown' /\ Unregistered'
  BY DEF BoardInv, RegisteredIsOnline, SyncingShown, Unregistered, AddStarts
<1>6. ClockFollows'
  BY DEF ClockFollows, AddStarts, Calls
<1> QED BY <1>3, <1>4, <1>5, <1>6 DEF BoardInv

(* RegisterSucceeds: straight to ONLINE, or through a sync.                 *)
LEMMA RegisterStep == ASSUME BoardInv, RegisterSucceeds PROVE BoardInv'
<1>1. batch = 0 /\ rpc = "register"
  BY DEF BoardInv, TypeOK, RegisterSucceeds, Calls
<1>2. RepliesOK'
  BY RepliesKept DEF BoardInv, TypeOK, RegisterSucceeds
<1>3. registered' = TRUE /\ failures' = 0 /\ UNCHANGED <<faults, localScore, server, clicks>>
  BY DEF RegisterSucceeds, Success
<1>4. CASE pending > 0 /\ rpc' = "sync"
  <2>1. TakeBatch /\ syncing' = pending /\ status' = "SYNCING"
    BY <1>4 DEF RegisterSucceeds
  <2> USE TakesBatch, <1>1, <1>3, <1>4, <2>1
  <2>2. TypeOK'
    BY <1>2, FirmwareAssumption DEF BoardInv, TypeOK, Calls, server, clicks, FirmwareAssumption
  <2>3. ClicksConserved'
    BY DEF BoardInv, TypeOK, ClicksConserved, clicks
  <2>4. RegisteredIsOnline' /\ SyncingShown' /\ Unregistered' /\ ClockFollows'
    BY DEF RegisteredIsOnline, SyncingShown, Unregistered, ClockFollows, Calls
  <2> QED BY <2>2, <2>3, <2>4 DEF BoardInv
<1>5. CASE rpc' = "first_scores"
  <2>1. /\ status' = "ONLINE" /\ syncing' = 0
        /\ UNCHANGED <<pending, lamport, batch, stamp, heard>>
    BY <1>5 DEF RegisterSucceeds
  <2> USE <1>1, <1>3, <1>5, <2>1
  <2>2. TypeOK'
    BY <1>2 DEF BoardInv, TypeOK, Calls, server, clicks
  <2>3. ClicksConserved'
    BY DEF BoardInv, ClicksConserved, clicks
  <2>4. RegisteredIsOnline' /\ SyncingShown' /\ Unregistered' /\ ClockFollows'
    BY DEF BoardInv, RegisteredIsOnline, SyncingShown, Unregistered, ClockFollows, Calls
  <2> QED BY <2>2, <2>3, <2>4 DEF BoardInv
<1> QED BY <1>4, <1>5 DEF RegisterSucceeds

-----------------------------------------------------------------------------
(* An answer to a batch leaves the counters of the server and the board's   *)
(* clock as they should be.                                                 *)
LEMMA AnswerMovesClock ==
  ASSUME BoardInv, rpc \in Calls, NEW ts \in Nat, stamp < ts,
         lamport' = Updated(ts), heard' = Greater(heard, ts)
  PROVE  /\ lamport' \in Nat /\ heard' \in Nat
         /\ heard' < LamportMax - 1 => lamport' \in heard'..(heard' + 1)
<1>1. lamport \in Nat /\ heard \in Nat /\ stamp = lamport /\ stamp <= heard
  BY DEF BoardInv, TypeOK, ClockFollows
<1>2. lamport' \in Nat
  BY <1>1, ClockType
<1>3. heard' \in Nat
  BY <1>1 DEF Greater
<1>4. ASSUME heard' < LamportMax - 1 PROVE lamport' \in heard'..(heard' + 1)
  <2>1. ts < LamportMax - 1 /\ heard < LamportMax - 1
    BY <1>1, <1>4, FirmwareAssumption DEF Greater, FirmwareAssumption
  <2>2. heard <= lamport /\ lamport <= heard + 1
    BY <2>1, <1>1 DEF BoardInv, ClockFollows
  <2>3. lamport' = ts + 1
    BY <1>1, <2>1, FirmwareAssumption DEF Updated, FirmwareAssumption
  <2> QED BY <1>1, <2>1, <2>2, <2>3 DEF Greater
<1> QED BY <1>2, <1>3, <1>4

(* An answer, fresh or repeated, hands the batch over and moves the clocks  *)
(* on.                                                                      *)
LEMMA AnswerSettles ==
  ASSUME BoardInv, rpc \in Calls, Counted \/ Repeated
  PROVE  /\ RepliesOK' /\ last' \in Nat /\ counted' \in Nat
         /\ localScore' \in Nat
         /\ lamport' \in Nat /\ heard' \in Nat
         /\ heard' < LamportMax - 1 => lamport' \in heard'..(heard' + 1)
         /\ settled' = settled + batch /\ batch' = 0 /\ stamp' = 0
         /\ UNCHANGED <<pending, presses, dropped>>
<1>1. /\ stamp \in Nat \ {0} /\ batch \in Nat /\ last \in Nat /\ counted \in Nat
      /\ RepliesOK
  BY DEF BoardInv, TypeOK
<1>2. CASE Counted
  <2>1. PICK got \in 0..batch, ts \in NextStamps : Counts(got, ts) /\ Answered(ts, counted')
    BY <1>2 DEF Counted
  <2>2. ts \in Nat /\ stamp < ts
    BY <1>1, FirmwareAssumption DEF NextStamps, Greater, FirmwareAssumption
  <2>3. RepliesOK' /\ last' = ts
    BY <1>1, <2>1, RepliesGrow DEF Counts, Replied
  <2>4. counted' \in Nat /\ localScore' \in Nat
    BY <1>1, <2>1 DEF Counts, Answered
  <2>5. /\ lamport' = Updated(ts) /\ heard' = Greater(heard, ts)
        /\ settled' = settled + batch /\ batch' = 0 /\ stamp' = 0
        /\ UNCHANGED <<pending, presses, dropped>>
    BY <2>1 DEF Answered, NoBatch
  <2> QED BY <2>2, <2>3, <2>4, <2>5, AnswerMovesClock
<1>3. CASE Repeated
  <2>1. PICK ts \in (stamp + 1)..last, score \in 0..counted : Answered(ts, score)
    BY <1>3 DEF Repeated
  <2>2. ts \in Nat /\ stamp < ts
    BY <1>1
  <2>3. RepliesOK' /\ last' \in Nat /\ counted' \in Nat
    BY <1>1, <1>3, RepliesKept DEF Repeated, server
  <2>4. localScore' \in Nat
    BY <1>1, <2>1 DEF Answered
  <2>5. /\ lamport' = Updated(ts) /\ heard' = Greater(heard, ts)
        /\ settled' = settled + batch /\ batch' = 0 /\ stamp' = 0
        /\ UNCHANGED <<pending, presses, dropped>>
    BY <2>1 DEF Answered, NoBatch
  <2> QED BY <2>2, <2>3, <2>4, <2>5, AnswerMovesClock
<1> QED BY <1>2, <1>3

(* SyncAnswered and AddAnswered: the batch is handed over.                  *)
LEMMA AnsweredStep == ASSUME BoardInv, SyncAnswered \/ AddAnswered PROVE BoardInv'
<1>1. rpc \in Calls /\ (Counted \/ Repeated)
  BY DEF SyncAnswered, AddAnswered, Calls
<1> USE AnswerSettles, <1>1
<1>2. /\ syncing' \in Nat /\ failures' \in Nat /\ UNCHANGED <<faults, registered>>
      /\ status' \in {"CONNECTING", "ONLINE", "OFFLINE", "SYNCING"}
      /\ rpc' \in {"first_scores", "beat"}
  BY DEF BoardInv, TypeOK, SyncAnswered, AddAnswered, Success
<1>3. TypeOK'
  <2>1. settled' \in Nat
    BY DEF BoardInv, TypeOK
  <2> QED BY <2>1, <1>2 DEF BoardInv, TypeOK, Calls
<1>4. ClicksConserved'
  BY DEF BoardInv, TypeOK, ClicksConserved
<1>5. ClockFollows'
  BY <1>2 DEF ClockFollows, Calls
<1>6. RegisteredIsOnline' /\ SyncingShown' /\ Unregistered'
  BY <1>2 DEF BoardInv, RegisteredIsOnline, SyncingShown, Unregistered, SyncAnswered, AddAnswered
<1> QED BY <1>3, <1>4, <1>5, <1>6 DEF BoardInv

-----------------------------------------------------------------------------
(* A call that gave no answer, or a refusal, and the batch is restored.     *)
LEMMA Unanswers ==
  ASSUME BoardInv, rpc \in Calls, Unanswered
  PROVE  RepliesOK' /\ last' \in Nat /\ counted' \in Nat
<1>1. stamp \in Nat \ {0} /\ batch \in Nat /\ last \in Nat /\ counted \in Nat /\ RepliesOK
  BY DEF BoardInv, TypeOK
<1>2. CASE UNCHANGED server
  BY <1>1, <1>2, RepliesKept DEF server
<1>3. ASSUME NEW got \in 0..batch, NEW ts \in NextStamps, NEW answer \in {"ok", "refused"},
             Replied(answer, ts), counted' \in {counted, counted + got}
      PROVE  RepliesOK' /\ last' \in Nat /\ counted' \in Nat
  <2>1. ts \in Nat
    BY <1>1, FirmwareAssumption DEF NextStamps, Greater, FirmwareAssumption
  <2>2. RepliesOK'
    BY <1>1, <1>3, RepliesGrow
  <2> QED BY <1>1, <1>3, <2>1, <2>2 DEF Replied
<1>4. CASE \E got \in 0..batch, ts \in NextStamps : Counts(got, ts)
  BY <1>3, <1>4 DEF Counts
<1>5. CASE (\E ts \in NextStamps : Replied("refused", ts)) /\ UNCHANGED counted
  BY <1>1, <1>3, <1>5
<1> QED BY <1>2, <1>4, <1>5 DEF Unanswered

(* Restoring a batch loses no click below the limit and invents none.       *)
LEMMA Restores ==
  ASSUME BoardInv, pending' = Restored
  PROVE  /\ pending' \in 0..CounterMax
         /\ pending' <= pending + batch
         /\ pending + batch <= CounterMax => pending' = pending + batch
BY Saturates DEF BoardInv, TypeOK, Restored

(* What is restored and what was pressed add up, even at the limit.         *)
LEMMA RestoreConserves ==
  ASSUME BoardInv, pending' = Restored, batch' = 0, UNCHANGED clicks
  PROVE  ClicksConserved'
<1>1. /\ pending \in Nat /\ batch \in Nat /\ presses \in Nat /\ settled \in Nat /\ dropped \in Nat
      /\ pending' \in Nat
  BY Restores, FirmwareAssumption DEF BoardInv, TypeOK, FirmwareAssumption
<1>2. pending + batch + settled + dropped <= presses
  BY DEF BoardInv, ClicksConserved
<1>3. presses <= CounterMax => /\ presses = pending + batch + settled + dropped
                               /\ pending + batch <= CounterMax
  BY <1>1, <1>2, FirmwareAssumption DEF BoardInv, ClicksConserved, FirmwareAssumption
<1> QED BY <1>1, <1>2, <1>3, Restores DEF ClicksConserved, clicks

(* SyncFails.                                                               *)
LEMMA SyncFailsStep == ASSUME BoardInv, SyncFails PROVE BoardInv'
<1>1. rpc \in Calls /\ Unanswered /\ pending' = Restored /\ batch' = 0 /\ stamp' = 0 /\ UNCHANGED clicks
  BY DEF SyncFails, Calls, NoBatch
<1>2. TypeOK'
  <2>1. RepliesOK' /\ last' \in Nat /\ counted' \in Nat /\ pending' \in 0..CounterMax
    BY <1>1, Unanswers, Restores
  <2>2. /\ syncing' = 0 /\ status' = "OFFLINE" /\ rpc' = "top" /\ registered' = FALSE
        /\ faults' = faults + 1
        /\ UNCHANGED <<localScore, lamport, failures, clicks, heard>>
    BY DEF SyncFails, SyncingAfterFailure, Fault
  <2>3. rpc' \notin Calls /\ Calls' = Calls
    BY <2>2 DEF Calls
  <2>4. /\ localScore' \in Nat /\ lamport' \in Nat /\ failures' \in Nat /\ heard' \in Nat
        /\ faults' \in Nat
        /\ presses' \in Nat /\ settled' \in Nat /\ dropped' \in Nat
    BY <2>2 DEF BoardInv, TypeOK, clicks
  <2> QED BY <1>1, <2>1, <2>2, <2>3, <2>4 DEF TypeOK
<1>3. ClicksConserved'
  BY <1>1, RestoreConserves
<1>4. RegisteredIsOnline' /\ SyncingShown' /\ Unregistered' /\ ClockFollows'
  BY DEF BoardInv, RegisteredIsOnline, SyncingShown, Unregistered, ClockFollows, SyncFails,
     SyncingAfterFailure, Calls
<1> QED BY <1>2, <1>3, <1>4 DEF BoardInv

(* AddFails.                                                                *)
LEMMA AddFailsStep == ASSUME BoardInv, AddFails PROVE BoardInv'
<1>1. rpc \in Calls /\ Unanswered /\ pending' = Restored /\ batch' = 0 /\ stamp' = 0 /\ UNCHANGED clicks
  BY DEF AddFails, Calls, NoBatch
<1>2. TypeOK'
  BY <1>1, Unanswers, Restores DEF BoardInv, TypeOK, AddFails, Calls, Fault, clicks
<1>3. ClicksConserved'
  BY <1>1, RestoreConserves
<1>4. RegisteredIsOnline' /\ SyncingShown' /\ Unregistered' /\ ClockFollows'
  BY DEF BoardInv, RegisteredIsOnline, SyncingShown, Unregistered, ClockFollows, AddFails, Calls
<1> QED BY <1>2, <1>3, <1>4 DEF BoardInv

(* AddRefused.                                                              *)
LEMMA AddRefusedStep == ASSUME BoardInv, AddRefused PROVE BoardInv'
<1>1. rpc \in Calls /\ pending' = Restored /\ batch' = 0 /\ stamp' = 0 /\ UNCHANGED clicks
  BY DEF AddRefused, Calls, NoBatch
<1>2. /\ stamp \in Nat \ {0} /\ last \in Nat /\ RepliesOK
  BY <1>1 DEF BoardInv, TypeOK
<1>3. PICK ts \in (stamp + 1)..(last + Jump) :
        /\ \/ ts \in NextStamps /\ Replied("refused", ts)
           \/ <<rpc, stamp, "refused">> \in replies /\ ts <= last /\ UNCHANGED <<last, replies>>
        /\ lamport' = Updated(ts)
        /\ heard' = Greater(heard, ts)
  BY DEF AddRefused
<1>4. ts \in Nat /\ stamp < ts
  BY <1>2, FirmwareAssumption DEF FirmwareAssumption
<1>5. RepliesOK' /\ last' \in Nat
  <2>1. CASE ts \in NextStamps /\ Replied("refused", ts)
    BY <1>1, <1>2, <1>4, <2>1, RepliesGrow DEF Replied
  <2>2. CASE UNCHANGED <<last, replies>>
    BY <1>2, <2>2 DEF RepliesOK, Calls
  <2> QED BY <1>3, <2>1, <2>2
<1>6. /\ lamport' \in Nat /\ heard' \in Nat
      /\ heard' < LamportMax - 1 => lamport' \in heard'..(heard' + 1)
  BY <1>1, <1>3, <1>4, AnswerMovesClock
<1>7. TypeOK'
  BY <1>1, <1>5, <1>6, Restores DEF BoardInv, TypeOK, AddRefused, Calls, Success, clicks
<1>8. ClicksConserved'
  BY <1>1, RestoreConserves
<1>9. RegisteredIsOnline' /\ SyncingShown' /\ Unregistered' /\ ClockFollows'
  BY <1>6 DEF BoardInv, RegisteredIsOnline, SyncingShown, Unregistered, ClockFollows, AddRefused, Calls
<1> QED BY <1>7, <1>8, <1>9 DEF BoardInv

-----------------------------------------------------------------------------
(* The button and the surroundings.                                         *)
LEMMA PressStep == ASSUME BoardInv, Press PROVE BoardInv'
<1>1. /\ pending' \in 0..CounterMax /\ pending' <= pending + 1
      /\ pending + 1 <= CounterMax => pending' = pending + 1
  BY Saturates DEF BoardInv, TypeOK, Press
<1>2. RepliesOK'
  BY RepliesKept DEF BoardInv, TypeOK, Press
<1>3. TypeOK'
  BY <1>1, <1>2 DEF BoardInv, TypeOK, Press, Calls, server
<1>4. ClicksConserved'
  <2>1. /\ pending \in Nat /\ pending' \in Nat /\ batch \in Nat /\ presses \in Nat /\ settled \in Nat
        /\ dropped \in Nat
    BY <1>1, FirmwareAssumption DEF BoardInv, TypeOK, FirmwareAssumption
  <2>2. presses' = presses + 1 /\ UNCHANGED <<batch, settled, dropped>>
    BY DEF Press
  <2>3. pending' + batch' + settled' + dropped' <= presses'
    <3>1. pending + batch + settled + dropped <= presses
      BY DEF BoardInv, ClicksConserved
    <3>2. pending' <= pending + 1
      BY <1>1
    <3>3. presses' = presses + 1 /\ batch' = batch /\ settled' = settled /\ dropped' = dropped
      BY <2>2
    <3>4. ASSUME NEW p \in Nat, NEW q \in Nat, NEW b \in Nat, NEW s \in Nat, NEW d \in Nat,
                 NEW n \in Nat, q <= p + 1, p + b + s + d <= n
          PROVE  q + b + s + d <= n + 1
      BY <3>4
    <3> QED BY <2>1, <3>1, <3>2, <3>3, <3>4
  <2>4. ASSUME presses' <= CounterMax
        PROVE  presses' = pending' + batch' + settled' + dropped'
    <3>1. presses = pending + batch + settled + dropped
      BY <2>1, <2>2, <2>4, FirmwareAssumption DEF BoardInv, ClicksConserved, FirmwareAssumption
    <3>2. pending + 1 <= CounterMax
      BY <2>1, <2>2, <2>4, <3>1, FirmwareAssumption DEF FirmwareAssumption
    <3> QED BY <1>1, <2>1, <2>2, <3>1, <3>2
  <2> QED BY <2>3, <2>4 DEF ClicksConserved
<1>5. RegisteredIsOnline' /\ SyncingShown' /\ Unregistered' /\ ClockFollows'
  BY DEF BoardInv, RegisteredIsOnline, SyncingShown, Unregistered, ClockFollows, Press, Calls
<1> QED BY <1>3, <1>4, <1>5 DEF BoardInv

(* A restart of the server keeps the invariant.                             *)
LEMMA ServerRestartsStep == ASSUME BoardInv, ServerRestarts PROVE BoardInv'
<1>1. RepliesOK'
  BY DEF RepliesOK, ServerRestarts
<1>2. TypeOK'
  BY <1>1 DEF BoardInv, TypeOK, ServerRestarts, Calls, clicks
<1>3. ClicksConserved' /\ RegisteredIsOnline' /\ SyncingShown' /\ Unregistered' /\ ClockFollows'
  BY DEF BoardInv, ClicksConserved, RegisteredIsOnline, SyncingShown, Unregistered, ClockFollows,
     ServerRestarts, Calls, clicks
<1> QED BY <1>2, <1>3 DEF BoardInv

(* A reboot of the board keeps the invariant.                               *)
LEMMA BoardRebootsStep == ASSUME BoardInv, BoardReboots PROVE BoardInv'
<1>1. RepliesOK'
  BY RepliesKept DEF BoardInv, TypeOK, BoardReboots
<1>2. 0 \in 0..CounterMax /\ rpc' \notin Calls /\ Calls' = Calls
  BY FirmwareAssumption DEF BoardReboots, Calls, FirmwareAssumption
<1>3. TypeOK'
  <2>1. dropped' \in Nat /\ faults' \in Nat
    BY FirmwareAssumption DEF BoardInv, TypeOK, BoardReboots, FirmwareAssumption
  <2>2. UNCHANGED <<last, counted, presses, settled>>
    BY DEF BoardReboots, server
  <2>3. /\ last \in Nat /\ counted \in Nat /\ presses \in Nat /\ settled \in Nat
    BY DEF BoardInv, TypeOK
  <2> QED BY <1>1, <1>2, <2>1, <2>2, <2>3 DEF BoardReboots, TypeOK
<1>4. ClicksConserved'
  BY DEF BoardInv, TypeOK, ClicksConserved, BoardReboots
<1>5. RegisteredIsOnline' /\ SyncingShown' /\ Unregistered' /\ ClockFollows'
  BY FirmwareAssumption DEF BoardInv, RegisteredIsOnline, SyncingShown, Unregistered, ClockFollows,
     BoardReboots, Calls, FirmwareAssumption
<1> QED BY <1>3, <1>4, <1>5 DEF BoardInv

(* A step that changes nothing keeps the invariant.                         *)
LEMMA StutterStep == ASSUME BoardInv, UNCHANGED vars PROVE BoardInv'
<1>1. RepliesOK'
  BY RepliesKept DEF BoardInv, TypeOK, vars
<1> QED BY <1>1 DEF BoardInv, TypeOK, ClicksConserved, RegisteredIsOnline, SyncingShown, Unregistered,
  ClockFollows, Calls, vars, server, clicks

(* Every step keeps the invariant.                                          *)
LEMMA NextBoard == BoardInv /\ [Next]_vars => BoardInv'
<1> SUFFICES ASSUME BoardInv, [Next]_vars PROVE BoardInv'
  OBVIOUS
<1>1. CASE QuietStep
  BY <1>1, QuietSteps
<1>2. CASE RegisterSucceeds \/ AddStarts
  BY <1>2, RegisterStep, AddStartsStep
<1>3. CASE SyncAnswered \/ AddAnswered
  BY <1>3, AnsweredStep
<1>4. CASE SyncFails \/ AddFails \/ AddRefused
  BY <1>4, SyncFailsStep, AddFailsStep, AddRefusedStep
<1>5. CASE Press \/ ServerRestarts \/ BoardReboots
  BY <1>5, PressStep, ServerRestartsStep, BoardRebootsStep
<1>6. CASE UNCHANGED vars
  BY <1>6, StutterStep
<1> QED BY <1>1, <1>2, <1>3, <1>4, <1>5, <1>6 DEF Next, TaskStep, QuietStep

-----------------------------------------------------------------------------
(* Every reachable state of a board is in the invariant.                    *)
THEOREM BoardInvariant == Spec => []BoardInv
BY InitBoard, NextBoard, PTL DEF Spec

(* Whatever presses, failures, reboots and restarts come in between, no     *)
(* click is lost or doubled inside the board before its counter is full.    *)
THEOREM ClicksAreConserved == Spec => []ClicksConserved
<1>1. BoardInv => ClicksConserved
  BY DEF BoardInv
<1> QED BY <1>1, BoardInvariant, PTL

(* The loop of a registered board is never stuck: it shows ONLINE, the      *)
(* status under which it sends clicks and heartbeats.                       *)
THEOREM RegisteredStaysOnline == Spec => []RegisteredIsOnline
<1>1. BoardInv => RegisteredIsOnline
  BY DEF BoardInv
<1> QED BY <1>1, BoardInvariant, PTL

(* A call's stamp is beyond all the board has sent or heard since it booted *)
(* until the clock nears its reset.                                         *)
THEOREM CallsAreFresh == Spec => StampsGrow
<1>1. ASSUME BoardInv, [Next]_vars
      PROVE  [rpc' \in Calls /\ rpc \notin Calls /\ heard < LamportMax - 1 => stamp' > heard]_vars
  <2> SUFFICES ASSUME Next, rpc' \in Calls, rpc \notin Calls, heard < LamportMax - 1
               PROVE  stamp' > heard
    BY <1>1
  <2>1. TakeBatch
    <3>1. AddStarts \/ (RegisterSucceeds /\ rpc' = "sync") => TakeBatch
      BY DEF AddStarts, RegisterSucceeds
    <3>2. AddStarts \/ (RegisterSucceeds /\ rpc' = "sync")
      <4>1. ~ (SyncAnswered \/ SyncFails \/ AddAnswered \/ AddRefused \/ AddFails)
        BY DEF SyncAnswered, SyncFails, AddAnswered, AddRefused, AddFails, Calls
      <4>2. ~ (Press \/ ServerRestarts \/ BoardReboots)
        BY DEF Press, ServerRestarts, BoardReboots, Calls
      <4>3. ~ (Boot \/ WifiConnects \/ WifiFails \/ WifiRetries \/ Discovered \/ RegisterStarts
               \/ RegisterFails \/ FirstScores)
        BY DEF Boot, WifiConnects, WifiFails, WifiRetries, Discovered, RegisterStarts,
           RegisterFails, FirstScores, Calls
      <4>4. ~ (NothingToAdd \/ HeartbeatStarts \/ NoHeartbeat \/ HeartbeatEnds \/ BreakerChecks
               \/ ScoresRefreshed)
        BY DEF NothingToAdd, HeartbeatStarts, NoHeartbeat, HeartbeatEnds, BreakerChecks,
           ScoresRefreshed, Calls
      <4>5. RegisterSucceeds => rpc' = "sync"
        BY DEF RegisterSucceeds, Calls
      <4> QED BY <4>1, <4>2, <4>3, <4>4, <4>5 DEF Next, TaskStep
    <3> QED BY <3>1, <3>2
  <2>2. heard \in Nat /\ heard <= lamport /\ lamport <= heard + 1 /\ lamport \in Nat
    BY <1>1 DEF BoardInv, TypeOK, ClockFollows
  <2> QED BY <2>1, <2>2, FirmwareAssumption DEF TakeBatch, Ticked, FirmwareAssumption
<1> QED BY <1>1, BoardInvariant, PTL DEF Spec, StampsGrow

-----------------------------------------------------------------------------
(* Every variable keeps its type, and only the two calls carry clicks.      *)
THEOREM TypesHold == Spec => []TypeOK
<1>1. BoardInv => TypeOK
  BY DEF BoardInv
<1> QED BY <1>1, BoardInvariant, PTL

(* The count the display shows as being sent is that of the sync in         *)
(* progress and gone when it ends, however it ends.                         *)
THEOREM SyncingIsShown == Spec => []SyncingShown
<1>1. BoardInv => SyncingShown
  BY DEF BoardInv
<1> QED BY <1>1, BoardInvariant, PTL

-----------------------------------------------------------------------------
(* The refinement.  Taking a batch and the steps that touch no click are    *)
(* invisible from outside.                                                  *)
LEMMA InvisibleSteps ==
  ASSUME BoardInv, QuietStep \/ RegisterSucceeds \/ AddStarts \/ ServerRestarts \/ UNCHANGED vars
  PROVE  UNCHANGED Delivery!vars
<1> USE DEF Delivery!vars, clicks, server
<1>1. CASE Boot \/ WifiConnects \/ WifiFails \/ WifiRetries \/ Discovered
  BY <1>1 DEF Boot, WifiConnects, WifiFails, WifiRetries, Discovered, quiet
<1>2. CASE RegisterStarts \/ RegisterFails \/ FirstScores \/ NothingToAdd
  BY <1>2 DEF RegisterStarts, RegisterFails, FirstScores, NothingToAdd, quiet
<1>3. CASE HeartbeatStarts \/ NoHeartbeat \/ HeartbeatEnds
  BY <1>3 DEF HeartbeatStarts, NoHeartbeat, HeartbeatEnds, quiet
<1>4. CASE BreakerChecks \/ ScoresRefreshed \/ ServerRestarts \/ UNCHANGED vars
  BY <1>4 DEF BreakerChecks, ScoresRefreshed, ServerRestarts, vars
<1>5. CASE RegisterSucceeds \/ AddStarts
  <2>1. batch = 0 /\ pending \in Nat
    BY <1>5, FirmwareAssumption
       DEF BoardInv, TypeOK, RegisterSucceeds, AddStarts, Calls, FirmwareAssumption
  <2>2. pending' + batch' = pending + batch
    BY <1>5, <2>1 DEF RegisterSucceeds, AddStarts, TakeBatch
  <2> QED BY <1>5, <2>2 DEF RegisterSucceeds, AddStarts
<1> QED BY <1>1, <1>2, <1>3, <1>4, <1>5 DEF QuietStep

(* An answer hands the batch over; at most the batch is counted.            *)
LEMMA AnswerDelivers == ASSUME BoardInv, SyncAnswered \/ AddAnswered PROVE Delivery!HandOver
<1>1. rpc \in Calls /\ (Counted \/ Repeated)
  BY DEF SyncAnswered, AddAnswered, Calls
<1>2. /\ pending \in Nat /\ batch \in Nat \ {0} /\ counted \in Nat /\ CounterMax \in Nat
  BY <1>1, FirmwareAssumption DEF BoardInv, TypeOK, FirmwareAssumption
<1>3. settled' = settled + batch /\ batch' = 0 /\ UNCHANGED <<pending, presses, dropped>>
  BY <1>1, AnswerSettles
<1>4. \E got \in 0..batch : counted' = counted + got
  <2>1. CASE Counted
    BY <2>1 DEF Counted, Counts
  <2>2. CASE Repeated
    BY <2>2, <1>2 DEF Repeated, server
  <2> QED BY <1>1, <2>1, <2>2
<1>5. batch \in 1..(pending + batch) /\ pending' + batch' = (pending + batch) - batch
  BY <1>2, <1>3
<1> QED BY <1>3, <1>4, <1>5 DEF Delivery!HandOver

(* A call without an answer, or a refusal, is an attempt.                   *)
LEMMA FailureDelivers ==
  ASSUME BoardInv, SyncFails \/ AddFails \/ AddRefused
  PROVE  Delivery!Attempt
<1>1. rpc \in Calls /\ pending' = Restored /\ batch' = 0 /\ UNCHANGED clicks
  BY DEF SyncFails, AddFails, AddRefused, Calls, NoBatch
<1>2. pending \in 0..CounterMax /\ batch \in Nat /\ counted \in Nat /\ CounterMax \in Nat
  BY FirmwareAssumption DEF BoardInv, TypeOK, FirmwareAssumption
<1>3. \/ pending' + batch' = pending + batch
      \/ pending + batch > CounterMax /\ pending' + batch' = CounterMax
  BY <1>1, <1>2 DEF Restored, SaturatingAdd
<1>4. \E got \in 0..(pending + batch) : counted' = counted + got
  <2>1. CASE SyncFails \/ AddFails
    <3>1. CASE UNCHANGED counted
      BY <3>1, <1>2
    <3>2. CASE ~ UNCHANGED counted
      <4>1. PICK got \in 0..batch, ts \in NextStamps : Counts(got, ts)
        BY <2>1, <3>2 DEF SyncFails, AddFails, Unanswered, server
      <4>2. got \in 0..(pending + batch)
        BY <1>2
      <4> QED BY <4>1, <4>2 DEF Counts
    <3> QED BY <3>1, <3>2
  <2>2. CASE AddRefused
    BY <2>2, <1>2 DEF AddRefused
  <2> QED BY <2>1, <2>2
<1> QED BY <1>1, <1>3, <1>4 DEF Delivery!Attempt, clicks

(* A press is a click of the promise.                                       *)
LEMMA PressDelivers == ASSUME BoardInv, Press PROVE Delivery!Click
<1>1. pending \in 0..CounterMax /\ batch \in Nat /\ CounterMax \in Nat
  BY FirmwareAssumption DEF BoardInv, TypeOK, FirmwareAssumption
<1>2. \/ pending' + batch' = (pending + batch) + 1
      \/ pending + batch >= CounterMax /\ pending' + batch' = pending + batch
  BY <1>1 DEF Press, SaturatingAdd
<1> QED BY <1>2 DEF Delivery!Click, Press, server

(* A reboot drops what is held, as the promise allows.                      *)
LEMMA RebootDelivers == ASSUME BoardInv, BoardReboots PROVE Delivery!Reboot
<1>1. pending \in Nat /\ batch \in Nat /\ dropped \in Nat
  BY FirmwareAssumption DEF BoardInv, TypeOK, FirmwareAssumption
<1> QED BY <1>1 DEF Delivery!Reboot, BoardReboots, server

(* The board implements at-least-once delivery: with all its calls,         *)
(* retries, restores, reconnections and failures it takes no step on the    *)
(* clicks that ClickDelivery does not allow.                                *)
THEOREM BoardDelivers == Spec => DeliversAtLeastOnce
<1>1. Init => Delivery!Init
  BY DEF Init, Delivery!Init
<1>2. BoardInv /\ [Next]_vars => [Delivery!Next]_(Delivery!vars)
  <2> SUFFICES ASSUME BoardInv, [Next]_vars PROVE Delivery!Next \/ UNCHANGED Delivery!vars
    OBVIOUS
  <2>1. CASE QuietStep \/ RegisterSucceeds \/ AddStarts \/ ServerRestarts \/ UNCHANGED vars
    BY <2>1, InvisibleSteps
  <2>2. CASE SyncAnswered \/ AddAnswered
    BY <2>2, AnswerDelivers DEF Delivery!Next
  <2>3. CASE SyncFails \/ AddFails \/ AddRefused
    BY <2>3, FailureDelivers DEF Delivery!Next
  <2>4. CASE Press \/ BoardReboots
    BY <2>4, PressDelivers, RebootDelivers DEF Delivery!Next
  <2> QED BY <2>1, <2>2, <2>3, <2>4 DEF Next, TaskStep, QuietStep
<1> QED BY <1>1, <1>2, BoardInvariant, PTL DEF Spec, DeliversAtLeastOnce, Delivery!Spec

=============================================================================
