----------------------------- MODULE ScoreProofs -----------------------------
(* Proofs about what the server counts, stores and answers, for every value *)
(* of the constants: the global score, the milestones, the rows of the      *)
(* scores, the rate windows and the repeated requests.                      *)
EXTENDS GameManagerProofs

(* The two ways a batch enters the scores.                                  *)
LEMMA AddScores ==
  ASSUME TypeOK, NEW h \in Handlers, ApplyAdd(h)
  PROVE  \E acc, gain \in Nat, entry \in NodeType :
           /\ Score(h, now, acc, gain, entry)
           /\ entry.last_ts = now
           /\ entry.score = nodes[req[h].node].score + gain
  <1> DEFINE r     == req[h]
             old   == nodes[r.node]
             acc   == Accepted(r.clicks, now - old.last_ts)
             gain  == IF Boosted(old) THEN acc * old.multiplier ELSE acc
             new   == [old EXCEPT !.last_ts = now, !.score = @ + gain,
                                  !.multiplier = IF Boosted(old) THEN @ ELSE 1]
  <1>1. pc[h] \in Requesting
    BY DEF ApplyAdd, Acquires, Requesting
  <1>2. r.clicks \in Nat /\ r.node \in Nodes
    BY <1>1, RequestTypes
  <1>3. old \in NodeType /\ now \in Nat
    BY <1>2 DEF TypeOK, MemoryType
  <1>4. old.last_ts \in Nat /\ old.score \in Nat /\ old.multiplier \in {1, 3}
    BY <1>3 DEF NodeType
  <1>5. acc \in Nat
    <2>1. now - old.last_ts \in Int
      BY <1>3, <1>4
    <2> QED BY <1>2, <2>1, AcceptedIsNat
  <1>6. gain \in Nat
    <2>1. acc * old.multiplier \in Nat
      <3> HIDE DEF acc
      <3> QED BY <1>4, <1>5
    <2> QED BY <1>5, <2>1
  <1>7. Score(h, now, acc, gain, new)
    BY DEF ApplyAdd
  <1> HIDE DEF acc, gain
  <1>8. old.score + gain \in Nat
    BY <1>4, <1>6
  <1>9. new \in NodeType /\ new.last_ts = now /\ new.score = old.score + gain
    BY <1>3, <1>4, <1>8 DEF NodeType
  <1> HIDE DEF new
  <1> QED BY <1>5, <1>6, <1>7, <1>9

(* What sync_offline counts is neither multiplied nor does it move the window. *)
LEMMA SyncScores ==
  ASSUME TypeOK, NEW h \in Handlers, ApplySync(h)
  PROVE  \E acc \in Nat, entry \in NodeType :
           /\ Score(h, work[h].start, acc, acc, entry)
           /\ entry.last_ts = nodes[req[h].node].last_ts
           /\ entry.score = dbScore[req[h].node] + acc
  <1> DEFINE n   == req[h].node
             acc == AcceptedOffline(req[h].clicks, dbSeen[n], work[h].start)
             new == [nodes[n] EXCEPT !.score = dbScore[n] + acc]
  <1>1. pc[h] \in Requesting
    BY DEF ApplySync, Requesting
  <1>2. req[h].clicks \in Nat /\ n \in Nodes
    BY <1>1, RequestTypes
  <1>3. work[h].start \in Nat /\ dbSeen[n] \in Nat /\ dbScore[n] \in Nat /\ nodes[n] \in NodeType
    BY <1>2 DEF TypeOK, MemoryType, DiskType, HandlerType, WorkType
  <1>4. acc \in Nat
    BY <1>2, <1>3, AcceptedOfflineIsNat
  <1>5. Score(h, work[h].start, acc, acc, new)
    BY DEF ApplySync
  <1> HIDE DEF acc
  <1>6. new \in NodeType /\ new.last_ts = nodes[n].last_ts /\ new.score = dbScore[n] + acc
    <2>1. dbScore[n] + acc \in Nat
      BY <1>3, <1>4
    <2> QED BY <1>3, <2>1 DEF NodeType
  <1> HIDE DEF new
  <1> QED BY <1>4, <1>5, <1>6

(* Whoever is about to count is alone with the scores.                      *)
LEMMA CountsAlone ==
  ASSUME Mutex, NEW h \in Handlers, ApplyAdd(h) \/ ApplySync(h)
  PROVE  \A k \in Handlers : pc[k] \in Inside => k = h /\ pc[h] = "read"
  <1>1. CASE ApplyAdd(h)
    BY <1>1, GameManagerAssumption DEF ApplyAdd, Acquires, Mutex
  <1>2. CASE ApplySync(h)
    BY <1>2, WaitsInside, InsideHolds DEF ApplySync
  <1> QED BY <1>1, <1>2

-----------------------------------------------------------------------------
(* The milestones.  While a batch is counted the set of those done lags     *)
(* behind the global score by what the loop still has to do, and the row of *)
(* the one it did last may still be missing.                                *)

Counting == {"score", "milestone"}

Between(low, high) == {m \in Milestones : low < m /\ m <= high}

MilestoneInv ==
  /\ bootScore <= globalScore
  /\ (\A h \in Handlers : pc[h] \notin Counting) =>
       /\ milestonesDone = Between(bootScore, globalScore)
       /\ \A m \in milestonesDone : dbMilestones[m] > 0
  /\ \A h \in Handlers : pc[h] \in Counting =>
       /\ bootScore <= work[h].before /\ work[h].before <= globalScore
       /\ milestonesDone \cup Crossed(work[h].before) = Between(bootScore, globalScore)
       /\ \A k \in work[h].reached, m \in Crossed(work[h].before) : k < m
       /\ \A m \in milestonesDone :
            dbMilestones[m] > 0 \/ (m \in work[h].reached /\ \A k \in work[h].reached : k <= m)
  /\ \A h \in Handlers : pc[h] = "score" => work[h].reached = {}

(* A step outside the counting keeps it.                                    *)
LEMMA MilestonesKept ==
  ASSUME MilestoneInv, UNCHANGED <<milestonesDone, globalScore, bootScore, dbMilestones>>,
         \A k \in Handlers : /\ pc'[k] \in Counting <=> pc[k] \in Counting
                             /\ pc[k] \in Counting => pc'[k] = pc[k] /\ work'[k] = work[k]
  PROVE  MilestoneInv'
  BY DEF MilestoneInv, Crossed, Between, Counting

(* A batch enters the scores: the loop has all of it before it.             *)
LEMMA ScoreMilestones ==
  ASSUME TypeOK, MilestoneInv, NEW h \in Handlers, \A k \in Handlers : pc[k] \notin Counting,
         NEW start, NEW acc, NEW gain \in Nat, NEW entry, Score(h, start, acc, gain, entry)
  PROVE  MilestoneInv'
  <1>1. /\ globalScore' = globalScore + gain
        /\ UNCHANGED <<milestonesDone, bootScore, dbMilestones>>
    BY DEF Score, disk
  <1>2. globalScore \in Nat /\ bootScore \in Nat /\ Milestones \subseteq Nat
    BY GameManagerAssumption DEF TypeOK, MemoryType, HistoryType
  <1>3. /\ pc'[h] = "score" /\ work'[h].before = globalScore /\ work'[h].reached = {}
        /\ \A k \in Handlers : k # h => pc'[k] = pc[k]
    BY DEF Score, NoWork, TypeOK, HandlerType
  <1>4. /\ milestonesDone = Between(bootScore, globalScore)
        /\ \A m \in milestonesDone : dbMilestones[m] > 0
        /\ bootScore <= globalScore
    BY DEF MilestoneInv
  <1>5. Crossed(work[h].before)'
          = {m \in Milestones \ milestonesDone : globalScore < m /\ m <= globalScore'}
    BY <1>1, <1>3 DEF Crossed
  <1>6. milestonesDone' \cup Crossed(work[h].before)' = Between(bootScore, globalScore)'
    <2>1. globalScore' \in Nat /\ globalScore <= globalScore'
      BY <1>1, <1>2
    <2>2. \A m \in Milestones : globalScore < m \/ m <= globalScore
      BY <1>2
    <2>3. \A m \in Milestones : (m <= globalScore => m <= globalScore')
                                /\ (globalScore < m => bootScore < m)
      BY <1>2, <1>4, <2>1
    <2>4. Between(bootScore, globalScore)' = {m \in Milestones : bootScore < m /\ m <= globalScore'}
      BY <1>1 DEF Between
    <2> QED BY <1>1, <1>4, <1>5, <2>2, <2>3, <2>4 DEF Between
  <1>7. /\ bootScore' <= globalScore' /\ bootScore' <= work'[h].before
        /\ work'[h].before <= globalScore'
    BY <1>1, <1>2, <1>3, <1>4
  <1>8. \A k \in Handlers : pc'[k] \in Counting => k = h
    BY <1>3
  <1>9. pc'[h] \in Counting
    BY <1>3 DEF Counting
  <1>10. \A m \in milestonesDone' : dbMilestones'[m] > 0
    BY <1>1, <1>4
  <1> QED BY <1>3, <1>6, <1>7, <1>8, <1>9, <1>10 DEF MilestoneInv, Counting

(* The loop over the milestones takes the lowest one that is left, so the   *)
(* one whose row is pending is the highest it has reached.                  *)
LEMMA LoopMilestones ==
  ASSUME TypeOK, NEW h \in Handlers, NEW w \in WorkType, NextMilestone(h, w),
         \A k \in Handlers : k # h => pc[k] \notin Counting,
         UNCHANGED <<globalScore, bootScore>>,
         bootScore <= w.before, w.before <= globalScore,
         milestonesDone \cup Crossed(w.before) = Between(bootScore, globalScore),
         \A k \in w.reached, m \in Crossed(w.before) : k < m,
         \A m \in milestonesDone : dbMilestones'[m] > 0
  PROVE  MilestoneInv'
  <1>0. /\ globalScore \in Nat /\ bootScore \in Nat /\ Milestones \subseteq Nat
        /\ w.before \in Nat /\ w.reached \subseteq Nat
        /\ DOMAIN pc = Handlers /\ DOMAIN work = Handlers
    BY GameManagerAssumption DEF TypeOK, MemoryType, HistoryType, HandlerType, WorkType
  <1>1. bootScore <= globalScore
    BY <1>0
  <1>2. CASE /\ Crossed(w.before) = {}
             /\ pc' = [pc EXCEPT ![h] = "event"]
             /\ UNCHANGED milestonesDone
    <2>1. \A k \in Handlers : pc'[k] \notin Counting
      BY <1>0, <1>2 DEF Counting
    <2>2. milestonesDone' = Between(bootScore, globalScore)'
      BY <1>2 DEF Between
    <2> QED BY <1>1, <1>2, <2>1, <2>2 DEF MilestoneInv, Counting
  <1>3. ASSUME NEW m \in Crossed(w.before), \A k \in Crossed(w.before) : m <= k,
               milestonesDone' = milestonesDone \cup {m},
               pc' = [pc EXCEPT ![h] = "milestone"],
               work' = [work EXCEPT ![h] = [w EXCEPT !.reached = @ \cup {m}]]
        PROVE  MilestoneInv'
    <2>1. work'[h].before = w.before /\ work'[h].reached = w.reached \cup {m} /\ pc'[h] = "milestone"
      BY <1>0, <1>3 DEF WorkType
    <2>2. \A k \in Handlers : pc'[k] \in Counting => k = h
      BY <1>0, <1>3
    <2>3. Crossed(w.before)' = Crossed(w.before) \ {m} /\ m \in Nat
      BY <1>0, <1>3 DEF Crossed
    <2>4. milestonesDone' \cup Crossed(w.before)' = Between(bootScore, globalScore)'
      BY <1>3, <2>3 DEF Between
    <2>5. \A k \in work'[h].reached, x \in Crossed(w.before)' : k < x
      <3>1. \A x \in Crossed(w.before)' : m < x
        BY <1>0, <1>3, <2>3 DEF Crossed
      <3> QED BY <2>1, <2>3, <3>1
    <2>6. \A x \in milestonesDone' :
            dbMilestones'[x] > 0 \/ (x \in work'[h].reached /\ \A k \in work'[h].reached : k <= x)
      <3>1. m \in work'[h].reached /\ \A k \in work'[h].reached : k <= m
        BY <1>0, <1>3, <2>1, <2>3
      <3> QED BY <1>3, <3>1
    <2>7. (Crossed(work[h].before))' = Crossed(w.before)'
      BY <2>1 DEF Crossed
    <2> QED BY <1>1, <2>1, <2>2, <2>4, <2>5, <2>6, <2>7 DEF MilestoneInv, Counting
  <1> QED BY <1>2, <1>3 DEF NextMilestone

(* Every step keeps it, if the score and the milestones are always saved.   *)
LEMMA MilestoneStep ==
  ASSUME Faults \cap Counting = {}, TypeOK, Mutex, MilestoneInv, [Next]_vars
  PROVE  MilestoneInv'
  <1>0. /\ DOMAIN pc = Handlers /\ DOMAIN work = Handlers
        /\ \A k \in Handlers : work[k] \in WorkType
    BY DEF TypeOK, HandlerType
  <1> USE DEF memory, scores, disk, history
  <1>1. ASSUME NEW h \in Handlers, Step(h) PROVE MilestoneInv'
    <2>1. CASE NodeUpserted(h) \/ ReplayCached(h) \/ ViolationRecorded(h) \/ RankingRead(h)
               \/ DatabaseFails(h)
      <3>1. pc[h] \notin Counting /\ Idles(h)
        BY <1>0, <2>1 DEF NodeUpserted, ReplayCached, ViolationRecorded, RankingRead,
           DatabaseFails, Acquires, Respond, SendReply, Counting
      <3>2. UNCHANGED <<milestonesDone, globalScore, bootScore, dbMilestones>>
        BY <2>1 DEF NodeUpserted, ReplayCached, ViolationRecorded, RankingRead,
           DatabaseFails, Respond, SendReply
      <3>3. \A k \in Handlers : /\ pc'[k] \in Counting <=> pc[k] \in Counting
                                /\ pc[k] \in Counting => pc'[k] = pc[k] /\ work'[k] = work[k]
        BY <1>0, <3>1 DEF Idles, Counting
      <3> QED BY <3>2, <3>3, MilestonesKept
    <2>2. CASE BeginViolation(h) \/ BeginSync(h) \/ RegistryLoaded(h) \/ StatusSaved(h)
               \/ EventSaved(h) \/ HeartbeatSaved(h)
      <3>1. UNCHANGED <<milestonesDone, globalScore, bootScore, dbMilestones>>
        BY <2>2 DEF BeginViolation, BeginSync, RegistryLoaded, StatusSaved, EventSaved,
           HeartbeatSaved, Respond, SendReply
      <3>2. pc[h] \notin Counting
        BY <2>2 DEF BeginViolation, BeginSync, RegistryLoaded, StatusSaved, EventSaved,
           HeartbeatSaved, Acquires, Counting
      <3>3. /\ pc'[h] \notin Counting
            /\ \A k \in Handlers : k # h => pc'[k] = pc[k] /\ work'[k] = work[k]
        BY <1>0, <2>2 DEF BeginViolation, BeginSync, RegistryLoaded, StatusSaved, EventSaved,
           HeartbeatSaved, Respond, SendReply, Idles, Counting
      <3> QED BY <3>1, <3>2, <3>3, MilestonesKept
    <2>3. CASE ApplyAdd(h) \/ ApplySync(h)
      <3>1. \A k \in Handlers : pc[k] \notin Counting
        BY <2>3, CountsAlone, WaitsInside DEF Counting
      <3>2. CASE ApplyAdd(h)
        BY <3>1, <3>2, AddScores, ScoreMilestones
      <3>3. CASE ApplySync(h)
        BY <3>1, <3>3, SyncScores, ScoreMilestones
      <3> QED BY <2>3, <3>2, <3>3
    <2>4. CASE ScoreSaved(h)
      <3> DEFINE w == [work[h] EXCEPT !.stamp = Stamp(req[h].ts)]
      <3>1. pc[h] \in Requesting /\ pc[h] \in Inside /\ pc[h] \in Counting
        BY <2>4, WaitsInside DEF ScoreSaved, Requesting, Counting
      <3>2. Stamp(req[h].ts) \in Nat
        BY <3>1, RequestTypes, StampIsNat
      <3>3. w \in WorkType /\ w.before = work[h].before /\ w.reached = {}
        BY <1>0, <2>4, <3>2 DEF WorkType, MilestoneInv, ScoreSaved
      <3>4. \A k \in Handlers : k # h => pc[k] \notin Counting
        BY <3>1, InsideHolds, WaitsInside DEF Counting
      <3>5. /\ NextMilestone(h, w) /\ UNCHANGED <<globalScore, bootScore>>
            /\ \A m \in milestonesDone : dbMilestones'[m] > 0
        BY <2>4, <3>1, <3>3 DEF ScoreSaved, MilestoneInv
      <3> HIDE DEF w
      <3> QED BY <3>1, <3>3, <3>4, <3>5, LoopMilestones DEF MilestoneInv
    <2>5. CASE MilestoneSaved(h)
      <3>1. pc[h] \in Inside /\ pc[h] \in Counting
        BY <2>5, WaitsInside DEF MilestoneSaved, Counting
      <3>2. \A k \in Handlers : k # h => pc[k] \notin Counting
        BY <3>1, InsideHolds, WaitsInside DEF Counting
      <3>3. PICK m \in work[h].reached :
              /\ \A k \in work[h].reached : k <= m
              /\ dbMilestones' = [dbMilestones EXCEPT ![m] = @ + 1]
        BY <2>5 DEF MilestoneSaved
      <3>4. work[h].reached \subseteq Milestones /\ Milestones \subseteq Nat
        BY <1>0, GameManagerAssumption DEF WorkType
      <3>5. \A x \in milestonesDone : dbMilestones'[x] > 0
        <4>1. dbMilestones \in [Milestones -> Nat] /\ milestonesDone \subseteq Milestones
          BY DEF TypeOK, DiskType, MemoryType
        <4>2. \A x \in milestonesDone : dbMilestones[x] > 0 \/ x = m
          <5>1. \A x \in milestonesDone :
                  dbMilestones[x] > 0 \/ (x \in work[h].reached /\ \A k \in work[h].reached : k <= x)
            BY <3>1 DEF MilestoneInv
          <5>2. ASSUME NEW x \in work[h].reached, x <= m, m <= x PROVE x = m
            <6>1. x \in Nat /\ m \in Nat
              BY <3>4
            <6> QED BY <5>2, <6>1
          <5> QED BY <3>3, <5>1, <5>2
        <4> QED BY <3>3, <3>4, <4>1, <4>2
      <3>6. NextMilestone(h, work[h]) /\ UNCHANGED <<globalScore, bootScore>>
        BY <2>5 DEF MilestoneSaved
      <3> QED BY <1>0, <3>1, <3>2, <3>5, <3>6, LoopMilestones DEF MilestoneInv
    <2> QED BY <1>1, <2>1, <2>2, <2>3, <2>4, <2>5 DEF Step
  <1>2. CASE Restart
    <2>1. globalScore' = bootScore' /\ globalScore' \in Nat
      BY <1>2, StepTypes DEF Restart, Next, TypeOK, MemoryType
    <2>2. milestonesDone' = Between(bootScore, globalScore)'
      <3>1. \A m \in Milestones : ~(bootScore' < m /\ m <= globalScore')
        BY <2>1, GameManagerAssumption
      <3> QED BY <1>2, <3>1 DEF Restart, Between
    <2>3. \A k \in Handlers : pc'[k] = "idle"
      BY <1>2 DEF Restart
    <2> QED BY <1>2, <2>1, <2>2, <2>3 DEF MilestoneInv, Counting, Restart
  <1>3. CASE \/ \E h \in Handlers, r \in Request : Receive(h, r)
             \/ \E h \in Handlers, n \in Nodes : RegisterNode(h, n)
             \/ \E n \in Nodes : ActivatePowerup(n)
             \/ TimePasses \/ UNCHANGED vars
    <2>1. /\ UNCHANGED <<milestonesDone, globalScore, bootScore, dbMilestones>>
          /\ \A k \in Handlers : /\ pc'[k] \in Counting <=> pc[k] \in Counting
                                 /\ pc[k] \in Counting => pc'[k] = pc[k] /\ work'[k] = work[k]
      BY <1>0, <1>3 DEF Receive, RegisterNode, ActivatePowerup, TimePasses, vars, Counting
    <2> QED BY <2>1, MilestonesKept
  <1> QED BY <1>1, <1>2, <1>3 DEF Next

(* Whatever the order of batches, retries and restarts, between requests    *)
(* the milestones done are those crossed since the boot, each with its row. *)
(* A save of a score or of a milestone that raises breaks this for good:    *)
(* the milestone is never tried again.                                      *)
THEOREM MilestonesAreExact == Faults \cap Counting = {} => (Spec => []MilestonesExact)
  <1> SUFFICES ASSUME Faults \cap Counting = {} PROVE Spec => []MilestonesExact
    OBVIOUS
  <1>1. Init => MilestoneInv
    <2>1. Between(0, 0) = {}
      <3>1. ASSUME NEW m \in Milestones PROVE ~(0 < m /\ m <= 0)
        <4>1. m \in Nat
          BY GameManagerAssumption
        <4> QED BY <4>1
      <3> QED BY <3>1 DEF Between
    <2>2. Init => \A h \in Handlers : pc[h] \notin Counting
      BY DEF Init, Counting
    <2> QED BY <2>1, <2>2 DEF Init, MilestoneInv, Counting
  <1>2. StampInv /\ MilestoneInv /\ [Next]_vars => MilestoneInv'
    BY MilestoneStep DEF StampInv
  <1>3. StampInv /\ MilestoneInv => MilestonesExact
    BY WaitsInside, GameManagerAssumption
       DEF StampInv, Mutex, MilestoneInv, MilestonesExact, Free, Between, Counting
  <1> QED BY <1>1, <1>2, <1>3, StampInvHolds, PTL DEF Spec

-----------------------------------------------------------------------------
(* Who moves in a step.                                                     *)

(* One handler runs at a time: the others stay where they wait.             *)
LEMMA OthersStay ==
  ASSUME TypeOK, NEW h \in Handlers, Step(h)
  PROVE  \A k \in Handlers : k # h => pc'[k] = pc[k] /\ req'[k] = req[k] /\ work'[k] = work[k]
  <1>0. DOMAIN pc = Handlers /\ DOMAIN work = Handlers /\ DOMAIN req = Handlers
    BY DEF TypeOK, HandlerType
  <1>1. CASE NodeUpserted(h) \/ ReplayCached(h) \/ ViolationRecorded(h) \/ RankingRead(h)
             \/ DatabaseFails(h)
    BY <1>0, <1>1 DEF NodeUpserted, ReplayCached, ViolationRecorded, RankingRead,
       DatabaseFails, Respond, SendReply, Idles
  <1>2. CASE BeginViolation(h) \/ BeginSync(h) \/ RegistryLoaded(h) \/ StatusSaved(h)
             \/ ApplyAdd(h) \/ ApplySync(h)
    BY <1>0, <1>2 DEF BeginViolation, BeginSync, RegistryLoaded, StatusSaved, ApplyAdd,
       ApplySync, Score
  <1>3. CASE ScoreSaved(h) \/ MilestoneSaved(h) \/ EventSaved(h) \/ HeartbeatSaved(h)
    BY <1>0, <1>3 DEF ScoreSaved, MilestoneSaved, NextMilestone, EventSaved, HeartbeatSaved,
       Respond, SendReply, Idles
  <1> QED BY <1>1, <1>2, <1>3 DEF Step

(* The loop over the milestones keeps the time the request began.           *)
LEMMA LoopStart ==
  ASSUME TypeOK, NEW h \in Handlers, NEW w \in WorkType, NextMilestone(h, w)
  PROVE  pc'[h] \in {"milestone", "event"} /\ work'[h].start = w.start
  <1>0. DOMAIN pc = Handlers /\ DOMAIN work = Handlers
    BY DEF TypeOK, HandlerType
  <1> QED BY <1>0 DEF NextMilestone, WorkType

(* So does the step that saves the score and enters the loop.               *)
LEMMA ScoreSavedStart ==
  ASSUME TypeOK, NEW h \in Handlers, ScoreSaved(h)
  PROVE  pc'[h] \in {"milestone", "event"} /\ work'[h].start = work[h].start /\ req' = req
  <1> DEFINE w == [work[h] EXCEPT !.stamp = Stamp(req[h].ts)]
  <1>1. Stamp(req[h].ts) \in Nat
    BY RequestTypes, StampIsNat DEF ScoreSaved, Requesting
  <1>2. w \in WorkType /\ w.start = work[h].start
    BY <1>1 DEF TypeOK, HandlerType, WorkType
  <1>3. NextMilestone(h, w) /\ req' = req
    BY DEF ScoreSaved
  <1> HIDE DEF w
  <1> QED BY <1>2, <1>3, LoopStart

(* The steps that are neither a handler's turn nor a restart.               *)
Quiet ==
  \/ \E h \in Handlers, r \in Request : Receive(h, r)
  \/ \E h \in Handlers, n \in Nodes : RegisterNode(h, n)
  \/ \E n \in Nodes : ActivatePowerup(n)
  \/ TimePasses \/ UNCHANGED vars

(* They count nothing, answer nothing and leave alone who is inside.        *)
LEMMA QuietKeeps ==
  ASSUME TypeOK, Quiet
  PROVE  /\ UNCHANGED <<globalScore, milestonesDone, cache, disk, lock, applied, sent,
                        bootScore, restarts>>
         /\ \A n \in Nodes : nodes'[n].score = nodes[n].score /\ nodes'[n].last_ts = nodes[n].last_ts
         /\ \A k \in Handlers :
              /\ pc'[k] \in Inside <=> pc[k] \in Inside
              /\ pc[k] \in Inside => pc'[k] = pc[k] /\ req'[k] = req[k] /\ work'[k] = work[k]
         /\ now' \in Nat /\ now' >= now
  <1>0. /\ DOMAIN pc = Handlers /\ DOMAIN work = Handlers /\ DOMAIN req = Handlers
        /\ now \in Nat /\ nodes \in [Nodes -> NodeType]
    BY DEF TypeOK, HandlerType, MemoryType
  <1> USE DEF memory, scores, disk, history
  <1>1. ASSUME NEW n \in Nodes, ActivatePowerup(n)
        PROVE  \A m \in Nodes : nodes'[m].score = nodes[m].score /\ nodes'[m].last_ts = nodes[m].last_ts
    BY <1>0, <1>1 DEF ActivatePowerup, NodeType
  <1>2. CASE \E n \in Nodes : ActivatePowerup(n)
    <2>1. PICK n \in Nodes : ActivatePowerup(n)
      BY <1>2
    <2>2. \A m \in Nodes : nodes'[m].score = nodes[m].score /\ nodes'[m].last_ts = nodes[m].last_ts
      BY <1>1, <2>1
    <2>3. UNCHANGED <<now, globalScore, milestonesDone, cache, disk, lock, pc, req, work, applied,
                      sent, bootScore, restarts>>
      BY <2>1 DEF ActivatePowerup
    <2> QED BY <1>0, <2>2, <2>3
  <1>3. CASE TimePasses \/ UNCHANGED vars
    BY <1>0, <1>3 DEF TimePasses, vars
  <1>4. CASE \/ \E h \in Handlers, r \in Request : Receive(h, r)
             \/ \E h \in Handlers, n \in Nodes : RegisterNode(h, n)
    BY <1>0, <1>4, WaitsInside DEF Receive, RegisterNode
  <1> QED BY <1>2, <1>3, <1>4 DEF Quiet

-----------------------------------------------------------------------------
(* The rows of the scores.  The row of a node whose batch was just counted  *)
(* lags until the save; what comes after the save relies on it.             *)

Saved == {"milestone", "event", "activate", "beat"}

RowOf(n) == dbScore[n] = nodes[n].score

RowInv ==
  /\ \A n \in Nodes : nodes[n].last_ts > 0 =>
       RowOf(n) \/ \E h \in Handlers : pc[h] = "score" /\ req[h].node = n
  /\ \A h \in Handlers : pc[h] \in Saved => RowOf(req[h].node)

(* A step that touches neither scores nor rows keeps it.                    *)
LEMMA RowsKept ==
  ASSUME RowInv, dbScore' = dbScore,
         \A n \in Nodes : nodes'[n].score = nodes[n].score /\ nodes'[n].last_ts = nodes[n].last_ts,
         \A k \in Handlers : pc[k] \in Saved \cup {"score"} => req[k].node \in Nodes,
         \A k \in Handlers : /\ pc[k] = "score" => pc'[k] = pc[k] /\ req'[k] = req[k]
                             /\ pc'[k] \in Saved => pc[k] \in Saved /\ req'[k] = req[k]
  PROVE  RowInv'
  BY DEF RowInv, RowOf

(* Counting a batch leaves its row behind and the others where they were.   *)
LEMMA ScoreRows ==
  ASSUME TypeOK, RowInv, NEW h \in Handlers, \A k \in Handlers : pc[k] \notin Saved \cup {"score"},
         NEW start, NEW acc, NEW gain, NEW entry, Score(h, start, acc, gain, entry)
  PROVE  RowInv'
  <1>1. /\ pc'[h] = "score" /\ \A k \in Handlers : k # h => pc'[k] = pc[k]
        /\ req' = req /\ dbScore' = dbScore
        /\ \A n \in Nodes : n # req[h].node => nodes'[n] = nodes[n]
    BY DEF Score, TypeOK, HandlerType, MemoryType, disk
  <1> QED BY <1>1 DEF RowInv, RowOf, Saved

(* Every step keeps it, if no save of a score raises.                       *)
LEMMA RowStep ==
  ASSUME "score" \notin Faults, TypeOK, Mutex, RowInv, [Next]_vars
  PROVE  RowInv'
  <1>0. /\ DOMAIN pc = Handlers /\ DOMAIN work = Handlers /\ DOMAIN req = Handlers
        /\ \A k \in Handlers : pc[k] \in Saved \cup {"score"} => req[k].node \in Nodes
    BY RequestTypes DEF TypeOK, HandlerType, Saved, Requesting
  <1> USE DEF memory, scores, disk, history
  <1>1. ASSUME NEW h \in Handlers, Step(h) PROVE RowInv'
    <2>0. \A k \in Handlers : k # h => pc'[k] = pc[k] /\ req'[k] = req[k]
      BY <1>1, OthersStay
    <2>1. CASE NodeUpserted(h) \/ ReplayCached(h) \/ ViolationRecorded(h) \/ RankingRead(h)
               \/ DatabaseFails(h)
      <3>1. UNCHANGED <<dbScore, nodes>> /\ pc'[h] = "idle" /\ pc[h] # "score"
        BY <1>0, <2>1 DEF NodeUpserted, ReplayCached, ViolationRecorded, RankingRead,
           DatabaseFails, Acquires, Respond, SendReply, Idles
      <3> QED BY <1>0, <2>0, <3>1, RowsKept DEF Saved
    <2>2. CASE BeginViolation(h) \/ BeginSync(h) \/ RegistryLoaded(h) \/ StatusSaved(h)
               \/ EventSaved(h) \/ MilestoneSaved(h)
      <3>1. UNCHANGED <<dbScore, nodes>>
        BY <2>2 DEF BeginViolation, BeginSync, RegistryLoaded, StatusSaved, EventSaved,
           MilestoneSaved, Respond, SendReply
      <3>2. /\ pc[h] # "score"
            /\ pc'[h] \in Saved => pc[h] \in Saved /\ req'[h] = req[h]
        BY <1>0, <2>2 DEF BeginViolation, BeginSync, RegistryLoaded, StatusSaved, EventSaved,
           MilestoneSaved, NextMilestone, Respond, SendReply, Acquires, Idles, Saved
      <3> QED BY <1>0, <2>0, <3>1, <3>2, RowsKept
    <2>3. CASE ApplyAdd(h) \/ ApplySync(h)
      <3>1. \A k \in Handlers : pc[k] \notin Saved \cup {"score"}
        BY <2>3, CountsAlone, WaitsInside DEF Saved
      <3> QED BY <2>3, <3>1, ScoreRows DEF ApplyAdd, ApplySync
    <2>4. CASE ScoreSaved(h)
      <3>1. /\ dbScore' = [dbScore EXCEPT ![req[h].node] = nodes[req[h].node].score]
            /\ nodes' = nodes /\ req' = req /\ pc[h] = "score" /\ pc'[h] \in Saved
        BY <1>0, <2>4 DEF ScoreSaved, SavedScore, NextMilestone, Saved
      <3>2. /\ req[h].node \in Nodes /\ DOMAIN dbScore = Nodes
            /\ \A k \in Handlers : pc[k] \in Inside => k = h
        BY <1>0, <3>1, InsideHolds, WaitsInside DEF TypeOK, DiskType
      <3>3. RowOf(req[h].node)' /\ \A n \in Nodes : n # req[h].node => dbScore'[n] = dbScore[n]
        BY <3>1, <3>2 DEF RowOf
      <3>4. \A k \in Handlers : pc'[k] \in Saved => k = h
        BY <2>0, <3>2, WaitsInside DEF Saved
      <3>5. \A k \in Handlers : pc[k] = "score" => k = h
        BY <3>2, WaitsInside
      <3> QED BY <3>1, <3>3, <3>4, <3>5 DEF RowInv, RowOf
    <2>5. CASE HeartbeatSaved(h)
      <3>1. /\ pc[h] = "beat" /\ dbScore' = dbScore /\ pc'[h] \notin Saved /\ pc'[h] # "score"
            /\ \A n \in Nodes : /\ nodes'[n].score = nodes[n].score
                                /\ n # req[h].node => nodes'[n].last_ts = nodes[n].last_ts
        BY <1>0, <2>5 DEF HeartbeatSaved, Respond, SendReply, Idles, TypeOK, MemoryType, NodeType, Saved
      <3>2. RowOf(req[h].node) /\ req[h].node \in Nodes
        BY <1>0, <3>1 DEF RowInv, Saved
      <3>3. \A k \in Handlers : pc[k] \notin Saved \cup {"score"} \/ k = h
        BY <3>1, InsideHolds, WaitsInside DEF Saved
      <3> QED BY <2>0, <3>1, <3>2, <3>3 DEF RowInv, RowOf
    <2> QED BY <1>1, <2>1, <2>2, <2>3, <2>4, <2>5 DEF Step
  <1>2. CASE Restart
    BY <1>2 DEF Restart, RowInv, NewNode, Saved
  <1>3. CASE Quiet
    BY <1>0, <1>3, QuietKeeps, WaitsInside, RowsKept DEF Saved
  <1> QED BY <1>1, <1>2, <1>3 DEF Next, Quiet

(* Between requests the row of every node scored since the boot is its      *)
(* score in memory, across retries, batches and restarts.  One save of a    *)
(* score that raises leaves the row behind until the node's next batch.     *)
THEOREM RowsMatchMemory == "score" \notin Faults => (Spec => []DbMatchesMemory)
  <1> SUFFICES ASSUME "score" \notin Faults PROVE Spec => []DbMatchesMemory
    OBVIOUS
  <1>1. Init => RowInv
    BY DEF Init, RowInv, NewNode, Saved
  <1>2. StampInv /\ RowInv /\ [Next]_vars => RowInv'
    BY RowStep DEF StampInv
  <1>3. StampInv /\ RowInv => DbMatchesMemory
    BY WaitsInside, GameManagerAssumption DEF StampInv, Mutex, RowInv, RowOf, DbMatchesMemory, Free
  <1> QED BY <1>1, <1>2, <1>3, StampInvHolds, PTL DEF Spec

-----------------------------------------------------------------------------
(* The rate windows.  sync_offline moves a node's window only in its last   *)
(* steps, to a time it read when it began: until then the node has a        *)
(* handler that will, and nothing was counted in between.  A window never   *)
(* starts but at a batch that was counted.                                  *)

Moving == {"score", "milestone", "event", "activate", "beat"}

CountedFor(n, t) == \E a \in applied : a.run = restarts /\ a.key[2] = n /\ a.at = t

WindowInv ==
  /\ \A a \in applied : a.at <= now /\ a.run <= restarts
  /\ \A h \in Handlers : pc[h] \in Inside =>
       work[h].start <= now /\ \A a \in applied : a.at <= work[h].start
  /\ \A a \in applied : a.run = restarts =>
       \/ nodes[a.key[2]].last_ts >= a.at
       \/ \E h \in Handlers : pc[h] \in Moving /\ req[h].kind = "sync" /\ req[h].node = a.key[2]
  /\ \A n \in Nodes : nodes[n].last_ts = 0 \/ CountedFor(n, nodes[n].last_ts)
  /\ \A h \in Handlers : pc[h] \in Moving => CountedFor(req[h].node, work[h].start)

(* The times the invariant speaks of.                                       *)
LEMMA WindowTypes ==
  ASSUME TypeOK
  PROVE  /\ now \in Nat /\ restarts \in Nat
         /\ \A a \in applied : a.at \in Nat /\ a.run \in Nat /\ a.key[2] \in Nodes
         /\ \A k \in Handlers : work[k].start \in Nat
         /\ \A n \in Nodes : nodes[n] \in NodeType /\ nodes[n].last_ts \in Nat
  BY DEF TypeOK, MemoryType, HandlerType, HistoryType, WorkType, NodeType, KeyType

(* A step that counts nothing and moves no window back keeps it.            *)
LEMMA WindowKept ==
  ASSUME TypeOK, WindowInv, UNCHANGED <<applied, restarts>>, now' \in Nat, now' >= now,
         \A n \in Nodes : nodes'[n].last_ts = nodes[n].last_ts,
         \A k \in Handlers :
           /\ pc'[k] \in Inside => \/ pc[k] \in Inside /\ work'[k].start = work[k].start
                                   \/ work'[k].start = now
           /\ pc[k] \in Moving /\ req[k].kind = "sync" => pc'[k] \in Moving /\ req'[k] = req[k]
           /\ pc'[k] \in Moving => /\ pc[k] \in Moving /\ req'[k] = req[k]
                                   /\ work'[k].start = work[k].start
  PROVE  WindowInv'
  <1>0. /\ \A n \in Nodes : nodes'[n].last_ts = 0 \/ CountedFor(n, nodes[n].last_ts)'
        /\ \A k \in Handlers : pc'[k] \in Moving => CountedFor(req[k].node, work[k].start)'
    BY DEF WindowInv, CountedFor
  <1>1. \A a \in applied' : a.at <= now' /\ a.run <= restarts'
    BY WindowTypes DEF WindowInv
  <1>2. ASSUME NEW k \in Handlers, pc'[k] \in Inside
        PROVE  work'[k].start <= now' /\ \A a \in applied' : a.at <= work'[k].start
    <2>1. CASE pc[k] \in Inside /\ work'[k].start = work[k].start
      BY <2>1, WindowTypes DEF WindowInv
    <2>2. CASE work'[k].start = now
      BY <2>2, WindowTypes DEF WindowInv
    <2> QED BY <1>2, <2>1, <2>2
  <1>3. ASSUME NEW a \in applied, a.run = restarts
        PROVE  \/ nodes'[a.key[2]].last_ts >= a.at
               \/ \E h \in Handlers : pc'[h] \in Moving /\ req'[h].kind = "sync"
                                        /\ req'[h].node = a.key[2]
    BY <1>3, WindowTypes DEF WindowInv
  <1> QED BY <1>0, <1>1, <1>2, <1>3 DEF WindowInv

(* A batch is counted no earlier than those before it, and its node's       *)
(* window moves at once or is in the hands of the handler that counts it.   *)
LEMMA ScoreWindow ==
  ASSUME TypeOK, WindowInv, NEW h \in Handlers, \A k \in Handlers : pc[k] \in Inside => k = h,
         NEW start \in Nat, NEW acc, NEW gain, NEW entry, Score(h, start, acc, gain, entry),
         start <= now, \A a \in applied : a.at <= start, pc[h] \notin Moving,
         \/ entry.last_ts = start
         \/ req[h].kind = "sync" /\ entry.last_ts = nodes[req[h].node].last_ts,
         req[h].node \in Nodes
  PROVE  WindowInv'
  <1> DEFINE x == [key |-> Key(req[h]), at |-> start, run |-> restarts, accepted |-> acc]
             n == req[h].node
  <1>1. applied' = applied \cup {x} /\ x.at = start /\ x.run = restarts /\ x.key[2] = n
    BY DEF Score, Key
  <1> HIDE DEF x
  <1>2. /\ pc'[h] = "score" /\ work'[h].start = start
        /\ \A k \in Handlers : k # h => pc'[k] = pc[k]
        /\ UNCHANGED <<now, req, restarts>>
        /\ nodes'[n] = entry /\ \A m \in Nodes : m # n => nodes'[m] = nodes[m]
    BY DEF Score, NoWork, TypeOK, HandlerType, MemoryType
  <1>3. \A a \in applied' : a.at <= now' /\ a.run <= restarts' /\ a.at <= start /\ a.key[2] \in Nodes
    BY <1>1, <1>2, WindowTypes DEF WindowInv
  <1>4. \A k \in Handlers : pc'[k] \in Inside => k = h
    BY <1>2
  <1>5. ASSUME NEW a \in applied', a.run = restarts
        PROVE  \/ nodes'[a.key[2]].last_ts >= a.at
               \/ \E k \in Handlers : pc'[k] \in Moving /\ req'[k].kind = "sync"
                                        /\ req'[k].node = a.key[2]
    <2>1. CASE a.key[2] = n
      BY <1>2, <1>3, <2>1, WindowTypes DEF Moving
    <2>2. CASE a.key[2] # n
      <3>1. a \in applied
        BY <1>1, <2>2
      <3> QED BY <1>2, <1>3, <1>5, <2>2, <3>1 DEF WindowInv
    <2> QED BY <2>1, <2>2
  <1>6. ASSUME NEW m, NEW s, CountedFor(m, s) \/ (m = n /\ s = start) PROVE CountedFor(m, s)'
    BY <1>1, <1>2, <1>6 DEF CountedFor
  <1>7. \A m \in Nodes : nodes'[m].last_ts = 0 \/ CountedFor(m, nodes[m].last_ts)'
    BY <1>2, <1>6 DEF WindowInv
  <1>8. \A k \in Handlers : pc'[k] \in Moving => k = h
    BY <1>4, WaitsInside DEF Moving
  <1>9. CountedFor(req[h].node, work[h].start)'
    BY <1>2, <1>6
  <1> QED BY <1>2, <1>3, <1>4, <1>5, <1>7, <1>8, <1>9 DEF WindowInv

(* Every step keeps it, if no call between the count and the move raises.   *)
LEMMA WindowStep ==
  ASSUME Faults \cap Moving = {}, TypeOK, Mutex, WindowInv, [Next]_vars
  PROVE  WindowInv'
  <1>0. /\ DOMAIN pc = Handlers /\ DOMAIN work = Handlers /\ DOMAIN req = Handlers
        /\ \A k \in Handlers : work[k] \in WorkType
    BY DEF TypeOK, HandlerType
  <1> USE DEF memory, scores, history
  <1>1. ASSUME NEW h \in Handlers, Step(h) PROVE WindowInv'
    <2>0. \A k \in Handlers : k # h => pc'[k] = pc[k] /\ req'[k] = req[k] /\ work'[k] = work[k]
      BY <1>1, OthersStay
    <2>1. CASE NodeUpserted(h) \/ ReplayCached(h) \/ ViolationRecorded(h) \/ RankingRead(h)
               \/ DatabaseFails(h)
      <3>1. /\ UNCHANGED <<now, applied, restarts, nodes>>
            /\ pc'[h] = "idle" /\ pc[h] \notin Moving /\ pc'[h] \notin Moving
        BY <1>0, <2>1 DEF NodeUpserted, ReplayCached, ViolationRecorded, RankingRead,
           DatabaseFails, Acquires, Respond, SendReply, Idles, Moving
      <3> QED BY <2>0, <3>1, WindowKept, WindowTypes, WaitsInside
    <2>2. CASE BeginViolation(h) \/ BeginSync(h) \/ RegistryLoaded(h) \/ StatusSaved(h)
      <3>1. UNCHANGED <<now, applied, restarts, nodes, req>>
        BY <2>2 DEF BeginViolation, BeginSync, RegistryLoaded, StatusSaved
      <3>2. /\ \/ pc[h] \in Inside /\ work'[h].start = work[h].start
               \/ work'[h].start = now
            /\ pc[h] \in Moving => pc'[h] \in Moving
            /\ pc'[h] \in Moving => pc[h] \in Moving /\ work'[h].start = work[h].start
        <4>1. CASE BeginViolation(h)
          BY <1>0, <4>1 DEF BeginViolation, Acquires, Moving, NoWork
        <4>2. CASE BeginSync(h)
          BY <1>0, <4>2 DEF BeginSync, Acquires, Moving, WorkType
        <4>3. CASE RegistryLoaded(h) \/ StatusSaved(h)
          BY <1>0, <4>3, WaitsInside DEF RegistryLoaded, StatusSaved, Moving, WorkType
        <4> QED BY <2>2, <4>1, <4>2, <4>3
      <3> QED BY <2>0, <3>1, <3>2, WindowKept, WindowTypes
    <2>3. CASE ApplyAdd(h)
      <3>1. /\ \A k \in Handlers : pc[k] \in Inside => k = h
            /\ pc[h] \notin Moving /\ pc[h] \in Requesting
        BY <2>3, CountsAlone DEF ApplyAdd, Acquires, Moving, Requesting
      <3>2. PICK acc \in Nat, gain \in Nat, entry \in NodeType :
              Score(h, now, acc, gain, entry) /\ entry.last_ts = now
        BY <2>3, AddScores
      <3> QED BY <3>1, <3>2, RequestTypes, ScoreWindow, WindowTypes DEF WindowInv
    <2>4. CASE ApplySync(h)
      <3>1. /\ \A k \in Handlers : pc[k] \in Inside => k = h
            /\ pc[h] \notin Moving /\ pc[h] \in Requesting /\ pc[h] \in Inside /\ req[h].kind = "sync"
        BY <2>4, CountsAlone, WaitsInside DEF ApplySync, Moving, Requesting, Mutex
      <3>2. PICK acc \in Nat, entry \in NodeType :
              /\ Score(h, work[h].start, acc, acc, entry)
              /\ entry.last_ts = nodes[req[h].node].last_ts
        BY <2>4, SyncScores
      <3>3. work[h].start <= now /\ \A a \in applied : a.at <= work[h].start
        BY <3>1 DEF WindowInv
      <3> QED BY <3>1, <3>2, <3>3, RequestTypes, ScoreWindow, WindowTypes
    <2>5. CASE ScoreSaved(h) \/ MilestoneSaved(h) \/ EventSaved(h)
      <3>1. UNCHANGED <<now, applied, restarts, nodes>>
        BY <2>5 DEF ScoreSaved, MilestoneSaved, EventSaved, Respond, SendReply
      <3>2. pc[h] \in Inside /\ pc[h] \in Moving
        BY <2>5, WaitsInside DEF ScoreSaved, MilestoneSaved, EventSaved, Moving
      <3>3. /\ pc'[h] \in Inside => work'[h].start = work[h].start /\ req'[h] = req[h]
            /\ req[h].kind = "sync" => pc'[h] \in Moving /\ req'[h] = req[h]
        <4>1. CASE ScoreSaved(h)
          BY <4>1, ScoreSavedStart DEF Moving
        <4>2. CASE MilestoneSaved(h)
          BY <1>0, <4>2, LoopStart DEF MilestoneSaved, Moving
        <4>3. CASE EventSaved(h)
          BY <1>0, <4>3, WaitsInside DEF EventSaved, Respond, SendReply, Idles, WorkType, Moving
        <4> QED BY <2>5, <4>1, <4>2, <4>3
      <3>4. pc'[h] \in Moving => pc'[h] \in Inside
        BY WaitsInside DEF Moving
      <3> QED BY <2>0, <3>1, <3>2, <3>3, <3>4, WindowKept, WindowTypes
    <2>6. CASE HeartbeatSaved(h)
      <3>0. pc[h] = "beat" /\ pc[h] \in Inside /\ UNCHANGED <<now, applied, restarts>>
        BY <2>6, WaitsInside DEF HeartbeatSaved, Respond, SendReply
      <3>1. CASE req[h].kind = "add"
        <4>1. nodes' = nodes /\ pc'[h] = "idle" /\ "idle" \notin Moving
          BY <1>0, <2>6, <3>1 DEF HeartbeatSaved, Respond, SendReply, Idles, Moving
        <4> QED BY <2>0, <3>0, <3>1, <4>1, WindowKept, WindowTypes, WaitsInside
      <3>2. CASE req[h].kind # "add"
        <4> DEFINE n == req[h].node
        <4>1. n \in Nodes
          BY <3>0, RequestTypes DEF Requesting
        <4>2. /\ nodes'[n].last_ts = work[h].start /\ \A m \in Nodes : m # n => nodes'[m] = nodes[m]
              /\ work' = work /\ pc'[h] \in Inside /\ pc'[h] \notin Moving
          BY <1>0, <2>6, <3>2, <4>1, WindowTypes, WaitsInside
             DEF HeartbeatSaved, WindowStart, TypeOK, MemoryType, NodeType, Moving
        <4>3. work[h].start <= now /\ \A a \in applied : a.at <= work[h].start
          BY <3>0 DEF WindowInv
        <4>4. \A k \in Handlers : pc[k] \in Inside => k = h
          BY <3>0, InsideHolds
        <4>5. ASSUME NEW a \in applied, a.run = restarts PROVE nodes'[a.key[2]].last_ts >= a.at
          <5>1. CASE a.key[2] = n
            BY <4>2, <4>3, <5>1, WindowTypes
          <5>2. CASE a.key[2] # n
            <6>1. ~\E k \in Handlers : pc[k] \in Moving /\ req[k].kind = "sync" /\ req[k].node = a.key[2]
              BY <4>4, <5>2, WaitsInside DEF Moving
            <6> QED BY <4>2, <4>5, <5>2, <6>1, WindowTypes DEF WindowInv
          <5> QED BY <5>1, <5>2
        <4>6. \A k \in Handlers : pc'[k] \in Inside => k = h
          BY <2>0, <4>4
        <4>7. \A m, s : CountedFor(m, s)' <=> CountedFor(m, s)
          BY <3>0 DEF CountedFor
        <4>8. CountedFor(n, work[h].start)
          BY <3>0 DEF WindowInv, Moving
        <4>9. \A m \in Nodes : nodes'[m].last_ts = 0 \/ CountedFor(m, nodes[m].last_ts)'
          <5>1. \A m \in Nodes : nodes'[m].last_ts = 0 \/ CountedFor(m, nodes'[m].last_ts)
            BY <4>2, <4>8 DEF WindowInv
          <5> QED BY <3>0, <5>1 DEF CountedFor
        <4>10. \A k \in Handlers : pc'[k] \notin Moving
          BY <4>2, <4>6, WaitsInside DEF Moving
        <4> QED BY <3>0, <4>2, <4>3, <4>5, <4>6, <4>9, <4>10 DEF WindowInv
      <3> QED BY <3>1, <3>2
    <2> QED BY <1>1, <2>1, <2>2, <2>3, <2>4, <2>5, <2>6 DEF Step
  <1>2. CASE Restart
    BY <1>2, WindowTypes, WaitsInside DEF Restart, WindowInv, NewNode, Moving
  <1>3. CASE Quiet
    BY <1>3, QuietKeeps, WaitsInside, WindowKept DEF Moving
  <1> QED BY <1>1, <1>2, <1>3 DEF Next, Quiet

(* Between requests every node's window starts exactly at the last batch of *)
(* this boot that was counted for it: no time is credited twice, and none   *)
(* is lost by a batch that was replayed, refused or failed before it was    *)
(* counted.  A sync_offline that fails after it counted is excluded: it     *)
(* leaves the window where it was.                                          *)
THEOREM WindowsFollowBatches ==
  Faults \cap {"score", "milestone", "event", "activate", "beat"} = {} =>
    (Spec => []WindowStartsAtLastBatch)
  <1> SUFFICES ASSUME Faults \cap Moving = {} PROVE Spec => []WindowStartsAtLastBatch
    BY DEF Moving
  <1>1. Init => WindowInv
    BY WaitsInside DEF Init, WindowInv, NewNode, Moving
  <1>2. StampInv /\ WindowInv /\ [Next]_vars => WindowInv'
    BY WindowStep DEF StampInv
  <1>3. StampInv /\ WindowInv => WindowStartsAtLastBatch
    <2> SUFFICES ASSUME StampInv, WindowInv, Free, NEW n \in Nodes
                 PROVE  /\ nodes[n].last_ts \in CountedAt(n)
                        /\ \A t \in CountedAt(n) : t <= nodes[n].last_ts
      BY DEF WindowStartsAtLastBatch
    <2>1. \A h \in Handlers : pc[h] \notin Moving
      BY WaitsInside, GameManagerAssumption DEF StampInv, Mutex, Moving, Free
    <2>2. \A a \in applied : a.run = restarts => a.at <= nodes[a.key[2]].last_ts
      BY <2>1, WindowTypes DEF StampInv, WindowInv
    <2>3. nodes[n].last_ts \in Nat
      BY WindowTypes DEF StampInv
    <2> QED BY <2>2, <2>3 DEF WindowInv, CountedFor, CountedAt
  <1> QED BY <1>1, <1>2, <1>3, StampInvHolds, PTL DEF Spec

-----------------------------------------------------------------------------
(* Repeated requests.  Whatever was answered within the last TTL is cached, *)
(* so a request that is worked on has no answer that young.                 *)

AnswerInv ==
  /\ \A e \in cache : \E s \in sent : s.key = e.key /\ s.at = e.at /\ s.reply = e.reply
  /\ \A s \in sent : now - s.at > TTL \/ \E e \in cache : e.key = s.key /\ e.at = s.at
  /\ \A h \in Handlers : pc[h] \in Inside =>
       \A s \in sent : s.key = Key(req[h]) => work[h].start - s.at > TTL
  /\ SameAnswer

(* The times the invariant speaks of.                                       *)
LEMMA AnswerTimes ==
  ASSUME TypeOK
  PROVE  /\ now \in Nat /\ TTL \in Nat /\ TTL > 0
         /\ \A s \in sent : s.at \in Nat
         /\ \A e \in cache : e.at \in Nat
         /\ \A k \in Handlers : work[k].start \in Nat
  BY GameManagerAssumption DEF TypeOK, MemoryType, HandlerType, HistoryType, WorkType

(* Eviction removes only answers that are too old.                          *)
LEMMA EvictedIsOld ==
  ASSUME TypeOK, NEW kind, NEW e \in cache, e \notin Live(kind)
  PROVE  now - e.at > TTL
  BY DEF Live, Expired

(* A request that is not answered from the cache has no young answer.       *)
LEMMA UncachedIsOld ==
  ASSUME TypeOK, AnswerInv, NEW r, Cached(r) = {}, NEW s \in sent, s.key = Key(r)
  PROVE  now - s.at > TTL
  <1>1. CASE now - s.at > TTL
    BY <1>1
  <1>2. CASE \E e \in cache : e.key = s.key /\ e.at = s.at
    <2>1. PICK e \in cache : e.key = s.key /\ e.at = s.at
      BY <1>2
    <2>2. e \notin Live(r.kind)
      BY <2>1 DEF Cached
    <2>3. now - e.at > TTL
      BY <2>2, EvictedIsOld
    <2> QED BY <2>1, <2>3
  <1> QED BY <1>1, <1>2 DEF AnswerInv

(* A step that answers nothing keeps it.                                    *)
LEMMA AnswersKept ==
  ASSUME TypeOK, AnswerInv, sent' = sent, cache' \subseteq cache, now' \in Nat, now' >= now,
         \A e \in cache : e \in cache' \/ now - e.at > TTL,
         \A k \in Handlers : pc'[k] \in Inside =>
           \/ pc[k] \in Inside /\ work'[k].start = work[k].start /\ req'[k] = req[k]
           \/ \A s \in sent : s.key = Key(req'[k]) => work'[k].start - s.at > TTL
  PROVE  AnswerInv'
  <1>1. \A e \in cache' : \E s \in sent' : s.key = e.key /\ s.at = e.at /\ s.reply = e.reply
    BY DEF AnswerInv
  <1>2. ASSUME NEW s \in sent
        PROVE  now' - s.at > TTL \/ \E e \in cache' : e.key = s.key /\ e.at = s.at
    <2>1. CASE now - s.at > TTL
      BY <2>1, AnswerTimes
    <2>2. CASE \E e \in cache : e.key = s.key /\ e.at = s.at
      <3>1. PICK e \in cache : e.key = s.key /\ e.at = s.at
        BY <2>2
      <3>2. now - e.at > TTL => now' - s.at > TTL
        BY <3>1, AnswerTimes
      <3> QED BY <3>1, <3>2
    <2> QED BY <2>1, <2>2 DEF AnswerInv
  <1>3. \A k \in Handlers : pc'[k] \in Inside =>
          \A s \in sent' : s.key = Key(req'[k]) => work'[k].start - s.at > TTL
    BY DEF AnswerInv, Key
  <1>4. SameAnswer'
    BY DEF AnswerInv, SameAnswer
  <1> QED BY <1>1, <1>2, <1>3, <1>4 DEF AnswerInv, Key

(* The first answer in TTL is remembered with the time of its request.      *)
LEMMA AnswersSent ==
  ASSUME TypeOK, Mutex, AnswerInv, NEW h \in Handlers, pc[h] \in Inside, now' = now, NEW reply,
         cache' = cache \cup {[key |-> Key(req[h]), at |-> work[h].start, reply |-> reply]},
         SendReply(h, req[h], work[h].start, reply)
  PROVE  AnswerInv'
  <1> DEFINE e == [key |-> Key(req[h]), at |-> work[h].start, reply |-> reply]
             x == [key |-> Key(req[h]), at |-> work[h].start, clicks |-> req[h].clicks,
                   reply |-> reply]
  <1>1. /\ e.key = Key(req[h]) /\ e.at = work[h].start /\ e.reply = reply
        /\ x.key = Key(req[h]) /\ x.at = work[h].start /\ x.reply = reply
    OBVIOUS
  <1>2. cache' = cache \cup {e} /\ sent' = sent \cup {x}
    BY DEF SendReply
  <1> HIDE DEF e, x
  <1>3. \A c \in cache' : \E s \in sent' : s.key = c.key /\ s.at = c.at /\ s.reply = c.reply
    BY <1>1, <1>2 DEF AnswerInv
  <1>4. \A s \in sent' : now' - s.at > TTL \/ \E c \in cache' : c.key = s.key /\ c.at = s.at
    BY <1>1, <1>2 DEF AnswerInv
  <1>5. \A k \in Handlers : pc'[k] \notin Inside
    <2>1. \A k \in Handlers : pc[k] \in Inside => k = h
      BY InsideHolds
    <2>2. pc' = [pc EXCEPT ![h] = "idle"] /\ DOMAIN pc = Handlers
      BY DEF SendReply, Idles, TypeOK, HandlerType
    <2> QED BY <2>1, <2>2, WaitsInside
  <1>6. \A s \in sent : s.key = x.key => x.at - s.at > TTL
    BY <1>1 DEF AnswerInv
  <1>7. \A s \in sent : s.key = x.key => ~(x.at - s.at <= TTL) /\ ~(s.at >= x.at)
    <2>1. x.at \in Nat
      BY <1>1, AnswerTimes
    <2> QED BY <2>1, <1>6, AnswerTimes
  <1>8. SameAnswer'
    BY <1>2, <1>7 DEF SameAnswer, AnswerInv
  <1> QED BY <1>3, <1>4, <1>5, <1>8 DEF AnswerInv

(* A cached answer is that of an earlier one, of the same time.             *)
LEMMA AnswersReplayed ==
  ASSUME TypeOK, Mutex, AnswerInv, NEW h \in Handlers, ReplayCached(h)
  PROVE  AnswerInv'
  <1>1. PICK e \in Cached(req[h]) : SendReply(h, req[h], e.at, e.reply)
    BY DEF ReplayCached
  <1>2. e \in cache /\ e \in Live(req[h].kind) /\ e.key = Key(req[h])
    BY DEF Cached, Live
  <1> DEFINE x == [key |-> Key(req[h]), at |-> e.at, clicks |-> req[h].clicks, reply |-> e.reply]
  <1>3. x.key = e.key /\ x.at = e.at /\ x.reply = e.reply /\ sent' = sent \cup {x}
    BY <1>1, <1>2 DEF SendReply
  <1> HIDE DEF x
  <1>4. PICK o \in sent : o.key = e.key /\ o.at = e.at /\ o.reply = e.reply
    BY <1>2 DEF AnswerInv
  <1>5. cache' = Live(req[h].kind) /\ now' = now
    BY DEF ReplayCached
  <1>6. \A c \in cache' : \E s \in sent' : s.key = c.key /\ s.at = c.at /\ s.reply = c.reply
    BY <1>3, <1>5, LiveIsCached DEF AnswerInv
  <1>7. ASSUME NEW s \in sent'
        PROVE  now' - s.at > TTL \/ \E c \in cache' : c.key = s.key /\ c.at = s.at
    <2>1. CASE s = x
      BY <1>2, <1>3, <1>5, <2>1
    <2>2. CASE s \in sent
      <3>1. now - s.at > TTL \/ \E c \in cache : c.key = s.key /\ c.at = s.at
        BY <2>2 DEF AnswerInv
      <3>2. \A c \in cache : c \in cache' \/ now - c.at > TTL
        BY <1>5, EvictedIsOld
      <3> QED BY <1>5, <3>1, <3>2
    <2> QED BY <1>3, <2>1, <2>2
  <1>8. \A k \in Handlers : pc'[k] \notin Inside
    <2>1. lock = NoHandler
      BY DEF ReplayCached, Acquires
    <2>2. \A k \in Handlers : pc[k] \notin Inside
      BY <2>1, GameManagerAssumption DEF Mutex
    <2>3. pc' = [pc EXCEPT ![h] = "idle"] /\ DOMAIN pc = Handlers
      BY <1>1 DEF SendReply, Idles, TypeOK, HandlerType
    <2> QED BY <2>2, <2>3, WaitsInside
  <1>9. SameAnswer'
    <2>1. \A s \in sent' : \E p \in sent : p.key = s.key /\ p.at = s.at /\ p.reply = s.reply
      BY <1>3, <1>4
    <2>2. SUFFICES ASSUME NEW a \in sent', NEW b \in sent', a.key = b.key, b.at >= a.at,
                          b.at - a.at <= TTL
                   PROVE  a.reply = b.reply
      BY DEF SameAnswer
    <2>3. PICK p \in sent : p.key = a.key /\ p.at = a.at /\ p.reply = a.reply
      BY <2>1
    <2>4. PICK q \in sent : q.key = b.key /\ q.at = b.at /\ q.reply = b.reply
      BY <2>1
    <2> QED BY <2>2, <2>3, <2>4 DEF AnswerInv, SameAnswer
  <1> QED BY <1>6, <1>7, <1>8, <1>9 DEF AnswerInv

(* Every step keeps it, whatever raises.                                    *)
LEMMA AnswerStep == ASSUME TypeOK, Mutex, AnswerInv, [Next]_vars PROVE AnswerInv'
  <1>0. /\ DOMAIN pc = Handlers /\ DOMAIN work = Handlers /\ DOMAIN req = Handlers
        /\ \A k \in Handlers : work[k] \in WorkType
    BY DEF TypeOK, HandlerType
  <1> USE DEF memory, history
  <1>1. ASSUME NEW h \in Handlers, Step(h) PROVE AnswerInv'
    <2>0. \A k \in Handlers : k # h => pc'[k] = pc[k] /\ req'[k] = req[k] /\ work'[k] = work[k]
      BY <1>1, OthersStay
    <2>1. CASE NodeUpserted(h) \/ DatabaseFails(h)
      <3>1. UNCHANGED <<now, sent, cache>> /\ pc'[h] = "idle"
        BY <1>0, <2>1 DEF NodeUpserted, DatabaseFails, Idles
      <3> QED BY <2>0, <3>1, AnswersKept, AnswerTimes, WaitsInside
    <2>2. CASE ReplayCached(h)
      BY <2>2, AnswersReplayed
    <2>3. CASE BeginViolation(h) \/ ApplyAdd(h) \/ BeginSync(h)
      <3>1. /\ Cached(req[h]) = {} /\ UNCHANGED <<now, sent, req>>
            /\ \E kind : cache' = Live(kind)
        BY <2>3 DEF BeginViolation, ApplyAdd, BeginSync, Score
      <3>2. work'[h].start = now
        <4>1. CASE BeginViolation(h)
          BY <1>0, <4>1 DEF BeginViolation, NoWork
        <4>2. CASE ApplyAdd(h)
          BY <1>0, <4>2 DEF ApplyAdd, Score, NoWork
        <4>3. CASE BeginSync(h)
          BY <1>0, <4>3 DEF BeginSync, WorkType
        <4> QED BY <2>3, <4>1, <4>2, <4>3
      <3>3. \A s \in sent : s.key = Key(req'[h]) => work'[h].start - s.at > TTL
        BY <3>1, <3>2, UncachedIsOld
      <3>4. cache' \subseteq cache /\ \A e \in cache : e \in cache' \/ now - e.at > TTL
        BY <3>1, LiveIsCached, EvictedIsOld
      <3> QED BY <2>0, <3>1, <3>3, <3>4, AnswersKept, AnswerTimes
    <2>4. CASE RegistryLoaded(h) \/ StatusSaved(h) \/ ApplySync(h) \/ ScoreSaved(h)
               \/ MilestoneSaved(h)
      <3>1. UNCHANGED <<now, sent, cache, req>>
        BY <2>4 DEF RegistryLoaded, StatusSaved, ApplySync, Score, ScoreSaved, MilestoneSaved
      <3>2. pc[h] \in Inside /\ work'[h].start = work[h].start
        <4>1. CASE RegistryLoaded(h) \/ StatusSaved(h) \/ ApplySync(h)
          BY <1>0, <4>1, WaitsInside DEF RegistryLoaded, StatusSaved, ApplySync, Score, NoWork, WorkType
        <4>2. CASE ScoreSaved(h)
          BY <4>2, ScoreSavedStart, WaitsInside DEF ScoreSaved
        <4>3. CASE MilestoneSaved(h)
          BY <1>0, <4>3, LoopStart, WaitsInside DEF MilestoneSaved
        <4> QED BY <2>4, <4>1, <4>2, <4>3
      <3> QED BY <2>0, <3>1, <3>2, AnswersKept, AnswerTimes
    <2>5. CASE ViolationRecorded(h) \/ EventSaved(h) \/ HeartbeatSaved(h) \/ RankingRead(h)
      <3>1. pc[h] \in Inside /\ now' = now
        BY <2>5, WaitsInside DEF ViolationRecorded, EventSaved, HeartbeatSaved, RankingRead
      <3>2. CASE sent' # sent \/ cache' # cache
        <4>1. \E reply :
                /\ cache' = cache \cup {[key |-> Key(req[h]), at |-> work[h].start, reply |-> reply]}
                /\ SendReply(h, req[h], work[h].start, reply)
          <5>1. CASE ViolationRecorded(h)
            BY <5>1 DEF ViolationRecorded
          <5>2. CASE EventSaved(h) \/ HeartbeatSaved(h) \/ RankingRead(h)
            <6>1. Respond(h)
              BY <3>2, <5>2 DEF EventSaved, HeartbeatSaved, RankingRead
            <6> QED BY <6>1 DEF Respond
          <5> QED BY <2>5, <5>1, <5>2
        <4> QED BY <3>1, <4>1, AnswersSent
      <3>3. CASE sent' = sent /\ cache' = cache
        <4>1. /\ pc'[h] \in Inside => work'[h].start = work[h].start /\ req'[h] = req[h]
          BY <1>0, <2>5, WaitsInside DEF ViolationRecorded, EventSaved, HeartbeatSaved, RankingRead,
             Respond, SendReply, Idles, WorkType
        <4> QED BY <2>0, <3>1, <3>3, <4>1, AnswersKept, AnswerTimes
      <3> QED BY <3>2, <3>3
    <2> QED BY <1>1, <2>1, <2>2, <2>3, <2>4, <2>5 DEF Step
  <1>2. CASE Restart
    BY <1>2, WaitsInside DEF Restart, AnswerInv, SameAnswer
  <1>3. CASE Quiet
    BY <1>3, QuietKeeps, AnswersKept
  <1> QED BY <1>1, <1>2, <1>3 DEF Next, Quiet

(* The inductive invariant holds in every reachable state.                  *)
LEMMA AnswerInvHolds == Spec => []AnswerInv
  <1>1. Init => AnswerInv
    BY WaitsInside DEF Init, AnswerInv, SameAnswer
  <1>2. StampInv /\ AnswerInv /\ [Next]_vars => AnswerInv'
    BY AnswerStep DEF StampInv
  <1> QED BY <1>1, <1>2, StampInvHolds, PTL DEF Spec

(* A request repeated within TTL of the answer gets that answer again,      *)
(* whatever calls failed in between and however the handlers interleave.    *)
THEOREM RepeatsAreAnsweredAlike == Spec => []SameAnswer
  <1>1. AnswerInv => SameAnswer
    BY DEF AnswerInv
  <1> QED BY <1>1, AnswerInvHolds, PTL

-----------------------------------------------------------------------------
(* sync_offline counts a batch once within TTL.  From the count until the   *)
(* answer is cached its handler is inside; until the count nothing of the   *)
(* same request was counted so recently.                                    *)

BeforeCount == {"load", "syncing", "read"}

AfterCount == {"score", "milestone", "event", "activate", "beat", "ranking"}

SyncInv ==
  /\ \A a \in applied : a.run <= restarts
  /\ \A a \in applied : a.run = restarts /\ a.key[1] = "sync" =>
       \/ now - a.at > TTL
       \/ \E e \in cache : e.key = a.key /\ e.at = a.at
       \/ \E h \in Handlers : pc[h] \in AfterCount /\ Key(req[h]) = a.key /\ work[h].start = a.at
  /\ \A h \in Handlers : pc[h] \in BeforeCount =>
       \A a \in applied : a.run = restarts /\ a.key = Key(req[h]) => work[h].start - a.at > TTL

(* A step that counts nothing keeps it if it forgets no young answer.       *)
LEMMA SyncsKept ==
  ASSUME TypeOK, SyncInv, UNCHANGED <<applied, restarts>>, now' \in Nat, now' >= now,
         \A e \in cache : e \in cache' \/ now - e.at > TTL,
         \A k \in Handlers : pc[k] \in AfterCount =>
           \/ pc'[k] \in AfterCount /\ work'[k].start = work[k].start /\ req'[k] = req[k]
           \/ \E e \in cache' : e.key = Key(req[k]) /\ e.at = work[k].start,
         \A k \in Handlers : pc'[k] \in BeforeCount =>
           \/ pc[k] \in BeforeCount /\ work'[k].start = work[k].start /\ req'[k] = req[k]
           \/ \A a \in applied : a.run = restarts /\ a.key = Key(req'[k])
                                   => work'[k].start - a.at > TTL
  PROVE  SyncInv'
  <1>0. \A a \in applied : a.at \in Nat
    BY WindowTypes
  <1>1. ASSUME NEW a \in applied, a.run = restarts, a.key[1] = "sync"
        PROVE  \/ now' - a.at > TTL
               \/ \E e \in cache' : e.key = a.key /\ e.at = a.at
               \/ \E h \in Handlers : pc'[h] \in AfterCount /\ Key(req'[h]) = a.key
                                        /\ work'[h].start = a.at
    <2>0. now - a.at > TTL => now' - a.at > TTL
      BY <1>0, AnswerTimes
    <2>1. CASE now - a.at > TTL
      BY <2>0, <2>1
    <2>2. CASE \E e \in cache : e.key = a.key /\ e.at = a.at
      BY <2>0, <2>2
    <2>3. CASE \E h \in Handlers : pc[h] \in AfterCount /\ Key(req[h]) = a.key /\ work[h].start = a.at
      <3>1. PICK h \in Handlers : pc[h] \in AfterCount /\ Key(req[h]) = a.key /\ work[h].start = a.at
        BY <2>3
      <3>2. CASE pc'[h] \in AfterCount /\ work'[h].start = work[h].start /\ req'[h] = req[h]
        <4>1. Key(req'[h]) = Key(req[h])
          BY <3>2
        <4> QED BY <3>1, <3>2, <4>1
      <3>3. CASE \E e \in cache' : e.key = Key(req[h]) /\ e.at = work[h].start
        BY <3>1, <3>3
      <3> QED BY <3>1, <3>2, <3>3
    <2> QED BY <1>1, <2>1, <2>2, <2>3 DEF SyncInv
  <1>2. \A k \in Handlers : pc'[k] \in BeforeCount =>
          \A a \in applied' : a.run = restarts /\ a.key = Key(req'[k]) => work'[k].start - a.at > TTL
    BY DEF SyncInv, Key
  <1> QED BY <1>1, <1>2 DEF SyncInv, Key

(* A batch just counted is in the hands of its handler.                     *)
LEMMA ScoreSync ==
  ASSUME TypeOK, SyncInv, NEW h \in Handlers, \A k \in Handlers : pc[k] \in Inside => k = h,
         pc[h] \notin AfterCount, NEW start, NEW acc, NEW gain, NEW entry,
         Score(h, start, acc, gain, entry),
         \A e \in cache : e \in cache' \/ now - e.at > TTL
  PROVE  SyncInv'
  <1> DEFINE x == [key |-> Key(req[h]), at |-> start, run |-> restarts, accepted |-> acc]
  <1>1. applied' = applied \cup {x} /\ x.at = start /\ x.run = restarts /\ x.key = Key(req[h])
    BY DEF Score
  <1> HIDE DEF x
  <1>2. /\ pc'[h] = "score" /\ work'[h].start = start
        /\ \A k \in Handlers : k # h => pc'[k] = pc[k]
        /\ UNCHANGED <<now, req, restarts>>
    BY DEF Score, NoWork, TypeOK, HandlerType
  <1>3. \A k \in Handlers : pc'[k] \notin BeforeCount
    BY <1>2, WaitsInside DEF BeforeCount
  <1>4. \A k \in Handlers : pc[k] \notin AfterCount
    BY WaitsInside DEF AfterCount
  <1>5. ASSUME NEW a \in applied', a.run = restarts, a.key[1] = "sync"
        PROVE  \/ now - a.at > TTL
               \/ \E e \in cache' : e.key = a.key /\ e.at = a.at
               \/ \E k \in Handlers : pc'[k] \in AfterCount /\ Key(req[k]) = a.key
                                        /\ work'[k].start = a.at
    <2>1. CASE a = x
      BY <1>1, <1>2, <2>1 DEF AfterCount
    <2>2. CASE a \in applied
      BY <1>4, <1>5, <2>2 DEF SyncInv
    <2> QED BY <1>1, <2>1, <2>2
  <1>6. \A a \in applied' : a.run <= restarts
    BY <1>1, WindowTypes DEF SyncInv
  <1> QED BY <1>2, <1>3, <1>5, <1>6 DEF SyncInv, Key

(* Every step keeps it, if no call between the count and the answer raises. *)
LEMMA SyncStep ==
  ASSUME Faults \cap AfterCount = {}, TypeOK, Mutex, SyncInv, [Next]_vars
  PROVE  SyncInv'
  <1>0. /\ DOMAIN pc = Handlers /\ DOMAIN work = Handlers /\ DOMAIN req = Handlers
        /\ \A k \in Handlers : work[k] \in WorkType
    BY DEF TypeOK, HandlerType
  <1>00. now \in Nat /\ now >= now
    BY AnswerTimes
  <1> USE DEF memory, history
  <1>1. ASSUME NEW h \in Handlers, Step(h) PROVE SyncInv'
    <2>0. \A k \in Handlers : k # h => pc'[k] = pc[k] /\ req'[k] = req[k] /\ work'[k] = work[k]
      BY <1>1, OthersStay
    <2>1. CASE NodeUpserted(h) \/ DatabaseFails(h) \/ ViolationRecorded(h)
      <3>1. UNCHANGED <<now, applied, restarts>> /\ cache \subseteq cache'
        BY <2>1 DEF NodeUpserted, DatabaseFails, ViolationRecorded, SendReply
      <3>2. pc'[h] = "idle" /\ pc[h] \notin AfterCount
        BY <1>0, <2>1 DEF NodeUpserted, DatabaseFails, ViolationRecorded, SendReply, Idles, AfterCount
      <3> QED BY <1>00, <2>0, <3>1, <3>2, SyncsKept DEF BeforeCount
    <2>2. CASE ReplayCached(h) \/ BeginViolation(h)
      <3>1. /\ UNCHANGED <<now, applied, restarts>>
            /\ \E kind : cache' = Live(kind)
        BY <2>2 DEF ReplayCached, BeginViolation, SendReply
      <3>2. pc'[h] \notin BeforeCount /\ pc[h] = "waiting"
        BY <1>0, <2>2 DEF ReplayCached, BeginViolation, SendReply, Idles, Acquires, BeforeCount
      <3>3. \A e \in cache : e \in cache' \/ now - e.at > TTL
        BY <3>1, EvictedIsOld
      <3> QED BY <1>00, <2>0, <3>1, <3>2, <3>3, SyncsKept DEF AfterCount
    <2>3. CASE BeginSync(h)
      <3>1. /\ UNCHANGED <<now, applied, restarts, req>> /\ cache' = Live("sync")
            /\ Cached(req[h]) = {} /\ pc[h] = "waiting" /\ req[h].kind = "sync" /\ lock = NoHandler
        BY <2>3 DEF BeginSync, Acquires
      <3>2. work'[h].start = now
        BY <1>0, <2>3 DEF BeginSync, WorkType
      <3>3. ASSUME NEW a \in applied, a.run = restarts, a.key = Key(req[h])
            PROVE  now - a.at > TTL
        <4>1. a.key[1] = "sync"
          BY <3>1, <3>3 DEF Key
        <4>2. \A k \in Handlers : pc[k] \notin AfterCount
          BY <3>1, WaitsInside, GameManagerAssumption DEF Mutex, AfterCount
        <4>3. CASE \E e \in cache : e.key = a.key /\ e.at = a.at
          <5>1. PICK e \in cache : e.key = a.key /\ e.at = a.at
            BY <4>3
          <5>2. e \notin Live("sync")
            BY <3>1, <3>3, <5>1 DEF Cached
          <5> QED BY <5>1, <5>2, EvictedIsOld
        <4> QED BY <3>3, <4>1, <4>2, <4>3 DEF SyncInv
      <3>4. \A a \in applied : a.run = restarts /\ a.key = Key(req'[h]) => work'[h].start - a.at > TTL
        BY <3>1, <3>2, <3>3
      <3>5. \A e \in cache : e \in cache' \/ now - e.at > TTL
        BY <3>1, EvictedIsOld
      <3> QED BY <1>00, <2>0, <3>1, <3>4, <3>5, SyncsKept DEF AfterCount
    <2>4. CASE ApplyAdd(h) \/ ApplySync(h)
      <3>1. /\ \A k \in Handlers : pc[k] \in Inside => k = h
            /\ pc[h] \notin AfterCount
        BY <2>4, CountsAlone DEF ApplyAdd, ApplySync, Acquires, AfterCount
      <3>2. \A e \in cache : e \in cache' \/ now - e.at > TTL
        BY <2>4, EvictedIsOld DEF ApplyAdd, ApplySync
      <3>3. \E start, acc, gain, entry : Score(h, start, acc, gain, entry)
        BY <2>4 DEF ApplyAdd, ApplySync
      <3> QED BY <3>1, <3>2, <3>3, ScoreSync
    <2>5. CASE RegistryLoaded(h) \/ StatusSaved(h) \/ ScoreSaved(h) \/ MilestoneSaved(h)
      <3>1. UNCHANGED <<now, applied, restarts, cache, req>>
        BY <2>5 DEF RegistryLoaded, StatusSaved, ScoreSaved, MilestoneSaved
      <3>2. /\ work'[h].start = work[h].start
            /\ pc[h] \in AfterCount => pc'[h] \in AfterCount
            /\ pc'[h] \in BeforeCount => pc[h] \in BeforeCount
        <4>1. CASE RegistryLoaded(h) \/ StatusSaved(h)
          BY <1>0, <4>1 DEF RegistryLoaded, StatusSaved, WorkType, AfterCount, BeforeCount
        <4>2. CASE ScoreSaved(h)
          BY <4>2, ScoreSavedStart DEF AfterCount, BeforeCount
        <4>3. CASE MilestoneSaved(h)
          BY <1>0, <4>3, LoopStart DEF MilestoneSaved, AfterCount, BeforeCount
        <4> QED BY <2>5, <4>1, <4>2, <4>3
      <3> QED BY <1>00, <2>0, <3>1, <3>2, SyncsKept
    <2>6. CASE EventSaved(h) \/ HeartbeatSaved(h) \/ RankingRead(h)
      <3>1. UNCHANGED <<now, applied, restarts>>
        BY <2>6 DEF EventSaved, HeartbeatSaved, RankingRead, Respond, SendReply
      <3>2. CASE Respond(h)
        <4>1. /\ cache \subseteq cache' /\ pc'[h] = "idle"
              /\ \E e \in cache' : e.key = Key(req[h]) /\ e.at = work[h].start
          <5>1. PICK reply :
                  cache' = cache \cup {[key |-> Key(req[h]), at |-> work[h].start, reply |-> reply]}
            BY <3>2 DEF Respond
          <5>2. pc'[h] = "idle"
            BY <1>0, <3>2 DEF Respond, SendReply, Idles
          <5> DEFINE e == [key |-> Key(req[h]), at |-> work[h].start, reply |-> reply]
          <5>3. e.key = Key(req[h]) /\ e.at = work[h].start /\ cache' = cache \cup {e}
            BY <5>1
          <5> HIDE DEF e
          <5> QED BY <5>2, <5>3
        <4> QED BY <1>00, <2>0, <3>1, <4>1, SyncsKept DEF BeforeCount
      <3>3. CASE ~Respond(h)
        <4>1. /\ cache' = cache /\ req' = req /\ work'[h].start = work[h].start
              /\ pc'[h] \in AfterCount
          BY <1>0, <2>6, <3>3 DEF EventSaved, HeartbeatSaved, RankingRead, WorkType, AfterCount
        <4> QED BY <1>00, <2>0, <3>1, <4>1, SyncsKept DEF BeforeCount, AfterCount
      <3> QED BY <3>2, <3>3
    <2> QED BY <1>1, <2>1, <2>2, <2>3, <2>4, <2>5, <2>6 DEF Step
  <1>2. CASE Restart
    BY <1>2, WindowTypes DEF Restart, SyncInv, BeforeCount
  <1>3. CASE Quiet
    <2>1. /\ UNCHANGED <<cache, applied, restarts>> /\ now' \in Nat /\ now' >= now
          /\ \A k \in Handlers :
               /\ pc'[k] \in Inside <=> pc[k] \in Inside
               /\ pc[k] \in Inside => pc'[k] = pc[k] /\ req'[k] = req[k] /\ work'[k] = work[k]
      BY <1>3, QuietKeeps
    <2>2. BeforeCount \subseteq Inside /\ AfterCount \subseteq Inside
      BY WaitsInside DEF BeforeCount, AfterCount
    <2> QED BY <2>1, <2>2, SyncsKept
  <1> QED BY <1>1, <1>2, <1>3 DEF Next, Quiet

(* A sync_offline batch enters the score once within TTL, although the call *)
(* checks no Lamport timestamp: the cache alone protects it.  A call that   *)
(* raises after the count, before the answer is cached, takes that away.    *)
THEOREM SyncsCountOnce ==
  Faults \cap {"score", "milestone", "event", "activate", "beat", "ranking"} = {} =>
    (Spec => SyncAppliedOnce)
  <1> SUFFICES ASSUME Faults \cap AfterCount = {} PROVE Spec => SyncAppliedOnce
    BY DEF AfterCount
  <1> DEFINE Once ==
        \A h \in Handlers : Applies(h) /\ req[h].kind = "sync" =>
          \A a \in applied : a.run = restarts /\ a.key = Key(req[h]) => work[h].start - a.at > TTL
  <1>1. Init => SyncInv
    BY DEF Init, SyncInv, BeforeCount
  <1>2. StampInv /\ SyncInv /\ [Next]_vars => [Once]_vars
    <2> SUFFICES ASSUME StampInv, SyncInv, [Next]_vars, NEW h \in Handlers, Applies(h),
                        req[h].kind = "sync", NEW a \in applied, a.run = restarts,
                        a.key = Key(req[h])
                 PROVE  work[h].start - a.at > TTL
      OBVIOUS
    <2>1. pc[h] = "read"
      BY SyncsApplyInApplySync DEF StampInv, ApplySync
    <2> QED BY <2>1 DEF SyncInv, BeforeCount
  <1>3. StampInv /\ SyncInv /\ [Next]_vars => SyncInv'
    BY SyncStep DEF StampInv
  <1>4. Spec => []SyncInv
    BY <1>1, <1>3, StampInvHolds, PTL DEF Spec
  <1> QED BY <1>2, <1>4, StampInvHolds, PTL DEF Spec, SyncAppliedOnce

-----------------------------------------------------------------------------
(* The global score.  sync_offline adds to the score of the row and to the  *)
(* global score: they stay a sum because before the first restart the row   *)
(* and the memory agree, but for a node whose save is pending.              *)

Scores == [n \in Nodes |-> nodes[n].score]

SumInv ==
  restarts = 0 =>
    /\ globalScore = SumFunction(Scores)
    /\ \A n \in Nodes : RowOf(n) \/ \E h \in Handlers : pc[h] = "score" /\ req[h].node = n

(* A step that touches neither scores nor rows keeps it.                    *)
LEMMA SumKept ==
  ASSUME SumInv, UNCHANGED <<globalScore, dbScore, restarts>>,
         \A n \in Nodes : nodes'[n].score = nodes[n].score,
         \A k \in Handlers : pc[k] = "score" => pc'[k] = pc[k] /\ req'[k] = req[k]
  PROVE  SumInv'
  <1>1. Scores' = Scores
    BY DEF Scores
  <1> QED BY <1>1 DEF SumInv, RowOf

(* A batch adds to one score what it adds to the global one.                *)
LEMMA ScoreSum ==
  ASSUME TypeOK, SumInv, NEW h \in Handlers, req[h].node \in Nodes,
         \A k \in Handlers : pc[k] # "score",
         NEW start, NEW acc, NEW gain \in Nat, NEW entry \in NodeType,
         Score(h, start, acc, gain, entry),
         restarts = 0 => entry.score = nodes[req[h].node].score + gain
  PROVE  SumInv'
  <1> DEFINE n == req[h].node
  <1>0. Scores \in [Nodes -> Int] /\ entry.score \in Int /\ globalScore \in Nat /\ IsFiniteSet(Nodes)
    BY GameManagerAssumption DEF Scores, TypeOK, MemoryType, NodeType
  <1>1. /\ pc'[h] = "score" /\ globalScore' = globalScore + gain
        /\ UNCHANGED <<dbScore, restarts, req>>
        /\ nodes' = [nodes EXCEPT ![n] = entry]
    BY DEF Score, TypeOK, HandlerType, disk
  <1>2. Scores' = [Scores EXCEPT ![n] = entry.score]
    BY <1>1 DEF Scores, TypeOK, MemoryType
  <1>3. SumFunction(Scores') = SumFunction(Scores) - Scores[n] + entry.score
    BY <1>0, <1>2, SumChanged
  <1>4. ASSUME restarts = 0 PROVE globalScore' = SumFunction(Scores')
    <2>1. globalScore = SumFunction(Scores)
      BY <1>4 DEF SumInv
    <2>2. Scores[n] \in Int /\ entry.score = Scores[n] + gain
      BY <1>0, <1>4 DEF Scores
    <2> HIDE DEF n
    <2> QED BY <1>0, <1>1, <1>3, <2>1, <2>2
  <1>5. ASSUME NEW m \in Nodes, restarts = 0
        PROVE  dbScore'[m] = nodes'[m].score \/ \E k \in Handlers : pc'[k] = "score" /\ req'[k].node = m
    <2>1. CASE m = n
      BY <1>1, <2>1
    <2>2. CASE m # n
      <3>1. dbScore[m] = nodes[m].score
        BY <1>5 DEF SumInv, RowOf
      <3> QED BY <1>1, <2>2, <3>1 DEF TypeOK, MemoryType
    <2> QED BY <2>1, <2>2
  <1> QED BY <1>1, <1>4, <1>5 DEF SumInv, RowOf

(* Every step keeps it, if no save of a score raises.                       *)
LEMMA SumStep ==
  ASSUME "score" \notin Faults, TypeOK, Mutex, SumInv, [Next]_vars
  PROVE  SumInv'
  <1>0. /\ DOMAIN pc = Handlers /\ DOMAIN work = Handlers /\ DOMAIN req = Handlers
    BY DEF TypeOK, HandlerType
  <1> USE DEF memory, scores, disk, history
  <1>1. ASSUME NEW h \in Handlers, Step(h) PROVE SumInv'
    <2>0. \A k \in Handlers : k # h => pc'[k] = pc[k] /\ req'[k] = req[k]
      BY <1>1, OthersStay
    <2>1. CASE NodeUpserted(h) \/ ReplayCached(h) \/ ViolationRecorded(h) \/ RankingRead(h)
               \/ DatabaseFails(h)
      <3>1. UNCHANGED <<globalScore, dbScore, nodes, restarts>> /\ pc[h] # "score"
        BY <2>1 DEF NodeUpserted, ReplayCached, ViolationRecorded, RankingRead,
           DatabaseFails, Acquires, Respond, SendReply
      <3> QED BY <2>0, <3>1, SumKept
    <2>2. CASE BeginViolation(h) \/ BeginSync(h) \/ RegistryLoaded(h) \/ StatusSaved(h)
               \/ EventSaved(h) \/ MilestoneSaved(h)
      <3>1. UNCHANGED <<globalScore, dbScore, nodes, restarts>> /\ pc[h] # "score"
        BY <2>2 DEF BeginViolation, BeginSync, RegistryLoaded, StatusSaved, EventSaved,
           MilestoneSaved, Respond, SendReply, Acquires
      <3> QED BY <2>0, <3>1, SumKept
    <2>3. CASE ApplyAdd(h)
      <3>1. \A k \in Handlers : pc[k] # "score"
        BY <2>3, CountsAlone, WaitsInside
      <3>2. req[h].node \in Nodes
        BY <2>3, RequestTypes DEF ApplyAdd, Acquires, Requesting
      <3> QED BY <2>3, <3>1, <3>2, AddScores, ScoreSum
    <2>4. CASE ApplySync(h)
      <3>1. (\A k \in Handlers : pc[k] # "score") /\ req[h].node \in Nodes
        BY <2>4, CountsAlone, WaitsInside, RequestTypes DEF ApplySync, Requesting
      <3>2. restarts = 0 => dbScore[req[h].node] = nodes[req[h].node].score
        BY <3>1 DEF SumInv, RowOf
      <3>3. PICK acc \in Nat, entry \in NodeType :
              Score(h, work[h].start, acc, acc, entry) /\ entry.score = dbScore[req[h].node] + acc
        BY <2>4, SyncScores
      <3> QED BY <3>1, <3>2, <3>3, ScoreSum
    <2>5. CASE ScoreSaved(h)
      <3>1. /\ dbScore' = [dbScore EXCEPT ![req[h].node] = nodes[req[h].node].score]
            /\ UNCHANGED <<nodes, globalScore, restarts, req>> /\ DOMAIN dbScore = Nodes
        BY <2>5 DEF ScoreSaved, SavedScore, TypeOK, DiskType
      <3>2. \A k \in Handlers : pc[k] = "score" => k = h
        BY <2>5, InsideHolds, WaitsInside DEF ScoreSaved
      <3>3. Scores' = Scores
        BY <3>1 DEF Scores
      <3>4. ASSUME NEW n \in Nodes, restarts = 0 PROVE dbScore'[n] = nodes'[n].score
        BY <3>1, <3>2, <3>4 DEF SumInv, RowOf
      <3> QED BY <3>1, <3>3, <3>4 DEF SumInv, RowOf
    <2>6. CASE HeartbeatSaved(h)
      <3>1. /\ UNCHANGED <<globalScore, dbScore, restarts>> /\ pc[h] # "score"
            /\ \A n \in Nodes : nodes'[n].score = nodes[n].score
        BY <2>6 DEF HeartbeatSaved, Respond, SendReply, TypeOK, MemoryType, NodeType
      <3> QED BY <2>0, <3>1, SumKept
    <2> QED BY <1>1, <2>1, <2>2, <2>3, <2>4, <2>5, <2>6 DEF Step
  <1>2. CASE Restart
    <2>1. restarts' # 0
      BY <1>2, WindowTypes DEF Restart
    <2> QED BY <2>1 DEF SumInv
  <1>3. CASE Quiet
    BY <1>3, QuietKeeps, WaitsInside, SumKept
  <1> QED BY <1>1, <1>2, <1>3 DEF Next, Quiet

(* Until the server first restarts the global score is the sum of the node  *)
(* scores in every state, for any finite number of nodes.  It needs every   *)
(* score saved: sync_offline goes on from the row, so a row left behind     *)
(* takes the unsaved clicks off the node's score and not off the global.    *)
THEOREM GlobalScoreIsSum ==
  "score" \notin Faults => (Spec => [](restarts = 0 => GlobalIsSum))
  <1> SUFFICES ASSUME "score" \notin Faults PROVE Spec => [](restarts = 0 => GlobalIsSum)
    OBVIOUS
  <1>1. Init => SumInv
    <2> SUFFICES ASSUME Init PROVE SumInv
      OBVIOUS
    <2>1. Scores \in [Nodes -> Int] /\ (\A n \in Nodes : Scores[n] = 0) /\ IsFiniteSet(Nodes)
      BY GameManagerAssumption DEF Init, Scores, NewNode
    <2>2. SumFunction(Scores) = 0
      BY <2>1, SumOfZeros
    <2> QED BY <2>2 DEF Init, SumInv, RowOf, NewNode
  <1>2. StampInv /\ SumInv /\ [Next]_vars => SumInv'
    BY SumStep DEF StampInv
  <1>3. SumInv => (restarts = 0 => GlobalIsSum)
    BY DEF SumInv, GlobalIsSum, Scores
  <1> QED BY <1>1, <1>2, <1>3, StampInvHolds, PTL DEF Spec

=============================================================================
