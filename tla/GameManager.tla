---------------------------- MODULE GameManager ----------------------------
(***************************************************************************)
(* The domain core of the server: GameManager, its LamportClock, the rows   *)
(* it owns in the database and the two idempotency caches                   *)
(* (server/domain/game_manager.py, lamport_clock.py, game_repository.py,    *)
(* infra/db.py).                                                            *)
(*                                                                          *)
(* The server is one asyncio loop, so code between two suspension points is *)
(* one step.  Every database call suspends: a handler that waits for one    *)
(* has a "pc" named after the call, and the step that ends the wait commits *)
(* the call and runs on to the next one.  add_clicks and sync_offline hold  *)
(* the asyncio lock from Begin to Reply; register_node and                  *)
(* activate_powerup take no lock.  A handler is one connection's running    *)
(* request: a firmware that times out reconnects and sends the same request *)
(* again while the first handler still runs.                                *)
(***************************************************************************)
EXTENDS Integers, FiniteSets, Functions

CONSTANTS
  Nodes,          \* node identifiers
  Handlers,       \* connection handlers that may run at once
  NoHandler,      \* the lock is free
  Rate, Second,   \* RATE_LIMIT clicks per Second clock ticks
  LongIdle,       \* 3600 s: beyond it add_clicks accepts the whole batch
  Boost,          \* seconds (ticks) a power-up lasts
  TTL,            \* _IDEMPOTENCY_TTL_S
  Milestones,     \* MILESTONES
  Faults,         \* database calls that may raise in this instance
  Batches,        \* sizes of the click batches nodes send
  MaxTs,          \* bound: highest Lamport timestamp a request carries
  MaxTime,        \* bound: ticks the clock may advance
  MaxArrivals,    \* bound: requests received
  MaxRestarts     \* bound: crashes of the server process

(* The database calls a handler can wait for.                               *)
Waits == {"upsert", "violation", "load", "syncing", "read", "score", "milestone",
          "event", "activate", "beat", "ranking"}

ASSUME GameManagerAssumption ==
  /\ Nodes # {} /\ IsFiniteSet(Nodes)
  /\ NoHandler \notin Handlers
  /\ Rate \in Nat \ {0} /\ Second \in Nat \ {0}
  /\ LongIdle \in Nat \ {0} /\ Boost \in Nat \ {0} /\ TTL \in Nat \ {0}
  /\ Milestones \subseteq Nat \ {0}
  /\ Batches \subseteq Nat \ {0}
  /\ Faults \subseteq Waits
  /\ MaxTs \in Nat /\ MaxTime \in Nat /\ MaxArrivals \in Nat /\ MaxRestarts \in Nat

Request == [kind : {"add", "sync"}, node : Nodes, clicks : Batches, ts : 1..MaxTs]

Reply == [status : {"SUCCESS", "RATE_EXCEEDED", "LAMPORT_VIOLATION"},
          accepted : Nat, score : Nat, ts : Nat, milestone : BOOLEAN]

VARIABLES
  now,            \* time.time(), in ticks
  globalScore,    \* global_score
  nodes,          \* nodes: a node without an entry has the default entry
  milestonesDone, \* milestones_done
  cache,          \* _processed_clicks and _processed_syncs
  lastLamport,    \* LamportClock.nodes[n]["last_lamport"], 0 when absent
  localLamport,   \* LamportClock.local_lamport
  registered,     \* nodes with an entry in NodeRegistry.nodes
  dbRows, dbScore, dbSeen,  \* table nodes: rows, local_score, last_seen
  dbMilestones,   \* table milestones: rows per value
  lock,           \* the handler inside the lock
  pc, req, work,  \* per handler: where it waits, its request, its locals
  issued,         \* history: requests some node has sent
  applied,        \* history: batches whose clicks entered a score
  sent,           \* history: replies of this incarnation
  bootScore, restarts, arrivals   \* history: counters of the instance

scores  == <<globalScore, nodes>>
clocks  == <<lastLamport, localLamport>>
memory  == <<scores, milestonesDone, cache, clocks, registered>>
disk    == <<dbRows, dbScore, dbSeen, dbMilestones>>
history == <<issued, applied, sent, bootScore, restarts, arrivals>>
vars    == <<now, memory, disk, lock, pc, req, work, history>>

-----------------------------------------------------------------------------
(* Defaults of the in-memory state.                                         *)

NewNode == [last_ts |-> 0, score |-> 0, powerup_expire |-> 0, multiplier |-> 1]

NoRequest == [kind |-> "none"]

NoWork == [start |-> 0, before |-> 0, accepted |-> 0, stamp |-> 0,
           reached |-> {}, beat |-> 0]

Epoch == LongIdle + 1   \* the wall clock is far from 0 when the server boots

Init ==
  /\ now = Epoch
  /\ globalScore = 0
  /\ nodes = [n \in Nodes |-> NewNode]
  /\ milestonesDone = {}
  /\ cache = {}
  /\ lastLamport = [n \in Nodes |-> 0]
  /\ localLamport = 0
  /\ registered = {}
  /\ dbRows = {}
  /\ dbScore = [n \in Nodes |-> 0]
  /\ dbSeen = [n \in Nodes |-> 0]
  /\ dbMilestones = [m \in Milestones |-> 0]
  /\ lock = NoHandler
  /\ pc = [h \in Handlers |-> "idle"]
  /\ req = [h \in Handlers |-> NoRequest]
  /\ work = [h \in Handlers |-> NoWork]
  /\ issued = {} /\ applied = {} /\ sent = {}
  /\ bootScore = 0 /\ restarts = 0 /\ arrivals = 0

-----------------------------------------------------------------------------
(* Helpers.  X_Variant is X with a slip the code could have made; no action  *)
(* uses it, and some property below tells it from X.                        *)

Key(r) == <<r.kind, r.node, r.ts>>

Least(a, b) == IF a < b THEN a ELSE b

(* Rate limit of one add_clicks batch: one click when no time has passed    *)
(* (RATE_LIMIT * 0.02), the truncated allowance otherwise, everything after *)
(* a long idle time.                                                        *)
Accepted(clicks, delta) ==
  IF delta > LongIdle THEN clicks
  ELSE IF delta <= 0 THEN Least(clicks, 1)
  ELSE Least(clicks, (Rate * delta) \div Second)

(* Rate limit of sync_offline: a node never seen has been away 0 seconds.   *)
OfflineTime_Signed(seen, start) == IF seen = 0 THEN 0 ELSE start - seen

OfflineTime(seen, start) == IF seen = 0 \/ start < seen THEN 0 ELSE start - seen

AcceptedOffline(clicks, seen, start) ==
  Least(clicks, (Rate * OfflineTime(seen, start)) \div Second)

(* The power-up of a node is on only while its expiry lies ahead.           *)
Boosted_Late(entry) == entry.powerup_expire > now + 1

Boosted(entry) == entry.powerup_expire > now

(* LamportClock.update.                                                     *)
Stamp_Local(ts) == IF localLamport > ts THEN localLamport ELSE ts

Stamp(ts) == (IF localLamport > ts THEN localLamport ELSE ts) + 1

Stale_Never(r) == FALSE

Stale_Strict(r) == r.ts < lastLamport[r.node]

Stale(r) == r.ts <= lastLamport[r.node]

(* _evict_old_clicks or _evict_old_syncs: each empties its own cache.       *)
Expired_Early(e) == now - e.at >= TTL

Expired(e) == now - e.at > TTL

Live(kind) == {e \in cache : e.key[1] # kind \/ ~Expired(e)}

Cached(r) == {e \in Live(r.kind) : e.key = Key(r)}

(* What update_score stores, and where sync_offline restarts the window.    *)
SavedScore_Accepted(h) == dbScore[req[h].node] + work[h].accepted

SavedScore(h) == nodes[req[h].node].score

WindowStart_Kept(h) == nodes[req[h].node].last_ts

WindowStart(h) == work[h].start

(* async with: whoever leaves the block releases the lock.                  *)
Released_Never(h) == lock

Released(h) == IF lock = h THEN NoHandler ELSE lock

Crossed_Below(before) ==
  {m \in Milestones \ milestonesDone : before < m /\ m < globalScore}

Crossed(before) ==
  {m \in Milestones \ milestonesDone : before < m /\ m <= globalScore}

-----------------------------------------------------------------------------
(* Requests arrive.  Nodes tick their clock before a request, so a          *)
(* timestamp names one batch; the same request may come again (a retry).    *)

Receive(h, r) ==
  /\ pc[h] = "idle"
  /\ arrivals < MaxArrivals
  /\ r.node \in dbRows
  /\ r \in issued \/ \A q \in issued : q.node = r.node => q.ts # r.ts
  /\ pc' = [pc EXCEPT ![h] = "waiting"]
  /\ req' = [req EXCEPT ![h] = r]
  /\ issued' = issued \cup {r}
  /\ arrivals' = arrivals + 1
  /\ UNCHANGED <<now, memory, disk, lock, work, applied, sent, bootScore, restarts>>

Idles(h) ==
  /\ pc' = [pc EXCEPT ![h] = "idle"]
  /\ req' = [req EXCEPT ![h] = NoRequest]
  /\ work' = [work EXCEPT ![h] = NoWork]

(* NodeRegistry.register_node: the entry, then the upsert, no lock.         *)
RegisterNode(h, n) ==
  /\ pc[h] = "idle"
  /\ arrivals < MaxArrivals
  /\ pc' = [pc EXCEPT ![h] = "upsert"]
  /\ req' = [req EXCEPT ![h] = [kind |-> "register", node |-> n]]
  /\ work' = [work EXCEPT ![h].start = now]
  /\ registered' = registered \cup {n}
  /\ arrivals' = arrivals + 1
  /\ UNCHANGED <<now, scores, milestonesDone, cache, clocks, disk, lock,
                 issued, applied, sent, bootScore, restarts>>

(* LamportClock.register keeps a clock that exists and starts one at 0.     *)
NodeUpserted(h) ==
  /\ pc[h] = "upsert"
  /\ dbRows' = dbRows \cup {req[h].node}
  /\ dbSeen' = [dbSeen EXCEPT ![req[h].node] = work[h].start]
  /\ Idles(h)
  /\ UNCHANGED <<now, memory, dbScore, dbMilestones, lock, history>>

(* activate_powerup: no lock and no suspension.                             *)
ActivatePowerup(n) ==
  /\ nodes[n].powerup_expire < now
  /\ nodes' = [nodes EXCEPT ![n].powerup_expire = now + Boost, ![n].multiplier = 3]
  /\ UNCHANGED <<now, globalScore, milestonesDone, cache, clocks, registered, disk,
                 lock, pc, req, work, history>>

-----------------------------------------------------------------------------
(* Inside the lock.                                                         *)

Acquires(h, kind) == pc[h] = "waiting" /\ lock = NoHandler /\ req[h].kind = kind

(* "at" is when the answer was computed: a replayed one keeps its time.     *)
SendReply(h, r, at, reply) ==
  /\ sent' = sent \cup {[key |-> Key(r), at |-> at, clicks |-> r.clicks, reply |-> reply]}
  /\ lock' = NoHandler
  /\ Idles(h)
  /\ UNCHANGED <<issued, applied, bootScore, restarts, arrivals>>

(* A request whose answer is cached is answered again and does nothing.     *)
ReplayCached(h) ==
  /\ \E kind \in {"add", "sync"} : Acquires(h, kind)
  /\ \E e \in Cached(req[h]) : SendReply(h, req[h], e.at, e.reply)
  /\ cache' = Live(req[h].kind)
  /\ UNCHANGED <<now, scores, milestonesDone, clocks, registered, disk>>

Tick(r, stamp) ==
  /\ lastLamport' = [lastLamport EXCEPT ![r.node] = stamp]
  /\ localLamport' = stamp

(* add_clicks with a timestamp that is not newer than the node's last one.  *)
BeginViolation_Moves(h) ==
  LET r == req[h] IN
  /\ Acquires(h, "add")
  /\ Cached(r) = {}
  /\ Stale(r)
  /\ Tick(r, Stamp(r.ts))
  /\ nodes' = [nodes EXCEPT ![r.node].last_ts = now]
  /\ cache' = Live("add")
  /\ lock' = h
  /\ pc' = [pc EXCEPT ![h] = "violation"]
  /\ work' = [work EXCEPT ![h] = [NoWork EXCEPT !.start = now, !.stamp = Stamp(r.ts)]]
  /\ UNCHANGED <<now, globalScore, milestonesDone, registered, disk, req, history>>

BeginViolation(h) ==
  LET r == req[h] IN
  /\ Acquires(h, "add")
  /\ Cached(r) = {}
  /\ Stale(r)
  /\ Tick(r, Stamp(r.ts))
  /\ cache' = Live("add")
  /\ lock' = h
  /\ pc' = [pc EXCEPT ![h] = "violation"]
  /\ work' = [work EXCEPT ![h] = [NoWork EXCEPT !.start = now, !.stamp = Stamp(r.ts)]]
  /\ UNCHANGED <<now, scores, milestonesDone, registered, disk, req, history>>

ViolationRecorded(h) ==
  LET reply == [status |-> "LAMPORT_VIOLATION", accepted |-> 0, score |-> 0,
                ts |-> work[h].stamp, milestone |-> FALSE]
  IN
  /\ pc[h] = "violation"
  /\ cache' = cache \cup {[key |-> Key(req[h]), at |-> work[h].start, reply |-> reply]}
  /\ SendReply(h, req[h], work[h].start, reply)
  /\ UNCHANGED <<now, scores, milestonesDone, clocks, registered, disk>>

(* The clicks enter the node's score and the global score; the handler then *)
(* waits for update_score.                                                  *)
Score(h, start, accepted, gain, entry) ==
  /\ nodes' = [nodes EXCEPT ![req[h].node] = entry]
  /\ globalScore' = globalScore + gain
  /\ lock' = h
  /\ pc' = [pc EXCEPT ![h] = "score"]
  /\ work' = [work EXCEPT ![h] = [NoWork EXCEPT !.start = start,
                                  !.before = globalScore, !.accepted = accepted]]
  /\ applied' = applied \cup {[key |-> Key(req[h]), at |-> start, run |-> restarts,
                                 accepted |-> accepted]}
  /\ UNCHANGED <<now, milestonesDone, clocks, disk, req,
                 issued, sent, bootScore, restarts, arrivals>>

ApplyAdd(h) ==
  LET r     == req[h]
      entry == nodes[r.node]
      acc   == Accepted(r.clicks, now - entry.last_ts)
      gain  == IF Boosted(entry) THEN acc * entry.multiplier ELSE acc
  IN
  /\ Acquires(h, "add")
  /\ Cached(r) = {}
  /\ ~Stale(r)
  /\ Score(h, now, acc, gain,
           [entry EXCEPT !.last_ts = now, !.score = @ + gain,
                         !.multiplier = IF Boosted(entry) THEN @ ELSE 1])
  /\ cache' = Live("add")
  /\ UNCHANGED registered

BeginSync(h) ==
  /\ Acquires(h, "sync")
  /\ Cached(req[h]) = {}
  /\ cache' = Live("sync")
  /\ lock' = h
  /\ pc' = [pc EXCEPT ![h] = "load"]
  /\ work' = [work EXCEPT ![h].start = now]
  /\ UNCHANGED <<now, scores, milestonesDone, clocks, registered, disk, req, history>>

(* load_from_db; update_status then gives the node a registry entry if it   *)
(* has none and saves SYNCING.  The statuses themselves are in NodeRegistry. *)
RegistryLoaded(h) ==
  /\ pc[h] = "load"
  /\ registered' = registered \cup {req[h].node}
  /\ pc' = [pc EXCEPT ![h] = "syncing"]
  /\ UNCHANGED <<now, scores, milestonesDone, cache, clocks, disk, lock, req, work, history>>

StatusSaved(h) ==
  \/ /\ pc[h] = "syncing"
     /\ pc' = [pc EXCEPT ![h] = "read"]
     /\ UNCHANGED <<now, memory, disk, lock, req, work, history>>
  \/ /\ pc[h] = "activate"
     /\ pc' = [pc EXCEPT ![h] = "beat"]
     /\ work' = [work EXCEPT ![h].beat = now]
     /\ UNCHANGED <<now, memory, disk, lock, req, history>>

(* sync_offline counts from the score and last_seen of the database row; no *)
(* Lamport check.                                                           *)
ApplySync(h) ==
  LET n   == req[h].node
      acc == AcceptedOffline(req[h].clicks, dbSeen[n], work[h].start)
  IN
  /\ pc[h] = "read"
  /\ Score(h, work[h].start, acc, acc, [nodes[n] EXCEPT !.score = dbScore[n] + acc])
  /\ UNCHANGED <<cache, registered>>

(* The milestone loop: the lowest one crossed and not yet done, and on to   *)
(* the event row when none is left.                                         *)
NextMilestone(h, w) ==
  \/ /\ Crossed(w.before) = {}
     /\ pc' = [pc EXCEPT ![h] = "event"]
     /\ work' = [work EXCEPT ![h] = w]
     /\ UNCHANGED milestonesDone
  \/ \E m \in Crossed(w.before) :
       /\ \A k \in Crossed(w.before) : m <= k
       /\ milestonesDone' = milestonesDone \cup {m}
       /\ pc' = [pc EXCEPT ![h] = "milestone"]
       /\ work' = [work EXCEPT ![h] = [w EXCEPT !.reached = @ \cup {m}]]

ScoreSaved(h) ==
  LET r == req[h] IN
  /\ pc[h] = "score"
  /\ dbScore' = [dbScore EXCEPT ![r.node] = SavedScore(h)]
  /\ Tick(r, Stamp(r.ts))
  /\ NextMilestone(h, [work[h] EXCEPT !.stamp = Stamp(r.ts)])
  /\ UNCHANGED <<now, scores, cache, registered, dbRows, dbSeen,
                 dbMilestones, lock, req, history>>

MilestoneSaved(h) ==
  /\ pc[h] = "milestone"
  /\ \E m \in work[h].reached :
       /\ \A k \in work[h].reached : k <= m
       /\ dbMilestones' = [dbMilestones EXCEPT ![m] = @ + 1]
  /\ NextMilestone(h, work[h])
  /\ UNCHANGED <<now, scores, cache, clocks,
                 registered, dbRows, dbScore, dbSeen, lock, req, history>>

(* The reply is cached under the request's own timestamp and sent.          *)
Respond(h) ==
  LET r == req[h]
      w == work[h]
      reply == [status |-> IF r.kind = "add" /\ w.accepted < r.clicks
                           THEN "RATE_EXCEEDED" ELSE "SUCCESS",
                accepted |-> w.accepted, score |-> nodes[r.node].score,
                ts |-> w.stamp, milestone |-> w.reached # {}]
  IN
  /\ cache' = cache \cup {[key |-> Key(r), at |-> w.start, reply |-> reply]}
  /\ SendReply(h, r, w.start, reply)

(* After the event row: sync_offline sets the node ACTIVE; add_clicks goes  *)
(* to the registry's heartbeat, which ignores a node without an entry.      *)
EventSaved(h) ==
  /\ pc[h] = "event"
  /\ \/ /\ req[h].kind = "sync"
        /\ pc' = [pc EXCEPT ![h] = "activate"]
        /\ UNCHANGED <<cache, lock, req, work, history>>
     \/ /\ req[h].kind = "add" /\ req[h].node \in registered
        /\ pc' = [pc EXCEPT ![h] = "beat"]
        /\ work' = [work EXCEPT ![h].beat = now]
        /\ UNCHANGED <<cache, lock, req, history>>
     \/ /\ req[h].kind = "add" /\ req[h].node \notin registered
        /\ Respond(h)
  /\ UNCHANGED <<now, scores, milestonesDone, clocks, registered, disk>>

(* The heartbeat is saved and add_clicks answers; sync_offline moves the    *)
(* node's rate window to its own start and reads the ranking first.         *)
HeartbeatSaved(h) ==
  LET n == req[h].node IN
  /\ pc[h] = "beat"
  /\ dbSeen' = [dbSeen EXCEPT ![n] = work[h].beat]
  /\ \/ /\ req[h].kind = "sync"
        /\ nodes' = [nodes EXCEPT ![n].last_ts = WindowStart(h)]
        /\ pc' = [pc EXCEPT ![h] = "ranking"]
        /\ UNCHANGED <<cache, lock, req, work, history>>
     \/ /\ req[h].kind = "add"
        /\ Respond(h)
        /\ UNCHANGED nodes
  /\ UNCHANGED <<now, globalScore, milestonesDone, clocks,
                 registered, dbRows, dbScore, dbMilestones>>

RankingRead(h) ==
  /\ pc[h] = "ranking"
  /\ Respond(h)
  /\ UNCHANGED <<now, scores, milestonesDone, clocks, registered, disk>>

-----------------------------------------------------------------------------
(* Failures.                                                                *)

(* A database call raises: the exception leaves the lock and the dispatcher *)
(* answers with a JSON-RPC error; nothing is cached, nothing is undone.     *)
DatabaseFails(h) ==
  /\ pc[h] \in Faults
  /\ lock' = Released(h)
  /\ Idles(h)
  /\ UNCHANGED <<now, memory, disk, history>>

(* The process dies and boots again: only the database survives, and        *)
(* reconstruct_global_score, the sum of the rows, runs before the first      *)
(* request is served.                                                       *)
Reconstructed == SumFunction(dbScore)

Restart ==
  /\ restarts < MaxRestarts
  /\ globalScore' = Reconstructed
  /\ nodes' = [n \in Nodes |-> NewNode]
  /\ milestonesDone' = {}
  /\ cache' = {}
  /\ lastLamport' = [n \in Nodes |-> 0]
  /\ localLamport' = 0
  /\ registered' = {}
  /\ lock' = NoHandler
  /\ pc' = [h \in Handlers |-> "idle"]
  /\ req' = [h \in Handlers |-> NoRequest]
  /\ work' = [h \in Handlers |-> NoWork]
  /\ sent' = {}
  /\ bootScore' = Reconstructed
  /\ restarts' = restarts + 1
  /\ UNCHANGED <<now, disk, issued, applied, arrivals>>

TimePasses ==
  /\ now < Epoch + MaxTime
  /\ now' = now + 1
  /\ UNCHANGED <<memory, disk, lock, pc, req, work, history>>

-----------------------------------------------------------------------------

Step(h) ==
  \/ NodeUpserted(h) \/ ReplayCached(h)
  \/ BeginViolation(h) \/ ViolationRecorded(h)
  \/ ApplyAdd(h) \/ BeginSync(h) \/ RegistryLoaded(h) \/ ApplySync(h)
  \/ ScoreSaved(h) \/ MilestoneSaved(h) \/ EventSaved(h) \/ StatusSaved(h)
  \/ HeartbeatSaved(h) \/ RankingRead(h)
  \/ DatabaseFails(h)

Next ==
  \/ \E h \in Handlers : Step(h)
  \/ \E h \in Handlers, r \in Request : Receive(h, r)
  \/ \E h \in Handlers, n \in Nodes : RegisterNode(h, n)
  \/ \E n \in Nodes : ActivatePowerup(n)
  \/ Restart
  \/ TimePasses

Spec == Init /\ [][Next]_vars

-----------------------------------------------------------------------------
(* Properties.                                                              *)

Requesting == {"waiting", "violation", "load", "syncing", "read", "score",
               "milestone", "event", "activate", "beat", "ranking"}

WorkType == [start : Nat, before : Nat, accepted : Nat, stamp : Nat,
             reached : SUBSET Milestones, beat : Nat]

NodeType == [last_ts : Nat, score : Nat, powerup_expire : Nat, multiplier : {1, 3}]

KeyType == {"add", "sync"} \X Nodes \X (1..MaxTs)

MemoryType ==
  /\ now \in Nat
  /\ globalScore \in Nat
  /\ nodes \in [Nodes -> NodeType]
  /\ milestonesDone \in SUBSET Milestones
  /\ cache \in SUBSET [key : KeyType, at : Nat, reply : Reply]
  /\ lastLamport \in [Nodes -> Nat]
  /\ localLamport \in Nat
  /\ registered \in SUBSET Nodes

DiskType ==
  /\ dbRows \in SUBSET Nodes
  /\ dbScore \in [Nodes -> Nat]
  /\ dbSeen \in [Nodes -> Nat]
  /\ dbMilestones \in [Milestones -> Nat]

HandlerType ==
  /\ lock \in Handlers \cup {NoHandler}
  /\ pc \in [Handlers -> Requesting \cup {"idle", "upsert"}]
  /\ DOMAIN req = Handlers
  /\ \A h \in Handlers : pc[h] \in Requesting => req[h] \in Request
  /\ \A h \in Handlers : pc[h] = "upsert" => req[h].node \in Nodes
  /\ work \in [Handlers -> WorkType]

HistoryType ==
  /\ issued \in SUBSET Request
  /\ applied \in SUBSET [key : KeyType, at : Nat, run : Nat, accepted : Nat]
  /\ sent \in SUBSET [key : KeyType, at : Nat, clicks : Batches, reply : Reply]
  /\ bootScore \in Nat /\ restarts \in Nat /\ arrivals \in Nat

(* Every variable keeps its type.  Scores, allowances and stamps are        *)
(* naturals: no subtraction of clock readings may leave a negative count.   *)
TypeOK == MemoryType /\ DiskType /\ HandlerType /\ HistoryType

Free == lock = NoHandler

(* The step in which the handler's clicks enter the scores.                 *)
Applies(h) == pc[h] \in {"waiting", "read"} /\ pc'[h] = "score"

(* Until the server first restarts the global score is the sum of the node  *)
(* scores, at every suspension point and not only between requests          *)
(* (game_manager.py:176-178, 301-303).                                      *)
GlobalIsSum == globalScore = SumFunction([n \in Nodes |-> nodes[n].score])

(* Whenever no request is being counted, the score in memory of a node      *)
(* scored since the boot is the score in its database row.                  *)
DbMatchesMemory ==
  Free => \A n \in Nodes : nodes[n].last_ts > 0 => dbScore[n] = nodes[n].score

(* One add_clicks request enters the score at most once in the life of the  *)
(* process, however often it is sent and however late (game_manager.py:96). *)
AddAppliedOnce ==
  [][\A h \in Handlers : Applies(h) /\ req[h].kind = "add" =>
       \A a \in applied : a.run = restarts => a.key # Key(req[h])]_vars

(* One sync_offline request enters the score at most once within the time   *)
(* its answer is remembered (game_manager.py:249).                          *)
SyncAppliedOnce ==
  [][\A h \in Handlers : Applies(h) /\ req[h].kind = "sync" =>
       \A a \in applied : a.run = restarts /\ a.key = Key(req[h])
                            => work[h].start - a.at > TTL]_vars

(* A repeated request gets the answer the first one got until that time has *)
(* passed: no second answer to a request is computed earlier.               *)
SameAnswer ==
  \A a, b \in sent : a.key = b.key /\ b.at >= a.at /\ b.at - a.at <= TTL => a.reply = b.reply

(* No two requests get the same Lamport stamp, whichever nodes sent them:   *)
(* the stamps order everything the process has answered.                    *)
UniqueStamps ==
  \A a, b \in sent : a.reply.ts = b.reply.ts => a.key = b.key

(* A batch is counted by add_clicks only if its sender had seen every       *)
(* answer given to it since the boot: its timestamp is beyond their stamps. *)
CausalDelivery ==
  [][\A h \in Handlers : Applies(h) /\ req[h].kind = "add" =>
       \A s \in sent : s.key[2] = req[h].node => req[h].ts > s.reply.ts]_vars

(* Between requests, the milestones done are those the global score has     *)
(* crossed since the boot, and each one has a row in the database.          *)
MilestonesExact ==
  Free => /\ milestonesDone = {m \in Milestones : bootScore < m /\ m <= globalScore}
          /\ \A m \in milestonesDone : dbMilestones[m] > 0

(* When the batches of a node were counted in this run of the process, and  *)
(* 0, where the window of a new entry starts.                               *)
CountedAt(n) == {0} \cup {a.at : a \in {b \in applied : b.run = restarts /\ b.key[2] = n}}

(* Between requests, a node's rate window starts exactly at the last batch  *)
(* counted for it, whichever call counted it and however few of its clicks  *)
(* the limit let in.  No time is credited twice, and none is lost: a batch  *)
(* that is replayed, or refused as stale, leaves the window where it was    *)
(* (game_manager.py:100-124, 128-129, 344).                                 *)
WindowStartsAtLastBatch ==
  Free => \A n \in Nodes : /\ nodes[n].last_ts \in CountedAt(n)
                          /\ \A t \in CountedAt(n) : t <= nodes[n].last_ts

(* While a power-up runs its factor is in force: the reset in add_clicks    *)
(* and the unlocked activate_powerup never leave an active one without it.  *)
BoostInForce ==
  \A n \in Nodes : nodes[n].powerup_expire > now => nodes[n].multiplier = 3

(* asyncio.Lock wakes its waiters in FIFO order and a database call ends or *)
(* raises, so a handler that keeps getting its turn takes its step.         *)
FairSpec == Spec /\ \A h \in Handlers : SF_vars(Step(h))

(* Every request is answered: no failure of a database call leaves the lock *)
(* taken.                                                                   *)
Served == \A h \in Handlers : pc[h] # "idle" ~> pc[h] = "idle"

-----------------------------------------------------------------------------
(* Claims of the documentation and the comments that the code does not keep. *)

(* "sobreviver a restarts": no persisted score is lost.  After a restart    *)
(* add_clicks counts from an empty entry and overwrites the larger row      *)
(* (game_manager.py:35-36, 51-58, 187).                                     *)
ScoresSurviveRestart == [][\A n \in Nodes : dbScore'[n] >= dbScore[n]]_vars

=============================================================================
