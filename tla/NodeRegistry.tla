---------------------------- MODULE NodeRegistry ----------------------------
(***************************************************************************)
(* Presence of the nodes: NodeRegistry, the background sweep and the rows   *)
(* of the table nodes (server/domain/node_registry.py, app/main.py,         *)
(* infra/db.py).                                                            *)
(*                                                                          *)
(* One asyncio loop: a method runs alone up to a database call, and the     *)
(* step that ends the call commits it.  The registry takes no lock; the     *)
(* game's lock keeps two syncs or heartbeats of add_clicks apart.           *)
(*                                                                          *)
(* An RPC names a node by a number.  The column node_id is TEXT, so         *)
(* load_from_db files the same node under the text of that number: a key is *)
(* a node and the form its identifier has, "id" or "text".                  *)
(***************************************************************************)
EXTENDS Integers

CONSTANTS
  Nodes,          \* node identifiers
  Handlers,       \* connection handlers that may run at once
  Idle,           \* mark_inactive: 60 s, in ticks
  Syncs,          \* nodes that call sync_offline in this instance
  Failing,        \* who may meet a database error: handlers, "sweep"
  MaxTime,        \* bound: ticks of the clock
  MaxCalls,       \* bound: calls received
  MaxRestarts     \* bound: restarts of the server

ASSUME RegistryAssumption ==
  /\ Idle \in Nat \ {0} /\ MaxTime \in Nat \ {0} /\ MaxCalls \in Nat /\ MaxRestarts \in Nat
  /\ Syncs \subseteq Nodes /\ Failing \subseteq Handlers \cup {"sweep"}

VARIABLES
  now,            \* time.time()
  mem,            \* NodeRegistry.nodes: entries by key
  row,            \* table nodes: status and last_seen by node
  job,            \* per handler: the database call it waits for and its locals
  lock,           \* handlers holding the game's lock (at most one)
  sweep,          \* mark_inactive: its locals
  calls, restarts, \* history: counters of the instance
  raised          \* history: a database call has failed or the server restarted

vars == <<now, mem, row, job, lock, sweep, calls, restarts, raised>>

Keys == Nodes \X {"id", "text"}

Own(n) == <<n, "id">>

Resting == [pc |-> "idle"]

NoEntry == [status |-> "none", seen |-> 0]

Asleep == [pc |-> "asleep", at |-> 0, queue |-> {}, old |-> <<>>,
           node |-> "none", entry |-> NoEntry]

Init ==
  /\ now = 1
  /\ mem = <<>> /\ row = <<>>
  /\ job = [h \in Handlers |-> Resting]
  /\ lock = {}
  /\ sweep = Asleep
  /\ calls = 0 /\ restarts = 0 /\ raised = FALSE

-----------------------------------------------------------------------------
(* Helpers.  X_Variant is X with a slip the code could have made; no action  *)
(* uses it, and some property below tells it from X.                        *)

Over(g, f) == [x \in DOMAIN g \cup DOMAIN f |-> IF x \in DOMAIN g THEN g[x] ELSE f[x]]

With(f, k, v) == Over([x \in {k} |-> v], f)

(* mark_inactive holds the entries of the dictionary it started with: one   *)
(* that is replaced meanwhile stays what it was for the sweep.              *)
Replaced(keys) ==
  LET lost == (keys \cap sweep.queue \cap DOMAIN mem) \ DOMAIN sweep.old IN
  [sweep EXCEPT !.old = Over(sweep.old, [k \in lost |-> mem[k]])]

Swept(k) == IF k \in DOMAIN sweep.old THEN sweep.old[k] ELSE mem[k]

Overdue_Inclusive(entry) == entry.status # "INACTIVE" /\ sweep.at - entry.seen >= Idle

Overdue(entry) == entry.status # "INACTIVE" /\ sweep.at - entry.seen > Idle

SweptRow_Kept(entry) == entry

SweptRow(entry) == [entry EXCEPT !.status = "INACTIVE"]

(* get_node: whether the node has a row, and the row.                       *)
Known_Always(n) == TRUE

Known(n) == n \in DOMAIN row

RowOf(n) == IF n \in DOMAIN row THEN row[n] ELSE NoEntry

(* The status sync_offline leaves a node in.                                *)
Synced_Kept == "SYNCING"

Synced == "ACTIVE"

-----------------------------------------------------------------------------
(* Calls arrive while they leave the instance time for the silence after    *)
(* the last one.                                                            *)
Arrives(h) ==
  /\ job[h].pc = "idle"
  /\ calls < MaxCalls /\ now + Idle < MaxTime
  /\ calls' = calls + 1

Calls(h, pc, n, seen, status) ==
  job' = [job EXCEPT ![h] = [pc |-> pc, node |-> n, seen |-> seen, status |-> status,
                             since |-> now]]

Ends(h) ==
  /\ job' = [job EXCEPT ![h] = Resting]
  /\ lock' = lock \ {h}

(* register_node, also the board's heartbeat: a new entry, then the upsert. *)
Register(h, n) ==
  /\ Arrives(h)
  /\ mem' = With(mem, Own(n), [status |-> "ACTIVE", seen |-> now])
  /\ sweep' = Replaced({Own(n)})
  /\ Calls(h, "upsert", n, now, "ACTIVE")
  /\ UNCHANGED <<now, row, lock, restarts, raised>>

UpsertSaved(h) ==
  /\ job[h].pc = "upsert"
  /\ row' = With(row, job[h].node, [status |-> job[h].status, seen |-> job[h].seen])
  /\ Ends(h)
  /\ UNCHANGED <<now, mem, sweep, calls, restarts, raised>>

(* heartbeat, at the end of add_clicks and of sync_offline: the entry is    *)
(* changed in place, and a node that was INACTIVE comes back.               *)
Beats(h, n) ==
  /\ mem' = [mem EXCEPT ![Own(n)] =
               [status |-> IF @.status = "INACTIVE" THEN "ACTIVE" ELSE @.status,
                seen |-> now]]
  /\ Calls(h, IF mem[Own(n)].status = "INACTIVE" THEN "upsert" ELSE "seen", n, now, "ACTIVE")

(* add_clicks, of which the registry sees the heartbeat.                    *)
Heartbeat(h, n) ==
  /\ Arrives(h)
  /\ lock = {}
  /\ Own(n) \in DOMAIN mem
  /\ lock' = {h}
  /\ Beats(h, n)
  /\ UNCHANGED <<now, row, sweep, restarts, raised>>

SeenSaved(h) ==
  /\ job[h].pc = "seen"
  /\ row' = IF job[h].node \in DOMAIN row THEN [row EXCEPT ![job[h].node].seen = job[h].seen] ELSE row
  /\ Ends(h)
  /\ UNCHANGED <<now, mem, sweep, calls, restarts, raised>>

(* sync_offline: load_from_db, update_status to SYNCING, the game's own     *)
(* database calls, update_status to ACTIVE, heartbeat.                      *)
SyncStart(h, n) ==
  /\ Arrives(h)
  /\ n \in Syncs /\ lock = {}
  /\ lock' = {h}
  /\ Calls(h, "load", n, now, "SYNCING")
  /\ UNCHANGED <<now, mem, row, sweep, restarts, raised>>

(* load_from_db replaces every entry under the text of a row's identifier;  *)
(* update_status then looks for the node under its number.                  *)
RowsLoaded(h) ==
  LET n == job[h].node
      files == [k \in {<<m, "text">> : m \in DOMAIN row} |-> row[k[1]]]
      loaded == Over(files, mem) IN
  /\ job[h].pc = "load"
  /\ sweep' = Replaced(DOMAIN files)
  /\ IF Own(n) \in DOMAIN mem
     THEN /\ mem' = [loaded EXCEPT ![Own(n)].status = "SYNCING"]
          /\ Calls(h, "status", n, now, "SYNCING")
     ELSE /\ mem' = loaded
          /\ Calls(h, "get", n, now, "SYNCING")
  /\ UNCHANGED <<now, row, lock, calls, restarts, raised>>

(* The heartbeat that ends a sync; of a node the registry does not know it  *)
(* is an error message.                                                     *)
LastBeat(h, n) ==
  IF Own(n) \in DOMAIN mem THEN Beats(h, n) /\ UNCHANGED lock ELSE Ends(h) /\ UNCHANGED mem

(* update_status of a node that was not in memory takes its row, over the   *)
(* entry of a registration that came in between; without a row it gives up, *)
(* and the sync counts the clicks, or ends, all the same.                   *)
RowGot(h) ==
  LET n == job[h].node
      status == job[h].status IN
  /\ job[h].pc = "get"
  /\ \/ /\ Known(n)
        /\ mem' = With(mem, Own(n), [RowOf(n) EXCEPT !.status = status])
        /\ sweep' = Replaced({Own(n)})
        /\ Calls(h, "status", n, now, status)
        /\ UNCHANGED lock
     \/ /\ ~Known(n) /\ status = "SYNCING"
        /\ Calls(h, "count", n, now, status)
        /\ UNCHANGED <<mem, sweep, lock>>
     \/ /\ ~Known(n) /\ status = "ACTIVE"
        /\ LastBeat(h, n)
        /\ UNCHANGED sweep
  /\ UNCHANGED <<now, row, calls, restarts, raised>>

(* update_node_status: the first one is followed by the counting, the last  *)
(* one by the heartbeat.                                                    *)
StatusSaved(h) ==
  LET n == job[h].node IN
  /\ job[h].pc = "status"
  /\ row' = IF n \in DOMAIN row THEN [row EXCEPT ![n].status = job[h].status] ELSE row
  /\ IF job[h].status = "SYNCING"
     THEN Calls(h, "count", n, now, "SYNCING") /\ UNCHANGED mem
     ELSE Beats(h, n)
  /\ UNCHANGED <<now, lock, sweep, calls, restarts, raised>>

(* The clicks are counted, and update_status to ACTIVE begins.              *)
Counted(h) ==
  LET n == job[h].node IN
  /\ job[h].pc = "count"
  /\ IF Own(n) \in DOMAIN mem
     THEN /\ mem' = [mem EXCEPT ![Own(n)].status = Synced]
          /\ Calls(h, "status", n, now, "ACTIVE")
     ELSE Calls(h, "get", n, now, "ACTIVE") /\ UNCHANGED mem
  /\ UNCHANGED <<now, row, lock, sweep, calls, restarts, raised>>

(* A database call raises: the handler answers -32000 and frees the lock;   *)
(* what was changed in memory before the call stays.                        *)
DatabaseFails(h) ==
  /\ h \in Failing /\ job[h].pc # "idle"
  /\ Ends(h)
  /\ raised' = TRUE
  /\ UNCHANGED <<now, mem, row, sweep, calls, restarts>>

-----------------------------------------------------------------------------
(* mark_inactive, every 10 s: the clock is read once, each overdue entry is *)
(* marked and its row saved before the next one is looked at.               *)
SweepStarts ==
  /\ sweep.pc = "asleep"
  /\ sweep' = [Asleep EXCEPT !.pc = "looking", !.at = now, !.queue = DOMAIN mem]
  /\ UNCHANGED <<now, mem, row, job, lock, calls, restarts, raised>>

SweepMarks(k) ==
  /\ sweep.pc = "looking"
  /\ k \in sweep.queue /\ Overdue(Swept(k))
  /\ IF k \in DOMAIN sweep.old THEN UNCHANGED mem
                               ELSE mem' = [mem EXCEPT ![k].status = "INACTIVE"]
  /\ sweep' = [sweep EXCEPT !.pc = "saving", !.queue = @ \ {k},
                            !.node = k[1], !.entry = Swept(k)]
  /\ UNCHANGED <<now, row, job, lock, calls, restarts, raised>>

(* The upsert of update_node.                                               *)
SweepSaved ==
  /\ sweep.pc = "saving"
  /\ row' = With(row, sweep.node, SweptRow(sweep.entry))
  /\ sweep' = [sweep EXCEPT !.pc = "looking"]
  /\ UNCHANGED <<now, mem, job, lock, calls, restarts, raised>>

SweepEnds ==
  /\ sweep.pc = "looking"
  /\ \A k \in sweep.queue : ~Overdue(Swept(k))
  /\ sweep' = Asleep
  /\ UNCHANGED <<now, mem, row, job, lock, calls, restarts, raised>>

(* background_tasks prints the exception and sleeps: the entries after this *)
(* one wait for the next sweep.                                             *)
SweepFails ==
  /\ "sweep" \in Failing /\ sweep.pc = "saving"
  /\ sweep' = Asleep
  /\ raised' = TRUE
  /\ UNCHANGED <<now, mem, row, job, lock, calls, restarts>>

(* main() builds an empty registry; nothing reads the table nodes into it.  *)
Restart ==
  /\ restarts < MaxRestarts
  /\ restarts' = restarts + 1 /\ raised' = TRUE
  /\ mem' = <<>>
  /\ job' = [h \in Handlers |-> Resting]
  /\ lock' = {}
  /\ sweep' = Asleep
  /\ UNCHANGED <<now, row, calls>>

(* SQLite gives up on a locked file after 5 s, so a database call does not  *)
(* outlive the tick after the one it started in.                            *)
TimePasses ==
  /\ now < MaxTime
  /\ \A h \in Handlers : job[h].pc # "idle" => job[h].since = now
  /\ now' = now + 1
  /\ UNCHANGED <<mem, row, job, lock, sweep, calls, restarts, raised>>

HandlerStep(h) ==
  UpsertSaved(h) \/ SeenSaved(h) \/ RowsLoaded(h) \/ RowGot(h) \/ StatusSaved(h)
    \/ Counted(h) \/ DatabaseFails(h)

SweepStep ==
  SweepStarts \/ (\E k \in sweep.queue : SweepMarks(k)) \/ SweepSaved \/ SweepEnds \/ SweepFails

Next ==
  \/ \E h \in Handlers, n \in Nodes : Register(h, n) \/ Heartbeat(h, n) \/ SyncStart(h, n)
  \/ \E h \in Handlers : HandlerStep(h)
  \/ SweepStep
  \/ Restart
  \/ TimePasses

Spec == Init /\ [][Next]_vars

(* The loop resumes every task whose call has ended, the sweep sleeps 10 s  *)
(* at a time, and the clock does not stop.                                  *)
FairSpec ==
  /\ Spec
  /\ \A h \in Handlers : WF_vars(HandlerStep(h))
  /\ WF_vars(SweepStep)
  /\ WF_vars(TimePasses)

-----------------------------------------------------------------------------
(* Properties                                                               *)

Entries == [status : {"ACTIVE", "SYNCING", "INACTIVE"}, seen : 1..now]

(* Every entry and row holds a status of the registry and the time of a     *)
(* call really received, never the default of a row that does not exist.    *)
TypeOK ==
  /\ now \in 1..MaxTime
  /\ DOMAIN mem \subseteq Keys /\ \A k \in DOMAIN mem : mem[k] \in Entries
  /\ DOMAIN row \subseteq Nodes /\ \A n \in DOMAIN row : row[n] \in Entries
  /\ lock \subseteq Handlers /\ \A g, h \in lock : g = h
  /\ sweep.queue \subseteq Keys

(* However long a sweep waits for the database between two nodes, it never  *)
(* makes inactive in memory a node that has called within the idle time     *)
(* (node_registry.py:91).                                                   *)
LiveIsActive ==
  \A n \in Nodes : Own(n) \in DOMAIN mem /\ now - mem[Own(n)].seen <= Idle
    => mem[Own(n)].status # "INACTIVE"

(* While no database call has failed and no restart interrupted one, no     *)
(* sync leaves its node SYNCING, in memory or in its row, whatever          *)
(* registrations and sweeps came in between (game_manager.py:264, 342).     *)
NoStuckSync ==
  ~raised /\ lock = {} =>
               /\ \A k \in DOMAIN mem : mem[k].status # "SYNCING"
               /\ \A n \in DOMAIN row : row[n].status # "SYNCING"

Settled(n) ==
  /\ \A h \in Handlers : job[h].pc = "idle" \/ job[h].node # n
  /\ sweep.pc # "saving"

(* A row says INACTIVE only of a node that has been silent for longer than  *)
(* the idle time, once the calls about it have ended                        *)
(* (docs/node_registry.md:11).  False: the upsert of a sweep may be         *)
(* committed after the one that brought the node back.                      *)
ShownInactiveIsSilent ==
  \A n \in DOMAIN row \cap {m \in Nodes : Own(m) \in DOMAIN mem} :
    Settled(n) /\ row[n].status = "INACTIVE" => now - mem[Own(n)].seen > Idle

(* A node that stays silent is INACTIVE in its row for good, though two     *)
(* keys of one node may be swept and saves overtake one another; unless a   *)
(* database call fails or the server restarts (docs/node_registry.md:26).   *)
SilentIsMarked ==
  \A n \in Nodes :
    <>[](~raised /\ Own(n) \in DOMAIN mem /\ now - mem[Own(n)].seen > Idle => RowOf(n).status = "INACTIVE")

=============================================================================
