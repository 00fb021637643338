# A verification project for clicker-rp2040

clicker-rp2040 is a distributed click counter: boards (RP2040, FreeRTOS, C) count
presses of a button and hand them to a server (Python, one asyncio loop, SQLite)
over JSON-RPC/TCP. The server keeps the scores, orders the batches of each board
with a Lamport clock, limits their rate, signals milestones and tracks which
boards are present. The promises that matter are about batches: none counted
twice, none lost on the way, none applied out of order, under retries, lost
answers, restarts and database errors.

This directory holds TLA+ modules translated from the code under `src/`, the TLC
instances that check them, and TLAPS proofs. `PROJECT.json` maps every definition
to the lines it stands for, and lists runs, findings, hazards and theorems.

## The system

| Part | State | Operations | Talks to |
| --- | --- | --- | --- |
| GameManager, LamportClock (`server/domain`) | global and node scores, rate windows, power-ups, milestones done, caches of answers, stamps | `add_clicks`, `sync_offline`, `activate_powerup`, reconstruction at boot | registry and database, under an asyncio lock |
| NodeRegistry (`server/domain/node_registry.py`), sweep (`server/app/main.py`) | entries by identifier: status, last_seen | `register_node`, `heartbeat`, `load_from_db`, `update_status`, `mark_inactive` every 10 s | database; called by RPC and by the game |
| Database (`server/infra/db.py`) | tables nodes, milestones, events, lamport_violations | one connection and one commit per call | awaited by all of the above |
| RPC server (`server/infra/rpc_server.py`) | connections | read a line, dispatch, answer | boards |
| UDP answer, dashboard, debug server | clients | UDP answer, WebSocket events, HTTP | boards, browsers |
| task_rpc (`firmware/tasks/task_rpc.c`) | registered, failure counters, batch in flight | boot, WiFi, registration, sync, add, heartbeat, breaker, refresh | shared_state, RPC client |
| shared_state, lamport (`firmware/middleware`) | pending clicks, sync count, status, scores, flags; clock | take, restore, set, under a spinlock | button interrupt and three tasks |
| RPC client (`firmware/rpc_client.c`) | one socket, the server's address | 3 attempts of 2 tries with back-off, JSON text | server |
| Discovery (`firmware/discovery/service_disc.c`) | address and port of the last answer | broadcast, poll, callback in the network's task | task_rpc, any server |
| Button interrupt, task_buttons, buzzer (`middleware/button_handler.c`, `tasks/task_buttons.c`, `audio/buzzer.c`) | time of the last edge, previous count, alarms | debounce, poll every 20 ms, tone | shared_state |
| task_display, drivers of OLED and matrix (`tasks/task_display.c`, `drivers/display`) | locals of a frame, glow, rainbow phase; frame buffer, LED buffer | snapshot, take, draw, every 50 ms | shared_state |
| Start-up (`firmware/main.c`, `freertos_hooks.c`) | - | initialisations in order, creation of the tasks, halt | all of the board |

What is hard here: every `await` of a database call lets other requests of the
same and of other boards run; each database call has a connection of its own and
commits in any order with the others; a board that times out sends the same
request again while the first one still runs; both ends restart with empty
memory; the button interrupt comes between any two instructions of the RPC task;
a lost answer cannot be told from a lost request; an answer may arrive in pieces,
or after its call has given up; the display task has the lowest priority, so
everything it has read may have changed when it acts on it.

What makes each part correct:

* GameManager: totals agree with their parts at every await; a batch is counted
  once and answered consistently; batches of a board are applied in the order of
  its stamps; milestones are recorded once each; nobody waits for ever.
* NodeRegistry: who calls is not shown INACTIVE, who is silent is, in memory and
  in the rows; a sync does not stay SYNCING.
* task_rpc and shared_state: every press is waiting, in flight, handed over, or
  gone with a reboot; timestamps grow; the circuit opens and closes as described;
  seen from outside, clicks are delivered at least once.
* Discovery and RPC client: the server called is one that answered; a call ends,
  with an answer that belongs to it, read as it was meant; no socket is lost.
* Buttons: one press is one click and one beep, however the contacts bounce.
* Display: what is shown follows the state; a turbo lasts as long as it should; a
  milestone that is signalled is shown; both outputs can be read.

## Modules

| Module | Models | Abstract specification | Proofs |
| --- | --- | --- | --- |
| GameManager | `game_manager.py`, `lamport_clock.py`, with database and requests | | GameManagerProofs, ScoreProofs |
| NodeRegistry | `node_registry.py`, the sweep of `main.py`, rows | | NodeRegistryProofs |
| Firmware | `task_rpc.c`, `lamport.c`, click counting of `shared_state.c` | ClickDelivery | FirmwareProofs |
| RpcClient | `rpc_client.c`, `service_disc.c`, the stream of `rpc_server.py` | RpcCall | RpcClientProofs |
| Buttons | `main.c`, `button_handler.c`, `task_buttons.c`, `buzzer.c` | | ButtonsProofs |
| Feedback | `task_display.c` and the flags of `shared_state.c` under it | | FeedbackProofs |
| Screen | what `task_display.c` draws through `drivers/display` | | ScreenProofs |

The modules meet at the state they share in the code. Firmware and Feedback both
have the clicks, the status and the calls of task_rpc: Firmware with the outcome
of every call, Feedback with what the player can notice. Buttons has the same
clicks with real debounce and polling, and task_rpc reduced to take, hand over and
restore. A call, which RpcClient takes apart down to the socket, is one step with
its outcomes in Firmware: executed any number of times up to the attempts,
answered or not, which is what RpcCall promises. GameManager and NodeRegistry see
the board as requests, in any order, with copies.

### GameManager.tla

One step is the code between two suspension points of the loop. `pc[h]` names the
database call the handler `h` (a connection's running request) waits for; the
action that ends the wait commits the call and runs on to the next one:
`Receive`, `ReplayCached`, `BeginViolation`/`ViolationRecorded`, `ApplyAdd` or
`BeginSync` - `RegistryLoaded` - `StatusSaved` - `ApplySync`, then `ScoreSaved`,
`MilestoneSaved` once per milestone, `EventSaved`, `HeartbeatSaved`,
`RankingRead`, and the answer. `DatabaseFails` is the exception of any call in `Faults`,
answered with -32000; `Restart` empties memory and rebuilds the global score.
`RegisterNode` and `ActivatePowerup` take no lock.

Abstractions: a tick stands for the unit of `time.time()`; clicks, stamps and times are
naturals; the awaits of the dashboard's notifier are merged with the step before
them (they change nothing of this state and never raise); events and violations
are written, never read, so their content is left out; the presence of a node is
in NodeRegistry, of which only "has an entry" and the row's last_seen remain here.
`issued`, `applied`, `sent`, `bootScore` are history variables.

### NodeRegistry.tla

Presence. A key is a node with the form of its identifier: a number in RPC
calls, a text in `load_from_db`, since the column node_id is TEXT. `sweep` holds
the locals of `mark_inactive`: the time it read, the entries it listed (those that
were replaced since are in `old`) and the save it waits for. The keys are visited in any
order, which covers the order of the dictionary. The `get_node` of `update_status` for a node that
memory does not know, before and after the counting of a sync, is a wait of its own
(`RowGot`). A handler's database call ends
at the latest in the tick after the one it started in: SQLite waits at most
5 s for a locked file, and a tick stands for a minute at Idle = 1. `raised` is a
history variable: a database call has failed or a restart has cut one off.

### Firmware.tla and ClickDelivery.tla

One board. `rpc` is where task_rpc is: a blocking call or a point of its loop.
`Press` is the interrupt of button A, possible between any two steps. A call is
one step with all its attempts: it may be answered (`SyncAnswered`,
`AddAnswered`, `AddRefused`) or fail after the server counted it or not
(`Unanswered`, with `SyncFails`, `AddFails`). The server is what this board can tell of
it: `last`, the stamp it keeps, which other boards may move by up to `Jump`;
`counted`; `replies`, the cached answers. Timers (heartbeat 30 s, refresh 2 s,
registration back-off) may be due whenever the loop looks at them. The order of
the loop, the `continue` after a failed sync and the refresh after the
breaker's check are those of the code. `RegisterSucceeds` merges the setting of
registered, the take and the status: only task_rpc writes them, and a press
between them is the same as a press after.

ClickDelivery is what the board promises about clicks without calls, timers and
connection: a click waits on the board until the server takes it over or a reboot
forgets it, and an attempt nobody confirms may count and leaves the clicks
waiting. Firmware implements it with `waiting <- pending + batch`,
`handed <- settled`, `lost <- dropped`. At least once is all the code gives:
an answer that is lost makes the batch count again under a new stamp.

### RpcClient.tla and RpcCall.tla

Discovery, then calls. The UDP callback (`Announce`) may run between any two steps
of the discovery until `udp_remove`; address and port are copied in two steps, as
in the code. A call is `Begin`, then up to `Attempts` attempts of two tries each,
over a connection kept from call to call: `SocketAllocated`, `Connects` or
`ConnectFails`, `Sends`, `Receives`, or the failures after which the socket is
closed. `asked` and `inbox` are the two streams: requests with their call and kind, and
pieces of answers; the requests of a closed connection may still be executed (`stray`). An answer is the sequence of pieces one
`recv` may return, each with the words the parsers look for; `Receives` takes a
non-empty beginning of what has arrived, and a parser concludes from the words
found. `torn` says that a part was read and the rest is still on its way.

RpcCall: one call at a time; each ends; the server executes it at least once if it
succeeds, and at most twice per attempt whatever happens; an answer returned is
one to this call unless one was torn.

### Buttons.tla

Button A from the edge of its contact to the end of the beep. `BootOrder` is the
order of the initialisations in main.c: from "button_handler" on the interrupt is
armed. A press is an edge that comes when the contact has been quiet for the
debounce time, and any number of bounces after it. Time is discrete: `sinceA`
counts up to the debounce, `pollWait` and `alarms` count down.

### Feedback.tla

The firmware runs on one core (`configNUMBER_OF_CORES 1`) with fixed priorities:
interrupts, then task_buttons, task_rpc, task_display. So a poll of task_buttons
is one step, task_rpc is one step from a blocking call to the next, and task_display
may be interrupted by all of them between any two accesses to the shared state:
`Snapshot`, `FlashTaken`, `MilestoneTaken`, `TurboExpiry`, `GoldFlash`, `Draw`,
`Redraw`. `turboLeft` is turbo_until_ms as the time left to it.
Between two calls task_rpc is "idle" if the board is registered and "away" if not.
A registration is `RegisterStarts`, which shows CONNECTING and blocks, and
`Registered` or `RegisterFails`; `GoesOffline` is the breaker, with the refresh that
may follow it in the same turn and show ONLINE (`Refreshed`). The heartbeat and the
refresh of a registered board change nothing here and are no steps.

### Screen.tla

The pure part of the display: what a frame leaves on the panel and on the matrix,
whatever stood there before. The frame buffer is kept in cells of the font's size
(every text starts at a multiple of 8 pixels), a cell holding a numeral, the label
it is part of, or nothing. The matrix is the LED buffer in the order of the strip.
`Read`, `ColumnOf` and `Rainbow` are the references it is checked against: what a
reader makes of a line, where an LED of the strip sits, the circle of colours.

### Proof modules and MC modules

The proof modules EXTEND the module they are about; see below. The MC modules give
names to model values, declare symmetry (nodes and handlers are interchangeable,
no property orders them; liveness is checked without symmetry) and list the
inputs of RpcClient and Screen.

## Runs

Deadlock checking is off: arrivals, presses, time and faults are bounded, so an
instance may have nothing left to do. That no handler, task or call blocks is what
the liveness properties check.

| Run | Asks | Answer |
| --- | --- | --- |
| gm_core | two boards, two handlers, 4 requests with stamps to 2: scores, stamps, milestones, windows, power-up, idempotency of both calls | holds |
| gm_crash | one board, a restart at any await, every call but the saves of score and milestone may raise: do memory and rows agree between requests, and is every request answered (`Served`: no path leaves the lock taken) | holds |
| gm_restart_loses | are the scores kept over a restart | no: add_clicks starts from 0 and overwrites the row |
| nr_core | two boards, two handlers, the sweep, failing calls, a restart: live nodes stay active in memory, syncs end, silent nodes end INACTIVE in their rows | holds |
| nr_race | is a node whose row says INACTIVE silent | no: the sweep's save may be committed last; the row stays wrong until the next registration of the node, which a board repeats every 30 s |
| fw_core | a board with presses anywhere, lost answers, refusals, reboots, restarts: clicks, circuit, display of the sync, clock; is every click handed over once calls stop failing; does the board implement ClickDelivery | holds |
| fw_rejected | does what the rate limit left of an add_clicks batch come back | no: the branch of the board for it is dead |
| rc_core | discovery and two calls with every failure, late, torn and missing answers: target, sockets, parsers, end of every call; does the client implement RpcCall | holds |
| rc_milestone | is a milestone in an answer recognised | no: the server writes a space the board does not look for |
| btn_core | bounces, presses during the start, polls, alarms, batches that come back: one click and one whole beep per press, silence in the end | holds |
| fb_core | presses, polls, turbos, answers and failures between any two accesses of the display: milestone, turbo and total | holds |
| scr_core | every frame after every other, in every phase of the rainbow: panel and matrix show what the state says | holds |

Each "no" is a finding in `PROJECT.json` with the sentence of the documentation
or of the comment it contradicts.

Some properties say what is true, which is less than a reader might expect:

* `NoStuckSync`, `SilentIsMarked` hold while no database call has failed and no
  restart cut one off; the code repairs neither.
* `ParsedRight` and the part of `Promised` on answers hold while no answer was
  torn; the client reads once per call and keeps the connection. ParsedRight is about
  the verdict only, not about the milestone flag (rc_milestone) nor the values, and
  leaves out the answers to a rate limit: the documents give them the code
  RATE_EXCEEDED, the client hears a success (fw_rejected).
* `EveryPressCounts`: all edges of a press come within the debounce time of its first. The code
  looks at falling edges only, so the bounces of the release of a longer press, which
  the environment leaves out, may count once more.
* `BeepsWhole` holds for presses of the button; a batch that comes back from a
  failed call, or presses made before the tasks ran, may start a tone that an
  earlier alarm cuts.
* `TurboCutOnlyInFlight`: a turbo given between the snapshot and the expiry of the
  frame may be ended at once with the old one.
* `TurboEnds`: the display looks at the clock every 50 ms, so an expiry is never older
  than half the range of the 32-bit clock, where the signed difference would turn;
  `turboLeft` is that difference and stops at -1.
* `DisplayCatchesUp`: during a sync the total drops by the batch in flight. "ONLINE"
  is the status shown: a refresh after the breaker may show it on an unregistered
  board, whose waiting clicks are then left out of the total until its next attempt
  to register.
* `PanelReadable`: there is room for seven characters of a score, so two figures of
  seven, three of eight and nine, and four of ten are cut off (`Legible`).

### Divergences read in the code that have no run

Server:

* A failed `insert_milestone` leaves a crossed milestone without a row
  (`game_manager.py:194`), and after restarts a milestone may be inserted again
  (`game_manager.py:19`).
* An `add_clicks` whose `update_score` raises has counted and is retried
  (`game_manager.py:187`), and so has a sync that raises after its save
  (`:249-250`, `:331`): both count twice. This is why gm_crash and AddsCountOnce
  exclude that fault, as do the theorems below.
* `sync_offline` compares no timestamp (`game_manager.py:242`) and applies the rate
  limit (`:283`), which docs/game_rules.md:121,128 deny.
* After a sync `get_active_nodes` has the node twice (`node_registry.py:58`); a
  sweep whose save raises never tries that node again (`:93`), whose row then
  stays ACTIVE; after a restart silent nodes are never marked (`main.py:41`).
* `on_event` of manager and registry is the dashboard's `broadcast`, which takes one
  argument and is called with two (`main.py:77`): the exception is swallowed.

Board:

* A batch whose answer is lost is restored and sent again under a new stamp
  (`task_rpc.c:367`): it may count twice, where docs/shared-state.md:29 says that
  local and global score come to reflect what was really clicked.
* The refresh after the breaker's check shows ONLINE on an unregistered board
  (`task_rpc.c:437`); heartbeats and refusals do not reset the failure count (`:387`).
* `get_scores` answers a list that `parse_get_scores_response` reads as zeros
  (`rpc_client.c:564`): the first refresh shows 0.
* A `LAMPORT_VIOLATION` cut before its lamport_ts leaves the clock's new value
  uninitialised (`rpc_client.c:471`); `powerup_remaining_s` of an answer is never
  parsed, so `task_rpc.c:346` is dead; a power-up that is already active on
  the server, or a call for it that fails, starts 10 s of turbo on the board.
* A call that ends with TIMEOUT or with DISCONNECTED is told apart by an errno that
  may be left over from another call (`rpc_client.c:280-309`).
* The 8-bit count of failed registrations wraps (`task_rpc.c:295`).
* A press between two polls in which task_rpc took the batch gives neither flash nor
  beep (`task_buttons.c:45`).
* The font has letters and numerals only: the separator lines, the turbo bar and the
  commas are blank, and what would stand right of column 16 is dropped, among it the
  status sign `[%c]` (`task_display.c:149-152`) and the seconds of a turbo, which
  docs/FIRMWARE.md:53 and docs/matriz-leds.md:33 describe.

### Bounds

* gm: 2 boards and 2 handlers are the least with a race of two boards, of two
  copies of one request, and of an old and a new request of one board. 4
  arrivals allow an original, its retry and two others. Batches of 1 and 3 with
  Rate 1 per 2 ticks are below and above the allowance; milestones 2 and 3 are
  crossed one at a time or together. TTL 1 and MaxTime 2 let answers expire. In
  gm_crash one board suffices: its properties are per board, and what boards
  share is in gm_core. What the proofs establish with faults and restarts
  beyond these bounds is checked by TLC in gm_core only, but for DbMatchesMemory.
* nr: a node is overdue 2 ticks after its call at Idle 1, so 5 ticks are two rounds
  of silence, sweep and return; 3 calls are a registration and two that race. The
  calls of one handler and of the sweep may fail, those of the other do not, so a
  failure and a success race.
* fw: a counter limit of 2 with 3 presses saturates; 3 faults open the circuit
  (at 2) and leave one more for the registration after it; LamportMax is out of
  reach of the run, its reset is a hazard without a property so far.
* rc: 2 attempts instead of 3 have a first and a last one; 2 calls are the least in
  which a rest of one answer can meet the next call; two servers and one packet
  with a bad port overwrite each other.
* btn: the real constants in units of 5 ms: debounce 50 ms, poll 20 ms, beep 25 ms.
  3 presses and 2 failed calls make a second and third tone while an alarm is due.
* fb: a turbo of 1 tick is running, over at the instant, and over for longer; 3
  presses of the two buttons together make up to 3 turbos overlap, or 2 batches and
  a turbo; a glow of 2 ticks has a frame between; one failure or loss of the
  network, since the display keeps no memory of them.
* scr: the scores lie on both sides of every group of figures, three lose figures (two,
  three and four of them) and one is carried over a group by the pending clicks; every status and effect. The
  whole cycle of the rainbow's 256 phases is reached.

### Fairness

* gm_crash: strong fairness of each handler. asyncio resumes a task whose call
  has ended, and `asyncio.Lock` queues its waiters in order, so a handler that
  could enter again and again does enter.
* nr_core: weak fairness of each handler, the sweep and the clock: the loop runs ready
  tasks in order, the sweep sleeps 10 s, calls end within SQLite's timeout.
* fw_core: weak fairness of task_rpc, which FreeRTOS schedules whenever its call
  or its delay has ended. Presses, failures and reboots are not fair: they are
  bounded, and the property speaks of what happens after the last of them.
* rc_core: weak fairness of the client's own steps: every wait in it has a deadline
  (poll, select, SO_RCVTIMEO). The server and the network are not fair.
* btn_core: weak fairness of the start, of time and of the poll.
* fb_core: weak fairness of each task and of time. An attempt to register ends, but
  none need ever succeed (`RegisterFails` has no bound): the network may stay down,
  and what is shown must be right nonetheless.

## What is proved

For every value of the constants; the named assumptions (GameManagerAssumption,
RegistryAssumption, FirmwareAssumption, RpcClientAssumption, ButtonsAssumption,
FeedbackAssumption) only say that sizes and times are naturals, not 0 where
the code's constants are not, that the nodes are finitely many, and that an
announcement is an address with a port. ScreenAssumption says more: the scores and
their sums with the clicks that are drawn beside them fit 32 bits, so the wrap of
such a sum, which the code would show as a small number, is excluded.

Server:

* `TypeCorrect`: the server stays well typed; no score, allowance, stamp or
  window ever leaves the naturals.
* `StampsAreUnique`, `DeliveryIsCausal`. The inductive invariant is `StampInv` =
  TypeOK, `Mutex` (who is past the lock holds it, alone), `SentInOrder` (an
  answer's stamp is at most the node's and the server's clock, and beyond the
  request's), `PendingIsNewest` (a stamp taken and not yet answered is beyond
  all those sent) and UniqueStamps. UniqueStamps alone is not inductive: that the
  next answer has a new stamp needs the clock to be beyond all answers given, and
  that needs the clock's tick and the answer to be in one critical section.
* `AddsCountOnce`: if the save of the score never raises, add_clicks counts a
  batch once per run of the process. The step from the invariant: `CountedIsStale`,
  a batch that was counted is either still waiting for that save or below its node's
  clock, so a copy of it is refused even after its cached answer expired. The
  hypothesis cannot be dropped: a batch that failed there is counted again.
* `BoostHolds`: a power-up in force has its factor.
* `RepeatsAreAnsweredAlike`, with no hypothesis. Its invariant `AnswerInv`: every
  answer cached was sent, every answer sent within the TTL is cached with the time
  it was sent at, and a request past the cache's check has no young answer. The
  last part is what makes the check under the lock enough: while its handler
  waits for the database, nobody else can answer the same request.
* `SyncsCountOnce`. A sync has no stamp to be refused by, so `SyncInv` follows the
  batch instead: once counted it is too old, or its answer is cached under the time
  it was counted at, or its handler is still on the way to the answer.
* `RowsMatchMemory`: `RowInv` lets a row be behind only while its handler waits in
  the save, and `GlobalScoreIsSum` needs it: sync_offline goes on from the row, so
  the total stays the sum of its parts only if the row is the score in memory.
* `MilestonesAreExact`: `MilestoneInv` is about the loop over the milestones. Those
  done and those still to come are together the ones crossed since the boot, those to
  come are above those reached, and every one done but the last reached has its row.
* `WindowsFollowBatches`: between two requests a node's window starts at its last
  batch counted and at no other time. `WindowInv`: no batch was counted after now,
  nor after the time the handler that holds the lock has read; a node whose window
  is behind a batch is one whose sync is on its way to set it; and every window that
  was set, as every time a handler is about to set one to, is that of a batch of
  the node that was counted (`CountedFor`). The last part is what a refused or
  replayed batch that moved the window would break.

  The last five assume that some database calls never raise; each theorem names
  them. None can be left out: with any single one of them in `Faults`, TLC
  finds the property violated, which is the fault of the code listed under the
  divergences above (a batch counted and answered with an error).
* The first lemmas of GameManagerProofs have what the total needs: the sum of a function over a finite set does not
  depend on the order the fold takes, and changing one value changes it by as much.
  Induction over finite sets is out of reach as a rule, so each step is an
  argument about a smallest counterexample, by the well-foundedness of the strict
  subsets.
* `RegistryTypes`, `LiveStaysActive`: the registry's invariant is `RegistryInv` =
  `MemoryOK` (entries and rows are tables of `Entries`), `LockOK`, `JobsOK` (a
  waiting handler has a node, a past time and a status to write), `SweepOK` and
  LiveIsActive. LiveIsActive needs that the sweep started in the past and that it
  looks only at keys memory held then: an entry overdue at that time is overdue
  now, and an entry replaced since is marked in the sweep's copy only.
* `SyncsComplete`: while no database call has failed and no restart has cut one
  off, no sync leaves its node SYNCING. The strengthening is `SyncOK`: every
  entry or row that is SYNCING is owed by the handler that holds the lock, which
  has still to make it ACTIVE.

Board:

* `TypesHold`, `SyncingIsShown`, `ClicksAreConserved`, `RegisteredStaysOnline`,
  `CallsAreFresh`: the board's invariant is `BoardInv` = TypeOK, the first
  two safety properties, SyncingShown, `Unregistered` (which program points imply
  registered = FALSE) and `ClockFollows` (the clock is where the stamps sent and
  heard put it).
* `BoardDelivers`: Firmware implements ClickDelivery. Each step maps to a click, a
  hand-over, an attempt, a reboot or a stutter; the mapping needs BoardInv, for a
  batch is at most what the counter can keep and is 0 outside a call.
* `SocketsAreAccounted`: the client holds one socket if it is connected or
  connecting and none otherwise. `TargetAnswered`: the address and port taken over
  belong together. The strengthening follows the pair through the discovery: while
  the callback is registered, what it wrote was announced; from `udp_remove` on
  nobody writes it, so both halves are copied from one announcement.
* `PromiseKept`: RpcClient implements RpcCall but for the end of each call. The
  invariant is `CallInv` = the types of a call, `AskedOnce` (a call has at most one
  request on a connection, and a closed one is forgotten, so closing it leaves at
  most one stray request of the call), `Budget` (what was executed, is asked and is
  stray of a call is at most twice the attempts made), `Delivered` (an answer on its
  way was executed) and `Clean` (on a connection no answer of which was read in part
  there is nothing but the current request or its answer). Without Clean an answer
  could be that of the call before; torn answers break it, hence the exception.
* `AnswersAreUnderstood`: by the same invariant, an untorn result is read from a
  beginning of one answer; whatever its length, the parsers conclude from it the
  verdict the documents give that answer, or that it is not complete. Rate limits are
  excepted, and it says nothing of the values and of the milestone flag, as ParsedRight.
  `RpcTypes`.
* `ButtonTypes` (which no run checks), `PressesCount`, `BeepsAreWhole`. PressesCount needs that nothing is
  counted before shared_state is initialised, which is the order of BootOrder.
  BeepsAreWhole assumes BeepTime + PollPeriod <= Debounce (25 + 20 <= 50 ms in the
  code) and shows that at most one alarm is due: a tone starts at most a poll period
  after its press, so its alarm has fired when the next press can be polled.
* `FeedbackTypes`, `MilestoneIsKept`, `TurboCut`: a signalled milestone waits in the
  flag or in the locals of the frame; if no turbo was given since the snapshot, the
  frame's time left is the turbo's.
* `PanelIsReadable`, for every score of 32 bits. Without induction over data, a text is
  read place by place: `Takes(t, i, j, n, m)` says that reading places i to j turns the
  number n into m, and the readings chain. A number has at most ten figures and a line
  takes seven characters after its label, so every case is a chain of known length:
  one, two or three groups, the last of them whole or cut off. `PictureAt` brings it to
  the panel: a text drawn in its line leaves every other line alone. The attempt found the
  property as first stated to be wrong from ten million on, where more than two
  figures are cut off; the instance now has such scores.
* `MatrixShowsPanel`: `MatrixInv` says that a numeral in some right colour is on the
  matrix, whatever an alert or a click has painted over its centre. The colour may be
  of the phase of now or of the one before, since the blue flash redraws the numeral
  after the phase has gone on. `HueIsRainbow` is about the 8-bit arithmetic of
  wheel_color for each of the 256 phases, `NumeralDrawn` about the wiring.

Only model-checked: liveness (Served, SilentIsMarked, AllSettled, CallEnds and the
fairness part of Promised, BuzzerStops, TurboEnds, MilestoneShown, DisplayCatchesUp),
which this prover does not treat.

## What could follow

* A board and the server's cache in one module: a board's reboot and the reset of the
  32-bit clock against the answers of the last 5 minutes.
* The delays between registrations with their 8-bit counter.

## Not modelled

* Text, formatting and logs beyond what the panel shows; the pages of the dashboard
  and its events, on which nothing depends; the debug server and task_monitor,
  which read counters.
* Bus I/O of the drivers, and the primitives no task calls (pixels, lines, bitmaps,
  scrolling, panel configuration).
* `app_queues.c` and `game_events.c`: created at boot, used by no task.
* Of the server's dispatch, the checks of parameters: the boards only send well-formed
  requests. Of the RPC client, calls of the raw lwIP API outside its lock.
* Programs for manual tests; files that are not built or imported (`firmware.c`,
  `core1_display.c`, `panic_debug.c`, `legacy_dashboard.py`).

The components list in `PROJECT.json` has the reason for each.
