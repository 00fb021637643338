-------------------------- MODULE NodeRegistryProofs --------------------------
(***************************************************************************)
(* Proofs about the presence of the nodes, for every value of the constants *)
(* that RegistryAssumption allows.  RegistryInv is inductive and holds the  *)
(* types and LiveIsActive; SyncOK, on top of it, holds NoStuckSync.         *)
(***************************************************************************)
EXTENDS NodeRegistry, TLAPS

(* A table: a function from some of the elements of D to values in S.       *)
Table(f, D, S) ==
  /\ DOMAIN f \subseteq D /\ f = [k \in DOMAIN f |-> f[k]]
  /\ \A k \in DOMAIN f : f[k] \in S

MemoryOK ==
  /\ now \in Nat /\ now \in 1..MaxTime
  /\ Table(mem, Keys, Entries)
  /\ Table(row, Nodes, Entries)

LockOK == lock \subseteq Handlers /\ \A g, h \in lock : g = h

(* The waits of a sync before its heartbeat.                                *)
Synchronising == {"load", "get", "status", "count"}

(* A handler that waits names a node, the time of its call and a status it  *)
(* may write, and holds the lock if its call is a sync.                     *)
JobsOK ==
  /\ job = [h \in Handlers |-> job[h]]
  /\ \A h \in Handlers : job[h].pc # "idle" =>
       /\ job[h].node \in Nodes /\ job[h].seen \in 1..now
       /\ job[h].status \in {"ACTIVE", "SYNCING"}
       /\ job[h].pc \in {"upsert", "seen"} \cup Synchronising
       /\ job[h].pc \in Synchronising => h \in lock
       /\ job[h].pc = "upsert" => job[h].status = "ACTIVE"

(* The sweep started in the past; what it has still to look at is in memory *)
(* or was when it was replaced.                                             *)
SweepOK ==
  /\ sweep \in [pc : {"asleep", "looking", "saving"}, at : 0..now, queue : SUBSET Keys,
                old : {sweep.old}, node : Nodes \cup {"none"}, entry : Entries \cup {NoEntry}]
  /\ Table(sweep.old, Keys, Entries)
  /\ sweep.queue \subseteq DOMAIN mem
  /\ sweep.pc = "saving" => sweep.node \in Nodes /\ sweep.entry \in Entries

RegistryInv == MemoryOK /\ LockOK /\ JobsOK /\ SweepOK /\ LiveIsActive

-----------------------------------------------------------------------------
(* Putting or changing one value keeps a table one.                         *)
LEMMA TablePut ==
  ASSUME NEW f, NEW D, NEW S, Table(f, D, S), NEW k \in D, NEW v \in S
  PROVE  /\ Table(With(f, k, v), D, S)
         /\ DOMAIN With(f, k, v) = DOMAIN f \cup {k}
         /\ With(f, k, v)[k] = v
  BY DEF Table, With, Over

(* An entry changed in place.                                               *)
LEMMA TableChanged ==
  ASSUME NEW f, NEW D, NEW S, Table(f, D, S), NEW k \in DOMAIN f, NEW v \in S
  PROVE  /\ Table([f EXCEPT ![k] = v], D, S)
         /\ DOMAIN [f EXCEPT ![k] = v] = DOMAIN f
  BY DEF Table

(* A table may be read with larger values.                                  *)
LEMMA TableWidened ==
  ASSUME NEW f, NEW D, NEW S, NEW T, Table(f, D, S), S \subseteq T
  PROVE  Table(f, D, T)
  BY DEF Table

(* A node's own key is not the text of any node.                            *)
LEMMA OwnKeys ==
  /\ \A n \in Nodes : Own(n) \in Keys /\ <<n, "text">> \in Keys
  /\ \A n, m \in Nodes : Own(n) # <<m, "text">> /\ (Own(n) = Own(m) => n = m)
  BY DEF Own, Keys

(* Detaching entries from the sweep keeps its locals well formed.           *)
LEMMA ReplacedOK ==
  ASSUME MemoryOK, SweepOK, NEW keys, sweep' = Replaced(keys), now' = now,
         DOMAIN mem \subseteq DOMAIN mem'
  PROVE  SweepOK'
<1> DEFINE lost == (keys \cap sweep.queue \cap DOMAIN mem) \ DOMAIN sweep.old
           old == Over(sweep.old, [k \in lost |-> mem[k]])
<1>1. sweep' = [sweep EXCEPT !.old = old]
  BY DEF Replaced
<1>2. Table(old, Keys, Entries)
  BY DEF Table, SweepOK, MemoryOK, Over
<1> HIDE DEF old
<1>3. /\ sweep'.old = old /\ sweep'.queue = sweep.queue /\ sweep'.pc = sweep.pc
      /\ sweep'.node = sweep.node /\ sweep'.entry = sweep.entry /\ sweep'.at = sweep.at
      /\ sweep' = [pc |-> sweep.pc, at |-> sweep.at, queue |-> sweep.queue, old |-> old,
                   node |-> sweep.node, entry |-> sweep.entry]
  BY <1>1 DEF SweepOK
<1> QED BY <1>2, <1>3 DEF SweepOK, Entries

(* A handler that goes on to a database call.                               *)
LEMMA CallsOK ==
  ASSUME MemoryOK, JobsOK, now' = now, NEW h \in Handlers, NEW pc, NEW n \in Nodes, NEW seen \in 1..now,
         NEW status \in {"ACTIVE", "SYNCING"}, Calls(h, pc, n, seen, status),
         pc \in {"upsert", "seen"} \cup Synchronising, pc \in Synchronising => h \in lock',
         pc = "upsert" => status = "ACTIVE",
         \A g \in Handlers : g # h /\ g \in lock => g \in lock'
  PROVE  JobsOK'
<1>1. /\ job' = [g \in Handlers |-> job'[g]]
      /\ job'[h] = [pc |-> pc, node |-> n, seen |-> seen, status |-> status, since |-> now]
      /\ \A g \in Handlers : g # h => job'[g] = job[g]
  BY DEF Calls, JobsOK
<1> QED BY <1>1 DEF JobsOK, MemoryOK

(* A handler that ends.                                                     *)
LEMMA EndsOK ==
  ASSUME JobsOK, LockOK, now' = now, NEW h \in Handlers, Ends(h)
  PROVE  JobsOK' /\ LockOK'
<1>1. /\ job' = [g \in Handlers |-> job'[g]] /\ job'[h].pc = "idle"
      /\ \A g \in Handlers : g # h => job'[g] = job[g]
      /\ lock' = lock \ {h}
  BY DEF Ends, JobsOK, Resting
<1> QED BY <1>1 DEF JobsOK, LockOK

(* A sweep that is not disturbed.                                           *)
LEMMA SweepKept ==
  ASSUME SweepOK, now' = now, UNCHANGED sweep, DOMAIN mem \subseteq DOMAIN mem'
  PROVE  SweepOK'
  BY DEF SweepOK, Entries

-----------------------------------------------------------------------------
(* The server starts in the invariant.                                      *)
LEMMA InitRegistry == Init => RegistryInv
  BY RegistryAssumption DEF Init, RegistryInv, MemoryOK, LockOK, JobsOK, SweepOK, LiveIsActive, Table,
     Asleep, Resting, NoEntry, Entries

(* A registration.                                                          *)
LEMMA RegisterStep ==
  ASSUME RegistryInv, NEW h \in Handlers, NEW n \in Nodes, Register(h, n)
  PROVE  RegistryInv'
<1> DEFINE v == [status |-> "ACTIVE", seen |-> now]
<1>0. MemoryOK /\ SweepOK /\ JobsOK /\ LockOK /\ now' = now /\ UNCHANGED <<row, lock>>
  BY DEF RegistryInv, Register
<1>1. v \in Entries /\ Own(n) \in Keys /\ Table(mem, Keys, Entries)
  <2>1. now \in 1..now /\ Table(mem, Keys, Entries)
    BY <1>0 DEF MemoryOK
  <2> QED BY <2>1, OwnKeys DEF Entries
<1>2. mem' = With(mem, Own(n), v)
  BY DEF Register
<1>7. /\ Table(mem', Keys, Entries)
      /\ DOMAIN mem' = DOMAIN mem \cup {Own(n)} /\ mem'[Own(n)] = v
      /\ \A x \in DOMAIN mem : x # Own(n) => mem'[x] = mem[x]
  <2> DEFINE k == Own(n)
             D == Keys
             S == Entries
  <2>1. Table(mem, D, S) /\ k \in D /\ v \in S /\ mem' = With(mem, k, v)
    BY <1>1, <1>2
  <2> HIDE DEF k, D, S, v
  <2>2. Table(mem', D, S)
    BY <2>1, TablePut
  <2>3. DOMAIN mem' = DOMAIN mem \cup {k} /\ mem'[k] = v
    BY <2>1, TablePut
  <2>4. \A x \in DOMAIN mem : x # k => mem'[x] = mem[x]
    BY <2>1 DEF With, Over
  <2> QED BY <2>2, <2>3, <2>4 DEF k, D, S
<1>3. MemoryOK' /\ LockOK'
  BY <1>0, <1>7 DEF MemoryOK, Entries, LockOK
<1>4. SweepOK'
  BY <1>0, <1>7, ReplacedOK DEF Register
<1>5. JobsOK'
  <2>1. Calls(h, "upsert", n, now, "ACTIVE") /\ now \in 1..now
    BY <1>0 DEF Register, MemoryOK
  <2> QED BY <2>1, <1>0, CallsOK DEF Synchronising
<1>6. LiveIsActive'
  BY <1>0, <1>7, OwnKeys DEF LiveIsActive, RegistryInv
<1> QED BY <1>3, <1>4, <1>5, <1>6 DEF RegistryInv

(* A save that ends a handler: the upsert or the time last seen.            *)
LEMMA SavedStep ==
  ASSUME RegistryInv, NEW h \in Handlers, UpsertSaved(h) \/ SeenSaved(h)
  PROVE  RegistryInv'
<1>0. /\ MemoryOK /\ SweepOK /\ JobsOK /\ LockOK /\ LiveIsActive /\ UNCHANGED <<now, mem, sweep>>
      /\ Ends(h) /\ job[h].node \in Nodes /\ job[h].seen \in 1..now /\ job[h].status \in {"ACTIVE", "SYNCING"}
  BY DEF RegistryInv, UpsertSaved, SeenSaved, JobsOK
<1>1. Table(row', Nodes, Entries)
  <2>1. CASE UpsertSaved(h)
    <3>1. [status |-> job[h].status, seen |-> job[h].seen] \in Entries
      BY <1>0 DEF Entries
    <3> QED BY <2>1, <3>1, <1>0, TablePut DEF UpsertSaved, MemoryOK
  <2>2. CASE SeenSaved(h)
    BY <2>2, <1>0 DEF SeenSaved, MemoryOK, Entries, Table
  <2> QED BY <2>1, <2>2
<1>2. MemoryOK'
  BY <1>0, <1>1 DEF MemoryOK, Entries
<1>3. JobsOK' /\ LockOK' /\ SweepOK'
  BY <1>0, EndsOK, SweepKept
<1>4. LiveIsActive'
  BY <1>0 DEF LiveIsActive
<1> QED BY <1>2, <1>3, <1>4 DEF RegistryInv

(* A heartbeat changes its node's entry alone, and never to INACTIVE.       *)
LEMMA BeatsOK ==
  ASSUME MemoryOK, JobsOK, LiveIsActive, now' = now, NEW h \in Handlers, NEW n \in Nodes,
         Beats(h, n), \A g \in Handlers : g # h /\ g \in lock => g \in lock'
  PROVE  /\ Table(mem', Keys, Entries) /\ DOMAIN mem' = DOMAIN mem
         /\ JobsOK' /\ LiveIsActive'
<1> DEFINE e == [status |-> IF mem[Own(n)].status = "INACTIVE" THEN "ACTIVE" ELSE mem[Own(n)].status,
                 seen |-> now]
<1>1. mem' = [mem EXCEPT ![Own(n)] = e]
  BY DEF Beats
<1>2. Own(n) \in DOMAIN mem => e \in Entries /\ e.status # "INACTIVE"
  BY DEF MemoryOK, Entries, Table
<1> HIDE DEF e
<1>3. Table(mem', Keys, Entries) /\ DOMAIN mem' = DOMAIN mem
  BY <1>1, <1>2 DEF MemoryOK, Table
<1>4. LiveIsActive'
  <2> SUFFICES ASSUME NEW m \in Nodes, Own(m) \in DOMAIN mem', now' - mem'[Own(m)].seen <= Idle
               PROVE  mem'[Own(m)].status # "INACTIVE"
    BY DEF LiveIsActive
  <2>1. CASE m = n
    BY <2>1, <1>1, <1>2, <1>3
  <2>2. CASE m # n
    <3>1. mem'[Own(m)] = mem[Own(m)]
      BY <2>2, <1>1, <1>3, OwnKeys
    <3> QED BY <3>1, <1>3 DEF LiveIsActive
  <2> QED BY <2>1, <2>2
<1>5. JobsOK'
  <2> DEFINE pc == IF mem[Own(n)].status = "INACTIVE" THEN "upsert" ELSE "seen"
  <2>1. Calls(h, pc, n, now, "ACTIVE") /\ pc \in {"upsert", "seen"}
    BY DEF Beats
  <2> HIDE DEF pc
  <2>2. now \in 1..now
    BY DEF MemoryOK
  <2> QED BY <2>1, <2>2, CallsOK DEF Synchronising
<1> QED BY <1>3, <1>4, <1>5

(* The heartbeat of add_clicks.                                             *)
LEMMA HeartbeatStep ==
  ASSUME RegistryInv, NEW h \in Handlers, NEW n \in Nodes, Heartbeat(h, n)
  PROVE  RegistryInv'
<1>1. /\ MemoryOK /\ SweepOK /\ JobsOK /\ LockOK /\ LiveIsActive /\ UNCHANGED <<now, row, sweep>>
      /\ Beats(h, n) /\ lock = {} /\ lock' = {h}
  BY DEF RegistryInv, Heartbeat
<1>2. /\ Table(mem', Keys, Entries) /\ DOMAIN mem' = DOMAIN mem
      /\ JobsOK' /\ LiveIsActive'
  BY <1>1, BeatsOK
<1>3. MemoryOK'
  BY <1>1, <1>2 DEF MemoryOK, Entries
<1>4. LockOK' /\ SweepOK'
  BY <1>1, <1>2, SweepKept DEF LockOK
<1> QED BY <1>2, <1>3, <1>4 DEF RegistryInv

(* A sync takes the lock.                                                   *)
LEMMA SyncStartStep ==
  ASSUME RegistryInv, NEW h \in Handlers, NEW n \in Nodes, SyncStart(h, n)
  PROVE  RegistryInv'
<1>1. /\ MemoryOK /\ SweepOK /\ JobsOK /\ LockOK /\ LiveIsActive /\ UNCHANGED <<now, mem, row, sweep>>
      /\ Calls(h, "load", n, now, "SYNCING") /\ lock = {} /\ lock' = {h} /\ now \in 1..now
  BY DEF RegistryInv, SyncStart, MemoryOK
<1>2. MemoryOK' /\ LockOK' /\ LiveIsActive' /\ SweepOK'
  BY <1>1, SweepKept DEF MemoryOK, LockOK, LiveIsActive, Entries
<1>3. JobsOK'
  BY <1>1, CallsOK DEF Synchronising
<1> QED BY <1>2, <1>3 DEF RegistryInv

(* The files of load_from_db go to text keys; the own entry turns SYNCING.  *)
LEMMA RowsLoadedStep ==
  ASSUME RegistryInv, NEW h \in Handlers, RowsLoaded(h)
  PROVE  RegistryInv'
<1> DEFINE n == job[h].node
           files == [k \in {<<m, "text">> : m \in DOMAIN row} |-> row[k[1]]]
           loaded == Over(files, mem)
<1>1. /\ MemoryOK /\ SweepOK /\ JobsOK /\ LockOK /\ LiveIsActive /\ UNCHANGED <<now, row, lock>>
      /\ n \in Nodes /\ h \in lock /\ now \in 1..now
      /\ sweep' = Replaced(DOMAIN files)
      /\ IF Own(n) \in DOMAIN mem
         THEN mem' = [loaded EXCEPT ![Own(n)].status = "SYNCING"] /\ Calls(h, "status", n, now, "SYNCING")
         ELSE mem' = loaded /\ Calls(h, "get", n, now, "SYNCING")
  BY DEF RegistryInv, RowsLoaded, JobsOK, MemoryOK, Synchronising
<1>2. /\ DOMAIN files = {<<m, "text">> : m \in DOMAIN row}
      /\ \A m \in Nodes : Own(m) \notin DOMAIN files
      /\ Table(files, Keys, Entries)
  <2>1. DOMAIN row \subseteq Nodes /\ \A m \in DOMAIN row : row[m] \in Entries
    BY <1>1 DEF MemoryOK, Table
  <2>2. DOMAIN files = {<<m, "text">> : m \in DOMAIN row} /\ files = [k \in DOMAIN files |-> files[k]]
    OBVIOUS
  <2>3. \A m \in Nodes : Own(m) \notin DOMAIN files
    BY <2>1, <2>2, OwnKeys
  <2>4. \A k \in DOMAIN files : k \in Keys /\ k[1] \in DOMAIN row /\ files[k] = row[k[1]]
    BY <2>1, <2>2 DEF Keys
  <2>5. Table(files, Keys, Entries)
    BY <2>1, <2>2, <2>4 DEF Table
  <2> QED BY <2>2, <2>3, <2>5
<1> HIDE DEF files
<1>3. /\ DOMAIN loaded = DOMAIN files \cup DOMAIN mem
      /\ Table(loaded, Keys, Entries)
      /\ \A m \in Nodes : Own(m) \in DOMAIN loaded <=> Own(m) \in DOMAIN mem
      /\ \A m \in Nodes : Own(m) \in DOMAIN mem => loaded[Own(m)] = mem[Own(m)]
  BY <1>1, <1>2 DEF MemoryOK, Table, Over
<1> HIDE DEF loaded
<1>4. /\ Table(mem', Keys, Entries) /\ DOMAIN mem' = DOMAIN loaded
      /\ \A m \in Nodes : Own(m) \in DOMAIN mem =>
           mem'[Own(m)] = mem[Own(m)] \/ mem'[Own(m)] = [mem[Own(m)] EXCEPT !.status = "SYNCING"]
  <2>1. CASE Own(n) \in DOMAIN mem
    <3>1. [loaded[Own(n)] EXCEPT !.status = "SYNCING"] \in Entries
      BY <2>1, <1>1, <1>3 DEF Entries, Table, MemoryOK
    <3>2. mem' = [loaded EXCEPT ![Own(n)] = [loaded[Own(n)] EXCEPT !.status = "SYNCING"]]
      BY <2>1, <1>1
    <3> QED BY <2>1, <3>1, <3>2, <1>1, <1>3, OwnKeys DEF Table
  <2>2. CASE Own(n) \notin DOMAIN mem
    BY <2>2, <1>1, <1>3
  <2> QED BY <2>1, <2>2
<1>5. MemoryOK' /\ LockOK'
  BY <1>1, <1>4 DEF MemoryOK, LockOK, Entries
<1>6. SweepOK'
  BY <1>1, <1>3, <1>4, ReplacedOK
<1>7. JobsOK'
  BY <1>1, CallsOK DEF Synchronising
<1>8. LiveIsActive'
  <2> SUFFICES ASSUME NEW m \in Nodes, Own(m) \in DOMAIN mem', now' - mem'[Own(m)].seen <= Idle
               PROVE  mem'[Own(m)].status # "INACTIVE"
    BY DEF LiveIsActive
  <2>1. Own(m) \in DOMAIN mem /\ mem[Own(m)] \in Entries
    BY <1>1, <1>3, <1>4 DEF MemoryOK, Table
  <2> QED BY <2>1, <1>1, <1>4 DEF LiveIsActive, Entries
<1> QED BY <1>5, <1>6, <1>7, <1>8 DEF RegistryInv

(* update_status of a node that memory has forgotten.                       *)
LEMMA RowGotStep ==
  ASSUME RegistryInv, NEW h \in Handlers, RowGot(h)
  PROVE  RegistryInv'
<1> DEFINE n == job[h].node
           status == job[h].status
           v == [RowOf(n) EXCEPT !.status = status]
<1>1. /\ MemoryOK /\ SweepOK /\ JobsOK /\ LockOK /\ LiveIsActive /\ UNCHANGED <<now, row>>
      /\ n \in Nodes /\ status \in {"ACTIVE", "SYNCING"} /\ h \in lock /\ now \in 1..now /\ Own(n) \in Keys
  <2>1. /\ job[h].pc = "get" /\ UNCHANGED <<now, row>>
    BY DEF RowGot
  <2>2. n \in Nodes /\ status \in {"ACTIVE", "SYNCING"} /\ h \in lock
    BY <2>1 DEF RegistryInv, JobsOK, Synchronising
  <2>3. now \in 1..now
    BY DEF RegistryInv, MemoryOK
  <2>4. Own(n) \in Keys
    BY <2>2 DEF Own, Keys
  <2> QED BY <2>1, <2>2, <2>3, <2>4 DEF RegistryInv
<1>2. CASE Known(n)
  <2>1. /\ mem' = With(mem, Own(n), v) /\ sweep' = Replaced({Own(n)}) /\ UNCHANGED lock
        /\ Calls(h, "status", n, now, status)
    BY <1>2 DEF RowGot
  <2>2. v \in Entries /\ v.status # "INACTIVE"
    BY <1>1, <1>2 DEF Known, RowOf, MemoryOK, Table, Entries
  <2> HIDE DEF v
  <2>3. /\ Table(mem', Keys, Entries)
        /\ DOMAIN mem' = DOMAIN mem \cup {Own(n)} /\ mem'[Own(n)] = v
    <3> DEFINE k == Own(n)
               D == Keys
               S == Entries
    <3>1. Table(mem, D, S) /\ k \in D /\ v \in S /\ mem' = With(mem, k, v)
      BY <2>1, <2>2, <1>1 DEF MemoryOK
    <3> HIDE DEF k, D, S
    <3>2. Table(mem', D, S)
      BY <3>1, TablePut
    <3>3. DOMAIN mem' = DOMAIN mem \cup {k} /\ mem'[k] = v
      BY <3>1, TablePut
    <3> QED BY <3>2, <3>3 DEF k, D, S
  <2>4. \A x \in DOMAIN mem : x # Own(n) => mem'[x] = mem[x]
    BY <2>1 DEF With, Over
  <2>5. MemoryOK' /\ LockOK'
    BY <1>1, <2>1, <2>3 DEF MemoryOK, LockOK, Entries
  <2>6. SweepOK'
    BY <1>1, <2>1, <2>3, ReplacedOK
  <2>7. JobsOK'
    BY <1>1, <2>1, CallsOK DEF Synchronising
  <2>8. LiveIsActive'
    BY <1>1, <2>2, <2>3, <2>4, OwnKeys DEF LiveIsActive
  <2> QED BY <2>5, <2>6, <2>7, <2>8 DEF RegistryInv
<1>3. CASE ~Known(n) /\ status = "SYNCING"
  <2>1. Calls(h, "count", n, now, status) /\ UNCHANGED <<mem, sweep, lock>>
    BY <1>3 DEF RowGot
  <2>2. MemoryOK' /\ LockOK' /\ LiveIsActive' /\ SweepOK'
    BY <1>1, <2>1, SweepKept DEF MemoryOK, LockOK, LiveIsActive, Entries
  <2>3. JobsOK'
    BY <1>1, <2>1, CallsOK DEF Synchronising
  <2> QED BY <2>2, <2>3 DEF RegistryInv
<1>4. CASE ~Known(n) /\ status = "ACTIVE" /\ Own(n) \in DOMAIN mem
  <2>1. Beats(h, n) /\ UNCHANGED <<sweep, lock>>
    BY <1>4 DEF RowGot, LastBeat
  <2>2. Table(mem', Keys, Entries) /\ DOMAIN mem' = DOMAIN mem /\ JobsOK' /\ LiveIsActive'
    BY <1>1, <2>1, BeatsOK
  <2>3. MemoryOK' /\ LockOK' /\ SweepOK'
    BY <1>1, <2>1, <2>2, SweepKept DEF MemoryOK, LockOK, Entries
  <2> QED BY <2>2, <2>3 DEF RegistryInv
<1>5. CASE ~Known(n) /\ status = "ACTIVE" /\ Own(n) \notin DOMAIN mem
  <2>1. Ends(h) /\ UNCHANGED <<mem, sweep>>
    BY <1>5 DEF RowGot, LastBeat
  <2>2. MemoryOK' /\ LiveIsActive' /\ SweepOK'
    BY <1>1, <2>1, SweepKept DEF MemoryOK, LiveIsActive, Entries
  <2>3. JobsOK' /\ LockOK'
    BY <1>1, <2>1, EndsOK
  <2> QED BY <2>2, <2>3 DEF RegistryInv
<1> QED BY <1>1, <1>2, <1>3, <1>4, <1>5

(* The status of the row: SYNCING before the counting, ACTIVE after it.     *)
LEMMA StatusSavedStep ==
  ASSUME RegistryInv, NEW h \in Handlers, StatusSaved(h)
  PROVE  RegistryInv'
<1> DEFINE n == job[h].node
<1>1. /\ MemoryOK /\ SweepOK /\ JobsOK /\ LockOK /\ LiveIsActive /\ UNCHANGED <<now, lock, sweep>>
      /\ n \in Nodes /\ h \in lock /\ job[h].status \in {"ACTIVE", "SYNCING"} /\ now \in 1..now
      /\ row' = IF n \in DOMAIN row THEN [row EXCEPT ![n].status = job[h].status] ELSE row
      /\ IF job[h].status = "SYNCING"
         THEN Calls(h, "count", n, now, "SYNCING") /\ UNCHANGED mem
         ELSE Beats(h, n)
  BY DEF RegistryInv, StatusSaved, JobsOK, MemoryOK, Synchronising
<1>2. Table(row', Nodes, Entries)
  BY <1>1 DEF MemoryOK, Table, Entries
<1>3. /\ Table(mem', Keys, Entries) /\ DOMAIN mem' = DOMAIN mem
      /\ JobsOK' /\ LiveIsActive'
  <2>1. CASE job[h].status = "SYNCING"
    <3>1. Calls(h, "count", n, now, "SYNCING") /\ UNCHANGED mem
      BY <2>1, <1>1
    <3>2. JobsOK'
      BY <1>1, <3>1, CallsOK DEF Synchronising
    <3> QED BY <1>1, <3>1, <3>2 DEF MemoryOK, LiveIsActive
  <2>2. CASE job[h].status # "SYNCING"
    BY <2>2, <1>1, BeatsOK
  <2> QED BY <2>1, <2>2
<1>4. MemoryOK' /\ LockOK'
  BY <1>1, <1>2, <1>3 DEF MemoryOK, LockOK, Entries
<1>5. SweepOK'
  BY <1>1, <1>3, SweepKept
<1> QED BY <1>3, <1>4, <1>5 DEF RegistryInv

(* The clicks are counted.                                                  *)
LEMMA CountedStep ==
  ASSUME RegistryInv, NEW h \in Handlers, Counted(h)
  PROVE  RegistryInv'
<1> DEFINE n == job[h].node
<1>1. /\ MemoryOK /\ SweepOK /\ JobsOK /\ LockOK /\ LiveIsActive /\ UNCHANGED <<now, row, lock, sweep>>
      /\ n \in Nodes /\ h \in lock /\ now \in 1..now
      /\ IF Own(n) \in DOMAIN mem
         THEN /\ mem' = [mem EXCEPT ![Own(n)].status = "ACTIVE"]
              /\ Calls(h, "status", n, now, "ACTIVE")
         ELSE Calls(h, "get", n, now, "ACTIVE") /\ UNCHANGED mem
  BY DEF RegistryInv, Counted, JobsOK, MemoryOK, Synchronising, Synced
<1>2. CASE Own(n) \in DOMAIN mem
  <2>1. mem' = [mem EXCEPT ![Own(n)].status = "ACTIVE"] /\ Calls(h, "status", n, now, "ACTIVE")
    BY <1>1, <1>2
  <2>2. Table(mem', Keys, Entries) /\ DOMAIN mem' = DOMAIN mem
    BY <1>1, <2>1 DEF MemoryOK, Table, Entries
  <2>3. MemoryOK' /\ LockOK'
    BY <1>1, <2>1, <2>2 DEF MemoryOK, LockOK, Entries
  <2>4. JobsOK'
    BY <1>1, <2>1, CallsOK DEF Synchronising
  <2>5. LiveIsActive'
    <3>1. mem[Own(n)] \in Entries
      BY <1>1, <1>2 DEF MemoryOK, Table
    <3> QED BY <3>1, <1>1, <1>2, <2>1, <2>2, OwnKeys DEF LiveIsActive, Entries
  <2>6. SweepOK'
    BY <1>1, <2>2, SweepKept
  <2> QED BY <2>3, <2>4, <2>5, <2>6 DEF RegistryInv
<1>3. CASE Own(n) \notin DOMAIN mem
  <2>1. MemoryOK' /\ LockOK' /\ LiveIsActive' /\ SweepOK'
    BY <1>1, <1>3, SweepKept DEF MemoryOK, LockOK, LiveIsActive, Entries
  <2>2. JobsOK'
    BY <1>1, <1>3, CallsOK DEF Synchronising
  <2> QED BY <2>1, <2>2 DEF RegistryInv
<1> QED BY <1>2, <1>3

(* A database call of a handler raises.                                     *)
LEMMA DatabaseFailsStep ==
  ASSUME RegistryInv, NEW h \in Handlers, DatabaseFails(h)
  PROVE  RegistryInv'
<1>1. /\ MemoryOK /\ SweepOK /\ JobsOK /\ LockOK /\ LiveIsActive
      /\ UNCHANGED <<now, mem, row, sweep>> /\ Ends(h)
  BY DEF RegistryInv, DatabaseFails
<1>2. MemoryOK' /\ LiveIsActive' /\ SweepOK'
  BY <1>1, SweepKept DEF MemoryOK, LiveIsActive, Entries
<1>3. JobsOK' /\ LockOK'
  BY <1>1, EndsOK
<1> QED BY <1>2, <1>3 DEF RegistryInv

-----------------------------------------------------------------------------
(* The sweep marks an entry overdue at the time it started: it is overdue   *)
(* now, and nobody has touched it since, or the sweep would mark the entry  *)
(* that was replaced.                                                       *)
LEMMA SweepMarksStep ==
  ASSUME RegistryInv, NEW k \in sweep.queue, SweepMarks(k)
  PROVE  RegistryInv'
<1>1. /\ MemoryOK /\ SweepOK /\ JobsOK /\ LockOK /\ LiveIsActive /\ UNCHANGED <<now, row, job, lock>>
      /\ Overdue(Swept(k)) /\ k \in DOMAIN mem /\ k \in Keys
      /\ sweep' = [sweep EXCEPT !.pc = "saving", !.queue = @ \ {k},
                                !.node = k[1], !.entry = Swept(k)]
      /\ IF k \in DOMAIN sweep.old THEN UNCHANGED mem ELSE mem' = [mem EXCEPT ![k].status = "INACTIVE"]
  BY DEF RegistryInv, SweepMarks, SweepOK
<1>2. Swept(k) \in Entries /\ k[1] \in Nodes
  BY <1>1 DEF Swept, MemoryOK, SweepOK, Table, Keys
<1>3. Table(mem', Keys, Entries) /\ DOMAIN mem' = DOMAIN mem
  BY <1>1 DEF MemoryOK, Table, Entries
<1>4. MemoryOK' /\ LockOK' /\ JobsOK'
  BY <1>1, <1>3 DEF MemoryOK, LockOK, JobsOK, Entries
<1>5. SweepOK'
  <2>1. /\ sweep'.pc = "saving" /\ sweep'.at = sweep.at /\ sweep'.queue = sweep.queue \ {k}
        /\ sweep'.old = sweep.old /\ sweep'.node = k[1] /\ sweep'.entry = Swept(k)
        /\ sweep' = [pc |-> "saving", at |-> sweep.at, queue |-> sweep.queue \ {k}, old |-> sweep.old,
                     node |-> k[1], entry |-> Swept(k)]
    BY <1>1 DEF SweepOK
  <2> QED BY <2>1, <1>1, <1>2, <1>3 DEF SweepOK, Entries
<1>6. LiveIsActive'
  <2> SUFFICES ASSUME NEW n \in Nodes, Own(n) \in DOMAIN mem', now' - mem'[Own(n)].seen <= Idle
               PROVE  mem'[Own(n)].status # "INACTIVE"
    BY DEF LiveIsActive
  <2>1. CASE Own(n) = k /\ k \notin DOMAIN sweep.old
    <3>1. mem[k] \in Entries /\ mem'[k].seen = mem[k].seen /\ sweep.at \in 0..now
      BY <2>1, <1>1 DEF MemoryOK, SweepOK, Table, Entries
    <3>2. sweep.at - mem[k].seen > Idle
      BY <2>1, <1>1 DEF Overdue, Swept
    <3>3. FALSE
      BY <2>1, <3>1, <3>2, <1>1, RegistryAssumption DEF Entries, MemoryOK
    <3> QED BY <3>3
  <2>2. CASE Own(n) # k \/ k \in DOMAIN sweep.old
    <3>1. mem'[Own(n)] = mem[Own(n)]
      BY <2>2, <1>1, <1>3
    <3> QED BY <3>1, <1>1, <1>3 DEF LiveIsActive
  <2> QED BY <2>1, <2>2
<1> QED BY <1>4, <1>5, <1>6 DEF RegistryInv

(* The other steps of the sweep leave memory alone.                         *)
LEMMA SweepOtherStep ==
  ASSUME RegistryInv, SweepStarts \/ SweepSaved \/ SweepEnds \/ SweepFails
  PROVE  RegistryInv'
<1>1. /\ MemoryOK /\ SweepOK /\ JobsOK /\ LockOK /\ LiveIsActive /\ UNCHANGED <<now, mem, job, lock>>
  BY DEF RegistryInv, SweepStarts, SweepSaved, SweepEnds, SweepFails
<1>2. Table(row', Nodes, Entries)
  <2>1. CASE SweepSaved
    <3>1. /\ sweep.node \in Nodes /\ SweptRow(sweep.entry) \in Entries
          /\ row' = With(row, sweep.node, SweptRow(sweep.entry))
      BY <2>1, <1>1 DEF SweepSaved, SweepOK, SweptRow, Entries
    <3>2. Table(row, Nodes, Entries)
      BY <1>1 DEF MemoryOK
    <3> QED BY <3>1, <3>2, TablePut
  <2>2. CASE ~SweepSaved
    BY <2>2, <1>1 DEF SweepStarts, SweepEnds, SweepFails, MemoryOK
  <2> QED BY <2>1, <2>2
<1>3. MemoryOK' /\ LockOK' /\ JobsOK' /\ LiveIsActive'
  BY <1>1, <1>2 DEF MemoryOK, LockOK, JobsOK, LiveIsActive, Entries
<1>4. SweepOK'
  <2>1. CASE SweepStarts
    <3>1. /\ sweep' = [pc |-> "looking", at |-> now, queue |-> DOMAIN mem, old |-> <<>>,
                       node |-> "none", entry |-> NoEntry]
      BY <2>1 DEF SweepStarts, Asleep
    <3>2. DOMAIN mem \subseteq Keys /\ now \in 0..now
      BY <1>1 DEF MemoryOK, Table
    <3> QED BY <3>1, <3>2, <1>1 DEF SweepOK, Table
  <2>2. CASE SweepSaved
    <3>1. /\ sweep' = [pc |-> "looking", at |-> sweep.at, queue |-> sweep.queue, old |-> sweep.old,
                       node |-> sweep.node, entry |-> sweep.entry]
      BY <2>2, <1>1 DEF SweepSaved, SweepOK
    <3> QED BY <3>1, <1>1 DEF SweepOK, Entries
  <2>3. CASE SweepEnds \/ SweepFails
    <3>1. sweep' = Asleep
      BY <2>3 DEF SweepEnds, SweepFails
    <3> QED BY <3>1, <1>1 DEF SweepOK, Asleep, Table, MemoryOK
  <2> QED BY <2>1, <2>2, <2>3
<1> QED BY <1>3, <1>4 DEF RegistryInv

(* A restart forgets everything but the rows.                               *)
LEMMA RestartStep ==
  ASSUME RegistryInv, Restart
  PROVE  RegistryInv'
<1>1. MemoryOK' /\ LockOK' /\ JobsOK' /\ LiveIsActive'
  BY DEF RegistryInv, Restart, MemoryOK, LockOK, JobsOK, LiveIsActive, Table, Resting, Entries
<1>2. SweepOK'
  BY DEF RegistryInv, Restart, MemoryOK, SweepOK, Table, Asleep
<1> QED BY <1>1, <1>2 DEF RegistryInv

(* Time passes: what was received stays in the past.                        *)
LEMMA TimeStep ==
  ASSUME RegistryInv, TimePasses
  PROVE  RegistryInv'
<1>1. /\ MemoryOK /\ SweepOK /\ JobsOK /\ LockOK /\ LiveIsActive
      /\ UNCHANGED <<mem, row, job, lock, sweep>> /\ now' = now + 1 /\ now < MaxTime /\ now \in Nat
  BY DEF RegistryInv, TimePasses, MemoryOK
<1>2. Entries \subseteq Entries'
  BY <1>1 DEF Entries
<1>3. MemoryOK'
  BY <1>1, <1>2, RegistryAssumption DEF MemoryOK, Table
<1>4. LockOK' /\ JobsOK'
  BY <1>1 DEF LockOK, JobsOK
<1>5. SweepOK'
  BY <1>1, <1>2 DEF SweepOK, Table
<1>6. LiveIsActive'
  <2> SUFFICES ASSUME NEW n \in Nodes, Own(n) \in DOMAIN mem', now' - mem'[Own(n)].seen <= Idle
               PROVE  mem'[Own(n)].status # "INACTIVE"
    BY DEF LiveIsActive
  <2>1. mem[Own(n)].seen \in Nat
    BY <1>1 DEF MemoryOK, Table, Entries
  <2> QED BY <2>1, <1>1, RegistryAssumption DEF LiveIsActive
<1> QED BY <1>3, <1>4, <1>5, <1>6 DEF RegistryInv

(* Every step keeps the invariant.                                          *)
LEMMA RegistryStep == RegistryInv /\ [Next]_vars => RegistryInv'
<1> SUFFICES ASSUME RegistryInv, [Next]_vars PROVE RegistryInv'
  OBVIOUS
<1>1. ASSUME NEW h \in Handlers, NEW n \in Nodes, Register(h, n) \/ Heartbeat(h, n) \/ SyncStart(h, n)
      PROVE  RegistryInv'
  BY <1>1, RegisterStep, HeartbeatStep, SyncStartStep
<1>2. ASSUME NEW h \in Handlers, HandlerStep(h) PROVE RegistryInv'
  BY <1>2, SavedStep, RowsLoadedStep, RowGotStep, StatusSavedStep, CountedStep, DatabaseFailsStep
  DEF HandlerStep
<1>3. CASE SweepStep
  BY <1>3, SweepMarksStep, SweepOtherStep DEF SweepStep
<1>4. CASE UNCHANGED vars
  BY <1>4 DEF vars, RegistryInv, MemoryOK, LockOK, JobsOK, SweepOK, LiveIsActive, Table, Entries
<1> QED BY <1>1, <1>2, <1>3, <1>4, RestartStep, TimeStep DEF Next

(* The invariant holds of every reachable state.                            *)
LEMMA RegistryInvariant == Spec => []RegistryInv
  BY InitRegistry, RegistryStep, PTL DEF Spec

(* Entries and rows are always well formed, and hold the time of a call     *)
(* really received: TypeOK holds in every reachable state.                  *)
THEOREM RegistryTypes == Spec => []TypeOK
<1>1. RegistryInv => TypeOK
  BY DEF RegistryInv, MemoryOK, LockOK, SweepOK, Table, TypeOK
<1> QED BY <1>1, RegistryInvariant, PTL

(* A sweep never makes inactive in memory a node that has called within the *)
(* idle time (node_registry.py:91), however its steps fall between those of *)
(* the calls, whatever fails and however often the server restarts.         *)
THEOREM LiveStaysActive == Spec => []LiveIsActive
<1>1. RegistryInv => LiveIsActive
  BY DEF RegistryInv
<1> QED BY <1>1, RegistryInvariant, PTL

-----------------------------------------------------------------------------
(* Syncs.  A status SYNCING is always the work of the handler that holds    *)
(* the lock, and that handler has still to replace it.                      *)

(* h has yet to make ACTIVE the entry of k, or the row of n.                *)
OwesEntry(h, k) ==
  /\ k = Own(job[h].node)
  /\ job[h].pc = "count" \/ (job[h].pc = "status" /\ job[h].status = "SYNCING")

OwesRow(h, n) ==
  /\ job[h].node = n /\ Own(n) \in DOMAIN mem
  /\ job[h].pc = "count" \/ (job[h].pc = "status" /\ job[h].status = "ACTIVE")

SyncOK ==
  /\ \A h \in Handlers : job[h].pc = "status" => Own(job[h].node) \in DOMAIN mem
  /\ \A k \in DOMAIN mem : mem[k].status = "SYNCING" => \E h \in lock : OwesEntry(h, k)
  /\ \A n \in DOMAIN row : row[n].status = "SYNCING" => \E h \in lock : OwesRow(h, n)

(* A step that disturbs no sync and makes nothing SYNCING.                  *)
LEMMA SyncKept ==
  ASSUME SyncOK, LockOK,
         \A g \in Handlers : job[g].pc \in {"status", "count"} =>
           job'[g] = job[g] /\ (g \in lock => g \in lock'),
         \A g \in Handlers : job'[g].pc = "status" => job'[g] = job[g],
         DOMAIN mem \subseteq DOMAIN mem',
         \A k \in DOMAIN mem' : mem'[k].status = "SYNCING" => k \in DOMAIN mem /\ mem[k].status = "SYNCING",
         \A n \in DOMAIN row' : row'[n].status = "SYNCING" => n \in DOMAIN row /\ row[n].status = "SYNCING"
  PROVE  SyncOK'
<1>1. \A h \in Handlers : job'[h].pc = "status" => Own(job'[h].node) \in DOMAIN mem'
  BY DEF SyncOK
<1>2. ASSUME NEW k \in DOMAIN mem', mem'[k].status = "SYNCING"
      PROVE  \E h \in lock' : OwesEntry(h, k)'
  <2>1. PICK h \in lock : OwesEntry(h, k)
    BY <1>2 DEF SyncOK
  <2>2. h \in lock' /\ job'[h] = job[h]
    BY <2>1 DEF OwesEntry, LockOK
  <2> QED BY <2>1, <2>2 DEF OwesEntry
<1>3. ASSUME NEW n \in DOMAIN row', row'[n].status = "SYNCING"
      PROVE  \E h \in lock' : OwesRow(h, n)'
  <2>1. PICK h \in lock : OwesRow(h, n)
    BY <1>3 DEF SyncOK
  <2>2. h \in lock' /\ job'[h] = job[h]
    BY <2>1 DEF OwesRow, LockOK
  <2> QED BY <2>1, <2>2 DEF OwesRow
<1> QED BY <1>1, <1>2, <1>3 DEF SyncOK

(* While h holds the lock, only h owes anything.                            *)
LEMMA OnlyHolder ==
  ASSUME SyncOK, LockOK, NEW h \in lock
  PROVE  /\ \A k \in DOMAIN mem : mem[k].status = "SYNCING" => OwesEntry(h, k)
         /\ \A n \in DOMAIN row : row[n].status = "SYNCING" => OwesRow(h, n)
  BY DEF SyncOK, LockOK

(* What a handler waits for after Calls.                                    *)
LEMMA AfterCalls ==
  ASSUME JobsOK, NEW h \in Handlers, NEW pc, NEW n, NEW seen, NEW status, Calls(h, pc, n, seen, status)
  PROVE  /\ job'[h].pc = pc /\ job'[h].node = n /\ job'[h].status = status
         /\ \A g \in Handlers : g # h => job'[g] = job[g]
  BY DEF Calls, JobsOK

(* And after Ends: nothing, and the lock is free.                           *)
LEMMA AfterEnds ==
  ASSUME JobsOK, NEW h \in Handlers, Ends(h)
  PROVE  /\ job'[h].pc = "idle" /\ lock' = lock \ {h}
         /\ \A g \in Handlers : g # h => job'[g] = job[g]
  BY DEF Ends, JobsOK, Resting

(* A step of the handler that holds the lock.                               *)
LEMMA HolderKept ==
  ASSUME SyncOK, NEW h \in lock, UNCHANGED lock,
         \A g \in Handlers : g # h => job'[g] = job[g],
         DOMAIN mem \subseteq DOMAIN mem',
         job'[h].pc = "status" => Own(job'[h].node) \in DOMAIN mem',
         \A k \in DOMAIN mem' : mem'[k].status = "SYNCING" => OwesEntry(h, k)',
         \A n \in DOMAIN row' : row'[n].status = "SYNCING" => OwesRow(h, n)'
  PROVE  SyncOK'
<1>1. \A g \in Handlers : job'[g].pc = "status" => Own(job'[g].node) \in DOMAIN mem'
  BY DEF SyncOK
<1> QED BY <1>1 DEF SyncOK

(* A call that arrives is no sync under way, and makes nothing SYNCING.     *)
LEMMA SyncArrives ==
  ASSUME RegistryInv, SyncOK, NEW h \in Handlers, NEW n \in Nodes,
         Register(h, n) \/ Heartbeat(h, n) \/ SyncStart(h, n)
  PROVE  SyncOK'
<1>1. MemoryOK /\ JobsOK /\ LockOK /\ UNCHANGED row /\ job[h].pc = "idle" /\ lock \subseteq lock'
  BY DEF RegistryInv, Register, Heartbeat, SyncStart, Arrives
<1>2. PICK pc \in {"upsert", "seen", "load"}, status \in {"ACTIVE", "SYNCING"} : Calls(h, pc, n, now, status)
  BY DEF Register, Heartbeat, SyncStart, Beats
<1>3. job'[h].pc # "status" /\ \A g \in Handlers : g # h => job'[g] = job[g]
  BY <1>1, <1>2, AfterCalls
<1>4. /\ DOMAIN mem \subseteq DOMAIN mem'
      /\ \A k \in DOMAIN mem' : mem'[k].status = "SYNCING" => k \in DOMAIN mem /\ mem[k].status = "SYNCING"
  <2>1. CASE Register(h, n)
    BY <2>1 DEF Register, With, Over
  <2>2. CASE Heartbeat(h, n)
    BY <2>2, <1>1 DEF Heartbeat, Beats, MemoryOK, Table, Entries
  <2>3. CASE SyncStart(h, n)
    BY <2>3 DEF SyncStart
  <2> QED BY <2>1, <2>2, <2>3
<1> QED BY <1>1, <1>3, <1>4, SyncKept

(* A save that ends a handler writes no SYNCING.                            *)
LEMMA SyncSaved ==
  ASSUME RegistryInv, SyncOK, NEW h \in Handlers, UpsertSaved(h) \/ SeenSaved(h)
  PROVE  SyncOK'
<1>1. /\ MemoryOK /\ JobsOK /\ LockOK /\ UNCHANGED mem /\ job[h].pc \in {"upsert", "seen"} /\ Ends(h)
      /\ job[h].pc = "upsert" => job[h].status = "ACTIVE"
  BY DEF RegistryInv, UpsertSaved, SeenSaved, JobsOK
<1>2. job'[h].pc = "idle" /\ lock' = lock \ {h} /\ \A g \in Handlers : g # h => job'[g] = job[g]
  BY <1>1, AfterEnds
<1>3. \A n \in DOMAIN row' : row'[n].status = "SYNCING" => n \in DOMAIN row /\ row[n].status = "SYNCING"
  <2>1. CASE UpsertSaved(h)
    BY <2>1, <1>1 DEF UpsertSaved, With, Over
  <2>2. CASE SeenSaved(h)
    BY <2>2, <1>1 DEF SeenSaved, MemoryOK, Table, Entries
  <2> QED BY <2>1, <2>2
<1> QED BY <1>1, <1>2, <1>3, SyncKept

(* load_from_db copies rows of which none is SYNCING.                       *)
LEMMA SyncLoads ==
  ASSUME RegistryInv, SyncOK, NEW h \in Handlers, RowsLoaded(h)
  PROVE  SyncOK'
<1> DEFINE n == job[h].node
           files == [k \in {<<m, "text">> : m \in DOMAIN row} |-> row[k[1]]]
           loaded == Over(files, mem)
           found == Own(n) \in DOMAIN mem
<1>1. /\ MemoryOK /\ JobsOK /\ LockOK /\ UNCHANGED <<row, lock>> /\ h \in lock /\ job[h].pc = "load"
      /\ n \in Nodes
      /\ IF found
         THEN mem' = [loaded EXCEPT ![Own(n)].status = "SYNCING"] /\ Calls(h, "status", n, now, "SYNCING")
         ELSE mem' = loaded /\ Calls(h, "get", n, now, "SYNCING")
  BY DEF RegistryInv, RowsLoaded, JobsOK, Synchronising
<1>2. /\ \A k \in DOMAIN mem : mem[k].status # "SYNCING"
      /\ \A m \in DOMAIN row : row[m].status # "SYNCING"
  BY <1>1, OnlyHolder DEF OwesEntry, OwesRow
<1>3. /\ DOMAIN mem \subseteq DOMAIN loaded
      /\ \A k \in DOMAIN loaded : loaded[k].status # "SYNCING"
  BY <1>2 DEF Over
<1> HIDE DEF loaded
<1>4. /\ DOMAIN mem' = DOMAIN loaded
      /\ \A k \in DOMAIN mem' : mem'[k].status = "SYNCING" => found /\ k = Own(n)
  <2>1. CASE found
    BY <2>1, <1>1, <1>3
  <2>2. CASE ~found
    BY <2>2, <1>1, <1>3
  <2> QED BY <2>1, <2>2
<1>5. /\ job'[h].node = n /\ \A g \in Handlers : g # h => job'[g] = job[g]
      /\ found => job'[h].pc = "status" /\ job'[h].status = "SYNCING"
      /\ job'[h].pc = "status" => found
  <2>1. CASE found
    BY <2>1, <1>1, AfterCalls
  <2>2. CASE ~found
    BY <2>2, <1>1, AfterCalls
  <2> QED BY <2>1, <2>2
<1>6. \A k \in DOMAIN mem' : mem'[k].status = "SYNCING" => OwesEntry(h, k)'
  BY <1>4, <1>5 DEF OwesEntry
<1>7. job'[h].pc = "status" => Own(job'[h].node) \in DOMAIN mem'
  BY <1>3, <1>4, <1>5
<1> QED BY <1>1, <1>2, <1>3, <1>4, <1>5, <1>6, <1>7, HolderKept

(* The entry taken from the row has the status of the call, and its handler *)
(* owes it while that is SYNCING.  A node without a row that has counted    *)
(* owes nothing.                                                            *)
LEMMA SyncGets ==
  ASSUME RegistryInv, SyncOK, NEW h \in Handlers, RowGot(h)
  PROVE  SyncOK'
<1> DEFINE n == job[h].node
           status == job[h].status
           v == [RowOf(n) EXCEPT !.status = status]
<1>1. /\ MemoryOK /\ JobsOK /\ LockOK /\ UNCHANGED row /\ h \in lock /\ job[h].pc = "get"
      /\ status \in {"ACTIVE", "SYNCING"} /\ n \in Nodes
  BY DEF RegistryInv, RowGot, JobsOK, Synchronising
<1>2. /\ \A k \in DOMAIN mem : mem[k].status # "SYNCING"
      /\ \A m \in DOMAIN row : row[m].status # "SYNCING"
  BY <1>1, OnlyHolder DEF OwesEntry, OwesRow
<1>3. CASE Known(n)
  <2>1. mem' = With(mem, Own(n), v) /\ Calls(h, "status", n, now, status) /\ UNCHANGED lock
    BY <1>3 DEF RowGot
  <2>2. v.status = status
    BY <1>1, <1>3 DEF Known, RowOf, MemoryOK, Table, Entries
  <2> HIDE DEF v
  <2>3. /\ job'[h].node = n /\ job'[h].pc = "status" /\ job'[h].status = status
        /\ \A g \in Handlers : g # h => job'[g] = job[g]
    BY <1>1, <2>1, AfterCalls
  <2>4. /\ DOMAIN mem' = DOMAIN mem \cup {Own(n)}
        /\ \A k \in DOMAIN mem' : mem'[k].status = "SYNCING" => k = Own(n) /\ status = "SYNCING"
    BY <1>2, <2>1, <2>2 DEF With, Over
  <2>5. \A k \in DOMAIN mem' : mem'[k].status = "SYNCING" => OwesEntry(h, k)'
    BY <2>3, <2>4 DEF OwesEntry
  <2> QED BY <1>1, <1>2, <2>1, <2>3, <2>4, <2>5, HolderKept
<1>4. CASE ~Known(n) /\ status = "SYNCING"
  <2>1. Calls(h, "count", n, now, status) /\ UNCHANGED <<mem, lock>>
    BY <1>4 DEF RowGot
  <2>2. job'[h].pc = "count" /\ \A g \in Handlers : g # h => job'[g] = job[g]
    BY <1>1, <2>1, AfterCalls
  <2> QED BY <1>1, <1>2, <2>1, <2>2, HolderKept
<1>5. CASE ~Known(n) /\ status = "ACTIVE"
  <2>1. LastBeat(h, n)
    BY <1>5 DEF RowGot
  <2>2. /\ DOMAIN mem' = DOMAIN mem
        /\ \A k \in DOMAIN mem' : mem'[k].status # "SYNCING"
    BY <1>1, <1>2, <2>1 DEF LastBeat, Beats, MemoryOK, Table, Entries
  <2>3. job'[h].pc \in {"idle", "upsert", "seen"} /\ \A g \in Handlers : g # h => job'[g] = job[g]
    <3>1. CASE Own(n) \in DOMAIN mem
      <4>1. PICK pc \in {"upsert", "seen"} : Calls(h, pc, n, now, "ACTIVE")
        BY <3>1, <2>1 DEF LastBeat, Beats
      <4> QED BY <1>1, <4>1, AfterCalls
    <3>2. CASE Own(n) \notin DOMAIN mem
      BY <3>2, <1>1, <2>1, AfterEnds DEF LastBeat
    <3> QED BY <3>1, <3>2
  <2> QED BY <1>1, <1>2, <2>2, <2>3 DEF SyncOK
<1> QED BY <1>1, <1>3, <1>4, <1>5

(* The row turns SYNCING with the counting to come, or ACTIVE after it.     *)
LEMMA SyncStatus ==
  ASSUME RegistryInv, SyncOK, NEW h \in Handlers, StatusSaved(h)
  PROVE  SyncOK'
<1> DEFINE n == job[h].node
<1>1. /\ MemoryOK /\ JobsOK /\ LockOK /\ UNCHANGED lock /\ h \in lock /\ job[h].pc = "status"
      /\ job[h].status \in {"ACTIVE", "SYNCING"} /\ n \in Nodes /\ Own(n) \in DOMAIN mem
      /\ row' = IF n \in DOMAIN row THEN [row EXCEPT ![n].status = job[h].status] ELSE row
  BY DEF RegistryInv, StatusSaved, JobsOK, Synchronising, SyncOK
<1>2. /\ \A k \in DOMAIN mem : mem[k].status = "SYNCING" => k = Own(n) /\ job[h].status = "SYNCING"
      /\ \A m \in DOMAIN row : row[m].status = "SYNCING" => m = n /\ job[h].status = "ACTIVE"
  BY <1>1, OnlyHolder DEF OwesEntry, OwesRow
<1>3. /\ DOMAIN row' = DOMAIN row
      /\ \A m \in DOMAIN row' : row'[m].status = "SYNCING" => m = n /\ job[h].status = "SYNCING"
  BY <1>1, <1>2 DEF MemoryOK, Table, Entries
<1>4. CASE job[h].status = "SYNCING"
  <2>1. Calls(h, "count", n, now, "SYNCING") /\ UNCHANGED mem
    BY <1>4 DEF StatusSaved
  <2>2. /\ job'[h].node = n /\ job'[h].pc = "count" /\ \A g \in Handlers : g # h => job'[g] = job[g]
    BY <1>1, <2>1, AfterCalls
  <2>3. \A k \in DOMAIN mem' : mem'[k].status = "SYNCING" => OwesEntry(h, k)'
    BY <1>2, <2>1, <2>2 DEF OwesEntry
  <2>4. \A m \in DOMAIN row' : row'[m].status = "SYNCING" => OwesRow(h, m)'
    BY <1>1, <1>3, <2>1, <2>2 DEF OwesRow
  <2> QED BY <1>1, <2>1, <2>2, <2>3, <2>4, HolderKept
<1>5. CASE job[h].status = "ACTIVE"
  <2>1. Beats(h, n)
    BY <1>5 DEF StatusSaved
  <2>2. PICK pc \in {"upsert", "seen"} : Calls(h, pc, n, now, "ACTIVE")
    BY <2>1 DEF Beats
  <2>3. /\ job'[h].pc # "status" /\ \A g \in Handlers : g # h => job'[g] = job[g]
    BY <1>1, <2>2, AfterCalls
  <2>4. /\ DOMAIN mem' = DOMAIN mem /\ \A k \in DOMAIN mem' : mem'[k].status # "SYNCING"
    BY <1>1, <1>2, <1>5, <2>1 DEF Beats
  <2>5. \A m \in DOMAIN row' : row'[m].status # "SYNCING"
    BY <1>3, <1>5
  <2> QED BY <1>1, <2>3, <2>4, <2>5, HolderKept
<1> QED BY <1>1, <1>4, <1>5

(* After the counting only the row may be left SYNCING; a handler that has  *)
(* to ask for the row owes nothing: nothing is SYNCING.                     *)
LEMMA SyncCounts ==
  ASSUME RegistryInv, SyncOK, NEW h \in Handlers, Counted(h)
  PROVE  SyncOK'
<1> DEFINE n == job[h].node
<1>1. /\ MemoryOK /\ JobsOK /\ LockOK /\ UNCHANGED <<row, lock>> /\ h \in lock /\ job[h].pc = "count"
      /\ n \in Nodes
      /\ IF Own(n) \in DOMAIN mem
         THEN /\ mem' = [mem EXCEPT ![Own(n)].status = "ACTIVE"]
              /\ Calls(h, "status", n, now, "ACTIVE")
         ELSE Calls(h, "get", n, now, "ACTIVE") /\ UNCHANGED mem
  BY DEF RegistryInv, Counted, JobsOK, Synchronising, Synced
<1>2. /\ \A k \in DOMAIN mem : mem[k].status = "SYNCING" => k = Own(n)
      /\ \A m \in DOMAIN row : row[m].status = "SYNCING" => m = n /\ Own(n) \in DOMAIN mem
  BY <1>1, OnlyHolder DEF OwesEntry, OwesRow
<1>3. CASE Own(n) \in DOMAIN mem
  <2>1. /\ job'[h].node = n /\ job'[h].pc = "status" /\ job'[h].status = "ACTIVE"
        /\ \A g \in Handlers : g # h => job'[g] = job[g]
    BY <1>1, <1>3, AfterCalls
  <2>2. DOMAIN mem' = DOMAIN mem /\ \A k \in DOMAIN mem' : mem'[k].status # "SYNCING"
    BY <1>1, <1>2, <1>3 DEF MemoryOK, Table, Entries
  <2>3. \A m \in DOMAIN row' : row'[m].status = "SYNCING" => OwesRow(h, m)'
    BY <1>1, <1>2, <1>3, <2>1, <2>2 DEF OwesRow
  <2> QED BY <1>1, <1>3, <2>1, <2>2, <2>3, HolderKept
<1>4. CASE Own(n) \notin DOMAIN mem
  <2>1. /\ UNCHANGED <<mem, row>> /\ job'[h].pc = "get" /\ \A g \in Handlers : g # h => job'[g] = job[g]
    BY <1>1, <1>4, AfterCalls
  <2>2. /\ \A k \in DOMAIN mem' : mem'[k].status # "SYNCING"
        /\ \A m \in DOMAIN row' : row'[m].status # "SYNCING"
    BY <1>1, <1>2, <1>4
  <2> QED BY <2>1, <2>2 DEF SyncOK
<1> QED BY <1>3, <1>4

(* The sweep marks entries and rows INACTIVE only.                          *)
LEMMA SyncSwept ==
  ASSUME RegistryInv, SyncOK, SweepStep
  PROVE  SyncOK'
<1>1. MemoryOK /\ SweepOK /\ LockOK /\ UNCHANGED <<job, lock>>
  BY DEF RegistryInv, SweepStep, SweepStarts, SweepMarks, SweepSaved, SweepEnds, SweepFails
<1>2. /\ DOMAIN mem \subseteq DOMAIN mem'
      /\ \A k \in DOMAIN mem' : mem'[k].status = "SYNCING" => k \in DOMAIN mem /\ mem[k].status = "SYNCING"
  <2>1. UNCHANGED mem \/ \E k \in sweep.queue : mem' = [mem EXCEPT ![k].status = "INACTIVE"]
    BY DEF SweepStep, SweepStarts, SweepMarks, SweepSaved, SweepEnds, SweepFails
  <2>2. CASE UNCHANGED mem
    BY <2>2
  <2>3. ASSUME NEW k \in sweep.queue, mem' = [mem EXCEPT ![k].status = "INACTIVE"]
        PROVE  /\ DOMAIN mem \subseteq DOMAIN mem'
               /\ \A x \in DOMAIN mem' : mem'[x].status = "SYNCING" => x \in DOMAIN mem /\ mem[x].status = "SYNCING"
    BY <2>3, <1>1 DEF MemoryOK, Table, Entries
  <2> QED BY <2>1, <2>2, <2>3
<1>3. \A n \in DOMAIN row' : row'[n].status = "SYNCING" => n \in DOMAIN row /\ row[n].status = "SYNCING"
  <2>1. CASE SweepSaved
    <3> DEFINE e == SweptRow(sweep.entry)
    <3>1. row' = With(row, sweep.node, e) /\ e.status = "INACTIVE"
      BY <2>1, <1>1 DEF SweepSaved, SweepOK, SweptRow, Entries
    <3> HIDE DEF e
    <3> QED BY <3>1 DEF With, Over
  <2>2. CASE ~SweepSaved
    BY <2>2 DEF SweepStep, SweepStarts, SweepMarks, SweepEnds, SweepFails
  <2> QED BY <2>1, <2>2
<1> QED BY <1>1, <1>2, <1>3, SyncKept

(* A step in which no call fails and no restart comes: what it changes.     *)
LEMMA QuietOrRaised ==
  ASSUME [Next]_vars, ~raised'
  PROVE  /\ ~raised
         /\ \A h \in Handlers : ~DatabaseFails(h)
         /\ ~Restart
<1>1. ASSUME NEW h \in Handlers, HandlerStep(h) PROVE ~raised /\ ~DatabaseFails(h)
  BY <1>1 DEF HandlerStep, UpsertSaved, SeenSaved, RowsLoaded, RowGot, StatusSaved, Counted,
              DatabaseFails
<1>2. ASSUME NEW h \in Handlers, NEW n \in Nodes, Register(h, n) \/ Heartbeat(h, n) \/ SyncStart(h, n)
      PROVE  ~raised
  BY <1>2 DEF Register, Heartbeat, SyncStart
<1>3. SweepStep => ~raised
  BY DEF SweepStep, SweepStarts, SweepMarks, SweepSaved, SweepEnds, SweepFails
<1>4. TimePasses \/ UNCHANGED vars => ~raised
  BY DEF TimePasses, vars
<1>5. ~Restart /\ \A h \in Handlers : ~DatabaseFails(h)
  BY DEF Restart, DatabaseFails
<1> QED BY <1>1, <1>2, <1>3, <1>4, <1>5 DEF Next

(* As long as no database call fails and no restart interrupts one, no sync *)
(* leaves its node SYNCING, in memory or in its row, whatever               *)
(* registrations, heartbeats and sweeps come in between                     *)
(* (game_manager.py:264, 342).                                              *)
THEOREM SyncsComplete == Spec => []NoStuckSync
<1> DEFINE Inv == ~raised => SyncOK
<1>1. Init => Inv
  BY DEF Init, SyncOK, Resting
<1>2. RegistryInv /\ Inv /\ [Next]_vars => Inv'
  <2> SUFFICES ASSUME RegistryInv, Inv, [Next]_vars, ~raised' PROVE SyncOK'
    OBVIOUS
  <2>1. SyncOK /\ ~Restart /\ \A h \in Handlers : ~DatabaseFails(h)
    BY QuietOrRaised
  <2>2. ASSUME NEW h \in Handlers, NEW n \in Nodes, Register(h, n) \/ Heartbeat(h, n) \/ SyncStart(h, n)
        PROVE  SyncOK'
    BY <2>1, <2>2, SyncArrives
  <2>3. ASSUME NEW h \in Handlers, HandlerStep(h) PROVE SyncOK'
    BY <2>1, <2>3, SyncSaved, SyncLoads, SyncGets, SyncStatus, SyncCounts DEF HandlerStep
  <2>4. CASE TimePasses \/ UNCHANGED vars
    BY <2>1, <2>4 DEF TimePasses, vars, SyncOK, OwesEntry, OwesRow
  <2> QED BY <2>1, <2>2, <2>3, <2>4, SyncSwept DEF Next
<1>3. Inv => NoStuckSync
  BY DEF SyncOK, NoStuckSync
<1> HIDE DEF Inv
<1> QED BY <1>1, <1>2, <1>3, RegistryInvariant, PTL DEF Spec

=============================================================================
