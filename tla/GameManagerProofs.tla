------------------------- MODULE GameManagerProofs -------------------------
(* Proofs about the server, for every value of the constants: types, the    *)
(* order of the Lamport stamps, what it implies for delivery and            *)
(* idempotency, and the power-up.                                           *)
EXTENDS GameManager, FiniteSetTheorems, TLAPS

(* Sums.  The sum of a function over a finite set, SumFunction of the       *)
(* module Functions, does not depend on the order in which the fold takes   *)
(* the elements.  Each induction here is an argument about a smallest       *)
(* counterexample among the subsets of the set.                             *)

(* The element the fold takes first, and the sums of f over the subsets of  *)
(* S as the fold computes them.                                             *)
First(s) == CHOOSE x \in s : TRUE

PartialSums(g, f, S) ==
  g = [s \in SUBSET S |-> IF s = {} THEN 0 ELSE f[First(s)] + g[s \ {First(s)}]]

(* A non-empty set of subsets of a finite set has a smallest one.           *)
LEMMA SmallestSubset ==
  ASSUME NEW S, IsFiniteSet(S), NEW B, B \subseteq SUBSET S, B # {}
  PROVE  \E s \in B : \A t \in B : t \subseteq s => t = s
  <1>1. FiniteSubsetsOf(S) = SUBSET S
    BY FS_FiniteSubsetsOfFinite
  <1>2. IsWellFoundedOn(StrictSubsetOrdering(S), SUBSET S)
    BY <1>1, FS_StrictSubsetOrderingWellFounded
  <1>3. PICK s \in B : \A t \in B : ~(<<t, s>> \in StrictSubsetOrdering(S))
    BY <1>2, WFMin
  <1> QED BY <1>3 DEF StrictSubsetOrdering

(* One step of the fold.                                                    *)
LEMMA SumsStep ==
  ASSUME NEW S, NEW f, NEW g, PartialSums(g, f, S), NEW s \in SUBSET S
  PROVE  /\ s = {} => g[s] = 0
         /\ s # {} => First(s) \in s /\ g[s] = f[First(s)] + g[s \ {First(s)}]
  BY DEF PartialSums, First

(* Two such functions agree wherever both are defined.                      *)
LEMMA SumsAgree ==
  ASSUME NEW S, IsFiniteSet(S), NEW f, NEW T \in SUBSET S, NEW U \in SUBSET S,
         NEW g, NEW h, PartialSums(g, f, T), PartialSums(h, f, U)
  PROVE  \A s \in SUBSET (T \cap U) : g[s] = h[s]
  <1> DEFINE B == {s \in SUBSET (T \cap U) : g[s] # h[s]}
  <1> SUFFICES ASSUME B # {} PROVE FALSE
    OBVIOUS
  <1>1. PICK s \in B : \A t \in B : t \subseteq s => t = s
    <2>1. B \subseteq SUBSET S /\ B # {}
      OBVIOUS
    <2> HIDE DEF B
    <2> QED BY <2>1, SmallestSubset
  <1>2. s \in SUBSET T /\ s \in SUBSET U /\ g[s] # h[s]
    OBVIOUS
  <1>3. s # {} /\ First(s) \in s
    BY <1>2, SumsStep
  <1>4. g[s \ {First(s)}] = h[s \ {First(s)}]
    BY <1>1, <1>3
  <1> QED BY <1>2, <1>3, <1>4, SumsStep

(* There is one.                                                            *)
LEMMA SumsExist == ASSUME NEW S, IsFiniteSet(S), NEW f PROVE \E g : PartialSums(g, f, S)
  <1> DEFINE B == {T \in SUBSET S : ~\E g : PartialSums(g, f, T)}
  <1> SUFFICES ASSUME B # {} PROVE FALSE
    OBVIOUS
  <1>1. PICK T \in B : \A U \in B : U \subseteq T => U = T
    <2>1. B \subseteq SUBSET S /\ B # {}
      OBVIOUS
    <2> HIDE DEF B
    <2> QED BY <2>1, SmallestSubset
  <1> DEFINE G(U) == CHOOSE g : PartialSums(g, f, U)
             h == [s \in SUBSET T |-> IF s = {} THEN 0
                                      ELSE f[First(s)] + G(s \ {First(s)})[s \ {First(s)}]]
  <1>2. ASSUME NEW U \in SUBSET T, U # T PROVE PartialSums(G(U), f, U)
    BY <1>1, <1>2
  <1>3. ASSUME NEW r \in SUBSET T, r # T PROVE h[r] = G(r)[r]
    <2>1. PartialSums(G(r), f, r)
      BY <1>2, <1>3
    <2>2. CASE r = {}
      BY <2>1, <2>2, SumsStep
    <2>3. CASE r # {}
      <3> DEFINE q == r \ {First(r)}
      <3>1. First(r) \in r /\ G(r)[r] = f[First(r)] + G(r)[q]
        BY <2>1, <2>3, SumsStep
      <3>2. PartialSums(G(q), f, q)
        BY <1>2, <1>3, <3>1
      <3>3. G(r)[q] = G(q)[q]
        <4> HIDE DEF G
        <4>1. q \in SUBSET (r \cap q) /\ r \in SUBSET S /\ q \in SUBSET S
          OBVIOUS
        <4> QED BY <2>1, <3>2, <4>1, SumsAgree
      <3> QED BY <2>3, <3>1, <3>3
    <2> QED BY <2>2, <2>3
  <1>4. ASSUME NEW s \in SUBSET T, s # {} PROVE h[s] = f[First(s)] + h[s \ {First(s)}]
    <2>1. First(s) \in s
      BY <1>4 DEF First
    <2>2. h[s \ {First(s)}] = G(s \ {First(s)})[s \ {First(s)}]
      BY <1>3, <2>1
    <2> QED BY <1>4, <2>2
  <1>5. h = [s \in SUBSET T |-> h[s]] /\ h[{}] = 0
    OBVIOUS
  <1>6. PartialSums(h, f, T)
    <2> HIDE DEF h
    <2>1. [s \in SUBSET T |-> h[s]]
            = [s \in SUBSET T |-> IF s = {} THEN 0 ELSE f[First(s)] + h[s \ {First(s)}]]
      BY <1>4, <1>5
    <2> QED BY <1>5, <2>1 DEF PartialSums
  <1> QED BY <1>1, <1>6

(* The sum does not depend on the order in which the elements are taken.    *)
LEMMA SumsAnyOrder ==
  ASSUME NEW S, IsFiniteSet(S), NEW f, f \in [S -> Int], NEW g, PartialSums(g, f, S)
  PROVE  \A s \in SUBSET S : g[s] \in Int /\ \A x \in s : g[s] = f[x] + g[s \ {x}]
  <1> DEFINE P(s) == g[s] \in Int /\ \A x \in s : g[s] = f[x] + g[s \ {x}]
             B == {s \in SUBSET S : ~P(s)}
  <1> SUFFICES ASSUME B # {} PROVE FALSE
    OBVIOUS
  <1>1. PICK s \in B : \A t \in B : t \subseteq s => t = s
    <2>1. B \subseteq SUBSET S /\ B # {}
      OBVIOUS
    <2> HIDE DEF B
    <2> QED BY <2>1, SmallestSubset
  <1>2. \A t \in SUBSET s : t # s => P(t)
    BY <1>1
  <1>3. s # {}
    <2>1. s = {} => g[s] = 0
      BY SumsStep
    <2> QED BY <2>1
  <1> DEFINE c == First(s)
  <1>4. c \in s /\ g[s] = f[c] + g[s \ {c}] /\ f[c] \in Int
    BY <1>3, SumsStep
  <1>5. g[s \ {c}] \in Int
    BY <1>2, <1>4
  <1>6. ASSUME NEW x \in s, x # c PROVE g[s] = f[x] + g[s \ {x}]
    <2>1. /\ g[s \ {c}] = f[x] + g[(s \ {c}) \ {x}]
          /\ g[(s \ {c}) \ {x}] \in Int
      <3>1. x \in s \ {c} /\ s \ {c} \in SUBSET s /\ s \ {c} # s
        BY <1>4, <1>6
      <3>2. (s \ {c}) \ {x} \in SUBSET s /\ (s \ {c}) \ {x} # s
        BY <3>1
      <3> QED BY <1>2, <3>1, <3>2
    <2>2. g[s \ {x}] = f[c] + g[(s \ {x}) \ {c}]
      <3>1. c \in s \ {x} /\ s \ {x} \in SUBSET s /\ s \ {x} # s
        BY <1>4, <1>6
      <3> QED BY <1>2, <3>1
    <2>3. (s \ {x}) \ {c} = (s \ {c}) \ {x}
      OBVIOUS
    <2>4. f[x] \in Int
      OBVIOUS
    <2> DEFINE q == (s \ {c}) \ {x}
    <2>5. g[s \ {x}] = f[c] + g[q] /\ g[s \ {c}] = f[x] + g[q] /\ g[q] \in Int
      BY <2>1, <2>2, <2>3
    <2> HIDE DEF c, P, B, q
    <2> QED BY <1>4, <2>4, <2>5
  <1>7. g[s] \in Int
    BY <1>4, <1>5
  <1>8. P(s)
    BY <1>4, <1>6, <1>7
  <1> QED BY <1>8

(* SumFunction is the value at the whole set.                               *)
LEMMA SumIsSums ==
  ASSUME NEW S, IsFiniteSet(S), NEW f \in [S -> Int]
  PROVE  \E g : PartialSums(g, f, S) /\ SumFunction(f) = g[S]
  <1> DEFINE it[s \in SUBSET S] == IF s = {} THEN 0 ELSE f[First(s)] + it[s \ {First(s)}]
  <1>1. SumFunction(f) = it[S]
    BY DEF SumFunction, SumFunctionOnSet, FoldFunctionOnSet, MapThenFoldSet, First
  <1>2. it = CHOOSE g : PartialSums(g, f, S)
    BY DEF PartialSums
  <1>3. PartialSums(it, f, S)
    <2> HIDE DEF it
    <2> QED BY <1>2, SumsExist
  <1> QED BY <1>1, <1>3

(* One entry changes: the sum changes by the difference.                    *)
LEMMA SumChanged ==
  ASSUME NEW S, IsFiniteSet(S), NEW f \in [S -> Int], NEW n \in S, NEW v \in Int
  PROVE  SumFunction([f EXCEPT ![n] = v]) = SumFunction(f) - f[n] + v
  <1> DEFINE e == [f EXCEPT ![n] = v]
  <1>0. e \in [S -> Int] /\ e[n] = v /\ \A x \in S \ {n} : e[x] = f[x]
    OBVIOUS
  <1> HIDE DEF e
  <1>1. PICK g : PartialSums(g, f, S) /\ SumFunction(f) = g[S]
    BY SumIsSums
  <1>2. PICK h : PartialSums(h, e, S) /\ SumFunction(e) = h[S]
    BY <1>0, SumIsSums
  <1>3. \A s \in SUBSET S : g[s] \in Int /\ \A x \in s : g[s] = f[x] + g[s \ {x}]
    <2>1. IsFiniteSet(S) /\ f \in [S -> Int] /\ PartialSums(g, f, S)
      BY <1>1
    <2> QED BY <2>1, SumsAnyOrder
  <1>4. \A s \in SUBSET S : h[s] \in Int /\ \A x \in s : h[s] = e[x] + h[s \ {x}]
    BY <1>0, <1>2, SumsAnyOrder
  <1>5. g[S \ {n}] = h[S \ {n}]
    <2> DEFINE B == {s \in SUBSET (S \ {n}) : g[s] # h[s]}
    <2>1. ASSUME B # {} PROVE FALSE
      <3>1. PICK s \in B : \A t \in B : t \subseteq s => t = s
        <4>1. B \subseteq SUBSET S /\ B # {}
          BY <2>1
        <4> HIDE DEF B
        <4> QED BY <4>1, SmallestSubset
      <3>2. s \in SUBSET S /\ n \notin s /\ s # {} /\ First(s) \in s
        BY <1>1, <1>2, SumsStep
      <3>3. g[s \ {First(s)}] = h[s \ {First(s)}]
        BY <3>1, <3>2
      <3>4. g[s] = h[s]
        BY <1>0, <1>1, <1>2, <3>2, <3>3, SumsStep
      <3> QED BY <3>4
    <2> QED BY <2>1
  <1>6. /\ g[S \ {n}] \in Int /\ g[S] = f[n] + g[S \ {n}]
        /\ h[S] = v + h[S \ {n}]
    BY <1>0, <1>3, <1>4
  <1>7. f[n] \in Int
    OBVIOUS
  <1>8. SumFunction(e) = SumFunction(f) - f[n] + v
    BY <1>1, <1>2, <1>5, <1>6, <1>7
  <1> QED BY <1>8 DEF e

(* Nothing adds up to nothing.                                              *)
LEMMA SumOfZeros ==
  ASSUME NEW S, IsFiniteSet(S), NEW f \in [S -> Int], \A x \in S : f[x] = 0
  PROVE  SumFunction(f) = 0
  <1>1. PICK g : PartialSums(g, f, S) /\ SumFunction(f) = g[S]
    BY SumIsSums
  <1> DEFINE B == {s \in SUBSET S : g[s] # 0}
  <1>2. ASSUME B # {} PROVE FALSE
    <2>1. PICK s \in B : \A t \in B : t \subseteq s => t = s
      <3>1. B \subseteq SUBSET S
        OBVIOUS
      <3> HIDE DEF B
      <3> QED BY <1>2, <3>1, SmallestSubset
    <2>2. s # {} /\ First(s) \in s /\ g[s] = f[First(s)] + g[s \ {First(s)}]
      BY <1>1, SumsStep
    <2>3. g[s \ {First(s)}] = 0
      BY <2>1, <2>2
    <2> QED BY <2>2, <2>3
  <1> QED BY <1>1, <1>2
(* Naturals add up to a natural.                                            *)
LEMMA SumIsNat ==
  ASSUME NEW S, IsFiniteSet(S), NEW f \in [S -> Nat] PROVE SumFunction(f) \in Nat
  <1>0. f \in [S -> Int]
    OBVIOUS
  <1>1. PICK g : PartialSums(g, f, S) /\ SumFunction(f) = g[S]
    BY <1>0, SumIsSums
  <1> DEFINE B == {s \in SUBSET S : g[s] \notin Nat}
  <1>2. ASSUME B # {} PROVE FALSE
    <2>1. PICK s \in B : \A t \in B : t \subseteq s => t = s
      <3>1. B \subseteq SUBSET S /\ B # {}
        BY <1>2
      <3> HIDE DEF B
      <3> QED BY <3>1, SmallestSubset
    <2>2. s \in SUBSET S /\ g[s] \notin Nat
      OBVIOUS
    <2>3. s # {} /\ First(s) \in s /\ g[s] = f[First(s)] + g[s \ {First(s)}]
      BY <1>1, <2>2, SumsStep
    <2>4. g[s \ {First(s)}] \in Nat
      BY <2>1, <2>3
    <2>5. f[First(s)] \in Nat
      BY <2>2, <2>3
    <2> QED BY <2>2, <2>3, <2>4, <2>5
  <1> QED BY <1>1, <1>2

-----------------------------------------------------------------------------
(* An allowance, clicks per second times a time, is a natural.              *)
LEMMA AllowanceIsNat == ASSUME NEW d \in Nat PROVE (Rate * d) \div Second \in Nat
  BY GameManagerAssumption, SMT

(* add_clicks accepts a natural number of clicks, at most the batch.        *)
LEMMA AcceptedIsNat ==
  ASSUME NEW c \in Nat, NEW d \in Int PROVE Accepted(c, d) \in Nat
  <1>1. CASE d <= 0 
    BY <1>1, GameManagerAssumption DEF Accepted, Least
  <1>2. CASE d > 0
    BY <1>2, AllowanceIsNat, GameManagerAssumption DEF Accepted, Least
  <1> QED BY <1>1, <1>2

(* So does sync_offline, whatever the row says of the last call.            *)
LEMMA AcceptedOfflineIsNat ==
  ASSUME NEW c \in Nat, NEW seen \in Nat, NEW start \in Nat
  PROVE  AcceptedOffline(c, seen, start) \in Nat
  <1>1. OfflineTime(seen, start) \in Nat
    BY DEF OfflineTime
  <1> QED BY <1>1, AllowanceIsNat DEF AcceptedOffline, Least

-----------------------------------------------------------------------------

(* The default entry and the empty locals are well typed.                   *)
LEMMA DefaultTypes == NewNode \in NodeType /\ NoWork \in WorkType
  BY DEF NewNode, NodeType, NoWork, WorkType

(* The server starts well typed.                                            *)
LEMMA InitTypes == Init => TypeOK
  <1> SUFFICES ASSUME Init PROVE TypeOK
    OBVIOUS
  <1>1. MemoryType
    BY DefaultTypes, GameManagerAssumption DEF Init, MemoryType, Epoch
  <1>2. DiskType
    BY DEF Init, DiskType
  <1>3. HandlerType
    BY DefaultTypes DEF Init, HandlerType, Requesting
  <1>4. HistoryType
    BY DEF Init, HistoryType
  <1> QED BY <1>1, <1>2, <1>3, <1>4 DEF TypeOK

(* What a handler in the middle of a request holds.                         *)
LEMMA RequestTypes ==
  ASSUME TypeOK, NEW h \in Handlers, pc[h] \in Requesting
  PROVE  /\ req[h] \in Request
         /\ req[h].node \in Nodes
         /\ req[h].clicks \in Batches /\ req[h].clicks \in Nat
         /\ req[h].ts \in Nat
         /\ Key(req[h]) \in KeyType
  <1>1. req[h] \in Request
    BY DEF TypeOK, HandlerType
  <1>2. /\ req[h].node \in Nodes /\ req[h].clicks \in Batches
        /\ req[h].kind \in {"add", "sync"} /\ req[h].ts \in 1..MaxTs
    BY <1>1 DEF Request
  <1>3. req[h].clicks \in Nat
    BY <1>2, GameManagerAssumption
  <1>4. req[h].ts \in Nat
    BY <1>2, GameManagerAssumption
  <1> QED BY <1>1, <1>2, <1>3, <1>4 DEF Key, KeyType

(* The locals of a handler have the type of WorkType.                       *)
LEMMA WorkTypes ==
  ASSUME TypeOK, NEW h \in Handlers
  PROVE  /\ work[h] \in WorkType
         /\ {work[h].start, work[h].before, work[h].accepted, work[h].stamp,
             work[h].beat} \subseteq Nat
         /\ work[h].reached \subseteq Milestones
  BY DEF TypeOK, HandlerType, WorkType

(* Evicting only ever removes answers.                                      *)
LEMMA LiveIsCached == \A kind : Live(kind) \subseteq cache
  BY DEF Live

(* A handler that ends is well typed again.                                 *)
LEMMA IdlesTypes ==
  ASSUME TypeOK, NEW h \in Handlers, Idles(h), lock' \in Handlers \cup {NoHandler}
  PROVE  HandlerType'
  BY DefaultTypes DEF TypeOK, HandlerType, Idles, Requesting

(* An answer sent keeps the types of handlers and history.                  *)
LEMMA SendReplyTypes ==
  ASSUME TypeOK, NEW h \in Handlers, NEW r \in Request, NEW at \in Nat,
         NEW reply \in Reply, SendReply(h, r, at, reply)
  PROVE  HandlerType' /\ HistoryType'
  <1>1. HandlerType'
    BY IdlesTypes DEF SendReply
  <1>2. [key |-> Key(r), at |-> at, clicks |-> r.clicks, reply |-> reply]
          \in [key : KeyType, at : Nat, clicks : Batches, reply : Reply]
    BY DEF Request, Key, KeyType
  <1>3. HistoryType'
    BY <1>2 DEF TypeOK, HistoryType, SendReply
  <1> QED BY <1>1, <1>3

(* What a counting step writes.                                             *)
LEMMA ScoreTypes ==
  ASSUME TypeOK, NEW h \in Handlers, pc[h] \in Requesting,
         NEW start \in Nat, NEW accepted \in Nat, NEW gain \in Nat,
         NEW entry \in NodeType, Score(h, start, accepted, gain, entry),
         cache' \subseteq cache, registered' = registered
  PROVE  TypeOK'
  <1>1. req[h].node \in Nodes /\ Key(req[h]) \in KeyType
    BY RequestTypes
  <1>2. MemoryType'
    BY <1>1 DEF TypeOK, MemoryType, Score, clocks
  <1>3. DiskType'
    BY DEF TypeOK, DiskType, Score, disk
  <1>4. [NoWork EXCEPT !.start = start, !.before = globalScore, !.accepted = accepted]
          \in WorkType
    BY DEF TypeOK, MemoryType, NoWork, WorkType
  <1>5. HandlerType'
    BY <1>4 DEF TypeOK, HandlerType, Score, Requesting
  <1>6. [key |-> Key(req[h]), at |-> start, run |-> restarts, accepted |-> accepted]
          \in [key : KeyType, at : Nat, run : Nat, accepted : Nat]
    BY <1>1 DEF TypeOK, HistoryType
  <1>7. HistoryType'
    BY <1>6 DEF TypeOK, HistoryType, Score
  <1> QED BY <1>2, <1>3, <1>5, <1>7 DEF TypeOK

(* A handler that answers leaves a cached reply and a sent one.             *)
LEMMA RespondTypes ==
  ASSUME TypeOK, NEW h \in Handlers, pc[h] \in Requesting, Respond(h)
  PROVE  /\ cache' \in SUBSET [key : KeyType, at : Nat, reply : Reply]
         /\ HandlerType' /\ HistoryType'
  <1> DEFINE r == req[h]
             w == work[h]
             reply == [status |-> IF r.kind = "add" /\ w.accepted < r.clicks
                                  THEN "RATE_EXCEEDED" ELSE "SUCCESS",
                       accepted |-> w.accepted, score |-> nodes[r.node].score,
                       ts |-> w.stamp, milestone |-> w.reached # {}]
  <1>1. r \in Request /\ r.node \in Nodes /\ Key(r) \in KeyType
    BY RequestTypes
  <1>2. w.accepted \in Nat /\ w.stamp \in Nat /\ w.start \in Nat
    BY DEF TypeOK, HandlerType, WorkType
  <1>3. nodes[r.node].score \in Nat
    BY <1>1 DEF TypeOK, MemoryType, NodeType
  <1>4. reply \in Reply
    BY <1>2, <1>3 DEF Reply
  <1>5. [key |-> Key(r), at |-> w.start, reply |-> reply] \in [key : KeyType, at : Nat, reply : Reply]
    BY <1>1, <1>2, <1>4
  <1>6. cache' = cache \cup {[key |-> Key(r), at |-> w.start, reply |-> reply]}
        /\ SendReply(h, r, w.start, reply)
    BY DEF Respond
  <1>7. HandlerType' /\ HistoryType'
    BY <1>1, <1>2, <1>4, <1>6, SendReplyTypes
  <1> QED BY <1>5, <1>6, <1>7 DEF TypeOK, MemoryType

(* A new stamp is beyond the request's and beyond the server's clock.       *)
LEMMA StampIsNat ==
  ASSUME TypeOK, NEW t \in Nat
  PROVE  Stamp(t) \in Nat /\ Stamp(t) > t /\ Stamp(t) > localLamport
  BY DEF TypeOK, MemoryType, Stamp

(* The milestone loop keeps the handler's locals in range.                  *)
LEMMA NextMilestoneTypes ==
  ASSUME TypeOK, NEW h \in Handlers, pc[h] \in Requesting, NEW w \in WorkType,
         NextMilestone(h, w), lock' = lock, req' = req
  PROVE  HandlerType' /\ milestonesDone' \in SUBSET Milestones
  <1>1. CASE /\ pc' = [pc EXCEPT ![h] = "event"]
             /\ work' = [work EXCEPT ![h] = w]
             /\ UNCHANGED milestonesDone
    BY <1>1 DEF TypeOK, HandlerType, MemoryType, Requesting
  <1>2. ASSUME NEW m \in Crossed(w.before),
               milestonesDone' = milestonesDone \cup {m},
               pc' = [pc EXCEPT ![h] = "milestone"],
               work' = [work EXCEPT ![h] = [w EXCEPT !.reached = @ \cup {m}]]
        PROVE  HandlerType' /\ milestonesDone' \in SUBSET Milestones
    <2>1. m \in Milestones
      BY DEF Crossed
    <2>2. [w EXCEPT !.reached = @ \cup {m}] \in WorkType
      BY <2>1 DEF WorkType
    <2>3. HandlerType'
      BY <1>2, <2>2 DEF TypeOK, HandlerType, Requesting
    <2> QED BY <1>2, <2>1, <2>3 DEF TypeOK, MemoryType
  <1> QED BY <1>1, <1>2 DEF NextMilestone

-----------------------------------------------------------------------------
(* Each step keeps every type.                                              *)

(* Arrivals and registrations keep the types.                               *)
LEMMA ArrivalTypes ==
  ASSUME TypeOK, NEW h \in Handlers
  PROVE  /\ \A r \in Request : Receive(h, r) => TypeOK'
         /\ \A n \in Nodes : RegisterNode(h, n) => TypeOK'
         /\ NodeUpserted(h) => TypeOK'
  <1>1. ASSUME NEW r \in Request, Receive(h, r) PROVE TypeOK'
    <2>1. MemoryType' /\ DiskType'
      BY <1>1 DEF TypeOK, MemoryType, DiskType, Receive, memory, disk, scores, clocks
    <2>2. HandlerType'
      BY <1>1 DEF TypeOK, HandlerType, Receive, Requesting
    <2>3. HistoryType'
      BY <1>1 DEF TypeOK, HistoryType, Receive
    <2> QED BY <2>1, <2>2, <2>3 DEF TypeOK
  <1>2. ASSUME NEW n \in Nodes, RegisterNode(h, n) PROVE TypeOK'
    <2>1. MemoryType' /\ DiskType'
      BY <1>2 DEF TypeOK, MemoryType, DiskType, RegisterNode, disk, scores, clocks
    <2>2. [work[h] EXCEPT !.start = now] \in WorkType
      BY DEF TypeOK, HandlerType, MemoryType, WorkType
    <2>3. HandlerType'
      BY <1>2, <2>2 DEF TypeOK, HandlerType, RegisterNode, Requesting
    <2>4. HistoryType'
      BY <1>2 DEF TypeOK, HistoryType, RegisterNode
    <2> QED BY <2>1, <2>3, <2>4 DEF TypeOK
  <1>3. ASSUME NodeUpserted(h) PROVE TypeOK'
    <2>1. req[h].node \in Nodes /\ work[h].start \in Nat
      BY <1>3 DEF TypeOK, HandlerType, WorkType, NodeUpserted
    <2>2. MemoryType' /\ HistoryType'
      BY <1>3 DEF TypeOK, MemoryType, HistoryType, NodeUpserted, memory, scores, clocks, history
    <2>3. DiskType'
      BY <1>3, <2>1 DEF TypeOK, DiskType, NodeUpserted
    <2>4. HandlerType'
      BY <1>3, IdlesTypes DEF NodeUpserted, TypeOK, HandlerType
    <2> QED BY <2>2, <2>3, <2>4 DEF TypeOK
  <1> QED BY <1>1, <1>2, <1>3

(* activate_powerup keeps the types.                                        *)
LEMMA PowerupTypes == ASSUME TypeOK, NEW n \in Nodes, ActivatePowerup(n) PROVE TypeOK'
  <1>0. nodes[n] \in NodeType /\ now + Boost \in Nat
    BY GameManagerAssumption DEF TypeOK, MemoryType
  <1>1. [nodes[n] EXCEPT !.powerup_expire = now + Boost, !.multiplier = 3] \in NodeType
    BY <1>0 DEF NodeType
  <1>2. nodes' = [nodes EXCEPT ![n] = [nodes[n] EXCEPT !.powerup_expire = now + Boost, !.multiplier = 3]]
    BY DEF ActivatePowerup, TypeOK, MemoryType
  <1>3. MemoryType'
    BY <1>1, <1>2 DEF TypeOK, MemoryType, ActivatePowerup, clocks
  <1>4. DiskType' /\ HandlerType' /\ HistoryType'
    BY DEF TypeOK, DiskType, HandlerType, HistoryType, ActivatePowerup, disk, history
  <1> QED BY <1>3, <1>4 DEF TypeOK

(* A cached answer keeps the types.                                         *)
LEMMA ReplayTypes == ASSUME TypeOK, NEW h \in Handlers, ReplayCached(h) PROVE TypeOK'
  <1>1. pc[h] \in Requesting
    BY DEF ReplayCached, Acquires, Requesting
  <1>2. PICK e \in Cached(req[h]) : SendReply(h, req[h], e.at, e.reply)
    BY DEF ReplayCached
  <1>3. e.at \in Nat /\ e.reply \in Reply
    BY LiveIsCached DEF Cached, TypeOK, MemoryType
  <1>4. HandlerType' /\ HistoryType'
    BY <1>1, <1>2, <1>3, RequestTypes, SendReplyTypes
  <1>5. MemoryType' /\ DiskType'
    BY LiveIsCached DEF ReplayCached, TypeOK, MemoryType, DiskType, scores, clocks, disk
  <1> QED BY <1>4, <1>5 DEF TypeOK

(* A refusal and its record keep the types.                                 *)
LEMMA ViolationTypes ==
  ASSUME TypeOK, NEW h \in Handlers
  PROVE  BeginViolation(h) \/ ViolationRecorded(h) => TypeOK'
  <1>1. ASSUME BeginViolation(h) PROVE TypeOK'
    <2>1. pc[h] \in Requesting
      BY <1>1 DEF BeginViolation, Acquires, Requesting
    <2>2. req[h].ts \in Nat /\ req[h].node \in Nodes
      BY <2>1, RequestTypes
    <2>3. Stamp(req[h].ts) \in Nat
      BY <2>2, StampIsNat
    <2>4. MemoryType'
      BY <1>1, <2>2, <2>3, LiveIsCached DEF BeginViolation, Tick, TypeOK, MemoryType, scores
    <2>5. DiskType' /\ HistoryType'
      BY <1>1 DEF BeginViolation, TypeOK, DiskType, HistoryType, disk, history
    <2>6. [NoWork EXCEPT !.start = now, !.stamp = Stamp(req[h].ts)] \in WorkType
      BY <2>3 DEF TypeOK, MemoryType, NoWork, WorkType
    <2>7. HandlerType'
      BY <1>1, <2>1, <2>6 DEF BeginViolation, TypeOK, HandlerType, Requesting
    <2> QED BY <2>4, <2>5, <2>7 DEF TypeOK
  <1>2. ASSUME ViolationRecorded(h) PROVE TypeOK'
    <2> DEFINE reply == [status |-> "LAMPORT_VIOLATION", accepted |-> 0, score |-> 0,
                         ts |-> work[h].stamp, milestone |-> FALSE]
    <2>1. req[h] \in Request /\ Key(req[h]) \in KeyType
      BY <1>2, RequestTypes DEF ViolationRecorded, Requesting
    <2>2. work[h].start \in Nat /\ work[h].stamp \in Nat
      BY DEF TypeOK, HandlerType, WorkType
    <2>3. reply \in Reply
      BY <2>2 DEF Reply
    <2>4. /\ cache' = cache \cup {[key |-> Key(req[h]), at |-> work[h].start, reply |-> reply]}
          /\ SendReply(h, req[h], work[h].start, reply)
      BY <1>2 DEF ViolationRecorded
    <2>5. HandlerType' /\ HistoryType'
      BY <2>1, <2>2, <2>3, <2>4, SendReplyTypes
    <2>6. [key |-> Key(req[h]), at |-> work[h].start, reply |-> reply]
            \in [key : KeyType, at : Nat, reply : Reply]
      BY <2>1, <2>2, <2>3
    <2>7. cache' \in SUBSET [key : KeyType, at : Nat, reply : Reply]
      BY <2>4, <2>6 DEF TypeOK, MemoryType
    <2>8. MemoryType' /\ DiskType'
      BY <1>2, <2>7 DEF ViolationRecorded, TypeOK, MemoryType, DiskType, scores, clocks, disk
    <2> QED BY <2>5, <2>8 DEF TypeOK
  <1> QED BY <1>1, <1>2

(* Counting a batch of add_clicks keeps the types.                          *)
LEMMA ApplyTypes ==
  ASSUME TypeOK, NEW h \in Handlers
  PROVE  ApplyAdd(h) \/ ApplySync(h) => TypeOK'
  <1>1. ASSUME ApplyAdd(h) PROVE TypeOK'
    <2> DEFINE r     == req[h]
               entry == nodes[r.node]
               acc   == Accepted(r.clicks, now - entry.last_ts)
               gain  == IF Boosted(entry) THEN acc * entry.multiplier ELSE acc
               new   == [entry EXCEPT !.last_ts = now, !.score = @ + gain,
                                      !.multiplier = IF Boosted(entry) THEN @ ELSE 1]
    <2>1. pc[h] \in Requesting
      BY <1>1 DEF ApplyAdd, Acquires, Requesting
    <2>2. r.clicks \in Nat /\ r.node \in Nodes
      BY <2>1, RequestTypes
    <2>3. entry \in NodeType /\ now \in Nat
      BY <2>2 DEF TypeOK, MemoryType
    <2>4. entry.last_ts \in Nat /\ entry.score \in Nat /\ entry.multiplier \in {1, 3}
      BY <2>3 DEF NodeType
    <2>5. now - entry.last_ts \in Int
      BY <2>3, <2>4
    <2>6. acc \in Nat
      BY <2>2, <2>5, AcceptedIsNat
    <2>7. acc * entry.multiplier \in Nat
      <3> HIDE DEF acc
      <3> QED BY <2>4, <2>6
    <2>8. gain \in Nat
      BY <2>6, <2>7
    <2>9. new \in NodeType
      <3> HIDE DEF gain
      <3>1. entry.score + gain \in Nat
        BY <2>4, <2>8
      <3> QED BY <2>3, <2>4, <3>1 DEF NodeType
    <2>10. Score(h, now, acc, gain, new) /\ cache' \subseteq cache /\ registered' = registered
      BY <1>1, LiveIsCached DEF ApplyAdd
    <2> HIDE DEF acc, gain, new
    <2> QED BY <2>1, <2>3, <2>6, <2>8, <2>9, <2>10, ScoreTypes
  <1>2. ASSUME ApplySync(h) PROVE TypeOK'
    <2> DEFINE n   == req[h].node
               acc == AcceptedOffline(req[h].clicks, dbSeen[n], work[h].start)
               new == [nodes[n] EXCEPT !.score = dbScore[n] + acc]
    <2>1. pc[h] \in Requesting
      BY <1>2 DEF ApplySync, Requesting
    <2>2. req[h].clicks \in Nat /\ n \in Nodes
      BY <2>1, RequestTypes
    <2>3. work[h].start \in Nat /\ dbSeen[n] \in Nat /\ dbScore[n] \in Nat /\ nodes[n] \in NodeType
      BY <2>2 DEF TypeOK, MemoryType, DiskType, HandlerType, WorkType
    <2>4. acc \in Nat
      BY <2>2, <2>3, AcceptedOfflineIsNat
    <2>5. Score(h, work[h].start, acc, acc, new) /\ cache' \subseteq cache /\ registered' = registered
      BY <1>2 DEF ApplySync
    <2> HIDE DEF acc
    <2>6. new \in NodeType
      <3>1. dbScore[n] + acc \in Nat
        BY <2>3, <2>4
      <3> QED BY <2>3, <3>1 DEF NodeType
    <2> HIDE DEF new
    <2> QED BY <2>1, <2>3, <2>4, <2>5, <2>6, ScoreTypes
  <1> QED BY <1>1, <1>2

(* The steps of sync_offline up to its score keep the types.                *)
LEMMA SyncTypes ==
  ASSUME TypeOK, NEW h \in Handlers
  PROVE  BeginSync(h) \/ RegistryLoaded(h) \/ StatusSaved(h) => TypeOK'
  <1>0. [work[h] EXCEPT !.start = now] \in WorkType /\ [work[h] EXCEPT !.beat = now] \in WorkType
    BY DEF TypeOK, HandlerType, MemoryType, WorkType
  <1>1. ASSUME BeginSync(h) PROVE TypeOK'
    <2>1. MemoryType' /\ DiskType' /\ HistoryType'
      BY <1>1, LiveIsCached DEF BeginSync, TypeOK, MemoryType, DiskType, HistoryType, scores, clocks,
             disk, history
    <2>2. HandlerType'
      BY <1>0, <1>1 DEF BeginSync, Acquires, TypeOK, HandlerType, Requesting
    <2> QED BY <2>1, <2>2 DEF TypeOK
  <1>2. ASSUME RegistryLoaded(h) PROVE TypeOK'
    <2>1. req[h].node \in Nodes
      BY <1>2, RequestTypes DEF RegistryLoaded, Requesting
    <2>2. MemoryType' /\ DiskType' /\ HistoryType'
      BY <1>2, <2>1 DEF RegistryLoaded, TypeOK, MemoryType, DiskType, HistoryType, scores, clocks,
             disk, history
    <2>3. HandlerType'
      BY <1>2 DEF RegistryLoaded, TypeOK, HandlerType, Requesting
    <2> QED BY <2>2, <2>3 DEF TypeOK
  <1>3. ASSUME StatusSaved(h) PROVE TypeOK'
    <2>1. MemoryType' /\ DiskType' /\ HistoryType'
      BY <1>3 DEF StatusSaved, TypeOK, MemoryType, DiskType, HistoryType, memory, scores, clocks,
             disk, history
    <2>2. HandlerType'
      BY <1>0, <1>3 DEF StatusSaved, TypeOK, HandlerType, Requesting
    <2> QED BY <2>1, <2>2 DEF TypeOK
  <1> QED BY <1>1, <1>2, <1>3

(* The saves of score and milestones keep the types.                        *)
LEMMA SavedTypes ==
  ASSUME TypeOK, NEW h \in Handlers
  PROVE  ScoreSaved(h) \/ MilestoneSaved(h) => TypeOK'
  <1>1. ASSUME ScoreSaved(h) PROVE TypeOK'
    <2>1. pc[h] \in Requesting
      BY <1>1 DEF ScoreSaved, Requesting
    <2>2. req[h].node \in Nodes /\ req[h].ts \in Nat
      BY <2>1, RequestTypes
    <2>3. Stamp(req[h].ts) \in Nat
      BY <2>2, StampIsNat
    <2>4. [work[h] EXCEPT !.stamp = Stamp(req[h].ts)] \in WorkType
      BY <2>3 DEF TypeOK, HandlerType, WorkType
    <2>5. HandlerType' /\ milestonesDone' \in SUBSET Milestones
      BY <1>1, <2>1, <2>4, NextMilestoneTypes DEF ScoreSaved
    <2>6. MemoryType'
      BY <1>1, <2>2, <2>3, <2>5 DEF ScoreSaved, Tick, TypeOK, MemoryType, scores
    <2>7. SavedScore(h) \in Nat
      BY <2>2 DEF SavedScore, TypeOK, MemoryType, NodeType
    <2>8. DiskType'
      BY <1>1, <2>2, <2>7 DEF ScoreSaved, TypeOK, DiskType
    <2>9. HistoryType'
      BY <1>1 DEF ScoreSaved, TypeOK, HistoryType, history
    <2> QED BY <2>5, <2>6, <2>8, <2>9 DEF TypeOK
  <1>2. ASSUME MilestoneSaved(h) PROVE TypeOK'
    <2>1. pc[h] \in Requesting
      BY <1>2 DEF MilestoneSaved, Requesting
    <2>2. work[h] \in WorkType
      BY WorkTypes
    <2>3. HandlerType' /\ milestonesDone' \in SUBSET Milestones
      BY <1>2, <2>1, <2>2, NextMilestoneTypes DEF MilestoneSaved
    <2>4. MemoryType' /\ HistoryType'
      BY <1>2, <2>3 DEF MilestoneSaved, TypeOK, MemoryType, HistoryType, scores, clocks, history
    <2>5. PICK m \in work[h].reached : dbMilestones' = [dbMilestones EXCEPT ![m] = @ + 1]
      BY <1>2 DEF MilestoneSaved
    <2>6. m \in Milestones
      BY <2>5, WorkTypes
    <2>7. DiskType'
      BY <1>2, <2>5, <2>6 DEF MilestoneSaved, TypeOK, DiskType
    <2> QED BY <2>3, <2>4, <2>7 DEF TypeOK
  <1> QED BY <1>1, <1>2

(* The steps from the event to the answer keep the types.                   *)
LEMMA AnswerTypes ==
  ASSUME TypeOK, NEW h \in Handlers
  PROVE  EventSaved(h) \/ HeartbeatSaved(h) \/ RankingRead(h) => TypeOK'
  <1>1. ASSUME EventSaved(h) PROVE TypeOK'
    <2>1. pc[h] \in Requesting
      BY <1>1 DEF EventSaved, Requesting
    <2>2. [work[h] EXCEPT !.beat = now] \in WorkType
      BY DEF TypeOK, HandlerType, MemoryType, WorkType
    <2>3. DiskType'
      BY <1>1 DEF EventSaved, TypeOK, DiskType, disk
    <2>4. CASE Respond(h)
      <3>1. /\ cache' \in SUBSET [key : KeyType, at : Nat, reply : Reply]
            /\ HandlerType' /\ HistoryType'
        BY <2>1, <2>4, RespondTypes
      <3>2. MemoryType'
        BY <1>1, <3>1 DEF EventSaved, TypeOK, MemoryType, scores, clocks
      <3> QED BY <2>3, <3>1, <3>2 DEF TypeOK
    <2>5. CASE /\ \/ pc' = [pc EXCEPT ![h] = "activate"] /\ work' = work
                  \/ /\ pc' = [pc EXCEPT ![h] = "beat"]
                     /\ work' = [work EXCEPT ![h].beat = now]
               /\ UNCHANGED <<cache, lock, req, history>>
      <3>1. MemoryType' /\ HistoryType'
        BY <1>1, <2>5 DEF EventSaved, TypeOK, MemoryType, HistoryType, scores, clocks, history
      <3>2. HandlerType'
        BY <2>1, <2>2, <2>5 DEF TypeOK, HandlerType, Requesting
      <3> QED BY <2>3, <3>1, <3>2 DEF TypeOK
    <2> QED BY <1>1, <2>4, <2>5 DEF EventSaved
  <1>2. ASSUME HeartbeatSaved(h) PROVE TypeOK'
    <2>1. pc[h] \in Requesting
      BY <1>2 DEF HeartbeatSaved, Requesting
    <2>2. req[h].node \in Nodes
      BY <2>1, RequestTypes
    <2>3. work[h].beat \in Nat /\ WindowStart(h) \in Nat
      BY DEF WindowStart, TypeOK, HandlerType, WorkType
    <2>4. DiskType'
      BY <1>2, <2>2, <2>3 DEF HeartbeatSaved, TypeOK, DiskType
    <2>5. CASE /\ nodes' = [nodes EXCEPT ![req[h].node].last_ts = WindowStart(h)]
               /\ pc' = [pc EXCEPT ![h] = "ranking"]
               /\ UNCHANGED <<cache, lock, req, work, history>>
      <3>1. nodes[req[h].node] \in NodeType
        BY <2>2 DEF TypeOK, MemoryType
      <3>2. [nodes[req[h].node] EXCEPT !.last_ts = WindowStart(h)] \in NodeType
        BY <2>3, <3>1 DEF NodeType
      <3>3. nodes' \in [Nodes -> NodeType]
        BY <2>2, <2>5, <3>2 DEF TypeOK, MemoryType
      <3>4. MemoryType' /\ HistoryType'
        BY <1>2, <2>5, <3>3 DEF HeartbeatSaved, TypeOK, MemoryType, HistoryType, clocks, history
      <3>5. HandlerType'
        BY <2>1, <2>5 DEF TypeOK, HandlerType, Requesting
      <3> QED BY <2>4, <3>4, <3>5 DEF TypeOK
    <2>6. CASE Respond(h) /\ UNCHANGED nodes
      <3>1. /\ cache' \in SUBSET [key : KeyType, at : Nat, reply : Reply]
            /\ HandlerType' /\ HistoryType'
        BY <2>1, <2>6, RespondTypes
      <3>2. MemoryType'
        BY <1>2, <2>6, <3>1 DEF HeartbeatSaved, TypeOK, MemoryType, clocks
      <3> QED BY <2>4, <3>1, <3>2 DEF TypeOK
    <2> QED BY <1>2, <2>5, <2>6 DEF HeartbeatSaved
  <1>3. ASSUME RankingRead(h) PROVE TypeOK'
    <2>1. /\ cache' \in SUBSET [key : KeyType, at : Nat, reply : Reply]
          /\ HandlerType' /\ HistoryType'
      BY <1>3, RespondTypes DEF RankingRead, Requesting
    <2>2. MemoryType' /\ DiskType'
      BY <1>3, <2>1 DEF RankingRead, TypeOK, MemoryType, DiskType, scores, clocks, disk
    <2> QED BY <2>1, <2>2 DEF TypeOK
  <1> QED BY <1>1, <1>2, <1>3

(* Database errors, restarts and the clock keep the types.                  *)
LEMMA FailureTypes ==
  ASSUME TypeOK
  PROVE  /\ \A h \in Handlers : DatabaseFails(h) => TypeOK'
         /\ Restart => TypeOK'
         /\ TimePasses => TypeOK'
         /\ UNCHANGED vars => TypeOK'
  <1>1. ASSUME NEW h \in Handlers, DatabaseFails(h) PROVE TypeOK'
    <2>1. HandlerType'
      BY <1>1, IdlesTypes DEF DatabaseFails, Released, TypeOK, HandlerType
    <2> QED BY <1>1, <2>1 DEF DatabaseFails, TypeOK, MemoryType, DiskType, HistoryType, memory, scores, clocks,
           disk, history
  <1>2. ASSUME Restart PROVE TypeOK'
    <2>1. Reconstructed \in Nat
      BY SumIsNat, GameManagerAssumption DEF Reconstructed, TypeOK, DiskType
    <2>2. MemoryType' /\ HandlerType'
      BY <1>2, <2>1, DefaultTypes DEF Restart, TypeOK, MemoryType, HandlerType, Requesting
    <2>3. DiskType' /\ HistoryType'
      BY <1>2, <2>1 DEF Restart, TypeOK, DiskType, HistoryType, disk
    <2> QED BY <2>2, <2>3 DEF TypeOK
  <1>3. ASSUME TimePasses PROVE TypeOK'
    BY <1>3 DEF TimePasses, TypeOK, MemoryType, DiskType, HandlerType, HistoryType, memory, scores, clocks,
           disk, history
  <1>4. ASSUME UNCHANGED vars PROVE TypeOK'
    BY <1>4 DEF vars, TypeOK, MemoryType, DiskType, HandlerType, HistoryType, memory, scores, clocks,
           disk, history
  <1> QED BY <1>1, <1>2, <1>3, <1>4

(* Every step keeps the types.                                              *)
LEMMA StepTypes == TypeOK /\ [Next]_vars => TypeOK'
  <1> SUFFICES ASSUME TypeOK, [Next]_vars PROVE TypeOK'
    OBVIOUS
  <1>1. ASSUME NEW h \in Handlers, Step(h) PROVE TypeOK'
    BY <1>1, ArrivalTypes, ReplayTypes, ViolationTypes, ApplyTypes, SyncTypes, SavedTypes,
       AnswerTypes, FailureTypes DEF Step
  <1> QED BY <1>1, ArrivalTypes, PowerupTypes, FailureTypes DEF Next

(* Whatever the constants, every variable keeps its type: no score, stamp,  *)
(* allowance or window of the server ever leaves the naturals.              *)
THEOREM TypeCorrect == Spec => []TypeOK
  BY InitTypes, StepTypes, PTL DEF Spec

-----------------------------------------------------------------------------
(* The inductive invariant behind the stamps.  A reply waits in the lock    *)
(* between its stamp and its sending; only one handler can be there, so the *)
(* stamp it holds is still the newest when it is sent.                      *)

Inside == Requesting \ {"waiting"}

Stamped == {"violation", "milestone", "event", "activate", "beat", "ranking"}

(* The lock and the program counters agree, and each wait has its call.     *)
Mutex ==
  /\ \A h \in Handlers : pc[h] \in Inside <=> lock = h
  /\ \A h \in Handlers : pc[h] \in {"load", "syncing", "read"} => req[h].kind = "sync"

(* Every answer the server remembers was sent, with stamps in clock order.  *)
SentInOrder ==
  /\ \A n \in Nodes : lastLamport[n] <= localLamport
  /\ \A s \in sent : s.reply.ts <= lastLamport[s.key[2]]
  /\ \A e \in cache : \E s \in sent : s.key = e.key /\ s.reply = e.reply

(* The stamp a handler holds is the newest of the clock, and unsent.        *)
PendingIsNewest ==
  \A h \in Handlers : pc[h] \in Stamped =>
    /\ work[h].stamp = lastLamport[req[h].node]
    /\ work[h].stamp = localLamport
    /\ \A s \in sent : s.reply.ts < work[h].stamp

(* An add_clicks batch that was counted lies behind its node's clock, or is *)
(* about to: its handler still waits for the score to be saved.             *)
CountedIsStale ==
  \A a \in applied :
    /\ a.run <= restarts
    /\ a.run = restarts /\ a.key[1] = "add" =>
         \/ a.key[3] <= lastLamport[a.key[2]]
         \/ \E h \in Handlers : pc[h] = "score" /\ Key(req[h]) = a.key

StampInv == TypeOK /\ Mutex /\ SentInOrder /\ PendingIsNewest /\ UniqueStamps

(* A handler that only moves on inside the lock, or only outside it.        *)
LEMMA MutexKept ==
  ASSUME Mutex, NEW h \in Handlers, DOMAIN pc = Handlers, lock' = lock, NEW p,
         pc' = [pc EXCEPT ![h] = p], p \in Inside <=> pc[h] \in Inside,
         \A k \in Handlers : pc'[k] \in {"load", "syncing", "read"} => req'[k].kind = "sync"
  PROVE  Mutex'
  BY DEF Mutex

(* A handler that leaves with the lock leaves nobody inside.                *)
LEMMA MutexReleased ==
  ASSUME Mutex, NEW h \in Handlers, TypeOK, Idles(h),
         lock \in {h, NoHandler}, lock' = NoHandler
  PROVE  Mutex'
  <1>1. pc' = [pc EXCEPT ![h] = "idle"] /\ "idle" \notin Inside
    BY DEF Idles, Inside, Requesting
  <1>2. \A k \in Handlers : k # h => pc[k] \notin Inside
    BY GameManagerAssumption DEF Mutex
  <1>3. \A k \in Handlers : pc'[k] \in Inside <=> lock' = k
    BY <1>1, <1>2, GameManagerAssumption DEF TypeOK, HandlerType
  <1>4. \A k \in Handlers : pc'[k] \notin {"load", "syncing", "read"}
    BY <1>3, GameManagerAssumption DEF Inside, Requesting
  <1> QED BY <1>3, <1>4 DEF Mutex

(* Who is inside holds the lock and is alone.                               *)
LEMMA InsideHolds ==
  ASSUME Mutex, NEW h \in Handlers, pc[h] \in Inside
  PROVE  lock = h /\ \A k \in Handlers : pc[k] \in Inside => k = h
  BY DEF Mutex

(* The waits of the code that runs under the lock, one by one.              *)
LEMMA WaitsInside == Inside = {"violation", "load", "syncing", "read", "score", "milestone",
                               "event", "activate", "beat", "ranking"}
  BY DEF Inside, Requesting

(* The answer releases the lock.                                            *)
LEMMA RespondMutex ==
  ASSUME TypeOK, Mutex, NEW h \in Handlers, pc[h] \in Inside, Respond(h)
  PROVE  Mutex'
  <1>1. Idles(h) /\ lock' = NoHandler
    BY DEF Respond, SendReply
  <1>2. lock = h
    BY InsideHolds
  <1> QED BY <1>1, <1>2, MutexReleased

(* The loop over the milestones stays inside.                               *)
LEMMA NextMilestoneMutex ==
  ASSUME TypeOK, Mutex, NEW h \in Handlers, pc[h] \in Inside, NEW w, NextMilestone(h, w),
         lock' = lock, req' = req
  PROVE  Mutex'
  <1>1. PICK p \in {"event", "milestone"} : pc' = [pc EXCEPT ![h] = p]
    BY DEF NextMilestone
  <1>2. p \in Inside
    BY WaitsInside
  <1>3. DOMAIN pc = Handlers
    BY DEF TypeOK, HandlerType
  <1>4. \A k \in Handlers : pc'[k] \in {"load", "syncing", "read"} => req'[k].kind = "sync"
    BY <1>1, <1>3 DEF Mutex
  <1> QED BY <1>1, <1>2, <1>3, <1>4, MutexKept

(* Every step keeps the two calls apart.                                    *)
LEMMA MutexStep == TypeOK /\ Mutex /\ [Next]_vars => Mutex'
  <1> SUFFICES ASSUME TypeOK, Mutex, [Next]_vars PROVE Mutex'
    OBVIOUS
  <1> USE WaitsInside
  <1>0. DOMAIN pc = Handlers /\ DOMAIN req = Handlers
    BY DEF TypeOK, HandlerType
  <1>1. ASSUME NEW h \in Handlers, Step(h) PROVE Mutex'
    <2>1. CASE NodeUpserted(h)
      <3>1. pc' = [pc EXCEPT ![h] = "idle"] /\ pc[h] \notin Inside /\ "idle" \notin Inside /\ lock' = lock
        BY <2>1 DEF NodeUpserted, Idles
      <3>2. \A k \in Handlers : pc'[k] \in {"load", "syncing", "read"} => req'[k].kind = "sync"
        BY <2>1, <1>0 DEF NodeUpserted, Idles, Mutex
      <3> QED BY <3>1, <3>2, <1>0, MutexKept
    <2>2. CASE ReplayCached(h)
      BY <2>2, MutexReleased DEF ReplayCached, Acquires, SendReply
    <2>3. CASE BeginViolation(h)
      BY <2>3, <1>0, GameManagerAssumption DEF BeginViolation, Acquires, Mutex
    <2>4. CASE ViolationRecorded(h)
      BY <2>4, MutexReleased, InsideHolds DEF ViolationRecorded, SendReply
    <2>5. CASE ApplyAdd(h)
      BY <2>5, <1>0, GameManagerAssumption DEF ApplyAdd, Score, Acquires, Mutex
    <2>6. CASE BeginSync(h)
      BY <2>6, <1>0, GameManagerAssumption DEF BeginSync, Acquires, Mutex
    <2>7. CASE RegistryLoaded(h)
      BY <2>7, <1>0 DEF RegistryLoaded, Mutex
    <2>8. CASE ApplySync(h)
      BY <2>8, <1>0 DEF ApplySync, Score, Mutex
    <2>9. CASE ScoreSaved(h)
      BY <2>9, NextMilestoneMutex DEF ScoreSaved
    <2>10. CASE MilestoneSaved(h)
      BY <2>10, NextMilestoneMutex DEF MilestoneSaved
    <2>11. CASE EventSaved(h)
      <3>1. CASE Respond(h)
        BY <2>11, <3>1, RespondMutex DEF EventSaved
      <3>2. CASE \E p \in {"activate", "beat"} : pc' = [pc EXCEPT ![h] = p] /\ UNCHANGED <<lock, req>>
        BY <2>11, <3>2, <1>0 DEF EventSaved, Mutex
      <3> QED BY <2>11, <3>1, <3>2 DEF EventSaved
    <2>12. CASE StatusSaved(h)
      BY <2>12, <1>0 DEF StatusSaved, Mutex
    <2>13. CASE HeartbeatSaved(h)
      <3>1. CASE Respond(h)
        BY <2>13, <3>1, RespondMutex DEF HeartbeatSaved
      <3>2. CASE pc' = [pc EXCEPT ![h] = "ranking"] /\ UNCHANGED <<lock, req>>
        BY <2>13, <3>2, <1>0 DEF HeartbeatSaved, Mutex
      <3> QED BY <2>13, <3>1, <3>2 DEF HeartbeatSaved
    <2>14. CASE RankingRead(h)
      BY <2>14, RespondMutex DEF RankingRead
    <2>15. CASE DatabaseFails(h)
      <3>1. CASE lock = h
        BY <2>15, <3>1, MutexReleased DEF DatabaseFails, Released
      <3>2. CASE lock # h
        BY <2>15, <3>2, <1>0 DEF DatabaseFails, Released, Idles, Mutex
      <3> QED BY <3>1, <3>2
    <2> QED BY <1>1, <2>1, <2>2, <2>3, <2>4, <2>5, <2>6, <2>7, <2>8, <2>9, <2>10, <2>11,
               <2>12, <2>13, <2>14, <2>15 DEF Step
  <1>2. ASSUME NEW h \in Handlers, NEW r \in Request, Receive(h, r) PROVE Mutex'
    BY <1>2, <1>0 DEF Receive, Mutex
  <1>3. ASSUME NEW h \in Handlers, NEW n \in Nodes, RegisterNode(h, n) PROVE Mutex'
    BY <1>3, <1>0 DEF RegisterNode, Mutex
  <1>4. ASSUME NEW n \in Nodes, ActivatePowerup(n) PROVE Mutex'
    BY <1>4 DEF ActivatePowerup, Mutex
  <1>5. CASE Restart
    BY <1>5, GameManagerAssumption DEF Restart, Mutex
  <1>6. CASE TimePasses
    BY <1>6 DEF TimePasses, Mutex
  <1>7. CASE UNCHANGED vars
    BY <1>7 DEF vars, Mutex
  <1> QED BY <1>1, <1>2, <1>3, <1>4, <1>5, <1>6, <1>7 DEF Next

-----------------------------------------------------------------------------
(* The four ways a step treats the stamps: it leaves them alone, draws a    *)
(* new one, sends the one it holds, or sends an old answer again.           *)

Stamps == SentInOrder /\ PendingIsNewest /\ UniqueStamps

(* What the type invariant says of stamps.                                  *)
LEMMA StampTypes ==
  ASSUME TypeOK
  PROVE  /\ localLamport \in Nat
         /\ \A n \in Nodes : lastLamport[n] \in Nat
         /\ \A s \in sent : s.reply.ts \in Nat /\ s.key[2] \in Nodes
         /\ \A h \in Handlers : work[h].stamp \in Nat
         /\ \A h \in Handlers : pc[h] \in Stamped => req[h].node \in Nodes
  <1>1. \A s \in sent : s.reply.ts \in Nat /\ s.key[2] \in Nodes
    BY DEF TypeOK, HistoryType, Reply, KeyType
  <1>2. \A h \in Handlers : work[h].stamp \in Nat
    BY DEF TypeOK, HandlerType, WorkType
  <1>3. \A h \in Handlers : pc[h] \in Stamped => req[h].node \in Nodes
    BY RequestTypes DEF Stamped, Requesting
  <1> QED BY <1>1, <1>2, <1>3 DEF TypeOK, MemoryType

(* A step that issues no stamp and sends no answer keeps the order.         *)
LEMMA StampsKept ==
  ASSUME Stamps, UNCHANGED <<lastLamport, localLamport, sent>>, cache' \subseteq cache,
         \A k \in Handlers : pc'[k] \in Stamped =>
            pc[k] \in Stamped /\ work'[k].stamp = work[k].stamp /\ req'[k] = req[k]
  PROVE  Stamps'
  BY DEF Stamps, SentInOrder, PendingIsNewest, UniqueStamps

(* The tick of the clock keeps the order: the new stamp is the newest.      *)
LEMMA StampsTicked ==
  ASSUME TypeOK, Stamps, NEW h \in Handlers, pc[h] \in Inside \cup {"waiting"},
         Tick(req[h], Stamp(req[h].ts)), sent' = sent, cache' \subseteq cache, req' = req,
         work'[h].stamp = Stamp(req[h].ts), \A k \in Handlers : pc'[k] \in Stamped => k = h
  PROVE  Stamps'
  <1> DEFINE n == req[h].node
             st == Stamp(req[h].ts)
  <1>1. n \in Nodes /\ req[h].ts \in Nat
    BY RequestTypes DEF Inside, Requesting
  <1>2. st \in Nat /\ st > localLamport
    BY <1>1, StampIsNat
  <1>3. lastLamport' = [lastLamport EXCEPT ![n] = st] /\ localLamport' = st
    BY DEF Tick
  <1>4. lastLamport'[n] = st /\ \A m \in Nodes : m # n => lastLamport'[m] = lastLamport[m]
    BY <1>1, <1>3 DEF TypeOK, MemoryType
  <1> HIDE DEF st
  <1>5. \A s \in sent : s.key[2] \in Nodes /\ s.reply.ts \in Nat /\ s.reply.ts <= localLamport
    BY StampTypes DEF Stamps, SentInOrder
  <1>6. \A m \in Nodes : lastLamport[m] <= localLamport /\ lastLamport[m] \in Nat
    BY StampTypes DEF Stamps, SentInOrder
  <1>7. \A m \in Nodes : lastLamport'[m] <= localLamport'
    BY <1>2, <1>3, <1>4, <1>6, StampTypes
  <1>8. \A s \in sent' : s.reply.ts <= lastLamport'[s.key[2]]
    <2> SUFFICES ASSUME NEW s \in sent PROVE s.reply.ts <= lastLamport'[s.key[2]]
      OBVIOUS
    <2>1. CASE s.key[2] = n
      BY <2>1, <1>2, <1>4, <1>5, StampTypes
    <2>2. CASE s.key[2] # n
      BY <2>2, <1>4, <1>5 DEF Stamps, SentInOrder
    <2> QED BY <2>1, <2>2
  <1>9. SentInOrder'
    BY <1>7, <1>8 DEF Stamps, SentInOrder
  <1>10. PendingIsNewest'
    <2>1. work'[h].stamp = st
      BY DEF st
    <2>2. \A s \in sent' : s.reply.ts < st
      BY <1>2, <1>5, StampTypes
    <2> QED BY <2>1, <2>2, <1>3, <1>4 DEF PendingIsNewest
  <1>11. UniqueStamps'
    BY DEF Stamps, UniqueStamps
  <1> QED BY <1>9, <1>10, <1>11 DEF Stamps

(* Sending the answer of a stamped request keeps the order.                 *)
LEMMA StampsSent ==
  ASSUME TypeOK, Stamps, NEW h \in Handlers, pc[h] \in Stamped, NEW at, NEW reply,
         reply.ts = work[h].stamp,
         cache' = cache \cup {[key |-> Key(req[h]), at |-> at, reply |-> reply]},
         SendReply(h, req[h], at, reply), UNCHANGED <<lastLamport, localLamport>>,
         \A k \in Handlers : pc'[k] \notin Stamped
  PROVE  Stamps'
  <1> DEFINE x == [key |-> Key(req[h]), at |-> at, clicks |-> req[h].clicks, reply |-> reply]
             y == [key |-> Key(req[h]), at |-> at, reply |-> reply]
  <1>1. sent' = sent \cup {x} /\ cache' = cache \cup {y}
    BY DEF SendReply
  <1>2. x.key[2] = req[h].node /\ x.reply = reply /\ y.reply = reply /\ x.key = y.key
    BY DEF Key
  <1>3. /\ reply.ts = lastLamport[req[h].node]
        /\ \A s \in sent : s.reply.ts < reply.ts /\ s.reply.ts \in Nat /\ reply.ts \in Nat
    BY StampTypes DEF Stamps, PendingIsNewest
  <1>4. reply.ts \in Nat
    BY StampTypes
  <1> HIDE DEF x, y
  <1>5. SentInOrder'
    <2>1. \A s \in sent' : s.reply.ts <= lastLamport'[s.key[2]]
      <3>1. ASSUME NEW s \in sent PROVE s.reply.ts <= lastLamport'[s.key[2]]
        BY DEF Stamps, SentInOrder
      <3>2. x.reply.ts <= lastLamport'[x.key[2]]
        BY <1>2, <1>3, <1>4
      <3> QED BY <1>1, <3>1, <3>2
    <2>2. \A e \in cache' : \E s \in sent' : s.key = e.key /\ s.reply = e.reply
      BY <1>1, <1>2 DEF Stamps, SentInOrder
    <2> QED BY <2>1, <2>2 DEF Stamps, SentInOrder
  <1>6. PendingIsNewest'
    BY DEF PendingIsNewest
  <1>7. UniqueStamps'
    <2> SUFFICES ASSUME NEW a \in sent', NEW b \in sent', a.reply.ts = b.reply.ts
                 PROVE  a.key = b.key
      BY DEF UniqueStamps
    <2>1. CASE a \in sent /\ b \in sent
      BY <2>1 DEF Stamps, UniqueStamps
    <2>2. CASE a = x /\ b = x
      BY <2>2
    <2>3. CASE (a = x /\ b \in sent) \/ (a \in sent /\ b = x)
      BY <2>3, <1>2, <1>3
    <2> QED BY <1>1, <2>1, <2>2, <2>3
  <1> QED BY <1>5, <1>6, <1>7 DEF Stamps

(* Sending a cached answer again keeps the order.                           *)
LEMMA StampsReplayed ==
  ASSUME TypeOK, Stamps, NEW h \in Handlers, NEW e \in cache, e.key = Key(req[h]),
         SendReply(h, req[h], e.at, e.reply), UNCHANGED <<lastLamport, localLamport>>,
         cache' \subseteq cache, \A k \in Handlers : pc'[k] \notin Stamped
  PROVE  Stamps'
  <1> DEFINE x == [key |-> Key(req[h]), at |-> e.at, clicks |-> req[h].clicks, reply |-> e.reply]
  <1>1. sent' = sent \cup {x}
    BY DEF SendReply
  <1>2. x.key = e.key /\ x.reply = e.reply
    OBVIOUS
  <1>3. PICK t \in sent : t.key = e.key /\ t.reply = e.reply
    BY DEF Stamps, SentInOrder
  <1> HIDE DEF x
  <1>4. SentInOrder' /\ UniqueStamps'
    BY <1>1, <1>2, <1>3 DEF Stamps, SentInOrder, UniqueStamps
  <1>5. PendingIsNewest'
    BY DEF PendingIsNewest
  <1> QED BY <1>4, <1>5 DEF Stamps

(* While the holder of the lock leaves, nobody carries a pending stamp.     *)
LEMMA OthersOutside ==
  ASSUME TypeOK, Mutex, NEW h \in Handlers, lock \in {h, NoHandler}, Idles(h)
  PROVE  \A k \in Handlers : pc'[k] \notin Stamped
  <1>1. pc' = [pc EXCEPT ![h] = "idle"] /\ DOMAIN pc = Handlers
    BY DEF Idles, TypeOK, HandlerType
  <1>2. \A k \in Handlers : k # h => pc[k] \notin Inside
    BY GameManagerAssumption DEF Mutex
  <1> QED BY <1>1, <1>2, WaitsInside DEF Stamped

(* The answer of either call keeps the order.                               *)
LEMMA RespondStamps ==
  ASSUME TypeOK, Mutex, Stamps, NEW h \in Handlers, pc[h] \in Stamped, Respond(h),
         UNCHANGED <<lastLamport, localLamport>>
  PROVE  Stamps'
  <1>1. PICK reply : /\ reply.ts = work[h].stamp
                     /\ cache' = cache \cup {[key |-> Key(req[h]), at |-> work[h].start, reply |-> reply]}
                     /\ SendReply(h, req[h], work[h].start, reply)
    BY DEF Respond
  <1>2. lock = h /\ Idles(h)
    BY <1>1, InsideHolds, WaitsInside DEF Stamped, SendReply
  <1> QED BY <1>1, <1>2, OthersOutside, StampsSent

(* The loop over the milestones keeps the stamp of the request.             *)
LEMMA MilestoneStamp ==
  ASSUME TypeOK, NEW h \in Handlers, NEW w \in WorkType, NextMilestone(h, w)
  PROVE  /\ work'[h].stamp = w.stamp
         /\ \A k \in Handlers : k # h => work'[k] = work[k] /\ pc'[k] = pc[k]
  BY DEF NextMilestone, TypeOK, HandlerType, WorkType

(* Every step keeps the order of the stamps.                                *)
LEMMA StampsStep == TypeOK /\ Mutex /\ Stamps /\ [Next]_vars => Stamps'
  <1> SUFFICES ASSUME TypeOK, Mutex, Stamps, [Next]_vars PROVE Stamps'
    OBVIOUS
  <1>0. DOMAIN pc = Handlers /\ DOMAIN req = Handlers /\ DOMAIN work = Handlers
        /\ \A k \in Handlers : work[k] \in WorkType
    BY DEF TypeOK, HandlerType
  <1> USE DEF memory, clocks, history
  <1>1. ASSUME NEW h \in Handlers, Step(h) PROVE Stamps'
    <2>0. ASSUME NEW p \in {"load", "syncing", "read", "score"}, pc' = [pc EXCEPT ![h] = p],
                 req' = req, \A k \in Handlers : k # h => work'[k] = work[k]
          PROVE  \A k \in Handlers : pc'[k] \in Stamped =>
                   pc[k] \in Stamped /\ work'[k].stamp = work[k].stamp /\ req'[k] = req[k]
      BY <2>0, <1>0 DEF Stamped
    <2>1. CASE NodeUpserted(h)
      <3>1. \A k \in Handlers : pc'[k] \in Stamped =>
              pc[k] \in Stamped /\ work'[k].stamp = work[k].stamp /\ req'[k] = req[k]
        BY <2>1, <1>0 DEF NodeUpserted, Idles, Stamped
      <3> QED BY <2>1, <3>1, StampsKept DEF NodeUpserted
    <2>2. CASE ReplayCached(h)
      <3>1. PICK e \in cache : e.key = Key(req[h]) /\ SendReply(h, req[h], e.at, e.reply)
        BY <2>2, LiveIsCached DEF ReplayCached, Cached
      <3>2. \A k \in Handlers : pc'[k] \notin Stamped
        BY <2>2, <3>1, OthersOutside DEF ReplayCached, Acquires, SendReply
      <3> QED BY <2>2, <3>1, <3>2, LiveIsCached, StampsReplayed DEF ReplayCached
    <2>3. CASE BeginViolation(h)
      <3>1. \A k \in Handlers : pc'[k] \in Stamped => k = h
        BY <2>3, <1>0, WaitsInside, GameManagerAssumption DEF BeginViolation, Acquires, Mutex, Stamped
      <3>2. work'[h].stamp = Stamp(req[h].ts)
        BY <2>3, <1>0 DEF BeginViolation, NoWork
      <3> QED BY <2>3, <3>1, <3>2, LiveIsCached, StampsTicked DEF BeginViolation, Acquires
    <2>4. CASE ViolationRecorded(h)
      <3>1. PICK reply : /\ reply.ts = work[h].stamp
                         /\ cache' = cache \cup {[key |-> Key(req[h]), at |-> work[h].start, reply |-> reply]}
                         /\ SendReply(h, req[h], work[h].start, reply)
        BY <2>4 DEF ViolationRecorded
      <3>2. lock = h /\ Idles(h) /\ pc[h] \in Stamped
        BY <2>4, <3>1, InsideHolds, WaitsInside DEF ViolationRecorded, Stamped, SendReply
      <3> QED BY <2>4, <3>1, <3>2, OthersOutside, StampsSent DEF ViolationRecorded
    <2>5. CASE ApplyAdd(h)
      BY <2>0, <2>5, <1>0, LiveIsCached, StampsKept DEF ApplyAdd, Score
    <2>6. CASE BeginSync(h)
      BY <2>0, <2>6, <1>0, LiveIsCached, StampsKept DEF BeginSync
    <2>7. CASE RegistryLoaded(h)
      BY <2>0, <2>7, StampsKept DEF RegistryLoaded
    <2>8. CASE ApplySync(h)
      BY <2>0, <2>8, <1>0, StampsKept DEF ApplySync, Score
    <2>9. CASE ScoreSaved(h)
      <3> DEFINE w == [work[h] EXCEPT !.stamp = Stamp(req[h].ts)]
      <3>1. pc[h] \in Requesting /\ pc[h] \in Inside
        BY <2>9, WaitsInside DEF ScoreSaved, Requesting
      <3>2. Stamp(req[h].ts) \in Nat
        BY <3>1, RequestTypes, StampIsNat
      <3>3. w \in WorkType /\ w.stamp = Stamp(req[h].ts)
        BY <1>0, <3>2 DEF WorkType
      <3>4. work'[h].stamp = Stamp(req[h].ts) /\ \A k \in Handlers : k # h => pc'[k] = pc[k]
        BY <2>9, <3>3, MilestoneStamp DEF ScoreSaved
      <3>5. \A k \in Handlers : pc'[k] \in Stamped => k = h
        BY <3>1, <3>4, InsideHolds, WaitsInside DEF Stamped
      <3> QED BY <2>9, <3>1, <3>4, <3>5, StampsTicked DEF ScoreSaved
    <2>10. CASE MilestoneSaved(h)
      <3>1. work'[h].stamp = work[h].stamp
            /\ \A k \in Handlers : k # h => work'[k] = work[k] /\ pc'[k] = pc[k]
        BY <2>10, <1>0, MilestoneStamp DEF MilestoneSaved
      <3>2. \A k \in Handlers : pc'[k] \in Stamped =>
              pc[k] \in Stamped /\ work'[k].stamp = work[k].stamp /\ req'[k] = req[k]
        BY <2>10, <3>1 DEF MilestoneSaved, Stamped
      <3> QED BY <2>10, <3>2, StampsKept DEF MilestoneSaved
    <2>11. CASE EventSaved(h)
      <3>1. CASE Respond(h)
        BY <2>11, <3>1, RespondStamps DEF EventSaved, Stamped
      <3>2. CASE /\ \E p \in {"activate", "beat"} : pc' = [pc EXCEPT ![h] = p]
                 /\ work' = work \/ work' = [work EXCEPT ![h].beat = now]
                 /\ UNCHANGED <<cache, req, sent>>
        <4>1. \A k \in Handlers : work'[k].stamp = work[k].stamp
          BY <3>2, <1>0 DEF WorkType
        <4>2. \A k \in Handlers : pc'[k] \in Stamped =>
                pc[k] \in Stamped /\ work'[k].stamp = work[k].stamp /\ req'[k] = req[k]
          BY <2>11, <3>2, <4>1, <1>0 DEF EventSaved, Stamped
        <4> QED BY <2>11, <3>2, <4>2, StampsKept DEF EventSaved
      <3> QED BY <2>11, <3>1, <3>2 DEF EventSaved
    <2>12. CASE StatusSaved(h)
      <3>1. \A k \in Handlers : work'[k].stamp = work[k].stamp
        BY <2>12, <1>0 DEF StatusSaved, WorkType
      <3>2. \A k \in Handlers : pc'[k] \in Stamped =>
              pc[k] \in Stamped /\ work'[k].stamp = work[k].stamp /\ req'[k] = req[k]
        BY <2>12, <3>1, <1>0 DEF StatusSaved, Stamped
      <3> QED BY <2>12, <3>2, StampsKept DEF StatusSaved
    <2>13. CASE HeartbeatSaved(h)
      <3>1. CASE Respond(h)
        BY <2>13, <3>1, RespondStamps DEF HeartbeatSaved, Stamped
      <3>2. CASE pc' = [pc EXCEPT ![h] = "ranking"] /\ UNCHANGED <<cache, req, work, sent>>
        <4>1. \A k \in Handlers : pc'[k] \in Stamped =>
                pc[k] \in Stamped /\ work'[k].stamp = work[k].stamp /\ req'[k] = req[k]
          BY <2>13, <3>2, <1>0 DEF HeartbeatSaved, Stamped
        <4> QED BY <2>13, <3>2, <4>1, StampsKept DEF HeartbeatSaved
      <3> QED BY <2>13, <3>1, <3>2 DEF HeartbeatSaved
    <2>14. CASE RankingRead(h)
      BY <2>14, RespondStamps DEF RankingRead, Stamped
    <2>15. CASE DatabaseFails(h)
      <3>1. \A k \in Handlers : pc'[k] \in Stamped =>
              pc[k] \in Stamped /\ work'[k].stamp = work[k].stamp /\ req'[k] = req[k]
        BY <2>15, <1>0 DEF DatabaseFails, Idles, Stamped
      <3> QED BY <2>15, <3>1, StampsKept DEF DatabaseFails
    <2> QED BY <1>1, <2>1, <2>2, <2>3, <2>4, <2>5, <2>6, <2>7, <2>8, <2>9, <2>10, <2>11,
               <2>12, <2>13, <2>14, <2>15 DEF Step
  <1>2. ASSUME NEW h \in Handlers, NEW r \in Request, Receive(h, r) PROVE Stamps'
    <2>1. \A k \in Handlers : pc'[k] \in Stamped =>
            pc[k] \in Stamped /\ work'[k].stamp = work[k].stamp /\ req'[k] = req[k]
      BY <1>2, <1>0 DEF Receive, Stamped
    <2> QED BY <1>2, <2>1, StampsKept DEF Receive
  <1>3. ASSUME NEW h \in Handlers, NEW n \in Nodes, RegisterNode(h, n) PROVE Stamps'
    <2>1. \A k \in Handlers : pc'[k] \in Stamped =>
            pc[k] \in Stamped /\ work'[k].stamp = work[k].stamp /\ req'[k] = req[k]
      BY <1>3, <1>0 DEF RegisterNode, Stamped
    <2> QED BY <1>3, <2>1, StampsKept DEF RegisterNode
  <1>4. ASSUME NEW n \in Nodes, ActivatePowerup(n) PROVE Stamps'
    BY <1>4, StampsKept DEF ActivatePowerup
  <1>5. CASE Restart
    BY <1>5, GameManagerAssumption DEF Restart, Stamps, SentInOrder, PendingIsNewest, UniqueStamps, Stamped
  <1>6. CASE TimePasses
    BY <1>6, StampsKept DEF TimePasses
  <1>7. CASE UNCHANGED vars
    BY <1>7, StampsKept DEF vars
  <1> QED BY <1>1, <1>2, <1>3, <1>4, <1>5, <1>6, <1>7 DEF Next

(* The inductive invariant holds in every reachable state.                  *)
LEMMA StampInvHolds == Spec => []StampInv
  <1>1. Init => StampInv
    <2> SUFFICES ASSUME Init PROVE StampInv
      OBVIOUS
    <2>1. Mutex
      BY GameManagerAssumption, WaitsInside DEF Init, Mutex
    <2>2. SentInOrder /\ PendingIsNewest /\ UniqueStamps
      BY DEF Init, SentInOrder, PendingIsNewest, UniqueStamps, Stamped
    <2> QED BY <2>1, <2>2, InitTypes DEF StampInv
  <1>2. StampInv /\ [Next]_vars => StampInv'
    BY StepTypes, MutexStep, StampsStep DEF StampInv, Stamps
  <1> QED BY <1>1, <1>2, PTL DEF Spec

(* Two requests never share a stamp, in any run of any number of nodes and  *)
(* handlers, with failing database calls and restarts.                      *)
THEOREM StampsAreUnique == Spec => []UniqueStamps
  <1>1. StampInv => UniqueStamps
    BY DEF StampInv
  <1> QED BY <1>1, StampInvHolds, PTL

-----------------------------------------------------------------------------
(* Action properties of the counting step.                                  *)

(* Only two actions count a batch.                                          *)
LEMMA CountsInApply ==
  ASSUME TypeOK, [Next]_vars, NEW h \in Handlers, Applies(h)
  PROVE  ApplyAdd(h) \/ ApplySync(h)
  <1>0. DOMAIN pc = Handlers /\ pc'[h] # pc[h]
    BY DEF TypeOK, HandlerType, Applies
  <1>1. ASSUME NEW k \in Handlers, Step(k), k # h PROVE FALSE
    <2>1. pc'[h] = pc[h]
      BY <1>0, <1>1 DEF Step, NodeUpserted, ReplayCached, BeginViolation, ViolationRecorded,
         ApplyAdd, BeginSync, RegistryLoaded, ApplySync, ScoreSaved, MilestoneSaved, EventSaved,
         StatusSaved, HeartbeatSaved, RankingRead, DatabaseFails, Idles, SendReply, Score,
         NextMilestone, Respond
    <2> QED BY <2>1, <1>0
  <1>2. ASSUME Step(h), ~ApplyAdd(h), ~ApplySync(h) PROVE FALSE
    BY <1>0, <1>2 DEF Applies, Step, NodeUpserted, ReplayCached, BeginViolation, ViolationRecorded,
       BeginSync, RegistryLoaded, ApplySync, ScoreSaved, MilestoneSaved, EventSaved,
       StatusSaved, HeartbeatSaved, RankingRead, DatabaseFails, Idles, SendReply,
       NextMilestone, Respond, Acquires
  <1>3. ~UNCHANGED vars
    BY <1>0 DEF vars
  <1>4. \A k \in Handlers : /\ \A r \in Request : ~Receive(k, r)
                            /\ \A n \in Nodes : ~RegisterNode(k, n)
    BY <1>0 DEF Receive, RegisterNode, Applies
  <1>5. /\ ~Restart /\ ~TimePasses
        /\ \A n \in Nodes : ~ActivatePowerup(n)
    BY <1>0 DEF Restart, TimePasses, ActivatePowerup, Applies
  <1> QED BY <1>1, <1>2, <1>3, <1>4, <1>5 DEF Next

(* Each counts batches of its own kind.                                     *)
LEMMA AddsApplyInApplyAdd ==
  ASSUME TypeOK, Mutex, [Next]_vars, NEW h \in Handlers, Applies(h), req[h].kind = "add"
  PROVE  ApplyAdd(h)
  BY CountsInApply DEF ApplySync, Mutex

(* And sync_offline its own.                                                *)
LEMMA SyncsApplyInApplySync ==
  ASSUME TypeOK, [Next]_vars, NEW h \in Handlers, Applies(h), req[h].kind = "sync"
  PROVE  ApplySync(h)
  BY CountsInApply DEF ApplyAdd, Acquires

(* A batch that add_clicks counts comes from a node that had seen every     *)
(* answer it was given: causal delivery holds for every instance.           *)
THEOREM DeliveryIsCausal == Spec => CausalDelivery
  <1> DEFINE Counted ==
        \A h \in Handlers : Applies(h) /\ req[h].kind = "add" =>
          \A s \in sent : s.key[2] = req[h].node => req[h].ts > s.reply.ts
  <1>1. StampInv /\ [Next]_vars => Counted
    <2> SUFFICES ASSUME StampInv, [Next]_vars, NEW h \in Handlers, Applies(h),
                        req[h].kind = "add", NEW s \in sent, s.key[2] = req[h].node
                 PROVE  req[h].ts > s.reply.ts
      OBVIOUS
    <2>1. ApplyAdd(h)
      BY AddsApplyInApplyAdd DEF StampInv
    <2>2. ~(req[h].ts <= lastLamport[req[h].node])
      BY <2>1 DEF ApplyAdd, Stale
    <2>3. req[h].ts \in Nat /\ req[h].node \in Nodes
      BY <2>1, RequestTypes DEF ApplyAdd, Acquires, Requesting, StampInv
    <2>4. s.reply.ts \in Nat /\ lastLamport[req[h].node] \in Nat
      BY <2>3, StampTypes DEF StampInv
    <2>5. s.reply.ts <= lastLamport[req[h].node]
      BY DEF StampInv, SentInOrder
    <2> QED BY <2>2, <2>3, <2>4, <2>5
  <1>2. StampInv /\ [Next]_vars => [Counted]_vars
    BY <1>1
  <1> QED BY <1>2, StampInvHolds, PTL DEF Spec, CausalDelivery

-----------------------------------------------------------------------------
(* add_clicks counts a batch once, provided update_score does not raise.    *)

(* What the type invariant says of counted batches.                         *)
LEMMA CountedTypes ==
  ASSUME TypeOK
  PROVE  /\ restarts \in Nat
         /\ \A a \in applied : a.run \in Nat /\ a.key[2] \in Nodes /\ a.key[3] \in Nat
  <1>1. \A t \in 1..MaxTs : t \in Nat
    BY GameManagerAssumption
  <1> QED BY <1>1 DEF TypeOK, HistoryType, KeyType

(* A step that counts nothing and never turns a clock back keeps counted    *)
(* batches stale.                                                           *)
LEMMA CountedKept ==
  ASSUME TypeOK, CountedIsStale, UNCHANGED <<applied, restarts>>,
         \A n \in Nodes : lastLamport'[n] \in Nat /\ lastLamport'[n] >= lastLamport[n],
         \A k \in Handlers : pc[k] = "score" => pc'[k] = "score" /\ req'[k] = req[k]
  PROVE  CountedIsStale'
  <1>1. \A n \in Nodes : lastLamport[n] \in Nat
    BY StampTypes
  <1> QED BY <1>1, CountedTypes DEF CountedIsStale, Key

(* A tick puts the node's clock beyond the batch and no clock back.         *)
LEMMA TickGrows ==
  ASSUME TypeOK, SentInOrder, NEW r, r.node \in Nodes, r.ts \in Nat, Tick(r, Stamp(r.ts))
  PROVE  /\ lastLamport'[r.node] > r.ts
         /\ \A n \in Nodes : lastLamport'[n] \in Nat /\ lastLamport'[n] >= lastLamport[n]
  <1>1. Stamp(r.ts) \in Nat /\ Stamp(r.ts) > r.ts /\ Stamp(r.ts) > localLamport
    BY StampIsNat
  <1>2. \A n \in Nodes : lastLamport'[n] = IF n = r.node THEN Stamp(r.ts) ELSE lastLamport[n]
    BY DEF Tick, TypeOK, MemoryType
  <1>3. \A n \in Nodes : lastLamport[n] \in Nat /\ lastLamport[n] <= localLamport /\ localLamport \in Nat
    BY StampTypes DEF SentInOrder
  <1> QED BY <1>1, <1>2, <1>3

(* A batch just counted waits for the save of its score.                    *)
LEMMA ScoreCounted ==
  ASSUME TypeOK, CountedIsStale, NEW h \in Handlers, pc[h] # "score",
         NEW start, NEW accepted, NEW gain, NEW entry, Score(h, start, accepted, gain, entry)
  PROVE  CountedIsStale'
  <1> DEFINE x == [key |-> Key(req[h]), at |-> start, run |-> restarts, accepted |-> accepted]
  <1>1. applied' = applied \cup {x} /\ x.run = restarts /\ x.key = Key(req[h])
    BY DEF Score
  <1> HIDE DEF x
  <1>2. pc'[h] = "score" /\ \A k \in Handlers : pc[k] = "score" => pc'[k] = "score"
    BY DEF Score, TypeOK, HandlerType
  <1>3. UNCHANGED <<restarts, req, lastLamport>>
    BY DEF Score, clocks
  <1> QED BY <1>1, <1>2, <1>3, CountedTypes DEF CountedIsStale, Key

(* If that save never raises, every step keeps counted batches stale.       *)
LEMMA CountedStep ==
  "score" \notin Faults =>
    (StampInv /\ CountedIsStale /\ [Next]_vars => CountedIsStale')
  <1> SUFFICES ASSUME "score" \notin Faults, StampInv, CountedIsStale, [Next]_vars
               PROVE  CountedIsStale'
    OBVIOUS
  <1>0. TypeOK /\ Mutex /\ SentInOrder /\ DOMAIN pc = Handlers /\ DOMAIN req = Handlers
    BY DEF StampInv, TypeOK, HandlerType
  <1>00. \A n \in Nodes : lastLamport[n] \in Nat
    BY <1>0, StampTypes
  <1> USE DEF memory, clocks, history
  <1>1. ASSUME NEW h \in Handlers, Step(h) PROVE CountedIsStale'
    <2>1. CASE ScoreSaved(h)
      <3>1. req[h].node \in Nodes /\ req[h].ts \in Nat /\ Tick(req[h], Stamp(req[h].ts))
        BY <1>0, <2>1, RequestTypes DEF ScoreSaved, Requesting
      <3>2. /\ lastLamport'[req[h].node] > req[h].ts
            /\ \A n \in Nodes : lastLamport'[n] \in Nat /\ lastLamport'[n] >= lastLamport[n]
        BY <1>0, <3>1, TickGrows
      <3>3. \A k \in Handlers : pc[k] = "score" => k = h
        BY <1>0, <2>1, InsideHolds, WaitsInside DEF ScoreSaved
      <3>4. UNCHANGED <<applied, restarts>>
        BY <2>1 DEF ScoreSaved
      <3>5. ASSUME NEW a \in applied
            PROVE  /\ a.run <= restarts
                   /\ a.run = restarts /\ a.key[1] = "add" => a.key[3] <= lastLamport'[a.key[2]]
        <4>1. CASE a.key = Key(req[h])
          BY <3>1, <3>2, <4>1, <1>00 DEF Key, CountedIsStale
        <4>2. CASE a.key # Key(req[h])
          BY <3>2, <3>3, <4>2, <1>0, <1>00, CountedTypes DEF CountedIsStale
        <4> QED BY <4>1, <4>2
      <3> QED BY <3>4, <3>5 DEF CountedIsStale
    <2>2. CASE ApplyAdd(h)
      BY <1>0, <2>2, ScoreCounted DEF ApplyAdd, Acquires
    <2>3. CASE ApplySync(h)
      BY <1>0, <2>3, ScoreCounted DEF ApplySync
    <2>4. CASE BeginViolation(h)
      <3>1. req[h].node \in Nodes /\ req[h].ts \in Nat /\ Tick(req[h], Stamp(req[h].ts))
        BY <1>0, <2>4, RequestTypes DEF BeginViolation, Acquires, Requesting
      <3>2. \A n \in Nodes : lastLamport'[n] \in Nat /\ lastLamport'[n] >= lastLamport[n]
        BY <1>0, <3>1, TickGrows
      <3> QED BY <1>0, <2>4, <3>2, CountedKept DEF BeginViolation, Acquires
    <2>5. CASE NodeUpserted(h) \/ ReplayCached(h) \/ ViolationRecorded(h)
               \/ RankingRead(h) \/ DatabaseFails(h)
      <3>1. /\ \A k \in Handlers : pc[k] = "score" => pc'[k] = "score" /\ req'[k] = req[k]
            /\ UNCHANGED <<applied, restarts, lastLamport>>
        BY <1>0, <2>5 DEF NodeUpserted, ReplayCached, ViolationRecorded, RankingRead,
           DatabaseFails, Acquires, Respond, SendReply, Idles
      <3> QED BY <1>0, <1>00, <3>1, CountedKept
    <2>6. CASE BeginSync(h) \/ RegistryLoaded(h) \/ StatusSaved(h)
      <3>1. /\ \A k \in Handlers : pc[k] = "score" => pc'[k] = "score" /\ req'[k] = req[k]
            /\ UNCHANGED <<applied, restarts, lastLamport>>
        BY <1>0, <2>6 DEF BeginSync, RegistryLoaded, StatusSaved, Acquires
      <3> QED BY <1>0, <1>00, <3>1, CountedKept
    <2>7. CASE MilestoneSaved(h) \/ EventSaved(h) \/ HeartbeatSaved(h)
      <3>1. /\ \A k \in Handlers : pc[k] = "score" => pc'[k] = "score" /\ req'[k] = req[k]
            /\ UNCHANGED <<applied, restarts, lastLamport>>
        BY <1>0, <2>7 DEF MilestoneSaved, NextMilestone, EventSaved, HeartbeatSaved,
           Respond, SendReply, Idles
      <3> QED BY <1>0, <1>00, <3>1, CountedKept
    <2> QED BY <1>1, <2>1, <2>2, <2>3, <2>4, <2>5, <2>6, <2>7 DEF Step
  <1>2. CASE Restart
    BY <1>0, <1>2, CountedTypes DEF Restart, CountedIsStale
  <1>3. CASE \/ \E h \in Handlers, r \in Request : Receive(h, r)
             \/ \E h \in Handlers, n \in Nodes : RegisterNode(h, n)
             \/ \E n \in Nodes : ActivatePowerup(n)
             \/ TimePasses \/ UNCHANGED vars
    <2>1. /\ \A k \in Handlers : pc[k] = "score" => pc'[k] = "score" /\ req'[k] = req[k]
          /\ UNCHANGED <<applied, restarts, lastLamport>>
      BY <1>0, <1>3 DEF Receive, RegisterNode, ActivatePowerup, TimePasses, vars
    <2> QED BY <1>0, <1>00, <2>1, CountedKept
  <1> QED BY <1>1, <1>2, <1>3 DEF Next

(* However often and however late a request is repeated, add_clicks counts  *)
(* its clicks once per run of the process - if update_score never raises,   *)
(* without which the claim is false: the retry of such a batch passes.      *)
THEOREM AddsCountOnce == "score" \notin Faults => (Spec => AddAppliedOnce)
  <1> SUFFICES ASSUME "score" \notin Faults PROVE Spec => AddAppliedOnce
    OBVIOUS
  <1> DEFINE Fresh ==
        \A h \in Handlers : Applies(h) /\ req[h].kind = "add" =>
          \A a \in applied : a.run = restarts => a.key # Key(req[h])
  <1>1. Init => CountedIsStale
    BY DEF Init, CountedIsStale
  <1>2. StampInv /\ CountedIsStale /\ [Next]_vars => [Fresh]_vars
    <2> SUFFICES ASSUME StampInv, CountedIsStale, [Next]_vars, NEW h \in Handlers, Applies(h),
                        req[h].kind = "add", NEW a \in applied, a.run = restarts, a.key = Key(req[h])
                 PROVE  FALSE
      OBVIOUS
    <2>1. ApplyAdd(h)
      BY AddsApplyInApplyAdd DEF StampInv
    <2>2. req[h].ts \in Nat /\ req[h].node \in Nodes
      BY <2>1, RequestTypes DEF ApplyAdd, Acquires, Requesting, StampInv
    <2>3. lastLamport[req[h].node] \in Nat
      BY <2>2, StampTypes DEF StampInv
    <2>4. ~(a.key[3] <= lastLamport[a.key[2]])
      BY <2>1, <2>2, <2>3 DEF ApplyAdd, Stale, Key
    <2>5. \A k \in Handlers : pc[k] # "score"
      BY <2>1, WaitsInside, GameManagerAssumption DEF ApplyAdd, Acquires, StampInv, Mutex
    <2>6. a.key[1] = "add"
      BY DEF Key
    <2> QED BY <2>4, <2>5, <2>6 DEF CountedIsStale
  <1>3. Spec => []CountedIsStale
    BY <1>1, CountedStep, StampInvHolds, PTL DEF Spec
  <1> QED BY <1>2, <1>3, StampInvHolds, PTL DEF Spec, AddAppliedOnce

-----------------------------------------------------------------------------
(* A running power-up has its factor, although activate_powerup takes no    *)
(* lock and add_clicks resets the factor of the same entry.                 *)
THEOREM BoostHolds == Spec => []BoostInForce
  <1>1. Init => BoostInForce
    BY GameManagerAssumption DEF Init, BoostInForce, NewNode, Epoch
  <1>2. TypeOK /\ BoostInForce /\ [Next]_vars => BoostInForce'
    <2> SUFFICES ASSUME TypeOK, BoostInForce, [Next]_vars PROVE BoostInForce'
      OBVIOUS
    <2> USE DEF memory, scores
    <2>1. \A n \in Nodes : nodes[n] \in NodeType /\ nodes[n].powerup_expire \in Nat /\ now \in Nat
      BY DEF TypeOK, MemoryType, NodeType
    <2>2. DOMAIN nodes = Nodes
      BY DEF TypeOK, MemoryType
    <2>3. ASSUME UNCHANGED <<nodes, now>> PROVE BoostInForce'
      BY <2>3 DEF BoostInForce
    <2>4. ASSUME NEW h \in Handlers, ApplyAdd(h) PROVE BoostInForce'
      BY <2>1, <2>2, <2>4 DEF ApplyAdd, Score, Boosted, BoostInForce, NodeType
    <2>5. ASSUME NEW h \in Handlers, ApplySync(h) PROVE BoostInForce'
      BY <2>1, <2>2, <2>5 DEF ApplySync, Score, BoostInForce, NodeType
    <2>6. ASSUME NEW h \in Handlers, HeartbeatSaved(h) PROVE BoostInForce'
      BY <2>1, <2>2, <2>6 DEF HeartbeatSaved, BoostInForce, NodeType
    <2>7. ASSUME NEW h \in Handlers, Step(h) PROVE BoostInForce'
      <3>1. CASE ApplyAdd(h) \/ ApplySync(h) \/ HeartbeatSaved(h)
        BY <3>1, <2>4, <2>5, <2>6
      <3>2. CASE ~(ApplyAdd(h) \/ ApplySync(h) \/ HeartbeatSaved(h))
        BY <2>3, <2>7, <3>2 DEF Step, NodeUpserted, ReplayCached, BeginViolation,
           ViolationRecorded, BeginSync, RegistryLoaded, ScoreSaved, MilestoneSaved,
           EventSaved, StatusSaved, RankingRead, DatabaseFails
      <3> QED BY <3>1, <3>2
    <2>8. ASSUME NEW n \in Nodes, ActivatePowerup(n) PROVE BoostInForce'
      BY <2>1, <2>2, <2>8 DEF ActivatePowerup, BoostInForce, NodeType
    <2>9. CASE Restart
      BY <2>1, <2>9 DEF Restart, BoostInForce, NewNode
    <2>10. CASE TimePasses
      BY <2>1, <2>10 DEF TimePasses, BoostInForce
    <2>11. CASE UNCHANGED vars
      BY <2>3, <2>11 DEF vars
    <2> QED BY <2>3, <2>7, <2>8, <2>9, <2>10, <2>11 DEF Next, Receive, RegisterNode
  <1> QED BY <1>1, <1>2, TypeCorrect, PTL DEF Spec
=============================================================================
