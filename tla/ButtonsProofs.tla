---------------------------- MODULE ButtonsProofs ----------------------------
(* Proofs about button A, for every length of the debounce, the poll and    *)
(* the beep.                                                                *)
EXTENDS Buttons, TLAPS

(* The steps of main, by number: the interrupts are enabled by the second,  *)
(* the tasks run after the fourth.                                          *)
LEMMA Order ==
  /\ Len(BootOrder) = 4
  /\ booted \in 0..4 => /\ Done("shared_state") <=> booted >= 1
                        /\ Done("button_handler") <=> booted >= 2
                        /\ Done("tasks") <=> booted >= 4
  /\ \A i \in 1..4 : BootOrder[i] = "shared_state" <=> i = 1
<1>1. Len(BootOrder) = 4
  BY DEF BootOrder
<1>2. /\ BootOrder[1] = "shared_state" /\ BootOrder[2] = "button_handler"
      /\ BootOrder[3] = "buzzer" /\ BootOrder[4] = "tasks"
  BY DEF BootOrder
<1>3. \A i \in 1..4 : i = 1 \/ i = 2 \/ i = 3 \/ i = 4
  OBVIOUS
<1>4. ASSUME booted \in 0..4
      PROVE  /\ Done("shared_state") <=> booted >= 1
             /\ Done("button_handler") <=> booted >= 2
             /\ Done("tasks") <=> booted >= 4
  <2>1. \A i \in 1..booted : i \in 1..4
    BY <1>4
  <2> QED BY <1>2, <1>3, <1>4, <2>1 DEF Done
<1> QED BY <1>1, <1>2, <1>3, <1>4

(* The constants are positive numbers.                                      *)
LEMMA Constants ==
  /\ Debounce \in Nat \ {0} /\ PollPeriod \in Nat \ {0} /\ BeepTime \in Nat \ {0}
  /\ MaxPresses \in Nat /\ MaxFaults \in Nat
BY ButtonsAssumption DEF ButtonsAssumption

(* What the types leave open: no click before the interrupts are enabled.   *)
NoEarlyClick == booted < 2 => presses = 0 /\ pending = 0

ClickInv == TypeOK /\ EveryPressCounts /\ NoEarlyClick

-----------------------------------------------------------------------------
(* The types, in three parts that different steps disturb.                  *)
Flags == halted \in BOOLEAN /\ tone \in BOOLEAN /\ delayed \in BOOLEAN

Numbers ==
  /\ booted \in 0..4
  /\ sinceA \in 0..Debounce /\ pollWait \in 0..PollPeriod
  /\ pending \in Nat /\ batch \in Nat /\ seen \in Nat /\ handed \in Nat
  /\ presses \in 0..MaxPresses /\ faults \in 0..MaxFaults

Alarms == alarms \subseteq 1..BeepTime

(* The type invariant is these three parts.                                 *)
LEMMA Parts == TypeOK <=> Flags /\ Numbers /\ Alarms
<1>1. Len(BootOrder) = 4
  BY DEF BootOrder
<1> QED BY <1>1, Zenon DEF TypeOK, Flags, Numbers, Alarms

(* And so it is in the next state.                                          *)
LEMMA PartsNext == TypeOK' <=> Flags' /\ Numbers' /\ Alarms'
<1>1. Len(BootOrder)' = 4
  BY DEF BootOrder
<1> QED BY <1>1, Zenon DEF TypeOK, Flags, Numbers, Alarms

(* The board starts with the types.                                         *)
LEMMA InitTypes == Init => TypeOK
<1> SUFFICES ASSUME Init PROVE Flags /\ Numbers /\ Alarms
  BY Parts
<1>1. Flags
  BY DEF Init, Flags
<1>2. Numbers
  BY Constants DEF Init, Numbers
<1>3. Alarms
  BY DEF Init, Alarms
<1> QED BY <1>1, <1>2, <1>3

(* Every step keeps the flags Booleans,                                     *)
LEMMA StepFlags == ASSUME Flags, [Next]_vars PROVE Flags'
<1> USE DEF Flags, button, clicks, poll, buzzer
<1>1. CASE BootStep \/ Halt
  BY <1>1 DEF BootStep, Halt
<1>2. CASE PressA
  BY <1>2, Zenon DEF PressA
<1>3. CASE BounceA \/ Take \/ HandOver \/ Restore
  BY <1>3 DEF BounceA, Take, HandOver, Restore
<1>4. CASE Tick
  BY <1>4, Zenon DEF Tick
<1>5. CASE Poll
  BY <1>5 DEF Poll
<1>6. CASE UNCHANGED vars
  BY <1>6 DEF vars
<1> QED BY <1>1, <1>2, <1>3, <1>4, <1>5, <1>6 DEF Next

(* the numbers in their ranges,                                             *)
LEMMA StepNumbers == ASSUME Numbers, [Next]_vars PROVE Numbers'
<1>0. Len(BootOrder) = 4
  BY DEF BootOrder
<1> USE Constants DEF Numbers, button, clicks, poll, buzzer
<1>1. CASE BootStep \/ Halt
  BY <1>0, <1>1 DEF BootStep, Halt
<1>2. CASE PressA
  BY <1>2 DEF PressA, EdgeA
<1>3. CASE BounceA
  BY <1>3 DEF BounceA, EdgeA
<1>4. CASE Tick
  BY <1>4 DEF Tick, Later, Sooner
<1>5. CASE Poll
  BY <1>5 DEF Poll
<1>6. CASE Take \/ HandOver \/ Restore
  BY <1>6 DEF Take, HandOver, Restore
<1>7. CASE UNCHANGED vars
  BY <1>7 DEF vars
<1> QED BY <1>1, <1>2, <1>3, <1>4, <1>5, <1>6, <1>7 DEF Next

(* and the alarms within a beep.                                            *)
LEMMA StepAlarms == ASSUME Alarms, [Next]_vars PROVE Alarms'
<1> USE DEF Alarms, button, clicks, poll, buzzer
<1>1. CASE Tick
  <2>1. alarms' = {t - 1 : t \in alarms \ {1}}
    BY <1>1 DEF Tick
  <2> QED BY <2>1, Constants
<1>2. CASE Poll
  <2>1. alarms' = alarms \/ alarms' = alarms \cup {BeepTime}
    BY <1>2 DEF Poll, Scheduled
  <2>2. BeepTime \in 1..BeepTime
    BY Constants
  <2> QED BY <2>1, <2>2, Zenon
<1>3. CASE BootStep \/ Halt \/ PressA \/ BounceA \/ Take \/ HandOver \/ Restore
  BY <1>3 DEF BootStep, Halt, PressA, BounceA, Take, HandOver, Restore
<1>4. CASE UNCHANGED vars
  BY <1>4 DEF vars
<1> QED BY <1>1, <1>2, <1>3, <1>4 DEF Next

(* Every step keeps the types.                                              *)
LEMMA StepTypes == ASSUME TypeOK, [Next]_vars PROVE TypeOK'
<1>1. Flags /\ Numbers /\ Alarms
  BY Parts
<1> QED BY <1>1, StepFlags, StepNumbers, StepAlarms, PartsNext

-----------------------------------------------------------------------------
(* Every step keeps the account of the clicks.                              *)
LEMMA StepClicks == ASSUME ClickInv, [Next]_vars PROVE ClickInv'
<1>1. TypeOK /\ TypeOK'
  BY StepTypes DEF ClickInv
<1> USE <1>1 DEF ClickInv, EveryPressCounts, NoEarlyClick, button, clicks, poll, buzzer
<1>2. CASE BootStep
  <2>1. booted \in 0..3 /\ booted' = booted + 1 /\ UNCHANGED <<presses, batch, handed>>
    BY <1>2, Order DEF BootStep, TypeOK
  <2>2. CASE booted = 0
    <3>1. BootOrder[booted + 1] = "shared_state"
      BY <2>2, Order
    <3>2. pending' = 0 /\ presses = 0
      BY <1>2, <2>2, <3>1 DEF BootStep
    <3> QED BY <2>1, <2>2, <3>2 DEF TypeOK
  <2>3. CASE booted > 0
    <3>1. booted + 1 \in 1..4 /\ booted + 1 # 1
      BY <2>1, <2>3
    <3>2. pending' = pending
      BY <1>2, <3>1, Order DEF BootStep
    <3> QED BY <2>1, <2>3, <3>2
  <2> QED BY <2>1, <2>2, <2>3
<1>3. CASE Halt
  BY <1>3 DEF Halt
<1>4. CASE PressA
  <2>1. booted >= 2 /\ Accepted
    BY <1>4, Constants, Order DEF PressA, Armed, Accepted, TypeOK
  <2>2. presses' = presses + 1 /\ pending' = pending + 1 /\ UNCHANGED <<booted, batch, handed>>
    BY <1>4, <2>1 DEF PressA, EdgeA
  <2> QED BY <2>1, <2>2 DEF TypeOK
<1>5. CASE BounceA
  <2>1. ~Accepted
    BY <1>5, Constants DEF BounceA, Accepted, TypeOK
  <2> QED BY <1>5, <2>1 DEF BounceA, EdgeA
<1>6. CASE Tick \/ Poll
  BY <1>6 DEF Tick, Poll
<1>7. CASE Take
  <2>1. booted >= 2
    BY <1>7, Order DEF Take, Running, TypeOK
  <2> QED BY <1>7, <2>1 DEF Take, TypeOK
<1>8. CASE HandOver \/ Restore
  <2>1. batch > 0 /\ batch \in Nat /\ handed \in Nat /\ pending \in Nat /\ booted \in 0..4
    BY <1>8, Order DEF HandOver, Restore, TypeOK
  <2>2. pending' + batch' + handed' = pending + batch + handed
    BY <1>8, <2>1 DEF HandOver, Restore
  <2>3. booted >= 2
    BY <2>1, <1>1
  <2>4. UNCHANGED <<booted, presses>>
    BY <1>8 DEF HandOver, Restore
  <2>5. presses' = pending' + batch' + handed'
    BY <2>2, <2>4
  <2>6. ~(booted' < 2)
    BY <2>1, <2>3, <2>4
  <2> QED BY <2>5, <2>6
<1>9. CASE UNCHANGED vars
  BY <1>9 DEF vars
<1> QED BY <1>2, <1>3, <1>4, <1>5, <1>6, <1>7, <1>8, <1>9 DEF Next

(* The account holds from the start.                                        *)
LEMMA ClickInvariant == Spec => []ClickInv
<1>1. Init => ClickInv
  BY InitTypes DEF Init, ClickInv, EveryPressCounts, NoEarlyClick
<1>2. ClickInv /\ [Next]_vars => ClickInv'
  BY StepClicks
<1> QED BY <1>1, <1>2, PTL DEF Spec

(* Every variable keeps its type.                                           *)
THEOREM ButtonTypes == Spec => []TypeOK
<1>1. ClickInv => TypeOK
  BY DEF ClickInv
<1> QED BY <1>1, ClickInvariant, PTL

(* One press is one click: neither the bouncing contact, nor the start of   *)
(* the board, nor a failed call adds or loses one.                          *)
THEOREM PressesCount == Spec => []EveryPressCounts
<1>1. ClickInv => EveryPressCounts
  BY DEF ClickInv
<1> QED BY <1>1, ClickInvariant, PTL

-----------------------------------------------------------------------------
(* The beep.  A click not yet announced was made within this poll, so no    *)
(* tone is on; a tone that is on will end before the next press counts.     *)
BeepInv ==
  ~delayed =>
    /\ BeepsWhole
    /\ ~Running => ~(pending > seen)
    /\ pending > seen => alarms = {} /\ pollWait + sinceA <= PollPeriod
    /\ \A t \in alarms : t + sinceA <= BeepTime + PollPeriod

(* A countdown and a clock that moves on by at most one keep their sum.     *)
LEMMA Shift ==
  ASSUME NEW c \in Int, NEW t \in Int, NEW x \in Int, NEW y \in Int,
         t + x <= c, y <= x + 1
  PROVE  (t - 1) + y <= c
OBVIOUS

(* If a beep and a poll fit into the debounce time, every step keeps this.  *)
LEMMA StepBeeps ==
  ASSUME ClickInv, BeepInv, [Next]_vars, BeepTime + PollPeriod <= Debounce
  PROVE  BeepInv'
<1>1. TypeOK /\ TypeOK' /\ NoEarlyClick
  BY StepTypes DEF ClickInv
<1>2. /\ Debounce \in Nat \ {0} /\ PollPeriod \in Nat \ {0} /\ BeepTime \in Nat \ {0}
      /\ sinceA \in 0..Debounce /\ pollWait \in 0..PollPeriod /\ alarms \subseteq 1..BeepTime
      /\ pending \in Nat /\ seen \in Nat /\ batch \in Nat /\ booted \in 0..4
  BY <1>1, Parts, Constants DEF Numbers, Alarms
<1> SUFFICES ASSUME ~delayed' PROVE BeepInv'
  BY DEF BeepInv
<1>3. ~delayed /\ ~Restore
  <2>1. ~Restore
    BY DEF Restore
  <2>2. delayed' = delayed \/ PressA
    BY <2>1 DEF Next, BootStep, Halt, BounceA, Tick, Poll, Take, HandOver, vars
  <2>3. PressA => ~delayed
    BY DEF PressA
  <2> QED BY <2>1, <2>2, <2>3
<1> USE <1>1, <1>2, <1>3 DEF BeepInv, BeepsWhole, button, clicks, poll, buzzer
<1>4. CASE BootStep \/ Halt
  <2>1. ~(pending' > seen')
    <3>1. ~Running
      BY <1>4, Order DEF BootStep, Halt, Running
    <3> QED BY <1>4, <3>1 DEF BootStep, Halt
  <2> QED BY <1>4, <2>1 DEF BootStep, Halt
<1>5. CASE PressA
  <2>1. Running
    BY <1>5 DEF PressA
  <2>2. Running' = Running
    BY <1>5 DEF PressA, Running, Done, BootOrder
  <2>3. sinceA = Debounce /\ Accepted
    BY <1>5 DEF PressA, Accepted
  <2>4. alarms = {}
    BY <2>3
  <2> QED BY <1>5, <2>1, <2>2, <2>3, <2>4 DEF PressA, EdgeA
<1>6. CASE BounceA
  <2>1. ~Accepted
    BY <1>6 DEF BounceA, Accepted
  <2>2. Running' = Running
    BY <1>6 DEF BounceA, Running, Done, BootOrder
  <2> QED BY <1>6, <2>1, <2>2 DEF BounceA, EdgeA
<1>7. CASE Tick
  <2>1. Running' = Running /\ UNCHANGED <<pending, seen>>
    BY <1>7 DEF Tick, Running, Done, BootOrder
  <2>2. alarms' = {t - 1 : t \in alarms \ {1}} /\ tone' = (tone /\ 1 \notin alarms)
    BY <1>7 DEF Tick
  <2>3. sinceA' <= sinceA + 1 /\ pollWait' = Sooner(pollWait)
    BY <1>7 DEF Tick, Later
  <2>4. /\ sinceA' \in Int /\ sinceA \in Int /\ pollWait \in Int /\ sinceA' <= sinceA + 1
        /\ PollPeriod \in Int /\ BeepTime + PollPeriod \in Int
    BY <2>3, PartsNext DEF Numbers
  <2>5. BeepsWhole'
    <3>1. CASE alarms = {}
      BY <2>2, <3>1
    <3>2. CASE alarms # {}
      <4>1. PICK a \in 1..BeepTime : alarms = {a}
        BY <3>2
      <4>2. CASE a = 1
        BY <2>2, <3>2, <4>1, <4>2
      <4>3. CASE a # 1
        <5>1. alarms' = {a - 1}
          BY <2>2, <4>1, <4>3
        <5>2. tone' = tone
          BY <2>2, <4>1, <4>3
        <5> QED BY <3>2, <5>1, <5>2
      <4> QED BY <4>2, <4>3
    <3> QED BY <3>1, <3>2
  <2>6. pending' > seen' => alarms' = {} /\ pollWait' + sinceA' <= PollPeriod
    <3> SUFFICES ASSUME pending > seen PROVE alarms' = {} /\ pollWait' + sinceA' <= PollPeriod
      BY <2>1
    <3>1. Running /\ alarms = {} /\ pollWait + sinceA <= PollPeriod
      OBVIOUS
    <3>2. pollWait > 0
      <4>1. Running => pollWait > 0
        BY <1>7 DEF Tick
      <4> QED BY <3>1, <4>1
    <3>3. pollWait' = pollWait - 1
      BY <2>3, <3>2 DEF Sooner
    <3>4. pollWait' + sinceA' <= PollPeriod
      BY <2>4, <3>1, <3>3, Shift, Zenon
    <3>5. alarms' = {}
      BY <2>2, <3>1
    <3> QED BY <3>4, <3>5
  <2>7. \A t \in alarms' : t + sinceA' <= BeepTime + PollPeriod
    <3> SUFFICES ASSUME NEW t \in alarms \ {1} PROVE (t - 1) + sinceA' <= BeepTime + PollPeriod
      BY <2>2
    <3>1. t \in 1..BeepTime /\ t + sinceA <= BeepTime + PollPeriod
      OBVIOUS
    <3>2. t \in Int
      BY <3>1
    <3> QED BY <2>4, <3>1, <3>2, Shift, Zenon
  <2> QED BY <2>1, <2>5, <2>6, <2>7
<1>8. CASE Poll
  <2>1. seen' = pending /\ pending' = pending /\ sinceA' = sinceA
    BY <1>8 DEF Poll
  <2>2. CASE pending > seen
    <3>1. alarms' = {BeepTime} /\ tone' = TRUE
      BY <1>8, <2>2 DEF Poll, Scheduled
    <3>2. sinceA <= PollPeriod
      BY <1>8, <2>2 DEF Poll
    <3> QED BY <2>1, <3>1, <3>2
  <2>3. CASE ~(pending > seen)
    <3>1. UNCHANGED <<alarms, tone>>
      BY <1>8, <2>3 DEF Poll
    <3> QED BY <2>1, <3>1
  <2> QED BY <2>2, <2>3
<1>9. CASE Take
  <2>1. ~(pending' > seen')
    BY <1>9 DEF Take
  <2> QED BY <1>9, <2>1 DEF Take
<1>10. CASE HandOver
  <2>1. Running' = Running
    BY <1>10 DEF HandOver, Running, Done, BootOrder
  <2> QED BY <1>10, <2>1 DEF HandOver
<1>11. CASE UNCHANGED vars
  <2>1. Running' = Running
    BY <1>11 DEF vars, Running, Done, BootOrder
  <2> QED BY <1>11, <2>1 DEF vars
<1> QED BY <1>4, <1>5, <1>6, <1>7, <1>8, <1>9, <1>10, <1>11 DEF Next

(* With a debounce of at least a beep and a poll (50 ms, 25 ms and 20 ms in *)
(* the firmware), no alarm ever cuts a later beep short.                    *)
THEOREM BeepsAreWhole ==
  ASSUME BeepTime + PollPeriod <= Debounce
  PROVE  Spec => []BeepsWhole
<1>1. Init => BeepInv
  BY DEF Init, BeepInv, BeepsWhole
<1>2. ClickInv /\ BeepInv /\ [Next]_vars => BeepInv'
  BY StepBeeps
<1>3. BeepInv => BeepsWhole
  BY DEF BeepInv, BeepsWhole
<1> QED BY <1>1, <1>2, <1>3, ClickInvariant, PTL DEF Spec

=============================================================================
