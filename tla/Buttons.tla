------------------------------- MODULE Buttons -------------------------------
(***************************************************************************)
(* Button A from the edge of its contact to the beep, from the boot of the  *)
(* board on: main.c, middleware/button_handler.c, tasks/task_buttons.c and  *)
(* audio/buzzer.c, with the take and restore of task_rpc beside them.       *)
(*                                                                          *)
(* Times are counted in one unit: "sinceA" grows up to the debounce time,   *)
(* "pollWait" and "alarms" count down.                                      *)
(***************************************************************************)
EXTENDS Integers, Sequences

CONSTANTS
  Debounce,     \* DEBOUNCE_US
  PollPeriod,   \* of task_buttons, 20 ms
  BeepTime,     \* CLICK_BEEP_DURATION_MS
  MaxPresses,   \* bound: presses of button A
  MaxFaults     \* bound: failed calls

ASSUME ButtonsAssumption ==
  /\ {Debounce, PollPeriod, BeepTime} \subseteq Nat \ {0}
  /\ MaxPresses \in Nat /\ MaxFaults \in Nat

VARIABLES
  booted, halted,   \* steps of main done; a fatal hook has stopped the board
  sinceA,           \* time since last_a_us
  pending,          \* shared_state: pending_clicks
  seen, pollWait,   \* task_buttons: prev_pending, its delay
  alarms, tone,     \* when the alarms of the buzzer fire; it sounds
  batch,            \* task_rpc: the clicks of its call
  presses, handed, delayed, faults  \* history

button == <<sinceA, presses>>
clicks == <<pending, batch, handed>>
poll   == <<seen, pollWait>>
buzzer == <<alarms, tone>>
vars   == <<booted, halted, button, clicks, poll, buzzer, delayed, faults>>

Init ==
  /\ booted = 0 /\ halted = FALSE
  /\ sinceA = Debounce
  /\ pending = 0 /\ batch = 0
  /\ seen = 0 /\ pollWait = 0
  /\ alarms = {} /\ tone = FALSE
  /\ presses = 0 /\ handed = 0 /\ delayed = FALSE /\ faults = 0

-----------------------------------------------------------------------------
(* main: the order of initialisation.                                       *)

BootOrder_ButtonsFirst == <<"button_handler", "shared_state", "buzzer", "tasks">>

BootOrder == <<"shared_state", "button_handler", "buzzer", "tasks">>

Done(step) == \E i \in 1..booted : BootOrder[i] = step

Running == Done("tasks") /\ ~halted

(* shared_state_init clears what an interrupt may already have counted;     *)
(* buzzer_init starts with the level at 0.                                  *)
BootStep ==
  /\ booted < Len(BootOrder) /\ ~halted
  /\ booted' = booted + 1
  /\ pending' = IF BootOrder[booted + 1] = "shared_state" THEN 0 ELSE pending
  /\ UNCHANGED <<halted, button, batch, handed, poll, buzzer, delayed, faults>>

(* A task that cannot be created or an allocation that fails ends in a hook *)
(* that disables the interrupts for good.                                   *)
Halt ==
  /\ booted = Len(BootOrder) - 1 /\ ~halted
  /\ halted' = TRUE
  /\ UNCHANGED <<booted, button, clicks, poll, buzzer, delayed, faults>>

-----------------------------------------------------------------------------
(* gpio_irq_callback: an edge counts if the last one that counted is at     *)
(* least the debounce time ago.  A press is one edge and then, for less     *)
(* than that time, any number of others.                                    *)

Armed == Done("button_handler") /\ ~halted

Accepted_Always == TRUE

Accepted == sinceA >= Debounce

EdgeA ==
  IF Accepted
  THEN sinceA' = 0 /\ pending' = pending + 1
  ELSE UNCHANGED <<sinceA, pending>>

PressA ==
  /\ Armed
  /\ presses < MaxPresses /\ sinceA = Debounce
  /\ presses' = presses + 1
  /\ delayed' = (delayed \/ ~Running)
  /\ EdgeA
  /\ UNCHANGED <<booted, halted, batch, handed, poll, buzzer, faults>>

BounceA ==
  /\ Armed
  /\ sinceA < Debounce
  /\ EdgeA
  /\ UNCHANGED <<booted, halted, presses, batch, handed, poll, buzzer, delayed, faults>>

-----------------------------------------------------------------------------
(* Time, and the alarms that end the tones.  task_buttons has the highest   *)
(* priority of the tasks: a poll is not late.                               *)

Sooner(t) == IF t > 0 THEN t - 1 ELSE 0

Later(t) == IF t < Debounce THEN t + 1 ELSE t

Tick ==
  /\ Running => pollWait > 0
  /\ sinceA' = Later(sinceA)
  /\ pollWait' = Sooner(pollWait)
  /\ alarms' = {t - 1 : t \in alarms \ {1}}
  /\ tone' = (tone /\ 1 \notin alarms)
  /\ UNCHANGED <<booted, halted, presses, clicks, seen, delayed, faults>>

(* One poll of task_buttons: a tone for clicks that were not there at the   *)
(* last one.  buzzer_tone adds an alarm and cancels none.                   *)
Scheduled_None == alarms

Scheduled == alarms \cup {BeepTime}

Poll ==
  /\ Running /\ pollWait = 0
  /\ seen' = pending /\ pollWait' = PollPeriod
  /\ IF pending > seen
     THEN tone' = TRUE /\ alarms' = Scheduled
     ELSE UNCHANGED buzzer
  /\ UNCHANGED <<booted, halted, button, clicks, delayed, faults>>

-----------------------------------------------------------------------------
(* task_rpc takes what is pending and hands it over or brings it back.      *)

Take ==
  /\ Running /\ batch = 0 /\ pending > 0
  /\ batch' = pending /\ pending' = 0
  /\ UNCHANGED <<booted, halted, button, handed, poll, buzzer, delayed, faults>>

HandOver ==
  /\ batch > 0
  /\ handed' = handed + batch /\ batch' = 0
  /\ UNCHANGED <<booted, halted, button, pending, poll, buzzer, delayed, faults>>

Restore ==
  /\ batch > 0
  /\ faults < MaxFaults /\ faults' = faults + 1
  /\ pending' = pending + batch /\ batch' = 0
  /\ delayed' = TRUE
  /\ UNCHANGED <<booted, halted, button, handed, poll, buzzer>>

Next ==
  \/ BootStep \/ Halt \/ PressA \/ BounceA \/ Tick \/ Poll
  \/ Take \/ HandOver \/ Restore

(* The scheduler runs the tasks, and time goes on.                          *)
Spec == Init /\ [][Next]_vars /\ WF_vars(BootStep) /\ WF_vars(Tick) /\ WF_vars(Poll)

-----------------------------------------------------------------------------
(* Properties.                                                              *)

TypeOK ==
  /\ booted \in 0..Len(BootOrder) /\ halted \in BOOLEAN
  /\ sinceA \in 0..Debounce
  /\ pending \in Nat /\ batch \in Nat /\ seen \in Nat
  /\ pollWait \in 0..PollPeriod
  /\ alarms \subseteq 1..BeepTime /\ tone \in BOOLEAN
  /\ presses \in 0..MaxPresses /\ handed \in Nat
  /\ delayed \in BOOLEAN /\ faults \in 0..MaxFaults

(* Every press of the finger is one click, however the contact bounces,     *)
(* also when it comes while the board is still starting: the interrupts are *)
(* enabled only once the state they write to is initialised.                *)
EveryPressCounts == presses = pending + batch + handed

(* A beep lasts its full time: the alarm of an earlier one never ends it,   *)
(* because accepted presses are further apart than a beep and a poll.       *)
(* Only clicks that come back from a failed call, or were made before the   *)
(* tasks ran ("delayed"), break it.                                         *)
BeepsWhole ==
  ~delayed => /\ \A s, t \in alarms : s = t
              /\ tone <=> alarms # {}

(* The buzzer falls silent, whichever alarm ends which tone.                *)
BuzzerStops == tone ~> ~tone

=============================================================================
