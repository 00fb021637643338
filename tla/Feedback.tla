------------------------------ MODULE Feedback ------------------------------
(***************************************************************************)
(* What the player sees: the display task (tasks/task_display.c) and what   *)
(* the interrupts, task_buttons and task_rpc change under it in             *)
(* middleware/shared_state.c: clicks, score, status, turbo, click flash and *)
(* milestone.                                                               *)
(*                                                                          *)
(* The firmware runs on one core with fixed priorities: interrupts, then    *)
(* task_buttons, task_rpc, task_display.  So task_buttons is one step per   *)
(* poll, task_rpc one step from a blocking call to the next, and            *)
(* task_display is interrupted by all of them between any two accesses to   *)
(* the shared state.  turbo_until_ms is kept as the time left to it, which  *)
(* stops at -1: over for longer than an instant.                            *)
(***************************************************************************)
EXTENDS Integers

CONSTANTS
  TurboTime,    \* TURBO_DURATION_MS
  GlowTicks,    \* MILESTONE_GLOW_TICKS
  MaxPresses,   \* bound: presses of the two buttons
  MaxChanges    \* bound: failed calls, losses of the network

ASSUME FeedbackAssumption ==
  /\ TurboTime \in Nat \ {0} /\ GlowTicks \in Nat \ {0}
  /\ MaxPresses \in Nat /\ MaxChanges \in Nat

VARIABLES
  pending, score, status, turbos, turboOn, turboLeft, flash, milestone,  \* shared_state
  rpc, batch,            \* task_rpc: where it is, the clicks of its call
  disp, frame, glow, shown, leds,   \* task_display: where it is, its locals, the outputs
  presses, asked, changes,          \* history: count towards the bounds
  fresh, signalled       \* history: a turbo since the snapshot, a milestone not yet shown

clicks  == <<pending, score, status>>
turbo   == <<turbos, turboOn, turboLeft>>
signals == <<flash, milestone>>
task    == <<rpc, batch>>
display == <<disp, frame, glow, shown, leds>>
past    == <<presses, asked, fresh, signalled, changes>>
vars    == <<clicks, turbo, signals, task, display, past>>

(* The locals of a turn of its loop, which are gone when it ends.           *)
NoFrame == [total |-> 0, offline |-> FALSE, turbo |-> FALSE, left |-> 0,
            flash |-> FALSE, milestone |-> FALSE]

Init ==
  /\ pending = 0 /\ score = 0 /\ status = "CONNECTING"
  /\ turbos = 0 /\ turboOn = FALSE /\ turboLeft = 0
  /\ flash = FALSE /\ milestone = FALSE
  /\ rpc = "away" /\ batch = 0
  /\ disp = "snapshot" /\ frame = NoFrame /\ glow = 0 /\ shown = 0 /\ leds = "dark"
  /\ presses = 0 /\ asked = 0 /\ changes = 0
  /\ fresh = FALSE /\ signalled = FALSE

-----------------------------------------------------------------------------
(* The interrupts, after the debounce, and a poll of task_buttons (the      *)
(* module Buttons has both in full).                                        *)

PressA ==
  /\ presses + asked < MaxPresses
  /\ presses' = presses + 1 /\ pending' = pending + 1
  /\ UNCHANGED <<score, status, turbo, signals, task, display, asked, fresh,
                 signalled, changes>>

PressB ==
  /\ presses + asked < MaxPresses
  /\ asked' = asked + 1 /\ turbos' = turbos + 1
  /\ UNCHANGED <<clicks, turboOn, turboLeft, signals, task, display, presses,
                 fresh, signalled, changes>>

(* task_buttons has found more clicks than at its last poll.                *)
Poll ==
  /\ pending > 0 /\ ~flash
  /\ flash' = TRUE
  /\ UNCHANGED <<clicks, turbo, milestone, task, display, past>>

(* The end of a turbo comes nearer, for the state and for the frame that    *)
(* has read it.                                                             *)
Tick ==
  /\ turboLeft' = turboLeft - IF turboOn /\ turboLeft > -1 THEN 1 ELSE 0
  /\ frame' = [frame EXCEPT !.left = @ - IF disp \in {"flash", "milestone", "expiry"} /\ frame.turbo /\ @ > -1 THEN 1 ELSE 0]
  /\ UNCHANGED <<clicks, turbos, turboOn, signals, task, disp, glow, shown,
                 leds, past>>

-----------------------------------------------------------------------------
(* task_rpc, as far as the player notices it: in a call, or between two of  *)
(* them, "idle" if the board is registered and "away" if not.  The calls    *)
(* that change nothing here, the heartbeat and the refresh of a registered  *)
(* board, are no steps.                                                     *)

Change == changes < MaxChanges /\ changes' = changes + 1

(* apply_local_turbo: the end first, then the flag.                         *)
ApplyTurbo ==
  /\ turboLeft' = TurboTime /\ turboOn' = TRUE
  /\ fresh' = TRUE

TurboTaken ==
  /\ rpc \in {"idle", "away"} /\ turbos > 0
  /\ turbos' = turbos - 1
  /\ IF rpc = "idle"
     THEN rpc' = "turbo" /\ UNCHANGED <<turboOn, turboLeft, fresh>>
     ELSE ApplyTurbo /\ UNCHANGED rpc
  /\ UNCHANGED <<clicks, signals, batch, display, presses, asked, signalled,
                 changes>>

(* 10 s if the server agrees, if it says ALREADY_ACTIVE and if it fails.    *)
TurboAnswered ==
  /\ rpc = "turbo"
  /\ rpc' = "idle"
  /\ ApplyTurbo
  /\ UNCHANGED <<clicks, turbos, signals, batch, display, presses, asked,
                 signalled, changes>>

(* The next attempt to register is due.  Joining the network at the start   *)
(* counts as one: the player sees the same.                                 *)
RegisterStarts ==
  /\ rpc = "away" /\ turbos = 0
  /\ status' = "CONNECTING"
  /\ rpc' = "register"
  /\ UNCHANGED <<pending, score, turbo, signals, batch, display, past>>

(* It succeeds; what has gathered is synchronised.                          *)
Registered ==
  /\ rpc = "register"
  /\ IF pending > 0
     THEN status' = "SYNCING" /\ rpc' = "sync" /\ batch' = pending /\ pending' = 0
     ELSE status' = "ONLINE" /\ rpc' = "scores" /\ UNCHANGED <<batch, pending>>
  /\ UNCHANGED <<score, turbo, signals, display, past>>

RegisterFails ==
  /\ rpc = "register"
  /\ status' = "OFFLINE"
  /\ rpc' = "away"
  /\ UNCHANGED <<pending, score, turbo, signals, batch, display, past>>

(* The scores after a registration: what is parsed is 0 (see Firmware).     *)
ScoresFetched ==
  /\ rpc = "scores"
  /\ rpc' = "idle"
  /\ score' \in {0, score}
  /\ UNCHANGED <<pending, status, turbo, signals, batch, display, past>>

Sends ==
  /\ rpc = "idle" /\ status = "ONLINE" /\ turbos = 0 /\ pending > 0
  /\ rpc' = "add" /\ batch' = pending /\ pending' = 0
  /\ UNCHANGED <<score, status, turbo, signals, display, past>>

(* set_scores, with the milestone; task_rpc asks for a flash beside it.     *)
Signal == milestone' = TRUE /\ flash' = TRUE /\ signalled' = TRUE

Answered ==
  /\ rpc \in {"add", "sync"}
  /\ rpc' = IF rpc = "sync" THEN "scores" ELSE "idle"
  /\ status' = "ONLINE"
  /\ score' = score + batch /\ batch' = 0
  /\ Signal \/ UNCHANGED <<milestone, flash, signalled>>
  /\ UNCHANGED <<changes, pending, turbo, display, presses, asked, fresh>>

Fails ==
  /\ rpc \in {"add", "sync"}
  /\ Change
  /\ rpc' = IF rpc = "sync" THEN "away" ELSE "idle"
  /\ status' = IF rpc = "sync" THEN "OFFLINE" ELSE status
  /\ pending' = pending + batch /\ batch' = 0
  /\ UNCHANGED <<score, turbo, signals, display, presses, asked, fresh,
                 signalled>>

(* The circuit breaker opens; the refresh of that turn, if one is due and   *)
(* succeeds, shows ONLINE until the next attempt to register.               *)
GoesOffline ==
  /\ rpc = "idle"
  /\ Change
  /\ status' = "OFFLINE"
  /\ rpc' \in {"away", "refresh"}
  /\ UNCHANGED <<pending, score, turbo, signals, batch, display, presses,
                 asked, fresh, signalled>>

Refreshed ==
  /\ rpc = "refresh"
  /\ status' \in {"ONLINE", status}
  /\ rpc' = "away"
  /\ UNCHANGED <<pending, score, turbo, signals, batch, display, past>>

-----------------------------------------------------------------------------
(* task_display: one frame.                                                 *)

Total_Offline == score + IF status = "OFFLINE" THEN pending ELSE 0

Total == score + IF status \in {"OFFLINE", "CONNECTING", "SYNCING"} THEN pending ELSE 0

Snapshot ==
  /\ disp = "snapshot"
  /\ frame' = [NoFrame EXCEPT !.total = Total, !.offline = (status = "OFFLINE"), !.turbo = turboOn,
                              !.left = IF turboOn THEN turboLeft ELSE 0]
  /\ fresh' = FALSE
  /\ disp' = "flash"
  /\ UNCHANGED <<clicks, turbo, signals, task, glow, shown, leds, presses,
                 asked, signalled, changes>>

FlashTaken ==
  /\ disp = "flash"
  /\ frame' = [frame EXCEPT !.flash = flash]
  /\ flash' = FALSE
  /\ disp' = "milestone"
  /\ UNCHANGED <<clicks, turbo, milestone, task, glow, shown, leds, past>>

MilestoneTaken ==
  /\ disp = "milestone"
  /\ frame' = [frame EXCEPT !.milestone = milestone]
  /\ milestone' = FALSE
  /\ disp' = "expiry"
  /\ UNCHANGED <<clicks, turbo, flash, task, glow, shown, leds, past>>

(* The difference of the two clocks is read as a signed number.             *)
Over_Unsigned == frame.left = 0

Over_Early == frame.left <= 1

Over == frame.left <= 0

TurboExpiry ==
  /\ disp = "expiry"
  /\ IF frame.turbo /\ Over
     THEN turboOn' = FALSE /\ frame' = [frame EXCEPT !.turbo = FALSE, !.left = 0]
     ELSE frame' = [frame EXCEPT !.left = 0] /\ UNCHANGED turboOn
  /\ disp' = IF frame.milestone THEN "gold" ELSE "draw"
  /\ UNCHANGED <<clicks, turbos, turboLeft, signals, task, glow, shown, leds,
                 past>>

(* Two golden flashes of the whole matrix, which leave the flag alone: it   *)
(* may have been set again since it was taken.                              *)
FlagAfterFlash_Cleared == FALSE

FlagAfterFlash == milestone

GoldFlash ==
  /\ disp = "gold"
  /\ glow' = GlowTicks /\ leds' = "dark"
  /\ milestone' = FlagAfterFlash /\ signalled' = milestone
  /\ disp' = "draw"
  /\ UNCHANGED <<clicks, turbo, flash, task, frame, shown, presses, asked,
                 fresh, changes>>

(* The digit, golden, in rainbow colours or grey; then the red centre while *)
(* offline.  glowLeft is the counter after the digit was drawn.             *)
Digit_TurboFirst(glowing) ==
  IF frame.turbo THEN "rainbow" ELSE IF glowing > 0 THEN "gold" ELSE "grey"

Digit(glowing) == IF glowing > 0 THEN "gold" ELSE IF frame.turbo THEN "rainbow" ELSE "grey"

Fade_Always(g) == g - 1

Fade(g) == IF g > 0 THEN g - 1 ELSE 0

FrameEnds == disp' = "snapshot" /\ frame' = NoFrame

Draw ==
  LET glowLeft == Fade(glow) IN
  /\ disp = "draw"
  /\ shown' = frame.total
  /\ glow' = glowLeft
  /\ leds' \in IF frame.flash THEN {"blue"}
               ELSE IF frame.offline /\ ~frame.turbo /\ glowLeft = 0
               THEN {"red", Digit(glow)} ELSE {Digit(glow)}
  /\ IF frame.flash THEN disp' = "blue" /\ UNCHANGED frame ELSE FrameEnds
  /\ UNCHANGED <<clicks, turbo, signals, task, past>>

Redraw ==
  /\ disp = "blue"
  /\ leds' = Digit(glow)
  /\ FrameEnds
  /\ UNCHANGED <<clicks, turbo, signals, task, glow, shown, past>>

-----------------------------------------------------------------------------
RpcStep ==
  \/ TurboTaken \/ TurboAnswered
  \/ RegisterStarts \/ Registered \/ RegisterFails
  \/ ScoresFetched \/ Sends \/ Answered \/ Fails \/ Refreshed

DisplayStep ==
  \/ Snapshot \/ FlashTaken \/ MilestoneTaken \/ TurboExpiry \/ GoldFlash \/ Draw \/ Redraw

Next ==
  \/ PressA \/ PressB \/ Poll \/ Tick
  \/ RpcStep \/ GoesOffline \/ DisplayStep

(* The scheduler runs every task that is ready once those above it block,   *)
(* every call of task_rpc ends, and time goes on.  A registration need      *)
(* never succeed: the network may stay down.                                *)
Spec ==
  /\ Init /\ [][Next]_vars
  /\ WF_vars(Tick) /\ WF_vars(Poll)
  /\ WF_vars(RpcStep) /\ WF_vars(DisplayStep)

-----------------------------------------------------------------------------
(* Properties.                                                              *)

Calling == {"turbo", "register", "add", "sync", "scores", "refresh"}

TypeOK ==
  /\ {pending, score, turbos, batch, shown} \subseteq Nat
  /\ status \in {"CONNECTING", "ONLINE", "OFFLINE", "SYNCING"}
  /\ turboLeft \in -1..TurboTime /\ frame.left \in -1..TurboTime
  /\ rpc \in Calling \cup {"idle", "away"} /\ (batch > 0 <=> rpc \in {"add", "sync"})
  /\ glow \in 0..GlowTicks
  /\ leds \in {"dark", "gold", "rainbow", "grey", "red", "blue"}

(* A milestone signalled while the display is busy with a frame, or with    *)
(* the previous milestone, still waits to be shown.                         *)
MilestoneKept ==
  signalled => milestone \/ (frame.milestone /\ disp \in {"expiry", "gold"})

(* The display ends a turbo before its time only if the activation slipped  *)
(* in after the snapshot the frame works on.                                *)
TurboCutOnlyInFlight ==
  [][turboOn /\ ~turboOn' => turboLeft <= 0 \/ fresh]_vars

(* A turbo ends, though the display looks at the clock at odd times.        *)
TurboEnds == []<>~turboOn

(* A milestone that is signalled gets its golden digit, whatever turbo,     *)
(* clicks and connection make the same frames show.                         *)
MilestoneShown == milestone ~> leds = "gold"

(* The display ends up showing the score together with the clicks that are  *)
(* not handed over, in whatever state the connection stays.                 *)
DisplayCatchesUp ==
  <>[](shown = score + IF status = "ONLINE" THEN 0 ELSE pending)

=============================================================================
