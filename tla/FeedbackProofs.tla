--------------------------- MODULE FeedbackProofs ---------------------------
(* Proofs about what the player sees, for every length of the turbo and of  *)
(* the golden glow.                                                         *)
EXTENDS Feedback, TLAPS

-----------------------------------------------------------------------------
(* The types, in parts that different steps disturb.                        *)
Flags == /\ turboOn \in BOOLEAN /\ flash \in BOOLEAN /\ milestone \in BOOLEAN
         /\ signalled \in BOOLEAN

Statuses == {"CONNECTING", "ONLINE", "OFFLINE", "SYNCING"}

Leds == {"dark", "gold", "rainbow", "grey", "red", "blue"}

Frames == [total : Nat, offline : BOOLEAN, turbo : BOOLEAN, left : -1..TurboTime,
           flash : BOOLEAN, milestone : BOOLEAN]

Counts ==
  /\ pending \in Nat /\ score \in Nat /\ turbos \in Nat /\ shown \in Nat
  /\ turboLeft \in -1..TurboTime /\ glow \in 0..GlowTicks

Call == batch \in Nat /\ rpc \in Calling \cup {"idle", "away"} /\ (batch > 0 <=> rpc \in {"add", "sync"})

Outputs == status \in Statuses /\ leds \in Leds

Types == Flags /\ frame \in Frames /\ Counts /\ Call /\ Outputs

(* The constants are numbers.                                               *)
LEMMA Constants == TurboTime \in Nat \ {0} /\ GlowTicks \in Nat \ {0}
BY FeedbackAssumption DEF FeedbackAssumption

(* The initial states are well typed.                                       *)
LEMMA InitTypes == Init => Types
<1> SUFFICES ASSUME Init PROVE Types
  OBVIOUS
<1>1. Flags
  BY DEF Init, Flags
<1>2. frame \in Frames
  BY Constants DEF Init, Frames, NoFrame
<1>3. Counts
  BY Constants DEF Init, Counts
<1>4. Call
  BY DEF Init, Call, Calling
<1>5. Outputs
  BY DEF Init, Outputs, Statuses, Leds
<1> QED BY <1>1, <1>2, <1>3, <1>4, <1>5 DEF Types

(* Every step keeps the flags Booleans,                                     *)
LEMMA StepFlags == ASSUME Types, [Next]_vars PROVE Flags'
<1> USE DEF Types, Flags, clicks, turbo, signals, task, display, past
<1>1. CASE PressA \/ PressB \/ Poll \/ Tick
  BY <1>1 DEF PressA, PressB, Poll, Tick
<1>2. CASE TurboTaken \/ TurboAnswered
  BY <1>2, Zenon DEF TurboTaken, TurboAnswered, ApplyTurbo
<1>3. CASE ScoresFetched \/ Sends \/ Answered \/ Fails
            \/ RegisterStarts \/ Registered \/ RegisterFails \/ Refreshed \/ GoesOffline
  BY <1>3 DEF ScoresFetched, Sends, Answered, Signal, Fails,
              RegisterStarts, Registered, RegisterFails, Refreshed, GoesOffline
<1>4. CASE Snapshot \/ FlashTaken \/ MilestoneTaken
  BY <1>4 DEF Snapshot, FlashTaken, MilestoneTaken
<1>5. CASE TurboExpiry
  BY <1>5, Zenon DEF TurboExpiry
<1>6. CASE GoldFlash \/ Draw \/ Redraw
  BY <1>6 DEF GoldFlash, FlagAfterFlash, Draw, Redraw
<1>7. CASE UNCHANGED vars
  BY <1>7 DEF vars
<1> QED BY <1>1, <1>2, <1>3, <1>4, <1>5, <1>6, <1>7 DEF Next, RpcStep, DisplayStep

(* the counts in their ranges,                                              *)
LEMMA StepCounts == ASSUME Types, [Next]_vars PROVE Counts'
<1>1. Counts /\ Call /\ frame.total \in Nat
  BY DEF Types, Frames
<1> USE <1>1, Constants DEF Counts, clicks, turbo, signals, task, display, past
<1>2. CASE PressA \/ PressB \/ Poll
  BY <1>2 DEF PressA, PressB, Poll
<1>3. CASE Tick
  BY <1>3 DEF Tick
<1>4. CASE TurboTaken \/ TurboAnswered
  BY <1>4 DEF TurboTaken, TurboAnswered, ApplyTurbo
<1>5. CASE ScoresFetched \/ Sends \/ RegisterStarts \/ Registered \/ RegisterFails \/ Refreshed \/ GoesOffline
  BY <1>5 DEF ScoresFetched, Sends, RegisterStarts, Registered, RegisterFails, Refreshed, GoesOffline
<1>6. CASE Answered \/ Fails
  BY <1>6 DEF Answered, Fails, Call
<1>7. CASE Snapshot \/ FlashTaken \/ MilestoneTaken \/ TurboExpiry
  BY <1>7 DEF Snapshot, FlashTaken, MilestoneTaken, TurboExpiry
<1>8. CASE GoldFlash \/ Draw \/ Redraw
  BY <1>8 DEF GoldFlash, Draw, Fade, Redraw
<1>9. CASE UNCHANGED vars
  BY <1>9 DEF vars
<1> QED BY <1>2, <1>3, <1>4, <1>5, <1>6, <1>7, <1>8, <1>9 DEF Next, RpcStep, DisplayStep

(* a batch exactly while a call carries one,                                *)
LEMMA StepCall == ASSUME Types, [Next]_vars PROVE Call'
<1>1. Call /\ pending \in Nat
  BY DEF Types, Counts
<1> USE <1>1 DEF Call, Calling, clicks, turbo, signals, task, display, past
<1>2. CASE PressA \/ PressB \/ Poll \/ Tick
  BY <1>2 DEF PressA, PressB, Poll, Tick
<1>3. CASE TurboTaken \/ TurboAnswered
  BY <1>3 DEF TurboTaken, TurboAnswered
<1>4. CASE ScoresFetched \/ Sends \/ RegisterStarts \/ Registered \/ RegisterFails \/ Refreshed \/ GoesOffline
  BY <1>4 DEF ScoresFetched, Sends, RegisterStarts, Registered, RegisterFails, Refreshed, GoesOffline
<1>5. CASE Answered \/ Fails
  BY <1>5 DEF Answered, Fails
<1>6. CASE DisplayStep
  BY <1>6 DEF DisplayStep, Snapshot, FlashTaken, MilestoneTaken, TurboExpiry, GoldFlash, Draw, Redraw
<1>7. CASE UNCHANGED vars
  BY <1>7 DEF vars
<1> QED BY <1>2, <1>3, <1>4, <1>5, <1>6, <1>7 DEF Next, RpcStep

(* the status and the LEDs among their values,                              *)
LEMMA StepOutputs == ASSUME Types, [Next]_vars PROVE Outputs'
<1>1. Outputs
  BY DEF Types
<1> USE <1>1 DEF Outputs, Statuses, Leds, clicks, turbo, signals, task, display, past
<1>2. CASE PressA \/ PressB \/ Poll \/ Tick
  BY <1>2 DEF PressA, PressB, Poll, Tick
<1>3. CASE RpcStep
  BY <1>3 DEF RpcStep, TurboTaken, TurboAnswered,
              RegisterStarts, Registered, RegisterFails, Refreshed, ScoresFetched, Sends, Answered, Fails
<1>4. CASE GoesOffline
  BY <1>4 DEF GoesOffline
<1>5. CASE Snapshot \/ FlashTaken \/ MilestoneTaken \/ TurboExpiry \/ GoldFlash
  BY <1>5 DEF Snapshot, FlashTaken, MilestoneTaken, TurboExpiry, GoldFlash
<1>6. CASE Draw \/ Redraw
  BY <1>6 DEF Draw, Redraw, Digit
<1>7. CASE UNCHANGED vars
  BY <1>7 DEF vars
<1> QED BY <1>2, <1>3, <1>4, <1>5, <1>6, <1>7 DEF Next, DisplayStep

(* and the frame a frame.                                                   *)
LEMMA StepFrame == ASSUME Types, [Next]_vars PROVE frame' \in Frames
<1>1. frame \in Frames /\ NoFrame \in Frames
  BY Constants DEF Types, Frames, NoFrame
<1>2. Counts /\ Flags
  BY DEF Types
<1>3. CASE UNCHANGED frame
  BY <1>1, <1>3
<1>4. CASE Tick
  <2>1. frame.left \in -1..TurboTime
    BY <1>1 DEF Frames
  <2>2. (frame.left - IF disp \in {"flash", "milestone", "expiry"} /\ frame.turbo /\ frame.left > -1 THEN 1 ELSE 0)
           \in -1..TurboTime
    BY <2>1, Constants
  <2> QED BY <1>1, <1>4, <2>2 DEF Tick, Frames
<1>5. CASE Snapshot
  <2>1. Total \in Nat
    BY <1>2 DEF Total, Counts
  <2>2. (IF turboOn THEN turboLeft ELSE 0) \in -1..TurboTime
    BY <1>2, Constants DEF Counts
  <2>3. turboOn \in BOOLEAN /\ (status = "OFFLINE") \in BOOLEAN
    BY <1>2 DEF Flags
  <2> QED BY <1>1, <1>5, <2>1, <2>2, <2>3 DEF Snapshot, Frames
<1>6. CASE FlashTaken
  BY <1>1, <1>2, <1>6 DEF FlashTaken, Frames, Flags
<1>7. CASE MilestoneTaken
  BY <1>1, <1>2, <1>7 DEF MilestoneTaken, Frames, Flags
<1>8. CASE TurboExpiry
  <2>1. 0 \in -1..TurboTime
    BY Constants
  <2>2. [frame EXCEPT !.turbo = FALSE, !.left = 0] \in Frames /\ [frame EXCEPT !.left = 0] \in Frames
    BY <1>1, <2>1 DEF Frames
  <2> QED BY <1>8, <2>2, Zenon DEF TurboExpiry
<1>9. CASE Draw \/ Redraw
  BY <1>1, <1>9 DEF Draw, Redraw, FrameEnds
<1>10. CASE PressA \/ PressB \/ Poll \/ RpcStep \/ GoesOffline \/ GoldFlash
  <2>1. UNCHANGED frame
    BY <1>10 DEF PressA, PressB, Poll, RpcStep, TurboTaken, TurboAnswered, ScoresFetched, Sends,
                 Answered, Fails,
                 RegisterStarts, Registered, RegisterFails, Refreshed, GoesOffline, GoldFlash, display
  <2> QED BY <1>3, <2>1
<1>11. CASE UNCHANGED vars
  BY <1>3, <1>11 DEF vars, display
<1> QED BY <1>4, <1>5, <1>6, <1>7, <1>8, <1>9, <1>10, <1>11 DEF Next, DisplayStep

(* The parts hold in every state.                                           *)
LEMMA TypesInvariant == Spec => []Types
<1>1. Types /\ [Next]_vars => Types'
  BY StepFlags, StepCounts, StepCall, StepOutputs, StepFrame DEF Types
<1> QED BY <1>1, InitTypes, PTL DEF Spec

(* Every variable keeps its type.                                           *)
THEOREM FeedbackTypes == Spec => []TypeOK
<1>1. Types => TypeOK
  <2> SUFFICES ASSUME Types PROVE TypeOK
    OBVIOUS
  <2>1. frame.left \in -1..TurboTime
    BY DEF Types, Frames
  <2> QED BY <2>1 DEF Types, Counts, Call, Outputs, Statuses, Leds, TypeOK
<1> QED BY <1>1, TypesInvariant, PTL

-----------------------------------------------------------------------------
(* A step other than those of the display leaves what it has taken.         *)
LEMMA FrameKept ==
  ASSUME frame \in Frames,
         PressA \/ PressB \/ Poll \/ Tick \/ RpcStep \/ GoesOffline
  PROVE  disp' = disp /\ frame'.milestone = frame.milestone /\ frame'.turbo = frame.turbo
<1>1. CASE Tick
  BY <1>1 DEF Tick, Frames
<1>2. CASE PressA \/ PressB \/ Poll \/ RpcStep \/ GoesOffline
  BY <1>2 DEF PressA, PressB, Poll, RpcStep, TurboTaken, TurboAnswered, ScoresFetched, Sends,
              Answered, Fails, RegisterStarts, Registered, RegisterFails, Refreshed, GoesOffline, display
<1> QED BY <1>1, <1>2

(* A milestone is not lost between the tasks, whenever it is signalled.     *)
LEMMA StepMilestone ==
  ASSUME Types, MilestoneKept, [Next]_vars
  PROVE  MilestoneKept'
<1>1. frame \in Frames
  BY DEF Types
<1> USE DEF MilestoneKept, clicks, turbo, signals, task, display, past
<1>2. CASE PressA \/ PressB \/ Poll \/ Tick \/ GoesOffline
  <2>1. UNCHANGED <<milestone, signalled>>
    BY <1>2 DEF PressA, PressB, Poll, Tick, GoesOffline
  <2> QED BY <1>1, <1>2, <2>1, FrameKept
<1>3. CASE RpcStep
  <2>1. milestone' = TRUE \/ UNCHANGED <<milestone, signalled>>
    BY <1>3 DEF RpcStep, TurboTaken, TurboAnswered,
                RegisterStarts, Registered, RegisterFails, Refreshed, ScoresFetched, Sends, Answered, Signal, Fails
  <2> QED BY <1>1, <1>3, <2>1, FrameKept
<1>4. CASE Snapshot
  BY <1>1, <1>4 DEF Snapshot
<1>5. CASE FlashTaken
  BY <1>1, <1>5 DEF FlashTaken
<1>6. CASE MilestoneTaken
  BY <1>1, <1>6 DEF MilestoneTaken, Frames
<1>7. CASE TurboExpiry
  BY <1>1, <1>7 DEF TurboExpiry, Frames
<1>8. CASE GoldFlash
  BY <1>8 DEF GoldFlash, FlagAfterFlash
<1>9. CASE Draw \/ Redraw
  BY <1>1, <1>9 DEF Draw, Redraw, FrameEnds
<1>10. CASE UNCHANGED vars
  BY <1>10 DEF vars
<1> QED BY <1>2, <1>3, <1>4, <1>5, <1>6, <1>7, <1>8, <1>9, <1>10 DEF Next, DisplayStep

(* A milestone that is signalled is shown or still waits, for any order of  *)
(* the calls and the frames.                                                *)
THEOREM MilestoneIsKept == Spec => []MilestoneKept
<1>1. Init => MilestoneKept
  BY DEF Init, MilestoneKept
<1>2. Types /\ MilestoneKept /\ [Next]_vars => MilestoneKept'
  BY StepMilestone
<1> QED BY <1>1, <1>2, TypesInvariant, PTL DEF Spec

-----------------------------------------------------------------------------
(* The turbo.  Until the display compares the clock, and unless a turbo has *)
(* started since, the time left in its snapshot is the time left.           *)
LagInv ==
  turboOn /\ ~fresh /\ frame.turbo /\ disp \in {"flash", "milestone", "expiry"}
    => frame.left = turboLeft

(* Every step keeps it.                                                     *)
LEMMA StepLag ==
  ASSUME Types, LagInv, [Next]_vars
  PROVE  LagInv'
<1>1. frame \in Frames /\ turboLeft \in -1..TurboTime
  BY DEF Types, Counts
<1> USE DEF LagInv, clicks, turbo, signals, task, display, past
<1>2. CASE PressA \/ PressB \/ Poll \/ GoesOffline
  BY <1>2 DEF PressA, PressB, Poll, GoesOffline
<1>3. CASE Tick
  <2>1. UNCHANGED <<turboOn, fresh, disp>> /\ frame'.turbo = frame.turbo
    BY <1>1, <1>3 DEF Tick, Frames
  <2> SUFFICES ASSUME turboOn, ~fresh, frame.turbo, disp \in {"flash", "milestone", "expiry"}
               PROVE  frame'.left = turboLeft'
    BY <2>1
  <2>2. frame.left = turboLeft
    OBVIOUS
  <2>3. frame'.left = frame.left - IF frame.left > -1 THEN 1 ELSE 0
    BY <1>1, <1>3 DEF Tick, Frames
  <2>4. turboLeft' = turboLeft - IF turboLeft > -1 THEN 1 ELSE 0
    BY <1>3 DEF Tick
  <2> QED BY <2>2, <2>3, <2>4
<1>4. CASE TurboTaken \/ TurboAnswered
  <2>1. fresh' = TRUE \/ UNCHANGED <<turboOn, turboLeft, fresh, frame, disp>>
    BY <1>4 DEF TurboTaken, TurboAnswered, ApplyTurbo
  <2> QED BY <2>1
<1>5. CASE ScoresFetched \/ Sends \/ Answered \/ Fails
            \/ RegisterStarts \/ Registered \/ RegisterFails \/ Refreshed
  BY <1>5 DEF ScoresFetched, Sends, Answered, Fails, RegisterStarts, Registered, RegisterFails, Refreshed
<1>6. CASE Snapshot
  <2>1. turboOn' = turboOn /\ turboLeft' = turboLeft
    BY <1>6 DEF Snapshot
  <2>2. frame'.left = IF turboOn THEN turboLeft ELSE 0
    BY <1>6 DEF Snapshot, NoFrame
  <2> QED BY <2>1, <2>2
<1>7. CASE FlashTaken \/ MilestoneTaken
  BY <1>1, <1>7 DEF FlashTaken, MilestoneTaken, Frames
<1>8. CASE TurboExpiry \/ GoldFlash \/ Draw \/ Redraw
  <2>1. disp' \notin {"flash", "milestone", "expiry"}
    BY <1>8 DEF TurboExpiry, GoldFlash, Draw, Redraw, FrameEnds
  <2> QED BY <2>1
<1>9. CASE UNCHANGED vars
  BY <1>9 DEF vars
<1> QED BY <1>2, <1>3, <1>4, <1>5, <1>6, <1>7, <1>8, <1>9 DEF Next, RpcStep, DisplayStep

(* A turbo is cut short only if it started while a frame was under way.     *)
THEOREM TurboCut == Spec => TurboCutOnlyInFlight
<1>1. Init => LagInv
  BY DEF Init, LagInv
<1>2. Types /\ LagInv /\ [Next]_vars => LagInv'
  BY StepLag
<1>3. ASSUME Types, LagInv, [Next]_vars
      PROVE  [turboOn /\ ~turboOn' => turboLeft <= 0 \/ fresh]_vars
  <2> SUFFICES ASSUME turboOn, ~turboOn' PROVE turboLeft <= 0 \/ fresh
    OBVIOUS
  <2>1. TurboExpiry /\ frame.turbo /\ Over
    BY <1>3, Zenon DEF Next, PressA, PressB, Poll, Tick, RpcStep, TurboTaken, TurboAnswered, ApplyTurbo,
       ScoresFetched, Sends, Answered, Fails,
       RegisterStarts, Registered, RegisterFails, Refreshed, GoesOffline, DisplayStep, Snapshot,
       FlashTaken, MilestoneTaken, TurboExpiry, GoldFlash, Draw, Redraw, vars, turbo
  <2>2. disp = "expiry" /\ frame.left <= 0
    BY <2>1 DEF TurboExpiry, Over
  <2> QED BY <1>3, <2>1, <2>2 DEF LagInv
<1> QED BY <1>1, <1>2, <1>3, TypesInvariant, PTL DEF Spec, TurboCutOnlyInFlight

=============================================================================
