-------------------------------- MODULE Light --------------------------------
(* The lights HAL: three RGB units shared by the notification, attention   *)
(* and battery lights, the blinking sequencer of their controller, and the *)
(* backlight. setLight takes mLock, so a call is one step. To avoid writes *)
(* the HAL remembers what it wrote last (colour, delays, target of the     *)
(* program) and skips what seems unchanged; the hardware keeps what was    *)
(* written when the HAL dies and is started again without its memory.      *)
(*                                                                         *)
(* A LightState's colour is its channels and its alpha byte apart. The     *)
(* current of a channel is a fixed multiple of the unit's current ratio,   *)
(* so the ratio stands for it. mLightsBrightness is always the alpha byte  *)
(* of mLightsARGB. Sequencers 2 and 3 are switched off by the first call   *)
(* and never used.                                                         *)
EXTENDS Integers

CONSTANTS
  NotificationStates,  \* LightStates the framework sends for notifications
  AttentionStates,     \* ... for attention
  BatteryStates,       \* ... for the battery
  BacklightColors      \* colours the framework sends for the backlight

Black == <<0, 0, 0>>
LightStates == [rgb : (0 .. 255) \X (0 .. 255) \X (0 .. 255), alpha : 0 .. 255,
                flash : {"none", "timed", "hardware"}, on : Nat, off : Nat]
Unlit == [rgb |-> Black, alpha |-> 0, flash |-> "none", on |-> 0, off |-> 0]

isLit(state) == state.rgb # Black
delaysOf(state) == <<state.on, state.off>>
timed(state) == state.flash = "timed" /\ state.on # 0 /\ state.off # 0

(* What LightsService sends: a light that is off has nothing else either,  *)
(* and one that does not blink by the timer has delays no timed one has,   *)
(* none as a rule.                                                         *)
ASSUME StatesOK ==
  LET all == NotificationStates \cup AttentionStates \cup BatteryStates
  IN /\ all \subseteq LightStates /\ Unlit \in all
     /\ \A s \in all : ~isLit(s) => s = Unlit
     /\ \A t \in all : ~timed(t) =>
          /\ delaysOf(t) # <<5000, 5000>>
          /\ \A s \in all : timed(s) => delaysOf(s) # delaysOf(t)
     /\ BacklightColors \subseteq (0 .. 255) \X (0 .. 255) \X (0 .. 255)

VARIABLES
  mNotificationState, mAttentionState, mBatteryState,
  mLightsARGB,          \* colour and alpha byte written last
  mLightsDelays,        \* mLightsDelayOn and mLightsDelayOff
  mLightsState,         \* "off", "notifications" or "battery"
  mSequencer1State,     \* "unknown", "disabled" or "enabled"
  mSequencerProgramTarget,
  leds,                 \* hardware: colour and current ratio of each unit
  program,              \* hardware: the program in the sequencer's memory
  blinking,             \* hardware: the sequencer runs
  backlight             \* hardware: brightness of the display

states == <<mNotificationState, mAttentionState, mBatteryState>>
memory == <<mLightsARGB, mLightsDelays, mLightsState, mSequencer1State,
            mSequencerProgramTarget>>
hardware == <<leds, program, blinking>>
vars == <<states, memory, hardware, backlight>>

Units == 1 .. 3
Unknown == <<-1, -1>>
ChargingRatio == 127
ChargedLevel == 100
ChargedDelays == <<5000, 5000>>

Dark == [rgb |-> Black, ratio |-> 0]
Led(rgb, ratio) == IF rgb = Black THEN Dark ELSE [rgb |-> rgb, ratio |-> ratio]

(* The current ratio of writeLightsLED. *)
Ratio(lights, brightness) ==
  IF lights = "battery" THEN ChargingRatio
  ELSE IF brightness > 0 THEN brightness ELSE 255

(* leds_map: the colours of these units that are part of the program. *)
Target(units, rgb) == units \X {c \in 1 .. 3 : rgb[c] > 0}

Program(target, delays) == [target |-> target, delays |-> delays]
NoProgram(delays) == Program({}, delays)

(* The constructor; the hardware is as an earlier instance left it. *)
Constructed ==
  /\ mNotificationState = Unlit /\ mAttentionState = Unlit /\ mBatteryState = Unlit
  /\ mLightsARGB = <<Black, 0>> /\ mLightsDelays = Unknown /\ mLightsState = "off"
  /\ mSequencer1State = "unknown" /\ mSequencerProgramTarget = {}

Init ==
  /\ Constructed
  /\ leds = [u \in Units |-> Dark] /\ program = NoProgram(Unknown)
  /\ blinking = FALSE /\ backlight = 255

(***************************************************************************)
(* The sequencer.                                                          *)
(***************************************************************************)
(* setLightsProgram, sequencer being mSequencer1State before the call. A   *)
(* timed light has a colour (StatesOK), so its target is not empty.        *)
SetLightsProgram(sequencer, write, target, isTimed, delays) ==
  \/ /\ isTimed
     /\ program' = IF write \/ sequencer = "unknown" THEN Program(target, delays)
                   ELSE program
     /\ blinking' = TRUE /\ mSequencer1State' = "enabled"
  \/ /\ ~isTimed
     /\ program' = IF write /\ target # {} THEN NoProgram(delays) ELSE program
     /\ blinking' = FALSE /\ mSequencer1State' = "disabled"

(***************************************************************************)
(* The units.                                                              *)
(***************************************************************************)
(* Mutant: only a change of the target counts. *)
WriteColorsOnlyTarget(newTarget, newDelays, isTimed, argb) == newTarget

(* leds_rgb_update: whether the units are written. *)
WriteColors(newTarget, newDelays, isTimed, argb) ==
  newTarget \/ (newDelays /\ ~isTimed) \/ argb # mLightsARGB

(* Mutant: a change of the delays is not noticed. *)
WriteProgramOnlyTarget(newTarget, newDelays, isTimed) == newTarget

(* leds_program_update: whether the sequencer's memory is written. *)
WriteProgram(newTarget, newDelays, isTimed) == newTarget \/ (newDelays /\ isTimed)

(* setSpeakerLightLocked. With the battery lit it has the middle unit; the *)
(* other lights get the rest, unless the battery is what is shown.         *)
SetSpeakerLight(state, lights, battery) ==
  LET middle == isLit(battery) /\ lights = "battery"
      shared == isLit(battery) /\ lights # "battery"
      charged == middle /\ state.alpha = ChargedLevel
      units == IF middle THEN {1} ELSE IF shared THEN {2, 3} ELSE Units
      delays == IF charged THEN ChargedDelays ELSE delaysOf(state)
      isTimed == charged \/ timed(state)
      target == Target(units, state.rgb)
      newTarget == target # mSequencerProgramTarget
      newDelays == delays # mLightsDelays
      argb == <<state.rgb, state.alpha>>
      sequencer == IF middle /\ ~timed(state) THEN "disabled" ELSE mSequencer1State
  IN /\ leds' = [u \in Units |->
          IF u \in units
          THEN IF WriteColors(newTarget, newDelays, isTimed, argb)
               THEN Led(state.rgb, Ratio(lights, state.alpha)) ELSE leds[u]
          ELSE IF shared THEN Led(battery.rgb, ChargingRatio) ELSE Dark]
     /\ SetLightsProgram(sequencer, WriteProgram(newTarget, newDelays, isTimed),
                         target, isTimed, delays)
     /\ mLightsARGB' = argb /\ mLightsDelays' = delays
     /\ mSequencerProgramTarget' = target
     /\ UNCHANGED backlight

(* setSpeakerBatteryLightLocked: attention does not say whose turn it is.  *)
SetSpeakerBatteryLight(notification, attention, battery) ==
  LET lights == IF isLit(notification) THEN "notifications"
                ELSE IF isLit(attention) THEN mLightsState ELSE "battery"
      state == IF isLit(notification) THEN notification
               ELSE IF isLit(attention) THEN attention ELSE battery
  IN mLightsState' = lights /\ SetSpeakerLight(state, lights, battery)

SetNotificationLight(state) ==
  /\ mNotificationState' = state
  /\ SetSpeakerBatteryLight(state, mAttentionState, mBatteryState)
  /\ UNCHANGED <<mAttentionState, mBatteryState>>

SetAttentionLight(state) ==
  /\ mAttentionState' = state
  /\ SetSpeakerBatteryLight(mNotificationState, state, mBatteryState)
  /\ UNCHANGED <<mNotificationState, mBatteryState>>

SetBatteryLight(state) ==
  /\ mBatteryState' = state
  /\ SetSpeakerBatteryLight(mNotificationState, mAttentionState, state)
  /\ UNCHANGED <<mNotificationState, mAttentionState>>

(***************************************************************************)
(* The backlight.                                                          *)
(***************************************************************************)
rgbToBrightness(rgb) == (77 * rgb[1] + 150 * rgb[2] + 29 * rgb[3]) \div 256

SlowedSpan == 128
SlowedMax == SlowedSpan \div 2
AcceleratedReal == 255 - SlowedMax - 1
AcceleratedSpan == 255 - SlowedSpan

(* The brightness written for a brightness asked for: the lower half is    *)
(* slowed, the upper half accelerated. *)
LcdBrightness(b) ==
  IF b = 0 THEN 0
  ELSE IF b < SlowedSpan THEN 1 + b \div 2
  ELSE 1 + SlowedMax + ((b - SlowedSpan) * AcceleratedReal) \div AcceleratedSpan

SetBacklight(rgb) ==
  /\ backlight' = LcdBrightness(rgbToBrightness(rgb))
  /\ UNCHANGED <<states, memory, hardware>>

(* init starts the service again. *)
Restart ==
  /\ mNotificationState' = Unlit /\ mAttentionState' = Unlit /\ mBatteryState' = Unlit
  /\ mLightsARGB' = <<Black, 0>> /\ mLightsDelays' = Unknown /\ mLightsState' = "off"
  /\ mSequencer1State' = "unknown" /\ mSequencerProgramTarget' = {}
  /\ UNCHANGED <<hardware, backlight>>

Next ==
  \/ \E state \in NotificationStates : SetNotificationLight(state)
  \/ \E state \in AttentionStates : SetAttentionLight(state)
  \/ \E state \in BatteryStates : SetBatteryLight(state)
  \/ \E rgb \in BacklightColors : SetBacklight(rgb)
  \/ Restart

Spec == Init /\ [][Next]_vars

(***************************************************************************)
(* Properties.                                                             *)
(***************************************************************************)
(* What the three units show depends on the lights that are set now and    *)
(* not on the order they were set in, although writes that seem            *)
(* unnecessary are skipped: a notification with its own brightness on all  *)
(* units, or on the outer ones beside the battery's, a charging battery    *)
(* alone on the middle unit. Attention is shown somewhere: where, depends  *)
(* on the light shown before it.                                           *)
LedsShowLights ==
  LET n == mNotificationState
      b == mBatteryState
      battery == Led(b.rgb, ChargingRatio)
      wanted == [u \in Units |->
        IF isLit(n) /\ ~(isLit(b) /\ u = 1)
        THEN Led(n.rgb, IF n.alpha = 0 THEN 255 ELSE n.alpha)
        ELSE IF u = 1 THEN battery ELSE Dark]
  IN mLightsDelays # Unknown =>
       IF isLit(mAttentionState) /\ ~isLit(n)
       THEN \E u \in Units : leds[u].rgb = mAttentionState.rgb
       ELSE leds = wanted

(* The sequencer runs exactly while the light shown is to blink, with a    *)
(* program for that light's colours, units and delays: the program of an   *)
(* earlier light that is still in its memory is never run for it. A full   *)
(* battery blinks slowly.                                                  *)
BlinksAsAsked ==
  LET n == mNotificationState
      b == mBatteryState
      full == b.alpha = ChargedLevel
      should == IF isLit(n) THEN timed(n) ELSE isLit(b) /\ (full \/ timed(b))
      wanted ==
        IF isLit(n)
        THEN Program(Target(IF isLit(b) THEN {2, 3} ELSE Units, n.rgb), delaysOf(n))
        ELSE Program(Target({1}, b.rgb), IF full THEN ChargedDelays ELSE delaysOf(b))
  IN mLightsDelays # Unknown /\ (isLit(n) \/ ~isLit(mAttentionState)) =>
       /\ blinking = should
       /\ blinking => program = wanted
=============================================================================
