---------------------------- MODULE LightProofs ----------------------------
(* What holds of Light for every set of states that keeps LightsService's  *)
(* contract (StatesOK): the sequencer blinks exactly when it should, with  *)
(* the right program; the units show the lights that are set, although     *)
(* writes are skipped; and the backlight's brightness is monotone. Then,    *)
(* of the music lights, the three invariants of LightsEffects for every     *)
(* number of sessions, songs and outstanding broadcasts.                    *)
EXTENDS Light, LightsEffects, SequenceTheorems, TLAPS

AllStates == NotificationStates \cup AttentionStates \cup BatteryStates

(* What setSpeakerLightLocked derives from its arguments. *)
Charged(state, lights, battery) ==
  isLit(battery) /\ lights = "battery" /\ state.alpha = ChargedLevel
LitUnits(lights, battery) ==
  IF isLit(battery) THEN IF lights = "battery" THEN {1} ELSE {2, 3} ELSE Units
LitDelays(state, lights, battery) ==
  IF Charged(state, lights, battery) THEN ChargedDelays ELSE delaysOf(state)
LitTimed(state, lights, battery) == Charged(state, lights, battery) \/ timed(state)

TimedDelays == {ChargedDelays} \cup {delaysOf(s) : s \in {t \in AllStates : timed(t)}}

StatesKnown ==
  /\ mNotificationState \in NotificationStates \cup {Unlit}
  /\ mAttentionState \in AttentionStates \cup {Unlit}
  /\ mBatteryState \in BatteryStates \cup {Unlit}

(* What the HAL remembers is what the hardware does: before the first call *)
(* it knows nothing, later the delays tell whether the sequencer runs, and *)
(* then with the program of the remembered target and delays.              *)
SequencerKnown ==
  /\ mLightsDelays = Unknown <=> mSequencer1State = "unknown"
  /\ mLightsDelays # Unknown =>
       /\ blinking \in BOOLEAN
       /\ blinking <=> mLightsDelays \in TimedDelays
       /\ blinking => program = Program(mSequencerProgramTarget, mLightsDelays)

IInv == StatesKnown /\ SequencerKnown /\ BlinksAsAsked

(* A light that blinks and one that does not never have the same delays.   *)
LEMMA DelaysTell ==
  ASSUME NEW state \in AllStates, NEW lights, NEW battery
  PROVE  /\ LitDelays(state, lights, battery) # Unknown
         /\ LitTimed(state, lights, battery) <=> LitDelays(state, lights, battery) \in TimedDelays
  <1>1. ChargedDelays # Unknown /\ ChargedDelays \in TimedDelays
    BY DEF ChargedDelays, Unknown, TimedDelays
  <1>2. delaysOf(state) # Unknown
    BY StatesOK DEF AllStates, LightStates, delaysOf, Unknown
  <1>3. timed(state) => delaysOf(state) \in TimedDelays
    BY DEF TimedDelays
  <1>4. ~timed(state) => delaysOf(state) \notin TimedDelays
    BY StatesOK DEF TimedDelays, AllStates, ChargedDelays
  <1>. QED BY <1>1, <1>2, <1>3, <1>4 DEF LitDelays, LitTimed

(* One call of setSpeakerLightLocked, whatever was written or skipped.     *)
LEMMA SpeakerStep ==
  ASSUME NEW state \in AllStates, NEW lights, NEW battery, SequencerKnown,
         SetSpeakerLight(state, lights, battery)
  PROVE  /\ SequencerKnown'
         /\ blinking' = LitTimed(state, lights, battery)
         /\ blinking' => program' = Program(Target(LitUnits(lights, battery), state.rgb),
                                            LitDelays(state, lights, battery))
  <1>. DEFINE delays == LitDelays(state, lights, battery)
              isTimed == LitTimed(state, lights, battery)
              target == Target(LitUnits(lights, battery), state.rgb)
              write == WriteProgram(target # mSequencerProgramTarget, delays # mLightsDelays, isTimed)
              sequencer == IF isLit(battery) /\ lights = "battery" /\ ~timed(state)
                           THEN "disabled" ELSE mSequencer1State
  <1>1. /\ SetLightsProgram(sequencer, write, target, isTimed, delays)
        /\ mLightsDelays' = delays /\ mSequencerProgramTarget' = target
    BY DEF SetSpeakerLight, LitDelays, LitTimed, LitUnits, Charged
  <1>2. delays # Unknown /\ (isTimed <=> delays \in TimedDelays) /\ isTimed \in BOOLEAN
    BY DelaysTell DEF LitTimed, timed, Charged
  <1>. HIDE DEF delays, isTimed, target
  <1>3. blinking' = isTimed /\ mSequencer1State' # "unknown"
    BY <1>1, <1>2 DEF SetLightsProgram
  <1>4. ASSUME isTimed PROVE program' = Program(target, delays)
    <2>1. CASE write \/ sequencer = "unknown"
      BY <1>1, <1>4, <2>1 DEF SetLightsProgram
    <2>2. CASE ~write /\ sequencer # "unknown"
      <3>1. target = mSequencerProgramTarget /\ delays = mLightsDelays
        BY <1>4, <2>2 DEF WriteProgram
      <3>2. program = Program(target, delays)
        BY <1>2, <1>4, <3>1 DEF SequencerKnown
      <3>. QED BY <1>1, <1>4, <2>2, <3>2 DEF SetLightsProgram
    <2>. QED BY <2>1, <2>2
  <1>5. SequencerKnown'
    <2>1. TimedDelays' = TimedDelays
      BY DEF TimedDelays, AllStates
    <2>. QED BY <1>1, <1>2, <1>3, <1>4, <2>1 DEF SequencerKnown
  <1>. QED BY <1>3, <1>4, <1>5 DEF delays, isTimed, target

(* setSpeakerBatteryLightLocked for any three lights.                      *)
LEMMA BatteryStep ==
  ASSUME NEW n \in NotificationStates \cup {Unlit},
         NEW a \in AttentionStates \cup {Unlit},
         NEW b \in BatteryStates \cup {Unlit},
         SequencerKnown, SetSpeakerBatteryLight(n, a, b),
         mNotificationState' = n, mAttentionState' = a, mBatteryState' = b
  PROVE  SequencerKnown' /\ BlinksAsAsked'
  <1>0. n \in AllStates /\ a \in AllStates /\ b \in AllStates
    BY StatesOK DEF AllStates
  <1>1. CASE isLit(n)
    <2>1. SetSpeakerLight(n, "notifications", b)
      BY <1>1 DEF SetSpeakerBatteryLight
    <2>2. /\ SequencerKnown' /\ blinking' = timed(n)
          /\ blinking' => program' = Program(Target(IF isLit(b) THEN {2, 3} ELSE Units, n.rgb), delaysOf(n))
      <3>1. ~Charged(n, "notifications", b)
        BY DEF Charged
      <3>2. /\ SequencerKnown' /\ blinking' = LitTimed(n, "notifications", b)
            /\ blinking' => program' = Program(Target(LitUnits("notifications", b), n.rgb),
                                               LitDelays(n, "notifications", b))
        BY <1>0, <2>1, SpeakerStep
      <3>3. LitTimed(n, "notifications", b) = timed(n)
        BY <3>1 DEF LitTimed, timed
      <3>4. LitDelays(n, "notifications", b) = delaysOf(n)
        BY <3>1 DEF LitDelays
      <3>5. LitUnits("notifications", b) = IF isLit(b) THEN {2, 3} ELSE Units
        BY DEF LitUnits
      <3>. QED BY <3>2, <3>3, <3>4, <3>5
    <2>. QED BY <1>1, <2>2 DEF BlinksAsAsked
  <1>2. CASE ~isLit(n) /\ isLit(a)
    <2>1. SetSpeakerLight(a, mLightsState, b)
      BY <1>2 DEF SetSpeakerBatteryLight
    <2>2. SequencerKnown'
      BY <1>0, <2>1, SpeakerStep
    <2>. QED BY <1>2, <2>2 DEF BlinksAsAsked
  <1>3. CASE ~isLit(n) /\ ~isLit(a)
    <2>1. SetSpeakerLight(b, "battery", b)
      BY <1>3 DEF SetSpeakerBatteryLight
    <2>2. /\ SequencerKnown' /\ blinking' = LitTimed(b, "battery", b)
          /\ blinking' => program' = Program(Target(LitUnits("battery", b), b.rgb), LitDelays(b, "battery", b))
      BY <1>0, <2>1, SpeakerStep
    <2>3. ~isLit(b) => ~timed(b)
      BY <1>0, StatesOK DEF AllStates, Unlit, timed
    <2>. QED BY <1>3, <2>2, <2>3 DEF BlinksAsAsked, LitTimed, LitUnits, LitDelays, Charged
  <1>. QED BY <1>1, <1>2, <1>3

LEMMA IndStep == IInv /\ [Next]_vars => IInv'
  <1>. SUFFICES ASSUME IInv, [Next]_vars PROVE IInv'
    OBVIOUS
  <1>. USE DEF IInv
  <1>1. CASE UNCHANGED <<states, memory, hardware>>
    BY <1>1 DEF StatesKnown, SequencerKnown, BlinksAsAsked, states, memory, hardware, TimedDelays, AllStates
  <1>2. ASSUME NEW state \in NotificationStates, SetNotificationLight(state) PROVE IInv'
    BY <1>2, BatteryStep DEF SetNotificationLight, StatesKnown
  <1>3. ASSUME NEW state \in AttentionStates, SetAttentionLight(state) PROVE IInv'
    BY <1>3, BatteryStep DEF SetAttentionLight, StatesKnown
  <1>4. ASSUME NEW state \in BatteryStates, SetBatteryLight(state) PROVE IInv'
    BY <1>4, BatteryStep DEF SetBatteryLight, StatesKnown
  <1>5. ASSUME NEW rgb \in BacklightColors, SetBacklight(rgb) PROVE IInv'
    BY <1>1, <1>5 DEF SetBacklight
  <1>6. CASE Restart
    BY <1>6 DEF Restart, StatesKnown, SequencerKnown, BlinksAsAsked
  <1>. QED BY <1>1, <1>2, <1>3, <1>4, <1>5, <1>6 DEF Next, vars, states, memory, hardware

(* For every set of lights, however many writes were skipped and whatever  *)
(* an earlier instance left in the hardware: the sequencer runs exactly    *)
(* while the light shown is to blink, with its own program.                *)
THEOREM BlinkingIsAsked == Spec => []BlinksAsAsked
  <1>1. Init => IInv
    BY DEF Init, Constructed, IInv, StatesKnown, SequencerKnown, BlinksAsAsked
  <1>2. IInv => BlinksAsAsked
    BY DEF IInv
  <1>. QED BY <1>1, <1>2, IndStep, PTL DEF Spec

(***************************************************************************)
(* The units.                                                              *)
(***************************************************************************)
(* What the units show when setSpeakerLightLocked writes all of them.      *)
AllWritten(state, lights, battery) ==
  [u \in Units |->
     IF u \in LitUnits(lights, battery) THEN Led(state.rgb, Ratio(lights, state.alpha))
     ELSE IF isLit(battery) /\ lights # "battery" THEN Led(battery.rgb, ChargingRatio)
     ELSE Dark]

(* Which light setSpeakerBatteryLightLocked chooses, and as whose.         *)
Chosen(state, lights, n, a, b) ==
  \/ isLit(n) /\ state = n /\ lights = "notifications"
  \/ ~isLit(n) /\ isLit(a) /\ state = a
  \/ ~isLit(n) /\ ~isLit(a) /\ state = b /\ lights = "battery"

ShownState ==
  IF isLit(mNotificationState) THEN mNotificationState
  ELSE IF isLit(mAttentionState) THEN mAttentionState ELSE mBatteryState

(* No notification has colour and alpha byte of an attention light. A      *)
(* notification right after such an attention light that was shown with    *)
(* the battery's current keeps that current: what is compared does not     *)
(* include whose light it was.                                             *)
AttentionApart ==
  \A a \in AttentionStates, n \in NotificationStates :
    isLit(a) /\ isLit(n) => <<a.rgb, a.alpha>> # <<n.rgb, n.alpha>>

(* What was remembered is what was chosen, and the units show it as if     *)
(* every write had been made: their colours always, their currents too     *)
(* when notification and attention lights can be told apart.               *)
LedsKnown ==
  mLightsDelays # Unknown =>
    /\ Chosen(ShownState, mLightsState, mNotificationState, mAttentionState, mBatteryState)
    /\ mLightsARGB = <<ShownState.rgb, ShownState.alpha>>
    /\ mSequencerProgramTarget = Target(LitUnits(mLightsState, mBatteryState), ShownState.rgb)
    /\ \A u \in Units :
         /\ leds[u].rgb = AllWritten(ShownState, mLightsState, mBatteryState)[u].rgb
         /\ AttentionApart => leds[u] = AllWritten(ShownState, mLightsState, mBatteryState)[u]
    /\ leds = [u \in Units |-> leds[u]]

(* Before the first call nothing was written, so the first call writes.    *)
NothingKnown == mLightsDelays = Unknown => mLightsARGB = <<Black, 0>>

(* The colours alone of LedsShowLights, which no two lights can confuse.   *)
ColoursShowLights ==
  LET n == mNotificationState
      b == mBatteryState
  IN mLightsDelays # Unknown =>
       IF isLit(mAttentionState) /\ ~isLit(n)
       THEN \E u \in Units : leds[u].rgb = mAttentionState.rgb
       ELSE \A u \in Units :
              leds[u].rgb = IF isLit(n) /\ ~(isLit(b) /\ u = 1) THEN n.rgb
                            ELSE IF u = 1 THEN b.rgb ELSE Black

LInv == StatesKnown /\ SequencerKnown /\ LedsKnown /\ NothingKnown

(* A colour's target tells which units it is for.                          *)
LEMMA TargetTells ==
  ASSUME NEW rgb \in (0 .. 255) \X (0 .. 255) \X (0 .. 255), rgb # Black,
         NEW U \in SUBSET Units, NEW V \in SUBSET Units, Target(U, rgb) = Target(V, rgb)
  PROVE  U = V
  <1>1. PICK c \in 1 .. 3 : rgb[c] > 0
    <2>1. /\ rgb = <<rgb[1], rgb[2], rgb[3]>>
          /\ rgb[1] \in 0 .. 255 /\ rgb[2] \in 0 .. 255 /\ rgb[3] \in 0 .. 255
      OBVIOUS
    <2>2. rgb[1] # 0 \/ rgb[2] # 0 \/ rgb[3] # 0
      BY <2>1 DEF Black
    <2>. QED BY <2>1, <2>2
  <1>2. ASSUME NEW W \in SUBSET Units, NEW u \in Units
        PROVE  u \in W <=> <<u, c>> \in Target(W, rgb)
    BY <1>1 DEF Target
  <1>3. \A u \in Units : u \in U <=> u \in V
    BY <1>2
  <1>. QED BY <1>3

LEMMA LitUnitsAreUnits ==
  ASSUME NEW lights, NEW battery PROVE LitUnits(lights, battery) \in SUBSET Units
  BY DEF LitUnits, Units

(* An unlit colour is dark at any current.                                 *)
LEMMA LedColour ==
  ASSUME NEW rgb, NEW ratio
  PROVE  Led(rgb, ratio).rgb = rgb /\ Led(Black, ratio) = Dark
  BY DEF Led, Dark

(* Two calls that leave the same in the HAL's memory: what the first wrote *)
(* to a unit of the second is what the second would write.                 *)
LEMMA SkippedIsWritten ==
  ASSUME StatesKnown,
         Chosen(ShownState, mLightsState, mNotificationState, mAttentionState, mBatteryState),
         NEW n, NEW a, NEW b, NEW s, NEW l, Chosen(s, l, n, a, b),
         isLit(n) => n \in NotificationStates,
         s.rgb \in (0 .. 255) \X (0 .. 255) \X (0 .. 255),
         ~isLit(n) /\ isLit(a) => l = mLightsState,
         ShownState.rgb = s.rgb, ShownState.alpha = s.alpha,
         Target(LitUnits(mLightsState, mBatteryState), ShownState.rgb)
           = Target(LitUnits(l, b), s.rgb),
         NEW u \in LitUnits(l, b)
  PROVE  /\ AllWritten(ShownState, mLightsState, mBatteryState)[u].rgb = s.rgb
         /\ AttentionApart => AllWritten(ShownState, mLightsState, mBatteryState)[u]
                                = Led(s.rgb, Ratio(l, s.alpha))
  <1>. DEFINE n0 == mNotificationState
              a0 == mAttentionState
              b0 == mBatteryState
              s0 == ShownState
              l0 == mLightsState
  <1>0. u \in Units
    BY LitUnitsAreUnits
  <1>1. CASE s.rgb = Black
    <2>1. s0 = b0 /\ l0 = "battery" /\ ~isLit(b0)
      BY <1>1 DEF Chosen, isLit
    <2>2. u \in LitUnits(l0, b0)
      BY <1>0, <2>1 DEF LitUnits
    <2>3. AllWritten(s0, l0, b0)[u] = Led(Black, Ratio(l0, s0.alpha))
      BY <1>0, <1>1, <2>2 DEF AllWritten
    <2>. QED BY <1>1, <2>3, LedColour DEF Dark
  <1>2. CASE s.rgb # Black
    <2>1. LitUnits(l0, b0) \in SUBSET Units /\ LitUnits(l, b) \in SUBSET Units
      BY LitUnitsAreUnits
    <2>2. LitUnits(l0, b0) = LitUnits(l, b)
      BY <1>2, <2>1, TargetTells
    <2>3. AllWritten(s0, l0, b0)[u] = Led(s.rgb, Ratio(l0, s.alpha))
      BY <1>0, <2>2 DEF AllWritten
    <2>4. ASSUME AttentionApart PROVE Ratio(l0, s.alpha) = Ratio(l, s.alpha)
      <3>1. CASE (l0 = "battery") <=> (l = "battery")
        BY <3>1 DEF Ratio
      <3>2. CASE l0 = "battery" /\ l # "battery"
        <4>1. ~isLit(b0) /\ ~isLit(b)
          BY <2>2, <3>2 DEF LitUnits, Units
        <4>2. s0 = a0 /\ isLit(a0)
          BY <1>2, <3>2, <4>1 DEF Chosen, isLit
        <4>3. s = n /\ isLit(n)
          BY <3>2 DEF Chosen
        <4>4. a0 \in AttentionStates /\ n \in NotificationStates
          BY <4>2, <4>3 DEF isLit, Unlit, StatesKnown
        <4>. QED BY <2>4, <4>2, <4>3, <4>4 DEF AttentionApart
      <3>3. CASE l0 # "battery" /\ l = "battery"
        <4>1. s = b
          BY <3>3 DEF Chosen
        <4>2. isLit(b)
          BY <1>2, <4>1 DEF isLit
        <4>3. LitUnits(l, b) = {1} /\ LitUnits(l0, b0) # {1}
          BY <3>3, <4>2 DEF LitUnits, Units
        <4>. QED BY <2>2, <4>3
      <3>. QED BY <3>1, <3>2, <3>3
    <2>. QED BY <2>3, <2>4, LedColour
  <1>. QED BY <1>1, <1>2

(* One call of setSpeakerBatteryLightLocked.                               *)
LEMMA BatteryLeds ==
  ASSUME NEW n \in NotificationStates \cup {Unlit},
         NEW a \in AttentionStates \cup {Unlit},
         NEW b \in BatteryStates \cup {Unlit},
         LInv, SetSpeakerBatteryLight(n, a, b),
         mNotificationState' = n, mAttentionState' = a, mBatteryState' = b
  PROVE  LedsKnown' /\ NothingKnown'
  <1>. DEFINE lights == IF isLit(n) THEN "notifications"
                        ELSE IF isLit(a) THEN mLightsState ELSE "battery"
              state == IF isLit(n) THEN n ELSE IF isLit(a) THEN a ELSE b
              target == Target(LitUnits(lights, b), state.rgb)
              write == WriteColors(target # mSequencerProgramTarget,
                                   LitDelays(state, lights, b) # mLightsDelays,
                                   LitTimed(state, lights, b), <<state.rgb, state.alpha>>)
  <1>1. mLightsState' = lights /\ SetSpeakerLight(state, lights, b) /\ ShownState' = state
    BY DEF SetSpeakerBatteryLight, ShownState
  <1>2. Chosen(state, lights, n, a, b) /\ state \in AllStates
    BY StatesOK DEF Chosen, AllStates
  <1>3. /\ mLightsARGB' = <<state.rgb, state.alpha>> /\ mSequencerProgramTarget' = target
        /\ mLightsDelays' = LitDelays(state, lights, b)
        /\ leds' = [u \in Units |->
             IF u \in LitUnits(lights, b)
             THEN IF write THEN Led(state.rgb, Ratio(lights, state.alpha)) ELSE leds[u]
             ELSE IF isLit(b) /\ lights # "battery" THEN Led(b.rgb, ChargingRatio) ELSE Dark]
    BY <1>1 DEF SetSpeakerLight, LitDelays, LitTimed, LitUnits, Charged
  <1>4. mLightsDelays' # Unknown
    BY <1>2, <1>3, DelaysTell
  <1>5. ASSUME NEW u \in LitUnits(lights, b), ~write
        PROVE  /\ leds[u].rgb = state.rgb
               /\ AttentionApart => leds[u] = Led(state.rgb, Ratio(lights, state.alpha))
    <2>1. target = mSequencerProgramTarget /\ mLightsARGB = <<state.rgb, state.alpha>>
      BY <1>5 DEF WriteColors
    <2>2. mLightsDelays # Unknown
      <3>1. SUFFICES ASSUME mLightsDelays = Unknown PROVE FALSE
        OBVIOUS
      <3>2. LitTimed(state, lights, b)
        BY <1>2, <1>3, <1>4, <1>5, <3>1 DEF WriteColors
      <3>3. isLit(state)
        <4>1. CASE timed(state)
          BY <1>2, <4>1, StatesOK DEF AllStates, Unlit, timed
        <4>2. CASE Charged(state, lights, b)
          BY <1>2, <4>2 DEF Charged, Chosen
        <4>. QED BY <3>2, <4>1, <4>2 DEF LitTimed
      <3>. QED BY <2>1, <3>1, <3>3 DEF LInv, NothingKnown, isLit
    <2>3. /\ Chosen(ShownState, mLightsState, mNotificationState, mAttentionState, mBatteryState)
          /\ ShownState.rgb = state.rgb /\ ShownState.alpha = state.alpha
          /\ Target(LitUnits(mLightsState, mBatteryState), ShownState.rgb) = target
      BY <2>1, <2>2 DEF LInv, LedsKnown
    <2>4. ~isLit(n) /\ isLit(a) => lights = mLightsState
      OBVIOUS
    <2>. HIDE DEF lights, state, write
    <2>5. /\ AllWritten(ShownState, mLightsState, mBatteryState)[u].rgb = state.rgb
          /\ AttentionApart => AllWritten(ShownState, mLightsState, mBatteryState)[u]
                                 = Led(state.rgb, Ratio(lights, state.alpha))
      <3>1. StatesKnown /\ (isLit(n) => n \in NotificationStates)
        BY DEF LInv, Unlit, isLit
      <3>2. state.rgb \in (0 .. 255) \X (0 .. 255) \X (0 .. 255)
        BY <1>2, StatesOK DEF AllStates, LightStates
      <3>3. /\ Chosen(state, lights, n, a, b) /\ u \in LitUnits(lights, b)
            /\ Target(LitUnits(mLightsState, mBatteryState), ShownState.rgb)
                 = Target(LitUnits(lights, b), state.rgb)
        BY <1>2, <1>5, <2>3
      <3>. QED BY <2>3, <2>4, <3>1, <3>2, <3>3, SkippedIsWritten
    <2>6. u \in Units
      BY LitUnitsAreUnits
    <2>. QED BY <2>2, <2>5, <2>6 DEF LInv, LedsKnown
  <1>. HIDE DEF lights, state, write, target
  <1>6. ASSUME NEW u \in Units
        PROVE  /\ leds'[u].rgb = AllWritten(state, lights, b)[u].rgb
               /\ AttentionApart => leds'[u] = AllWritten(state, lights, b)[u]
    <2>1. CASE u \in LitUnits(lights, b)
      BY <1>3, <1>5, <2>1, LedColour DEF AllWritten
    <2>2. CASE u \notin LitUnits(lights, b)
      BY <1>3, <2>2 DEF AllWritten
    <2>. QED BY <2>1, <2>2
  <1>7. leds' = [u \in Units |-> leds'[u]]
    BY <1>3
  <1>8. AttentionApart' = AttentionApart
    BY DEF AttentionApart
  <1>9. AllWritten(ShownState, mLightsState, mBatteryState)' = AllWritten(state, lights, b)
    BY <1>1 DEF AllWritten
  <1>. QED
    BY <1>1, <1>2, <1>3, <1>4, <1>6, <1>7, <1>8, <1>9 DEF LedsKnown, NothingKnown, target

(* No other call touches a unit or the memory of one. *)
LEMMA LedsStep == LInv /\ [Next]_vars => LInv'
  <1>. SUFFICES ASSUME LInv, [Next]_vars PROVE LInv'
    OBVIOUS
  <1>1. CASE UNCHANGED <<states, memory, hardware>>
    BY <1>1
    DEF LInv, StatesKnown, SequencerKnown, LedsKnown, NothingKnown, ShownState, AllWritten,
        AttentionApart, TimedDelays, AllStates, states, memory, hardware
  <1>2. ASSUME NEW state \in NotificationStates, SetNotificationLight(state) PROVE LInv'
    BY <1>2, BatteryStep, BatteryLeds DEF SetNotificationLight, StatesKnown, LInv
  <1>3. ASSUME NEW state \in AttentionStates, SetAttentionLight(state) PROVE LInv'
    BY <1>3, BatteryStep, BatteryLeds DEF SetAttentionLight, StatesKnown, LInv
  <1>4. ASSUME NEW state \in BatteryStates, SetBatteryLight(state) PROVE LInv'
    BY <1>4, BatteryStep, BatteryLeds DEF SetBatteryLight, StatesKnown, LInv
  <1>5. ASSUME NEW rgb \in BacklightColors, SetBacklight(rgb) PROVE LInv'
    BY <1>1, <1>5 DEF SetBacklight
  <1>6. CASE Restart
    BY <1>6 DEF Restart, LInv, StatesKnown, SequencerKnown, LedsKnown, NothingKnown
  <1>. QED BY <1>1, <1>2, <1>3, <1>4, <1>5, <1>6 DEF Next, vars, states, memory, hardware

LEMMA LedsHold == Spec => []LInv
  <1>1. Init => LInv
    BY DEF Init, Constructed, LInv, StatesKnown, SequencerKnown, LedsKnown, NothingKnown
  <1>. QED BY <1>1, LedsStep, PTL DEF Spec

(* What a call would have written, in the terms of the lights that are set. *)
LEMMA WrittenShows ==
  ASSUME LInv, mLightsDelays # Unknown,
         isLit(mNotificationState) \/ ~isLit(mAttentionState), NEW u \in Units
  PROVE  AllWritten(ShownState, mLightsState, mBatteryState)[u] =
           LET n == mNotificationState
               b == mBatteryState
           IN IF isLit(n) /\ ~(isLit(b) /\ u = 1)
              THEN Led(n.rgb, IF n.alpha = 0 THEN 255 ELSE n.alpha)
              ELSE IF u = 1 THEN Led(b.rgb, ChargingRatio) ELSE Dark
  <1>1. CASE isLit(mNotificationState)
    <2>1. ShownState = mNotificationState /\ mLightsState = "notifications"
      BY <1>1 DEF LInv, LedsKnown, ShownState, Chosen
    <2>2. mNotificationState.alpha \in 0 .. 255
      BY StatesOK DEF LInv, StatesKnown, LightStates, Unlit
    <2>3. Ratio("notifications", mNotificationState.alpha) =
            IF mNotificationState.alpha = 0 THEN 255 ELSE mNotificationState.alpha
      BY <2>2 DEF Ratio
    <2>. QED BY <1>1, <2>1, <2>3 DEF AllWritten, LitUnits, Units
  <1>2. CASE ~isLit(mNotificationState)
    <2>1. ShownState = mBatteryState /\ mLightsState = "battery"
      BY <1>2 DEF LInv, LedsKnown, ShownState, Chosen
    <2>2. CASE isLit(mBatteryState)
      BY <1>2, <2>1, <2>2 DEF AllWritten, LitUnits, Ratio, Units
    <2>3. CASE ~isLit(mBatteryState)
      BY <1>2, <2>1, <2>3 DEF AllWritten, LitUnits, Led, isLit
    <2>. QED BY <2>2, <2>3
  <1>. QED BY <1>1, <1>2

(* An attention light that is shown is shown on some unit.                 *)
LEMMA AttentionShown ==
  ASSUME LInv, mLightsDelays # Unknown, ~isLit(mNotificationState), isLit(mAttentionState)
  PROVE  \E u \in Units : leds[u].rgb = mAttentionState.rgb
  <1>1. ShownState = mAttentionState
    BY DEF ShownState
  <1>2. PICK u \in Units : u \in LitUnits(mLightsState, mBatteryState)
    BY DEF LitUnits, Units
  <1>3. AllWritten(ShownState, mLightsState, mBatteryState)[u].rgb = mAttentionState.rgb
    BY <1>1, <1>2, LedColour DEF AllWritten
  <1>. QED BY <1>3 DEF LInv, LedsKnown

(* The skipped writes of setSpeakerLightLocked never leave a wrong colour  *)
(* on a unit, whatever was shown before.                                   *)
THEOREM ColoursAreShown == Spec => []ColoursShowLights
  <1>1. LInv => ColoursShowLights
    <2>. SUFFICES ASSUME LInv, mLightsDelays # Unknown,
                         isLit(mNotificationState) \/ ~isLit(mAttentionState),
                         NEW u \in Units
                  PROVE  leds[u].rgb =
                           IF isLit(mNotificationState) /\ ~(isLit(mBatteryState) /\ u = 1)
                           THEN mNotificationState.rgb
                           ELSE IF u = 1 THEN mBatteryState.rgb ELSE Black
      BY AttentionShown DEF ColoursShowLights
    <2>1. leds[u].rgb = AllWritten(ShownState, mLightsState, mBatteryState)[u].rgb
      BY DEF LInv, LedsKnown
    <2>. QED BY <2>1, WrittenShows, LedColour DEF Dark
  <1>. QED BY <1>1, LedsHold, PTL

(* Where notification and attention lights differ in colour or alpha byte, *)
(* the skipped writes do not show at all: colour and current of every unit *)
(* are those of the lights that are set.                                   *)
THEOREM LightsAreShown == AttentionApart => (Spec => []LedsShowLights)
  <1>1. AttentionApart /\ LInv => LedsShowLights
    <2>. SUFFICES ASSUME AttentionApart, LInv, mLightsDelays # Unknown,
                         isLit(mNotificationState) \/ ~isLit(mAttentionState)
                  PROVE  leds = [u \in Units |->
                           IF isLit(mNotificationState) /\ ~(isLit(mBatteryState) /\ u = 1)
                           THEN Led(mNotificationState.rgb, IF mNotificationState.alpha = 0
                                                            THEN 255 ELSE mNotificationState.alpha)
                           ELSE IF u = 1 THEN Led(mBatteryState.rgb, ChargingRatio) ELSE Dark]
      BY AttentionShown DEF LedsShowLights
    <2>1. /\ leds = [u \in Units |-> leds[u]]
          /\ \A u \in Units : leds[u] = AllWritten(ShownState, mLightsState, mBatteryState)[u]
      BY DEF LInv, LedsKnown
    <2>. QED BY <2>1, WrittenShows
  <1>2. ASSUME AttentionApart PROVE Spec => []LedsShowLights
    <2>1. LInv => LedsShowLights
      BY <1>1, <1>2
    <2>. QED BY <2>1, LedsHold, PTL
  <1>. QED BY <1>2

(***************************************************************************)
(* The backlight.                                                          *)
(***************************************************************************)
(* A brighter request never gives a darker display, only 0 turns it off,   *)
(* and what is written fits the driver's range (setLcdBrightness).         *)
THEOREM BacklightMonotone ==
  ASSUME NEW a \in 0 .. 255, NEW b \in 0 .. 255, a <= b
  PROVE  /\ LcdBrightness(a) <= LcdBrightness(b)
         /\ LcdBrightness(b) \in 0 .. 255
         /\ LcdBrightness(b) = 0 <=> b = 0
  <1>1. LcdBrightness(a) = IF a = 0 THEN 0 ELSE IF a < 128 THEN 1 + a \div 2
                           ELSE 65 + ((a - 128) * 190) \div 127
    BY DEF LcdBrightness, SlowedSpan, SlowedMax, AcceleratedReal, AcceleratedSpan
  <1>2. LcdBrightness(b) = IF b = 0 THEN 0 ELSE IF b < 128 THEN 1 + b \div 2
                           ELSE 65 + ((b - 128) * 190) \div 127
    BY DEF LcdBrightness, SlowedSpan, SlowedMax, AcceleratedReal, AcceleratedSpan
  <1>. QED BY <1>1, <1>2

(* A colour of three bytes is a brightness of one byte. *)
THEOREM BrightnessIsByte ==
  ASSUME NEW rgb \in (0 .. 255) \X (0 .. 255) \X (0 .. 255)
  PROVE  rgbToBrightness(rgb) \in 0 .. 255
  <1>1. rgb[1] \in 0 .. 255 /\ rgb[2] \in 0 .. 255 /\ rgb[3] \in 0 .. 255
    OBVIOUS
  <1>2. \A r, g, b \in 0 .. 255 : (77 * r + 150 * g + 29 * b) \div 256 \in 0 .. 255
    OBVIOUS
  <1>. QED BY <1>1, <1>2 DEF rgbToBrightness

-----------------------------------------------------------------------------
(***************************************************************************)
(* The colour: at most the latest song's palette is being computed.        *)
(***************************************************************************)
OneTask == tasks = {} \/ (tasks = {song} /\ mPaletteTask = song)

ColourInv == song \in Nat /\ OneTask /\ NewestColour

LEMMA ColourStep == ColourInv /\ [EffectsNext]_effectsVars => ColourInv'
  <1>. SUFFICES ASSUME ColourInv, [EffectsNext]_effectsVars PROVE ColourInv'
    OBVIOUS
  <1>1. CASE UNCHANGED music
    BY <1>1 DEF ColourInv, OneTask, NewestColour, music
  <1>2. ASSUME NEW artwork \in BOOLEAN, MetadataChanged(artwork)
        PROVE  ColourInv'
    <2>1. song' = song + 1 /\ song' \in Nat
      BY <1>2 DEF MetadataChanged, ColourInv
    <2>2. Cancelled(tasks) = {}
      BY DEF Cancelled, ColourInv, OneTask
    <2>3. CASE artwork
      <3>1. tasks' = {song'} /\ mPaletteTask' = song'
        BY <1>2, <2>2, <2>3 DEF MetadataChanged
      <3>. QED BY <3>1, <2>1 DEF ColourInv, OneTask, NewestColour
    <2>4. CASE ~artwork
      <3>1. tasks' = {} /\ mLightsEffectsMusicColor' = song'
        BY <1>2, <2>2, <2>4 DEF MetadataChanged
      <3>. QED BY <3>1, <2>1 DEF ColourInv, OneTask, NewestColour
    <2>. QED BY <2>3, <2>4
  <1>3. ASSUME NEW n \in 1 .. MaxSongs, OnGenerated(n)
        PROVE  ColourInv'
    <2>1. n = song /\ tasks' = {} /\ mLightsEffectsMusicColor' = n /\ song' = song
      BY <1>3 DEF OnGenerated, ColourInv, OneTask
    <2>. QED BY <2>1 DEF ColourInv, OneTask, NewestColour
  <1>4. CASE ProcessDies
    <2>1. song' = 0 /\ tasks' = {}
      BY <1>4 DEF ProcessDies
    <2>. QED BY <2>1 DEF ColourInv, OneTask, NewestColour
  <1>5. ASSUME [SwitchDisplay \/ ReceiveBroadcast \/ SetGain
                \/ (\E m \in Modes : SetMode(m)) \/ StartService
                \/ ActiveSessionsChanged \/ PlaybackStateChanged
                \/ (\E s \in Sessions : Collect(s))
                \/ InitStarts \/ ReadValue \/ ReadGain \/ WriteLeds]_effectsVars
        PROVE  UNCHANGED music
    BY <1>5 DEF SwitchDisplay, ReceiveBroadcast, SetGain, SetMode, StartService,
                ActiveSessionsChanged, PlaybackStateChanged, Collect, InitStarts,
                ReadValue, ReadGain, WriteLeds, service, effectsVars
  <1>. QED BY <1>1, <1>2, <1>3, <1>4, <1>5 DEF EffectsNext

(* However late the palettes are, the colour of an earlier song never      *)
(* replaces that of a later one (onMetadataChanged cancels the task).      *)
THEOREM LatestSongWins == EffectsSpec => []NewestColour
  <1>1. EffectsInit => ColourInv
    BY DEF EffectsInit, ColourInv, OneTask, NewestColour
  <1>2. ColourInv => NewestColour
    BY DEF ColourInv
  <1>. QED BY <1>1, <1>2, ColourStep, PTL DEF EffectsSpec

(***************************************************************************)
(* The controller: unless a start was ignored the running program has read *)
(* what the properties say now, or init has still to start it.             *)
(***************************************************************************)
LedsInv ==
  ~startQueued /\ ~missed =>
    /\ process.pc = "idle" => audioLeds = Written(value, gainProperty)
    /\ process.pc = "gain" => process.value = value
    /\ process.pc = "write" => process.value = value /\ process.gain = gainProperty

ProgramOK == process = [pc |-> process.pc, value |-> process.value, gain |-> process.gain]

(* A step of the service that changes a property queues a start. *)
LEMMA ServiceStep ==
  ASSUME [SwitchDisplay \/ ReceiveBroadcast \/ SetGain
          \/ (\E m \in Modes : SetMode(m)) \/ StartService \/ ProcessDies
          \/ ActiveSessionsChanged \/ PlaybackStateChanged
          \/ (\E s \in Sessions : Collect(s))
          \/ (\E artwork \in BOOLEAN : MetadataChanged(artwork))
          \/ (\E n \in 1 .. MaxSongs : OnGenerated(n))]_effectsVars
  PROVE  /\ UNCHANGED controller
         /\ startQueued' = TRUE \/ UNCHANGED properties
  <1>1. SUFFICES ASSUME NEW m \in Modes, SetMode(m)
                 PROVE  UNCHANGED controller /\ (startQueued' = TRUE \/ UNCHANGED properties)
    BY DEF SwitchDisplay, ReceiveBroadcast, SetGain, StartService, ProcessDies,
           ActiveSessionsChanged, PlaybackStateChanged, Collect, MetadataChanged,
           OnGenerated, UpdateValue, effectsVars
  <1>. QED BY <1>1 DEF SetMode, UpdateValue

LEMMA ControllerStep == ProgramOK /\ LedsInv /\ [EffectsNext]_effectsVars => ProgramOK' /\ LedsInv'
  <1>. SUFFICES ASSUME ProgramOK, LedsInv, [EffectsNext]_effectsVars PROVE ProgramOK' /\ LedsInv'
    OBVIOUS
  <1>1. ASSUME UNCHANGED controller, startQueued' = TRUE \/ UNCHANGED properties
        PROVE  ProgramOK' /\ LedsInv'
    BY <1>1 DEF ProgramOK, LedsInv, controller, properties
  <1>2. CASE InitStarts
    <2>1. CASE process.pc = "idle"
      <3>1. process' = [pc |-> "value", value |-> 0, gain |-> 0]
        BY <1>2, <2>1 DEF InitStarts, Idle
      <3>. QED BY <3>1 DEF ProgramOK, LedsInv
    <2>2. CASE process.pc # "idle"
      BY <1>2, <2>2 DEF InitStarts, ProgramOK, LedsInv
    <2>. QED BY <2>1, <2>2
  <1>3. CASE ReadValue
    <2>1. process' = [pc |-> "gain", value |-> value, gain |-> process.gain]
      BY <1>3 DEF ReadValue, ProgramOK
    <2>2. UNCHANGED <<value, gainProperty, startQueued, missed, audioLeds>>
      BY <1>3 DEF ReadValue, properties
    <2>. QED BY <2>1, <2>2 DEF ProgramOK, LedsInv
  <1>4. CASE ReadGain
    <2>1. process' = [pc |-> "write", value |-> process.value, gain |-> gainProperty]
      BY <1>4 DEF ReadGain, ProgramOK
    <2>2. UNCHANGED <<value, gainProperty, startQueued, missed, audioLeds>> /\ process.pc = "gain"
      BY <1>4 DEF ReadGain, properties
    <2>. QED BY <2>1, <2>2 DEF ProgramOK, LedsInv
  <1>5. CASE WriteLeds
    <2>1. process' = [pc |-> "idle", value |-> 0, gain |-> 0]
      BY <1>5 DEF WriteLeds, Idle
    <2>2. UNCHANGED <<value, gainProperty, startQueued, missed>> /\ process.pc = "write"
      BY <1>5 DEF WriteLeds, properties
    <2>3. audioLeds' = Written(process.value, process.gain)
      BY <1>5 DEF WriteLeds
    <2>. QED BY <2>1, <2>2, <2>3 DEF ProgramOK, LedsInv
  <1>. QED BY <1>1, <1>2, <1>3, <1>4, <1>5, ServiceStep DEF EffectsNext

(* What init starts reads both properties after the change that asked for  *)
(* it, so only a start that was ignored leaves the controller behind them. *)
THEOREM ControllerFollows == EffectsSpec => []LedsFollowProperties
  <1>1. EffectsInit => ProgramOK /\ LedsInv
    BY DEF EffectsInit, ProgramOK, LedsInv, Idle, Written
  <1>2. LedsInv => LedsFollowProperties
    BY DEF LedsInv, LedsFollowProperties, Written
  <1>. QED BY <1>1, <1>2, ControllerStep, PTL DEF EffectsSpec

(***************************************************************************)
(* The user's wish: the latest broadcast on its way tells the display's    *)
(* state, and without one mDisplayState is never true under a dark display *)
(* that the effects depend on, unless the latest start made it so. A value *)
(* against the settings is left only by a start that found none.           *)
(***************************************************************************)
Listening == up /\ Registered(modes)

DisplayKnown ==
  /\ display \in BOOLEAN /\ mDisplayState \in BOOLEAN /\ broadcasts \in Seq(BOOLEAN)
  /\ broadcasts # <<>> => Listening /\ broadcasts[Len(broadcasts)] = display
  /\ broadcasts = <<>> /\ Listening /\ mDisplayState => display \/ misled

Wished ==
  up /\ value > 0 =>
    \/ "enable" \in modes /\ ("awake" \in modes => mDisplayState)
    \/ misled /\ modes = {}

(* The queue of broadcasts after one more, and after the first was taken.  *)
LEMMA OneMore ==
  ASSUME NEW q \in Seq(BOOLEAN), NEW on \in BOOLEAN
  PROVE  /\ Append(q, on) \in Seq(BOOLEAN) /\ Append(q, on) # <<>>
         /\ Append(q, on)[Len(Append(q, on))] = on
  BY AppendProperties

LEMMA OneLess ==
  ASSUME NEW q \in Seq(BOOLEAN), q # <<>>
  PROVE  /\ Tail(q) \in Seq(BOOLEAN) /\ Head(q) \in BOOLEAN
         /\ Tail(q) # <<>> => Tail(q)[Len(Tail(q))] = q[Len(q)]
         /\ Tail(q) = <<>> => q[Len(q)] = Head(q)
  <1>1. /\ Head(q) \in BOOLEAN /\ Tail(q) \in Seq(BOOLEAN)
        /\ Len(Tail(q)) = Len(q) - 1
        /\ \A i \in 1 .. Len(Tail(q)) : Tail(q)[i] = q[i + 1]
    BY HeadTailProperties
  <1>2. Len(q) \in Nat \ {0}
    BY EmptySeq
  <1>3. ASSUME Tail(q) # <<>> PROVE Tail(q)[Len(Tail(q))] = q[Len(q)]
    <2>1. Len(Tail(q)) \in Nat \ {0}
      BY <1>1, <1>3, EmptySeq
    <2>. QED BY <2>1, <1>1, <1>2
  <1>4. ASSUME Tail(q) = <<>> PROVE q[Len(q)] = Head(q)
    <2>1. Len(q) = 1
      BY <1>1, <1>2, <1>4, EmptySeq
    <2>. QED BY <2>1
  <1>. QED BY <1>1, <1>3, <1>4

(* A value that updateLightsEffectsValue computed is what the user wishes. *)
LEMMA ShownIsWished ==
  ASSUME NEW set, NEW playing, NEW on, NEW colour, Shown(set, playing, on, colour) > 0
  PROVE  "enable" \in set /\ ("awake" \in set => on)
  BY DEF Shown

LEMMA Singleton ==
  ASSUME NEW on \in BOOLEAN
  PROVE  <<on>> \in Seq(BOOLEAN) /\ <<on>> # <<>> /\ <<on>>[Len(<<on>>)] = on
  OBVIOUS

LEMMA NoneWaiting == <<>> \in Seq(BOOLEAN)
  OBVIOUS

(* What SetIntentScreen leaves on its way, when what was on its way ended  *)
(* with the display's state.                                               *)
LEMMA RegisteringKnows ==
  ASSUME NEW old, NEW new, SetIntentScreen(old, new), display \in BOOLEAN,
         broadcasts \in Seq(BOOLEAN),
         broadcasts # <<>> => broadcasts[Len(broadcasts)] = display
  PROVE  /\ broadcasts' \in Seq(BOOLEAN)
         /\ broadcasts' # <<>> => Registered(new) /\ broadcasts'[Len(broadcasts')] = display
  <1>1. \/ broadcasts' = broadcasts /\ Registered(new)
        \/ broadcasts' = <<>>
        \/ broadcasts' = <<display>> /\ Registered(new)
    BY DEF SetIntentScreen
  <1>2. CASE broadcasts' = broadcasts /\ Registered(new)
    BY <1>2
  <1>3. CASE broadcasts' = <<>>
    BY <1>3, NoneWaiting
  <1>4. CASE broadcasts' = <<display>> /\ Registered(new)
    BY <1>4, Singleton
  <1>. QED BY <1>1, <1>2, <1>3, <1>4

LEMMA WishStep ==
  ASSUME DisplayKnown, Wished, [EffectsNext]_effectsVars
  PROVE  DisplayKnown' /\ Wished'
  <1>1. CASE UNCHANGED <<display, broadcasts, misled, up, modes, mDisplayState, value>>
    BY <1>1 DEF DisplayKnown, Wished, Listening, Registered
  <1>2. CASE SwitchDisplay
    <2>1. UNCHANGED <<misled, modes, up, mDisplayState, value>>
      BY <1>2 DEF SwitchDisplay, settings, service, properties
    <2>2. display' = ~display /\ display' \in BOOLEAN
      BY <1>2 DEF SwitchDisplay, DisplayKnown
    <2>3. CASE Listening
      <3>1. broadcasts' = Append(broadcasts, ~display)
        BY <1>2, <2>3 DEF SwitchDisplay, Listening
      <3>2. /\ broadcasts' \in Seq(BOOLEAN) /\ broadcasts' # <<>>
            /\ broadcasts'[Len(broadcasts')] = display'
        BY <3>1, <2>2, OneMore DEF DisplayKnown
      <3>. QED BY <2>1, <2>2, <2>3, <3>2 DEF DisplayKnown, Wished, Listening, Registered
    <2>4. CASE ~Listening
      <3>1. broadcasts' = broadcasts /\ broadcasts = <<>>
        BY <1>2, <2>4 DEF SwitchDisplay, Listening, DisplayKnown
      <3>. QED BY <2>1, <2>2, <2>4, <3>1 DEF DisplayKnown, Wished, Listening, Registered
    <2>. QED BY <2>3, <2>4
  <1>3. CASE ReceiveBroadcast
    <2>1. /\ UNCHANGED <<display, modes, up>> /\ mDisplayState' = Head(broadcasts)
          /\ broadcasts' = Tail(broadcasts) /\ broadcasts # <<>>
      BY <1>3 DEF ReceiveBroadcast, settings
    <2>2. /\ broadcasts' \in Seq(BOOLEAN) /\ mDisplayState' \in BOOLEAN
          /\ broadcasts' # <<>> => broadcasts'[Len(broadcasts')] = display
          /\ broadcasts' = <<>> => mDisplayState' = display
      BY <2>1, OneLess DEF DisplayKnown
    <2>3. Wished'
      <3>1. CASE mDisplayState # Head(broadcasts)
        <4>1. value' = Shown(modes, mAudioMusicPlaying, mDisplayState', mLightsEffectsMusicColor)
          BY <1>3, <2>1, <3>1 DEF ReceiveBroadcast, UpdateValue
        <4>. QED BY <4>1, <2>1, ShownIsWished DEF Wished
      <3>2. CASE mDisplayState = Head(broadcasts)
        <4>1. value' = value /\ mDisplayState' = mDisplayState
          BY <1>3, <2>1, <3>2 DEF ReceiveBroadcast, properties
        <4>2. modes # {}
          BY <2>1 DEF DisplayKnown, Listening, Registered
        <4>. QED BY <4>1, <4>2, <2>1 DEF Wished
      <3>. QED BY <3>1, <3>2
    <2>. QED BY <2>1, <2>2, <2>3 DEF DisplayKnown, Listening, Registered
  <1>4. ASSUME NEW m \in Modes, SetMode(m)
        PROVE  DisplayKnown' /\ Wished'
    <2>1. display /\ UNCHANGED <<display, up, mDisplayState>>
      BY <1>4 DEF SetMode
    <2>2. CASE up
      <3>1. /\ modes' = Toggled(m) /\ SetIntentScreen(modes, modes')
            /\ value' = Shown(modes', mAudioMusicPlaying, mDisplayState, mLightsEffectsMusicColor)
        BY <1>4, <2>2 DEF SetMode, UpdateValue
      <3>2. /\ broadcasts' \in Seq(BOOLEAN)
            /\ broadcasts' # <<>> => Registered(modes') /\ broadcasts'[Len(broadcasts')] = display
        BY <3>1, RegisteringKnows DEF DisplayKnown
      <3>3. Wished'
        BY <2>1, <3>1, ShownIsWished DEF Wished
      <3>. QED BY <2>1, <2>2, <3>2, <3>3 DEF DisplayKnown, Listening
    <2>3. CASE ~up
      <3>1. broadcasts' = broadcasts /\ broadcasts = <<>>
        BY <1>4, <2>3 DEF SetMode, DisplayKnown, Listening
      <3>. QED BY <2>1, <2>3, <3>1 DEF DisplayKnown, Wished, Listening
    <2>. QED BY <2>2, <2>3
  <1>5. CASE StartService
    <2>1. /\ ~up /\ up' /\ mDisplayState' = TRUE /\ UNCHANGED <<display, modes>>
          /\ SetIntentScreen({}, modes)
          /\ misled' = (modes = {} \/ (Registered(modes) /\ ~display))
      BY <1>5 DEF StartService, settings
    <2>2. /\ broadcasts' \in Seq(BOOLEAN)
          /\ broadcasts' # <<>> => Registered(modes) /\ broadcasts'[Len(broadcasts')] = display
      BY <2>1, RegisteringKnows DEF DisplayKnown
    <2>3. Wished'
      <3>1. CASE modes # {}
        <4>1. value' = Shown(modes, FALSE, TRUE, mLightsEffectsMusicColor)
          BY <1>5, <3>1 DEF StartService
        <4>. QED BY <4>1, <2>1, ShownIsWished DEF Wished
      <3>2. CASE modes = {}
        BY <2>1, <3>2 DEF Wished
      <3>. QED BY <3>1, <3>2
    <2>. QED BY <2>1, <2>2, <2>3 DEF DisplayKnown, Listening, Registered
  <1>6. CASE ProcessDies
    <2>1. /\ ~up' /\ broadcasts' = <<>> /\ mDisplayState' = FALSE
          /\ UNCHANGED <<display, modes, value>>
      BY <1>6 DEF ProcessDies, settings, properties
    <2>2. broadcasts' \in Seq(BOOLEAN)
      BY <2>1, NoneWaiting
    <2>3. Wished'
      BY <2>1 DEF Wished
    <2>. QED BY <2>1, <2>2, <2>3 DEF DisplayKnown
  <1>7. ASSUME NEW playing, NEW colour,
               UNCHANGED <<display, broadcasts, misled, up, modes, mDisplayState>>,
               value' = Shown(modes, playing, mDisplayState, colour)
        PROVE  DisplayKnown' /\ Wished'
    <2>1. Wished'
      BY <1>7, ShownIsWished DEF Wished
    <2>. QED BY <2>1, <1>7 DEF DisplayKnown, Listening, Registered
  <1>8. CASE PlaybackStateChanged
    BY <1>7, <1>8 DEF PlaybackStateChanged, UpdateValue, screen, settings
  <1>9. ASSUME NEW artwork \in BOOLEAN, MetadataChanged(artwork)
        PROVE  DisplayKnown' /\ Wished'
    <2>1. UNCHANGED <<display, broadcasts, misled, up, modes, mDisplayState>>
      BY <1>9 DEF MetadataChanged, screen, settings
    <2>2. value' = value \/ value' = Shown(modes, mAudioMusicPlaying, mDisplayState, song')
      BY <1>9 DEF MetadataChanged, UpdateValue, properties
    <2>. QED BY <2>1, <2>2, <1>1, <1>7
  <1>10. ASSUME NEW n \in 1 .. MaxSongs, OnGenerated(n)
         PROVE  DisplayKnown' /\ Wished'
    BY <1>7, <1>10 DEF OnGenerated, UpdateValue, screen, settings
  <1>11. ASSUME [SetGain \/ ActiveSessionsChanged \/ (\E s \in Sessions : Collect(s))
                 \/ InitStarts \/ ReadValue \/ ReadGain \/ WriteLeds]_effectsVars
         PROVE  UNCHANGED <<display, broadcasts, misled, up, modes, mDisplayState, value>>
    BY <1>11 DEF SetGain, ActiveSessionsChanged, Collect, InitStarts, ReadValue, ReadGain,
                 WriteLeds, screen, settings, service, properties, effectsVars
  <1>. QED BY <1>1, <1>2, <1>3, <1>4, <1>5, <1>6, <1>8, <1>9, <1>10, <1>11 DEF EffectsNext

(* Whatever the order of display, settings, sessions, palettes, deaths and *)
(* restarts, the effects run against the user's wish only from a start     *)
(* that guessed wrong until the first broadcast or preference after it.    *)
THEOREM NeverAgainstTheUser == EffectsSpec => []EffectsAllowed
  <1>1. EffectsInit => DisplayKnown /\ Wished
    <2>1. SUFFICES ASSUME EffectsInit PROVE DisplayKnown /\ Wished
      OBVIOUS
    <2>2. /\ display \in BOOLEAN /\ mDisplayState = FALSE /\ broadcasts = <<>> /\ value = 0
      BY <2>1 DEF EffectsInit
    <2>3. broadcasts \in Seq(BOOLEAN)
      BY <2>2, NoneWaiting
    <2>4. mDisplayState \in BOOLEAN /\ ~mDisplayState
      BY <2>2
    <2>5. Wished
      BY <2>2 DEF Wished
    <2>. QED BY <2>2, <2>3, <2>4, <2>5, Zenon DEF DisplayKnown
  <1>2. DisplayKnown /\ Wished /\ [EffectsNext]_effectsVars => DisplayKnown' /\ Wished'
    BY WishStep
  <1>3. DisplayKnown /\ Wished => EffectsAllowed
    BY DEF DisplayKnown, Wished, EffectsAllowed, Listening, Registered
  <1>. QED BY <1>1, <1>2, <1>3, PTL DEF EffectsSpec
=============================================================================
