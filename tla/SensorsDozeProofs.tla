------------------------- MODULE SensorsDozeProofs -------------------------
(* What holds of SensorsDoze for every number of outstanding broadcasts:   *)
(* no sensor runs under a lit display, the two motion sensors exclude each *)
(* other, and in the dark no gesture under analysis and no pick-up is left *)
(* without the sensor that would notice.                                   *)
EXTENDS SensorsDoze, SequenceTheorems, TLAPS

MotionSensors == [enabled : BOOLEAN, ready : BOOLEAN,
                  state : Orientations \cup {"true", "false"}]

TypeOK ==
  /\ display \in BOOLEAN /\ running \in BOOLEAN
  /\ broadcasts \in Seq(BOOLEAN)
  /\ proximity \in [enabled : BOOLEAN, ready : BOOLEAN, near : BOOLEAN]
  /\ pickup \in MotionSensors /\ orientation \in MotionSensors
  /\ mProximityNear \in BOOLEAN

AllOff == ~proximity.enabled /\ ~pickup.enabled /\ ~orientation.enabled

(* The motion sensors are started only after the proximity sensor gave its *)
(* first reading.                                                          *)
MotionAfterProximity ==
  ~proximity.ready => ~pickup.enabled /\ ~orientation.enabled

(* The latest broadcast on its way tells the state of the display, and     *)
(* without one a lit display has been handled.                             *)
BroadcastsFollow ==
  /\ broadcasts # <<>> => broadcasts[Len(broadcasts)] = display
  /\ broadcasts = <<>> /\ display => AllOff
  /\ ~running => AllOff /\ broadcasts = <<>>

IInv == TypeOK /\ OneMotionSensor /\ MotionAfterProximity /\ BroadcastsFollow

(* No gesture is under analysis before the proximity sensor's first        *)
(* reading.                                                                *)
NothingPendingYet == proximity.enabled /\ ~proximity.ready => pending = {}

GInv == NothingPendingYet /\ NoGestureForgotten /\ PickUpSensed

----------------------------------------------------------------------------
(* enable and disable of a motion sensor change one flag, enable also      *)
(* resets.                                                                 *)
LEMMA OffIsOff ==
  ASSUME NEW s \in MotionSensors, NEW st \in Orientations \cup {"true", "false"}
  PROVE  /\ Off(s) \in MotionSensors /\ ~Off(s).enabled
         /\ OffAndReset(s, st) \in MotionSensors /\ ~OffAndReset(s, st).enabled
  BY DEF MotionSensors, Off, OffAndReset

LEMMA OnIsOn ==
  ASSUME NEW s \in MotionSensors
  PROVE  On(s) \in MotionSensors /\ On(s).enabled
  BY DEF MotionSensors, On, Orientations

(* The queue of broadcasts after one more, and after the first was taken.  *)
LEMMA NotifyFollows ==
  ASSUME NEW on \in BOOLEAN, broadcasts \in Seq(BOOLEAN), running \in BOOLEAN,
         ~running => broadcasts = <<>>, Notify(on)
  PROVE  /\ broadcasts' \in Seq(BOOLEAN)
         /\ running => broadcasts' # <<>> /\ broadcasts'[Len(broadcasts')] = on
         /\ ~running => broadcasts' = <<>>
  <1>1. CASE running
    BY <1>1, AppendProperties DEF Notify
  <1>2. CASE ~running
    BY <1>2 DEF Notify
  <1>. QED BY <1>1, <1>2

LEMMA TailFollows ==
  ASSUME broadcasts \in Seq(BOOLEAN), broadcasts # <<>>, broadcasts' = Tail(broadcasts)
  PROVE  /\ broadcasts' \in Seq(BOOLEAN) /\ Head(broadcasts) \in BOOLEAN
         /\ broadcasts' # <<>> => broadcasts'[Len(broadcasts')] = broadcasts[Len(broadcasts)]
         /\ broadcasts' = <<>> => broadcasts[Len(broadcasts)] = Head(broadcasts)
  <1>1. /\ Head(broadcasts) \in BOOLEAN /\ Tail(broadcasts) \in Seq(BOOLEAN)
        /\ Len(Tail(broadcasts)) = Len(broadcasts) - 1
        /\ \A i \in 1 .. Len(Tail(broadcasts)) : Tail(broadcasts)[i] = broadcasts[i + 1]
    BY HeadTailProperties
  <1>2. Len(broadcasts) \in Nat \ {0}
    BY EmptySeq
  <1>3. ASSUME Tail(broadcasts) # <<>>
        PROVE  Tail(broadcasts)[Len(Tail(broadcasts))] = broadcasts[Len(broadcasts)]
    <2>1. Len(Tail(broadcasts)) \in Nat \ {0}
      BY <1>1, <1>3, EmptySeq
    <2>. QED BY <2>1, <1>1, <1>2
  <1>4. ASSUME Tail(broadcasts) = <<>>
        PROVE  broadcasts[Len(broadcasts)] = Head(broadcasts)
    <2>1. Len(broadcasts) = 1
      BY <1>1, <1>2, <1>4, EmptySeq
    <2>. QED BY <2>1
  <1>. QED BY <1>1, <1>3, <1>4

(* What onDisplayOn and onDisplayOff do with the sensors.                  *)
LEMMA MotionReset ==
  ASSUME TypeOK, pickup' = OffAndReset(pickup, "unknown"),
         orientation' = OffAndReset(orientation, orientation.state)
  PROVE  /\ pickup' \in MotionSensors /\ orientation' \in MotionSensors
         /\ ~pickup'.enabled /\ ~orientation'.enabled
  <1>1. orientation.state \in Orientations \cup {"true", "false"}
    BY DEF TypeOK, MotionSensors
  <1>2. pickup' \in MotionSensors /\ ~pickup'.enabled
    BY OffIsOff DEF TypeOK, Orientations
  <1>3. orientation' \in MotionSensors /\ ~orientation'.enabled
    BY <1>1, OffIsOff DEF TypeOK
  <1>. QED BY <1>2, <1>3

LEMMA DisplayOn ==
  ASSUME TypeOK, OnDisplayOn
  PROVE  /\ proximity' \in [enabled : BOOLEAN, ready : BOOLEAN, near : BOOLEAN]
         /\ pickup' \in MotionSensors /\ orientation' \in MotionSensors
         /\ AllOff'
  BY MotionReset DEF OnDisplayOn, AllOff

LEMMA DisplayOff ==
  ASSUME TypeOK, OnDisplayOff, OneMotionSensor, MotionAfterProximity,
         mProximityNear' = mProximityNear
  PROVE  /\ proximity' \in [enabled : BOOLEAN, ready : BOOLEAN, near : BOOLEAN]
         /\ pickup' \in MotionSensors /\ orientation' \in MotionSensors
         /\ OneMotionSensor' /\ MotionAfterProximity'
  <1>1. CASE \E g \in Gestures : Enabled(g, dozeSetting)
    <2>1. /\ proximity' = [enabled |-> TRUE, ready |-> FALSE, near |-> FALSE]
          /\ pickup' = OffAndReset(pickup, "unknown")
          /\ orientation' = OffAndReset(orientation, orientation.state)
      BY <1>1 DEF OnDisplayOff
    <2>. QED BY <2>1, MotionReset DEF OneMotionSensor, MotionAfterProximity
  <1>2. CASE ~\E g \in Gestures : Enabled(g, dozeSetting)
    <2>1. UNCHANGED <<proximity, pickup, orientation>>
      BY <1>2 DEF OnDisplayOff, motion
    <2>. QED BY <2>1 DEF TypeOK, OneMotionSensor, MotionAfterProximity
  <1>. QED BY <1>1, <1>2

(* What a launch does to the display and its broadcasts: a wake-up lights  *)
(* the display and announces it.                                           *)
LEMMA LaunchFollows ==
  ASSUME TypeOK, BroadcastsFollow, running, NEW what, NEW lock, Launch(what, lock)
  PROVE  /\ display' \in BOOLEAN /\ broadcasts' \in Seq(BOOLEAN)
         /\ broadcasts' # <<>> => broadcasts'[Len(broadcasts')] = display'
         /\ broadcasts' = <<>> /\ display' => broadcasts = <<>> /\ display
  <1>1. CASE UNCHANGED screen
    BY <1>1 DEF screen, TypeOK, BroadcastsFollow
  <1>2. CASE display' = TRUE /\ display /\ UNCHANGED broadcasts
    BY <1>2 DEF TypeOK, BroadcastsFollow
  <1>3. CASE display' = TRUE /\ ~display /\ Notify(TRUE)
    <2>1. /\ broadcasts' \in Seq(BOOLEAN)
          /\ broadcasts' # <<>> /\ broadcasts'[Len(broadcasts')] = TRUE
      BY <1>3, NotifyFollows DEF TypeOK
    <2>. QED BY <2>1, <1>3
  <1>. QED BY <1>1, <1>2, <1>3 DEF Launch

(* After an analysis at most the pick-up sensor runs. *)
LEMMA RestoreExcludes ==
  ASSUME NEW p \in MotionSensors, NEW o \in MotionSensors, ~o.enabled,
         RestorePickUp(p, o)
  PROVE  /\ pickup' \in MotionSensors /\ orientation' \in MotionSensors
         /\ ~orientation'.enabled
  <1>1. On(p) \in MotionSensors /\ Off(o) \in MotionSensors /\ ~Off(o).enabled
    <2>1. "unknown" \in Orientations \cup {"true", "false"}
      BY DEF Orientations
    <2>. QED BY <2>1, OnIsOn, OffIsOff
  <1>. QED BY <1>1 DEF RestorePickUp

(* A released proximity sensor starts one of the motion sensors or leaves  *)
(* them as they are. *)
LEMMA ReleasedExcludes ==
  ASSUME TypeOK, OneMotionSensor, NEW quickWave \in BOOLEAN, Released(quickWave)
  PROVE  /\ pickup' \in MotionSensors /\ orientation' \in MotionSensors
         /\ ~(pickup'.enabled /\ orientation'.enabled)
  <1>1. "unknown" \in Orientations \cup {"true", "false"}
    BY DEF Orientations
  <1>2. CASE OrientationOn
    <2>1. pickup' = Off(pickup) /\ orientation' = On(orientation)
      BY <1>2 DEF OrientationOn
    <2>. QED BY <2>1, <1>1, OffIsOff, OnIsOn DEF TypeOK
  <1>3. CASE pickup' = On(pickup) /\ orientation' = Off(orientation)
    BY <1>1, <1>3, OffIsOff, OnIsOn DEF TypeOK
  <1>4. CASE UNCHANGED motion
    BY <1>4 DEF TypeOK, OneMotionSensor, motion
  <1>. QED BY <1>2, <1>3, <1>4 DEF Released

----------------------------------------------------------------------------
(* The sensors' events: they happen only while their sensor is enabled, so *)
(* the service runs and a lit display has not been handled yet.            *)
LEMMA ProximityStep ==
  ASSUME IInv, NEW isNear \in BOOLEAN, NEW quickWave \in BOOLEAN,
         ProximityEvent(isNear, quickWave)
  PROVE  IInv'
  <1>1. /\ proximity.enabled /\ running /\ ~(broadcasts = <<>> /\ display)
        /\ UNCHANGED <<display, broadcasts, running>>
    BY DEF IInv, BroadcastsFollow, AllOff, TypeOK, ProximityEvent, screen
  <1>2. BroadcastsFollow'
    BY <1>1 DEF IInv, BroadcastsFollow
  <1>3. proximity' = [enabled |-> TRUE, ready |-> TRUE, near |-> isNear]
    BY DEF ProximityEvent
  <1>4. MotionAfterProximity'
    BY <1>3 DEF MotionAfterProximity
  <1>5. CASE ~proximity.ready
    <2>1. /\ mProximityNear' = isNear
          /\ \/ ~isNear /\ pickup' = On(pickup) /\ orientation' = Off(orientation)
             \/ UNCHANGED <<pickup, orientation>>
      BY <1>5 DEF ProximityEvent, motion
    <2>2. ~pickup.enabled /\ ~orientation.enabled
      BY <1>5 DEF IInv, MotionAfterProximity
    <2>3. "unknown" \in Orientations \cup {"true", "false"}
      BY DEF Orientations
    <2>4. /\ pickup' \in MotionSensors /\ orientation' \in MotionSensors
          /\ OneMotionSensor'
      BY <2>1, <2>2, <2>3, OffIsOff, OnIsOn DEF IInv, TypeOK, OneMotionSensor
    <2>. QED BY <2>1, <2>4, <1>1, <1>2, <1>3, <1>4 DEF IInv, TypeOK
  <1>6. CASE proximity.ready /\ proximity.near # isNear
    <2>1. mProximityNear' = isNear /\ (IF isNear THEN Stowed ELSE Released(quickWave))
      BY <1>6 DEF ProximityEvent
    <2>2. "unknown" \in Orientations \cup {"true", "false"}
      BY DEF Orientations
    <2>3. CASE isNear
      <3>1. pickup' = Off(pickup) /\ orientation' = Off(orientation)
        BY <2>1, <2>3 DEF Stowed
      <3>2. /\ pickup' \in MotionSensors /\ orientation' \in MotionSensors
            /\ ~pickup'.enabled /\ ~orientation'.enabled
        BY <3>1, <2>2, OffIsOff DEF IInv, TypeOK
      <3>. QED BY <3>2, <2>1, <1>1, <1>2, <1>3, <1>4 DEF IInv, TypeOK, OneMotionSensor
    <2>4. CASE ~isNear
      <3>1. /\ pickup' \in MotionSensors /\ orientation' \in MotionSensors
            /\ ~(pickup'.enabled /\ orientation'.enabled)
        BY <2>1, <2>4, ReleasedExcludes DEF IInv
      <3>. QED
        BY <3>1, <2>1, <2>4, <1>1, <1>2, <1>3, <1>4 DEF IInv, TypeOK, OneMotionSensor
    <2>. QED BY <2>3, <2>4
  <1>7. CASE proximity.ready /\ proximity.near = isNear
    <2>1. UNCHANGED <<mProximityNear, pickup, orientation>>
      BY <1>7 DEF ProximityEvent, motion
    <2>. QED BY <2>1, <1>1, <1>2, <1>3, <1>4 DEF IInv, TypeOK, OneMotionSensor
  <1>. QED BY <1>5, <1>6, <1>7

(* What both motion events leave behind. *)
LEMMA MotionStep ==
  ASSUME IInv, pickup.enabled \/ orientation.enabled,
         UNCHANGED <<running, proximity, mProximityNear>>,
         NEW what, NEW lock, Launch(what, lock),
         pickup' \in MotionSensors, orientation' \in MotionSensors,
         ~(pickup'.enabled /\ orientation'.enabled)
  PROVE  IInv'
  <1>1. /\ running /\ ~(broadcasts = <<>> /\ display)
        /\ ~mProximityNear /\ proximity.ready
    BY DEF IInv, TypeOK, OneMotionSensor, MotionAfterProximity, BroadcastsFollow, AllOff
  <1>2. /\ display' \in BOOLEAN /\ broadcasts' \in Seq(BOOLEAN)
        /\ broadcasts' # <<>> => broadcasts'[Len(broadcasts')] = display'
        /\ ~(broadcasts' = <<>> /\ display')
    BY <1>1, LaunchFollows DEF IInv
  <1>. QED
    BY <1>1, <1>2
    DEF IInv, TypeOK, OneMotionSensor, MotionAfterProximity, BroadcastsFollow

LEMMA PickUpStep ==
  ASSUME IInv, NEW tilt \in {"above", "between", "below"}, PickUpEvent(tilt)
  PROVE  IInv'
  <1> DEFINE state == CASE tilt = "above" -> "true" [] tilt = "below" -> "false"
                        [] OTHER -> pickup.state
             now == [enabled |-> TRUE, ready |-> TRUE, state |-> state]
  <1>1. state \in Orientations \cup {"true", "false"}
    BY DEF IInv, TypeOK, MotionSensors
  <1>2. now \in MotionSensors
    BY <1>1 DEF MotionSensors
  <1>3. /\ pickup.enabled /\ ~orientation.enabled
        /\ UNCHANGED <<running, proximity, mProximityNear>>
    BY DEF PickUpEvent, IInv, OneMotionSensor
  <1>4. CASE HandlePickUp(now)
    <2>1. CASE /\ Launch(Decision(pending \cup {"pickup"}, TRUE, orientation), TRUE)
               /\ RestorePickUp(now, orientation)
      <3>1. /\ pickup' \in MotionSensors /\ orientation' \in MotionSensors
            /\ ~orientation'.enabled
        BY <2>1, <1>2, <1>3, RestoreExcludes DEF IInv, TypeOK
      <3>. QED BY <3>1, <2>1, <1>3, MotionStep
    <2>2. CASE pickup' = now /\ UNCHANGED orientation /\ Launch("none", wakeLock)
      <3>1. /\ pickup' \in MotionSensors /\ orientation' \in MotionSensors
            /\ ~orientation'.enabled
        BY <2>2, <1>2, <1>3 DEF IInv, TypeOK
      <3>. QED BY <3>1, <2>2, <1>3, MotionStep
    <2>. QED BY <1>4, <2>1, <2>2 DEF HandlePickUp
  <1>5. CASE pickup' = now /\ UNCHANGED orientation /\ Launch("none", wakeLock)
    <2>1. /\ pickup' \in MotionSensors /\ orientation' \in MotionSensors
          /\ ~orientation'.enabled
      BY <1>5, <1>2, <1>3 DEF IInv, TypeOK
    <2>. QED BY <2>1, <1>5, <1>3, MotionStep
  <1>. QED BY <1>4, <1>5 DEF PickUpEvent

LEMMA OrientationStep ==
  ASSUME IInv, NEW o \in Orientations, OrientationEvent(o)
  PROVE  IInv'
  <1> DEFINE now == [enabled |-> FALSE, ready |-> TRUE, state |-> o]
  <1>1. now \in MotionSensors /\ ~now.enabled
    BY DEF MotionSensors
  <1>2. /\ orientation.enabled /\ ~mProximityNear
        /\ UNCHANGED <<running, proximity, mProximityNear>>
    BY DEF OrientationEvent, IInv, OneMotionSensor
  <1>3. /\ Launch(Decision(pending, mPickUpState, now), wakeLock)
        /\ RestorePickUp(pickup, now)
    BY <1>2 DEF OrientationEvent
  <1>4. /\ pickup' \in MotionSensors /\ orientation' \in MotionSensors
        /\ ~orientation'.enabled
    BY <1>1, <1>3, RestoreExcludes DEF IInv, TypeOK
  <1>. QED BY <1>2, <1>3, <1>4, MotionStep

(***************************************************************************)
(* The display, the settings and the process.                              *)
(***************************************************************************)
LEMMA ScreenStep ==
  ASSUME IInv, SwitchDisplay \/ StartService \/ ReceiveBroadcast \/ ProcessDies
  PROVE  IInv'
  <1>1. CASE SwitchDisplay
    <2>1. /\ display' = ~display /\ Notify(~display)
          /\ UNCHANGED <<running, proximity, pickup, orientation, mProximityNear>>
      BY <1>1 DEF SwitchDisplay, motion
    <2>2. /\ broadcasts' \in Seq(BOOLEAN)
          /\ running => broadcasts' # <<>> /\ broadcasts'[Len(broadcasts')] = ~display
          /\ ~running => broadcasts' = <<>>
      BY <2>1, NotifyFollows DEF IInv, TypeOK, BroadcastsFollow
    <2>. QED
      BY <2>1, <2>2
      DEF IInv, TypeOK, OneMotionSensor, MotionAfterProximity, BroadcastsFollow, AllOff
  <1>2. CASE StartService
    <2>1. /\ ~running /\ running' = TRUE /\ broadcasts' \in {<<>>, <<display>>}
          /\ UNCHANGED <<display, mProximityNear>>
          /\ AllOff /\ display \in BOOLEAN
      BY <1>2 DEF StartService, IInv, TypeOK, BroadcastsFollow
    <2>2. /\ broadcasts' \in Seq(BOOLEAN)
          /\ broadcasts' # <<>> => broadcasts'[Len(broadcasts')] = display'
      <3>1. CASE broadcasts' = <<>>
        BY <3>1, EmptySeq
      <3>2. CASE broadcasts' = <<display>>
        <4>1. <<display>> \in Seq(BOOLEAN) /\ Len(<<display>>) = 1 /\ <<display>>[1] = display
          BY <2>1
        <4>. QED BY <4>1, <3>2, <2>1
      <3>. QED BY <3>1, <3>2, <2>1
    <2>3. CASE display
      <3>1. UNCHANGED <<proximity, pickup, orientation>>
        BY <1>2, <2>3 DEF StartService, motion
      <3>. QED
        BY <2>1, <2>2, <3>1
        DEF IInv, TypeOK, OneMotionSensor, MotionAfterProximity, BroadcastsFollow, AllOff
    <2>4. CASE ~display
      <3>1. OnDisplayOff
        BY <1>2, <2>4 DEF StartService
      <3>. QED
        BY <2>1, <2>2, <2>4, <3>1, DisplayOff DEF IInv, TypeOK, BroadcastsFollow
    <2>. QED BY <2>3, <2>4
  <1>3. CASE ReceiveBroadcast
    <2>1. /\ broadcasts # <<>> /\ broadcasts' = Tail(broadcasts)
          /\ UNCHANGED <<display, running, mProximityNear>>
      BY <1>3 DEF ReceiveBroadcast
    <2>2. /\ broadcasts' \in Seq(BOOLEAN) /\ Head(broadcasts) \in BOOLEAN /\ running
          /\ broadcasts' # <<>> => broadcasts'[Len(broadcasts')] = display
          /\ broadcasts' = <<>> => Head(broadcasts) = display
      BY <2>1, TailFollows DEF IInv, TypeOK, BroadcastsFollow
    <2>3. CASE Head(broadcasts)
      <3>1. OnDisplayOn
        BY <1>3, <2>3 DEF ReceiveBroadcast
      <3>. QED
        BY <2>1, <2>2, <3>1, DisplayOn
        DEF IInv, TypeOK, OneMotionSensor, MotionAfterProximity, BroadcastsFollow, AllOff
    <2>4. CASE ~Head(broadcasts)
      <3>1. OnDisplayOff
        BY <1>3, <2>4 DEF ReceiveBroadcast
      <3>. QED
        BY <2>1, <2>2, <2>4, <3>1, DisplayOff DEF IInv, TypeOK, BroadcastsFollow
    <2>. QED BY <2>2, <2>3, <2>4
  <1>4. CASE ProcessDies
    <2>1. /\ broadcasts' = <<>> /\ running' = FALSE /\ mProximityNear' = FALSE
          /\ proximity' = [enabled |-> FALSE, ready |-> FALSE, near |-> FALSE]
          /\ pickup' = OffAndReset(pickup, "unknown")
          /\ orientation' = OffAndReset(orientation, "unknown")
          /\ UNCHANGED display
      BY <1>4 DEF ProcessDies
    <2>2. "unknown" \in Orientations \cup {"true", "false"}
      BY DEF Orientations
    <2>3. /\ pickup' \in MotionSensors /\ orientation' \in MotionSensors /\ AllOff'
      BY <2>1, <2>2, OffIsOff DEF IInv, TypeOK, AllOff
    <2>4. broadcasts' \in Seq(BOOLEAN)
      BY <2>1, EmptySeq
    <2>. QED
      BY <2>1, <2>3, <2>4
      DEF IInv, TypeOK, OneMotionSensor, MotionAfterProximity, BroadcastsFollow, AllOff
  <1>. QED BY <1>1, <1>2, <1>3, <1>4

(* The steps that touch neither sensors nor display. *)
LEMMA QuietStep ==
  ASSUME IInv,
         UNCHANGED <<display, broadcasts, running, proximity, pickup, orientation,
                     mProximityNear>>
  PROVE  IInv'
  BY DEF IInv, TypeOK, OneMotionSensor, MotionAfterProximity, BroadcastsFollow, AllOff

LEMMA Inductive == IInv /\ [Next]_vars => IInv'
  <1> SUFFICES ASSUME IInv, [Next]_vars PROVE IInv'
    OBVIOUS
  <1>1. CASE SetDoze \/ WakeLockExpires \/ UNCHANGED vars
    BY <1>1, QuietStep DEF SetDoze, WakeLockExpires, vars, screen, motion
  <1>2. ASSUME NEW g \in Gestures, SetGesture(g) PROVE IInv'
    BY <1>2, QuietStep DEF SetGesture, screen, motion
  <1>. QED
    BY <1>1, <1>2, ScreenStep, ProximityStep, PickUpStep, OrientationStep DEF Next

LEMMA Initial == Init => IInv
  <1> SUFFICES ASSUME Init PROVE IInv
    OBVIOUS
  <1>1. /\ display \in BOOLEAN /\ running = FALSE /\ broadcasts = <<>>
        /\ proximity = [enabled |-> FALSE, ready |-> FALSE, near |-> FALSE]
        /\ pickup = [enabled |-> FALSE, ready |-> FALSE, state |-> "unknown"]
        /\ orientation = [enabled |-> FALSE, ready |-> FALSE, state |-> "unknown"]
        /\ mProximityNear = FALSE
    BY DEF Init, ServiceInit
  <1>2. broadcasts \in Seq(BOOLEAN)
    BY <1>1, EmptySeq
  <1>3. pickup \in MotionSensors /\ orientation \in MotionSensors
    BY <1>1 DEF MotionSensors, Orientations
  <1>. QED
    BY <1>1, <1>2, <1>3
    DEF IInv, TypeOK, OneMotionSensor, MotionAfterProximity, BroadcastsFollow, AllOff

----------------------------------------------------------------------------
(* The gestures and the pick-up sensor. Each lemma is about the steps that *)
(* share their effect on pending, the motion sensors and mDozeEnabled.     *)

(* Switching the display off starts the sensors anew, or nothing is        *)
(* enabled that they could sense.                                          *)
LEMMA DisplayOffGestures ==
  ASSUME TypeOK, GInv, OnDisplayOff, UNCHANGED <<gestures, dozeSetting, mProximityNear>>
  PROVE  GInv'
  <1>1. CASE \E g \in Gestures : Enabled(g, dozeSetting)
    <2>1. /\ proximity' = [enabled |-> TRUE, ready |-> FALSE, near |-> FALSE]
          /\ pending' = {}
      BY <1>1 DEF OnDisplayOff
    <2>. QED BY <2>1 DEF GInv, NothingPendingYet, NoGestureForgotten, PickUpSensed
  <1>2. CASE ~\E g \in Gestures : Enabled(g, dozeSetting)
    <2>1. UNCHANGED <<proximity, pickup, orientation, pending>> /\ mDozeEnabled' = dozeSetting
      BY <1>2 DEF OnDisplayOff, motion
    <2>2. ~Enabled("pickup", mDozeEnabled)'
      BY <1>2, <2>1 DEF Gestures, Enabled
    <2>. QED
      BY <2>1, <2>2 DEF GInv, NothingPendingYet, NoGestureForgotten, PickUpSensed
  <1>. QED BY <1>1, <1>2

(* Without a proximity sensor there is nothing to forget.                  *)
LEMMA NoProximityNoGestures == ASSUME ~proximity'.enabled PROVE GInv'
  BY DEF GInv, NothingPendingYet, NoGestureForgotten, PickUpSensed

LEMMA ScreenGestures ==
  ASSUME IInv, GInv, SwitchDisplay \/ StartService \/ ReceiveBroadcast \/ ProcessDies
  PROVE  GInv'
  <1>1. CASE SwitchDisplay
    <2>1. /\ display' = ~display /\ Notify(~display)
          /\ UNCHANGED <<proximity, pickup, orientation, mProximityNear, pending>>
      BY <1>1 DEF SwitchDisplay, motion
    <2>2. CASE running
      <3>1. broadcasts' # <<>>
        BY <2>1, <2>2, NotifyFollows DEF IInv, TypeOK, BroadcastsFollow
      <3>. QED BY <2>1, <3>1 DEF GInv, NothingPendingYet, NoGestureForgotten, PickUpSensed
    <2>3. CASE ~running
      BY <2>1, <2>3, NoProximityNoGestures DEF IInv, BroadcastsFollow, AllOff
    <2>. QED BY <2>2, <2>3
  <1>2. CASE StartService
    <2>1. UNCHANGED <<gestures, dozeSetting, mProximityNear>>
      BY <1>2 DEF StartService, settings
    <2>2. CASE display
      <3>1. ~proximity'.enabled
        BY <1>2, <2>2 DEF StartService, IInv, BroadcastsFollow, AllOff
      <3>. QED BY <3>1, NoProximityNoGestures
    <2>3. CASE ~display
      BY <1>2, <2>1, <2>3, DisplayOffGestures DEF StartService, IInv
    <2>. QED BY <2>2, <2>3
  <1>3. CASE ReceiveBroadcast
    <2>1. UNCHANGED <<gestures, dozeSetting, mProximityNear>>
      BY <1>3 DEF ReceiveBroadcast, settings
    <2>2. CASE OnDisplayOn
      BY <2>2, NoProximityNoGestures DEF OnDisplayOn
    <2>3. CASE OnDisplayOff
      BY <2>1, <2>3, DisplayOffGestures DEF IInv
    <2>. QED BY <1>3, <2>2, <2>3 DEF ReceiveBroadcast
  <1>4. CASE ProcessDies
    BY <1>4, NoProximityNoGestures DEF ProcessDies
  <1>. QED BY <1>1, <1>2, <1>3, <1>4

(* The first reading starts the pick-up sensor; a covered sensor stops     *)
(* everything, a released one starts what is enabled.                      *)
LEMMA ProximityGestures ==
  ASSUME IInv, GInv, NEW isNear \in BOOLEAN, NEW quickWave \in BOOLEAN,
         ProximityEvent(isNear, quickWave)
  PROVE  GInv'
  <1>1. /\ proximity.enabled /\ UNCHANGED <<display, broadcasts, gestures, dozeSetting>>
        /\ proximity' = [enabled |-> TRUE, ready |-> TRUE, near |-> isNear]
    BY DEF ProximityEvent, screen, settings
  <1>2. NothingPendingYet'
    BY <1>1 DEF NothingPendingYet
  <1>3. CASE ~proximity.ready
    <2>1. pending = {} /\ pending' = {} /\ mProximityNear' = isNear /\ mDozeEnabled' = mDozeEnabled
      BY <1>1, <1>3 DEF GInv, NothingPendingYet, ProximityEvent
    <2>2. NoGestureForgotten'
      BY <2>1 DEF NoGestureForgotten
    <2>3. Enabled("pickup", mDozeEnabled)' = Enabled("pickup", mDozeEnabled)
      BY <1>1, <2>1 DEF Enabled
    <2>4. ~isNear /\ Enabled("pickup", mDozeEnabled) => pickup' = On(pickup)
      BY <1>3, <2>1 DEF ProximityEvent
    <2>5. On(pickup).enabled
      BY OnIsOn DEF IInv, TypeOK
    <2>6. PickUpSensed'
      BY <2>1, <2>3, <2>4, <2>5 DEF PickUpSensed
    <2>. QED BY <1>2, <2>2, <2>6 DEF GInv
  <1>4. CASE proximity.ready /\ proximity.near # isNear /\ isNear
    <2>1. mProximityNear'
      BY <1>4 DEF ProximityEvent
    <2>. QED BY <1>2, <2>1 DEF GInv, NoGestureForgotten, PickUpSensed
  <1>5. CASE proximity.ready /\ proximity.near # isNear /\ ~isNear
    <2>1. Released(quickWave) /\ mDozeEnabled' = dozeSetting
      BY <1>5 DEF ProximityEvent
    <2>2. Enabled("pickup", mDozeEnabled)' = Enabled("pickup", dozeSetting)
      BY <1>1, <2>1 DEF Enabled
    <2>3. On(pickup).enabled /\ On(orientation).enabled
      BY OnIsOn DEF IInv, TypeOK
    <2>4. pending' # {} => orientation'.enabled
      BY <2>1, <2>3 DEF Released, OrientationOn
    <2>5. pending' = {} /\ Enabled("pickup", dozeSetting) => pickup'.enabled
      BY <2>1, <2>3 DEF Released, Gestures
    <2>. QED BY <1>2, <2>2, <2>4, <2>5 DEF GInv, NoGestureForgotten, PickUpSensed
  <1>6. CASE proximity.ready /\ proximity.near = isNear
    <2>1. UNCHANGED <<mProximityNear, mDozeEnabled, pending, pickup, orientation>>
      BY <1>6 DEF ProximityEvent, motion
    <2>2. Enabled("pickup", mDozeEnabled)' = Enabled("pickup", mDozeEnabled)
      BY <1>1, <2>1 DEF Enabled
    <2>. QED
      BY <1>1, <1>2, <1>6, <2>1, <2>2 DEF GInv, NoGestureForgotten, PickUpSensed
  <1>. QED BY <1>3, <1>4, <1>5, <1>6

(* The end of an analysis leaves no gesture pending and watches for the    *)
(* next pick-up. *)
LEMMA RestoreGestures ==
  ASSUME NEW p \in MotionSensors, NEW o \in MotionSensors, RestorePickUp(p, o),
         proximity.ready, mDozeEnabled' = dozeSetting,
         UNCHANGED <<gestures, dozeSetting, proximity, mProximityNear>>
  PROVE  GInv'
  <1>1. pending' = {}
    BY DEF RestorePickUp
  <1>2. Enabled("pickup", mDozeEnabled)' = Enabled("pickup", dozeSetting)
    BY DEF Enabled
  <1>3. ~mProximityNear /\ Enabled("pickup", dozeSetting) => pickup'.enabled
    BY OnIsOn DEF RestorePickUp
  <1>. QED
    BY <1>1, <1>2, <1>3 DEF GInv, NothingPendingYet, NoGestureForgotten, PickUpSensed

(* An event of the pick-up sensor comes with no gesture pending: either it *)
(* is analysed at once or the sensor runs on.                              *)
LEMMA PickUpGestures ==
  ASSUME IInv, GInv, NEW tilt \in {"above", "between", "below"}, PickUpEvent(tilt)
  PROVE  GInv'
  <1> DEFINE state == CASE tilt = "above" -> "true" [] tilt = "below" -> "false"
                        [] OTHER -> pickup.state
             now == [enabled |-> TRUE, ready |-> TRUE, state |-> state]
  <1>1. state \in Orientations \cup {"true", "false"}
    BY DEF IInv, TypeOK, MotionSensors
  <1>2. now \in MotionSensors /\ now.enabled
    BY <1>1 DEF MotionSensors
  <1>3. /\ pickup.enabled /\ ~orientation.enabled /\ ~mProximityNear /\ proximity.ready
        /\ UNCHANGED <<gestures, dozeSetting, proximity, mProximityNear>>
    BY DEF PickUpEvent, IInv, TypeOK, OneMotionSensor, MotionAfterProximity, settings
  <1>4. proximity.enabled => pending = {}
    BY <1>3 DEF GInv, NoGestureForgotten
  <1>5. CASE mDozeEnabled' = dozeSetting /\ RestorePickUp(now, orientation)
    BY <1>2, <1>3, <1>5, RestoreGestures DEF IInv, TypeOK
  <1>6. CASE pickup' = now /\ pending' \subseteq pending
    BY <1>2, <1>3, <1>4, <1>6 DEF GInv, NothingPendingYet, NoGestureForgotten, PickUpSensed
  <1>. QED BY <1>5, <1>6 DEF PickUpEvent, HandlePickUp

LEMMA OrientationGestures ==
  ASSUME IInv, GInv, NEW o \in Orientations, OrientationEvent(o)
  PROVE  GInv'
  <1> DEFINE now == [enabled |-> FALSE, ready |-> TRUE, state |-> o]
  <1>1. now \in MotionSensors
    BY DEF MotionSensors
  <1>2. /\ ~mProximityNear /\ proximity.ready
        /\ UNCHANGED <<gestures, dozeSetting, proximity, mProximityNear>>
    BY DEF OrientationEvent, IInv, TypeOK, OneMotionSensor, MotionAfterProximity, settings
  <1>3. mDozeEnabled' = dozeSetting /\ RestorePickUp(pickup, now)
    BY <1>2 DEF OrientationEvent
  <1>. QED BY <1>1, <1>2, <1>3, RestoreGestures DEF IInv, TypeOK

(* The preferences change under a lit display only, and the service        *)
(* follows the doze setting at its own events.                             *)
LEMMA SettingsGestures ==
  ASSUME GInv, SetDoze \/ WakeLockExpires \/ (\E g \in Gestures : SetGesture(g))
                       \/ UNCHANGED vars
  PROVE  GInv'
  <1>1. /\ UNCHANGED <<display, broadcasts, proximity, pickup, orientation, mProximityNear,
                       pending, mDozeEnabled>>
        /\ display \/ gestures' = gestures
    BY DEF SetDoze, WakeLockExpires, SetGesture, vars, screen, motion, settings
  <1>2. display \/ Enabled("pickup", mDozeEnabled)' = Enabled("pickup", mDozeEnabled)
    BY <1>1 DEF Enabled
  <1>. QED
    BY <1>1, <1>2 DEF GInv, NothingPendingYet, NoGestureForgotten, PickUpSensed

LEMMA GesturesInductive == IInv /\ GInv /\ [Next]_vars => GInv'
  BY ScreenGestures, ProximityGestures, PickUpGestures, OrientationGestures,
     SettingsGestures DEF Next

LEMMA GesturesInitial == Init => GInv
  BY DEF Init, ServiceInit, GInv, NothingPendingYet, NoGestureForgotten, PickUpSensed

----------------------------------------------------------------------------
(* Whatever order the sensors, the display's broadcasts, the settings and  *)
(* the deaths of the process come in, no sensor is left running under a    *)
(* lit display: onDisplayOn and the guards of the callbacks see to it.     *)
THEOREM NoSensorUnderLitDisplay == Spec => []SensorsOffWhileOn
  <1>1. IInv => SensorsOffWhileOn
    BY DEF IInv, BroadcastsFollow, AllOff, SensorsOffWhileOn
  <1>. QED BY <1>1, Initial, Inductive, PTL DEF Spec

(* setOrientationSensor and setPickUpSensor keep the two users of the      *)
(* accelerometer apart, and handleProximity stops both when covered.       *)
THEOREM MotionSensorsExclude == Spec => []OneMotionSensor
  <1>1. IInv => OneMotionSensor
    BY DEF IInv
  <1>. QED BY <1>1, Initial, Inductive, PTL DEF Spec

(* handleProximity starts the orientation sensor with every gesture it     *)
(* puts under analysis, and analyseDoze, restorePickUp and the next        *)
(* display-off clear the flags: none is left over for a later event.       *)
THEOREM GesturesFinish == Spec => []NoGestureForgotten
  <1>1. GInv => NoGestureForgotten
    BY DEF GInv
  <1>. QED
    BY <1>1, Initial, Inductive, GesturesInitial, GesturesInductive, PTL DEF Spec

(* However the two sensors hand over to each other, a phone with its       *)
(* display off and its proximity sensor free notices that it is picked up. *)
THEOREM PickUpsNoticed == Spec => []PickUpSensed
  <1>1. GInv => PickUpSensed
    BY DEF GInv
  <1>. QED
    BY <1>1, Initial, Inductive, GesturesInitial, GesturesInductive, PTL DEF Spec
=============================================================================
