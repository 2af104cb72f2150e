---------------------------- MODULE SensorsDoze ----------------------------
(* SensorsDozeService and its three sensors: while the display is off the  *)
(* proximity sensor decides which of the motion sensors runs, and those    *)
(* decide whether a gesture lights up the ambient display (a pulse) or     *)
(* wakes the device. Everything runs on the main thread of the settings    *)
(* process, one callback at a time; what is concurrent is the display, its *)
(* broadcasts, the settings and the order of the sensors' events.          *)
(*                                                                         *)
(* Times are left out: whether a wave was quick and whether the last pulse *)
(* was five seconds ago are choices of the event.                          *)
EXTENDS Naturals, Sequences

CONSTANT MaxBroadcasts    \* bound: display changes not yet handled

ASSUME MaxBroadcastsOK == MaxBroadcasts \in Nat \ {0}

Gestures == {"handwave", "pickup", "pocket", "wake"}

VARIABLES
  display,      \* whether the display is on
  broadcasts,   \* ACTION_SCREEN_ON and _OFF on their way
  running,      \* the service was started and listens to broadcasts
  gestures,     \* the m...GestureEnabled flags, as the preferences say
  dozeSetting,  \* Settings.Secure.DOZE_ENABLED
  mDozeEnabled,
  proximity,    \* the ProximitySensor: mEnabled, mReady, mState
  pickup,       \* the PickUpSensor
  orientation,  \* the OrientationSensor
  mProximityNear,
  mPickUpState,
  pending,      \* gestures whose m...Doze flag is set
  pulsed,       \* mLastPulseTimestamp is not 0
  wakeLock,     \* mSensorsWakeLock is held
  shown         \* what the last callback launched: "none", "pulse" or "wake"

settings == <<gestures, dozeSetting>>
screen == <<display, broadcasts>>
motion == <<pickup, orientation>>
vars == <<display, broadcasts, running, gestures, dozeSetting, mDozeEnabled,
          proximity, pickup, orientation, mProximityNear, mPickUpState, pending,
          pulsed, wakeLock, shown>>

Orientations == {"unknown", "face_down", "face_up", "vertical"}

(* reset, enable and disable of the sensor classes. *)
Off(sensor) == [sensor EXCEPT !.enabled = FALSE]
OffAndReset(sensor, state) == [enabled |-> FALSE, ready |-> FALSE, state |-> state]
On(sensor) ==
  IF sensor.enabled THEN sensor
  ELSE [enabled |-> TRUE, ready |-> FALSE, state |-> "unknown"]

ServiceInit ==
  /\ running = FALSE /\ mDozeEnabled = FALSE
  /\ proximity = [enabled |-> FALSE, ready |-> FALSE, near |-> FALSE]
  /\ pickup = [enabled |-> FALSE, ready |-> FALSE, state |-> "unknown"]
  /\ orientation = [enabled |-> FALSE, ready |-> FALSE, state |-> "unknown"]
  /\ mProximityNear = FALSE /\ mPickUpState = FALSE
  /\ pending = {} /\ pulsed = FALSE /\ wakeLock = FALSE /\ shown = "none"

Init ==
  /\ display \in BOOLEAN /\ broadcasts = <<>>
  /\ gestures \in SUBSET Gestures /\ dozeSetting \in BOOLEAN
  /\ ServiceInit

(* isHandwaveEnabled, isPickUpEnabled, isPocketEnabled and                 *)
(* isProximityWakeEnabled: the wake gesture does not ask for doze.         *)
Enabled(g, doze) == g \in gestures /\ (doze \/ g = "wake")

(***************************************************************************)
(* The display, the settings and the process.                              *)
(***************************************************************************)
Notify(on) == broadcasts' = IF running THEN Append(broadcasts, on) ELSE broadcasts

SwitchDisplay ==
  /\ Len(broadcasts) < MaxBroadcasts
  /\ display' = ~display /\ Notify(~display)
  /\ UNCHANGED <<running, settings, mDozeEnabled, proximity, motion, mProximityNear,
                 mPickUpState, pending, pulsed, wakeLock, shown>>

(* The settings screen changes a preference and the listener follows. *)
SetGesture(g) ==
  /\ display
  /\ gestures' = IF g \in gestures THEN gestures \ {g} ELSE gestures \cup {g}
  /\ UNCHANGED <<screen, running, dozeSetting, mDozeEnabled, proximity, motion,
                 mProximityNear, mPickUpState, pending, pulsed, wakeLock, shown>>

(* Another application may change the doze setting at any time; nobody     *)
(* tells the service. *)
SetDoze ==
  /\ dozeSetting' = ~dozeSetting
  /\ UNCHANGED <<screen, running, gestures, mDozeEnabled, proximity, motion,
                 mProximityNear, mPickUpState, pending, pulsed, wakeLock, shown>>

(* acquire was given a timeout. *)
WakeLockExpires ==
  /\ wakeLock /\ wakeLock' = FALSE
  /\ UNCHANGED <<screen, running, settings, mDozeEnabled, proximity, motion,
                 mProximityNear, mPickUpState, pending, pulsed, shown>>

(* The process is killed: the system drops its listeners and its wake lock *)
(* and, START_STICKY, starts the service again. *)
ProcessDies ==
  /\ running
  /\ broadcasts' = <<>> /\ running' = FALSE /\ mDozeEnabled' = FALSE
  /\ proximity' = [enabled |-> FALSE, ready |-> FALSE, near |-> FALSE]
  /\ pickup' = OffAndReset(pickup, "unknown")
  /\ orientation' = OffAndReset(orientation, "unknown")
  /\ mProximityNear' = FALSE /\ mPickUpState' = FALSE /\ pending' = {}
  /\ pulsed' = FALSE /\ wakeLock' = FALSE /\ shown' = "none"
  /\ UNCHANGED <<display, settings>>

(***************************************************************************)
(* The display callbacks.                                                  *)
(***************************************************************************)
(* Mutant: the pick-up sensor is left running. *)
OnDisplayOnKeepsPickUp ==
  /\ proximity' = [enabled |-> FALSE, ready |-> FALSE, near |-> FALSE]
  /\ orientation' = OffAndReset(orientation, orientation.state)
  /\ UNCHANGED <<pickup, mDozeEnabled, pending, pulsed>>

OnDisplayOn ==
  /\ proximity' = [enabled |-> FALSE, ready |-> FALSE, near |-> FALSE]
  /\ pickup' = OffAndReset(pickup, "unknown")
  /\ orientation' = OffAndReset(orientation, orientation.state)
  /\ UNCHANGED <<mDozeEnabled, pending, pulsed>>

OnDisplayOff ==
  /\ mDozeEnabled' = dozeSetting /\ pulsed' = FALSE
  /\ IF \E g \in Gestures : Enabled(g, dozeSetting)
     THEN /\ proximity' = [enabled |-> TRUE, ready |-> FALSE, near |-> FALSE]
          /\ pickup' = OffAndReset(pickup, "unknown")
          /\ orientation' = OffAndReset(orientation, orientation.state)
          /\ pending' = {}
     ELSE UNCHANGED <<proximity, motion, pending>>

(* onCreate and onStartCommand: the receiver may be registered in time for *)
(* a broadcast of the state that isInteractive reports as well.            *)
StartService ==
  /\ ~running /\ running' = TRUE
  /\ broadcasts' \in {<<>>, <<display>>}
  /\ IF display
     THEN UNCHANGED <<mDozeEnabled, proximity, motion, pending, pulsed>>
     ELSE OnDisplayOff
  /\ UNCHANGED <<display, settings, mProximityNear, mPickUpState, wakeLock, shown>>

(* mScreenStateReceiver. *)
ReceiveBroadcast ==
  /\ broadcasts # <<>> /\ broadcasts' = Tail(broadcasts)
  /\ IF Head(broadcasts) THEN OnDisplayOn ELSE OnDisplayOff
  /\ shown' = "none"
  /\ UNCHANGED <<display, running, settings, mProximityNear, mPickUpState, wakeLock>>

(***************************************************************************)
(* What a gesture launches.                                                *)
(***************************************************************************)
(* What analyseDoze decides, from the gestures under analysis, the pick-up *)
(* state and the orientation.                                              *)
Decision(analysed, pickedUp, sensor) ==
  LET faces(o) == sensor.ready /\ sensor.state = o
      pulse == \/ "handwave" \in analysed /\ ~faces("face_down")
               \/ "pickup" \in analysed /\ pickedUp /\ ~mProximityNear
               \/ "pickup" \in analysed /\ ~pickedUp /\ faces("face_down")
               \/ "pocket" \in analysed /\ faces("vertical")
      wake == "wake" \in analysed /\ ~faces("face_down")
  IN IF pulse THEN "pulse" ELSE IF wake THEN "wake" ELSE "none"

(* launchDozePulse, not within five seconds of the last one, and           *)
(* launchDeviceWake, after which the power manager switches the display    *)
(* on; lock says whether the wake lock was held before.                    *)
Launch(what, lock) ==
  \/ /\ what = "pulse"
     /\ shown' = "pulse" /\ pulsed' = TRUE /\ wakeLock' = TRUE
     /\ UNCHANGED screen
  \/ /\ what = "none" \/ (what = "pulse" /\ pulsed)
     /\ shown' = "none" /\ wakeLock' = lock
     /\ UNCHANGED <<screen, pulsed>>
  \/ /\ what = "wake"
     /\ shown' = "wake" /\ wakeLock' = TRUE /\ display' = TRUE
     /\ IF display THEN UNCHANGED broadcasts ELSE Notify(TRUE)
     /\ UNCHANGED pulsed

(* Mutant: resetValues is not called. *)
RestorePickUpNoReset(pickupNow, orientationNow) ==
  /\ IF ~mProximityNear /\ Enabled("pickup", dozeSetting)
     THEN pickup' = On(pickupNow) /\ orientation' = Off(orientationNow)
     ELSE pickup' = pickupNow /\ orientation' = orientationNow
  /\ UNCHANGED pending

(* The end of analyseDoze: back to the pick-up sensor, no gesture pending. *)
RestorePickUp(pickupNow, orientationNow) ==
  /\ IF ~mProximityNear /\ Enabled("pickup", dozeSetting)
     THEN pickup' = On(pickupNow) /\ orientation' = Off(orientationNow)
     ELSE pickup' = pickupNow /\ orientation' = orientationNow
  /\ pending' = {}

(***************************************************************************)
(* The sensors' callbacks.                                                 *)
(***************************************************************************)
OrientationOn ==
  /\ pickup' = Off(pickup) /\ orientation' = On(orientation) /\ wakeLock' = TRUE

(* Mutant: the pick-up sensor is not started when nothing is analysed. *)
ReleasedNoPickUp(quickWave) ==
  LET enabled == {g \in Gestures : Enabled(g, dozeSetting)}
      analysed ==
        IF quickWave THEN enabled \cap {"handwave"} ELSE enabled \cap {"pickup", "pocket"}
  IN /\ pending' = analysed
     /\ IF analysed # {} THEN OrientationOn ELSE UNCHANGED <<motion, wakeLock>>

(* handleProximity when the sensor is released; the first case that fits. *)
Released(quickWave) ==
  LET enabled == {g \in Gestures : Enabled(g, dozeSetting)}
      all == {"handwave", "pickup", "pocket"}
      analysed ==
        IF all \subseteq enabled
        THEN IF quickWave THEN {"handwave"} ELSE {"pickup", "pocket"}
        ELSE IF quickWave THEN IF "wake" \in enabled THEN {"wake"}
                               ELSE enabled \cap {"handwave"}
        ELSE enabled \cap {"pickup", "pocket"}
  IN /\ pending' = analysed
     /\ IF analysed # {} THEN OrientationOn
        ELSE IF "pickup" \in enabled
        THEN pickup' = On(pickup) /\ orientation' = Off(orientation) /\ UNCHANGED wakeLock
        ELSE UNCHANGED <<motion, wakeLock>>

(* Mutant: the pick-up sensor keeps running in the pocket. *)
StowedKeepsPickUp ==
  /\ orientation' = Off(orientation)
  /\ UNCHANGED <<pickup, pending, wakeLock>>

Stowed ==
  /\ orientation' = Off(orientation) /\ pickup' = Off(pickup)
  /\ UNCHANGED <<pending, wakeLock>>

(* ProximitySensor.onSensorChanged: the first reading initialises, later   *)
(* ones are events when they differ from the last.                         *)
ProximityEvent(isNear, quickWave) ==
  /\ proximity.enabled
  /\ proximity' = [enabled |-> TRUE, ready |-> TRUE, near |-> isNear]
  /\ IF ~proximity.ready
     THEN /\ mProximityNear' = isNear
          /\ IF pending = {} /\ ~isNear /\ Enabled("pickup", mDozeEnabled)
             THEN pickup' = On(pickup) /\ orientation' = Off(orientation)
             ELSE UNCHANGED motion
          /\ UNCHANGED <<mDozeEnabled, pending, wakeLock>>
     ELSE IF proximity.near # isNear
     THEN /\ mProximityNear' = isNear
          /\ mDozeEnabled' = dozeSetting
          /\ IF isNear THEN Stowed ELSE Released(quickWave)
     ELSE UNCHANGED <<mProximityNear, mDozeEnabled, pending, motion, wakeLock>>
  /\ shown' = "none"
  /\ UNCHANGED <<screen, running, settings, mPickUpState, pulsed>>

(* handlePickUp; the wake lock of a gesture is taken before the analysis. *)
HandlePickUp(now) ==
  IF now.state = "true" /\ Enabled("pickup", dozeSetting)
  THEN /\ Launch(Decision(pending \cup {"pickup"}, TRUE, orientation), TRUE)
       /\ RestorePickUp(now, orientation)
  ELSE /\ pickup' = now /\ pending' = pending \ {"pickup"}
       /\ Launch("none", wakeLock) /\ UNCHANGED orientation

(* PickUpSensor.onSensorChanged: above the threshold, in the band between  *)
(* safe zone and threshold, or below the safe zone.                        *)
PickUpEvent(tilt) ==
  LET state == CASE tilt = "above" -> "true" [] tilt = "below" -> "false"
                 [] OTHER -> pickup.state
      now == [enabled |-> TRUE, ready |-> TRUE, state |-> state]
  IN /\ pickup.enabled
     /\ IF ~pickup.ready \/ state # pickup.state
        THEN mPickUpState' = (state = "true")
        ELSE UNCHANGED mPickUpState
     /\ IF pickup.ready /\ state # pickup.state
        THEN mDozeEnabled' = dozeSetting /\ HandlePickUp(now)
        ELSE /\ pickup' = now /\ Launch("none", wakeLock)
             /\ UNCHANGED <<mDozeEnabled, orientation, pending>>
     /\ UNCHANGED <<running, settings, proximity, mProximityNear>>

(* OrientationSensor.onSensorChanged with both readings there: the sensor  *)
(* is switched off before the analysis.                                    *)
OrientationEvent(o) ==
  LET now == [enabled |-> FALSE, ready |-> TRUE, state |-> o]
  IN /\ orientation.enabled
     /\ IF mProximityNear
        THEN /\ orientation' = now /\ Launch("none", wakeLock)
             /\ UNCHANGED <<pickup, pending, mDozeEnabled>>
        ELSE /\ mDozeEnabled' = dozeSetting
             /\ Launch(Decision(pending, mPickUpState, now), wakeLock)
             /\ RestorePickUp(pickup, now)
     /\ UNCHANGED <<running, settings, proximity, mProximityNear, mPickUpState>>

Next ==
  \/ SwitchDisplay \/ SetDoze \/ WakeLockExpires \/ ProcessDies
  \/ \E g \in Gestures : SetGesture(g)
  \/ StartService \/ ReceiveBroadcast
  \/ \E isNear \in BOOLEAN, quickWave \in BOOLEAN : ProximityEvent(isNear, quickWave)
  \/ \E tilt \in {"above", "between", "below"} : PickUpEvent(tilt)
  \/ \E o \in Orientations : OrientationEvent(o)

Spec == Init /\ [][Next]_vars

(***************************************************************************)
(* Properties.                                                             *)
(***************************************************************************)
(* No sensor runs while the display is on and its broadcasts were handled, *)
(* whatever was enabled, started or restored while it was off.             *)
SensorsOffWhileOn ==
  running /\ display /\ broadcasts = <<>> =>
    ~proximity.enabled /\ ~pickup.enabled /\ ~orientation.enabled

(* A gesture under analysis has the orientation sensor running that ends   *)
(* the analysis, unless the sensor was covered again: no m...Doze flag is  *)
(* left over for a later event.                                            *)
NoGestureForgotten ==
  pending # {} /\ proximity.enabled => orientation.enabled \/ mProximityNear

(* While the display is off and the proximity sensor free, a pick-up that  *)
(* is enabled is watched for, by the pick-up sensor or after the analysis  *)
(* the orientation sensor ends.                                            *)
PickUpSensed ==
  /\ ~display /\ broadcasts = <<>>
  /\ proximity.enabled /\ proximity.ready /\ ~mProximityNear
  /\ Enabled("pickup", mDozeEnabled)
  => pickup.enabled \/ orientation.enabled

(* The pick-up and the orientation sensor share the accelerometer: one     *)
(* runs at a time, and none under a covered proximity sensor.              *)
OneMotionSensor ==
  /\ ~(pickup.enabled /\ orientation.enabled)
  /\ mProximityNear => ~pickup.enabled /\ ~orientation.enabled
=============================================================================
