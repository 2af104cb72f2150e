---------------------------- MODULE LightsEffects ----------------------------
(* The music lights: LightsEffectsService decides from its settings, the   *)
(* media sessions and the display whether the LEDs follow the music and in *)
(* which colour, and says so in two system properties; init then starts a  *)
(* program that reads them and sets up the LED controller.                 *)
(*                                                                         *)
(* The service's callbacks run one at a time on the main thread; what is   *)
(* concurrent is the display and its broadcasts, the sessions' events, the *)
(* tasks that compute a palette from a song's artwork, init and the        *)
(* program. Songs are numbered as the service hears of them and a song's   *)
(* number is its colour; 0 is the property value "0", or none, for no      *)
(* effects. The service's copies of the settings are the settings while it *)
(* runs, and what it registered for follows from them.                     *)
EXTENDS Naturals, Sequences

CONSTANTS
  Sessions,       \* media sessions
  Gains,          \* gains the user may choose: one digit, so read as written
  MaxSongs,       \* bound: songs heard of in one life of the service
  MaxBroadcasts   \* bound: display changes not yet handled

ASSUME BoundsOK ==
  /\ Gains \subseteq 1 .. 9 /\ MaxSongs \in Nat /\ MaxBroadcasts \in Nat

White == MaxSongs + 1
Modes == {"enable", "awake", "always"}
Off == [value |-> 0, gain |-> 0]

VARIABLES
  display, broadcasts,  \* the display; ACTION_SCREEN_ON and _OFF on their way
  misled,               \* history: the latest start guessed wrong, see StartService
  up,                   \* the service runs
  modes, gain,          \* the settings: LIGHTS_EFFECTS_MUSIC_...
  mAudioMusicPlaying, mDisplayState,
  mMediaActiveSessions, \* sessions with a callback of the latest list
  stale,                \* ... of an earlier list, until that is collected
  song,                 \* the latest song heard of, 0 before the first
  mLightsEffectsMusicColor,
  mPaletteTask,         \* the song whose palette is computed, or 0
  tasks,                \* tasks that compute a palette and were not cancelled
  value, gainProperty,  \* sys.lights_effects_value and _gain
  startQueued,          \* a change of a property waits in init
  missed,               \* init ignored a start since the program's last one
  process,              \* the program: its place and what it has read
  audioLeds             \* the controller: colour and gain, Off when not audio

settings == <<modes, gain>>
screen == <<display, broadcasts, misled>>
music == <<song, mLightsEffectsMusicColor, mPaletteTask, tasks>>
sessions == <<mMediaActiveSessions, stale>>
service == <<up, mAudioMusicPlaying, mDisplayState, sessions, music>>
properties == <<value, gainProperty, startQueued>>
controller == <<missed, process, audioLeds>>
effectsVars == <<screen, settings, service, properties, controller>>

Idle == [pc |-> "idle", value |-> 0, gain |-> 0]

EffectsInit ==
  /\ display \in BOOLEAN /\ broadcasts = <<>>
  /\ modes \in SUBSET Modes /\ gain \in Gains
  /\ misled = FALSE /\ up = FALSE /\ mAudioMusicPlaying = FALSE /\ mDisplayState = FALSE
  /\ mMediaActiveSessions = {} /\ stale = {}
  /\ song = 0 /\ mLightsEffectsMusicColor = White /\ mPaletteTask = 0 /\ tasks = {}
  /\ value = 0 /\ gainProperty = 0 /\ startQueued = FALSE
  /\ missed = FALSE /\ process = Idle /\ audioLeds = Off

(* updateLightsEffectsValue, with the state the callback leaves. *)
Shown(set, playing, on, colour) ==
  IF "enable" \in set /\ (playing \/ "always" \in set) /\ ("awake" \in set => on)
  THEN colour ELSE 0

UpdateValue(set, playing, on, colour) ==
  /\ value' = Shown(set, playing, on, colour) /\ startQueued' = TRUE
  /\ UNCHANGED gainProperty

(* mScreenStateReceiver is registered. *)
Registered(set) == {"enable", "awake"} \subseteq set

(* The sessions that still reach one of the service's callbacks. *)
Heard == mMediaActiveSessions \cup stale

(***************************************************************************)
(* The display and the settings.                                           *)
(***************************************************************************)
SwitchDisplay ==
  /\ Len(broadcasts) < MaxBroadcasts
  /\ display' = ~display
  /\ broadcasts' = IF up /\ Registered(modes) THEN Append(broadcasts, ~display)
                   ELSE broadcasts
  /\ UNCHANGED <<misled, settings, service, properties, controller>>

(* mScreenStateReceiver: only a change is handled. *)
ReceiveBroadcast ==
  /\ broadcasts # <<>> /\ broadcasts' = Tail(broadcasts)
  /\ mDisplayState' = Head(broadcasts) /\ misled' = FALSE
  /\ IF mDisplayState # Head(broadcasts)
     THEN UpdateValue(modes, mAudioMusicPlaying, Head(broadcasts), mLightsEffectsMusicColor)
     ELSE UNCHANGED properties
  /\ UNCHANGED <<display, settings, up, mAudioMusicPlaying, sessions, music, controller>>

(* setSessionMusic: enabling lists the sessions of the moment, disabling   *)
(* leaves the callbacks of earlier lists where they are.                   *)
SetSessionMusic(old, new) ==
  CASE "enable" \in new \ old -> mMediaActiveSessions' \in SUBSET Sessions
    [] "enable" \in old \ new -> mMediaActiveSessions' = {}
    [] OTHER -> UNCHANGED mMediaActiveSessions

(* The settings screen: to turn "always" on or off turns "awake" on as     *)
(* well, and while "always" is on "awake" cannot be chosen.                *)
Toggled(m) ==
  LET flipped == IF m \in modes THEN modes \ {m} ELSE modes \cup {m}
  IN IF m = "always" THEN flipped \cup {"awake"} ELSE flipped

(* setIntentScreen: a receiver that is unregistered gets none of what is on *)
(* its way, a new one perhaps the display's latest change.                  *)
SetIntentScreen(old, new) ==
  IF Registered(old)
  THEN broadcasts' = IF Registered(new) THEN broadcasts ELSE <<>>
  ELSE broadcasts' \in IF Registered(new) THEN {<<>>, <<display>>} ELSE {<<>>}

(* A preference changes and applySettings follows on the same thread; the  *)
(* two writes that "always" makes, each with its applySettings, are one    *)
(* step. While the service is not running nothing follows.                 *)
SetMode(m) ==
  /\ display
  /\ m # "enable" => "enable" \in modes
  /\ m = "awake" => "always" \notin modes
  /\ modes' = Toggled(m)
  /\ IF up
     THEN /\ SetIntentScreen(modes, Toggled(m))
          /\ SetSessionMusic(modes, Toggled(m))
          /\ UpdateValue(Toggled(m), mAudioMusicPlaying, mDisplayState, mLightsEffectsMusicColor)
          /\ misled' = FALSE
     ELSE UNCHANGED <<broadcasts, misled, mMediaActiveSessions, properties>>
  /\ UNCHANGED <<display, gain, up, mAudioMusicPlaying, mDisplayState, stale, music, controller>>

SetGain ==
  /\ display
  /\ "enable" \in modes
  /\ gain' \in Gains \ {gain}
  /\ IF up THEN gainProperty' = gain' /\ startQueued' = TRUE /\ UNCHANGED value
     ELSE UNCHANGED properties
  /\ UNCHANGED <<screen, modes, service, controller>>

(***************************************************************************)
(* The service's life.                                                     *)
(***************************************************************************)
(* onStartCommand, at boot or because the service is START_STICKY: it takes *)
(* the display to be on, and applySettings starts from fields that say      *)
(* nothing is enabled, so without any mode it leaves the value alone.       *)
StartService ==
  /\ ~up /\ up' = TRUE
  /\ misled' = (modes = {} \/ (Registered(modes) /\ ~display))
  /\ mAudioMusicPlaying' = FALSE /\ mDisplayState' = TRUE
  /\ SetIntentScreen({}, modes)
  /\ SetSessionMusic({}, modes)
  /\ gainProperty' = gain /\ startQueued' = TRUE
  /\ value' = IF modes # {} THEN Shown(modes, FALSE, TRUE, mLightsEffectsMusicColor)
              ELSE value
  /\ UNCHANGED <<display, settings, stale, music, controller>>

(* The process is killed; what it registered goes with it, the properties  *)
(* stay.                                                                   *)
ProcessDies ==
  /\ up /\ up' = FALSE /\ misled' = FALSE
  /\ broadcasts' = <<>> /\ mAudioMusicPlaying' = FALSE /\ mDisplayState' = FALSE
  /\ mMediaActiveSessions' = {} /\ stale' = {}
  /\ song' = 0 /\ mLightsEffectsMusicColor' = White /\ mPaletteTask' = 0 /\ tasks' = {}
  /\ UNCHANGED <<display, settings, properties, controller>>

(***************************************************************************)
(* The sessions' callbacks and the palette.                                *)
(***************************************************************************)
(* onActiveSessionsChanged registers the callback with the new list and    *)
(* leaves it registered with the old one.                                  *)
ActiveSessionsChanged ==
  /\ up /\ "enable" \in modes
  /\ mMediaActiveSessions' \in SUBSET Sessions
  /\ stale' = stale \cup mMediaActiveSessions
  /\ UNCHANGED <<screen, settings, up, mAudioMusicPlaying, mDisplayState, music,
                 properties, controller>>

(* Controllers of an earlier list are collected as garbage. *)
Collect(s) ==
  /\ s \in stale /\ stale' = stale \ {s}
  /\ UNCHANGED <<screen, settings, up, mAudioMusicPlaying, mDisplayState,
                 mMediaActiveSessions, music, properties, controller>>

PlaybackStateChanged ==
  /\ Heard # {}
  /\ mAudioMusicPlaying' \in BOOLEAN
  /\ UpdateValue(modes, mAudioMusicPlaying', mDisplayState, mLightsEffectsMusicColor)
  /\ UNCHANGED <<screen, settings, up, mDisplayState, sessions, music, controller>>

(* cancel on the main thread: onGenerated will not be called any more. *)
(* Mutant: the earlier task goes on. *)
CancelledKept(running) == running
Cancelled(running) == running \ {mPaletteTask}

MetadataChanged(artwork) ==
  /\ Heard # {} /\ song < MaxSongs
  /\ song' = song + 1
  /\ IF artwork
     THEN /\ mPaletteTask' = song'
          /\ tasks' = Cancelled(tasks) \cup {song'}
          /\ UNCHANGED <<mLightsEffectsMusicColor, properties>>
     ELSE /\ mPaletteTask' = 0
          /\ tasks' = Cancelled(tasks)
          /\ mLightsEffectsMusicColor' = song'
          /\ UpdateValue(modes, mAudioMusicPlaying, mDisplayState, song')
  /\ UNCHANGED <<screen, settings, up, mAudioMusicPlaying, mDisplayState, sessions, controller>>

(* Mutant: the new colour is shown at once. *)
OnGeneratedShows(n) ==
  /\ n \in tasks /\ tasks' = tasks \ {n}
  /\ mPaletteTask' = 0 /\ mLightsEffectsMusicColor' = n
  /\ value' = n /\ startQueued' = TRUE
  /\ UNCHANGED <<screen, settings, up, mAudioMusicPlaying, mDisplayState, sessions,
                 song, gainProperty, controller>>

(* The palette of a song's artwork arrives, enabled or not. *)
OnGenerated(n) ==
  /\ n \in tasks /\ tasks' = tasks \ {n}
  /\ mPaletteTask' = 0 /\ mLightsEffectsMusicColor' = n
  /\ UpdateValue(modes, mAudioMusicPlaying, mDisplayState, n)
  /\ UNCHANGED <<screen, settings, up, mAudioMusicPlaying, mDisplayState, sessions,
                 song, controller>>

(***************************************************************************)
(* init and the program.                                                   *)
(***************************************************************************)
(* "start" of a oneshot service that runs already does nothing. Starts     *)
(* that wait together are one: the later ones would find it running.       *)
InitStarts ==
  /\ startQueued /\ startQueued' = FALSE
  /\ IF process.pc = "idle"
     THEN process' = [Idle EXCEPT !.pc = "value"] /\ missed' = FALSE
     ELSE missed' = TRUE /\ UNCHANGED process
  /\ UNCHANGED <<screen, settings, service, value, gainProperty, audioLeds>>

ReadValue ==
  /\ process.pc = "value"
  /\ process' = [process EXCEPT !.pc = "gain", !.value = value]
  /\ UNCHANGED <<screen, settings, service, properties, missed, audioLeds>>

ReadGain ==
  /\ process.pc = "gain"
  /\ process' = [process EXCEPT !.pc = "write", !.gain = gainProperty]
  /\ UNCHANGED <<screen, settings, service, properties, missed, audioLeds>>

(* Mutant: the controller keeps its gain once it was on. *)
WrittenKeepsGain(v, g) ==
  IF v > 0 THEN [value |-> v, gain |-> IF audioLeds = Off THEN g ELSE audioLeds.gain] ELSE Off

Written(v, g) == IF v > 0 THEN [value |-> v, gain |-> g] ELSE Off

WriteLeds ==
  /\ process.pc = "write" /\ process' = Idle
  /\ audioLeds' = Written(process.value, process.gain)
  /\ UNCHANGED <<screen, settings, service, properties, missed>>

EffectsNext ==
  \/ SwitchDisplay \/ ReceiveBroadcast \/ SetGain
  \/ \E m \in Modes : SetMode(m)
  \/ StartService \/ ProcessDies
  \/ ActiveSessionsChanged \/ PlaybackStateChanged
  \/ \E s \in Sessions : Collect(s)
  \/ \E artwork \in BOOLEAN : MetadataChanged(artwork)
  \/ \E n \in 1 .. MaxSongs : OnGenerated(n)
  \/ InitStarts \/ ReadValue \/ ReadGain \/ WriteLeds

EffectsSpec == EffectsInit /\ [][EffectsNext]_effectsVars

(***************************************************************************)
(* Properties.                                                             *)
(***************************************************************************)
(* Effects are switched on only for a user who wants them, and with "only  *)
(* pulse with display on" only while it is: whatever the order of display, *)
(* settings, sessions, late palettes and restarts (each of them ends in    *)
(* updateLightsEffectsValue). A start that takes a dark display to be on,  *)
(* or leaves the value of an earlier life alone, breaks this; the first    *)
(* broadcast or preference handled after it has put that right.            *)
EffectsAllowed ==
  up /\ broadcasts = <<>> /\ ~misled /\ value > 0 =>
    "enable" \in modes /\ ("awake" \in modes => display)

(* A palette that took long never replaces the colour of a later song: the *)
(* colour is the latest song's unless its palette is still being computed. *)
NewestColour ==
  song > 0 => mLightsEffectsMusicColor = song \/ tasks = {song}

(* When nothing is under way the controller shows what the properties say, *)
(* unless init ignored a start because the program was running.            *)
LedsFollowProperties ==
  process.pc = "idle" /\ ~startQueued /\ ~missed =>
    IF value > 0 THEN audioLeds = [value |-> value, gain |-> gainProperty] ELSE audioLeds = Off
=============================================================================
