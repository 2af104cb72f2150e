CONSTANTS
  NotificationStates <- MCNotificationStates
  AttentionStates <- MCAttentionStates
  BatteryStates <- MCBatteryStates
  BacklightColors <- MCBacklightColors
SPECIFICATION Spec
INVARIANTS
  LedsShowLights
  BlinksAsAsked
