CONSTANT
  MaxBroadcasts = 2
SPECIFICATION Spec
INVARIANTS
  SensorsOffWhileOn
  OneMotionSensor
  NoGestureForgotten
  PickUpSensed

