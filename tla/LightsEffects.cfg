CONSTANTS
  Sessions = {s1}
  Gains = {2, 4}
  MaxSongs = 2
  MaxBroadcasts = 2
SPECIFICATION EffectsSpec
INVARIANTS
  EffectsAllowed
  NewestColour
  LedsFollowProperties
