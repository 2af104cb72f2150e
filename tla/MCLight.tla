------------------------------ MODULE MCLight ------------------------------
EXTENDS Light

State(rgb, alpha, flash, on, off) ==
  [rgb |-> rgb, alpha |-> alpha, flash |-> flash, on |-> on, off |-> off]

Red == <<255, 0, 0>>
Orange == <<255, 128, 0>>
Amber == <<255, 192, 0>>

MCNotificationStates ==
  {Unlit, State(Orange, 100, "timed", 500, 2000), State(Amber, 255, "timed", 500, 0)}
  \cup {State(rgb, 255, "none", 0, 0) : rgb \in {Red, Orange, Amber}}
  \cup {State(rgb, 255, "timed", on, 2000) : rgb \in {Red, Orange, Amber}, on \in {500, 1000}}
MCAttentionStates == {Unlit, State(<<255, 255, 255>>, 0, "hardware", 7, 1000)}
MCBatteryStates ==
  {Unlit, State(Red, 255, "timed", 500, 2000)}
  \cup {State(rgb, alpha, "none", 0, 0) : rgb \in {Red, Orange, Amber}, alpha \in {100, 255}}
MCBacklightColors == {<<0, 0, 0>>, <<255, 255, 255>>}
=============================================================================
