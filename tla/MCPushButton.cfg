\* Two buttons, a time that wraps, and a window of two ticks.
SPECIFICATION Spec
CONSTANTS
  N = 2
  W = 8
  ShortPress = 2
  Window = 2
  Required = 2
  Start = 6
  MaxTicks = 5
INVARIANTS
  OneEffectPerPress
PROPERTIES
  ClicksWereMade
  BurstLasts
  LongPressWasHeld
