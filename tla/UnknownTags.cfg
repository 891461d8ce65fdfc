SPECIFICATION MCSpec
CONSTANTS
  Defs <- MCDefs
  EffectNames <- MCEffectNames
  Inputs <- ConnectionInputs
  Base = 3
  Tokens <- NoTokens
  Bounds <- MCBounds
  MaxScale = 5
  MaxSafeScale = 4
  MaxRepeat = 3
  FloatDigits = 2
  FloatPlaces = 4
  Places = 8
INVARIANT OtherTagsPreserved
CHECK_DEADLOCK FALSE
