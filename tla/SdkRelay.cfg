SPECIFICATION MCSpec
CONSTANTS
  Defs <- MCDefs
  EffectNames <- MCEffectNames
  Inputs <- MCInputs
  Base = 3
  Tokens <- MCTokens
  Bounds <- MCBounds
  MaxScale = 5
  MaxSafeScale = 4
  MaxRepeat = 3
  FloatDigits = 2
  FloatPlaces = 4
  Places = 8
INVARIANTS
  NeverRefusesValid
  StructureEnforced
  SdksAgree
  ModelsLossless
  ArmsAgree
  TypesHold
  NumbersExact
CHECK_DEADLOCK FALSE
