SPECIFICATION EffectsFairSpec
CHECK_DEADLOCK FALSE
CONSTANT FunSets <- MCRedeclared
PROPERTY EffectsSettle
