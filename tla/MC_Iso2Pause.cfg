SPECIFICATION Spec
INVARIANT PausedMeansPowerOff
