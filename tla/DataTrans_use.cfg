SPECIFICATION Spec
CONSTANT SessionMax = 1
INVARIANT UsesLiveMemory
\* The object may be destroyed; then nothing is left to do.
CHECK_DEADLOCK FALSE
