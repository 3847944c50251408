CONSTANT MaxEntries <- MC_MaxEntries
INIT Init
NEXT Next
INVARIANT NoPanicOnLoad
CHECK_DEADLOCK FALSE
