CONSTANT MaxEntries <- MC_MaxEntries
INIT Init
NEXT Next
INVARIANT TypeOK
INVARIANT NewMatchesReference
CHECK_DEADLOCK FALSE
