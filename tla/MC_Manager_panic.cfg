\* The config watcher's send on m.configChan against the close in the drain.
CONSTANTS
  Configs <- MC_Configs
  MaxChanges <- MC_MaxChanges
SPECIFICATION Spec
INVARIANT NoSendOnClosedChannel
CHECK_DEADLOCK FALSE
