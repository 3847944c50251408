\* Manager.run: reload, shutdown and the receiver generations.
CONSTANTS
  Configs <- MC_Configs
  MaxChanges <- MC_MaxChanges
SPECIFICATION Spec
INVARIANTS TypeOK ResourceRemovedOnCleanShutdown
PROPERTIES OldReceiversStop ShutdownCompletes
\* The process idles in its main loop when no signal and no config change
\* come, and it has exited in every other terminal state.
CHECK_DEADLOCK FALSE
