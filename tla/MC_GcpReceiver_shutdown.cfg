\* The process stops after Start has returned and the fan-out has left its
\* loop; with no more messages nothing runs either.  Neither is a deadlock.
CONSTANTS
  NumMsgs <- MC_NumMsgs
  Bad <- MC_Bad
  Outstanding <- MC_Outstanding
  ApiCap <- MC_ApiCap
  MaxRedeliveries <- MC_MaxRedeliveries
SPECIFICATION Spec
PROPERTY
  ShutdownReturns
CHECK_DEADLOCK FALSE
