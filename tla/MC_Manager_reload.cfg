\* The old reconciler's delete against the new one's create across a reload.
CONSTANTS
  Configs <- MC_Configs
  MaxChanges <- MC_MaxChanges
SPECIFICATION Spec
INVARIANT MeshResourcePresentWhileServing
CHECK_DEADLOCK FALSE
