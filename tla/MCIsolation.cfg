SPECIFICATION MCSpec
CONSTANTS
  Cases = {"allowed", "denied", "timeout", "cancel", "missing-protection"}
INVARIANTS OnlyAttestedRuns  AckMeansBoth  NoOrphanVM
PROPERTIES SandboxEnds MicroVMEnds
CHECK_DEADLOCK FALSE
