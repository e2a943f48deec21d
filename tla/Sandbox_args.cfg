SPECIFICATION SandboxSpec
CHECK_DEADLOCK FALSE
CONSTANTS Setups <- MCSetups
  Args <- MCArgs
INVARIANT VisibleReach
