SPECIFICATION Spec
INVARIANT BoundsEnforced
CHECK_DEADLOCK FALSE
