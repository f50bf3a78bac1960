\* safeExecuteContract with its safeQuery fallback
CONSTANTS
    Helper = "execute"
    MaxAttempts = 3
SPECIFICATION Spec
INVARIANT AtMostOnce
