CONSTANTS
  Size = 4
  Window = 2
  Ring = 3
  Timeout = 2
  Attempts = 2
  MaxFaults = 1
SPECIFICATION Spec
INVARIANT DataIsNeverObeyed
CHECK_DEADLOCK FALSE
