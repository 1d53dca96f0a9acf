SPECIFICATION Spec
CONSTANTS
  MaxIdlers = 2
  MaxTimers = 2
  MaxTransitions = 2
  MaxNotes = 2
INVARIANT PasswordPopupHoldsGate
