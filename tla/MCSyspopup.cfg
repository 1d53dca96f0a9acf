SPECIFICATION Spec
CONSTANTS
  AP = {a, b}
  NoAP = NoAP
  MaxIdlers = 2
  MaxTimers = 2
  MaxShows = 2
  MaxEvents = 2
SYMMETRY Profiles
\* The popup ends, and the program with it.
CHECK_DEADLOCK FALSE
INVARIANTS TypeOK OneConnectingRow GateIsGivenBack
PROPERTIES KeepsPromise
