SPECIFICATION Spec
CONSTANTS
  AP = {a}
  NoAP = NoAP
  MaxIdlers = 1
  MaxTimers = 1
  MaxShows = 1
  MaxEvents = 2
\* The popup ends, and the program with it.
CHECK_DEADLOCK FALSE
PROPERTY AlertIsAllocated
