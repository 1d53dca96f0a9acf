SPECIFICATION Spec
CONSTANTS
  AP = {a}
  NoAP = NoAP
  MaxEvents = 2
INVARIANT NoStrayTitle
