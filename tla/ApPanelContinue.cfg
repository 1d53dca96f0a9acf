SPECIFICATION Spec
CONSTANTS
  AP = {a}
  NoAP = NoAP
  MaxEvents = 2
PROPERTY UserCanContinue
