SPECIFICATION FairSpec
CONSTANTS
  Calls = {c, d}
  NoCall = NoCall
  MaxMsgs = 3
\* The gadget ends.
CHECK_DEADLOCK FALSE
INVARIANTS TypeOK ActivatingHasCause OnePrompt NoAnswerAfterExit
PROPERTY ActivatingEnds
