SPECIFICATION Spec
CONSTANTS
  A = A
  Zero = Zero
  Addr = {Zero, A}
  Port = Port
  Junk = Junk
  Empty = Empty
  Absent = Absent
  Profiles <- MCProfiles
  MaxOpens = 2
  MaxEdits = 3
\* The views opened and the edits are bounded.
CHECK_DEADLOCK FALSE
INVARIANTS TypeOK TypedTextComesBack FormMatchesMethod
PROPERTIES LookingChangesNothing SavedAsShown ForgottenIsNotWritten
