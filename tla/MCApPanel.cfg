SPECIFICATION Spec
CONSTANTS
  AP = {a, b}
  NoAP = NoAP
  MaxEvents = 2
SYMMETRY Profiles
INVARIANTS TypeOK RowsTellTheLink ConnectedApIsLinked ButtonWithTitle OffIsEmpty RowsComeBack
