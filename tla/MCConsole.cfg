SPECIFICATION ConsoleSpec
CONSTANTS
  Member = {p1, p2, p3, p4}
  Session = {s1, s2, s3, s4}
  NoMember = NoMember
  NoSession = NoSession
SYMMETRY Symmetry
INVARIANTS
  ConsoleInv
  ReferencesExact
  SessionReferencesExact
  ExitedIsDetachable
  ClosedIsInert
  PoolSuffices
  CommandOfShell
  ChainsEnd
  NeverStranded
PROPERTIES
  OwnerMoves
