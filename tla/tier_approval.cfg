SPECIFICATION Spec
CONSTANTS
  ann = ann
  bob = bob
  cyd = cyd
  Nobody = Nobody
  Unsigned = Unsigned
  Requester = ann
  People <- MCPeople
  Levels <- MCLevels
  MinAmount <- MCMinAmount
  Holders <- MCHolders
  Amounts = {0, 1, 2, 3}
INVARIANTS TypeOK OutcomeAnnounced
PROPERTY ImplementsDecision
