SPECIFICATION Spec
CONSTANTS
  bob = bob
  zoe = zoe
  blank = blank
  system = system
  pm = pm
  accounts = accounts
  gm = gm
  e1 = e1
  e2 = e2
  Nil = Nil
  People <- MCPeople
  Blank <- blank
  System <- system
  Admins <- MCAdmins
  DeskKeys <- MCDesks
  Staff <- MCStaff
  Permitted <- MCPermitted
  Skips <- NoSkips
  Matrices <- Material
  Amounts = {1, 2}
  Processes <- OneProcess
  MaxHistory = 5
INVARIANT SignedByEveryDesk
