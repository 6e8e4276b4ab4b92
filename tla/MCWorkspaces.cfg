CONSTANTS
  Requests = {r1, r2}
  u1 = u1
  Users = {u1}
  Anonymous = Anonymous
  Seed = Seed
  Nil = Nil
  InitialRoles <- MCInitialRoles
  MaxRoleChanges = 1
SYMMETRY RequestSymmetry
SPECIFICATION WorkspacesSpec
INVARIANTS
  RequestsAreAuthorized
  FilesAreWhole
  
  NothingOutlivesTheWorkspace
PROPERTY DecisionsStay
\* Each request is received once.
CHECK_DEADLOCK FALSE
