SPECIFICATION FairSpec
CONSTANTS
  Users = {u1, u2}
  TreeSize = 2
  SpentLeaves = {0, 1}
  MaxAttempts = 3
  MaxEvents = 3
  MaxGas = 2
  MaxFaults = 2
INVARIANTS
  NonceBoundToIdentity
  SlashedStaysOut
  ConfirmedIsRegistered
  
PROPERTIES
  RegistrationLands
