\* One key, any receipt that can exist.
SPECIFICATION VerifySpec
CONSTANTS
  root = root  signer = signer  ca = ca
  None = None
  Keys = {signer}
  MaxTime = 2
  Bodies <- MCBodies
  Authorities = {ca}
  Honest = {ca}
  Loose = {signer}
  ToImport <- SelfIssued
INVARIANTS
  RevokedNotAccepted
  RequiredEstablished
CHECK_DEADLOCK FALSE
