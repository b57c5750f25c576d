SPECIFICATION Spec
CONSTANTS
  Keys <- OneKey
  Remotes <- Extender
  Users <- Everyone
  MaxToken = 2
  MaxFrames = 1
  AgeLimit = 1
INVARIANTS SerializerIsSafe HeldKeysBelongToTheSource StreamIsSound
PROPERTIES KeysFollowTheirAdmission FaultsAreCurrent
