SPECIFICATION AllSpec
CONSTANTS
  Task <- MCTask
  Name <- MCName
  Editable <- MCEditable
  MaxCrashes = 2
  Configs <- MCConfigs
  Profile <- MCProfile
  MaxKilled = 1
  Path <- MCPath
  Nodes <- MCNodes
  Skipped <- MCSkipped
  Unexported <- MCUnexported
  Private <- MCPrivate
  Foreign <- MCForeignX
  MaxEdits = 3
INVARIANTS
  DoneMoves
  RestIsUntouched
  DoesAsAsked
  BuildErrorsAreReal
  SuccessMirrors
PROPERTIES
  ScoreIsEarned
  SkippedUntouched
  Converges
