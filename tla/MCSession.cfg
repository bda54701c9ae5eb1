SPECIFICATION LiveSpec
CONSTANTS
  Versions <- MCVersions
  Words <- MCWords
  Lists <- MCLists
  SubLists <- MCSubLists
  VeNCryptLists <- MCVeNCryptLists
  MaxSasl = 4
  HaveSASL = TRUE
INVARIANTS
  InStep
  JoinedTogether
  ChoiceHandled
  NothingUnverified
  CrashesOnly
PROPERTY Decided
