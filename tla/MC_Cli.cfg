\* Each command once or more, a script with a helper, either or both signals; two
\* installations over what they may find.
SPECIFICATION Spec
CONSTANTS
  ArgLists <- Calls
  Script = {"status"}
  OtherServer = {"figma"}
  Paragraph = {"later"}
  Configs <- FoundConfigs
  Guides <- FoundGuides
  MaxCalls = 2
INVARIANTS
  NoOrphanUnawares
  InstallKeepsTheRest
PROPERTIES
  SignalledEnds
CHECK_DEADLOCK FALSE
