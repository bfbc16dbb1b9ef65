\* Queries of up to four words of eleven kinds, five machines, three platforms.
SPECIFICATION Spec
CONSTANTS
  Word = {"wifi", "lento", "disco", "ventilador", "ram", "video", "algo", "hola", "puedes", "y", "123"}
  Meaning <- Meanings
  Machines <- FiveMachines
  Silences <- SomeSilences
  Hosts <- HostMachines
  MaxWords = 4
INVARIANTS
  SelectionIsJustified
  RecommendationsAreTheBest
  ReviewMeansSeen
  DoctorIsHonest
  FeasibilityIsMonotone
CHECK_DEADLOCK FALSE
