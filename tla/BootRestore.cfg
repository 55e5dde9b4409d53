SPECIFICATION Spec
CONSTANTS
  Types = {"SYSCFG", "FW"}
  SYSCFG = "SYSCFG"
  FW = "FW"
  Imgs = {"a", "b"}
  Backup = {"b"}
  N = 2
  Packages <- MCPackages
  Vers = {1, 2}
  ReadsFail = TRUE
  MaxFailures = 1
  Unreadable = Unreadable
INVARIANT OkMeansStored
