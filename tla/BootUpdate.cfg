SPECIFICATION Spec
CONSTANTS
  Types = {"SYSCFG", "FW"}
  SYSCFG = "SYSCFG"
  FW = "FW"
  Imgs = {"a", "b"}
  Backup = {"b"}
  N = 2
  Packages <- MCPackages
  Vers = {1, 2}
  ReadsFail = FALSE
  MaxFailures = 2
  Unreadable = Unreadable
INVARIANTS TypeOK Failsafe OkMeansStored OneVersion
PROPERTY Repeatable
